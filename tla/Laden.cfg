SPECIFICATION MCSpec
CONSTANTS
    Vorgaenge = {p1, p2}
    Abschluesse = {a1}
    Schichten = {t1}
    k1 = k1
    k2 = k2
    Kassen = {k1}
    KasseVon <- Eine
    LetzterTag = 2
    Hoechstalter = 1
    Liegengeblieben = {1}
    v1 = v1
    v2 = v2
    b1 = b1
    b2 = b2
    c1 = c1
    c2 = c2
    c3 = c3
    Stuecke = {s1, s2}
    Halter = {h1, h2}
    Verkaeufe = {v1, v2, v3}
    Ankaeufe = {}
    Schluessel = {c1, c2, c3}
    SchluesselVon <- MCSchluessel
    Stornos = {}
    Rueckgaben = {}
    Pflegen = {f1}
    Bestand = {s1, s2}
    Altverkauf = {}
    Altstuecke = {}
    Niemand = Niemand
    q1 = q1
    q2 = q2
    q3 = q3
    u1 = u1
    u2 = u2
    Rufe = {q1, q2, q3}
    Adressen = {u1, u2}
    Adresse <- MCAdresse
    Schwelle = 2
    Anlaeufe = 3
SYMMETRY MCSymmetrie
INVARIANTS
    ZBonVollstaendig
    NachtragAusgewiesen
    AnkerUmfasstTag
    UmsatzGedeckt
    KeinDoppelverkauf
    OffenHeisstSchwelle
PROPERTIES
    AbbruchNurOhneInteresse
