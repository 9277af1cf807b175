SPECIFICATION Spec
CONSTANTS
    Vorgaenge = {p1}
    Abschluesse = {a1}
    Schichten = {s1}
    k1 = k1
    k2 = k2
    Kassen = {k1, k2}
    KasseVon <- Eine
    LetzterTag = 2
    Hoechstalter = 1
    Liegengeblieben = {}
INVARIANT
    SturzInZBon
