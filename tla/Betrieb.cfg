SPECIFICATION MCSpec
CONSTANTS
    Vorgaenge = {c1}
    Abschluesse = {z1, z2}
    Schichten = {}
    k1 = k1
    k2 = k2
    Kassen = {k1, k2}
    KasseVon <- Eine
    LetzterTag = 2
    Hoechstalter = 1
    Liegengeblieben = {1}
    r = r
    Geraete = {t1}
    Kassenschichten = {s1, s2}
    Kassenbelege = {c1}
    Bewegungen = {m1, m2}
    Referenz <- MCReferenz
    Zaehlungen = {z1, z2}
    Ohne = Ohne
    HoechstensVersuche = 3
    AlsGelungenNach = 2
    Wartezeit = 2
    Anschriften = {h1}
    Stumm = Stumm
INVARIANTS
    ZFolgeLueckenlos
    AntwortIstDieZaehlung
    BewegungNurEinmal
    EinHerr
    AufgabeBegruendet
PROPERTIES
    IstKassenbuch
    AbschlussEndet
    VorgangEndet
    SollIstDieLade
    IstSchichtbuch
    KasseAntwortet
    GibtAuf
