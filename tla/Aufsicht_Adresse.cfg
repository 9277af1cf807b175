SPECIFICATION AufsichtFairSpec
CONSTANTS
    HoechstensVersuche = 3
    AlsGelungenNach = 2
    Wartezeit = 2
    Anschriften = {h1, h2}
    Stumm = Stumm
CHECK_DEADLOCK FALSE
PROPERTY FensterFindetMotor
