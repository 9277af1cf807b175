SPECIFICATION AusgangSpec
CONSTANTS
    Vorgaenge = {v1, v2}
    Laeufe = {l1}
    Niemand = Niemand
CHECK_DEADLOCK FALSE
PROPERTY HaltHinterKonflikt
