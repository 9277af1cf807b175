SPECIFICATION LeserSpec
CONSTANTS
    Gesten = {g1}
    Anfragen = {a1}
    Boten = {w1}
    Offen = Offen
CHECK_DEADLOCK FALSE
INVARIANT StornoIstStorniert
