SPECIFICATION NachSpec
CONSTANTS
    Belege = {b1}
    Nachreicher = {n1}
    Keiner = Keiner
CHECK_DEADLOCK FALSE
INVARIANT SigniertesWirdNichtAufgegeben
