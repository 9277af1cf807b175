SPECIFICATION MCSpec
CONSTANTS
    v1 = v1
    v2 = v2
    Vorgaenge = {v1, v2}
    l1 = l1
    l2 = l2
    Laeufe = {l1, l2}
    Niemand = Niemand
    Belege = {b1}
    n1 = n1
    n2 = n2
    Nachreicher = {n1, n2}
    Keiner = Keiner
    g1 = g1
    Gesten = {g1}
    a1 = a1
    a2 = a2
    Anfragen = {a1, a2}
    w1 = w1
    w2 = w2
    Boten = {w1, w2}
    Offen = Offen
CHECK_DEADLOCK FALSE
INVARIANTS
    AbsichtGehtNichtVerloren
    SignaturEinmal
    AuskunftStimmt
    BezahltIstBelastet
    WeichIstKeinFehlschlag
PROPERTIES
    BleibtBelegstelle
    IstSignaturbuch
    IstKartenverkauf
    NurAbbruchVerfehlt
    FolgeGewahrt
    EingereihtWirdEntschieden
    ZeileEndet
    ErfolgBleibt
    WartenEndet
