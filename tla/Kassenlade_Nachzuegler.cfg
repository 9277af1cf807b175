SPECIFICATION LadeSpec
CONSTANTS
  r = r
  Geraete = {g1}
  Kassenschichten = {s1}
  Kassenbelege = {b1}
  Bewegungen = {}
  Referenz <- MCReferenz
  Zaehlungen = {z1}
  Ohne = Ohne
CHECK_DEADLOCK FALSE
INVARIANT SturzSiehtJedesBein
