SPECIFICATION WareSpec
CONSTANTS
  v1 = v1
  v2 = v2
  b1 = b1
  b2 = b2
  c1 = c1
  c2 = c2
  c3 = c3
  Stuecke = {s1}
  Halter = {h1}
  Verkaeufe = {v1, v2}
  Ankaeufe = {}
  Schluessel = {c1, c2, c3}
  SchluesselVon <- MCSchluessel
  Stornos = {}
  Rueckgaben = {}
  Pflegen = {}
  Bestand = {s1}
  Altverkauf = {}
  Altstuecke = {}
  Niemand = Niemand
CHECK_DEADLOCK FALSE
PROPERTY WiederholungBekommtDenBeleg
