SPECIFICATION TeilSpec
CONSTANTS
  v1 = v1
  v2 = v2
  b1 = b1
  b2 = b2
  c1 = c1
  c2 = c2
  c3 = c3
  Stuecke = {s1, s2, s3}
  Halter = {h1}
  Verkaeufe = {v1, v3}
  Ankaeufe = {b1, b2}
  Schluessel = {c1, c2, c3}
  SchluesselVon <- MCSchluessel
  Stornos = {q1, q2}
  Rueckgaben = {r1, r2}
  Pflegen = {p1}
  Bestand = {s2}
  Altverkauf = {v1}
  Altstuecke = {s1}
  Niemand = Niemand
CHECK_DEADLOCK FALSE
INVARIANTS BestandPasstZuBelegen ArchiviertBleibtVerkauft BelegStueckBleibt RuecknahmeNurAltes
PROPERTIES IstBelegstelle IstEinzelstueck AnfrageWirdBeantwortet
