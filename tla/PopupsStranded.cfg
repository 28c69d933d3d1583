SPECIFICATION Spec
CONSTANTS
  NULL = NULL
  Plugins = {p1, p2}
  Numbers = {1, 2}
  Ids = {w1, w2, w3, w4}
  PokeCap = 2
  PlaceCap = 3
INVARIANT
  NoStrandedPick
