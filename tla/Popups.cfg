SPECIFICATION FairSpec
CONSTANTS
  NULL = NULL
  Plugins = {p1, p2}
  Numbers = {1}
  Ids = {w1, w2, w3, w4}
  PokeCap = 1
  PlaceCap = 2
INVARIANTS
  SurfacesAgree
  ModulePopupSound
  PickNotLost
PROPERTIES
  PicksServed
