SPECIFICATION Spec
CONSTANTS
  Tile = {u, w}
  WaveTile = {w}
  IvTile = {}
  Pixel = {blank}
  Blank = blank
  Erased = erased
  Off = off
  Place = {u, w, off}
  FlagInit <- AllOn
  Switchable = {}
INVARIANTS
  CursorFollows
