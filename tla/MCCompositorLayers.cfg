SPECIFICATION Spec
CONSTANTS
  Tile = {u, w}
  WaveTile = {w}
  IvTile = {u}
  Pixel = {blank, ink}
  Blank = blank
  Erased = erased
  Off = off
  Place = {}
  FlagInit <- AllOn
  Switchable = {"wv"}
INVARIANTS
  TypeOK
  DirtyExclusive
  WaveUpdateNeverLost
  WholeFrames
  FlushIsSynchronous
PROPERTIES
  IsAtomic
