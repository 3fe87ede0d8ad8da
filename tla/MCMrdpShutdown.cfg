SPECIFICATION Spec
CONSTANTS
  Tile = {t1, t2}
  Client = {c1}
  Detached = detached
  MaxDraw = 1
  MaxReq = 1
  Fault = {}
INVARIANTS
  ShutdownAnnounced
