SPECIFICATION FairSpec
CONSTANTS
  Tile = {t1, t2}
  Client = {c1}
  Detached = detached
  MaxDraw = 2
  MaxReq = 2
  Fault = {"reset", "full"}
INVARIANTS
  TypeOK
  UpdateNeverLost
  ImageBeforePixels
  QuietShowsScreen
  HandshakeGoesOn
PROPERTIES
  IsScreenMirror
  SessionOpens
  Converges
