SPECIFICATION FairSpec
CONSTANTS
  Busy = TRUE
  MaxQueue = 3
  v1 = v1
  v2 = v2
  Viewer <- Viewers
  MaxProxy <- Attempts
INVARIANTS
  TypeOK
  NotifyFindsCompositor
  NotifiedOnce
  StopHangsUp
  ButtonTells
  OneParser
  StopIsAhead
PROPERTIES
  UpdatesHandledOnce
  CallsReturn
  StopNoticed
