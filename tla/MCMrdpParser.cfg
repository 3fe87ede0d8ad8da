SPECIFICATION FairSpec
CONSTANTS
  Header = 2
  Payload <- Sizes
  BufferMax = 7
  MaxSent = 4
INVARIANTS
  TypeOK
  NoMissedWakeup
  SilentOnlyWhileBuffered
  CaughtUp
PROPERTIES
  IsMessageStream
  ReadsOn
