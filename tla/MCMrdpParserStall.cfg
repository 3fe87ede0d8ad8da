SPECIFICATION FairSpec
CONSTANTS
  Header = 2
  Payload <- Sizes
  BufferMax = 7
  MaxSent = 3
PROPERTIES
  AllHandled
