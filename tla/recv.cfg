SPECIFICATION FairSpec
CONSTANTS
  HeaderSize = 2
  Limit = 2
  Streams <- MCStreams
  Tls = FALSE
INVARIANTS
  TypeOK
  Intact
  BufferOwned
PROPERTY PacketsDelivered
