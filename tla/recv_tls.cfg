SPECIFICATION FairSpec
CONSTANTS
  HeaderSize = 2
  Limit = 2
  Streams <- MCStreams
  Tls = TRUE
PROPERTY PacketsDelivered
