SPECIFICATION Spec
CONSTANTS
  HeaderSize = 2
  Limit = 2
  Streams <- MCStreams
  Tls = FALSE
INVARIANT FreeReleasesPacket
