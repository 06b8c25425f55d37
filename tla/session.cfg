SPECIFICATION FairSpec
CONSTANTS
  Params <- ParamSpace
  Fds = {3, 4, 5}
  NoFd <- MCNoFd
INVARIANTS
  TypeOK
  FdOwnership
  TlsBeforeLogin
  ProxyAnswerFirst
  PasswordLifetime
  SpeaksToServer
  EndpointKnown
  PortRecorded
PROPERTIES
  KeepsContract
  LoginSettles
