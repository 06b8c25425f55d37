SPECIFICATION Spec
CONSTANTS
  Params <- ParamSpace
  Fds = {3, 4}
  NoFd <- MCNoFd
INVARIANT FallbackReachesHub
