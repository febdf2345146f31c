CONSTANTS
  ChannelIds = {c1, c2, c3}
  Fds = {fd1, fd2}
  None = none
  KInitEventListSize = 1
SPECIFICATION Spec
SYMMETRY Symmetry
INVARIANTS TypeOK NoFatal KernelMirrors MapMirrors NoDangling ListBounded
