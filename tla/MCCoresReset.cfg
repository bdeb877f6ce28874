CONSTANTS
  W = 16
  H = 4
  ByteW = 2
  Rows = 2
  ScrollW = 2
  Memory <- MCMemory
  Xs <- MCXs
  Ys <- MCYs
  MaxOps = 3
  MaxDraws = 2
  Register <- MCRegister
  VF = 2
  Base = 4
  BitNumbers <- MCBits
  Words <- MCWords
  ProgramSize = 4
  s1 = s1
  s2 = s2
  g1 = g1
  g2 = g2
SPECIFICATION CoresSpec
INVARIANT FrameStaysInBounds
