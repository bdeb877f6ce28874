CONSTANTS
  NoEdit = NoEdit
  Areas <- MCAreas
  Freqs = {14, 9}
  Rates = {4}
  Multipliers = {2, 3}
  Scale = 8
  Sizes = {5}
  MaxTimer = 3
  MaxSpan = 4
  Levels = {0, 1, 64, 127, 128, 254, 255}
  Weights = {0, 1, 128, 254, 255}
  Paths = {"scalar", "x86", "arm"}
  Lengths = {3, 55, 56, 64, 130}
  Pieces = {40, 64, 32768}
  Files = {f1, f2, f3}
  NoFile = NoFile
  s_mru_limit = 2
  MaxVolume = 2
  Radix = 2
  Periods = {5, 8}
  Millis = 2
  Threshold = 4
  Grace = 1
  MaxSleep = 6
  MaxWork = 11
  MaxTime = 30
SPECIFICATION DevicesSpec
INVARIANT HashIsAlwaysStandard
CHECK_DEADLOCK FALSE
