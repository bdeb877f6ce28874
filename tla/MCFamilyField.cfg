CONSTANTS
  Keys <- MCKeys
  FirstSpan = 3
  RepeatSpan = 2
  NoKey = NoKey
  Size = 3
  Last = 3
  Boot = 1
  Values <- MCValues
  Uses <- MCUses
  EditorSize = 3
  EditorRadix = 4
  Typable = {1}
  Longest = 2
  PreviewSize = 2
  c_max_addr = 99
  Radix = 2
  Levels = 2
  cpf = 2
  Lengths = {5, 8}
  MaxFrames = 2
SPECIFICATION FamilySpec
INVARIANT FieldShowsMemory
CHECK_DEADLOCK FALSE
