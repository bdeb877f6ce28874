CONSTANTS
  MaxFrames = 5
  Producers = {p1, p2}
  N = 2
  MaxPush = 3
  MaxPolls = 4
  Hook = {h1, h2, h3}
SPECIFICATION SharedSpec
INVARIANTS SnapshotIsTheRing FileIsTheLog KeysAreOnePoll HooksRunOnce
PROPERTIES PublishedIsTaken ImplementsMailbox  HookRuns
CHECK_DEADLOCK FALSE
