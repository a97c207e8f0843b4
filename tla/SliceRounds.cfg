SPECIFICATION RoundsSpec
CONSTANTS
  Elements = {a, b, c}
  MaxLen = 3
  MaxChanges = 1
INVARIANT WantedIsKept
PROPERTY OneMorePerRound
PROPERTY RoundsConverge
