SPECIFICATION Spec
CONSTANTS
  Dfas <- MCDfas
  MaxLen = 3
  Base = 2
  Wrap = 6
  Words <- MCWords
  Ranks <- MCRanks
  Alphabets = {1, 2}
INVARIANT
  EveryIndexUnranks
