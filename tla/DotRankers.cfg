SPECIFICATION Spec
CONSTANTS
  Base = 3
  MaxLens <- MCMaxLens
  Words <- MCWords
  Ranks <- MCRanks
  MaxCounts = 2
INVARIANTS
  RankInvertsUnrank
  UnrankInvertsRank
  CountCoversRanks
  CountBoundsWords
  RankFollowsOrder
