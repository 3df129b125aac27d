SPECIFICATION FairSpec
CONSTANTS
  Dfas <- MCDfas
  MaxLen = 3
  Base = 2
  Wrap = 6
  Words <- MCWords
  Ranks <- MCRanks
  Alphabets = {1, 2}
INVARIANTS
  TypeOK
  UnrankInRange
  UnrankSucceeds
  RankInvertsUnrank
  TablesCountWords
  LanguageOfText
  LanguageReplaced
  UnrankFollowsOrder
  RankFollowsOrder
  AnswersAsRanker
PROPERTY
  CallsEnd
