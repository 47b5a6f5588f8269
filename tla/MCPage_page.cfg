SPECIFICATION LiveSpec
CHECK_DEADLOCK FALSE
CONSTANTS
  Limits = {2}
  Defaults <- ShortByDefault
  Texts <- SomeTexts
  MostTokens = 2
  MostTurns = 2
INVARIANTS
  TypeOK
  ShownIsTheReply
  NoteIsTrue
  HistoryIsReplies
PROPERTIES
  AskEnds
