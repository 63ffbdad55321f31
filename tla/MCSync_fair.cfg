CONSTANTS
  MaxUpdates = 2 MaxLosses = 1 MaxKills = 1 MaxAhead = 1
  Members = {u1, u2} MaxVersion = 3 MaxFeed = 2 MaxRepeats = 1 MaxStarts = 1
  Users = {p1} Chats = {c1} Names = {A, B} None = none Blank = blank
  MaxAnswers = 3 MaxQueue = 0 MaxRestarts = 1
SPECIFICATION Spec
INVARIANTS UpdatesRight ParticipantsRight NamesRight
PROPERTIES NeverBack CatchesUp ListNeverOlder AstrayOnlyUnderWrongName
CHECK_DEADLOCK FALSE
