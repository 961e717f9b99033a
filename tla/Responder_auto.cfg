SPECIFICATION FairSpec
CONSTANTS
  Grace = 2
  Flush = 1
  Off = Off
  Slack = 1
  MaxNet = 1
  TurnLimit = 1
  Kinds = {"ask", "peer"}
  MaxMessages = 3
INVARIANT OnlyErrorsRepeat
INVARIANT KilledGroupGone
PROPERTY ImplementsAnswering
PROPERTY LeaderNeverLeft
PROPERTY WakesOnHuman
PROPERTY EveryMessageIsSeen
