SPECIFICATION FairSpec
CONSTANTS
  Agents = {bot}
  Humans = {human}
  Readers = {r}
  DefaultTurns = 1
  TurnOverrides = {2}
  Unset = Unset
  RateMax = 2
  Window = 2
  PageLimit = 1
  ClockTrusted = TRUE
  MaxTime = 3
  MaxMessages = 3
INVARIANT NoRunaway
INVARIANT InAcceptanceOrder
INVARIANT NothingInvisible
INVARIANT RateHolds
PROPERTY EveryMessageIsRead
