SPECIFICATION Spec
CONSTANTS
  Agents = {}
  Humans = {human}
  Readers = {r}
  DefaultTurns = 1
  TurnOverrides = {2}
  Unset = Unset
  RateMax = 2
  Window = 2
  PageLimit = 1
  ClockTrusted = FALSE
  MaxTime = 3
  MaxMessages = 3
INVARIANT NothingInvisible
