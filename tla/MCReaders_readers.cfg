SPECIFICATION Spec
CONSTANTS
  Cards = {a}
  MaxMessages = 2
  MaxHellos = 2
  PageLimit = 1
  RestFails = TRUE
  Limit = 1
  lax = lax
  tight = tight
  small = small
  big = big
  key = key
  Configs = {lax, tight}
  Broken = Broken
  Absent = Absent
  MaxEdits = 2
  MaxFaults = 1
  Contents = {small, big, key}
  Secret = {key}
  Admits <- MCAdmits
  Frees <- MCFrees
  Talkative = {lax}
  Jobs = {call}
  Tickets = {t}
  None = None
  MaxRewrites = 1
  Fetchers = {f1, f2}
  Parts = 2
  Nowhere = Nowhere
  low = low
  high = high
  Fields = {turns, summary}
  Settings = {turns}
  Values = {low, high}
  Nothing = Nothing
  MaxChanges = 3
  MaxGreets = 2
  Tabs = {t1, t2}
  NoToken = NoToken
  MaxInvites = 2
  MaxAsked = 2
INVARIANT ShowsAllButExcused
INVARIANT CardsSettle
INVARIANT NoSocketLeft
INVARIANT WaitLetsNothingPass
INVARIANT KeepsUp
INVARIANT PassesPolicy
INVARIANT DownloadsWhole
INVARIANT PanelAgrees
INVARIANT SessionKept
CHECK_DEADLOCK FALSE
