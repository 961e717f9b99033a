SPECIFICATION MCSpec
CONSTANTS
  Host = Host
  Humans = {Host, guest}
  Agents = {bot, aide}
  Rooms = {r1}
  GivenRoles = {"owner"}
  NoOne = NoOne
  TTL = 2
  Throttle = 2
  MaxTokens = 5
  MaxMishaps = 3
  MaxSlips = 2
INVARIANT OneKey
INVARIANT UseKeepsAlive
PROPERTY DeadStaysDead
PROPERTY AdminRecovers
PROPERTY UpComesUp
PROPERTY AgentAttaches
