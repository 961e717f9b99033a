SPECIFICATION MCSpec
CONSTANTS
  bot = bot
  human = human
  b1 = b1
  b2 = b2
  s1 = s1
  s2 = s2
  s3 = s3
  h1 = h1
  Users = {bot, human}
  Agents = {bot}
  Sockets = {s1, s2, s3, h1}
  UserOf <- MCUserOf
  Bridges = {b1, b2}
  AgentOf <- MCAgentOf
  OwnerOf <- MCOwnerOf
  NoSocket = NoSocket
  MaxCalls = 1
  MaxFrames = 1
  MaxCuts = 1
INVARIANT PresenceExact
INVARIANT PillsExact
PROPERTY RunIsShown
PROPERTY HalfOpenIsDropped
