SPECIFICATION Spec
CONSTANTS
  Grace = 2
  Flush = 1
  Off = Off
  Slack = 1
  MaxNet = 1
  TurnLimit = 1
  Kinds = {"ask", "chat", "peer"}
  MaxMessages = 3
PROPERTY NoRematch
