SPECIFICATION FairSpec
CONSTANTS
  bot1 = bot1
  bot2 = bot2
  human = human
  plain = plain
  archive = archive
  Owner <- MCOwner
  SizeOf <- MCSizeOf
  Files = {archive}
  GuardedNames = {archive}
  Humans = {human}
  Unset = Unset
  Never = Never
  NoFile = NoFile
  None = None
  Uploads = {u1, u2}
  Approvals = {ap1}
  Agents = {bot1}
  RequireApprovalBytes = 2
  ApprovalTTL = 1
  DefaultQuota = 3
  DefaultRetention = Never
  QuotaOverrides = {}
  RetentionOverrides = {1}
  MaxTime = 1
  MaxCrashes = 1
INVARIANTS ConsumedOnlyByArtifact LiveHasFile DiskAccounted
PROPERTIES BytesGrowWithinQuota ExpiredEventuallySwept HashedUploadSettles
