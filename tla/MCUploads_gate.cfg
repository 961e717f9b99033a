SPECIFICATION Spec
CONSTANTS
  bot1 = bot1
  bot2 = bot2
  human = human
  plain = plain
  archive = archive
  Owner <- MCOwner
  SizeOf <- MCSizeOf
  Files = {plain, archive}
  GuardedNames = {archive}
  Humans = {human}
  Unset = Unset
  Never = Never
  NoFile = NoFile
  None = None
  Uploads = {u1, u2}
  Approvals = {ap1}
  Agents = {bot1, bot2}
  RequireApprovalBytes = 2
  ApprovalTTL = 1
  DefaultQuota = 4
  DefaultRetention = Never
  QuotaOverrides = {}
  RetentionOverrides = {}
  MaxTime = 3
  MaxCrashes = 0
SYMMETRY Symmetry
INVARIANTS GatedWasApproved ReadStaysTrue
PROPERTIES ConsumedAdmitsNoMore ImplementsLedger
