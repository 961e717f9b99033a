------------------------------ MODULE Uploads ------------------------------
(***************************************************************************)
(* Artifact uploads of one room, the approvals that gate them, the storage *)
(* quota, the retention sweep and the crashes that cut any of these.       *)
(*                                                                         *)
(* The server is one Node process over a synchronous database: a handler   *)
(* runs to its end unless it awaits.  Only POST /artifacts does, twice     *)
(* (the multipart body, then the content hash), so an upload is three      *)
(* steps here: BeginUpload, ReadApproval and one of the Finish steps.      *)
(* What it read before an await it still uses after it: the room row of    *)
(* roomGuard and the approval row.  Every other handler is one action.     *)
(*                                                                         *)
(* An upload request and the artifact it may create share one identifier.  *)
(***************************************************************************)
EXTENDS Integers, FiniteSets

CONSTANTS
  Uploads,              \* upload requests
  Approvals,            \* approval ids
  Agents,               \* agent users of the room with can_upload = 1
  Humans,               \* human users of the room with can_upload = 1
  Owner,                \* the human who owns, and reviews for, each agent
  Files,                \* file contents (what the sha256 tells apart)
  SizeOf,               \* bytes of each file
  GuardedNames,         \* files sent under a secret-looking or archive name
  RequireApprovalBytes, \* config.requireApprovalBytes
  ApprovalTTL,          \* DEFAULTS.APPROVAL_TTL_MS
  DefaultQuota,         \* config.roomStorageBytes
  DefaultRetention,     \* config.artifactRetentionDays
  QuotaOverrides,       \* per-room storage_bytes values the owner may set
  RetentionOverrides,   \* per-room retention_days values the owner may set
  Unset,                \* a cleared override (NULL column)
  Never,                \* no expiry (retention off, expires_at NULL)
  NoFile,               \* an approval payload that names no content hash
  None,                 \* no row, no request, no approval_id field
  MaxTime,              \* bound: ticks of the clock
  MaxCrashes            \* bound: crashes of the process

Users == Agents \union Humans

ASSUME UploadsAssumption ==
  /\ Agents \intersect Humans = {}
  /\ Owner \in [Agents -> Humans]
  /\ SizeOf \in [Files -> Nat]
  /\ GuardedNames \subseteq Files
  /\ RequireApprovalBytes \in Nat /\ ApprovalTTL \in Nat
  /\ DefaultQuota \in Nat /\ QuotaOverrides \subseteq Nat
  /\ RetentionOverrides \subseteq Nat /\ Never \notin Nat
  /\ DefaultRetention \in Nat \union {Never}
  /\ Unset \notin Nat /\ Unset # Never
  /\ NoFile \notin Files /\ None \notin Approvals
  /\ MaxTime \in Nat /\ MaxCrashes \in Nat

VARIABLES
  now,       \* the clock
  up,        \* the process is running
  crashes,   \* crashes so far
  room,      \* the room row: its two overrides
  approval,  \* the approvals table
  phase,     \* where each upload request stands
  request,   \* what an upload in flight holds in memory
  artifact,  \* the artifacts table
  tmp,       \* uploads with a file in the .tmp directory
  stored,    \* uploads with a file at its storage_path
  stuck      \* files that an unlink failed to remove (the code goes on)

vars == <<now, up, crashes, room, approval, phase, request, artifact, tmp,
          stored, stuck>>

-----------------------------------------------------------------------------
(* Rows.                                                                   *)

RoomRow == [quota: QuotaOverrides \union {Unset},
            retention: RetentionOverrides \union {Unset}]

Decisions == {"approved", "denied"}

ApprovalRow == [status: {"pending", "expired"} \union Decisions,
                type: {"artifact_upload", "other"},
                requestedBy: Agents,
                file: Files \union {NoFile},
                created: Nat,
                consumed: BOOLEAN]

\* seen is the approval row read before the hash; None until then, or when
\* the request named no approval.
UploadRequest == [user: Users, file: Files,
                  approval: Approvals \union {None},
                  room: RoomRow,
                  seen: ApprovalRow \union {None}]

ArtifactRow == [user: Users, file: Files,
                approval: Approvals \union {None},
                expires: Nat \union {Never}, deleted: BOOLEAN]

\* No row is None.
ASSUME NoneAssumption == None \notin ApprovalRow \union UploadRequest \union ArtifactRow

Phases == {"idle", "receiving", "hashing", "committed", "refused", "lost"}

TypeOK ==
  /\ now \in Nat /\ up \in BOOLEAN /\ crashes \in Nat
  /\ room \in RoomRow
  /\ approval \in [Approvals -> ApprovalRow \union {None}]
  /\ phase \in [Uploads -> Phases]
  /\ request \in [Uploads -> UploadRequest \union {None}]
  /\ artifact \in [Uploads -> ArtifactRow \union {None}]
  /\ tmp \subseteq Uploads /\ stored \subseteq Uploads /\ stuck \subseteq Uploads

-----------------------------------------------------------------------------
(* What the code computes from a row.                                      *)

EffectiveQuota(r) == IF r.quota = Unset THEN DefaultQuota ELSE r.quota

EffectiveRetention(r) ==
  IF r.retention = Unset THEN DefaultRetention ELSE r.retention

ExpiryDate(r) == LET days == EffectiveRetention(r)
                 IN  IF days = Never THEN Never ELSE now + days

Overdue(row) == row.status = "pending" /\ now - row.created > ApprovalTTL

\* The row as a reader gets it; every read of it writes the flip back.
WithLazyExpiry(row) ==
  IF Overdue(row) THEN [row EXCEPT !.status = "expired"] ELSE row

NeedsApproval(user, file) ==
  /\ user \in Agents
  /\ SizeOf[file] > RequireApprovalBytes \/ file \in GuardedNames

ApprovalMatchesFile(row, file) == row.file = file

\* Mutant: a yes given to one agent serves another.
Authorises_AnyRequester(row, user, file) ==
  /\ row # None
  /\ row.status = "approved" /\ row.type = "artifact_upload"
  /\ ~row.consumed /\ ApprovalMatchesFile(row, file)

\* Mutant: a spent approval still opens the gate.
Authorises_Spent(row, user, file) ==
  /\ row # None
  /\ row.status = "approved" /\ row.type = "artifact_upload"
  /\ row.requestedBy = user /\ ApprovalMatchesFile(row, file)

Authorises(row, user, file) ==
  /\ row # None
  /\ row.status = "approved"
  /\ row.type = "artifact_upload"
  /\ row.requestedBy = user
  /\ ~row.consumed
  /\ ApprovalMatchesFile(row, file)

GateOpen(q) == NeedsApproval(q.user, q.file) => Authorises(q.seen, q.user, q.file)

Live(r) == artifact[r] # None /\ ~artifact[r].deleted

Expired(r) == Live(r) /\ artifact[r].expires # Never /\ artifact[r].expires <= now

\* Mutant: the sweep misses what expires this very instant.
ExpiredArtifacts_Strict == {r \in Uploads : Expired(r) /\ artifact[r].expires < now}

ExpiredArtifacts == {r \in Uploads : Expired(r)}

\* SUM(size_bytes) of the rows not deleted, as the number of bytes they hold.
HeldBytes(r) == IF Live(r) THEN {r} \X (1..SizeOf[artifact[r].file]) ELSE {}

ActiveBytes == Cardinality(UNION {HeldBytes(r) : r \in Uploads})

InFlight(r) == phase[r] \in {"receiving", "hashing"}

-----------------------------------------------------------------------------
Init ==
  /\ now = 0 /\ up = TRUE /\ crashes = 0
  /\ room = [quota |-> Unset, retention |-> Unset]
  /\ approval = [a \in Approvals |-> None]
  /\ phase = [r \in Uploads |-> "idle"]
  /\ request = [r \in Uploads |-> None]
  /\ artifact = [r \in Uploads |-> None]
  /\ tmp = {} /\ stored = {} /\ stuck = {}

Tick ==
  /\ now < MaxTime
  /\ now' = now + 1
  /\ UNCHANGED <<up, crashes, room, approval, phase, request, artifact, tmp,
                 stored, stuck>>

(* PATCH /settings: every override is set, cleared or left as it was.      *)
PatchSettings(new) ==
  /\ up /\ new # room
  /\ room' = new
  /\ UNCHANGED <<now, up, crashes, approval, phase, request, artifact, tmp,
                 stored, stuck>>

-----------------------------------------------------------------------------
(* Approvals.                                                              *)

\* POST /approvals, with a bridge token; the reviewer is the agent's owner.
CreateApproval(a, agent, type, file) ==
  /\ up /\ approval[a] = None
  /\ approval' = [approval EXCEPT ![a] =
       [status |-> "pending", type |-> type, requestedBy |-> agent,
        file |-> file, created |-> now, consumed |-> FALSE]]
  /\ UNCHANGED <<now, up, crashes, room, phase, request, artifact, tmp, stored,
                 stuck>>

\* GET /approvals reads, and so expires, every overdue row.
ListApprovals ==
  /\ up
  /\ approval' = [a \in Approvals |-> IF approval[a] = None THEN None
                                      ELSE WithLazyExpiry(approval[a])]
  /\ UNCHANGED <<now, up, crashes, room, phase, request, artifact, tmp, stored,
                 stuck>>

\* Mutant: the answer is applied to the row as stored, overdue or not.
RespondApproval_NoExpiry(a, user, decision) ==
  /\ up /\ approval[a] # None
  /\ user = Owner[approval[a].requestedBy] /\ approval[a].status = "pending"
  /\ approval' = [approval EXCEPT ![a].status = decision]
  /\ UNCHANGED <<now, up, crashes, room, phase, request, artifact, tmp, stored,
                 stuck>>

\* Mutant: the reviewer may answer again.
RespondApproval_Again(a, user, decision) ==
  /\ up /\ approval[a] # None
  /\ user = Owner[approval[a].requestedBy]
  /\ approval' = [approval EXCEPT ![a] = [WithLazyExpiry(@) EXCEPT !.status = decision]]
  /\ UNCHANGED <<now, up, crashes, room, phase, request, artifact, tmp, stored,
                 stuck>>

\* POST /respond: the lazy expiry is written whoever asks; then only the
\* reviewer passes, and only while the row is pending.
RespondApproval(a, user, decision) ==
  /\ up /\ approval[a] # None
  /\ LET row == WithLazyExpiry(approval[a])
         decided == user = Owner[row.requestedBy] /\ row.status = "pending"
     IN  approval' = [approval EXCEPT ![a] =
           IF decided THEN [row EXCEPT !.status = decision] ELSE row]
  /\ UNCHANGED <<now, up, crashes, room, phase, request, artifact, tmp, stored,
                 stuck>>

-----------------------------------------------------------------------------
(* Upload of one file.                                                     *)

\* Removing a file: the code ignores a failure and goes on.
Unlinked(files, failed) ==
  /\ failed \subseteq files \intersect stored
  /\ stored' = stored \ (files \ failed)
  /\ stuck' = stuck \union failed

\* roomGuard and requireCanUpload, then the body starts to arrive.
BeginUpload(r, user, file, a) ==
  /\ up /\ phase[r] = "idle"
  /\ phase' = [phase EXCEPT ![r] = "receiving"]
  /\ request' = [request EXCEPT ![r] =
       [user |-> user, file |-> file, approval |-> a, room |-> room,
        seen |-> None]]
  /\ tmp' = tmp \union {r}
  /\ UNCHANGED <<now, up, crashes, room, approval, artifact, stored, stuck>>

Refuse(r) ==
  /\ phase' = [phase EXCEPT ![r] = "refused"]
  /\ request' = [request EXCEPT ![r] = None]

\* removeIfExists of the temporary file: best effort.
DropTmp(r) ==
  \/ tmp' = tmp \ {r} /\ UNCHANGED stuck
  \/ stuck' = stuck \union {r} /\ UNCHANGED tmp

\* The body is too large or not the expected form, the client hangs up, or
\* reading the file back for the hash fails.
FailUpload(r) ==
  /\ up /\ InFlight(r)
  /\ Refuse(r)
  /\ DropTmp(r)
  /\ UNCHANGED <<now, up, crashes, room, approval, artifact, stored>>

\* The handler up to the await of the hash: a named approval is looked up
\* (404 when unknown), lazily expired, and kept in memory.
ReadApproval(r) ==
  /\ up /\ phase[r] = "receiving"
  /\ LET a == request[r].approval IN
       \/ /\ a = None
          /\ phase' = [phase EXCEPT ![r] = "hashing"]
          /\ UNCHANGED <<approval, request, tmp, stuck>>
       \/ /\ a # None /\ approval[a] = None
          /\ Refuse(r)
          /\ DropTmp(r)
          /\ UNCHANGED approval
       \/ /\ a # None /\ approval[a] # None
          /\ approval' = [approval EXCEPT ![a] = WithLazyExpiry(@)]
          /\ request' = [request EXCEPT ![r].seen = WithLazyExpiry(approval[a])]
          /\ phase' = [phase EXCEPT ![r] = "hashing"]
          /\ UNCHANGED <<tmp, stuck>>
  /\ UNCHANGED <<now, up, crashes, room, artifact, stored>>

\* Mutant: an upload without a known approval is never answered.
RefuseUnapproved_OnlyNamed(r) ==
  /\ up /\ phase[r] = "hashing" /\ ~GateOpen(request[r])
  /\ request[r].seen # None
  /\ Refuse(r)
  /\ DropTmp(r)
  /\ UNCHANGED <<now, up, crashes, room, approval, artifact, stored>>

\* 403 approval_required.
RefuseUnapproved(r) ==
  /\ up /\ phase[r] = "hashing" /\ ~GateOpen(request[r])
  /\ Refuse(r)
  /\ DropTmp(r)
  /\ UNCHANGED <<now, up, crashes, room, approval, artifact, stored>>

\* Mutant: the new file is not counted.
FitsQuota_WithoutFile(q) == ActiveBytes <= EffectiveQuota(q.room)

FitsQuota(q) == ActiveBytes + SizeOf[q.file] <= EffectiveQuota(q.room)

\* consumeApproval: UPDATE ... WHERE consumed_at IS NULL, its row count unused.
Consume(q) ==
  approval' = IF NeedsApproval(q.user, q.file)
              THEN [approval EXCEPT ![q.approval].consumed = TRUE]
              ELSE approval

\* Mutant: the approval is consumed outside the transaction.
RefuseOverQuota_Consumes(r) ==
  /\ up /\ phase[r] = "hashing" /\ GateOpen(request[r]) /\ ~FitsQuota(request[r])
  /\ Consume(request[r])
  /\ Refuse(r)
  /\ tmp' = tmp \ {r}
  /\ UNCHANGED <<now, up, crashes, room, artifact, stored, stuck>>

\* Mutant: the rollback leaves the moved file behind.
RefuseOverQuota_KeepsFile(r) ==
  /\ up /\ phase[r] = "hashing" /\ GateOpen(request[r]) /\ ~FitsQuota(request[r])
  /\ Refuse(r)
  /\ tmp' = tmp \ {r}
  /\ stored' = stored \union {r}
  /\ UNCHANGED <<now, up, crashes, room, approval, artifact, stuck>>

\* 413 quota_exceeded: the transaction rolls back and the file, already at
\* its storage path, is removed.
RefuseOverQuota(r) ==
  /\ up /\ phase[r] = "hashing" /\ GateOpen(request[r]) /\ ~FitsQuota(request[r])
  /\ Refuse(r)
  /\ tmp' = tmp \ {r}
  /\ \/ UNCHANGED <<stored, stuck>>
     \/ stored' = stored \union {r} /\ stuck' = stuck \union {r}
  /\ UNCHANGED <<now, up, crashes, room, approval, artifact>>

CommitUpload(r) ==
  /\ up /\ phase[r] = "hashing" /\ GateOpen(request[r]) /\ FitsQuota(request[r])
  /\ LET q == request[r] IN
       /\ artifact' = [artifact EXCEPT ![r] =
            [user |-> q.user, file |-> q.file, approval |-> q.approval,
             expires |-> ExpiryDate(q.room), deleted |-> FALSE]]
       /\ Consume(q)
  /\ phase' = [phase EXCEPT ![r] = "committed"]
  /\ request' = [request EXCEPT ![r] = None]
  /\ tmp' = tmp \ {r}
  /\ stored' = stored \union {r}
  /\ UNCHANGED <<now, up, crashes, room, stuck>>

-----------------------------------------------------------------------------
(* Retention sweep, crash and boot.                                        *)

\* Marking the rows of the swept artifacts; their files go first.
MarkDeleted(swept) ==
  artifact' = [r \in Uploads |-> IF r \in swept THEN [artifact[r] EXCEPT !.deleted = TRUE]
                                 ELSE artifact[r]]

\* The pass of the interval timer over every expired artifact.
Sweep(failed) ==
  /\ up /\ ExpiredArtifacts # {}
  /\ Unlinked(ExpiredArtifacts, failed)
  /\ MarkDeleted(ExpiredArtifacts)
  /\ UNCHANGED <<now, up, crashes, room, approval, phase, request, tmp>>

\* The process dies: what was in memory is gone, what was on disk stays.
Die ==
  /\ crashes < MaxCrashes
  /\ crashes' = crashes + 1
  /\ up' = FALSE
  /\ phase' = [r \in Uploads |-> IF InFlight(r) THEN "lost" ELSE phase[r]]
  /\ request' = [r \in Uploads |-> None]

Crash ==
  /\ up
  /\ Die
  /\ UNCHANGED <<now, room, approval, artifact, tmp, stored, stuck>>

\* Mutant: the row is committed first and the file moved after.
CrashInUpload_RowFirst(r) ==
  /\ up /\ phase[r] = "hashing" /\ GateOpen(request[r]) /\ FitsQuota(request[r])
  /\ LET q == request[r] IN
       /\ artifact' = [artifact EXCEPT ![r] =
            [user |-> q.user, file |-> q.file, approval |-> q.approval,
             expires |-> ExpiryDate(q.room), deleted |-> FALSE]]
       /\ Consume(q)
  /\ Die
  /\ UNCHANGED <<now, room, tmp, stored, stuck>>

\* Death between the rename into place and the commit of the transaction.
CrashInUpload(r) ==
  /\ up /\ phase[r] = "hashing" /\ GateOpen(request[r])
  /\ Die
  /\ tmp' = tmp \ {r}
  /\ stored' = stored \union {r}
  /\ UNCHANGED <<now, room, approval, artifact, stuck>>

\* Death inside a sweep, the one of the boot included: some artifacts are
\* done, and the file of one more may be gone while its row is not marked.
CrashInSweep(done, cut) ==
  /\ done \subseteq ExpiredArtifacts /\ cut \in ExpiredArtifacts \ done
  /\ Die
  /\ Unlinked(done \union {cut}, {})
  /\ MarkDeleted(done)
  /\ UNCHANGED <<now, room, approval, tmp>>

\* Start-up: the first sweep runs before the server listens.
Boot(failed) ==
  /\ ~up
  /\ up' = TRUE
  /\ Unlinked(ExpiredArtifacts, failed)
  /\ MarkDeleted(ExpiredArtifacts)
  /\ UNCHANGED <<now, crashes, room, approval, phase, request, tmp>>

-----------------------------------------------------------------------------
FinishUpload(r) ==
  RefuseUnapproved(r) \/ RefuseOverQuota(r) \/ CommitUpload(r)

Next ==
  \/ Tick
  \/ \E new \in RoomRow : PatchSettings(new)
  \/ ListApprovals
  \/ \E a \in Approvals :
       \/ \E agent \in Agents, type \in {"artifact_upload", "other"},
             file \in Files \union {NoFile} : CreateApproval(a, agent, type, file)
       \/ \E user \in Users, decision \in Decisions : RespondApproval(a, user, decision)
  \/ \E r \in Uploads :
       \/ \E user \in Users, file \in Files, a \in Approvals \union {None} :
            BeginUpload(r, user, file, a)
       \/ FailUpload(r)
       \/ ReadApproval(r)
       \/ FinishUpload(r)
       \/ CrashInUpload(r)
  \/ \E failed \in SUBSET Uploads : Sweep(failed) \/ Boot(failed)
  \/ Crash
  \/ \E done \in SUBSET Uploads, cut \in Uploads : CrashInSweep(done, cut)

Spec == Init /\ [][Next]_vars

\* What the scheduling gives: Node resumes an upload when its hash is ready,
\* the interval timer keeps firing, and the operator restarts the server.
Fairness ==
  /\ \A r \in Uploads : WF_vars(FinishUpload(r))
  /\ WF_vars(\E failed \in SUBSET Uploads : Sweep(failed))
  /\ WF_vars(\E failed \in SUBSET Uploads : Boot(failed))

FairSpec == Spec /\ Fairness

-----------------------------------------------------------------------------
(* Correctness.                                                            *)

\* An artifact whose agent, size or name called for an approval.
Gated(r) == artifact[r] # None /\ NeedsApproval(artifact[r].user, artifact[r].file)

\* Every artifact that needed a human yes names an approval that is, then and
\* forever after, an approved one, of its uploader, for this very file, and
\* spent: whatever happened to the row while the file was hashed.
GatedWasApproved ==
  \A r \in Uploads : Gated(r) =>
    LET a == artifact[r].approval IN
      /\ a \in Approvals /\ approval[a] # None
      /\ approval[a].status = "approved" /\ approval[a].type = "artifact_upload"
      /\ approval[a].requestedBy = artifact[r].user
      /\ approval[a].file = artifact[r].file
      /\ approval[a].consumed

\* An approval is spent only together with an artifact: an upload refused for
\* the quota, or cut by a crash, leaves its approval usable for the retry.
ConsumedOnlyByArtifact ==
  \A a \in Approvals : approval[a] # None /\ approval[a].consumed =>
    \E r \in Uploads : Gated(r) /\ artifact[r].approval = a

\* A download that passes its checks finds the file: an artifact that is not
\* deleted and not expired is on disk, across refusals, sweeps and crashes.
LiveHasFile == \A r \in Uploads : Live(r) /\ ~Expired(r) => r \in stored

\* No refusal and no sweep leaks disk space: a file without a live artifact is
\* one a crash cut off or an unlink failed on, and a temporary file belongs to
\* an upload in flight or cut off.
DiskAccounted ==
  /\ \A r \in stored : Live(r) \/ phase[r] = "lost" \/ r \in stuck
  /\ \A r \in tmp : InFlight(r) \/ phase[r] = "lost" \/ r \in stuck

\* The room's active bytes grow only by an upload that fits the quota this
\* upload saw, however many uploads finish between its steps.
BytesGrowWithinQuota ==
  [][ActiveBytes' > ActiveBytes =>
       \E r \in Uploads : /\ phase[r] = "hashing" /\ phase'[r] = "committed"
                          /\ ActiveBytes' <= EffectiveQuota(request[r].room)]_vars

\* An upload in flight holds its request, and what it read of its approval
\* before the hash stays true of the row after it, except that the row may be
\* spent meanwhile: the terms are fixed, and an answer is never taken back.
ReadStaysTrue ==
  \A r \in Uploads : InFlight(r) =>
    /\ request[r] # None
    /\ phase[r] = "receiving" => request[r].seen = None
    /\ request[r].seen # None =>
         LET old == request[r].seen
             a == request[r].approval
         IN  /\ a \in Approvals /\ approval[a] # None
             /\ approval[a].type = old.type
             /\ approval[a].requestedBy = old.requestedBy
             /\ approval[a].file = old.file
             /\ old.status # "pending" => approval[a].status = old.status
             /\ old.consumed => approval[a].consumed

\* The uploads an approval has let through or still will.
LetThrough(a) ==
  {r \in Uploads :
     \/ Gated(r) /\ artifact[r].approval = a
     \/ /\ phase[r] = "hashing" /\ request[r].approval = a
        /\ NeedsApproval(request[r].user, request[r].file) /\ GateOpen(request[r])}

\* Once an approval is spent it lets no further upload through: only those
\* that had read it before may still finish.
ConsumedAdmitsNoMore ==
  [][\A a \in Approvals : approval[a] # None /\ approval[a].consumed =>
       LetThrough(a)' \subseteq LetThrough(a)]_vars

\* Each approval authorizes one upload: no two artifacts rest on the same one.
SingleUse ==
  \A r, s \in Uploads :
    Gated(r) /\ Gated(s) /\ artifact[r].approval = artifact[s].approval => r = s

\* What the ledger shows of a row.
TermsOf(row) == IF row = None THEN None
                ELSE [type |-> row.type, requestedBy |-> row.requestedBy, file |-> row.file]
OpenedOf(row) == IF row = None THEN 0 ELSE row.created
AnswerOf(row) == IF row = None THEN "none" ELSE row.status

\* The approvals table implements the ledger: one answer, in time, about the
\* terms asked, spent only after a yes.
Ledger == INSTANCE ApprovalLedger WITH
  Terms <- [type : {"artifact_upload", "other"}, requestedBy : Agents,
            file : Files \union {NoFile}],
  TTL <- ApprovalTTL,
  Nothing <- None,
  clock <- now,
  terms <- [a \in Approvals |-> TermsOf(approval[a])],
  opened <- [a \in Approvals |-> OpenedOf(approval[a])],
  answer <- [a \in Approvals |-> AnswerOf(approval[a])],
  spent <- {a \in Approvals : approval[a] # None /\ approval[a].consumed}

ImplementsLedger == Ledger!LedgerSpec

\* An expired artifact is eventually swept, so its bytes come back to the
\* quota: through failed unlinks, crashes in mid-sweep and restarts.
ExpiredEventuallySwept ==
  \A r \in Uploads : Expired(r) ~> (artifact[r] # None /\ artifact[r].deleted)

\* An upload that reached the hash is answered, or lost to a crash.
HashedUploadSettles ==
  \A r \in Uploads :
    phase[r] = "hashing" ~> phase[r] \in {"committed", "refused", "lost"}
=============================================================================
