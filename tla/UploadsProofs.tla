--------------------------- MODULE UploadsProofs ---------------------------
(***************************************************************************)
(* Uploads, for every set of requests, approvals, users, files and every   *)
(* value of the limits.                                                    *)
(***************************************************************************)
EXTENDS Uploads, TLAPS

-----------------------------------------------------------------------------
(* The inductive invariant.                                                *)

\* Only a yes is ever spent.
SpentWasApproved ==
  \A a \in Approvals : approval[a] # None /\ approval[a].consumed =>
    approval[a].status = "approved"

\* Only a committed upload has an artifact.
ArtifactIsCommitted == \A r \in Uploads : artifact[r] # None => phase[r] = "committed"

IInv == /\ TypeOK /\ ReadStaysTrue /\ SpentWasApproved
        /\ ArtifactIsCommitted /\ GatedWasApproved

\* How a row of the approvals table may change: it keeps its terms, an answer
\* stands, a spent row stays spent and a spent row is an approved one.
Progress(old, new) ==
  /\ new \in ApprovalRow
  /\ new.type = old.type /\ new.requestedBy = old.requestedBy
  /\ new.file = old.file /\ new.created = old.created
  /\ old.status # "pending" => new.status = old.status
  /\ old.consumed => new.consumed
  /\ new.consumed => new.status = "approved"

-----------------------------------------------------------------------------
(* What the helpers return.                                                *)

LEMMA LazyExpiryProgress ==
  ASSUME NEW row \in ApprovalRow, row.consumed => row.status = "approved"
  PROVE  /\ Progress(row, WithLazyExpiry(row))
         /\ WithLazyExpiry(row).consumed = row.consumed
<1>1. CASE Overdue(row)
  <2>1. WithLazyExpiry(row) = [row EXCEPT !.status = "expired"]
    BY <1>1 DEF WithLazyExpiry
  <2>2. row.status = "pending" BY <1>1 DEF Overdue
  <2> QED BY <2>1, <2>2 DEF Progress, ApprovalRow
<1>2. CASE ~Overdue(row)
  <2>1. WithLazyExpiry(row) = row BY <1>2 DEF WithLazyExpiry
  <2> QED BY <2>1 DEF Progress, ApprovalRow
<1> QED BY <1>1, <1>2

LEMMA RowIsNotNone == ASSUME NEW row \in ApprovalRow PROVE row # None
  BY NoneAssumption

LEMMA ExpiryDateType ==
  ASSUME NEW r \in RoomRow, now \in Nat
  PROVE  ExpiryDate(r) \in Nat \union {Never}
<1>1. EffectiveRetention(r) \in Nat \union {Never}
  BY UploadsAssumption DEF EffectiveRetention, RoomRow
<1> QED BY <1>1, UploadsAssumption DEF ExpiryDate

LEMMA ExpiredAreArtifacts ==
  /\ ExpiredArtifacts \subseteq Uploads
  /\ \A r \in ExpiredArtifacts : artifact[r] # None
  BY DEF ExpiredArtifacts, Expired, Live

\* Marking deleted keeps the table's type, and all of a row but the mark.
LEMMA MarkDeletedRows ==
  ASSUME TypeOK, NEW S \in SUBSET ExpiredArtifacts, MarkDeleted(S)
  PROVE  /\ artifact' \in [Uploads -> ArtifactRow \union {None}]
         /\ \A r \in Uploads :
              /\ artifact[r] = None <=> artifact'[r] = None
              /\ artifact[r] # None =>
                   /\ artifact'[r].user = artifact[r].user
                   /\ artifact'[r].file = artifact[r].file
                   /\ artifact'[r].approval = artifact[r].approval
                   /\ artifact[r].deleted => artifact'[r].deleted
<1>1. ASSUME NEW r \in S
      PROVE  LET row == [artifact[r] EXCEPT !.deleted = TRUE]
             IN  /\ artifact[r] # None /\ row \in ArtifactRow
                 /\ row.user = artifact[r].user /\ row.file = artifact[r].file
                 /\ row.approval = artifact[r].approval /\ row.deleted
  <2>1. artifact[r] # None /\ artifact[r] \in ArtifactRow
    BY ExpiredAreArtifacts DEF TypeOK
  <2> QED BY <2>1 DEF ArtifactRow
<1>2. artifact' = [r \in Uploads |-> IF r \in S
                     THEN [artifact[r] EXCEPT !.deleted = TRUE] ELSE artifact[r]]
  BY DEF MarkDeleted
<1>3. \A row \in ArtifactRow : row # None BY NoneAssumption
<1>4. artifact \in [Uploads -> ArtifactRow \union {None}] BY DEF TypeOK
<1>5. S \subseteq Uploads BY ExpiredAreArtifacts
<1> HIDE DEF MarkDeleted
<1>6. artifact' \in [Uploads -> ArtifactRow \union {None}] BY <1>1, <1>2, <1>4
<1>7. ASSUME NEW r \in Uploads
      PROVE  /\ artifact[r] = None <=> artifact'[r] = None
             /\ artifact[r] # None =>
                   /\ artifact'[r].user = artifact[r].user
                   /\ artifact'[r].file = artifact[r].file
                   /\ artifact'[r].approval = artifact[r].approval
                   /\ artifact[r].deleted => artifact'[r].deleted
  <2>1. CASE r \in S BY <2>1, <1>1, <1>2, <1>3
  <2>2. CASE r \notin S BY <2>2, <1>2
  <2> QED BY <2>1, <2>2
<1> QED BY <1>6, <1>7

LEMMA UnlinkedType ==
  ASSUME TypeOK, NEW files \in SUBSET Uploads, NEW failed, Unlinked(files, failed)
  PROVE  stored' \subseteq Uploads /\ stuck' \subseteq Uploads
  BY DEF TypeOK, Unlinked

\* A gate that opens for an upload in need of a yes rests on a row that holds
\* the yes, of this agent and for this file.
LEMMA OpenGateHasApproval ==
  ASSUME IInv, NEW r \in Uploads, phase[r] = "hashing", GateOpen(request[r]),
         NeedsApproval(request[r].user, request[r].file)
  PROVE  LET a == request[r].approval
         IN  /\ a \in Approvals /\ approval[a] # None
             /\ approval[a].status = "approved"
             /\ approval[a].type = "artifact_upload"
             /\ approval[a].requestedBy = request[r].user
             /\ approval[a].file = request[r].file
<1>1. Authorises(request[r].seen, request[r].user, request[r].file)
  BY DEF GateOpen
<1>2. InFlight(r) BY DEF InFlight
<1> QED BY <1>1, <1>2 DEF IInv, ReadStaysTrue, Authorises, ApprovalMatchesFile

\* Consuming the approval of such an upload marks that row alone.
LEMMA ConsumeRows ==
  ASSUME IInv, NEW r \in Uploads, phase[r] = "hashing", GateOpen(request[r]),
         Consume(request[r])
  PROVE  /\ approval' \in [Approvals -> ApprovalRow \union {None}]
         /\ \A a \in Approvals : approval[a] # None => Progress(approval[a], approval'[a])
         /\ \A a \in Approvals : approval[a] = None => approval'[a] = None
         /\ \A a \in Approvals : approval'[a] # approval[a] =>
              a = request[r].approval /\ NeedsApproval(request[r].user, request[r].file)
<1> DEFINE q == request[r]
<1>1. approval \in [Approvals -> ApprovalRow \union {None}] BY DEF IInv, TypeOK
<1>2. \A a \in Approvals : approval[a] # None => Progress(approval[a], approval[a])
  BY <1>1 DEF IInv, SpentWasApproved, Progress
<1>3. CASE ~NeedsApproval(q.user, q.file)
  BY <1>1, <1>2, <1>3 DEF Consume
<1>4. CASE NeedsApproval(q.user, q.file)
  <2> DEFINE row == [approval[q.approval] EXCEPT !.consumed = TRUE]
  <2>1. /\ q.approval \in Approvals /\ approval[q.approval] # None
        /\ approval[q.approval].status = "approved"
    BY <1>4, OpenGateHasApproval
  <2>2. approval[q.approval] \in ApprovalRow BY <1>1, <2>1
  <2>3. row \in ApprovalRow /\ Progress(approval[q.approval], row)
    BY <2>1, <2>2 DEF ApprovalRow, Progress
  <2>4. approval' = [approval EXCEPT ![q.approval] = row] BY <1>4 DEF Consume
  <2> HIDE DEF row
  <2>5. \A a \in Approvals \ {q.approval} : approval'[a] = approval[a]
    BY <1>1, <2>1, <2>4
  <2>6. approval' \in [Approvals -> ApprovalRow \union {None}]
        /\ approval'[q.approval] = row
    BY <1>1, <2>1, <2>3, <2>4
  <2> QED BY <1>2, <1>4, <2>1, <2>3, <2>5, <2>6
<1> QED BY <1>3, <1>4

-----------------------------------------------------------------------------
(* The approvals table: what a step does to a row.                         *)

Spent(a) == approval[a] # None /\ approval[a].consumed

\* The one step that spends an approval: the commit of an upload it authorises.
SpentBy(a, r) == /\ CommitUpload(r) /\ request[r].approval = a
                 /\ NeedsApproval(request[r].user, request[r].file)

LEMMA RowsProgress ==
  ASSUME IInv, [Next]_vars
  PROVE  /\ approval' \in [Approvals -> ApprovalRow \union {None}]
         /\ \A a \in Approvals : approval[a] # None => Progress(approval[a], approval'[a])
         /\ \A a \in Approvals : Spent(a)' =>
              Spent(a) \/ \E r \in Uploads : SpentBy(a, r)
<1> DEFINE P == /\ approval' \in [Approvals -> ApprovalRow \union {None}]
                /\ \A a \in Approvals : approval[a] # None =>
                                          Progress(approval[a], approval'[a])
                /\ \A a \in Approvals : Spent(a)' =>
                                          Spent(a) \/ \E r \in Uploads : SpentBy(a, r)
<1> SUFFICES P OBVIOUS
<1>1. approval \in [Approvals -> ApprovalRow \union {None}] BY DEF IInv, TypeOK
<1>2. \A a \in Approvals : approval[a] # None =>
        /\ approval[a] \in ApprovalRow
        /\ Progress(approval[a], approval[a])
        /\ Progress(approval[a], WithLazyExpiry(approval[a]))
        /\ WithLazyExpiry(approval[a]) \in ApprovalRow
        /\ WithLazyExpiry(approval[a]).consumed = approval[a].consumed
  <2> SUFFICES ASSUME NEW a \in Approvals, approval[a] # None
               PROVE  /\ approval[a] \in ApprovalRow
                      /\ Progress(approval[a], approval[a])
                      /\ Progress(approval[a], WithLazyExpiry(approval[a]))
                      /\ WithLazyExpiry(approval[a]) \in ApprovalRow
                      /\ WithLazyExpiry(approval[a]).consumed = approval[a].consumed
    OBVIOUS
  <2>1. approval[a] \in ApprovalRow BY <1>1
  <2>2. approval[a].consumed => approval[a].status = "approved"
    BY DEF IInv, SpentWasApproved
  <2>3. /\ Progress(approval[a], WithLazyExpiry(approval[a]))
        /\ WithLazyExpiry(approval[a]).consumed = approval[a].consumed
    BY <2>1, <2>2, LazyExpiryProgress
  <2> QED BY <2>1, <2>2, <2>3 DEF Progress
<1>3. CASE UNCHANGED approval BY <1>1, <1>2, <1>3 DEF Spent
<1>4. CASE ListApprovals BY <1>1, <1>2, <1>4 DEF ListApprovals, Spent
<1>5. ASSUME NEW a \in Approvals, NEW agent \in Agents,
             NEW type \in {"artifact_upload", "other"},
             NEW file \in Files \union {NoFile}, CreateApproval(a, agent, type, file)
      PROVE P
  <2> DEFINE row == [status |-> "pending", type |-> type, requestedBy |-> agent,
                     file |-> file, created |-> now, consumed |-> FALSE]
  <2>1. row \in ApprovalRow /\ ~row.consumed BY DEF ApprovalRow, IInv, TypeOK
  <2>2. approval' = [approval EXCEPT ![a] = row] /\ approval[a] = None
    BY <1>5 DEF CreateApproval
  <2> HIDE DEF row
  <2> QED BY <1>1, <1>2, <2>1, <2>2 DEF Spent
<1>6. ASSUME NEW a \in Approvals, NEW user \in Users, NEW decision \in Decisions,
             RespondApproval(a, user, decision)
      PROVE P
  <2> DEFINE row == WithLazyExpiry(approval[a])
             decided == user = Owner[row.requestedBy] /\ row.status = "pending"
             after == IF decided THEN [row EXCEPT !.status = decision] ELSE row
  <2>1. approval[a] # None /\ approval' = [approval EXCEPT ![a] = after]
    BY <1>6 DEF RespondApproval
  <2>2. /\ row \in ApprovalRow /\ Progress(approval[a], row)
        /\ row.consumed = approval[a].consumed
    BY <1>2, <2>1
  <2> HIDE DEF row
  <2>3. decision \in {"approved", "denied"} BY DEF Decisions
  <2>4. /\ after \in ApprovalRow /\ Progress(approval[a], after)
        /\ after.consumed = approval[a].consumed
    <3>1. CASE decided
      <4>1. row.status = "pending" /\ ~row.consumed
        BY <2>2, <3>1 DEF Progress, ApprovalRow
      <4>2. approval[a].status = "pending" /\ ~approval[a].consumed
        BY <2>2, <4>1 DEF Progress
      <4>3. after = [row EXCEPT !.status = decision] BY <3>1
      <4> QED BY <2>2, <2>3, <4>1, <4>2, <4>3 DEF Progress, ApprovalRow, Decisions
    <3>2. CASE ~decided BY <2>2, <3>2
    <3> QED BY <3>1, <3>2
  <2> HIDE DEF after
  <2> QED BY <1>1, <1>2, <2>1, <2>4 DEF Spent
<1>7. ASSUME NEW r \in Uploads, ReadApproval(r) PROVE P
  <2>1. CASE UNCHANGED approval BY <1>3, <2>1
  <2>2. CASE /\ approval[request[r].approval] # None
             /\ request[r].approval # None
             /\ approval' = [approval EXCEPT ![request[r].approval] = WithLazyExpiry(@)]
    <3>1. request[r].approval \in Approvals
      <4>1. request[r] \in UploadRequest
        BY <1>7 DEF ReadApproval, IInv, ReadStaysTrue, TypeOK, InFlight
      <4> QED BY <2>2, <4>1 DEF UploadRequest
    <3> QED BY <1>1, <1>2, <2>2, <3>1 DEF Spent
  <2> QED BY <1>7, <2>1, <2>2 DEF ReadApproval
<1>8. ASSUME NEW r \in Uploads, CommitUpload(r) PROVE P
  BY <1>8, ConsumeRows DEF CommitUpload, Spent, SpentBy
<1>9. ASSUME NEW r \in Uploads PROVE
      FailUpload(r) \/ RefuseUnapproved(r) \/ RefuseOverQuota(r) \/ CrashInUpload(r)
        => UNCHANGED approval
  BY DEF FailUpload, RefuseUnapproved, RefuseOverQuota, CrashInUpload
<1>10. ASSUME NEW failed \in SUBSET Uploads, Sweep(failed) \/ Boot(failed)
       PROVE UNCHANGED approval
  BY <1>10 DEF Sweep, Boot
<1>11. ASSUME NEW done \in SUBSET Uploads, NEW cut \in Uploads, CrashInSweep(done, cut)
       PROVE UNCHANGED approval
  BY <1>11 DEF CrashInSweep
<1>12. Tick \/ Crash \/ (\E new \in RoomRow : PatchSettings(new)) \/ UNCHANGED vars
         => UNCHANGED approval
  BY DEF Tick, Crash, PatchSettings, vars
<1>13. ASSUME NEW r \in Uploads, NEW user \in Users, NEW file \in Files,
              NEW a \in Approvals \union {None}, BeginUpload(r, user, file, a)
       PROVE UNCHANGED approval
  BY <1>13 DEF BeginUpload
<1> HIDE DEF P
<1> QED
  BY <1>3, <1>4, <1>5, <1>6, <1>7, <1>8, <1>9, <1>10, <1>11, <1>12, <1>13
  DEF Next, FinishUpload

-----------------------------------------------------------------------------
(* The artifacts table: a row stays, and a new one is a passed gate.       *)

\* An upload's commit writes one row, with the terms of the request.
LEMMA CommitRow ==
  ASSUME IInv, NEW r \in Uploads, CommitUpload(r)
  PROVE  /\ artifact' \in [Uploads -> ArtifactRow \union {None}]
         /\ \A s \in Uploads \ {r} : artifact'[s] = artifact[s]
         /\ artifact'[r] # None
         /\ artifact'[r].user = request[r].user
         /\ artifact'[r].file = request[r].file
         /\ artifact'[r].approval = request[r].approval
         /\ phase[r] = "hashing" /\ phase'[r] = "committed"
         /\ NeedsApproval(request[r].user, request[r].file) =>
              approval'[request[r].approval].consumed
<1> DEFINE row == [user |-> request[r].user, file |-> request[r].file,
                   approval |-> request[r].approval,
                   expires |-> ExpiryDate(request[r].room), deleted |-> FALSE]
<1>1. /\ phase[r] = "hashing" /\ GateOpen(request[r])
      /\ artifact' = [artifact EXCEPT ![r] = row]
      /\ phase' = [phase EXCEPT ![r] = "committed"]
      /\ Consume(request[r])
  BY DEF CommitUpload
<1>2. request[r] \in UploadRequest
  BY <1>1 DEF IInv, ReadStaysTrue, InFlight, TypeOK
<1>3. request[r].room \in RoomRow BY <1>2 DEF UploadRequest
<1>4. ExpiryDate(request[r].room) \in Nat \union {Never}
  BY <1>3, ExpiryDateType DEF IInv, TypeOK
<1>5. row \in ArtifactRow BY <1>2, <1>4 DEF UploadRequest, ArtifactRow
<1>6. row # None BY <1>5, NoneAssumption
<1>7. NeedsApproval(request[r].user, request[r].file) =>
        approval'[request[r].approval].consumed
  <2> SUFFICES ASSUME NeedsApproval(request[r].user, request[r].file)
               PROVE  approval'[request[r].approval].consumed
    OBVIOUS
  <2> DEFINE a == request[r].approval
  <2>1. a \in Approvals /\ approval[a] # None BY <1>1, OpenGateHasApproval
  <2>2. approval[a] \in ApprovalRow BY <2>1 DEF IInv, TypeOK
  <2>3. approval' = [approval EXCEPT ![a] = [approval[a] EXCEPT !.consumed = TRUE]]
    BY <1>1 DEF Consume
  <2>4. approval'[a] = [approval[a] EXCEPT !.consumed = TRUE]
    BY <2>1, <2>3 DEF IInv, TypeOK
  <2> QED BY <2>2, <2>4 DEF ApprovalRow
<1> HIDE DEF row
<1>8. artifact' \in [Uploads -> ArtifactRow \union {None}]
  BY <1>1, <1>5 DEF IInv, TypeOK
<1>9. artifact'[r] = row /\ phase'[r] = "committed" BY <1>1 DEF IInv, TypeOK
<1>10. \A s \in Uploads \ {r} : artifact'[s] = artifact[s]
  BY <1>1 DEF IInv, TypeOK
<1> QED BY <1>1, <1>6, <1>7, <1>8, <1>9, <1>10 DEF row

SameTerms(r) == /\ artifact'[r] # None
                /\ artifact'[r].user = artifact[r].user
                /\ artifact'[r].file = artifact[r].file
                /\ artifact'[r].approval = artifact[r].approval
                /\ artifact[r].deleted => artifact'[r].deleted

LEMMA ArtifactsProgress ==
  ASSUME IInv, [Next]_vars
  PROVE  /\ artifact' \in [Uploads -> ArtifactRow \union {None}]
         /\ \A r \in Uploads : artifact[r] # None => SameTerms(r)
         /\ \A r \in Uploads : artifact[r] = None /\ artifact'[r] # None => CommitUpload(r)
<1> DEFINE P == /\ artifact' \in [Uploads -> ArtifactRow \union {None}]
                /\ \A r \in Uploads : artifact[r] # None => SameTerms(r)
                /\ \A r \in Uploads : artifact[r] = None /\ artifact'[r] # None =>
                                        CommitUpload(r)
<1> SUFFICES P OBVIOUS
<1>1. TypeOK BY DEF IInv
<1>2. CASE UNCHANGED artifact BY <1>1, <1>2 DEF TypeOK, SameTerms
<1>3. ASSUME NEW r \in Uploads, CommitUpload(r) PROVE P
  <2>1. artifact[r] = None
    BY <1>3 DEF CommitUpload, IInv, ArtifactIsCommitted
  <2>2. /\ artifact' \in [Uploads -> ArtifactRow \union {None}]
        /\ \A s \in Uploads \ {r} : artifact'[s] = artifact[s]
    BY <1>3, CommitRow
  <2> QED BY <1>3, <2>1, <2>2 DEF SameTerms
<1>4. ASSUME NEW S \in SUBSET ExpiredArtifacts, MarkDeleted(S) PROVE P
  BY <1>1, <1>4, MarkDeletedRows DEF SameTerms
<1>5. ASSUME NEW failed \in SUBSET Uploads, Sweep(failed) \/ Boot(failed) PROVE P
  <2>1. MarkDeleted(ExpiredArtifacts) BY <1>5 DEF Sweep, Boot
  <2> QED BY <1>4, <2>1
<1>6. ASSUME NEW done \in SUBSET Uploads, NEW cut \in Uploads, CrashInSweep(done, cut)
      PROVE P
  <2>1. MarkDeleted(done) /\ done \subseteq ExpiredArtifacts
    BY <1>6 DEF CrashInSweep
  <2> QED BY <1>4, <2>1
<1>7. ASSUME NEW r \in Uploads
      PROVE  FailUpload(r) \/ ReadApproval(r) \/ RefuseUnapproved(r)
               \/ RefuseOverQuota(r) \/ CrashInUpload(r) => UNCHANGED artifact
  BY DEF FailUpload, ReadApproval, RefuseUnapproved, RefuseOverQuota, CrashInUpload
<1>8. ASSUME NEW r \in Uploads, NEW user \in Users, NEW file \in Files,
             NEW a \in Approvals \union {None}, BeginUpload(r, user, file, a)
      PROVE  UNCHANGED artifact
  BY <1>8 DEF BeginUpload
<1>9. ASSUME NEW a \in Approvals
      PROVE  /\ \A agent \in Agents, type \in {"artifact_upload", "other"},
                   file \in Files \union {NoFile} :
                  CreateApproval(a, agent, type, file) => UNCHANGED artifact
             /\ \A user \in Users, decision \in Decisions :
                  RespondApproval(a, user, decision) => UNCHANGED artifact
  BY DEF CreateApproval, RespondApproval
<1>10. Tick \/ Crash \/ ListApprovals \/ (\E new \in RoomRow : PatchSettings(new))
         \/ UNCHANGED vars => UNCHANGED artifact
  BY DEF Tick, Crash, ListApprovals, PatchSettings, vars
<1> HIDE DEF P
<1> QED BY <1>2, <1>3, <1>5, <1>6, <1>7, <1>8, <1>9, <1>10 DEF Next, FinishUpload

-----------------------------------------------------------------------------
(* Requests in flight.                                                     *)

\* How an upload gets, or stays, in flight.
Starts(r) == /\ phase[r] = "idle" /\ phase'[r] = "receiving"
             /\ request'[r] # None /\ request'[r].seen = None

Stays(r) == phase'[r] = phase[r] /\ request'[r] = request[r]

Reads(r) == /\ phase[r] = "receiving" /\ phase'[r] = "hashing"
            /\ request'[r] # None
            /\ \/ request'[r].seen = None
               \/ LET a == request'[r].approval
                  IN  a \in Approvals /\ approval'[a] # None
                        /\ request'[r].seen = approval'[a]

LEMMA ReadStep ==
  ASSUME IInv, NEW r \in Uploads, ReadApproval(r)
  PROVE  /\ phase' \in [Uploads -> Phases]
         /\ request' \in [Uploads -> UploadRequest \union {None}]
         /\ \A s \in Uploads \ {r} : Stays(s)
         /\ phase'[r] = "refused" \/ Reads(r)
<1> DEFINE a == request[r].approval
<1>1. /\ phase \in [Uploads -> Phases] /\ phase[r] = "receiving"
      /\ approval \in [Approvals -> ApprovalRow \union {None}]
      /\ request \in [Uploads -> UploadRequest \union {None}]
  BY DEF ReadApproval, IInv, TypeOK
<1>2. request[r] \in UploadRequest /\ request[r] # None /\ request[r].seen = None
  BY <1>1 DEF IInv, ReadStaysTrue, InFlight
<1>3. CASE a = None
  <2>1. phase' = [phase EXCEPT ![r] = "hashing"] /\ UNCHANGED request
    BY <1>3 DEF ReadApproval
  <2> QED BY <1>1, <1>2, <2>1 DEF Stays, Reads, Phases
<1>4. CASE a # None /\ approval[a] = None
  <2>1. phase' = [phase EXCEPT ![r] = "refused"] /\ request' = [request EXCEPT ![r] = None]
    BY <1>4 DEF ReadApproval, Refuse
  <2> QED BY <1>1, <2>1 DEF Stays, Phases
<1>5. CASE a # None /\ approval[a] # None
  <2> DEFINE row == WithLazyExpiry(approval[a])
             q == [request[r] EXCEPT !.seen = row]
  <2>1. /\ phase' = [phase EXCEPT ![r] = "hashing"]
        /\ request' = [request EXCEPT ![r] = q]
        /\ approval' = [approval EXCEPT ![a] = row]
    BY <1>5 DEF ReadApproval
  <2>2. a \in Approvals BY <1>2, <1>5 DEF UploadRequest
  <2>3. row \in ApprovalRow
    BY <1>1, <1>5, <2>2, LazyExpiryProgress DEF Progress, IInv, SpentWasApproved
  <2>4. row # None BY <2>3, NoneAssumption
  <2> HIDE DEF row
  <2>5. q \in UploadRequest /\ q.seen = row /\ q.approval = a
    BY <1>2, <2>3 DEF UploadRequest
  <2>6. q # None BY <2>5, NoneAssumption
  <2> HIDE DEF q, a
  <2>7. approval'[a] = row /\ request'[r] = q BY <1>1, <2>1, <2>2
  <2>8. Reads(r)
    BY <1>1, <2>1, <2>2, <2>4, <2>5, <2>6, <2>7 DEF Reads
  <2> QED BY <1>1, <2>1, <2>5, <2>8 DEF Stays, Phases
<1> QED BY <1>3, <1>4, <1>5

LEMMA RequestsProgress ==
  ASSUME IInv, [Next]_vars
  PROVE  /\ phase' \in [Uploads -> Phases]
         /\ request' \in [Uploads -> UploadRequest \union {None}]
         /\ \A r \in Uploads : InFlight(r)' => Starts(r) \/ Stays(r) \/ Reads(r)
         /\ \A r \in Uploads : phase[r] = "committed" => phase'[r] = "committed"
<1> DEFINE P == /\ phase' \in [Uploads -> Phases]
                /\ request' \in [Uploads -> UploadRequest \union {None}]
                /\ \A r \in Uploads : InFlight(r)' => Starts(r) \/ Stays(r) \/ Reads(r)
                /\ \A r \in Uploads : phase[r] = "committed" => phase'[r] = "committed"
<1> SUFFICES P OBVIOUS
<1>1. /\ phase \in [Uploads -> Phases]
      /\ request \in [Uploads -> UploadRequest \union {None}]
      /\ room \in RoomRow
  BY DEF IInv, TypeOK
<1>2. CASE UNCHANGED <<phase, request>> BY <1>1, <1>2 DEF Stays
<1>3. ASSUME NEW r \in Uploads, InFlight(r), NEW p \in {"refused", "committed"},
             phase' = [phase EXCEPT ![r] = p], request' = [request EXCEPT ![r] = None]
      PROVE  P
  BY <1>1, <1>3 DEF Stays, InFlight, Phases
<1>4. CASE Die BY <1>1, <1>4 DEF Die, InFlight, Phases
<1>5. ASSUME NEW r \in Uploads, ReadApproval(r) PROVE P
  <2>1. phase[r] = "receiving" BY <1>5 DEF ReadApproval
  <2> QED BY <1>1, <1>5, <2>1, ReadStep DEF Stays, InFlight
<1>6. ASSUME NEW r \in Uploads, NEW user \in Users, NEW file \in Files,
             NEW a \in Approvals \union {None}, BeginUpload(r, user, file, a)
      PROVE  P
  <2> DEFINE q == [user |-> user, file |-> file, approval |-> a, room |-> room,
                   seen |-> None]
  <2>1. q \in UploadRequest /\ q.seen = None BY <1>1 DEF UploadRequest
  <2>2. q # None BY <2>1, NoneAssumption
  <2>3. /\ phase[r] = "idle" /\ phase' = [phase EXCEPT ![r] = "receiving"]
        /\ request' = [request EXCEPT ![r] = q]
    BY <1>6 DEF BeginUpload
  <2> HIDE DEF q
  <2>4. Starts(r) BY <1>1, <2>1, <2>2, <2>3 DEF Starts
  <2> QED BY <1>1, <2>1, <2>3, <2>4 DEF Stays, Phases
<1>7. ASSUME NEW r \in Uploads,
             FailUpload(r) \/ RefuseUnapproved(r) \/ RefuseOverQuota(r) \/ CommitUpload(r)
      PROVE  P
  <2>1. InFlight(r)
    BY <1>7 DEF FailUpload, RefuseUnapproved, RefuseOverQuota, CommitUpload, InFlight
  <2>2. PICK p \in {"refused", "committed"} : /\ phase' = [phase EXCEPT ![r] = p]
                                              /\ request' = [request EXCEPT ![r] = None]
    BY <1>7 DEF FailUpload, RefuseUnapproved, RefuseOverQuota, CommitUpload, Refuse
  <2> QED BY <1>3, <2>1, <2>2
<1>8. ASSUME NEW r \in Uploads, CrashInUpload(r) PROVE Die
  BY <1>8 DEF CrashInUpload
<1>9. ASSUME NEW done \in SUBSET Uploads, NEW cut \in Uploads, CrashInSweep(done, cut)
      PROVE Die
  BY <1>9 DEF CrashInSweep
<1>10. ASSUME NEW a \in Approvals
       PROVE  /\ \A agent \in Agents, type \in {"artifact_upload", "other"},
                    file \in Files \union {NoFile} :
                   CreateApproval(a, agent, type, file) => UNCHANGED <<phase, request>>
              /\ \A user \in Users, decision \in Decisions :
                   RespondApproval(a, user, decision) => UNCHANGED <<phase, request>>
  BY DEF CreateApproval, RespondApproval
<1>11. ASSUME NEW failed \in SUBSET Uploads, Sweep(failed) \/ Boot(failed)
       PROVE  UNCHANGED <<phase, request>>
  BY <1>11 DEF Sweep, Boot
<1>12. Tick \/ ListApprovals \/ (\E new \in RoomRow : PatchSettings(new))
         \/ UNCHANGED vars => UNCHANGED <<phase, request>>
  BY DEF Tick, ListApprovals, PatchSettings, vars
<1>13. Crash => Die BY DEF Crash
<1> HIDE DEF P
<1> QED
  BY <1>2, <1>4, <1>5, <1>6, <1>7, <1>8, <1>9, <1>10, <1>11, <1>12, <1>13
  DEF Next, FinishUpload

-----------------------------------------------------------------------------
(* The invariant is inductive.                                             *)

LEMMA DieTypes ==
  ASSUME crashes \in Nat, Die
  PROVE  crashes' \in Nat /\ up' \in BOOLEAN
<1>1. crashes' = crashes + 1 BY DEF Die
<1>2. up' \in BOOLEAN BY DEF Die
<1> QED BY <1>1, <1>2

\* The remaining variables keep their types.
LEMMA OtherTypes ==
  ASSUME IInv, [Next]_vars
  PROVE  /\ now' \in Nat /\ up' \in BOOLEAN /\ crashes' \in Nat
         /\ room' \in RoomRow
         /\ tmp' \subseteq Uploads /\ stored' \subseteq Uploads /\ stuck' \subseteq Uploads
<1> DEFINE Q == /\ now \in Nat /\ up \in BOOLEAN /\ crashes \in Nat /\ room \in RoomRow
                /\ tmp \subseteq Uploads /\ stored \subseteq Uploads /\ stuck \subseteq Uploads
<1> SUFFICES Q' OBVIOUS
<1>1. TypeOK /\ Q BY DEF IInv, TypeOK
<1>2. ASSUME NEW S \in SUBSET ExpiredArtifacts, NEW failed, Unlinked(S, failed)
      PROVE  stored' \subseteq Uploads /\ stuck' \subseteq Uploads
  BY <1>1, <1>2, ExpiredAreArtifacts, UnlinkedType
<1>3. CASE Tick \/ ListApprovals \/ (\E new \in RoomRow : PatchSettings(new))
             \/ UNCHANGED vars
  BY <1>1, <1>3 DEF Tick, ListApprovals, PatchSettings, vars
<1>4. CASE Crash BY <1>1, <1>4, DieTypes DEF Crash
<1>5. ASSUME NEW a \in Approvals, NEW agent \in Agents,
             NEW type \in {"artifact_upload", "other"},
             NEW file \in Files \union {NoFile}, CreateApproval(a, agent, type, file)
      PROVE  Q'
  BY <1>1, <1>5 DEF CreateApproval
<1>6. ASSUME NEW a \in Approvals, NEW user \in Users, NEW decision \in Decisions,
             RespondApproval(a, user, decision)
      PROVE  Q'
  BY <1>1, <1>6 DEF RespondApproval
<1>7. ASSUME NEW r \in Uploads, NEW user \in Users, NEW file \in Files,
             NEW a \in Approvals \union {None}, BeginUpload(r, user, file, a)
      PROVE  Q'
  BY <1>1, <1>7 DEF BeginUpload
<1>8. ASSUME NEW r \in Uploads,
             FailUpload(r) \/ ReadApproval(r) \/ RefuseUnapproved(r) \/ RefuseOverQuota(r)
               \/ CommitUpload(r) \/ CrashInUpload(r)
      PROVE  Q'
  BY <1>1, <1>8, DieTypes
  DEF FailUpload, ReadApproval, RefuseUnapproved, RefuseOverQuota, CommitUpload,
      CrashInUpload, DropTmp
<1>9. ASSUME NEW failed \in SUBSET Uploads, Sweep(failed) \/ Boot(failed) PROVE Q'
  BY <1>1, <1>2, <1>9 DEF Sweep, Boot
<1>10. ASSUME NEW done \in SUBSET Uploads, NEW cut \in Uploads, CrashInSweep(done, cut)
       PROVE  Q'
  BY <1>1, <1>2, <1>10, DieTypes DEF CrashInSweep
<1> HIDE DEF Q
<1> QED BY <1>3, <1>4, <1>5, <1>6, <1>7, <1>8, <1>9, <1>10 DEF Next, FinishUpload

LEMMA InitIInv == Init => IInv
<1> SUFFICES ASSUME Init PROVE IInv OBVIOUS
<1>1. TypeOK BY DEF Init, TypeOK, RoomRow, Phases
<1>2. ReadStaysTrue BY DEF Init, ReadStaysTrue, InFlight
<1> QED BY <1>1, <1>2 DEF Init, IInv, SpentWasApproved, ArtifactIsCommitted,
                          GatedWasApproved, Gated

LEMMA NextIInv == IInv /\ [Next]_vars => IInv'
<1> SUFFICES ASSUME IInv, [Next]_vars PROVE IInv' OBVIOUS
<1>1. TypeOK'
  BY OtherTypes, RowsProgress, ArtifactsProgress, RequestsProgress DEF TypeOK
<1>2. SpentWasApproved'
  <2> SUFFICES ASSUME NEW a \in Approvals, Spent(a)'
               PROVE  approval'[a].status = "approved"
    BY DEF SpentWasApproved, Spent
  <2>1. CASE Spent(a) BY <2>1, RowsProgress DEF Spent, Progress
  <2>2. CASE \E r \in Uploads : SpentBy(a, r)
    <3>1. PICK r \in Uploads : SpentBy(a, r) BY <2>2
    <3>2. approval[a] # None /\ approval[a].status = "approved" /\ a \in Approvals
      BY <3>1, OpenGateHasApproval DEF SpentBy, CommitUpload
    <3> QED BY <3>2, RowsProgress DEF Progress
  <2> QED BY <2>1, <2>2, RowsProgress
<1>3. ArtifactIsCommitted'
  <2> SUFFICES ASSUME NEW r \in Uploads, artifact'[r] # None
               PROVE  phase'[r] = "committed"
    BY DEF ArtifactIsCommitted
  <2>1. CASE artifact[r] # None
    BY <2>1, RequestsProgress DEF IInv, ArtifactIsCommitted
  <2>2. CASE artifact[r] = None BY <2>2, ArtifactsProgress, CommitRow
  <2> QED BY <2>1, <2>2
<1>4. \A a \in Approvals, row \in ApprovalRow \union {None} :
        approval'[a] = row /\ row # None => Progress(row, row)
  BY <1>1, <1>2 DEF SpentWasApproved, Progress, ApprovalRow
<1>5. ReadStaysTrue'
  <2> SUFFICES ASSUME NEW r \in Uploads, InFlight(r)'
               PROVE  /\ request'[r] # None
                      /\ phase'[r] = "receiving" => request'[r].seen = None
                      /\ request'[r].seen # None =>
                           LET old == request'[r].seen
                               a == request'[r].approval
                           IN  /\ a \in Approvals /\ approval'[a] # None
                               /\ approval'[a].type = old.type
                               /\ approval'[a].requestedBy = old.requestedBy
                               /\ approval'[a].file = old.file
                               /\ old.status # "pending" => approval'[a].status = old.status
                               /\ old.consumed => approval'[a].consumed
    BY DEF ReadStaysTrue
  <2>1. CASE Starts(r) BY <2>1 DEF Starts
  <2>2. CASE Reads(r) BY <2>2 DEF Reads
  <2>3. CASE Stays(r)
    <3> DEFINE old == request[r].seen
               a == request[r].approval
    <3>1. InFlight(r) /\ request'[r] = request[r] /\ phase'[r] = phase[r]
      BY <2>3 DEF Stays, InFlight
    <3>2. request[r] # None /\ (phase[r] = "receiving" => old = None)
      BY <3>1 DEF IInv, ReadStaysTrue
    <3>3. ASSUME old # None
          PROVE  /\ a \in Approvals /\ approval[a] # None
                 /\ approval[a].type = old.type
                 /\ approval[a].requestedBy = old.requestedBy
                 /\ approval[a].file = old.file
                 /\ old.status # "pending" => approval[a].status = old.status
                 /\ old.consumed => approval[a].consumed
      BY <3>1, <3>3 DEF IInv, ReadStaysTrue
    <3>4. ASSUME old # None
          PROVE  Progress(approval[a], approval'[a]) /\ approval'[a] # None
      BY <3>3, <3>4, RowsProgress, NoneAssumption DEF Progress
    <3> QED BY <3>1, <3>2, <3>3, <3>4 DEF Progress
  <2> QED BY <2>1, <2>2, <2>3, RequestsProgress
<1>6. GatedWasApproved'
  <2> SUFFICES ASSUME NEW r \in Uploads, Gated(r)'
               PROVE  LET a == artifact'[r].approval IN
                        /\ a \in Approvals /\ approval'[a] # None
                        /\ approval'[a].status = "approved"
                        /\ approval'[a].type = "artifact_upload"
                        /\ approval'[a].requestedBy = artifact'[r].user
                        /\ approval'[a].file = artifact'[r].file
                        /\ approval'[a].consumed
    BY DEF GatedWasApproved
  <2>1. /\ artifact'[r] # None
        /\ NeedsApproval(artifact'[r].user, artifact'[r].file)
    BY DEF Gated, NeedsApproval
  <2>2. \A a \in Approvals : approval[a] # None =>
          Progress(approval[a], approval'[a]) /\ approval'[a] # None
    BY RowsProgress, NoneAssumption DEF Progress
  <2>3. CASE artifact[r] # None
    <3>1. SameTerms(r) BY <2>3, ArtifactsProgress
    <3>2. Gated(r) BY <2>1, <2>3, <3>1 DEF Gated, SameTerms
    <3> QED BY <2>2, <3>1, <3>2 DEF IInv, GatedWasApproved, SameTerms, Progress
  <2>4. CASE artifact[r] = None
    <3>1. CommitUpload(r) BY <2>1, <2>4, ArtifactsProgress
    <3>2. /\ artifact'[r].user = request[r].user /\ artifact'[r].file = request[r].file
          /\ artifact'[r].approval = request[r].approval /\ phase[r] = "hashing"
          /\ NeedsApproval(request[r].user, request[r].file) =>
               approval'[request[r].approval].consumed
      BY <3>1, CommitRow
    <3>3. GateOpen(request[r]) BY <3>1 DEF CommitUpload
    <3>4. NeedsApproval(request[r].user, request[r].file) BY <2>1, <3>2
    <3> QED BY <2>2, <3>2, <3>3, <3>4, OpenGateHasApproval DEF Progress
  <2> QED BY <2>3, <2>4
<1> QED BY <1>1, <1>2, <1>3, <1>5, <1>6 DEF IInv

LEMMA Inductive == Spec => []IInv
  BY InitIInv, NextIInv, PTL DEF Spec

\* Every variable keeps its type.
THEOREM TypeCorrect == Spec => []TypeOK
  BY Inductive, PTL DEF IInv

\* No artifact that needed a yes exists without one, whatever the order of
\* uploads, answers and lapses (the gate of routes/artifacts.ts).
THEOREM GateHolds == Spec => []GatedWasApproved
  BY Inductive, PTL DEF IInv

\* What the handler read before its await is still true after it, spending
\* apart (routes/artifacts.ts reads the approval before the content hash).
THEOREM StaleReadIsSound == Spec => []ReadStaysTrue
  BY Inductive, PTL DEF IInv

-----------------------------------------------------------------------------
(* Spending an approval.                                                   *)

\* Only uploads that got an artifact spend an approval: the quota refusal and
\* the crash roll the consumption back with the row (one transaction).
THEOREM SpendingNeedsArtifact == Spec => []ConsumedOnlyByArtifact
<1>1. Init => ConsumedOnlyByArtifact BY DEF Init, ConsumedOnlyByArtifact
<1>2. IInv /\ ConsumedOnlyByArtifact /\ [Next]_vars => ConsumedOnlyByArtifact'
  <2> SUFFICES ASSUME IInv, ConsumedOnlyByArtifact, [Next]_vars,
                      NEW a \in Approvals, Spent(a)'
               PROVE  \E r \in Uploads : Gated(r)' /\ artifact'[r].approval = a
    BY DEF ConsumedOnlyByArtifact, Spent
  <2>1. CASE Spent(a)
    <3>1. PICK r \in Uploads : Gated(r) /\ artifact[r].approval = a
      BY <2>1 DEF ConsumedOnlyByArtifact, Spent
    <3>2. SameTerms(r) BY <3>1, ArtifactsProgress DEF Gated
    <3>3. Gated(r)' BY <3>1, <3>2 DEF Gated, SameTerms, NeedsApproval
    <3> QED BY <3>1, <3>2, <3>3 DEF SameTerms
  <2>2. CASE \E r \in Uploads : SpentBy(a, r)
    <3>1. PICK r \in Uploads : SpentBy(a, r) BY <2>2
    <3>2. /\ artifact'[r] # None /\ artifact'[r].approval = a
          /\ NeedsApproval(artifact'[r].user, artifact'[r].file)
      BY <3>1, CommitRow DEF SpentBy
    <3>3. Gated(r)' BY <3>2 DEF Gated, NeedsApproval
    <3> QED BY <3>2, <3>3
  <2> QED BY <2>1, <2>2, RowsProgress
<1> QED BY <1>1, <1>2, Inductive, PTL DEF Spec

\* Once spent, an approval lets nothing through that had not read it before:
\* the best the code does for "single use" (the gate is checked on the row
\* read before the hash).
THEOREM SpentIsClosed == Spec => ConsumedAdmitsNoMore
<1>1. ASSUME IInv, [Next]_vars
      PROVE  [\A a \in Approvals : approval[a] # None /\ approval[a].consumed =>
                LetThrough(a)' \subseteq LetThrough(a)]_vars
  <2> SUFFICES ASSUME NEW a \in Approvals, approval[a] # None, approval[a].consumed,
                      NEW r \in LetThrough(a)'
               PROVE  r \in LetThrough(a)
    BY <1>1
  <2> USE <1>1
  <2>1. r \in Uploads BY DEF LetThrough
  <2>2. approval'[a].consumed BY RowsProgress DEF Progress
  <2>3. CASE Gated(r)' /\ artifact'[r].approval = a
    <3>1. CASE artifact[r] # None
      <4>1. SameTerms(r) BY <2>1, <3>1, ArtifactsProgress
      <4>2. Gated(r) BY <2>3, <3>1, <4>1 DEF Gated, SameTerms, NeedsApproval
      <4> QED BY <2>1, <2>3, <4>1, <4>2 DEF LetThrough, SameTerms
    <3>2. CASE artifact[r] = None
      <4>1. CommitUpload(r) BY <2>1, <2>3, <3>2, ArtifactsProgress DEF Gated
      <4>2. /\ phase[r] = "hashing" /\ artifact'[r].user = request[r].user
            /\ artifact'[r].file = request[r].file
            /\ artifact'[r].approval = request[r].approval
        BY <2>1, <4>1, CommitRow
      <4>3. NeedsApproval(request[r].user, request[r].file)
        BY <2>3, <4>2 DEF Gated, NeedsApproval
      <4>4. GateOpen(request[r]) BY <4>1 DEF CommitUpload
      <4> QED BY <2>1, <2>3, <4>2, <4>3, <4>4 DEF LetThrough
    <3> QED BY <3>1, <3>2
  <2>4. CASE /\ phase'[r] = "hashing" /\ request'[r].approval = a
             /\ NeedsApproval(request[r].user, request[r].file)'
             /\ GateOpen(request[r])'
    <3>1. /\ request'[r].seen # None /\ ~request'[r].seen.consumed
      BY <2>4 DEF GateOpen, Authorises, NeedsApproval
    <3>2. InFlight(r)' BY <2>4 DEF InFlight
    <3>3. Stays(r)
      BY <2>1, <2>2, <2>4, <3>1, <3>2, RequestsProgress DEF Starts, Reads
    <3>4. /\ NeedsApproval(request[r].user, request[r].file)
          /\ GateOpen(request[r])
      BY <2>4, <3>3 DEF Stays, GateOpen, NeedsApproval, Authorises, ApprovalMatchesFile
    <3> QED BY <2>1, <2>4, <3>3, <3>4 DEF LetThrough, Stays
  <2> QED BY <2>3, <2>4 DEF LetThrough
<1> QED BY <1>1, Inductive, PTL DEF Spec, ConsumedAdmitsNoMore
=============================================================================
