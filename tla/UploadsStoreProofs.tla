------------------------- MODULE UploadsStoreProofs -------------------------
(***************************************************************************)
(* What Uploads keeps: its artifacts against the files on disk and against *)
(* the quota, and its approvals table, which implements ApprovalLedger.    *)
(***************************************************************************)
EXTENDS UploadsProofs, FiniteSetTheorems

-----------------------------------------------------------------------------
(* The files on disk.                                                      *)

SInv == LiveHasFile /\ DiskAccounted

\* What a step may do to one upload's row and files without harm.
Harmless(r) ==
  /\ (Live(r) /\ ~Expired(r))' => r \in stored' \/ (Live(r) /\ ~Expired(r) /\ r \notin stored)
  /\ r \in stored' =>
       \/ Live(r)' \/ phase'[r] = "lost" \/ r \in stuck'
       \/ r \in stored /\ ~Live(r) /\ phase[r] # "lost" /\ r \notin stuck
  /\ r \in tmp' =>
       \/ InFlight(r)' \/ phase'[r] = "lost" \/ r \in stuck'
       \/ r \in tmp /\ ~InFlight(r) /\ phase[r] # "lost" /\ r \notin stuck

LEMMA HarmlessSuffices ==
  ASSUME SInv, IInv, IInv', \A r \in Uploads : Harmless(r)
  PROVE  SInv'
  BY DEF SInv, LiveHasFile, DiskAccounted, Harmless, IInv, TypeOK, Live, Expired, InFlight

\* A step that changes neither this row nor its file, and gives up its
\* temporary file when it ends the upload, is harmless.
LEMMA Untouched ==
  ASSUME IInv, NEW r \in Uploads, artifact'[r] = artifact[r],
         now' = now \/ now' = now + 1,
         r \in stored <=> r \in stored', r \in stuck => r \in stuck',
         phase[r] = "lost" => phase'[r] = "lost",
         r \in tmp' => \/ InFlight(r)' \/ phase'[r] = "lost" \/ r \in stuck'
                       \/ r \in tmp /\ phase'[r] = phase[r]
  PROVE  Harmless(r)
<1>1. Live(r)' = Live(r) BY DEF Live
<1>2. artifact[r] # None => artifact[r].expires \in Nat \union {Never}
  BY DEF IInv, TypeOK, ArtifactRow
<1>3. now \in Nat BY DEF IInv, TypeOK
<1>4. Expired(r) => Expired(r)'
  BY <1>1, <1>2, <1>3, UploadsAssumption DEF Expired, Live
<1> QED BY <1>1, <1>4 DEF Harmless, InFlight

\* Same, for the steps that touch no upload at all.
LEMMA AllUntouched ==
  ASSUME IInv, UNCHANGED <<artifact, stored, stuck, tmp, phase>>,
         now' = now \/ now' = now + 1
  PROVE  \A r \in Uploads : Harmless(r)
  BY Untouched

\* Dying turns uploads in flight to "lost" and leaves the others.
LEMMA DiePhase ==
  ASSUME IInv, Die, NEW r \in Uploads
  PROVE  phase'[r] = IF InFlight(r) THEN "lost" ELSE phase[r]
  BY DEF Die, IInv, TypeOK

\* Sweeping: the rows of S are marked, the files of S and of `more` are gone
\* unless the unlink failed.
LEMMA SweepHarmless ==
  ASSUME IInv, NEW S \in SUBSET ExpiredArtifacts, NEW files \in SUBSET ExpiredArtifacts,
         NEW failed, S \subseteq files, MarkDeleted(S), Unlinked(files, failed),
         UNCHANGED <<now, tmp>>, NEW r \in Uploads,
         phase'[r] = phase[r] \/ (InFlight(r) /\ phase'[r] = "lost")
  PROVE  Harmless(r)
<1>1. artifact'[r] = IF r \in S THEN [artifact[r] EXCEPT !.deleted = TRUE] ELSE artifact[r]
  BY DEF MarkDeleted
<1>2. stored' = stored \ (files \ failed) /\ stuck' = stuck \union failed
  BY DEF Unlinked
<1>3. r \in files => Expired(r) BY DEF ExpiredArtifacts
<1>4. r \in tmp' => r \in tmp OBVIOUS
<1>5. CASE r \in S
  <2>1. artifact[r] # None /\ artifact[r] \in ArtifactRow
    BY <1>5, <1>3 DEF Expired, Live, IInv, TypeOK
  <2>2. artifact'[r].deleted = TRUE BY <1>1, <1>5, <2>1 DEF ArtifactRow
  <2>3. ~Live(r)' BY <2>2 DEF Live
  <2>4. r \in stored' => r \in stuck' BY <1>2, <1>5
  <2> QED BY <2>3, <2>4, <1>2, <1>4 DEF Harmless, InFlight
<1>6. CASE r \notin S
  <2>1. Live(r)' = Live(r) /\ Expired(r)' = Expired(r)
    BY <1>1, <1>6 DEF Live, Expired
  <2>2. r \in stored' => r \in stored BY <1>2
  <2>3. r \in stored /\ r \notin stored' => Expired(r) BY <1>2, <1>3
  <2> QED BY <1>2, <1>4, <2>1, <2>2, <2>3 DEF Harmless, InFlight
<1> QED BY <1>5, <1>6

LEMMA EndHarmless ==
  ASSUME IInv, NEW r \in Uploads, InFlight(r), artifact'[r] = artifact[r],
         now' = now, r \notin tmp' \/ r \in stuck' \/ phase'[r] = "lost",
         \/ r \in stored <=> r \in stored'
         \/ r \in stored' /\ (r \in stuck' \/ phase'[r] = "lost"),
         r \in stuck => r \in stuck'
  PROVE  Harmless(r)
<1>1. artifact[r] = None
  BY DEF InFlight, IInv, ArtifactIsCommitted
<1> QED BY <1>1 DEF Harmless, InFlight, Live

LEMMA CommitHarmless ==
  ASSUME IInv, NEW r \in Uploads, CommitUpload(r), NEW s \in Uploads
  PROVE  Harmless(s)
<1>1. /\ stored' = stored \union {r} /\ tmp' = tmp \ {r}
      /\ UNCHANGED <<now, stuck>> /\ phase' = [phase EXCEPT ![r] = "committed"]
      /\ artifact' = [artifact EXCEPT ![r] =
           [user |-> request[r].user, file |-> request[r].file,
            approval |-> request[r].approval,
            expires |-> ExpiryDate(request[r].room), deleted |-> FALSE]]
  BY DEF CommitUpload
<1>2. CASE s = r
  <2>1. artifact'[r] # None BY CommitRow
  <2>2. artifact'[r].deleted = FALSE BY <1>1 DEF IInv, TypeOK
  <2>3. Live(r)' BY <2>1, <2>2 DEF Live
  <2> QED BY <1>1, <1>2, <2>3 DEF Harmless
<1>3. CASE s # r
  <2>1. artifact'[s] = artifact[s] /\ phase'[s] = phase[s]
    BY <1>1, <1>3 DEF IInv, TypeOK
  <2> QED BY <1>1, <1>3, <2>1, Untouched
<1> QED BY <1>2, <1>3

-----------------------------------------------------------------------------
LEMMA EveryStepHarmless ==
  ASSUME IInv, [Next]_vars
  PROVE  \A r \in Uploads : Harmless(r)
<1> DEFINE P == \A r \in Uploads : Harmless(r)
<1> SUFFICES P OBVIOUS
<1>1. TypeOK BY DEF IInv
<1>2. CASE Tick \/ ListApprovals \/ (\E new \in RoomRow : PatchSettings(new))
             \/ UNCHANGED vars
  BY <1>2, AllUntouched DEF Tick, ListApprovals, PatchSettings, vars
<1>3. ASSUME NEW a \in Approvals
      PROVE  /\ \A agent \in Agents, type \in {"artifact_upload", "other"},
                   file \in Files \union {NoFile} :
                  CreateApproval(a, agent, type, file) => P
             /\ \A user \in Users, decision \in Decisions :
                  RespondApproval(a, user, decision) => P
  BY AllUntouched DEF CreateApproval, RespondApproval
<1>4. ASSUME NEW r \in Uploads, NEW user \in Users, NEW file \in Files,
             NEW a \in Approvals \union {None}, BeginUpload(r, user, file, a)
      PROVE  P
  <2>1. /\ phase[r] = "idle" /\ phase' = [phase EXCEPT ![r] = "receiving"]
        /\ UNCHANGED <<now, artifact, stored, stuck>> /\ tmp' = tmp \union {r}
    BY <1>4 DEF BeginUpload
  <2> SUFFICES ASSUME NEW s \in Uploads PROVE Harmless(s) OBVIOUS
  <2>2. CASE s = r BY <1>1, <2>1, <2>2, Untouched DEF InFlight, TypeOK
  <2>3. CASE s # r BY <1>1, <2>1, <2>3, Untouched DEF TypeOK
  <2> QED BY <2>2, <2>3
<1>5. ASSUME NEW r \in Uploads, FailUpload(r) \/ RefuseUnapproved(r) \/ RefuseOverQuota(r)
      PROVE  P
  <2>1. /\ phase' = [phase EXCEPT ![r] = "refused"] /\ UNCHANGED <<now, artifact>>
        /\ \/ (tmp' = tmp \ {r} /\ UNCHANGED stuck) /\ UNCHANGED stored
           \/ (stuck' = stuck \union {r} /\ UNCHANGED tmp) /\ UNCHANGED stored
           \/ tmp' = tmp \ {r} /\ stored' = stored \union {r} /\ stuck' = stuck \union {r}
    BY <1>5 DEF FailUpload, RefuseUnapproved, RefuseOverQuota, Refuse, DropTmp
  <2>2. InFlight(r)
    BY <1>5 DEF FailUpload, RefuseUnapproved, RefuseOverQuota, InFlight
  <2> SUFFICES ASSUME NEW s \in Uploads PROVE Harmless(s) OBVIOUS
  <2>3. CASE s = r BY <2>1, <2>2, <2>3, EndHarmless
  <2>4. CASE s # r BY <1>1, <2>1, <2>4, Untouched DEF TypeOK
  <2> QED BY <2>3, <2>4
<1>6. ASSUME NEW r \in Uploads, ReadApproval(r) PROVE P
  <2>1. /\ \A s \in Uploads \ {r} : phase'[s] = phase[s]
        /\ phase[r] = "receiving" /\ phase'[r] \in {"refused", "hashing"}
    BY <1>6, ReadStep DEF ReadApproval, Stays, Reads
  <2>2. /\ UNCHANGED <<now, artifact, stored>>
        /\ \/ UNCHANGED <<tmp, stuck>> /\ phase'[r] = "hashing"
           \/ tmp' = tmp \ {r} /\ UNCHANGED stuck
           \/ stuck' = stuck \union {r} /\ UNCHANGED tmp
    BY <1>1, <1>6 DEF ReadApproval, DropTmp, TypeOK
  <2> SUFFICES ASSUME NEW s \in Uploads PROVE Harmless(s) OBVIOUS
  <2>3. CASE s = r BY <2>1, <2>2, <2>3, Untouched DEF InFlight
  <2>4. CASE s # r BY <2>1, <2>2, <2>4, Untouched
  <2> QED BY <2>3, <2>4
<1>7. ASSUME NEW r \in Uploads, CommitUpload(r) PROVE P BY <1>7, CommitHarmless
<1>8. ASSUME NEW r \in Uploads, CrashInUpload(r) PROVE P
  <2>1. /\ Die /\ tmp' = tmp \ {r} /\ stored' = stored \union {r}
        /\ UNCHANGED <<now, artifact, stuck>> /\ InFlight(r)
    BY <1>8 DEF CrashInUpload, InFlight
  <2> SUFFICES ASSUME NEW s \in Uploads PROVE Harmless(s) OBVIOUS
  <2>2. CASE s = r BY <2>1, <2>2, DiePhase, EndHarmless
  <2>3. CASE s # r BY <2>1, <2>3, DiePhase, Untouched DEF InFlight
  <2> QED BY <2>2, <2>3
<1>9. CASE Crash
  <2>1. Die /\ UNCHANGED <<now, artifact, tmp, stored, stuck>> BY <1>9 DEF Crash
  <2> QED BY <2>1, DiePhase, Untouched DEF InFlight
<1>10. ASSUME NEW failed \in SUBSET Uploads, Sweep(failed) \/ Boot(failed) PROVE P
  <2>1. /\ MarkDeleted(ExpiredArtifacts) /\ Unlinked(ExpiredArtifacts, failed)
        /\ UNCHANGED <<now, tmp, phase>>
    BY <1>10 DEF Sweep, Boot
  <2> QED BY <2>1, SweepHarmless
<1>11. ASSUME NEW done \in SUBSET Uploads, NEW cut \in Uploads, CrashInSweep(done, cut)
       PROVE  P
  <2>1. /\ MarkDeleted(done) /\ Unlinked(done \union {cut}, {}) /\ Die
        /\ UNCHANGED <<now, tmp>>
        /\ done \in SUBSET ExpiredArtifacts /\ done \union {cut} \in SUBSET ExpiredArtifacts
    BY <1>11 DEF CrashInSweep
  <2>2. \A r \in Uploads : phase'[r] = phase[r] \/ (InFlight(r) /\ phase'[r] = "lost")
    BY <2>1, DiePhase
  <2> QED BY <2>1, <2>2, SweepHarmless
<1> HIDE DEF P
<1> QED BY <1>2, <1>3, <1>4, <1>5, <1>6, <1>7, <1>8, <1>9, <1>10, <1>11
        DEF Next, FinishUpload

LEMMA StorageInductive == Spec => []SInv
<1>1. Init => SInv
  BY DEF Init, SInv, LiveHasFile, DiskAccounted, Live
<1>2. SInv /\ IInv /\ IInv' /\ [Next]_vars => SInv'
  BY EveryStepHarmless, HarmlessSuffices
<1> QED BY <1>1, <1>2, Inductive, PTL DEF Spec

\* The download route finds the file of every artifact it does not refuse.
THEOREM DownloadFindsFile == Spec => []LiveHasFile
  BY StorageInductive, PTL DEF SInv

\* Refusals and sweeps leak no file; what is left over is a crash's or a
\* failed unlink's.
THEOREM NothingLeaks == Spec => []DiskAccounted
  BY StorageInductive, PTL DEF SInv

-----------------------------------------------------------------------------
(* The bytes that count against the quota.                                 *)

Held == UNION {HeldBytes(r) : r \in Uploads}

\* Only finitely many bytes are ever held, however many uploads there may be.
HeldInv == IsFiniteSet(Held)

\* A row that is there already never holds more than it did.
LEMMA OldRowsHoldNoMore ==
  ASSUME IInv, [Next]_vars, NEW r \in Uploads, artifact[r] # None
  PROVE  HeldBytes(r)' \subseteq HeldBytes(r)
<1>1. SameTerms(r) BY ArtifactsProgress
<1>2. Live(r)' => Live(r) BY <1>1 DEF SameTerms, Live
<1>3. artifact'[r].file = artifact[r].file BY <1>1 DEF SameTerms
<1>4. CASE Live(r)' BY <1>2, <1>3, <1>4 DEF HeldBytes
<1>5. CASE ~Live(r)' BY <1>5 DEF HeldBytes
<1> QED BY <1>4, <1>5

\* An upload that commits adds the bytes of its file, and fits the quota.
LEMMA CommitHolds ==
  ASSUME IInv, NEW r \in Uploads, CommitUpload(r)
  PROVE  LET new == {r} \X (1..SizeOf[request[r].file])
         IN  /\ Held' \subseteq Held \union new
             /\ IsFiniteSet(new) /\ Cardinality(new) = SizeOf[request[r].file]
             /\ SizeOf[request[r].file] \in Nat
             /\ ActiveBytes + SizeOf[request[r].file] <= EffectiveQuota(request[r].room)
             /\ EffectiveQuota(request[r].room) \in Nat
             /\ phase[r] = "hashing" /\ phase'[r] = "committed"
<1> DEFINE size == SizeOf[request[r].file]
           new == {r} \X (1..size)
<1>1. /\ phase[r] = "hashing" /\ phase'[r] = "committed"
      /\ artifact'[r].file = request[r].file
      /\ \A s \in Uploads \ {r} : artifact'[s] = artifact[s]
  BY CommitRow
<1>2. ActiveBytes + size <= EffectiveQuota(request[r].room)
  BY DEF CommitUpload, FitsQuota
<1>3. request[r] \in UploadRequest BY <1>1 DEF IInv, ReadStaysTrue, InFlight, TypeOK
<1>4. request[r].file \in Files /\ request[r].room \in RoomRow BY <1>3 DEF UploadRequest
<1>5. size \in Nat BY <1>4, UploadsAssumption
<1>6. EffectiveQuota(request[r].room) \in Nat
  BY <1>4, UploadsAssumption DEF EffectiveQuota, RoomRow
<1>7. IsFiniteSet(new) /\ Cardinality(new) = size
  <2> HIDE DEF size
  <2>1. IsFiniteSet(1..size) /\ Cardinality(1..size) = size BY <1>5, FS_Interval
  <2>2. IsFiniteSet({r}) /\ Cardinality({r}) = 1 BY FS_Singleton
  <2>3. /\ IsFiniteSet({r} \X (1..size))
        /\ Cardinality({r} \X (1..size)) = Cardinality({r}) * Cardinality(1..size)
    <3> DEFINE one == {r}
               all == 1..size
    <3> SUFFICES /\ IsFiniteSet(one \X all)
                 /\ Cardinality(one \X all) = Cardinality(one) * Cardinality(all)
      OBVIOUS
    <3>1. IsFiniteSet(one) /\ IsFiniteSet(all) BY <2>1, <2>2
    <3> HIDE DEF one, all
    <3> QED BY <3>1, FS_Product
  <2> QED BY <1>5, <2>1, <2>2, <2>3
<1>8. ASSUME NEW s \in Uploads, s # r PROVE HeldBytes(s)' = HeldBytes(s)
  BY <1>1, <1>8 DEF HeldBytes, Live
<1>9. HeldBytes(r)' \subseteq new BY <1>1 DEF HeldBytes
<1> HIDE DEF new
<1>10. Held' \subseteq Held \union new BY <1>8, <1>9 DEF Held
<1> QED BY <1>1, <1>2, <1>5, <1>6, <1>7, <1>10 DEF new

\* Every step keeps the bytes finite, and lets them grow only within a quota.
LEMMA BytesStep ==
  ASSUME IInv, HeldInv, [Next]_vars
  PROVE  /\ HeldInv'
         /\ ActiveBytes' > ActiveBytes =>
              \E r \in Uploads : /\ phase[r] = "hashing" /\ phase'[r] = "committed"
                                 /\ ActiveBytes' <= EffectiveQuota(request[r].room)
<1>1. ActiveBytes = Cardinality(Held) /\ ActiveBytes' = Cardinality(Held')
  BY DEF ActiveBytes, Held
<1>2. ActiveBytes \in Nat BY <1>1, FS_CardinalityType DEF HeldInv
<1>3. CASE \A r \in Uploads : artifact[r] = None => artifact'[r] = None
  <2>1. ASSUME NEW r \in Uploads PROVE HeldBytes(r)' \subseteq HeldBytes(r)
    <3>1. CASE artifact[r] = None BY <1>3, <3>1 DEF HeldBytes, Live
    <3>2. CASE artifact[r] # None BY <3>2, OldRowsHoldNoMore
    <3> QED BY <3>1, <3>2
  <2>2. Held' \subseteq Held BY <2>1 DEF Held
  <2>3. IsFiniteSet(Held') /\ Cardinality(Held') <= Cardinality(Held)
    BY <2>2, FS_Subset DEF HeldInv
  <2>4. ActiveBytes' \in Nat BY <1>1, <2>3, FS_CardinalityType
  <2> QED BY <1>1, <1>2, <2>3, <2>4 DEF HeldInv
<1>4. ASSUME NEW r \in Uploads, artifact[r] = None, artifact'[r] # None
      PROVE  /\ HeldInv'
             /\ phase[r] = "hashing" /\ phase'[r] = "committed"
             /\ ActiveBytes' <= EffectiveQuota(request[r].room)
  <2>1. CommitUpload(r) BY <1>4, ArtifactsProgress
  <2> DEFINE size == SizeOf[request[r].file]
             new == {r} \X (1..size)
             quota == EffectiveQuota(request[r].room)
  <2>2. /\ Held' \subseteq Held \union new
        /\ IsFiniteSet(new) /\ Cardinality(new) = size
        /\ size \in Nat /\ ActiveBytes + size <= quota /\ quota \in Nat
        /\ phase[r] = "hashing" /\ phase'[r] = "committed"
    BY <2>1, CommitHolds
  <2> HIDE DEF new, size, quota
  <2>3. /\ IsFiniteSet(Held \union new)
        /\ Cardinality(Held \union new) =
             Cardinality(Held) + size - Cardinality(Held \intersect new)
    BY <2>2, FS_Union DEF HeldInv
  <2>4. /\ IsFiniteSet(Held \intersect new)
        /\ Cardinality(Held \intersect new) \in Nat
    BY <2>2, FS_Subset, FS_CardinalityType
  <2>5. /\ IsFiniteSet(Held') /\ Cardinality(Held') <= Cardinality(Held \union new)
        /\ Cardinality(Held') \in Nat
    BY <2>2, <2>3, FS_Subset, FS_CardinalityType
  <2>6. ActiveBytes' <= quota BY <1>1, <1>2, <2>2, <2>3, <2>4, <2>5
  <2> QED BY <2>2, <2>5, <2>6 DEF HeldInv, quota
<1> QED BY <1>3, <1>4

\* The active bytes grow only by an upload that fits the quota this upload saw:
\* the sum is taken again inside the transaction, so what other uploads did
\* between its steps is counted (sumActiveArtifactBytes in artifacts.ts).
THEOREM QuotaIsKept == Spec => BytesGrowWithinQuota
<1>1. Init => HeldInv
  <2> SUFFICES ASSUME Init PROVE HeldInv OBVIOUS
  <2>1. \A r \in Uploads : HeldBytes(r) = {} BY DEF Init, HeldBytes, Live
  <2>2. Held = {} BY <2>1 DEF Held
  <2> QED BY <2>2, FS_EmptySet DEF HeldInv
<1>2. IInv /\ HeldInv /\ [Next]_vars => HeldInv' BY BytesStep
<1>3. IInv /\ HeldInv /\ [Next]_vars =>
        [ActiveBytes' > ActiveBytes =>
           \E r \in Uploads : /\ phase[r] = "hashing" /\ phase'[r] = "committed"
                              /\ ActiveBytes' <= EffectiveQuota(request[r].room)]_vars
  BY BytesStep
<1> QED BY <1>1, <1>2, <1>3, Inductive, PTL DEF Spec, BytesGrowWithinQuota

-----------------------------------------------------------------------------
(* The approvals table.                                                    *)

Terms == [type : {"artifact_upload", "other"}, requestedBy : Agents,
          file : Files \union {NoFile}]

lterms == [a \in Approvals |-> TermsOf(approval[a])]
lopened == [a \in Approvals |-> OpenedOf(approval[a])]
lanswer == [a \in Approvals |-> AnswerOf(approval[a])]
lspent == {a \in Approvals : approval[a] # None /\ approval[a].consumed}

\* Changing one row changes the ledger there and nowhere else.
LEMMA OneRow ==
  ASSUME IInv, NEW a \in Approvals, NEW row \in ApprovalRow,
         approval' = [approval EXCEPT ![a] = row]
  PROVE  /\ lterms' = [lterms EXCEPT ![a] = TermsOf(row)]
         /\ lopened' = [lopened EXCEPT ![a] = row.created]
         /\ lanswer' = [lanswer EXCEPT ![a] = row.status]
         /\ lspent' = IF row.consumed THEN lspent \union {a} ELSE lspent \ {a}
<1>1. row # None BY NoneAssumption
<1>2. approval \in [Approvals -> ApprovalRow \union {None}] BY DEF IInv, TypeOK
<1>3. approval'[a] = row /\ \A b \in Approvals \ {a} : approval'[b] = approval[b]
  BY <1>2
<1>4. lterms' = [lterms EXCEPT ![a] = TermsOf(row)] BY <1>3 DEF lterms, TermsOf
<1>5. lopened' = [lopened EXCEPT ![a] = row.created]
  <2>1. OpenedOf(row) = row.created BY <1>1 DEF OpenedOf
  <2>2. lopened' = [b \in Approvals |-> OpenedOf(approval'[b])]
    BY DEF lopened, OpenedOf
  <2>3. lopened = [b \in Approvals |-> OpenedOf(approval[b])] BY DEF lopened
  <2> QED BY <1>3, <2>1, <2>2, <2>3
<1>6. lanswer' = [lanswer EXCEPT ![a] = row.status]
  <2>1. AnswerOf(row) = row.status BY <1>1 DEF AnswerOf
  <2>2. lanswer' = [b \in Approvals |-> AnswerOf(approval'[b])]
    BY DEF lanswer, AnswerOf
  <2>3. lanswer = [b \in Approvals |-> AnswerOf(approval[b])] BY DEF lanswer
  <2> QED BY <1>3, <2>1, <2>2, <2>3
<1>7. lspent' = IF row.consumed THEN lspent \union {a} ELSE lspent \ {a}
  BY <1>1, <1>3 DEF lspent
<1> QED BY <1>4, <1>5, <1>6, <1>7

\* The ledger's actions, read in terms of the table.
LEMMA Views ==
  /\ Ledger!LedgerInit <=>
       /\ now = 0 /\ lterms = [a \in Approvals |-> None]
       /\ lopened = [a \in Approvals |-> 0] /\ lanswer = [a \in Approvals |-> "none"]
       /\ lspent = {}
  /\ Ledger!Advance <=> now' = now + 1 /\ UNCHANGED <<lterms, lopened, lanswer, lspent>>
  /\ \A a, t : Ledger!Open(a, t) <=>
       /\ lanswer[a] = "none" /\ lanswer' = [lanswer EXCEPT ![a] = "pending"]
       /\ lterms' = [lterms EXCEPT ![a] = t] /\ lopened' = [lopened EXCEPT ![a] = now]
       /\ UNCHANGED <<now, lspent>>
  /\ \A a, d : Ledger!Decide(a, d) <=>
       /\ lanswer[a] = "pending" /\ ~(now - lopened[a] > ApprovalTTL)
       /\ lanswer' = [lanswer EXCEPT ![a] = d]
       /\ UNCHANGED <<now, lterms, lopened, lspent>>
  /\ \A S : Ledger!Lapse(S) <=>
       /\ \A a \in S : lanswer[a] = "pending" /\ now - lopened[a] > ApprovalTTL
       /\ lanswer' = [a \in Approvals |-> IF a \in S THEN "expired" ELSE lanswer[a]]
       /\ UNCHANGED <<now, lterms, lopened, lspent>>
  /\ \A a : Ledger!Spend(a) <=>
       /\ lanswer[a] = "approved" /\ lspent' = lspent \union {a}
       /\ UNCHANGED <<now, lterms, lopened, lanswer>>
  /\ UNCHANGED Ledger!ledger <=> UNCHANGED <<now, lterms, lopened, lanswer, lspent>>
  BY DEF Ledger!LedgerInit, Ledger!Advance, Ledger!Open, Ledger!Decide, Ledger!Lapse,
         Ledger!Spend, Ledger!Late, Ledger!ledger, lterms, lopened, lanswer, lspent

\* What the ledger shows of an opened row.
LEMMA Shown ==
  ASSUME IInv, NEW a \in Approvals, approval[a] # None
  PROVE  /\ approval[a] \in ApprovalRow
         /\ lterms[a] = TermsOf(approval[a]) /\ lopened[a] = approval[a].created
         /\ lanswer[a] = approval[a].status
         /\ a \in lspent <=> approval[a].consumed
  BY DEF lterms, lopened, lanswer, lspent, OpenedOf, AnswerOf, IInv, TypeOK

\* A row that keeps its terms keeps what the ledger calls its terms.
LEMMA SameRowTerms ==
  ASSUME NEW row \in ApprovalRow, NEW new \in ApprovalRow, Progress(row, new)
  PROVE  TermsOf(new) = TermsOf(row)
  BY NoneAssumption DEF Progress, TermsOf

\* The lazy expiry of one row.
LEMMA LazyIsLapse ==
  ASSUME IInv, NEW a \in Approvals, approval[a] # None, UNCHANGED now,
         approval' = [approval EXCEPT ![a] = WithLazyExpiry(approval[a])]
  PROVE  Ledger!Lapse({a}) \/ UNCHANGED Ledger!ledger
<1> DEFINE old == approval[a]
           row == WithLazyExpiry(old)
<1>1. /\ old \in ApprovalRow /\ lterms[a] = TermsOf(old) /\ lopened[a] = old.created
      /\ lanswer[a] = old.status /\ (a \in lspent <=> old.consumed)
  BY Shown
<1>2. approval \in [Approvals -> ApprovalRow \union {None}] BY DEF IInv, TypeOK
<1>3. CASE ~Overdue(old)
  <2>1. row = old BY <1>3 DEF WithLazyExpiry
  <2>2. UNCHANGED approval BY <1>2, <2>1
  <2> QED BY <2>2, Views DEF lterms, lopened, lanswer, lspent
<1>4. CASE Overdue(old)
  <2>1. row = [old EXCEPT !.status = "expired"] BY <1>4 DEF WithLazyExpiry
  <2>2. /\ row \in ApprovalRow /\ row.status = "expired" /\ row.created = old.created
        /\ row.consumed = old.consumed
    BY <1>1, <2>1 DEF ApprovalRow
  <2>3. TermsOf(row) = TermsOf(old)
    BY <1>1, <2>2, LazyExpiryProgress, SameRowTerms DEF IInv, SpentWasApproved
  <2>4. old.status = "pending" /\ now - old.created > ApprovalTTL BY <1>4 DEF Overdue
  <2> HIDE DEF row, old
  <2>5. approval' = [approval EXCEPT ![a] = row] BY DEF row, old
  <2>6. /\ lterms' = [lterms EXCEPT ![a] = TermsOf(row)]
        /\ lopened' = [lopened EXCEPT ![a] = row.created]
        /\ lanswer' = [lanswer EXCEPT ![a] = row.status]
        /\ lspent' = IF row.consumed THEN lspent \union {a} ELSE lspent \ {a}
    BY <2>2, <2>5, OneRow
  <2>7. /\ lterms = [b \in Approvals |-> lterms[b]]
        /\ lopened = [b \in Approvals |-> lopened[b]]
        /\ lanswer = [b \in Approvals |-> lanswer[b]]
    BY DEF lterms, lopened, lanswer
  <2>8. UNCHANGED <<lterms, lopened, lspent>>
    <3>1. lterms' = lterms BY <1>1, <2>3, <2>6, <2>7
    <3>2. lopened' = lopened BY <1>1, <2>2, <2>6, <2>7
    <3>3. lspent' = lspent BY <1>1, <2>2, <2>6
    <3> QED BY <3>1, <3>2, <3>3
  <2>9. lanswer' = [b \in Approvals |-> IF b \in {a} THEN "expired" ELSE lanswer[b]]
    BY <2>2, <2>6, <2>7
  <2>10. \A b \in {a} : lanswer[b] = "pending" /\ now - lopened[b] > ApprovalTTL
    BY <1>1, <2>4
  <2> QED BY <2>8, <2>9, <2>10, Views
<1> QED BY <1>3, <1>4

LEMMA ListIsLapse ==
  ASSUME IInv, ListApprovals
  PROVE  \E S \in SUBSET Approvals : Ledger!Lapse(S)
<1> DEFINE S == {a \in Approvals : approval[a] # None /\ Overdue(approval[a])}
<1>1. /\ approval' = [a \in Approvals |-> IF approval[a] = None THEN None
                                          ELSE WithLazyExpiry(approval[a])]
      /\ UNCHANGED now
  BY DEF ListApprovals
<1>2. \A a \in S : lanswer[a] = "pending" /\ now - lopened[a] > ApprovalTTL
  BY Shown DEF Overdue
<1>3. ASSUME NEW a \in Approvals
      PROVE  /\ TermsOf(approval'[a]) = TermsOf(approval[a])
             /\ OpenedOf(approval'[a]) = OpenedOf(approval[a])
             /\ AnswerOf(approval'[a]) = IF a \in S THEN "expired" ELSE AnswerOf(approval[a])
             /\ approval'[a] # None /\ approval'[a].consumed <=>
                  approval[a] # None /\ approval[a].consumed
  <2> DEFINE old == approval[a]
             row == WithLazyExpiry(old)
  <2>1. CASE old = None BY <1>1, <2>1
  <2>2. CASE old # None
    <3>1. old \in ApprovalRow BY <2>2, Shown
    <3>2. Progress(old, row) /\ row.consumed = old.consumed
      BY <2>2, <3>1, LazyExpiryProgress DEF IInv, SpentWasApproved
    <3>3. row \in ApprovalRow /\ row.created = old.created BY <3>2 DEF Progress
    <3>4. row # None BY <3>3, NoneAssumption
    <3>5. row.status = IF a \in S THEN "expired" ELSE old.status
      BY <2>2, <3>1 DEF WithLazyExpiry, ApprovalRow
    <3>6. approval'[a] = row BY <1>1, <2>2
    <3>7. TermsOf(row) = TermsOf(old) BY <3>1, <3>2, <3>3, SameRowTerms
    <3> HIDE DEF row, S
    <3> QED BY <2>2, <3>2, <3>3, <3>4, <3>5, <3>6, <3>7 DEF OpenedOf, AnswerOf
  <2> QED BY <2>1, <2>2
<1> HIDE DEF S
<1>4. lterms' = lterms BY <1>3 DEF lterms
<1>5. lopened' = lopened BY <1>3 DEF lopened
<1>6. lspent' = lspent BY <1>3 DEF lspent
<1>7. lanswer' = [a \in Approvals |-> IF a \in S THEN "expired" ELSE lanswer[a]]
  BY <1>3 DEF lanswer
<1>8. Ledger!Lapse(S) BY <1>1, <1>2, <1>4, <1>5, <1>6, <1>7, Views
<1>9. S \in SUBSET Approvals BY DEF S
<1> QED BY <1>8, <1>9

LEMMA CreateIsOpen ==
  ASSUME IInv, NEW a \in Approvals, NEW agent \in Agents,
         NEW type \in {"artifact_upload", "other"}, NEW file \in Files \union {NoFile},
         CreateApproval(a, agent, type, file)
  PROVE  \E t \in Terms : Ledger!Open(a, t)
<1> DEFINE row == [status |-> "pending", type |-> type, requestedBy |-> agent,
                   file |-> file, created |-> now, consumed |-> FALSE]
           t == [type |-> type, requestedBy |-> agent, file |-> file]
<1>1. /\ approval[a] = None /\ UNCHANGED now
      /\ approval' = [approval EXCEPT ![a] = row]
  BY DEF CreateApproval
<1>2. /\ row \in ApprovalRow /\ row.status = "pending" /\ row.created = now
      /\ ~row.consumed
  BY DEF ApprovalRow, IInv, TypeOK
<1>3. t \in Terms BY DEF Terms
<1>4. row # None BY <1>2, NoneAssumption
<1>5. TermsOf(row) = t BY <1>4 DEF TermsOf
<1> HIDE DEF row, t
<1>6. lanswer[a] = "none" BY <1>1 DEF lanswer, AnswerOf
<1>7. a \notin lspent BY <1>1 DEF lspent
<1>8. /\ lterms' = [lterms EXCEPT ![a] = t] /\ lopened' = [lopened EXCEPT ![a] = now]
      /\ lanswer' = [lanswer EXCEPT ![a] = "pending"]
      /\ lspent' = IF row.consumed THEN lspent \union {a} ELSE lspent \ {a}
  <2>1. /\ lterms' = [lterms EXCEPT ![a] = TermsOf(row)]
        /\ lopened' = [lopened EXCEPT ![a] = row.created]
        /\ lanswer' = [lanswer EXCEPT ![a] = row.status]
        /\ lspent' = IF row.consumed THEN lspent \union {a} ELSE lspent \ {a}
    BY <1>1, <1>2, OneRow
  <2> QED BY <1>2, <1>5, <2>1
<1>9. lspent' = lspent BY <1>2, <1>7, <1>8
<1> QED BY <1>1, <1>3, <1>6, <1>8, <1>9, Views

LEMMA RespondIsDecideOrLapse ==
  ASSUME IInv, NEW a \in Approvals, NEW user \in Users, NEW decision \in Decisions,
         RespondApproval(a, user, decision)
  PROVE  Ledger!Decide(a, decision) \/ Ledger!Lapse({a}) \/ UNCHANGED Ledger!ledger
<1> DEFINE old == approval[a]
           row == WithLazyExpiry(old)
           decided == user = Owner[row.requestedBy] /\ row.status = "pending"
<1>1. /\ old # None /\ UNCHANGED now
      /\ approval' = [approval EXCEPT ![a] =
           IF decided THEN [row EXCEPT !.status = decision] ELSE row]
  BY DEF RespondApproval
<1>2. CASE ~decided
  <2>1. approval' = [approval EXCEPT ![a] = WithLazyExpiry(approval[a])] BY <1>1, <1>2
  <2> QED BY <1>1, <2>1, LazyIsLapse
<1>3. CASE decided
  <2>1. /\ old \in ApprovalRow /\ lterms[a] = TermsOf(old) /\ lopened[a] = old.created
        /\ lanswer[a] = old.status /\ (a \in lspent <=> old.consumed)
    BY <1>1, Shown
  <2>2. ~Overdue(old)
    <3> SUFFICES ASSUME Overdue(old) PROVE FALSE OBVIOUS
    <3>1. row = [old EXCEPT !.status = "expired"] BY DEF WithLazyExpiry
    <3>2. row.status = "expired" BY <2>1, <3>1 DEF ApprovalRow
    <3> QED BY <1>3, <3>2
  <2>3. row = old BY <2>2 DEF WithLazyExpiry
  <2>4. old.status = "pending" BY <1>3, <2>3
  <2>5. ~(now - old.created > ApprovalTTL) BY <2>2, <2>4 DEF Overdue
  <2> DEFINE new == [old EXCEPT !.status = decision]
  <2>6. approval' = [approval EXCEPT ![a] = new] BY <1>1, <1>3, <2>3
  <2>7. ~old.consumed BY <1>1, <2>4 DEF IInv, SpentWasApproved
  <2>8. /\ new \in ApprovalRow /\ new.status = decision /\ new.created = old.created
        /\ ~new.consumed
        /\ Progress(old, new)
    BY <2>1, <2>4, <2>7 DEF ApprovalRow, Progress, Decisions
  <2>9. TermsOf(new) = TermsOf(old) BY <2>1, <2>8, SameRowTerms
  <2> HIDE DEF new, old
  <2>10. /\ lterms' = [lterms EXCEPT ![a] = TermsOf(new)]
         /\ lopened' = [lopened EXCEPT ![a] = new.created]
         /\ lanswer' = [lanswer EXCEPT ![a] = new.status]
         /\ lspent' = IF new.consumed THEN lspent \union {a} ELSE lspent \ {a}
    BY <2>6, <2>8, OneRow
  <2>11. /\ lterms = [b \in Approvals |-> lterms[b]]
         /\ lopened = [b \in Approvals |-> lopened[b]]
    BY DEF lterms, lopened
  <2>12. lterms' = lterms BY <2>1, <2>9, <2>10, <2>11
  <2>13. lopened' = lopened BY <2>1, <2>8, <2>10, <2>11
  <2>14. lspent' = lspent BY <2>1, <2>7, <2>8, <2>10
  <2>15. lanswer' = [lanswer EXCEPT ![a] = decision] BY <2>8, <2>10
  <2> QED BY <1>1, <2>1, <2>4, <2>5, <2>12, <2>13, <2>14, <2>15, Views
<1> QED BY <1>2, <1>3

LEMMA ReadIsLapse ==
  ASSUME IInv, NEW r \in Uploads, ReadApproval(r)
  PROVE  (\E a \in Approvals : Ledger!Lapse({a})) \/ UNCHANGED Ledger!ledger
<1> DEFINE a == request[r].approval
<1>1. CASE UNCHANGED approval
  <2>1. UNCHANGED now BY DEF ReadApproval
  <2> QED BY <1>1, <2>1, Views DEF lterms, lopened, lanswer, lspent
<1>2. CASE /\ a # None /\ approval[a] # None
           /\ approval' = [approval EXCEPT ![a] = WithLazyExpiry(approval[a])]
  <2>1. a \in Approvals
    <3>1. request[r] \in UploadRequest
      BY DEF ReadApproval, IInv, ReadStaysTrue, TypeOK, InFlight
    <3> QED BY <1>2, <3>1 DEF UploadRequest
  <2>2. UNCHANGED now BY DEF ReadApproval
  <2> HIDE DEF a
  <2> QED BY <1>2, <2>1, <2>2, LazyIsLapse
<1> QED BY <1>1, <1>2 DEF ReadApproval

LEMMA CommitIsSpend ==
  ASSUME IInv, NEW r \in Uploads, CommitUpload(r)
  PROVE  (\E a \in Approvals : Ledger!Spend(a)) \/ UNCHANGED Ledger!ledger
<1> DEFINE a == request[r].approval
<1>1. UNCHANGED now /\ Consume(request[r]) BY DEF CommitUpload
<1>2. CASE ~NeedsApproval(request[r].user, request[r].file)
  <2>1. UNCHANGED approval BY <1>1, <1>2 DEF Consume
  <2> QED BY <1>1, <2>1, Views DEF lterms, lopened, lanswer, lspent
<1>3. CASE NeedsApproval(request[r].user, request[r].file)
  <2> DEFINE old == approval[a]
             new == [old EXCEPT !.consumed = TRUE]
  <2>1. a \in Approvals /\ old # None /\ old.status = "approved"
    BY <1>3, OpenGateHasApproval DEF CommitUpload
  <2>2. approval' = [approval EXCEPT ![a] = new] BY <1>1, <1>3 DEF Consume
  <2>3. /\ old \in ApprovalRow /\ lterms[a] = TermsOf(old) /\ lopened[a] = old.created
        /\ lanswer[a] = old.status
    BY <2>1, Shown
  <2>4. /\ new \in ApprovalRow /\ new.consumed /\ new.status = old.status
        /\ new.created = old.created /\ Progress(old, new)
    BY <2>1, <2>3 DEF ApprovalRow, Progress
  <2>5. TermsOf(new) = TermsOf(old) BY <2>3, <2>4, SameRowTerms
  <2> HIDE DEF new, old, a
  <2>6. /\ lterms' = [lterms EXCEPT ![a] = TermsOf(new)]
        /\ lopened' = [lopened EXCEPT ![a] = new.created]
        /\ lanswer' = [lanswer EXCEPT ![a] = new.status]
        /\ lspent' = IF new.consumed THEN lspent \union {a} ELSE lspent \ {a}
    BY <2>1, <2>2, <2>4, OneRow
  <2>7. /\ lterms = [b \in Approvals |-> lterms[b]]
        /\ lopened = [b \in Approvals |-> lopened[b]]
        /\ lanswer = [b \in Approvals |-> lanswer[b]]
    BY DEF lterms, lopened, lanswer
  <2>8. lterms' = lterms BY <2>3, <2>5, <2>6, <2>7
  <2>9. lopened' = lopened BY <2>3, <2>4, <2>6, <2>7
  <2>10. lanswer' = lanswer BY <2>3, <2>4, <2>6, <2>7
  <2>11. lspent' = lspent \union {a} BY <2>4, <2>6
  <2> QED BY <1>1, <2>1, <2>3, <2>8, <2>9, <2>10, <2>11, Views
<1> QED BY <1>2, <1>3

-----------------------------------------------------------------------------
LEMMA LedgerStart == Init => Ledger!LedgerInit
<1> SUFFICES ASSUME Init PROVE Ledger!LedgerInit OBVIOUS
<1>1. now = 0 /\ approval = [a \in Approvals |-> None] BY DEF Init
<1>2. lterms = [a \in Approvals |-> None] BY <1>1 DEF lterms, TermsOf
<1>3. lopened = [a \in Approvals |-> 0] BY <1>1 DEF lopened, OpenedOf
<1>4. lanswer = [a \in Approvals |-> "none"] BY <1>1 DEF lanswer, AnswerOf
<1>5. lspent = {} BY <1>1 DEF lspent
<1> QED BY <1>1, <1>2, <1>3, <1>4, <1>5, Views

LEMMA LedgerStep == IInv /\ [Next]_vars => [Ledger!LedgerNext]_(Ledger!ledger)
<1> DEFINE Step == Ledger!LedgerNext \/ UNCHANGED Ledger!ledger
<1> SUFFICES ASSUME IInv, [Next]_vars PROVE Step OBVIOUS
<1>1. CASE UNCHANGED <<approval, now>>
  BY <1>1, Views DEF lterms, lopened, lanswer, lspent
<1>2. CASE Tick
  <2>1. now' = now + 1 /\ UNCHANGED approval BY <1>2 DEF Tick
  <2>2. Ledger!Advance BY <2>1, Views DEF lterms, lopened, lanswer, lspent
  <2> QED BY <2>2 DEF Ledger!LedgerNext
<1>3. CASE ListApprovals BY <1>3, ListIsLapse DEF Ledger!LedgerNext
<1>4. ASSUME NEW a \in Approvals, NEW agent \in Agents,
             NEW type \in {"artifact_upload", "other"},
             NEW file \in Files \union {NoFile}, CreateApproval(a, agent, type, file)
      PROVE  Step
  BY <1>4, CreateIsOpen DEF Ledger!LedgerNext, Terms
<1>5. ASSUME NEW a \in Approvals, NEW user \in Users, NEW decision \in Decisions,
             RespondApproval(a, user, decision)
      PROVE  Step
  BY <1>5, RespondIsDecideOrLapse DEF Ledger!LedgerNext, Decisions
<1>6. ASSUME NEW r \in Uploads, ReadApproval(r) PROVE Step
  BY <1>6, ReadIsLapse DEF Ledger!LedgerNext
<1>7. ASSUME NEW r \in Uploads, CommitUpload(r) PROVE Step
  BY <1>7, CommitIsSpend DEF Ledger!LedgerNext
<1>8. ASSUME NEW r \in Uploads
      PROVE  FailUpload(r) \/ RefuseUnapproved(r) \/ RefuseOverQuota(r) \/ CrashInUpload(r)
               => UNCHANGED <<approval, now>>
  BY DEF FailUpload, RefuseUnapproved, RefuseOverQuota, CrashInUpload
<1>9. ASSUME NEW r \in Uploads, NEW user \in Users, NEW file \in Files,
             NEW a \in Approvals \union {None}, BeginUpload(r, user, file, a)
      PROVE  UNCHANGED <<approval, now>>
  BY <1>9 DEF BeginUpload
<1>10. ASSUME NEW failed \in SUBSET Uploads, Sweep(failed) \/ Boot(failed)
       PROVE  UNCHANGED <<approval, now>>
  BY <1>10 DEF Sweep, Boot
<1>11. ASSUME NEW done \in SUBSET Uploads, NEW cut \in Uploads, CrashInSweep(done, cut)
       PROVE  UNCHANGED <<approval, now>>
  BY <1>11 DEF CrashInSweep
<1>12. Crash \/ (\E new \in RoomRow : PatchSettings(new)) \/ UNCHANGED vars
         => UNCHANGED <<approval, now>>
  BY DEF Crash, PatchSettings, vars
<1> HIDE DEF Step
<1> QED BY <1>1, <1>2, <1>3, <1>4, <1>5, <1>6, <1>7, <1>8, <1>9, <1>10, <1>11, <1>12
        DEF Next, FinishUpload

\* The approvals routes and the upload gate together implement the ledger.
THEOREM LedgerImplemented == Spec => ImplementsLedger
  BY LedgerStart, LedgerStep, Inductive, PTL DEF Spec, ImplementsLedger, Ledger!LedgerSpec
=============================================================================
