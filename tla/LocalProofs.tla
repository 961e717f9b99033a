---------------------------- MODULE LocalProofs -----------------------------
(***************************************************************************)
(* What is kept on a human's own machine: the configuration of the bridge, *)
(* what its tools send by it, what they download, and the session of the   *)
(* browser; for every number of edits, calls, contents, tabs and invites.  *)
(***************************************************************************)
EXTENDS Outbox, Downloads, SignIn, FiniteSetTheorems, TLAPS

-----------------------------------------------------------------------------
(* The configuration.                                                      *)

\* A watch on a file that has left the path has told of it, and the bridge
\* runs by a configuration that passed.
WatchInv ==
  /\ current \in Configs /\ event \in BOOLEAN /\ missed \in BOOLEAN
  /\ watch \in {"live", "stale", "none"}
  /\ watch = "stale" => event \/ debounce
  /\ KeepsUp

LEMMA WatchInvInit == WatchInit => WatchInv
BY DEF WatchInit, WatchInv, KeepsUp, Settled

LEMMA WatchInvStep ==
  ASSUME WatchInv, [WatchNext]_config
  PROVE  WatchInv'
<1>1. CASE Edit
  <2>1. PICK x \in Texts : Overwrite(x) \/ Replace(x) BY <1>1 DEF Edit
  <2>2. /\ UNCHANGED <<current, debounce, loading, stopped>>
        /\ event' = (event \/ watch = "live") /\ missed' = (missed \/ watch = "none")
        /\ watch' = "stale" => watch \in {"stale", "live"}
    BY <2>1 DEF Overwrite, Replace, Change, Seen
  <2>3. event' \in BOOLEAN /\ missed' \in BOOLEAN BY <2>2 DEF WatchInv
  <2>4. watch = "live" => event' BY <2>2
  <2>5. event => event' BY <2>2
  <2>6. watch = "none" \/ missed => missed' BY <2>2
  <2>7. KeepsUp'
    <3>1. CASE watch = "live" BY <2>4, <3>1 DEF KeepsUp, Settled
    <3>2. CASE watch = "stale" BY <2>2, <2>5, <3>2 DEF WatchInv, KeepsUp, Settled
    <3>3. CASE watch = "none" BY <2>6, <3>3 DEF KeepsUp
    <3> QED BY <3>1, <3>2, <3>3 DEF WatchInv
  <2>8. current' \in Configs BY <2>2 DEF WatchInv
  <2>9. watch' \in {"live", "stale", "none"}
    BY <2>1 DEF Overwrite, Replace, WatchInv
  <2>10. watch' = "stale" => event' \/ debounce' BY <2>2, <2>4, <2>5 DEF WatchInv
  <2> QED BY <2>3, <2>7, <2>8, <2>9, <2>10 DEF WatchInv
<1>2. CASE Notified BY <1>2 DEF Notified, WatchInv, KeepsUp, Settled
<1>3. CASE DebounceOver BY <1>3 DEF DebounceOver, Rewatch, WatchInv, KeepsUp, Settled
<1>4. CASE Reload BY <1>4 DEF Reload, WatchInv, KeepsUp, Settled
<1>5. CASE WatchFails BY <1>5 DEF WatchFails, WatchInv, KeepsUp, Settled
<1>6. CASE RetryOver BY <1>6 DEF RetryOver, Rewatch, WatchInv, KeepsUp, Settled
<1>7. CASE StopWatch BY <1>7 DEF StopWatch, WatchInv, KeepsUp, Settled
<1>8. CASE UNCHANGED config
  BY <1>8 DEF config, watching, WatchInv, KeepsUp, Settled
<1> QED BY <1>1, <1>2, <1>3, <1>4, <1>5, <1>6, <1>7, <1>8 DEF WatchNext

\* When all has settled the bridge runs by the file as it is, but for changes
\* that no open watch could see (reload.ts startConfigWatcher).
THEOREM WatchKeepsUp == WatchSpec => []KeepsUp
<1>1. WatchInv => KeepsUp BY DEF WatchInv
<1> QED BY <1>1, WatchInvInit, WatchInvStep, PTL DEF WatchSpec

-----------------------------------------------------------------------------
(* What the tools send.                                                    *)

JobType ==
  [tool : {"none", "say", "upload"},
   pc : {"none", "resolve", "post", "said", "stat", "scan", "hash", "request", "lookup",
         "send", "stored"},
   cfg : Configs \union {None}, id : Tickets \union {None},
   sized : Contents \union {None}, sha : Contents \union {None},
   touched : BOOLEAN, approved : BOOLEAN]

\* An upload of a file that nobody writes has found, by the one configuration
\* it started with, all that it needs to go on from where it is.
Found(j) ==
  LET call == job[j] IN
  /\ call.pc \in {"scan", "hash", "request", "lookup", "send"} =>
       local \in Admits[call.cfg] /\ call.sized = local
  /\ call.pc \in {"hash", "request", "lookup", "send"} => local \notin Secret
  /\ call.pc = "lookup" => call.id # None
  /\ call.pc = "send" /\ call.id = None => local \in Frees[call.cfg]

\* The configuration a call started with lets through what it did.
JobSound(j) ==
  /\ job[j].tool = "upload" => job[j].touched \/ Found(j)
  /\ job[j].tool = "say" => job[j].cfg \in Talkative
  /\ job[j].tool = "upload" /\ job[j].pc = "stored" =>
       \/ job[j].touched
       \/ /\ job[j].sha \in Admits[job[j].cfg] \ Secret
          /\ job[j].approved \/ job[j].sha \in Frees[job[j].cfg]

OutboxInv ==
  /\ WatchInv
  /\ job \in [Jobs -> JobType] /\ local \in Contents \union {None}
  /\ \A j \in Jobs : JobSound(j)

\* A call is alone in what it does to itself.
LEMMA OneJob ==
  ASSUME job \in [Jobs -> JobType], NEW j \in Jobs, NEW next \in JobType,
         job' = [job EXCEPT ![j] = next]
  PROVE  /\ job' \in [Jobs -> JobType] /\ job'[j] = next
         /\ \A k \in Jobs : k # j => job'[k] = job[k]
OBVIOUS

LEMMA NoJobSound == NoJob \in JobType /\ NoJob.tool = "none"
BY DEF NoJob, JobType

\* A step of one call that leaves the rest alone need only look after itself.
LEMMA JobStep ==
  ASSUME OutboxInv, NEW j \in Jobs, NEW next \in JobType,
         job' = [job EXCEPT ![j] = next], UNCHANGED <<config, local>>,
         JobSound(j)'
  PROVE  OutboxInv'
<1>1. /\ WatchInv /\ job \in [Jobs -> JobType] /\ local \in Contents \union {None}
      /\ \A k \in Jobs : JobSound(k)
  BY DEF OutboxInv
<1>2. /\ job' \in [Jobs -> JobType] /\ \A k \in Jobs : k # j => job'[k] = job[k]
  BY <1>1, OneJob
<1>3. WatchInv' BY <1>1, WatchInvStep
<1>4. \A k \in Jobs : k # j => JobSound(k)' BY <1>1, <1>2 DEF JobSound, Found
<1>5. \A k \in Jobs : JobSound(k)' BY <1>4
<1> QED BY <1>1, <1>2, <1>3, <1>5 DEF OutboxInv

LEMMA EndsKeeps ==
  ASSUME OutboxInv, NEW j \in Jobs, Ends(j), UNCHANGED <<config, local>>
  PROVE  OutboxInv'
<1>1. job'[j] = NoJob BY OneJob, NoJobSound DEF Ends, OutboxInv
<1>2. JobSound(j)' BY <1>1, NoJobSound DEF JobSound
<1> QED BY <1>2, JobStep, NoJobSound DEF Ends

LEMMA BeginsKeeps ==
  ASSUME OutboxInv, NEW j \in Jobs, NEW id \in Tickets \union {None},
         UNCHANGED <<config, local>>,
         \/ current \in Talkative /\ \E pc \in {"resolve", "post"} : Begins(j, "say", pc, None)
         \/ Begins(j, "upload", "stat", id)
  PROVE  OutboxInv'
<1>1. current \in Configs BY DEF OutboxInv, WatchInv
<1>2. ASSUME NEW tool \in {"say", "upload"}, NEW pc \in {"resolve", "post", "stat"},
             NEW t \in Tickets \union {None}, Begins(j, tool, pc, t),
             tool = "say" => current \in Talkative, tool = "upload" => pc = "stat"
      PROVE  OutboxInv'
  <2> DEFINE next == [NoJob EXCEPT !.tool = tool, !.pc = pc, !.id = t,
                                   !.cfg = current]
  <2>1. job' = [job EXCEPT ![j] = next] BY <1>2 DEF Begins
  <2>2. next \in JobType /\ next.tool = tool /\ next.pc = pc
        /\ next.cfg = current
    BY <1>1 DEF NoJob, JobType
  <2> HIDE DEF next
  <2>3. job'[j] = next BY <2>1, <2>2, OneJob DEF OutboxInv
  <2>4. JobSound(j)' BY <1>2, <2>2, <2>3 DEF JobSound, Found
  <2> QED BY <2>1, <2>2, <2>4, JobStep
<1> QED BY <1>2

\* A call goes on with the policy it has found.
LEMMA GoesKeeps ==
  ASSUME OutboxInv, NEW j \in Jobs, UNCHANGED <<config, local>>,
         NEW pc \in {"post", "said", "send"}, Goes(j, pc),
         \/ job[j].tool = "say" /\ pc # "send"
         \/ job[j].tool = "upload" /\ job[j].pc = "lookup" /\ pc = "send"
  PROVE  OutboxInv'
<1>1. job \in [Jobs -> JobType] /\ JobSound(j) BY DEF OutboxInv
<1> DEFINE next == [job[j] EXCEPT !.pc = pc]
<1>2. next \in JobType /\ next.pc = pc /\ next.tool = job[j].tool
      /\ next.touched = job[j].touched /\ next.cfg = job[j].cfg
      /\ next.sized = job[j].sized /\ next.id = job[j].id
  BY <1>1 DEF JobType
<1>3. job' = [job EXCEPT ![j] = next] BY DEF Goes
<1> HIDE DEF next
<1>4. job'[j] = next BY <1>1, <1>2, <1>3, OneJob
<1>5. JobSound(j)' BY <1>1, <1>2, <1>4 DEF JobSound, Found
<1> QED BY <1>2, <1>3, <1>5, JobStep

LEMMA ChecksKeep ==
  ASSUME OutboxInv, NEW j \in Jobs, Stat(j) \/ Scan(j) \/ HashFile(j)
  PROVE  OutboxInv'
<1>1. job \in [Jobs -> JobType] /\ JobSound(j) /\ local \in Contents \union {None}
  BY DEF OutboxInv
<1>2. UNCHANGED <<config, local>> /\ job[j].tool = "upload"
  BY DEF Stat, Scan, HashFile, Checks, At
<1>3. CASE Ends(j) BY <1>2, <1>3, EndsKeeps
<1>4. ASSUME NEW next \in JobType, job' = [job EXCEPT ![j] = next],
             next.tool = "upload", next.touched = job[j].touched,
             next.cfg = job[j].cfg, next.id = job[j].id,
             next.pc \in {"scan", "hash", "request", "lookup", "send"},
             next.sized = local \/ (next.sized = job[j].sized /\ job[j].pc \in {"scan", "hash"}),
             local \in Admits[next.cfg] \/ job[j].pc \in {"scan", "hash"},
             next.pc # "scan" => local \notin Secret \/ job[j].pc = "hash",
             next.pc = "lookup" => next.id # None,
             next.pc = "send" => next.sized \in Frees[next.cfg]
      PROVE  OutboxInv'
  <2>1. job'[j] = next BY <1>1, <1>4, OneJob
  <2>2. JobSound(j)' BY <1>1, <1>2, <1>4, <2>1 DEF JobSound, Found
  <2> QED BY <1>2, <1>4, <2>2, JobStep
<1>5. CASE Stat(j) /\ ~Ends(j)
  <2> DEFINE next == [job[j] EXCEPT !.pc = "scan", !.sized = local]
  <2>1. local \in Admits[job[j].cfg] /\ job' = [job EXCEPT ![j] = next]
    BY <1>5 DEF Stat, Checks, Becomes
  <2>2. next \in JobType /\ next.pc = "scan" /\ next.tool = job[j].tool
        /\ next.touched = job[j].touched /\ next.cfg = job[j].cfg
        /\ next.sized = local /\ next.id = job[j].id
    <3>1. next \in JobType BY <1>1, ZenonT(30) DEF JobType
    <3>2. /\ next.pc = "scan" /\ next.tool = job[j].tool
          /\ next.touched = job[j].touched /\ next.cfg = job[j].cfg
          /\ next.sized = local
          /\ next.id = job[j].id
      BY <1>1 DEF JobType
    <3> QED BY <3>1, <3>2
  <2> HIDE DEF next
  <2> QED BY <1>2, <1>4, <2>1, <2>2
<1>6. CASE Scan(j) /\ ~Ends(j)
  <2> DEFINE next == [job[j] EXCEPT !.pc = "hash"]
  <2>1. job[j].pc = "scan" /\ local \notin Secret /\ job' = [job EXCEPT ![j] = next]
    BY <1>6 DEF Scan, Checks, Becomes, At
  <2>2. next \in JobType /\ next.pc = "hash" /\ next.tool = job[j].tool
        /\ next.touched = job[j].touched /\ next.cfg = job[j].cfg
        /\ next.sized = job[j].sized /\ next.id = job[j].id
    BY <1>1 DEF JobType
  <2> HIDE DEF next
  <2> QED BY <1>2, <1>4, <2>1, <2>2
<1>7. CASE HashFile(j) /\ ~Ends(j)
  <2> DEFINE next == [job[j] EXCEPT !.pc = Decision(j), !.sha = local]
  <2>1. job[j].pc = "hash" /\ job' = [job EXCEPT ![j] = next]
    BY <1>7 DEF HashFile, Checks, Becomes, At
  <2>2. /\ Decision(j) \in {"send", "request", "lookup"}
        /\ Decision(j) = "send" => job[j].sized \in Frees[job[j].cfg]
        /\ Decision(j) = "lookup" => job[j].id # None
    BY DEF Decision
  <2>3. next \in JobType /\ next.pc = Decision(j) /\ next.tool = job[j].tool
        /\ next.touched = job[j].touched /\ next.cfg = job[j].cfg
        /\ next.sized = job[j].sized /\ next.id = job[j].id
    <3>1. next \in JobType BY <1>1, <2>2, ZenonT(30) DEF JobType
    <3>2. /\ next.pc = Decision(j) /\ next.tool = job[j].tool
          /\ next.touched = job[j].touched /\ next.cfg = job[j].cfg
          /\ next.sized = job[j].sized
          /\ next.id = job[j].id
      BY <1>1, <2>2 DEF JobType
    <3> QED BY <3>1, <3>2
  <2> HIDE DEF next
  <2> QED BY <1>2, <1>4, <2>1, <2>2, <2>3
<1> QED BY <1>3, <1>5, <1>6, <1>7

LEMMA SendKeeps ==
  ASSUME OutboxInv, NEW j \in Jobs, SendFile(j)
  PROVE  OutboxInv'
<1>1. job \in [Jobs -> JobType] /\ JobSound(j) /\ local \in Contents \union {None}
  BY DEF OutboxInv
<1>2. UNCHANGED <<config, local>> /\ job[j].tool = "upload" /\ job[j].pc = "send"
  BY DEF SendFile, At
<1>3. ASSUME NEW next \in JobType, job' = [job EXCEPT ![j] = next],
             next.tool = "upload", next.touched = job[j].touched, next.pc = "stored",
             next.cfg = job[j].cfg, next.sha = local,
             next.approved \/ job[j].id = None
      PROVE  OutboxInv'
  <2>1. job'[j] = next BY <1>1, <1>3, OneJob
  <2>2. JobSound(j)' BY <1>1, <1>2, <1>3, <2>1 DEF JobSound, Found
  <2> QED BY <1>2, <1>3, <2>2, JobStep
<1>4. CASE Ends(j) BY <1>2, <1>4, EndsKeeps
<1>5. CASE job[j].id = None /\ Becomes(j, [job[j] EXCEPT !.pc = "stored", !.sha = local])
  <2> DEFINE next == [job[j] EXCEPT !.pc = "stored", !.sha = local]
  <2>1. next \in JobType /\ next.pc = "stored" /\ next.tool = job[j].tool
        /\ next.touched = job[j].touched /\ next.cfg = job[j].cfg
        /\ next.sha = local
    <3>1. next \in JobType BY <1>1, ZenonT(30) DEF JobType
    <3>2. /\ next.pc = "stored" /\ next.tool = job[j].tool
          /\ next.touched = job[j].touched /\ next.cfg = job[j].cfg
          /\ next.sha = local
      BY <1>1 DEF JobType
    <3> QED BY <3>1, <3>2
  <2>2. job' = [job EXCEPT ![j] = next] BY <1>5 DEF Becomes
  <2> HIDE DEF next
  <2> QED BY <1>2, <1>3, <1>5, <2>1, <2>2
<1>6. CASE Becomes(j, [job[j] EXCEPT !.pc = "stored", !.sha = local, !.approved = TRUE])
  <2> DEFINE next == [job[j] EXCEPT !.pc = "stored", !.sha = local, !.approved = TRUE]
  <2>1. next \in JobType /\ next.pc = "stored" /\ next.tool = job[j].tool
        /\ next.touched = job[j].touched /\ next.cfg = job[j].cfg
        /\ next.sha = local /\ next.approved
    <3>1. next \in JobType
      <4> DEFINE sent == [job[j] EXCEPT !.pc = "stored", !.sha = local]
      <4>1. sent \in JobType BY <1>1, ZenonT(30) DEF JobType
      <4>2. next = [sent EXCEPT !.approved = TRUE] BY <1>1 DEF JobType
      <4> HIDE DEF sent, next
      <4> QED BY <4>1, <4>2 DEF JobType
    <3>2. /\ next.pc = "stored" /\ next.tool = job[j].tool
          /\ next.touched = job[j].touched /\ next.cfg = job[j].cfg
          /\ next.sha = local /\ next.approved
      BY <1>1 DEF JobType
    <3> QED BY <3>1, <3>2
  <2>2. job' = [job EXCEPT ![j] = next] BY <1>6 DEF Becomes
  <2> HIDE DEF next
  <2> QED BY <1>2, <1>3, <2>1, <2>2
<1> QED BY <1>4, <1>5, <1>6 DEF SendFile

\* Somebody writes the file: what the calls had found of it counts no more.
LEMMA RewriteKeeps ==
  ASSUME OutboxInv, Rewrite
  PROVE  OutboxInv'
<1>1. /\ WatchInv /\ job \in [Jobs -> JobType] /\ local \in Contents \union {None}
      /\ \A k \in Jobs : JobSound(k)
  BY DEF OutboxInv
<1>2. UNCHANGED config /\ local' \in Contents \union {None}
      /\ job' = [j \in Jobs |-> [job[j] EXCEPT !.touched = job[j].tool = "upload"]]
  BY DEF Rewrite
<1>3. WatchInv' BY <1>1, <1>2, WatchInvStep
<1>4. ASSUME NEW j \in Jobs
      PROVE  /\ job'[j] \in JobType /\ job'[j].tool = job[j].tool
             /\ job'[j].cfg = job[j].cfg /\ job'[j].touched = (job[j].tool = "upload")
  BY <1>1, <1>2, ZenonT(30) DEF JobType
<1>5. job' \in [Jobs -> JobType] BY <1>2, <1>4
<1>6. \A j \in Jobs : JobSound(j)' BY <1>1, <1>4 DEF JobSound
<1> QED BY <1>2, <1>3, <1>5, <1>6 DEF OutboxInv

LEMMA OutboxInvInit == OutboxInit => OutboxInv
<1> SUFFICES ASSUME OutboxInit PROVE OutboxInv OBVIOUS
<1>1. WatchInv BY WatchInvInit DEF OutboxInit
<1>2. \A j \in Jobs : job[j] = NoJob BY DEF OutboxInit
<1>3. \A j \in Jobs : JobSound(j) BY <1>2, NoJobSound DEF JobSound
<1>4. job \in [Jobs -> JobType] /\ local \in Contents \union {None}
  BY NoJobSound DEF OutboxInit
<1> QED BY <1>1, <1>3, <1>4 DEF OutboxInv

LEMMA OutboxInvStep ==
  ASSUME OutboxInv, [OutboxNext]_outbox
  PROVE  OutboxInv'
<1>1. ASSUME NEW j \in Jobs, OutboxStep(j) PROVE OutboxInv'
  <2>1. CASE Say(j) BY <2>1, BeginsKeeps DEF Say
  <2>2. CASE \E id \in Tickets \union {None} : Upload(j, id)
    BY <2>2, BeginsKeeps DEF Upload
  <2>3. CASE Resolve(j) BY <2>3, GoesKeeps, EndsKeeps DEF Resolve, At
  <2>4. CASE Post(j) BY <2>4, GoesKeeps, EndsKeeps DEF Post, At
  <2>5. CASE Stat(j) \/ Scan(j) \/ HashFile(j) BY <2>5, ChecksKeep
  <2>6. CASE Request(j) BY <2>6, EndsKeeps DEF Request
  <2>7. CASE Lookup(j) BY <2>7, GoesKeeps, EndsKeeps DEF Lookup, At
  <2>8. CASE SendFile(j) BY <2>8, SendKeeps
  <2>9. CASE Reply(j) BY <2>9, EndsKeeps DEF Reply
  <2> QED BY <1>1, <2>1, <2>2, <2>3, <2>4, <2>5, <2>6, <2>7, <2>8, <2>9 DEF OutboxStep
<1>2. CASE Rewrite BY <1>2, RewriteKeeps
<1>3. CASE Reconfigure
  <2>1. WatchNext /\ UNCHANGED <<job, local>> BY <1>3 DEF Reconfigure
  <2>2. WatchInv' BY <2>1, WatchInvStep DEF OutboxInv
  <2> QED BY <2>1, <2>2 DEF OutboxInv, JobSound, Found
<1>4. CASE AskHuman \/ HumanDecides \/ UNCHANGED outbox
  <2>1. UNCHANGED <<config, job, local>> BY <1>4 DEF AskHuman, HumanDecides, outbox
  <2>2. WatchInv' BY <2>1, WatchInvStep DEF OutboxInv
  <2> QED BY <2>1, <2>2 DEF OutboxInv, JobSound, Found
<1> QED BY <1>1, <1>2, <1>3, <1>4 DEF OutboxNext

\* What a tool put into the room, the configuration its call started with lets
\* through, however calls, reloads and approvals overlapped (mcp.ts
\* room_upload_artifact, policy.ts checkUploadPolicy).
THEOREM OutboxPassesPolicy == OutboxSpec => []PassesPolicy
<1>1. OutboxInv => PassesPolicy BY DEF OutboxInv, JobSound, PassesPolicy, Of
<1> QED BY <1>1, OutboxInvInit, OutboxInvStep, PTL DEF OutboxSpec

-----------------------------------------------------------------------------
(* What they download.                                                     *)

FetchType ==
  [at : {"idle", "meta", "open", "write", "verify", "discard"},
   inode : Inodes \union {Nowhere}, part : 1..Parts + 1, bad : BOOLEAN]

\* A call that has not opened the file is on no inode, at the first part; one
\* that writes is at a part of the artifact, and one that was sent something
\* else will remove the name.
FetchesSound ==
  \A f \in Fetchers :
    /\ fetch[f].at \in {"idle", "meta", "open"} =>
         fetch[f].part = 1 /\ ~fetch[f].bad /\ fetch[f].inode = Nowhere
    /\ fetch[f].at = "write" => fetch[f].part <= Parts

WillRemove(f) ==
  fetch[f].at = "discard" \/ (fetch[f].at \in {"write", "verify"} /\ fetch[f].bad)
WillWrite(f, p) == fetch[f].at = "write" /\ fetch[f].inode = dest /\ fetch[f].part <= p

\* What is at the name will be removed, or every part of it is good or comes.
DestComing ==
  dest # Nowhere /\ ~leftover =>
    \/ \E f \in Fetchers : WillRemove(f)
    \/ \A p \in 1..Parts : p \in good[dest] \/ \E f \in Fetchers : WillWrite(f, p)

DownloadsInv ==
  /\ fetch \in [Fetchers -> FetchType] /\ dest \in Inodes \union {Nowhere}
  /\ good \in [Inodes -> SUBSET (1..Parts)] /\ leftover \in BOOLEAN
  /\ FetchesSound /\ DestComing

\* There is an inode for each call and one for the name.
LEMMA InodeIsFree ==
  ASSUME DownloadsInv, dest = Nowhere
  PROVE  \E n \in Inodes : n \notin InUse
<1> USE DownloadsAssumption
<1>1. Cardinality(Fetchers) \in Nat BY FS_CardinalityType
<1>2. IsFiniteSet(Inodes) /\ Cardinality(Inodes) = Cardinality(Fetchers) + 1
      /\ Inodes \subseteq Nat
  BY <1>1, FS_Interval DEF Inodes
<1>3. SUFFICES ASSUME \A n \in Inodes : n \in InUse PROVE FALSE OBVIOUS
<1>4. \A n \in Inodes : \E f \in Fetchers : fetch[f].inode = n
  BY <1>2, <1>3 DEF InUse
<1> DEFINE owner == [n \in Inodes |-> CHOOSE f \in Fetchers : fetch[f].inode = n]
<1>5. \A n \in Inodes : owner[n] \in Fetchers /\ fetch[owner[n]].inode = n BY <1>4
<1>6. owner \in [Inodes -> Fetchers] BY <1>5
<1> HIDE DEF owner
<1>7. Cardinality(Fetchers) < Cardinality(Inodes) /\ IsFiniteSet(Fetchers)
  BY <1>1, <1>2
<1>8. owner \in Injection(Inodes, Fetchers) BY <1>5, <1>6 DEF Injection, IsInjective
<1>9. Cardinality(Inodes) <= Cardinality(Fetchers) BY <1>7, <1>8, FS_Injection
<1> QED BY <1>1, <1>2, <1>9

LEMMA DownloadsInvInit == DownloadsInit => DownloadsInv
<1> SUFFICES ASSUME DownloadsInit PROVE DownloadsInv OBVIOUS
<1> USE DownloadsAssumption
<1>1. Idle \in FetchType BY DEF Idle, FetchType
<1>2. fetch \in [Fetchers -> FetchType] BY <1>1 DEF DownloadsInit
<1>3. FetchesSound BY DEF DownloadsInit, FetchesSound, Idle
<1> QED BY <1>2, <1>3 DEF DownloadsInit, DownloadsInv, DestComing

LEMMA OneFetch ==
  ASSUME DownloadsInv, NEW f \in Fetchers, NEW next \in FetchType,
         fetch' = [fetch EXCEPT ![f] = next],
         next.at \in {"idle", "meta", "open"} =>
           next.part = 1 /\ ~next.bad /\ next.inode = Nowhere,
         next.at = "write" => next.part <= Parts
  PROVE  /\ fetch' \in [Fetchers -> FetchType] /\ fetch'[f] = next
         /\ \A g \in Fetchers : g # f => fetch'[g] = fetch[g]
         /\ FetchesSound'
<1>1. fetch \in [Fetchers -> FetchType] /\ FetchesSound BY DEF DownloadsInv
<1>2. /\ fetch' \in [Fetchers -> FetchType] /\ fetch'[f] = next
      /\ \A g \in Fetchers : g # f => fetch'[g] = fetch[g]
  BY <1>1
<1>3. FetchesSound' BY <1>1, <1>2 DEF FetchesSound
<1> QED BY <1>2, <1>3

\* A step of a call that neither writes nor was about to.
LEMMA MoveKeeps ==
  ASSUME DownloadsInv, NEW f \in Fetchers, NEW next \in FetchType,
         fetch' = [fetch EXCEPT ![f] = next], UNCHANGED <<dest, good, leftover>>,
         next.at \in {"idle", "meta", "open"} =>
           next.part = 1 /\ ~next.bad /\ next.inode = Nowhere,
         \/ next.at = "discard"
         \/ fetch[f].at \in {"idle", "meta"} /\ next.at # "write"
         \/ fetch[f].at = "verify" /\ ~fetch[f].bad /\ next.at = "idle"
  PROVE  DownloadsInv'
<1>1. next.at # "write" BY DEF FetchType
<1>2. /\ fetch' \in [Fetchers -> FetchType] /\ fetch'[f] = next /\ FetchesSound'
      /\ \A g \in Fetchers : g # f => fetch'[g] = fetch[g]
  BY <1>1, OneFetch
<1>3. DestComing'
  <2>1. CASE next.at = "discard" BY <1>2, <2>1 DEF DestComing, WillRemove
  <2>2. CASE next.at # "discard"
    <3>1. ~WillRemove(f) /\ \A p \in 1..Parts : ~WillWrite(f, p)
      BY <2>2 DEF WillRemove, WillWrite
    <3>2. \A g \in Fetchers : WillRemove(g) => WillRemove(g)'
      BY <1>2, <3>1 DEF WillRemove
    <3>3. \A g \in Fetchers, p \in 1..Parts : WillWrite(g, p) => WillWrite(g, p)'
      BY <1>2, <3>1 DEF WillWrite
    <3>4. \A p \in 1..Parts : (\E g \in Fetchers : WillWrite(g, p))
                                 => \E g \in Fetchers : WillWrite(g, p)'
      BY <3>3
    <3> QED BY <3>2, <3>4 DEF DestComing, DownloadsInv
  <2> QED BY <2>1, <2>2
<1> QED BY <1>2, <1>3 DEF DownloadsInv

LEMMA OpenKeeps ==
  ASSUME DownloadsInv, NEW f \in Fetchers, OpenDest(f)
  PROVE  DownloadsInv'
<1> USE DownloadsAssumption
<1>1. fetch \in [Fetchers -> FetchType] /\ good \in [Inodes -> SUBSET (1..Parts)]
      /\ leftover \in BOOLEAN /\ fetch[f].part = 1 /\ fetch[f].at = "open"
  BY DEF DownloadsInv, OpenDest, FetchesSound
<1> DEFINE i == IF dest # Nowhere THEN dest ELSE CHOOSE n \in Inodes : n \notin InUse
<1>2. /\ dest' = i /\ good' = [good EXCEPT ![i] = {}] /\ leftover' = leftover
      /\ fetch' = [fetch EXCEPT ![f] = [@ EXCEPT !.at = "write", !.inode = i]]
  BY DEF OpenDest
<1>3. i \in Inodes
  <2>1. CASE dest # Nowhere BY <2>1 DEF DownloadsInv
  <2>2. CASE dest = Nowhere BY <2>2, InodeIsFree
  <2> QED BY <2>1, <2>2
<1> HIDE DEF i
<1> DEFINE next == [fetch[f] EXCEPT !.at = "write", !.inode = i]
<1>4. /\ next \in FetchType /\ next.at = "write" /\ next.inode = i
      /\ next.part = 1
  BY <1>1, <1>3 DEF FetchType
<1>5. fetch' = [fetch EXCEPT ![f] = next] /\ 1 <= Parts BY <1>2
<1> HIDE DEF next
<1>6. fetch' \in [Fetchers -> FetchType] /\ fetch'[f] = next /\ FetchesSound'
  BY <1>4, <1>5, OneFetch
<1>7. \A p \in 1..Parts : WillWrite(f, p)'
  <2>1. \A p \in 1..Parts : 1 <= p OBVIOUS
  <2> QED BY <1>2, <1>4, <1>6, <2>1 DEF WillWrite
<1>8. DestComing' BY <1>7 DEF DestComing
<1> QED BY <1>1, <1>2, <1>3, <1>6, <1>8 DEF DownloadsInv

LEMMA WriteKeeps ==
  ASSUME DownloadsInv, NEW f \in Fetchers, WriteChunk(f)
  PROVE  DownloadsInv'
<1> USE DownloadsAssumption
<1> DEFINE p == fetch[f].part
           i == fetch[f].inode
<1>1. /\ fetch \in [Fetchers -> FetchType] /\ good \in [Inodes -> SUBSET (1..Parts)]
      /\ dest \in Inodes \union {Nowhere} /\ FetchesSound /\ DestComing
  BY DEF DownloadsInv
<1>2. fetch[f].at = "write" /\ p \in 1..Parts /\ Parts \in Nat /\ fetch[f] \in FetchType
  BY <1>1 DEF WriteChunk, FetchesSound, FetchType
<1>3. PICK ok \in BOOLEAN :
        /\ good' = [good EXCEPT ![i] = IF ok THEN @ \union {p} ELSE @ \ {p}]
        /\ fetch' = [fetch EXCEPT ![f] =
             [at |-> IF p = Parts THEN "verify" ELSE "write", inode |-> i,
              part |-> p + 1, bad |-> @.bad \/ ~ok]]
  BY DEF WriteChunk
<1>4. UNCHANGED <<dest, leftover>> BY DEF WriteChunk
<1> DEFINE next == [at |-> IF p = Parts THEN "verify" ELSE "write", inode |-> i,
                    part |-> p + 1, bad |-> fetch[f].bad \/ ~ok]
<1>5. /\ next \in FetchType /\ next.at \in {"write", "verify"} /\ next.inode = i
      /\ next.at = "write" <=> p # Parts
      /\ next.part = p + 1 /\ (fetch[f].bad \/ ~ok => next.bad)
  <2>1. (fetch[f].bad \/ ~ok) \in BOOLEAN BY <1>2 DEF FetchType
  <2>2. i \in Inodes \union {Nowhere} /\ p + 1 \in 1..Parts + 1 BY <1>2 DEF FetchType
  <2> HIDE DEF p, i
  <2> QED BY <2>1, <2>2 DEF FetchType
<1>6. fetch' = [fetch EXCEPT ![f] = next] BY <1>1, <1>3
<1> HIDE DEF next
<1>7. /\ fetch' \in [Fetchers -> FetchType] /\ fetch'[f] = next /\ FetchesSound'
      /\ \A g \in Fetchers : g # f => fetch'[g] = fetch[g]
  <2>1. next.at = "write" => next.part <= Parts BY <1>2, <1>5
  <2> QED BY <1>5, <1>6, <2>1, OneFetch
<1>8. good' \in [Inodes -> SUBSET (1..Parts)]
  <2>1. \A n \in Inodes : (IF ok THEN good[n] \union {p} ELSE good[n] \ {p}) \in SUBSET (1..Parts)
    BY <1>1, <1>2
  <2> HIDE DEF p, i
  <2> QED BY <1>1, <1>3, <2>1
<1>9. DestComing'
  <2>1. SUFFICES ASSUME dest # Nowhere, ~leftover, \A g \in Fetchers : ~WillRemove(g)'
                 PROVE  \A q \in 1..Parts : q \in good'[dest] \/ \E g \in Fetchers : WillWrite(g, q)'
    BY <1>4 DEF DestComing
  <2>2. ok /\ ~fetch[f].bad BY <1>5, <1>7, <2>1 DEF WillRemove
  <2>3. \A g \in Fetchers : ~WillRemove(g)
    BY <1>2, <1>7, <2>1, <2>2 DEF WillRemove
  <2>4. \A q \in 1..Parts : q \in good[dest] \/ \E g \in Fetchers : WillWrite(g, q)
    BY <1>1, <2>1, <2>3 DEF DestComing
  <2>5. dest \in Inodes BY <1>1, <2>1
  <2>6. good[dest] \subseteq good'[dest] /\ (i = dest => p \in good'[dest])
    BY <1>1, <1>3, <2>2, <2>5
  <2>7. SUFFICES ASSUME NEW q \in 1..Parts, q \notin good'[dest]
                 PROVE  \E g \in Fetchers : WillWrite(g, q)'
    OBVIOUS
  <2>8. PICK g \in Fetchers : WillWrite(g, q) BY <2>4, <2>6, <2>7
  <2>9. CASE g # f BY <1>4, <1>7, <2>8, <2>9 DEF WillWrite
  <2>10. CASE g = f
    <3>1. i = dest /\ p <= q BY <2>8, <2>10 DEF WillWrite
    <3>2. p < q BY <1>2, <2>6, <2>7, <3>1
    <3>3. next.at = "write" /\ next.inode = dest /\ next.part <= q
      BY <1>2, <1>5, <2>7, <3>1, <3>2
    <3> QED BY <1>4, <1>7, <3>3 DEF WillWrite
  <2> QED BY <2>9, <2>10
<1> QED BY <1>1, <1>4, <1>7, <1>8, <1>9 DEF DownloadsInv

LEMMA DiscardKeeps ==
  ASSUME DownloadsInv, NEW f \in Fetchers, Discard(f)
  PROVE  DownloadsInv'
<1>1. /\ fetch' = [fetch EXCEPT ![f] = Idle] /\ good' = good
      /\ (dest' = Nowhere /\ leftover' = leftover) \/ (leftover' = TRUE /\ dest' = dest)
  BY DEF Discard, Finishes
<1>2. Idle \in FetchType /\ Idle.at = "idle" /\ Idle.part = 1 /\ ~Idle.bad /\ Idle.inode = Nowhere
  BY DownloadsAssumption DEF Idle, FetchType
<1>3. fetch' \in [Fetchers -> FetchType] /\ FetchesSound' BY <1>1, <1>2, OneFetch
<1> QED BY <1>1, <1>3 DEF DownloadsInv, DestComing

LEMMA DownloadsInvStep ==
  ASSUME DownloadsInv, [DownloadsNext]_downloads
  PROVE  DownloadsInv'
<1>1. fetch \in [Fetchers -> FetchType] /\ FetchesSound BY DEF DownloadsInv
<1>2. Idle \in FetchType /\ Idle.at = "idle" /\ Idle.part = 1 /\ ~Idle.bad /\ Idle.inode = Nowhere
  BY DownloadsAssumption DEF Idle, FetchType
<1>3. ASSUME NEW f \in Fetchers, NEW at \in {"meta", "open", "discard"}, Moves(f, at),
             UNCHANGED <<dest, good, leftover>>,
             at = "discard" \/ fetch[f].at \in {"idle", "meta"}
      PROVE  DownloadsInv'
  <2> DEFINE next == [fetch[f] EXCEPT !.at = at]
  <2>1. next \in FetchType /\ next.at = at /\ next.part = fetch[f].part
        /\ next.bad = fetch[f].bad /\ next.inode = fetch[f].inode
        /\ fetch' = [fetch EXCEPT ![f] = next]
    BY <1>1, <1>3 DEF FetchType, Moves
  <2> HIDE DEF next
  <2>2. at # "discard" => next.part = 1 /\ ~next.bad /\ next.inode = Nowhere
    BY <1>1, <1>3, <2>1 DEF FetchesSound
  <2> QED BY <1>3, <2>1, <2>2, MoveKeeps
<1>4. ASSUME NEW f \in Fetchers, Finishes(f), UNCHANGED <<dest, good, leftover>>,
             fetch[f].at = "meta" \/ (fetch[f].at = "verify" /\ ~fetch[f].bad)
      PROVE  DownloadsInv'
  BY <1>2, <1>4, MoveKeeps DEF Finishes
<1>5. ASSUME NEW f \in Fetchers,
             \/ Download(f) \/ Meta(f) \/ OpenDest(f) \/ WriteChunk(f)
             \/ Verify(f) \/ Break(f) \/ Discard(f)
      PROVE  DownloadsInv'
  <2>1. CASE Download(f) BY <1>3, <2>1 DEF Download
  <2>2. CASE Meta(f) BY <1>3, <1>4, <2>2 DEF Meta
  <2>3. CASE OpenDest(f) BY <2>3, OpenKeeps
  <2>4. CASE WriteChunk(f) BY <2>4, WriteKeeps
  <2>5. CASE Verify(f) BY <1>3, <1>4, <2>5 DEF Verify
  <2>6. CASE Break(f) BY <1>3, <2>6 DEF Break
  <2>7. CASE Discard(f) BY <2>7, DiscardKeeps
  <2> QED BY <1>5, <2>1, <2>2, <2>3, <2>4, <2>5, <2>6, <2>7
<1>6. CASE UNCHANGED downloads
  BY <1>6
  DEF downloads, DownloadsInv, FetchesSound, DestComing, WillRemove, WillWrite
<1> QED BY <1>5, <1>6 DEF DownloadsNext

\* With no download under way the file at the name is whole or not there,
\* however downloads to that name overlapped and failed (mcp.ts download tool).
THEOREM DownloadsAreWhole == DownloadsSpec => []DownloadsWhole
<1>1. ASSUME DownloadsInv PROVE DownloadsWhole
  <2>1. SUFFICES ASSUME \A f \in Fetchers : fetch[f].at = "idle", dest # Nowhere, ~leftover
                 PROVE  good[dest] = 1..Parts
    BY DEF DownloadsWhole
  <2>2. \A f \in Fetchers : ~WillRemove(f) /\ \A q \in 1..Parts : ~WillWrite(f, q)
    BY <2>1 DEF WillRemove, WillWrite
  <2>3. 1..Parts \subseteq good[dest] BY <1>1, <2>1, <2>2 DEF DownloadsInv, DestComing
  <2>4. good[dest] \subseteq 1..Parts BY <1>1, <2>1 DEF DownloadsInv
  <2> QED BY <2>3, <2>4
<1> QED BY <1>1, DownloadsInvInit, DownloadsInvStep, PTL DEF DownloadsSpec

-----------------------------------------------------------------------------
(* The session.                                                            *)

\* A session that the server has made.
Made(token) == \E n \in 1..issued : token = Session(n) /\ (n = issued => live # Invite(issued))
Held(token) == token = NoToken \/ Made(token)

HeldTokens == {NoToken} \union {Session(n) : n \in Nat}

Own == {"boot", "act", "bare"}

Views == {"closed", "login", "boot", "join", "stuck", "retry", "in"}

CallType ==
  [tab : Tabs, kind : Own \union {"link", "form"},
   token : HeldTokens \union {Invite(n) : n \in Nat},
   answer : {"none", "ok", "refused"}, session : HeldTokens]

\* What the server refuses to a session it never takes again.
CallSound(call) ==
  /\ call \in CallType
  /\ call.kind \in Own => Held(call.token)
  /\ call.kind \in Own /\ call.answer = "refused" =>
       call.token # live \/ call.token = NoToken
  /\ Held(call.session)

\* What a browser holds are sessions the server has made.
SignInInv ==
  /\ issued \in 1..MaxInvites
  /\ live \in {Invite(issued), Session(issued), NoToken}
  /\ Held(stored) /\ Held(promised)
  /\ tabs \in [Tabs -> [view : Views, token : HeldTokens]]
  /\ \A tab \in Tabs : Held(tabs[tab].token)
  /\ \A call \in asked : CallSound(call)
  /\ SessionKept

LEMMA TokensDiffer ==
  /\ \A m, n : Session(m) # Invite(n)
  /\ \A m, n : Session(m) = Session(n) => m = n
  /\ \A m, n : Invite(m) = Invite(n) => m = n
  /\ \A n : SessionFor(Invite(n)) = Session(n)
BY DEF Session, Invite, SessionFor

\* Time does not unmake a session.
LEMMA HeldStays ==
  ASSUME SignInInv, issued' \in Nat,
         \/ issued' = issued /\ (live' # Invite(issued) \/ live' = live)
         \/ issued' = issued + 1
  PROVE  \A token : Held(token) => Held(token)'
<1>1. issued \in Nat \ {0} BY SignInAssumption DEF SignInInv
<1>2. SUFFICES ASSUME NEW token, NEW n \in 1..issued, token = Session(n),
                      n = issued => live # Invite(issued)
               PROVE  \E m \in 1..issued' : token = Session(m)
                        /\ (m = issued' => live' # Invite(issued'))
  BY DEF Held, Made
<1>3. n \in 1..issued' /\ (n = issued' => issued' = issued /\ live' # Invite(issued'))
  BY <1>1, <1>2
<1> QED BY <1>2, <1>3

LEMMA SignInInvInit == SignInInit => SignInInv
BY SignInAssumption DEF SignInInit, SignInInv, Held, HeldTokens, SessionKept, Face, Views

LEMMA HeldIsToken ==
  ASSUME SignInInv, NEW token, Held(token)
  PROVE  token \in HeldTokens
BY DEF SignInInv, Held, Made, HeldTokens

\* What a step of the browser needs to show.
LEMMA BrowserKeeps ==
  ASSUME SignInInv, UNCHANGED <<issued, live>>,
         Held(stored'), Held(promised'),
         UNCHANGED tabs \/ \E tab \in Tabs, view \in Views : \E token :
                             Held(token) /\ GoesTo(tab, Face(view, token)),
         \A call \in asked' : call \in asked \/ CallSound(call),
         promised' # NoToken /\ promised' = live => stored' = promised'
  PROVE  SignInInv'
<1>1. \A token : Held(token)' <=> Held(token) BY DEF Held, Made
<1>2. tabs' \in [Tabs -> [view : Views, token : HeldTokens]]
      /\ \A tab \in Tabs : Held(tabs'[tab].token)
  <2>1. CASE UNCHANGED tabs BY <2>1 DEF SignInInv
  <2>2. ASSUME NEW tab \in Tabs, NEW view \in Views, NEW token,
               Held(token), GoesTo(tab, Face(view, token))
        PROVE  tabs' \in [Tabs -> [view : Views, token : HeldTokens]]
               /\ \A t \in Tabs : Held(tabs'[t].token)
    <3>1. token \in HeldTokens BY <2>2, HeldIsToken
    <3>2. tabs' = [tabs EXCEPT ![tab] = [view |-> view, token |-> token]]
      BY <2>2 DEF GoesTo, Face
    <3>3. tabs \in [Tabs -> [view : Views, token : HeldTokens]]
          /\ \A t \in Tabs : Held(tabs[t].token)
      BY DEF SignInInv
    <3> QED BY <2>2, <3>1, <3>2, <3>3
  <2> QED BY <2>1, <2>2
<1>3. \A call \in asked' : CallSound(call)
  BY DEF SignInInv
<1>4. \A call : CallSound(call)' <=> CallSound(call) BY <1>1 DEF CallSound
<1>5. \A tab \in Tabs : Held(tabs[tab].token)' BY <1>1, <1>2
<1>6. \A call \in asked' : CallSound(call)' BY <1>3, <1>4
<1> QED BY <1>1, <1>2, <1>5, <1>6 DEF SignInInv, SessionKept

LEMMA QuerySound ==
  ASSUME SignInInv, NEW tab \in Tabs, NEW kind \in Own \union {"link", "form"}, NEW token,
         Held(token) \/ (token \in Tokens /\ kind \in {"link", "form"})
  PROVE  CallSound(Query(tab, kind, token))
<1>1. token \in HeldTokens \union {Invite(n) : n \in Nat}
  BY HeldIsToken DEF SignInInv, Tokens, HeldTokens
<1>2. NoToken \in HeldTokens /\ Held(NoToken) BY DEF HeldTokens, Held
<1> QED BY <1>1, <1>2 DEF CallSound, CallType, Query, Own

LEMMA AskSound ==
  ASSUME SignInInv, NEW tab \in Tabs, NEW kind \in Own \union {"link", "form"}, NEW token,
         Held(token) \/ (token \in Tokens /\ kind \in {"link", "form"}),
         Ask(tab, kind, token)
  PROVE  \A call \in asked' : call \in asked \/ CallSound(call)
BY QuerySound DEF Ask

LEMMA UserKeeps ==
  ASSUME SignInInv, NEW tab \in Tabs,
         \/ Load(tab) \/ LoadJoin(tab) \/ Fallback(tab) \/ Retry(tab)
         \/ Act(tab) \/ SignOut(tab) \/ Shut(tab)
         \/ \E token \in Tokens : LoadLink(tab, token) \/ Submit(tab, token)
  PROVE  SignInInv'
<1>1. /\ Held(stored) /\ Held(promised) /\ Held(tabs[tab].token) /\ Held(NoToken)
      /\ promised # NoToken /\ promised = live => stored = promised
  BY DEF SignInInv, SessionKept, Held
<1>2. "boot" \in Own /\ "bare" \in Own /\ "act" \in Own BY DEF Own
<1>3. Views = {"closed", "login", "boot", "join", "stuck", "retry", "in"} BY DEF Views
<1>4. CASE Load(tab) BY <1>1, <1>2, <1>3, <1>4, AskSound, BrowserKeeps DEF Load
<1>5. CASE LoadJoin(tab) BY <1>1, <1>2, <1>3, <1>5, AskSound, BrowserKeeps DEF LoadJoin
<1>6. CASE Fallback(tab) BY <1>1, <1>2, <1>3, <1>6, AskSound, BrowserKeeps DEF Fallback
<1>7. CASE Retry(tab) BY <1>1, <1>2, <1>3, <1>7, AskSound, BrowserKeeps DEF Retry
<1>8. CASE Act(tab) BY <1>1, <1>2, <1>8, AskSound, BrowserKeeps DEF Act
<1>9. CASE SignOut(tab) BY <1>1, <1>3, <1>9, BrowserKeeps DEF SignOut
<1>10. CASE Shut(tab) BY <1>1, <1>3, <1>10, BrowserKeeps DEF Shut
<1>11. ASSUME NEW token \in Tokens, LoadLink(tab, token) \/ Submit(tab, token)
       PROVE  SignInInv'
  <2>1. CASE LoadLink(tab, token)
    BY <1>1, <1>3, <2>1, AskSound, BrowserKeeps DEF LoadLink
  <2>2. CASE Submit(tab, token)
    BY <1>1, <2>2, AskSound, BrowserKeeps DEF Submit
  <2> QED BY <1>11, <2>1, <2>2
<1> QED BY <1>4, <1>5, <1>6, <1>7, <1>8, <1>9, <1>10, <1>11

\* What a step of the server needs to show: it makes no session live again.
LEMMA ServerKeeps ==
  ASSUME SignInInv, UNCHANGED <<tabs, stored, promised>>,
         issued' \in 1..MaxInvites,
         live' \in {Invite(issued'), Session(issued'), NoToken},
         \A token : Held(token) => Held(token)',
         \A token : Held(token) /\ token # NoToken /\ token = live' => token = live,
         \A call \in asked' : call \in asked \/ CallSound(call)'
  PROVE  SignInInv'
<1>1. \A call : CallSound(call) => CallSound(call)'
  <2>1. SUFFICES ASSUME NEW call, CallSound(call) PROVE CallSound(call)'
    OBVIOUS
  <2>2. call \in CallType /\ Held(call.session) BY <2>1 DEF CallSound
  <2>3. Held(call.session)' BY <2>2
  <2>4. call.kind \in Own => Held(call.token) /\ Held(call.token)'
    BY <2>1 DEF CallSound
  <2>5. call.kind \in Own /\ call.answer = "refused" =>
          call.token # live' \/ call.token = NoToken
    BY <2>1, <2>4 DEF CallSound
  <2> QED BY <2>2, <2>3, <2>4, <2>5 DEF CallSound
<1>2. \A call \in asked' : CallSound(call)' BY <1>1 DEF SignInInv
<1>3. /\ Held(stored)' /\ Held(promised)'
      /\ \A tab \in Tabs : Held(tabs[tab].token)'
  BY DEF SignInInv
<1>4. SessionKept' BY DEF SessionKept, SignInInv
<1> QED BY <1>2, <1>3, <1>4 DEF SignInInv

\* The answer to a call.
LEMMA ReplySound ==
  ASSUME SignInInv, NEW call \in asked, NEW answer \in {"ok", "refused"}, NEW session,
         Held(session)', session \in HeldTokens,
         call.kind \in Own => Held(call.token)',
         call.kind \in Own /\ answer = "refused" =>
           call.token # live' \/ call.token = NoToken,
         Replies(call, answer, session)
  PROVE  \A c \in asked' : c \in asked \/ CallSound(c)'
<1> DEFINE next == [call EXCEPT !.answer = answer, !.session = session]
<1>1. call \in CallType BY DEF SignInInv, CallSound
<1>2. /\ next \in CallType /\ next.answer = answer /\ next.session = session
      /\ next.kind = call.kind /\ next.token = call.token
  BY <1>1 DEF CallType
<1>3. asked' = (asked \ {call}) \union {next} BY DEF Replies
<1> HIDE DEF next
<1>4. CallSound(next)' BY <1>2 DEF CallSound
<1> QED BY <1>3, <1>4

LEMMA InviteTaken ==
  ASSUME SignInInv, IsInvite(live)
  PROVE  live = Invite(issued) /\ live # NoToken
<1>1. PICK n \in 1..issued : live = Invite(n) BY DEF IsInvite
<1>2. n \in 1..MaxInvites BY SignInAssumption DEF SignInInv
<1>3. live # NoToken BY <1>1, <1>2, SignInAssumption DEF Invite
<1> QED BY <1>1, <1>3, TokensDiffer DEF SignInInv

LEMMA ServeKeeps ==
  ASSUME SignInInv, NEW call \in asked, Serve(call)
  PROVE  SignInInv'
<1>1. /\ issued \in Nat /\ issued \in 1..MaxInvites /\ issued' = issued
      /\ UNCHANGED <<tabs, stored, promised>>
      /\ CallSound(call)
  BY SignInAssumption DEF SignInInv, Serve
<1>2. CASE Exchanges(call) /\ call.token = live /\ live' = SessionFor(live)
           /\ Replies(call, "ok", SessionFor(live))
  <2>1. live = Invite(issued) /\ live # NoToken
    BY <1>2, InviteTaken DEF Exchanges
  <2>2. live' = Session(issued) /\ live' # Invite(issued) BY <1>2, <2>1, TokensDiffer
  <2>3. \A token : Held(token) => Held(token)' BY <1>1, <2>2, HeldStays
  <2>4. \A token : Held(token) /\ token # NoToken /\ token = live' => token = live
    BY <1>1, <2>1, <2>2, TokensDiffer DEF Held, Made
  <2>5. Held(live)' /\ live' \in HeldTokens
    BY <1>1, <2>2 DEF Held, Made, HeldTokens
  <2>6. call.kind \notin Own BY <1>2 DEF Exchanges, Own
  <2>7. Replies(call, "ok", live') BY <1>2
  <2>8. \A c \in asked' : c \in asked \/ CallSound(c)'
    BY <2>5, <2>6, <2>7, ReplySound
  <2> QED BY <1>1, <2>2, <2>3, <2>4, <2>8, ServerKeeps
<1>3. CASE UNCHANGED live /\ call.token = live /\ ~Exchanges(call)
           /\ Replies(call, "ok", live)
  <2>1. \A token : Held(token) <=> Held(token)' BY <1>1, <1>3 DEF Held, Made
  <2>2. Held(live) /\ live \in HeldTokens
    <3>1. CASE call.kind \in Own BY <1>1, <1>3, <3>1, HeldIsToken DEF CallSound
    <3>2. CASE live = NoToken BY <3>2 DEF Held, HeldTokens
    <3>3. CASE live = Session(issued)
      BY <1>1, <3>3, TokensDiffer DEF Held, Made, HeldTokens
    <3>4. CASE live = Invite(issued) /\ call.kind \notin Own
      BY <1>1, <1>3, <3>4 DEF Exchanges, IsInvite, CallSound, CallType
    <3> QED BY <3>1, <3>2, <3>3, <3>4 DEF SignInInv
  <2>3. call.kind \in Own => Held(call.token)' BY <1>1, <2>1 DEF CallSound
  <2>4. Held(live)' BY <1>3, <2>1, <2>2
  <2>5. Replies(call, "ok", live') BY <1>3
  <2>6. \A c \in asked' : c \in asked \/ CallSound(c)'
    BY <1>3, <2>2, <2>3, <2>4, <2>5, ReplySound
  <2> QED BY <1>1, <1>3, <2>1, <2>6, ServerKeeps DEF SignInInv
<1>4. CASE UNCHANGED live /\ call.token # live /\ Replies(call, "refused", NoToken)
  <2>1. \A token : Held(token) <=> Held(token)' BY <1>1, <1>4 DEF Held, Made
  <2>2. Held(NoToken)' /\ NoToken \in HeldTokens BY DEF Held, HeldTokens
  <2>3. call.kind \in Own => Held(call.token)' BY <1>1, <2>1 DEF CallSound
  <2>4. call.token # live' BY <1>4
  <2>5. \A c \in asked' : c \in asked \/ CallSound(c)'
    BY <1>4, <2>2, <2>3, <2>4, ReplySound
  <2> QED BY <1>1, <1>4, <2>1, <2>5, ServerKeeps DEF SignInInv
<1> QED BY <1>2, <1>3, <1>4 DEF Serve

LEMMA ExpireKeeps ==
  ASSUME SignInInv, Expire
  PROVE  SignInInv'
<1>1. /\ issued \in Nat /\ issued \in 1..MaxInvites /\ issued' = issued
      /\ UNCHANGED <<tabs, stored, promised, asked>> /\ live' = NoToken
  BY SignInAssumption DEF SignInInv, Expire, browser
<1>2. live' # Invite(issued)
  BY <1>1, SignInAssumption DEF Invite
<1>3. \A token : Held(token) => Held(token)' BY <1>1, <1>2, HeldStays
<1> QED BY <1>1, <1>3, ServerKeeps

LEMMA IssueKeeps ==
  ASSUME SignInInv, Issue
  PROVE  SignInInv'
<1>1. /\ issued \in Nat /\ issued' = issued + 1 /\ issued' \in 1..MaxInvites
      /\ UNCHANGED <<tabs, stored, promised, asked>> /\ live' = Invite(issued')
  BY SignInAssumption DEF SignInInv, Issue, browser
<1>2. \A token : Held(token) => Held(token)' BY <1>1, HeldStays
<1>3. \A token : Held(token) /\ token # NoToken /\ token = live' => token = live
  BY <1>1, TokensDiffer DEF Held, Made
<1> QED BY <1>1, <1>2, <1>3, ServerKeeps

\* The form or the link that fails leaves the session as it was.
LEMMA FailsKeeps ==
  ASSUME SignInInv, NEW call \in asked, Fails(call), UNCHANGED <<issued, live>>
  PROVE  SignInInv'
<1>1. /\ call.tab \in Tabs /\ Held(tabs[call.tab].token)
      /\ tabs \in [Tabs -> [view : Views, token : HeldTokens]]
      /\ Held(stored) /\ Held(promised) /\ "stuck" \in Views
      /\ promised # NoToken /\ promised = live => stored = promised
  BY DEF SignInInv, CallSound, CallType, SessionKept, Views
<1>2. \A c \in asked' : c \in asked BY DEF Fails
<1>3. CASE call.kind \in {"link", "bare"}
  <2>1. GoesTo(call.tab, Face("stuck", tabs[call.tab].token)) BY <1>3 DEF Fails
  <2> QED BY <1>1, <1>2, <2>1, BrowserKeeps DEF Fails
<1>4. CASE call.kind \notin {"link", "bare"}
  <2>1. UNCHANGED tabs BY <1>1, <1>4 DEF Fails, GoesTo
  <2> QED BY <1>1, <1>2, <2>1, BrowserKeeps DEF Fails
<1> QED BY <1>3, <1>4

LEMMA TakeKeeps ==
  ASSUME SignInInv, NEW call \in asked, Take(call)
  PROVE  SignInInv'
<1>1. /\ CallSound(call) /\ call \in CallType /\ call.tab \in Tabs
      /\ Held(call.session) /\ Held(stored) /\ Held(promised)
      /\ \A tab \in Tabs : Held(tabs[tab].token) /\ tabs[tab].view \in Views
      /\ tabs \in [Tabs -> [view : Views, token : HeldTokens]]
      /\ promised # NoToken /\ promised = live => stored = promised
      /\ Held(NoToken)
  BY DEF SignInInv, CallSound, CallType, SessionKept, Held
<1>2. UNCHANGED <<issued, live>> BY DEF Take
<1>3. \A tab \in Tabs : tabs[tab] = Face(tabs[tab].view, tabs[tab].token)
  BY <1>1 DEF Face
<1>4. "in" \in Views /\ "stuck" \in Views /\ "login" \in Views BY DEF Views
<1>5. ASSUME SignsIn(call), call.kind \in {"link", "bare", "form"}
      PROVE  SignInInv'
  <2>1. GoesTo(call.tab, Face("in", call.session)) BY <1>5 DEF SignsIn
  <2>2. \A c \in asked' : c \in asked BY <1>5 DEF SignsIn, Without
  <2>3. Held(stored') /\ Held(promised') BY <1>1, <1>5 DEF SignsIn
  <2>4. promised' # NoToken /\ promised' = live => stored' = promised'
    <3>1. CASE Exchanges(call) BY <1>5, <3>1 DEF SignsIn, Exchanges
    <3>2. CASE ~Exchanges(call) /\ call.kind # "bare" /\ call.session # promised
      BY <1>5, <3>2 DEF SignsIn
    <3>3. CASE ~Exchanges(call) /\ call.kind # "bare" /\ call.session = promised
      BY <1>5, <3>3 DEF SignsIn
    <3>4. CASE ~Exchanges(call) /\ call.kind = "bare"
      BY <1>1, <1>5, <3>4 DEF SignsIn
    <3> QED BY <3>1, <3>2, <3>3, <3>4
  <2> QED BY <1>1, <1>2, <1>4, <2>1, <2>2, <2>3, <2>4, BrowserKeeps
<1>6. ASSUME Unauthorized(call), call.answer = "refused", call.kind \in {"boot", "act"}
      PROVE  SignInInv'
  <2>1. GoesTo(call.tab, Face("login", NoToken)) BY <1>6 DEF Unauthorized
  <2>2. \A c \in asked' : c \in asked BY <1>6 DEF Unauthorized, Without
  <2>3. Held(stored') /\ Held(promised') BY <1>1, <1>6 DEF Unauthorized
  <2>4. call.token # live \/ call.token = NoToken
    BY <1>1, <1>6 DEF CallSound, Own
  <2>5. promised' # NoToken /\ promised' = live => stored' = promised'
    BY <1>1, <1>6, <2>4 DEF Unauthorized
  <2> QED BY <1>1, <1>2, <1>4, <2>1, <2>2, <2>3, <2>5, BrowserKeeps
<1>7. ASSUME Booted(call), call.kind = "boot" PROVE SignInInv'
  <2>1. Held(call.token) BY <1>1, <1>7 DEF CallSound, Own
  <2>2. \A c \in asked' : c \in asked BY <1>7 DEF Booted
  <2>3. CASE Shows(call.tab, "boot")
    <3>1. GoesTo(call.tab, Face("in", call.token)) BY <1>7, <2>3 DEF Booted
    <3> QED BY <1>1, <1>2, <1>4, <1>7, <2>1, <2>2, <3>1, BrowserKeeps DEF Booted
  <2>4. CASE ~Shows(call.tab, "boot")
    <3>1. UNCHANGED tabs BY <1>1, <1>7, <2>4 DEF Booted, GoesTo
    <3> QED BY <1>1, <1>2, <1>7, <2>2, <3>1, BrowserKeeps DEF Booted
  <2> QED BY <2>3, <2>4
<1>8. ASSUME Fails(call) PROVE SignInInv'
  BY <1>1, <1>2, <1>8, FailsKeeps
<1> QED BY <1>5, <1>6, <1>7, <1>8 DEF Take

LEMMA LoseKeeps ==
  ASSUME SignInInv, NEW call \in asked, Lose(call)
  PROVE  SignInInv'
<1>1. UNCHANGED <<issued, live>> BY DEF Lose
<1>2. CASE Fails(call) BY <1>1, <1>2, FailsKeeps
<1>3. CASE /\ GoesTo(call.tab, Face("retry", tabs[call.tab].token))
           /\ asked' = asked \ {call} /\ UNCHANGED <<stored, promised>>
  <2>1. /\ call.tab \in Tabs /\ Held(tabs[call.tab].token)
        /\ Held(stored) /\ Held(promised) /\ "retry" \in Views
        /\ promised # NoToken /\ promised = live => stored = promised
    BY DEF SignInInv, CallSound, CallType, SessionKept, Views
  <2>2. \A c \in asked' : c \in asked BY <1>3
  <2> QED BY <1>1, <1>3, <2>1, <2>2, BrowserKeeps
<1> QED BY <1>2, <1>3 DEF Lose

LEMMA SignInInvStep ==
  ASSUME SignInInv, [SignInNext]_signing
  PROVE  SignInInv'
<1>1. CASE Expire BY <1>1, ExpireKeeps
<1>2. CASE Issue BY <1>2, IssueKeeps
<1>3. ASSUME NEW tab \in Tabs,
             \/ Load(tab) \/ LoadJoin(tab) \/ Fallback(tab) \/ Retry(tab)
             \/ Act(tab) \/ SignOut(tab) \/ Shut(tab)
             \/ \E token \in Tokens : LoadLink(tab, token) \/ Submit(tab, token)
      PROVE  SignInInv'
  BY <1>3, UserKeeps
<1>4. ASSUME NEW call \in asked, Serve(call) \/ Take(call) \/ Lose(call)
      PROVE  SignInInv'
  BY <1>4, ServeKeeps, TakeKeeps, LoseKeeps
<1>5. CASE UNCHANGED signing
  <2>1. UNCHANGED <<issued, live, tabs, stored, asked, promised>>
    BY <1>5 DEF signing, browser
  <2>2. \A token : Held(token)' <=> Held(token) BY <2>1 DEF Held, Made
  <2>3. \A call : CallSound(call)' <=> CallSound(call)
    BY <2>1, <2>2 DEF CallSound
  <2> QED BY <2>1, <2>2, <2>3 DEF SignInInv, SessionKept
<1> QED BY <1>1, <1>2, <1>3, <1>4, <1>5 DEF SignInNext

\* A session got for an invite stays in the browser as long as the server
\* takes it, whichever answers come late, are lost or refuse an older one
\* (App.tsx, storage.ts).
THEOREM SessionsAreKept == SignInSpec => []SessionKept
<1>1. ASSUME SignInInv PROVE SessionKept BY <1>1 DEF SignInInv
<1> QED BY <1>1, SignInInvInit, SignInInvStep, PTL DEF SignInSpec
=============================================================================
