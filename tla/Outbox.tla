------------------------------- MODULE Outbox -------------------------------
(***************************************************************************)
(* The tools of an MCP bridge that put local things into the room: text,   *)
(* and uploads with their local policy and their approval.  Calls overlap, *)
(* the configuration may be reloaded at any await of theirs, and the file  *)
(* to be uploaded may be written while it is checked.                      *)
(*                                                                         *)
(* One local file, which a call stats, scans, hashes and then sends; what  *)
(* a configuration says of it is a set of contents.                        *)
(***************************************************************************)
EXTENDS ConfigWatch

CONSTANTS
  Contents,     \* what the local file may hold; different ones differ in size and hash
  Secret,       \* those with a secret that the scan of the head finds
  Admits,       \* config -> contents it admits: roots, deny globs, absolute size
  Frees,        \* config -> contents it lets through without an approval
  Talkative,    \* configs with allow_agent_to_send_text
  Jobs,         \* tool calls that may overlap
  Tickets,      \* ids of approvals
  None,
  MaxRewrites   \* bound: writes of the local file

ASSUME OutboxAssumption ==
  /\ Secret \subseteq Contents /\ None \notin Contents \union Tickets
  /\ Admits \in [Configs -> SUBSET Contents] /\ Frees \in [Configs -> SUBSET Contents]
  /\ Talkative \subseteq Configs
  /\ MaxRewrites \in Nat

VARIABLES
  job,       \* the calls under way
  local,     \* the content of the local file, or None
  rewrites,
  ticket     \* the room's approvals, or None

outbox == <<config, job, local, rewrites, ticket>>

NoJob ==
  [tool |-> "none", pc |-> "none", cfg |-> None, id |-> None,
   sized |-> None, sha |-> None, touched |-> FALSE, approved |-> FALSE]
Of(tool) == {j \in Jobs : job[j].tool = tool}
At(j, tool, pc) == job[j].tool = tool /\ job[j].pc = pc

OutboxInit ==
  /\ WatchInit
  /\ job = [j \in Jobs |-> NoJob]
  /\ local \in Contents /\ rewrites = 0
  /\ ticket = [t \in Tickets |-> None]

\* A call reads the configuration of the moment, once: it goes on by that one
\* across all its awaits, whatever is reloaded meanwhile.
Begins(j, tool, pc, id) ==
  /\ job[j] = NoJob /\ ~stopped
  /\ job' = [job EXCEPT ![j] = [NoJob EXCEPT !.tool = tool, !.pc = pc, !.id = id,
                                            !.cfg = current]]

Becomes(j, next) == job' = [job EXCEPT ![j] = next]
Goes(j, pc) == job' = [job EXCEPT ![j].pc = pc]
Ends(j) == job' = [job EXCEPT ![j] = NoJob]

-----------------------------------------------------------------------------
(* room_send_message, room_mark_resolved, room_update_summary.             *)

\* The flag and the text are checked before anything is sent; names are first
\* looked up among the participants.
Say(j) ==
  /\ current \in Talkative
  /\ \E pc \in {"resolve", "post"} : Begins(j, "say", pc, None)
  /\ UNCHANGED <<config, local, rewrites, ticket>>

Resolve(j) ==
  /\ At(j, "say", "resolve")
  /\ Goes(j, "post") \/ Ends(j)
  /\ UNCHANGED <<config, local, rewrites, ticket>>

Post(j) ==
  /\ At(j, "say", "post")
  /\ Goes(j, "said") \/ Ends(j)
  /\ UNCHANGED <<config, local, rewrites, ticket>>

-----------------------------------------------------------------------------
(* room_upload_artifact: checkUploadPolicy, the approval, the request.     *)

\* id: the approval the agent names, if any.
Upload(j, id) ==
  /\ Begins(j, "upload", "stat", id)
  /\ UNCHANGED <<config, local, rewrites, ticket>>

\* A step that reads the file fails when it is gone.
Checks(j, pc, passes, next) ==
  /\ At(j, "upload", pc)
  /\ IF local # None /\ passes THEN Becomes(j, next) ELSE Ends(j)
  /\ UNCHANGED <<config, local, rewrites, ticket>>

\* realpath and stat: containment, deny globs and the absolute cap.
Stat(j) ==
  Checks(j, "stat", local \in Admits[job[j].cfg],
         [job[j] EXCEPT !.pc = "scan", !.sized = local])

\* Mutant: a call that names an approval is spared the scan.
Scan_Spared(j) ==
  Checks(j, "scan", job[j].id # None \/ local \notin Secret, [job[j] EXCEPT !.pc = "hash"])

\* readHead: secret content is refused, whoever approves.
Scan(j) == Checks(j, "scan", local \notin Secret, [job[j] EXCEPT !.pc = "hash"])

\* What the configuration asks for, by the size found.
Decision(j) ==
  IF job[j].sized \in Frees[job[j].cfg] THEN "send"
  ELSE IF job[j].id = None THEN "request" ELSE "lookup"

\* sha256File, and the decision.
HashFile(j) ==
  Checks(j, "hash", TRUE, [job[j] EXCEPT !.pc = Decision(j), !.sha = local])

\* The approval is asked for, and the call ends.
Request(j) ==
  /\ At(j, "upload", "request")
  /\ \/ \E t \in Tickets :
          /\ ticket[t] = None
          /\ ticket' = [ticket EXCEPT ![t] =
               [fits |-> TRUE, sha |-> job[j].sha, sized |-> job[j].sized, status |-> "pending"]]
     \/ UNCHANGED ticket
  /\ Ends(j)
  /\ UNCHANGED <<config, local, rewrites>>

\* An approval for this upload: of the type, by this agent, of the hash and size.
Covers(t, j) ==
  /\ ticket[t].fits /\ ticket[t].status = "approved"
  /\ ticket[t].sha = job[j].sha /\ ticket[t].sized \in {None, job[j].sized}

\* The approval named is looked up in the room.
Lookup(j) ==
  /\ At(j, "upload", "lookup")
  /\ IF ticket[job[j].id] # None /\ Covers(job[j].id, j)
     THEN Goes(j, "send") \/ Ends(j) ELSE Ends(j)
  /\ UNCHANGED <<config, local, rewrites, ticket>>

\* uploadArtifact: the file is opened again.  The server stores what it gets
\* without an approval or not, by its own gate; with one, what it was given for,
\* once (see Uploads).
SendFile(j) ==
  /\ At(j, "upload", "send")
  /\ LET id == job[j].id IN
     \/ /\ local # None /\ id = None
        /\ Becomes(j, [job[j] EXCEPT !.pc = "stored", !.sha = local])
        /\ UNCHANGED ticket
     \/ /\ local # None /\ id # None /\ ticket[id] # None
        /\ ticket[id].fits /\ ticket[id].status = "approved" /\ ticket[id].sha = local
        /\ ticket' = [ticket EXCEPT ![id].status = "spent"]
        /\ Becomes(j, [job[j] EXCEPT !.pc = "stored", !.sha = local, !.approved = TRUE])
     \/ Ends(j) /\ UNCHANGED ticket
  /\ UNCHANGED <<config, local, rewrites>>

\* The file is written or removed by somebody else.
Rewrite ==
  /\ rewrites < MaxRewrites /\ rewrites' = rewrites + 1
  /\ local' \in (Contents \union {None}) \ {local}
  /\ job' = [j \in Jobs |->
       [job[j] EXCEPT !.touched = job[j].tool = "upload"]]
  /\ UNCHANGED <<config, ticket>>

\* room_request_human_approval with a payload of the agent's own, or an approval
\* of another type or participant.
AskHuman ==
  /\ \E t \in Tickets, sha \in Contents \union {None} :
       /\ ticket[t] = None
       /\ ticket' = [ticket EXCEPT ![t] =
            [fits |-> sha # None, sha |-> sha, sized |-> None, status |-> "pending"]]
  /\ UNCHANGED <<config, job, local, rewrites>>

\* The reviewer decides, or does not in time.
HumanDecides ==
  /\ \E t \in Tickets, verdict \in {"approved", "denied", "expired"} :
       /\ ticket[t] # None /\ ticket[t].status = "pending"
       /\ ticket' = [ticket EXCEPT ![t].status = verdict]
  /\ UNCHANGED <<config, job, local, rewrites>>

-----------------------------------------------------------------------------
\* The answer goes back to the agent.
Reply(j) ==
  /\ job[j] # NoJob /\ job[j].pc \in {"said", "stored"}
  /\ Ends(j)
  /\ UNCHANGED <<config, local, rewrites, ticket>>

\* The configuration is edited, watched and reloaded.
Reconfigure ==
  /\ WatchNext
  /\ UNCHANGED <<job, local, rewrites, ticket>>

OutboxStep(j) ==
  \/ Say(j) \/ Resolve(j) \/ Post(j)
  \/ \E id \in Tickets \union {None} : Upload(j, id)
  \/ Stat(j) \/ Scan(j) \/ HashFile(j) \/ Request(j) \/ Lookup(j) \/ SendFile(j) \/ Reply(j)

OutboxNext ==
  \/ ~loading /\ \E j \in Jobs : OutboxStep(j)
  \/ Rewrite \/ AskHuman \/ HumanDecides \/ Reconfigure

OutboxSpec == OutboxInit /\ [][OutboxNext]_outbox

-----------------------------------------------------------------------------
(* Correctness.                                                            *)

\* What a call put into the room, the configuration it started with lets through
\* in every respect, and with the human's approval of just that content where that
\* configuration asks for one: calls that overlap, reloads and approvals never give
\* a mixture of two (mcp.ts:143-146, "PER CALL").  It may be outdated when the call
\* ends, where reload.ts:28-30 wants it read again after every await; README tells.
\* Excepted is a file that was written while it was checked: it is read again when
\* it is sent.
PassesPolicy ==
  /\ \A j \in Of("upload") : job[j].pc = "stored" =>
       \/ job[j].touched
       \/ /\ job[j].sha \in Admits[job[j].cfg] \ Secret
          /\ job[j].approved \/ job[j].sha \in Frees[job[j].cfg]
  /\ \A j \in Of("say") : job[j].pc = "said" => job[j].cfg \in Talkative
=============================================================================
