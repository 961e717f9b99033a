----------------------------- MODULE Responder ------------------------------
(***************************************************************************)
(* The auto-responder of a bridge (auto.ts) in one room: it fetches the    *)
(* messages after its saved cursor, runs the engine on each one that asks  *)
(* it something, and posts what the engine said.  The room goes on         *)
(* talking meanwhile, its gates refuse posts, the socket and the network   *)
(* fail, and the process is stopped or dies anywhere.                      *)
(*                                                                         *)
(* Messages are numbered in the room's order.  The cursor is compared with *)
(* nothing but this process's own copy, so file and memory are one         *)
(* variable.  A loop that sees `stopped` does nothing more; a request that *)
(* is under way at a stop or a crash counts as answered or lost before it. *)
(* Waits of seconds to minutes (the idle poll, the poll for a human, the   *)
(* pauses before a retry, an engine's time limit) end whenever they like;  *)
(* the four short timers of a kill and a shutdown are ordered in ticks of  *)
(* a second.  A check of the configuration takes less.                     *)
(***************************************************************************)
EXTENDS EngineRun, Sequences, FiniteSets

CONSTANTS
  Slack,       \* of the shutdown deadline over KILL_GRACE_MS, in ticks
  MaxNet,      \* MAX_NETWORK_POST_RETRIES
  TurnLimit,   \* the room's max_auto_turns
  Kinds,       \* what others post
  MaxMessages  \* bound: messages of the room

\* "ask" is a human's question to this agent and "chat" a human's word to
\* others; "peer" is another agent's question; "notice" is the server's.
ASSUME ResponderAssumption ==
  /\ Slack \in Nat \ {0} /\ MaxNet \in Nat /\ TurnLimit \in Nat
  /\ Kinds \subseteq {"ask", "chat", "peer", "notice"} /\ MaxMessages \in Nat

VARIABLES
  msgs,      \* the room: a record with the kind and, of our own, the question
  paused,    \* the room's agents, or this one, are paused
  link,      \* the socket is open
  heard,     \* frames up to this one were delivered or lost
  bridge,    \* the process
  pc,        \* where run, respondTo and postWithRetry are
  cursor,    \* the saved cursor
  batchEnd,  \* the last message of the batch in hand
  baseline,  \* `after` of waitForHumanMessage, kept between two waits
  net,       \* networkRetries
  deadline   \* ticks left to the hard exit of a shutdown

room == <<msgs, paused>>
stream == <<link, heard>>
loop == <<batchEnd, baseline, net>>
vars == <<engineVars, room, stream, bridge, pc, cursor, loop, deadline>>

Last == Len(msgs)
Mine(n) == msgs[n].kind = "mine"
FromHuman(n) == msgs[n].kind \in {"ask", "chat"}

Places == {"off", "fetch", "idle", "next", "check", "engine", "post", "human"}

\* inFlight: respondTo has been called and has not returned.
InFlight == pc \in {"check", "engine", "post", "human"}

RespondsTo(n) == msgs[n].kind \in {"ask", "peer"}

TypeOK ==
  /\ EngineTypeOK
  /\ msgs \in Seq([kind : Kinds \union {"mine"}, re : Nat]) /\ Last <= MaxMessages
  /\ paused \in BOOLEAN /\ link \in BOOLEAN /\ heard \in 0..Last
  /\ bridge \in {"up", "stopping", "down"} /\ pc \in Places
  /\ (pc = "off") = (bridge = "down")
  /\ cursor \in 0..batchEnd /\ batchEnd \in 0..Last
  /\ baseline \in 0..Last /\ net \in 0..MaxNet
  /\ deadline \in Timer(Grace + Slack)
  /\ \A n \in 1..Last : Mine(n) => msgs[n].re \in 1..n - 1 /\ RespondsTo(msgs[n].re)
  /\ InFlight => cursor > 0 /\ RespondsTo(cursor)
  /\ settled # "none" => pc = "engine"
  /\ child # "none" => settled # "none"

Init ==
  /\ EngineInit
  /\ msgs = <<>> /\ paused = FALSE
  /\ link = FALSE /\ heard = 0
  /\ bridge = "down" /\ pc = "off"
  /\ cursor = 0 /\ batchEnd = 0 /\ baseline = 0 /\ net = 0
  /\ deadline = Off

-----------------------------------------------------------------------------
(* The room.                                                               *)

\* The trailing run of agents' messages.
AgentRun ==
  LET breaks == {n \in 1..Last : FromHuman(n)}
      from == IF breaks = {} THEN 0 ELSE CHOOSE n \in breaks : \A k \in breaks : k <= n
      agents == {n \in from + 1..Last : msgs[n].kind \in {"mine", "peer"}}
  IN  Cardinality(agents)

Refused == paused \/ AgentRun >= TurnLimit

\* A message is stored and its frame goes to the open sockets.
Store(kind, re) ==
  /\ Last < MaxMessages
  /\ msgs' = Append(msgs, [kind |-> kind, re |-> re])
  /\ heard' = IF link THEN heard ELSE Last + 1

Speak(kind) ==
  /\ kind = "peer" => ~Refused
  /\ Store(kind, 0)
  /\ UNCHANGED <<engineVars, paused, link, bridge, pc, cursor, loop, deadline>>

Pause(on) ==
  /\ paused' = on /\ on # paused
  /\ UNCHANGED <<engineVars, msgs, stream, bridge, pc, cursor, loop, deadline>>

\* The socket breaks with the frames on it; it is opened again by itself.
LinkDown ==
  /\ link
  /\ link' = FALSE /\ heard' = Last
  /\ UNCHANGED <<engineVars, room, bridge, pc, cursor, loop, deadline>>

LinkUp ==
  /\ ~link /\ bridge = "up"
  /\ link' = TRUE
  /\ UNCHANGED <<engineVars, room, heard, bridge, pc, cursor, loop, deadline>>

\* A frame arrives: it ends the idle wait, and a human's the wait for one.
Deliver ==
  /\ link /\ heard < Last
  /\ heard' = heard + 1
  /\ pc' = CASE pc = "idle" -> "fetch"
             [] pc = "human" /\ FromHuman(heard + 1) -> "post"
             [] OTHER -> pc
  /\ UNCHANGED <<engineVars, room, link, bridge, cursor, loop, deadline>>

-----------------------------------------------------------------------------
(* run.                                                                    *)

\* runAutoResponder and prime: with no cursor it starts at the latest message.
Start ==
  /\ pc = "off"
  /\ bridge' = "up" /\ pc' = "fetch"
  /\ cursor' = IF cursor = 0 THEN Last ELSE cursor
  /\ batchEnd' = cursor'
  /\ UNCHANGED <<engineVars, room, stream, baseline, net, deadline>>

\* fetchNewer.  One that fails is tried again.
Fetch ==
  /\ pc = "fetch" /\ bridge = "up"
  /\ batchEnd' = Last
  /\ pc' = IF Last = cursor THEN "idle" ELSE "next"
  /\ UNCHANGED <<engineVars, room, stream, bridge, cursor, baseline, net, deadline>>

\* Mutant: the poll is left to an open socket.
IdleTimeout_Linked ==
  /\ pc = "idle" /\ link
  /\ pc' = "fetch"
  /\ UNCHANGED <<engineVars, room, stream, bridge, cursor, loop, deadline>>

IdleTimeout ==
  /\ pc = "idle"
  /\ pc' = "fetch"
  /\ UNCHANGED <<engineVars, room, stream, bridge, cursor, loop, deadline>>

\* Mutant: the cursor follows only when the work on the message is over.
Advance_Late(n) == cursor' = IF RespondsTo(n) THEN cursor ELSE n

\* advanceCursor, before the engine is run.
Advance(n) == cursor' = n

\* The next message of the batch.
NextMessage ==
  /\ pc = "next" /\ bridge = "up" /\ cursor < batchEnd
  /\ Advance(cursor + 1)
  /\ pc' = IF RespondsTo(cursor + 1) THEN "check" ELSE "next"
  /\ UNCHANGED <<engineVars, room, stream, bridge, loop, deadline>>

BatchDone ==
  /\ pc = "next" /\ bridge = "up" /\ cursor = batchEnd
  /\ pc' = "fetch"
  /\ UNCHANGED <<engineVars, room, stream, bridge, cursor, loop, deadline>>

-----------------------------------------------------------------------------
(* respondTo.                                                              *)

\* The latest configuration forbids to answer, or to run where it would.
Skip ==
  /\ pc = "check"
  /\ pc' = "next"
  /\ UNCHANGED <<engineVars, room, stream, bridge, cursor, loop, deadline>>

StartEngine ==
  /\ pc = "check"
  /\ Spawn(bridge = "stopping")
  /\ pc' = "engine"
  /\ UNCHANGED <<room, stream, bridge, cursor, loop, deadline>>

\* A killed run, or one that a shutdown outran, posts nothing; a failed one
\* posts an apology.
EngineDone ==
  /\ pc = "engine"
  /\ Take
  /\ pc' = IF bridge = "stopping" \/ settled = "timeout" THEN "next" ELSE "post"
  /\ net' = 0 /\ baseline' = 0
  /\ UNCHANGED <<room, stream, bridge, cursor, batchEnd, deadline>>

-----------------------------------------------------------------------------
(* postWithRetry.                                                          *)

Posting == pc = "post" /\ bridge = "up"

PostAccepted ==
  /\ Posting /\ ~Refused
  /\ Store("mine", cursor)
  /\ pc' = "next"
  /\ UNCHANGED <<engineVars, paused, link, bridge, cursor, loop, deadline>>

\* A network error: tried again, so often.
NetworkError ==
  IF net < MaxNet THEN net' = net + 1 /\ pc' = pc ELSE pc' = "next" /\ UNCHANGED net

\* The message is stored but the answer is lost.
PostUnanswered ==
  /\ Posting /\ ~Refused
  /\ Store("mine", cursor)
  /\ NetworkError
  /\ UNCHANGED <<engineVars, paused, link, bridge, cursor, batchEnd, baseline, deadline>>

\* The server is not reached, or its refusal does not come through.
PostUnreached ==
  /\ Posting
  /\ NetworkError
  /\ UNCHANGED <<engineVars, room, stream, bridge, cursor, batchEnd, baseline, deadline>>

\* Mutant: a wait starts the count of network errors again.
PostRefused_Recounts ==
  /\ Posting /\ Refused
  /\ pc' = "human" /\ baseline' = cursor /\ net' = 0
  /\ UNCHANGED <<engineVars, room, stream, bridge, cursor, batchEnd, deadline>>

\* turn_limit, agents_paused, participant_paused: wait for a human.
PostRefused ==
  /\ Posting /\ Refused
  /\ pc' = "human" /\ baseline' = cursor
  /\ UNCHANGED <<engineVars, room, stream, bridge, cursor, batchEnd, net, deadline>>

\* Any other refusal, or a shutdown, ends the attempts.
PostGivenUp ==
  /\ pc = "post"
  /\ pc' = "next"
  /\ UNCHANGED <<engineVars, room, stream, bridge, cursor, loop, deadline>>

\* Mutant: the poll looks at the newest message only.
Matches_Newest == Last > baseline /\ FromHuman(Last)

\* Some message after the baseline is a human's.
Matches == \E n \in baseline + 1..Last : FromHuman(n)

\* waitForHumanMessage, when no frame came: the poll over REST.
PollForHuman ==
  /\ pc = "human"
  /\ baseline' = Last
  /\ pc' = IF Matches \/ bridge = "stopping" THEN "post" ELSE pc
  /\ UNCHANGED <<engineVars, room, stream, bridge, cursor, batchEnd, net, deadline>>

-----------------------------------------------------------------------------
(* Shutdown and death.                                                     *)

\* SIGINT or SIGTERM.
Stop ==
  /\ bridge = "up"
  /\ bridge' = "stopping" /\ link' = FALSE /\ heard' = Last
  /\ deadline' = Grace + Slack
  /\ Abort
  /\ UNCHANGED <<room, pc, cursor, loop>>

\* The process is gone, and every timer with it.  What it left running is
\* not followed any further.
Gone ==
  /\ bridge' = "down" /\ pc' = "off"
  /\ link' = FALSE /\ heard' = Last /\ deadline' = Off
  /\ batchEnd' = cursor /\ baseline' = 0 /\ net' = 0
  /\ child' = "none" /\ helper' = FALSE /\ limit' = FALSE
  /\ hard' = Off /\ flush' = Off /\ timedOut' = FALSE /\ settled' = "none"
  /\ UNCHANGED <<room, cursor>>

\* Mutant: the exit does not wait for the run.
ExitDue_AtOnce == bridge = "stopping"

\* Nothing is in flight, or the deadline is over.
ExitDue == bridge = "stopping" /\ (~InFlight \/ deadline = 0)

Exit == ExitDue /\ Gone

Crash == bridge \in {"up", "stopping"} /\ Gone

\* A second passes, when nothing is due before.
Tick ==
  /\ {hard, flush, deadline} # {Off}
  /\ pc # "check" /\ ~ExitDue
  /\ EnginePasses
  /\ deadline' = Down(deadline)
  /\ UNCHANGED <<room, stream, bridge, pc, cursor, loop>>

Engine ==
  /\ bridge \in {"up", "stopping"}
  /\ EngineStep
  /\ UNCHANGED <<room, stream, bridge, pc, cursor, loop, deadline>>

Next ==
  \/ \E kind \in Kinds : Speak(kind)
  \/ \E on \in BOOLEAN : Pause(on)
  \/ LinkDown \/ LinkUp \/ Deliver
  \/ Start \/ Fetch \/ IdleTimeout \/ NextMessage \/ BatchDone
  \/ Skip \/ StartEngine \/ EngineDone
  \/ PostAccepted \/ PostUnanswered \/ PostUnreached \/ PostRefused \/ PostGivenUp
  \/ PollForHuman
  \/ Stop \/ Exit \/ Crash \/ Tick \/ Engine

Spec == Init /\ [][Next]_vars

\* The loop runs, its timers fire, and a post that can be sent is.
Fairness ==
  /\ WF_vars(Fetch \/ NextMessage \/ BatchDone \/ Skip \/ StartEngine \/ EngineDone)
  /\ WF_vars(IdleTimeout) /\ WF_vars(PollForHuman)
  /\ WF_vars(PostAccepted \/ PostUnreached \/ PostRefused \/ PostGivenUp)
  /\ WF_vars(Exit) /\ WF_vars(Tick)
  /\ WF_vars(Engine /\ (PipesClose \/ FlushEnds \/ TimeLimit \/ HardKill))

FairSpec == Spec /\ Fairness

-----------------------------------------------------------------------------
(* Correctness.                                                            *)

RepliesTo(q) == {n \in 1..Last : Mine(n) /\ msgs[n].re = q}

Replies == [n \in {n \in 1..Last : Mine(n)} |-> msgs[n].re]

\* The responder keeps its promise: in order, one at a time, never again the
\* same question, whatever is lost, refused, killed or crashed (auto.ts run).
Promise == INSTANCE Answering WITH looked <- cursor, working <- InFlight, replies <- Replies

ImplementsAnswering == Promise!AnsweringSpec

\* The room holds a reply twice only for a network error that hid the first:
\* a turn limit or a pause repeats nothing (auto.ts postWithRetry).
OnlyErrorsRepeat ==
  /\ InFlight => Cardinality(RepliesTo(cursor)) <= net
  /\ \A q \in 1..cursor : Cardinality(RepliesTo(q)) <= MaxNet + 1

\* Once the grace of a killed run is over nothing of its group is left, also
\* when the child went first and the run has long settled (engines.ts).
KilledGroupGone == timedOut /\ hard = Off => child # "up" /\ ~helper

\* A graceful shutdown leaves no engine behind, at whatever moment of a run it
\* comes and however the engine ignores SIGTERM (auto.ts shutdown).
LeaderNeverLeft ==
  [][Exit => child # "up"]_vars

\* A responder that waits for a human is woken by one, also when the frame is
\* lost or came before the wait (auto.ts waitForHumanMessage).
WakesOnHuman ==
  (pc = "human" /\ \E n \in cursor + 1..Last : FromHuman(n)) ~> pc # "human"

\* While it is up it comes to the last message, or waits for a human: no
\* engine, no lost frame and no failing post holds it for ever (auto.ts run).
EveryMessageIsSeen ==
  bridge = "up" ~> (cursor = Last \/ pc = "human" \/ bridge # "up")

\* The baseline of the poll advances past every message it inspects: no later
\* wait of a reply puts a human's message before it again (auto.ts:617).
NoRematch ==
  [][pc = "post" /\ pc' = "human" => \A n \in baseline' + 1..baseline : ~FromHuman(n)]_vars
=============================================================================
