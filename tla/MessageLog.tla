----------------------------- MODULE MessageLog -----------------------------
(***************************************************************************)
(* The messages of one room: who may post when, in which order messages    *)
(* are kept, and what a reader that polls with a cursor gets to see.       *)
(*                                                                         *)
(* Every handler here runs without an await, so each is one action.  The   *)
(* table is kept in the room's total order (created_at, id); ids are       *)
(* random, so a row may land anywhere among rows of its own time stamp.    *)
(* A message is named by its place in the order of acceptance, n.          *)
(*                                                                         *)
(* The wall clock may be set forward or back at any time.  created_at does *)
(* not follow it back, but the memory of the last stamp dies with the      *)
(* process: ClockTrusted says whether a fresh process may rely on a clock  *)
(* that is past every stored stamp.                                        *)
(***************************************************************************)
EXTENDS Integers, Sequences, FiniteSets

CONSTANTS
  Agents,        \* agent users with can_send = 1
  Humans,        \* human users with can_send = 1
  Readers,       \* pollers of GET /messages
  DefaultTurns,  \* config.maxAutoTurns
  TurnOverrides, \* per-room max_auto_turns values the owner may set
  Unset,         \* a cleared override (NULL column)
  RateMax,       \* DEFAULTS.MESSAGE_RATE_PER_MIN
  Window,        \* the limiter's sliding window
  PageLimit,     \* the limit of a page
  ClockTrusted,  \* the clock is past every stored stamp when a process starts
  MaxTime,       \* bound: values of the clock
  MaxMessages    \* bound: messages of the room

ASSUME MessageLogAssumption ==
  /\ Agents \intersect Humans = {}
  /\ DefaultTurns \in Nat /\ TurnOverrides \subseteq Nat /\ Unset \notin Nat
  /\ RateMax \in Nat /\ Window \in Nat \ {0} /\ PageLimit \in Nat \ {0}
  /\ ClockTrusted \in BOOLEAN
  /\ MaxTime \in Nat \ {0} /\ MaxMessages \in Nat

VARIABLES
  clock,        \* Date.now()
  lastStamp,    \* lastMonotonicMs, 0 in a fresh process
  table,        \* the messages table in its total order
  turns,        \* rooms.max_auto_turns
  agentsPaused, \* rooms.agents_paused
  paused,       \* participants with paused = 1
  accepted,     \* the rate limiter: each user's accepted messages and their times
  steady,       \* messages accepted before the process started, or before the
                \* clock was last set back (for RateHolds only)
  cursor,       \* each reader's `after` message, 0 for none
  seen          \* the messages each reader has been given

vars == <<clock, lastStamp, table, turns, agentsPaused, paused, accepted,
          steady, cursor, seen>>

room == <<turns, agentsPaused, paused>>
reading == <<cursor, seen>>

Users == Agents \union Humans

Types == {"posted", "artifact_uploaded", "system_event"}

System == "System"

Message == [n : Nat \ {0}, sender : Users \union {System}, type : Types,
            stamp : Nat, at : Nat]

TypeOK ==
  /\ clock \in 1..MaxTime /\ lastStamp \in Nat
  /\ table \in Seq(Message) /\ Len(table) <= MaxMessages
  /\ turns \in TurnOverrides \union {Unset}
  /\ agentsPaused \in BOOLEAN /\ paused \subseteq Users
  /\ accepted \in [Users -> SUBSET [n : Nat, at : Nat]]
  /\ \A u \in Users : IsFiniteSet(accepted[u]) /\ Cardinality(accepted[u]) <= RateMax
  /\ steady \in Nat
  /\ cursor \in [Readers -> Nat] /\ seen \in [Readers -> SUBSET Nat]

-----------------------------------------------------------------------------
(* What the code computes.                                                 *)

EffectiveTurns == IF turns = Unset THEN DefaultTurns ELSE turns

IsAgents(m) == m.sender \in Agents /\ m.type # "system_event"

BreaksRun(m) == m.sender \notin Agents /\ m.type # "system_event"

\* countTrailingAgentRun: agent messages after the last that breaks the run.
TrailingAgentRun ==
  Cardinality({i \in DOMAIN table : IsAgents(table[i])
                 /\ \A j \in i..Len(table) : ~BreaksRun(table[j])})

\* Mutant: the last turn is counted once too often.
MaySpeak_OneMore(user) ==
  user \in Agents =>
    /\ ~agentsPaused
    /\ user \notin paused
    /\ TrailingAgentRun <= EffectiveTurns

\* The gates for agents, which nobody else passes through.
MaySpeak(user) ==
  user \in Agents =>
    /\ ~agentsPaused
    /\ user \notin paused
    /\ TrailingAgentRun < EffectiveTurns

\* Mutant: a stamp is forgotten one tick early.
Pruned_Early(user) == {a \in accepted[user] : a.at > clock - Window + 1}

\* The array's order is never used: allows counts it, and the filter looks at
\* each time on its own.
Pruned(user) == {a \in accepted[user] : a.at > clock - Window}

\* Mutant: created_at follows the clock back.
NextStamp_Clock == clock

\* Mutant: two messages of one millisecond share their stamp.
NextStamp_Shared == IF clock > lastStamp THEN clock ELSE lastStamp

\* monotonicNowIso.
NextStamp == IF clock > lastStamp THEN clock ELSE lastStamp + 1

\* INSERT INTO messages: the row's place in the total order.
Insert(sender, type) ==
  LET m == [n |-> Len(table) + 1, sender |-> sender, type |-> type,
            stamp |-> NextStamp, at |-> clock]
  IN  /\ Len(table) < MaxMessages
      /\ lastStamp' = m.stamp
      /\ \E p \in 1..Len(table) + 1 :
           /\ \A i \in 1..p - 1 : table[i].stamp <= m.stamp
           /\ \A i \in p..Len(table) : table[i].stamp >= m.stamp
           /\ table' = SubSeq(table, 1, p - 1) \o <<m>> \o SubSeq(table, p, Len(table))

Place(n) == IF n = 0 THEN 0 ELSE CHOOSE i \in DOMAIN table : table[i].n = n

Stored(t) == \E i \in DOMAIN table : table[i].stamp >= t

\* A fresh process takes its first stamp from the clock alone.
Sound(last, t) == ClockTrusted /\ last = 0 => ~Stored(t)

-----------------------------------------------------------------------------
Init ==
  /\ clock = 1 /\ lastStamp = 0 /\ table = <<>>
  /\ turns = Unset /\ agentsPaused = FALSE /\ paused = {}
  /\ accepted = [u \in Users |-> {}] /\ steady = 0
  /\ cursor = [r \in Readers |-> 0] /\ seen = [r \in Readers |-> {}]

\* Time passes, or the clock is set back.
MoveClock(t) ==
  /\ t # clock /\ Sound(lastStamp, t)
  /\ clock' = t
  /\ steady' = IF t < clock THEN Len(table) ELSE steady
  /\ UNCHANGED <<lastStamp, table, room, accepted, reading>>

\* The process dies and is started again, which takes more than a millisecond.
Restart(t) ==
  /\ t # clock /\ Sound(0, t)
  /\ clock' = t
  /\ lastStamp' = 0
  /\ accepted' = [u \in Users |-> {}]
  /\ steady' = Len(table)
  /\ UNCHANGED <<table, room, reading>>

-----------------------------------------------------------------------------
(* POST /messages.                                                         *)

Post(user) ==
  /\ MaySpeak(user)
  /\ Cardinality(Pruned(user)) < RateMax
  /\ Insert(user, "posted")
  /\ accepted' = [accepted EXCEPT ![user] =
                     Pruned(user) \union {[n |-> Len(table) + 1, at |-> clock]}]
  /\ UNCHANGED <<clock, room, steady, reading>>

\* 429 rate_limited: the look at the window drops what left it.
RefuseRate(user) ==
  /\ MaySpeak(user)
  /\ Cardinality(Pruned(user)) >= RateMax
  /\ accepted' = [accepted EXCEPT ![user] = Pruned(user)]
  /\ UNCHANGED <<clock, lastStamp, table, room, steady, reading>>

\* The artifact_uploaded message of an upload passes no gate and no limiter.
UploadMessage(user) ==
  /\ Insert(user, "artifact_uploaded")
  /\ UNCHANGED <<clock, room, accepted, steady, reading>>

\* The server's own notices: a resolved approval, a new summary.
SystemEvent ==
  /\ Insert(System, "system_event")
  /\ UNCHANGED <<clock, room, accepted, steady, reading>>

-----------------------------------------------------------------------------
(* The humans' controls.                                                   *)

PauseAll(on) ==
  /\ agentsPaused' = on /\ on # agentsPaused
  /\ UNCHANGED <<clock, lastStamp, table, turns, paused, accepted, steady, reading>>

\* A human may be paused as well; nothing ever reads that flag.
PauseParticipant(user, on) ==
  /\ paused' = IF on THEN paused \union {user} ELSE paused \ {user}
  /\ paused' # paused
  /\ UNCHANGED <<clock, lastStamp, table, turns, agentsPaused, accepted, steady, reading>>

PatchTurns(new) ==
  /\ new # turns
  /\ turns' = new
  /\ UNCHANGED <<clock, lastStamp, table, agentsPaused, paused, accepted, steady, reading>>

-----------------------------------------------------------------------------
(* GET /messages?after=cursor, by a client that advances to the page's end. *)

\* Mutant: the page is the newest rows, not the next ones.
Page_Newest(reader) ==
  LET from == Place(cursor[reader]) IN
    SubSeq(table, IF Len(table) - PageLimit > from THEN Len(table) - PageLimit + 1 ELSE from + 1,
           Len(table))

Page(reader) ==
  LET from == Place(cursor[reader])
      to == from + PageLimit
  IN  SubSeq(table, from + 1, IF to < Len(table) THEN to ELSE Len(table))

Read(reader) ==
  LET page == Page(reader) IN
    /\ page # <<>>
    /\ seen' = [seen EXCEPT ![reader] = @ \union {page[i].n : i \in DOMAIN page}]
    /\ cursor' = [cursor EXCEPT ![reader] = page[Len(page)].n]
    /\ UNCHANGED <<clock, lastStamp, table, room, accepted, steady>>

-----------------------------------------------------------------------------
Next ==
  \/ \E t \in 1..MaxTime : MoveClock(t) \/ Restart(t)
  \/ \E user \in Users : Post(user) \/ RefuseRate(user) \/ UploadMessage(user)
  \/ SystemEvent
  \/ \E on \in BOOLEAN : PauseAll(on) \/ \E user \in Agents : PauseParticipant(user, on)
  \/ \E new \in TurnOverrides \union {Unset} : PatchTurns(new)
  \/ \E reader \in Readers : Read(reader)

Spec == Init /\ [][Next]_vars

\* Clients keep polling.
FairSpec == Spec /\ \A reader \in Readers : WF_vars(Read(reader))

-----------------------------------------------------------------------------
(* Correctness.                                                            *)

\* The table's order is the order of acceptance: no later message sorts before
\* an earlier one, whatever is done to the clock while the process runs.
InAcceptanceOrder ==
  \A i, j \in DOMAIN table : i < j => table[i].n < table[j].n

\* A reader's cursor never passes over a message it was not given.
NothingInvisible ==
  \A r \in Readers : \A i \in 1..Place(cursor[r]) : table[i].n \in seen[r]

\* Two agents that answer each other stop: since the last word of a human at
\* most the largest limit ever in force of agents' messages were accepted,
\* whatever restarts, notices, uploads and changes of the limit happen.
Since(n) == {i \in DOMAIN table : table[i].n > n /\ IsAgents(table[i]) /\ table[i].type = "posted"}

NoRunaway ==
  \A n \in 0..Len(table) :
    (\A i \in DOMAIN table : table[i].n > n => ~BreaksRun(table[i])) =>
      \E limit \in TurnOverrides \union {DefaultTurns} : Cardinality(Since(n)) <= limit

\* The messages the user posted since steady, and when.
Posted(u) ==
  {[n |-> table[i].n, at |-> table[i].at] : i \in
     {i \in DOMAIN table :
        table[i].n > steady /\ table[i].sender = u /\ table[i].type = "posted"}}

\* In one life of the process, and as long as the clock is not set back, no
\* window of time holds more than RateMax posted messages of one user.
RateHolds ==
  \A u \in Users, t \in 1..MaxTime :
    Cardinality({p \in Posted(u) : p.at > t - Window /\ p.at <= t}) <= RateMax

\* Every accepted message reaches every reader that keeps polling: again and
\* again it has been given all there is.
EveryMessageIsRead == \A r \in Readers : []<>(seen[r] = 1..Len(table))
=============================================================================
