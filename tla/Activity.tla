------------------------------ MODULE Activity ------------------------------
(***************************************************************************)
(* The activity trackers of the bridges over the hub.  A bridge process    *)
(* counts its calls in flight and reports working and idle over its        *)
(* RoomSocket, which reconnects when its socket closes.  Several processes *)
(* may serve one agent, and each has a tracker of its own.                 *)
(*                                                                         *)
(* Timers are steps.  What their lengths decide is in the guards: a        *)
(* working report is repeated twice as often as the hub's timer asks, a    *)
(* pong and a status frame take less than the interval of pings and        *)
(* refreshes, and a reconnect waits longer than the idle debounce.         *)
(***************************************************************************)
EXTENDS Hub, Integers, Sequences

CONSTANTS
  Bridges,    \* bridge processes
  AgentOf,    \* the agent each one serves
  OwnerOf,    \* the bridge that opens each of the sockets of bridges
  NoSocket,   \* not connected
  MaxCalls,   \* bound: calls in flight of a bridge
  MaxFrames,  \* bound: status frames under way on a socket
  MaxCuts     \* bound: cut links, bridges that quit, restarts of the hub

ASSUME ActivityAssumption ==
  /\ AgentOf \in [Bridges -> Agents]
  /\ DOMAIN OwnerOf \subseteq Sockets
  /\ \A s \in DOMAIN OwnerOf : OwnerOf[s] \in Bridges /\ UserOf[s] = AgentOf[OwnerOf[s]]
  /\ NoSocket \notin Sockets
  /\ MaxCalls \in Nat \ {0} /\ MaxFrames \in Nat \ {0} /\ MaxCuts \in Nat

VARIABLES
  mine,        \* RoomSocket.ws
  greeted,     \* bridges whose hello frame has arrived
  uplink,      \* status frames under way to the hub
  inFlight,    \* ActivityTracker.inFlight
  reported,    \* ActivityTracker.reported
  idleTimer,   \* bridges with a pending idle debounce
  refreshing,  \* bridges whose refresh timer runs
  holdOff,     \* bridges that lost their socket during a debounce that is
               \* still pending, shorter than the reconnect's back-off
  cuts         \* cuts, quits and restarts so far

tracker == <<inFlight, reported, idleTimer, refreshing>>
link == <<mine, greeted, holdOff, cuts>>
avars == <<hub, uplink, tracker, link>>

Mine == {s \in Sockets : \E b \in Bridges : mine[b] = s}

Connected(b) == mine[b] \in Hearing(conns)

TypeOK ==
  /\ HubTypeOK
  /\ mine \in [Bridges -> Sockets \union {NoSocket}]
  /\ greeted \subseteq Bridges /\ holdOff \subseteq idleTimer
  /\ uplink \in [Sockets -> Seq({"working", "idle"})]
  /\ inFlight \in [Bridges -> 0..MaxCalls]
  /\ reported \in [Bridges -> {"working", "idle"}]
  /\ idleTimer \subseteq refreshing /\ refreshing \subseteq Bridges
  /\ \A b \in idleTimer : inFlight[b] = 0
  /\ cuts \in 0..MaxCuts

Init ==
  /\ HubInit
  /\ mine = [b \in Bridges |-> NoSocket] /\ greeted = {} /\ holdOff = {}
  /\ uplink = [s \in Sockets |-> <<>>]
  /\ inFlight = [b \in Bridges |-> 0] /\ reported = [b \in Bridges |-> "idle"]
  /\ idleTimer = {} /\ refreshing = {}
  /\ cuts = 0

-----------------------------------------------------------------------------
(* The tracker.                                                            *)

\* send: best effort, and what it tried to say counts as reported.
Send(b, state) ==
  /\ reported' = [reported EXCEPT ![b] = state]
  /\ IF Connected(b)
     THEN /\ Len(uplink[mine[b]]) < MaxFrames
          /\ uplink' = [uplink EXCEPT ![mine[b]] = Append(@, state)]
     ELSE UNCHANGED uplink

\* Mutant: the refresh timer is not started again.
Begin_NoRefresh(b) ==
  /\ inFlight[b] < MaxCalls
  /\ inFlight' = [inFlight EXCEPT ![b] = @ + 1]
  /\ idleTimer' = idleTimer \ {b} /\ holdOff' = holdOff \ {b}
  /\ IF reported[b] # "working" THEN Send(b, "working") ELSE UNCHANGED <<reported, uplink>>
  /\ UNCHANGED <<hub, refreshing, mine, greeted, cuts>>

\* A tool call starts.
Begin(b) ==
  /\ inFlight[b] < MaxCalls
  /\ inFlight' = [inFlight EXCEPT ![b] = @ + 1]
  /\ idleTimer' = idleTimer \ {b} /\ holdOff' = holdOff \ {b}
  /\ IF reported[b] # "working" THEN Send(b, "working") ELSE UNCHANGED <<reported, uplink>>
  /\ refreshing' = refreshing \union {b}
  /\ UNCHANGED <<hub, mine, greeted, cuts>>

\* A tool call ends; the last one starts the debounce.
End(b) ==
  /\ inFlight[b] > 0
  /\ inFlight' = [inFlight EXCEPT ![b] = @ - 1]
  /\ idleTimer' = IF inFlight[b] = 1 THEN idleTimer \union {b} ELSE idleTimer
  /\ UNCHANGED <<hub, uplink, reported, refreshing, link>>

\* The debounce is over.  (No call can be in flight, by TypeOK: the code's own
\* check for one never holds.)
ReportIdle(b) ==
  /\ b \in idleTimer
  /\ idleTimer' = idleTimer \ {b} /\ holdOff' = holdOff \ {b}
  /\ refreshing' = refreshing \ {b}
  /\ Send(b, "idle")
  /\ UNCHANGED <<hub, inFlight, mine, greeted, cuts>>

\* The refresh timer ticks, with no frame left under way from the last tick.
Refresh(b) ==
  /\ b \in refreshing /\ inFlight[b] > 0
  /\ Connected(b) => uplink[mine[b]] = <<>>
  /\ Send(b, "working")
  /\ UNCHANGED <<hub, inFlight, idleTimer, refreshing, link>>

\* The hello frame of a new connection arrives.
Greet(b) ==
  /\ Connected(b) /\ b \notin greeted
  /\ greeted' = greeted \union {b}
  /\ IF inFlight[b] > 0 THEN Send(b, "working") ELSE UNCHANGED <<reported, uplink>>
  /\ UNCHANGED <<hub, inFlight, idleTimer, refreshing, mine, holdOff, cuts>>

-----------------------------------------------------------------------------
(* The connection.                                                         *)

\* connect: the socket opens, and the hub registers it.
Connect(b, s) ==
  /\ mine[b] = NoSocket /\ b \notin holdOff
  /\ s \in DOMAIN OwnerOf /\ OwnerOf[s] = b
  /\ Register(s)
  /\ mine' = [mine EXCEPT ![b] = s]
  /\ UNCHANGED <<uplink, tracker, greeted, holdOff, cuts>>

\* The client's socket emits close; it connects again after the back-off.
Lost(b) ==
  /\ mine[b] # NoSocket /\ ~Connected(b)
  /\ mine' = [mine EXCEPT ![b] = NoSocket]
  /\ greeted' = greeted \ {b}
  /\ holdOff' = IF b \in idleTimer THEN holdOff \union {b} ELSE holdOff
  /\ UNCHANGED <<hub, uplink, tracker, cuts>>

\* The process ends and another is started; its socket closes or is left.
Quit(b) ==
  /\ cuts < MaxCuts /\ cuts' = cuts + 1
  /\ mine' = [mine EXCEPT ![b] = NoSocket] /\ greeted' = greeted \ {b}
  /\ inFlight' = [inFlight EXCEPT ![b] = 0]
  /\ reported' = [reported EXCEPT ![b] = "idle"]
  /\ idleTimer' = idleTimer \ {b} /\ refreshing' = refreshing \ {b}
  /\ holdOff' = holdOff \ {b}
  /\ UNCHANGED <<hub, uplink>>

\* The link of a bridge fails, with the frames on it.
Fail(s) ==
  /\ cuts < MaxCuts /\ cuts' = cuts + 1
  /\ s \in Mine
  /\ Cut(s)
  /\ uplink' = [uplink EXCEPT ![s] = <<>>]
  /\ UNCHANGED <<tracker, mine, greeted, holdOff>>

\* The server goes down and comes up again, having forgotten everyone.
RestartHub ==
  /\ cuts < MaxCuts /\ cuts' = cuts + 1
  /\ Close
  /\ uplink' = [s \in Sockets |-> <<>>]
  /\ UNCHANGED <<tracker, mine, greeted, holdOff>>

-----------------------------------------------------------------------------
(* The hub's side.                                                         *)

Deliver(s) ==
  /\ uplink[s] # <<>>
  /\ Status(s, Head(uplink[s]))
  /\ uplink' = [uplink EXCEPT ![s] = Tail(@)]
  /\ UNCHANGED <<tracker, link>>

\* A connection ends that the heartbeat or the network broke or its client left.
Drop(s) ==
  /\ s \in doomed \union cut \/ s \notin Mine
  /\ Unregister(s)
  /\ uplink' = [uplink EXCEPT ![s] = <<>>]
  /\ UNCHANGED <<tracker, link>>

\* Every live client has answered the last ping when the next one is due.
Heartbeat ==
  /\ Hearing(conns) \subseteq alive
  /\ PingAll
  /\ UNCHANGED <<uplink, tracker, link>>

AnswerPing(s) == Pong(s) /\ UNCHANGED <<uplink, tracker, link>>

\* The hub's timer runs out: no bridge of the agent keeps refreshing it.
RunOut(u) ==
  /\ \A b \in Bridges :
       AgentOf[b] = u /\ Connected(b) => inFlight[b] = 0 /\ b \notin idleTimer
  /\ AutoIdle(u)
  /\ UNCHANGED <<uplink, tracker, link>>

Next ==
  \/ \E b \in Bridges :
       \/ Begin(b) \/ End(b) \/ ReportIdle(b) \/ Refresh(b) \/ Greet(b)
       \/ \E s \in Sockets : Connect(b, s)
       \/ Lost(b) \/ Quit(b)
  \/ \E s \in Sockets : Fail(s) \/ Deliver(s) \/ Drop(s) \/ AnswerPing(s)
  \/ \E u \in Agents : RunOut(u)
  \/ Heartbeat \/ RestartHub

Spec == Init /\ [][Next]_avars

\* Timers run, frames arrive, the client notices a dead link and connects
\* again.  The hub need not notice one before its heartbeat does.
Fairness ==
  /\ \A b \in Bridges :
       /\ WF_avars(ReportIdle(b)) /\ WF_avars(Refresh(b)) /\ WF_avars(Greet(b))
       /\ WF_avars(Lost(b)) /\ WF_avars(\E s \in Sockets : Connect(b, s))
  /\ \A s \in Sockets :
       /\ WF_avars(Deliver(s)) /\ WF_avars(AnswerPing(s))
       /\ WF_avars(s \notin cut \ doomed /\ Drop(s))
  /\ WF_avars(Heartbeat)

FairSpec == Spec /\ Fairness

-----------------------------------------------------------------------------
(* Correctness.                                                            *)

\* A call that lasts is shown: whatever links failed and whatever the agent's
\* other bridges reported meanwhile, the hub comes to have the agent as working.
RunIsShown ==
  \A b \in Bridges : inFlight[b] > 0 ~> (inFlight[b] = 0 \/ AgentOf[b] \in working)
=============================================================================
