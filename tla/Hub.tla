-------------------------------- MODULE Hub --------------------------------
(***************************************************************************)
(* The WebSocket hub of one room: who is online, which agents show as      *)
(* working, and what every connected client is shown of both.              *)
(*                                                                         *)
(* A socket belongs to one user; a user may have several.  TCP keeps the   *)
(* order of frames, so a client comes to show what the frames sent to it   *)
(* amount to.  A link can be cut without either end being told.            *)
(***************************************************************************)
EXTENDS FiniteSets

CONSTANTS
  Users,    \* participants of the room
  Agents,   \* those of kind agent
  Sockets,  \* sockets; one that is closed may be opened again
  UserOf    \* the user each socket is authenticated as

ASSUME HubAssumption == Agents \subseteq Users /\ UserOf \in [Sockets -> Users]

VARIABLES
  conns,    \* the room's set of registered connections
  alive,    \* connections with isAlive = true
  doomed,   \* connections the heartbeat terminated, not yet unregistered
  cut,      \* connections whose link no longer carries anything
  working,  \* users with an entry in the activity map
  view,     \* what the frames sent on each socket since its hello amount to
  before    \* users working without a break since before a socket's hello
            \* (for PillsExact only)

hub == <<conns, alive, doomed, cut, working, view, before>>

View == [online : SUBSET Users, working : SUBSET Users]
Blank == [online |-> {}, working |-> {}]

HubTypeOK ==
  /\ conns \subseteq Sockets /\ alive \subseteq conns
  /\ doomed \subseteq conns /\ cut \subseteq conns
  /\ working \subseteq Agents
  /\ view \in [Sockets -> View] /\ before \in [Sockets -> SUBSET Users]

-----------------------------------------------------------------------------
\* presence: the users of a set of connections.
Presence(cs) == {UserOf[s] : s \in cs}

\* broadcast reaches the OPEN sockets, and clients whose link is up.
Hearing(cs) == cs \ (doomed \union cut)

HubInit ==
  /\ conns = {} /\ alive = {} /\ doomed = {} /\ cut = {} /\ working = {}
  /\ view = [s \in Sockets |-> Blank]
  /\ before = [s \in Sockets |-> {}]

\* Mutant: the online set is taken after the connection joined it.
Register_Silent(s) ==
  /\ s \notin conns
  /\ conns' = conns \union {s} /\ alive' = alive \union {s}
  /\ view' = [view EXCEPT ![s] = [online |-> Presence(conns'), working |-> {}]]
  /\ before' = [before EXCEPT ![s] = working]
  /\ UNCHANGED <<doomed, cut, working>>

\* handleUpgrade and register.  hello gives the presence and nothing of the
\* activity; the others hear of a user's first socket.
Register(s) ==
  /\ s \notin conns
  /\ conns' = conns \union {s} /\ alive' = alive \union {s}
  /\ LET first == UserOf[s] \notin Presence(conns) IN
       view' = [t \in Sockets |->
         IF t = s THEN [online |-> Presence(conns'), working |-> {}]
         ELSE IF t \in Hearing(conns) /\ first
              THEN [view[t] EXCEPT !.online = Presence(conns')]
              ELSE view[t]]
  /\ before' = [before EXCEPT ![s] = working]
  /\ UNCHANGED <<doomed, cut, working>>

\* unregister, on close or error.  When it was the user's last socket the
\* others hear of it, and the activity is reverted.
Unregister(s) ==
  /\ s \in conns
  /\ conns' = conns \ {s} /\ alive' = alive \ {s}
  /\ doomed' = doomed \ {s} /\ cut' = cut \ {s}
  /\ LET left == {UserOf[s]} \ Presence(conns') IN
       /\ working' = working \ left
       /\ view' = [t \in Sockets |->
            IF t = s THEN Blank
            ELSE IF t \in Hearing(conns') /\ left # {}
            THEN [online |-> Presence(conns'), working |-> view[t].working \ left]
            ELSE view[t]]
       /\ before' = [t \in Sockets |-> IF t = s THEN {} ELSE before[t] \ left]

\* setActivity: the change is broadcast, a repeated report is not.
SetWorking(u) ==
  /\ working' = working \union {u}
  /\ view' = [t \in Sockets |->
       IF t \in Hearing(conns) /\ u \notin working
       THEN [view[t] EXCEPT !.working = @ \union {u}] ELSE view[t]]
  /\ UNCHANGED <<conns, alive, doomed, cut, before>>

SetIdle(u) ==
  /\ working' = working \ {u}
  /\ view' = [t \in Sockets |->
       IF t \in Hearing(conns) /\ u \in working
       THEN [view[t] EXCEPT !.working = @ \ {u}] ELSE view[t]]
  /\ before' = [t \in Sockets |-> before[t] \ {u}]
  /\ UNCHANGED <<conns, alive, doomed, cut>>

\* onClientFrame: a status frame counts only from an agent.
Status(s, state) ==
  /\ s \in Hearing(conns)
  /\ \/ UserOf[s] \in Agents /\ state = "working" /\ SetWorking(UserOf[s])
     \/ UserOf[s] \in Agents /\ state = "idle" /\ SetIdle(UserOf[s])
     \/ UserOf[s] \notin Agents /\ UNCHANGED hub

\* Mutant: the timer's revert is not broadcast.
AutoIdle_Silent(u) ==
  /\ u \in working
  /\ working' = working \ {u}
  /\ before' = [t \in Sockets |-> before[t] \ {u}]
  /\ UNCHANGED <<conns, alive, doomed, cut, view>>

\* No working report for ACTIVITY_IDLE_TIMEOUT_MS.
AutoIdle(u) == u \in working /\ SetIdle(u)

\* Mutant: a connection that was not heard of stays marked alive.
PingAll_Trusting ==
  /\ conns # {}
  /\ doomed' = doomed \union (conns \ alive)
  /\ UNCHANGED <<conns, alive, cut, working, view, before>>

\* The heartbeat: whoever has not answered the last ping is terminated.
PingAll ==
  /\ conns # {}
  /\ doomed' = doomed \union (conns \ alive)
  /\ alive' = {}
  /\ UNCHANGED <<conns, cut, working, view, before>>

Pong(s) ==
  /\ s \in Hearing(conns) \ alive
  /\ alive' = alive \union {s}
  /\ UNCHANGED <<conns, doomed, cut, working, view, before>>

\* The network fails and tells nobody.
Cut(s) ==
  /\ s \in conns \ cut
  /\ cut' = cut \union {s}
  /\ UNCHANGED <<conns, alive, doomed, working, view, before>>

\* close: the server shuts down, and is started again with nothing.
Close ==
  /\ conns # {}
  /\ conns' = {} /\ alive' = {} /\ doomed' = {} /\ cut' = {} /\ working' = {}
  /\ view' = [s \in Sockets |-> Blank] /\ before' = [s \in Sockets |-> {}]

HubNext ==
  \/ \E s \in Sockets :
       \/ Register(s) \/ Unregister(s) \/ Pong(s) \/ Cut(s)
       \/ \E state \in {"working", "idle"} : Status(s, state)
  \/ \E u \in Users : AutoIdle(u)
  \/ PingAll
  \/ Close

HubSpec == HubInit /\ [][HubNext]_hub

-----------------------------------------------------------------------------
(* Correctness.                                                            *)

\* Only an agent that is online shows as working, in whatever order the
\* sockets of one user open, fail and close.
WorkingIsOnline == working \subseteq Agents \intersect Presence(conns)

\* Every connected client is shown exactly the users with an open socket.
PresenceExact ==
  \A s \in Hearing(conns) : view[s].online = Presence(conns)

\* Every connected client shows exactly the agents at work, except the runs
\* that were under way when it connected, which it is never told of.
PillsExact ==
  \A s \in Hearing(conns) : view[s].working = working \ before[s]
=============================================================================
