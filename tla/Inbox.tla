-------------------------------- MODULE Inbox --------------------------------
(***************************************************************************)
(* The waiting tool of the MCP bridge, room_wait_for_new_messages, with    *)
(* the saved read cursor that the reading tool advances (mcp.ts).          *)
(*                                                                         *)
(* The tool listens to the socket only between its REST calls: a frame     *)
(* that is handled while an answer is under way reaches nobody.            *)
(***************************************************************************)
EXTENDS RoomFeed, FiniteSets

CONSTANT Limit  \* messages of the page that fetchPendingMessages asks for

ASSUME InboxAssumption == Limit \in Nat \ {0}

VARIABLES
  aside,    \* messages of the agent itself, or to others
  cursor,   \* last_read_message_id
  wait,     \* where the tool is
  from,     \* the cursor its GET started at
  upto,     \* the messages of the room when that GET was answered
  before,   \* pendingBefore
  unheard   \* (history) messages this wait cannot know of

tool == <<wait, from, upto, before, unheard>>
box == <<feed, aside, cursor, tool>>

Asking == wait \in {"snapshot", "catching"}
Answered == wait \in {"snapshotted", "caught"}

BoxInit ==
  /\ FeedInit
  /\ aside = {} /\ cursor = 0
  /\ wait = "none" /\ from = 0 /\ upto = 0 /\ before = {} /\ unheard = {}

Addressed == (1..count) \ aside

\* fetchPendingMessages: one page after the cursor it loaded.
Pending == Page(from, Limit, upto) \ aside

Open ==
  /\ link = "off" /\ Start
  /\ UNCHANGED <<count, status, frames, hellos, aside, cursor, tool>>

\* The call; it is refused when the socket has failed for good.
Call ==
  /\ wait = "none" /\ link # "off" /\ link # "denied"
  /\ wait' = "snapshot" /\ from' = cursor /\ unheard' = {}
  /\ UNCHANGED <<feed, aside, cursor, upto, before>>

\* The server answers the GET, before the answer arrives.
ServerAnswers ==
  /\ Asking
  /\ wait' = IF wait = "snapshot" THEN "snapshotted" ELSE "caught"
  /\ upto' = count
  /\ UNCHANGED <<feed, aside, cursor, from, before, unheard>>

\* Beyond a full page the GET shows nothing.
BeyondPage == {m \in 1..upto : m > from + Limit}

SnapshotLands ==
  /\ wait = "snapshotted"
  /\ wait' = "listening" /\ before' = Pending
  /\ unheard' = unheard \union BeyondPage
  /\ UNCHANGED <<feed, aside, cursor, from, upto>>

\* Something that was not pending before ends the wait.
CatchUpLands ==
  /\ wait = "caught"
  /\ wait' = IF Pending \subseteq before THEN "listening" ELSE "none"
  /\ unheard' = unheard \union BeyondPage
  /\ UNCHANGED <<feed, aside, cursor, from, upto, before>>

\* A failed catch-up is passed over; a failed snapshot ends the call.
GetBreaks ==
  /\ Asking \/ Answered
  /\ \/ /\ wait \in {"snapshot", "snapshotted"}
        /\ wait' = "none" /\ unheard' = unheard
     \/ /\ wait \in {"catching", "caught"}
        /\ wait' = "listening" /\ unheard' = unheard \union 1..count
  /\ UNCHANGED <<feed, aside, cursor, from, upto, before>>

-----------------------------------------------------------------------------
\* The deadline of at most 120 s.
TimedOut ==
  /\ wait = "listening" /\ wait' = "none"
  /\ UNCHANGED <<feed, aside, cursor, from, upto, before, unheard>>

\* Mutant: only messages are listened for.
Hears_MessagesOnly(f) ==
  \/ /\ f.type = "message" /\ f.id \notin aside
     /\ wait' = "none" /\ from' = from
  \/ f.type # "message" /\ UNCHANGED <<wait, from>>
  \/ f.type = "message" /\ f.id \in aside /\ UNCHANGED <<wait, from>>

\* waitFor's matcher: a message to this agent ends the wait, a hello makes it
\* ask for what was missed.
Hears(f) ==
  \/ /\ f.type = "message" /\ f.id \notin aside
     /\ wait' = "none" /\ from' = from
  \/ f.type = "hello" /\ wait' = "catching" /\ from' = cursor
  \/ f.type = "card" /\ UNCHANGED <<wait, from>>
  \/ f.type = "message" /\ f.id \in aside /\ UNCHANGED <<wait, from>>

\* What a frame tells that the answer under way does not: its message, or
\* with a hello those that came while the socket was down.
OnItsWay(m) == \E i \in 1..Len(frames) : frames[i] = MessageCreated(m)
Overheard(f) ==
  {m \in 1..count : m > upto /\ (f = MessageCreated(m) \/ (f = Hello /\ ~OnItsWay(m)))}

Handle ==
  /\ link = "up" /\ frames # <<>>
  /\ frames' = Tail(frames)
  /\ \/ wait = "listening" /\ Hears(Head(frames)) /\ unheard' = unheard
     \/ /\ Answered /\ unheard' = unheard \union Overheard(Head(frames))
        /\ UNCHANGED <<wait, from>>
     \/ /\ wait # "listening" /\ ~Answered
        /\ UNCHANGED <<wait, from, unheard>>
  /\ UNCHANGED <<count, status, link, hellos, aside, cursor, upto, before>>

\* room_read_messages: the newest message of any page, if it is newer.
ReadMessages ==
  /\ link # "off"
  /\ \E m \in 1..count : m > cursor /\ cursor' = m
  /\ UNCHANGED <<feed, aside, tool>>

\* The room and the socket.
Others ==
  /\ link # "off"
  /\ \/ Publish /\ aside' \in {aside, aside \union {count + 1}}
     \/ /\ \/ Connect \/ LoseLink \/ Deny
           \/ \E a \in Cards : OpenCard(a) \/ ResolveCard(a)
        /\ aside' = aside
  /\ UNCHANGED <<cursor, tool>>

BoxNext ==
  \/ Open \/ Call \/ ServerAnswers \/ SnapshotLands \/ CatchUpLands \/ GetBreaks
  \/ TimedOut \/ Handle \/ ReadMessages \/ Others

BoxSpec == BoxInit /\ [][BoxNext]_box

-----------------------------------------------------------------------------
(* Correctness.                                                            *)

\* A hello will come, and with it a catch-up.
CatchUpAhead == link = "down" \/ \E i \in 1..Len(frames) : frames[i] = Hello

\* While the tool listens, every message to the agent is one that was pending
\* before, was read since, is on its way or will be asked for: a wait that
\* times out on a working socket has let nothing pass but what came in the
\* instant a REST answer was under way, lay beyond a full page, or fell into
\* a catch-up that failed.
WaitLetsNothingPass ==
  wait = "listening" /\ link # "denied" =>
    \A m \in Addressed \ unheard :
      m \in before \/ m <= cursor \/ OnItsWay(m) \/ CatchUpAhead
=============================================================================
