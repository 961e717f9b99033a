------------------------------ MODULE RoomFeed ------------------------------
(***************************************************************************)
(* What the server offers one client of a room: the messages, numbered in  *)
(* the order of GET /messages, the approvals, and a socket whose frames    *)
(* come in order while it is open and are lost when it fails.              *)
(***************************************************************************)
EXTENDS Naturals, Sequences

CONSTANTS
  Cards,        \* approvals of the room
  MaxMessages,  \* bound: messages of the room
  MaxHellos     \* bound: connections

ASSUME FeedAssumption == MaxMessages \in Nat /\ MaxHellos \in Nat

VARIABLES
  count,   \* messages accepted
  status,  \* how each approval stands in the store
  link,    \* the socket
  frames,  \* sent on it and not yet handled
  hellos   \* connections so far

feed == <<count, status, link, frames, hellos>>

Statuses == {"none", "pending", "resolved", "expired"}

Hello == [type |-> "hello"]
MessageCreated(m) == [type |-> "message", id |-> m]
CardFrame(a, st) == [type |-> "card", id |-> a, status |-> st]

FeedInit ==
  /\ count = 0
  /\ status = [a \in Cards |-> "none"]
  /\ link = "off" /\ frames = <<>> /\ hellos = 0

Broadcast(sent) == frames' = IF link = "up" THEN frames \o sent ELSE frames

\* A message is accepted and broadcast.
Publish ==
  /\ count < MaxMessages
  /\ count' = count + 1
  /\ Broadcast(<<MessageCreated(count + 1)>>)
  /\ UNCHANGED <<status, link, hellos>>

\* An approval is opened, and that is broadcast.
OpenCard(a) ==
  /\ status[a] = "none"
  /\ status' = [status EXCEPT ![a] = "pending"]
  /\ Broadcast(<<CardFrame(a, "pending")>>)
  /\ UNCHANGED <<count, link, hellos>>

\* It is answered: broadcast, and told to the room by a system message.
ResolveCard(a) ==
  /\ status[a] = "pending" /\ count < MaxMessages
  /\ status' = [status EXCEPT ![a] = "resolved"]
  /\ count' = count + 1
  /\ Broadcast(<<CardFrame(a, "resolved"), MessageCreated(count + 1)>>)
  /\ UNCHANGED <<link, hellos>>

\* withLazyExpiry: a read finds it late.  No frame tells of it.
LapseCard(a) ==
  /\ status[a] = "pending"
  /\ status' = [status EXCEPT ![a] = "expired"]
  /\ UNCHANGED <<count, link, frames, hellos>>

\* start and connect; the hub registers the socket and greets it.
Start == link' = "down"
Connect ==
  /\ link = "down" /\ hellos < MaxHellos
  /\ link' = "up" /\ frames' = <<Hello>> /\ hellos' = hellos + 1
  /\ UNCHANGED <<count, status>>

\* The socket closes, on any code but the three that deny; it is reopened.
LoseLink ==
  /\ link = "up"
  /\ link' = "down" /\ frames' = <<>>
  /\ UNCHANGED <<count, status, hellos>>

\* 4001, 4003 or 4004: it is not reopened.
Deny ==
  /\ link \in {"up", "down"}
  /\ link' = "denied" /\ frames' = <<>>
  /\ UNCHANGED <<count, status, hellos>>

\* What GET /messages answers when the room has n messages.
Page(after, limit, n) == {m \in 1..n : after < m /\ m <= after + limit}
=============================================================================
