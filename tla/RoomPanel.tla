----------------------------- MODULE RoomPanel ------------------------------
(***************************************************************************)
(* The room a page shows, with its settings: what the server changes and   *)
(* broadcasts, the page's own PATCH, pause and summary calls, whose        *)
(* answers carry the room too, and the value shown while one is under way. *)
(*                                                                         *)
(* The room is the value of each field and the number of changes it has    *)
(* seen.  A call's answer is read in the handler that makes the change;    *)
(* it may arrive before or after the frame of that change, or not at all.  *)
(***************************************************************************)
EXTENDS Naturals, Sequences

CONSTANTS
  Fields,     \* settings, the pause of all agents, the summary
  Settings,   \* those that show at once what was applied
  Values,     \* what each may be
  Nothing,    \* no value, no room
  MaxChanges, \* bound: changes of the room
  MaxGreets   \* bound: connections

ASSUME RoomPanelAssumption ==
  Settings \subseteq Fields /\ Nothing \notin Values /\ MaxChanges \in Nat /\ MaxGreets \in Nat

VARIABLES
  room,       \* the room in the store
  panel,      \* the room the page has
  wire,       \* the socket: "off" until the page has loaded, "down", "up"
  rooms,      \* rooms in frames sent and not handled
  greets,     \* connections so far
  applying,   \* each field's call: its value, and the room answered
  optimistic, \* what each field shows meanwhile
  newest      \* changes the newest room had that the page has been told

panelVars == <<room, panel, wire, rooms, greets, applying, optimistic, newest>>

NoCall == [value |-> Nothing, answer |-> Nothing]

PanelInit ==
  /\ \E v \in Values : room = [changes |-> 0, at |-> [f \in Fields |-> v]]
  /\ panel = Nothing
  /\ wire = "off" /\ rooms = <<>> /\ greets = 0
  /\ applying = [f \in Fields |-> NoCall]
  /\ optimistic = [f \in Fields |-> Nothing]
  /\ newest = 0

-----------------------------------------------------------------------------
(* The server.                                                             *)

\* The row is written, and the room broadcast.
Changed(f, v) ==
  /\ room.changes < MaxChanges
  /\ room' = [changes |-> room.changes + 1, at |-> [room.at EXCEPT ![f] = v]]
  /\ rooms' = IF wire = "up" THEN Append(rooms, room') ELSE rooms

\* Another page, or another human.
ElseChanged(f, v) ==
  /\ Changed(f, v)
  /\ UNCHANGED <<panel, wire, greets, applying, optimistic, newest>>

Served(f) ==
  /\ applying[f].value # Nothing /\ applying[f].answer = Nothing
  /\ Changed(f, applying[f].value)
  /\ applying' = [applying EXCEPT ![f].answer = room']
  /\ UNCHANGED <<panel, wire, greets, optimistic, newest>>

-----------------------------------------------------------------------------
(* The page.                                                               *)

Takes(next) ==
  /\ panel' = next
  /\ newest' = IF next.changes > newest THEN next.changes ELSE newest

\* GET /rooms/:id, then the socket is started.
LoadRoom ==
  /\ panel = Nothing
  /\ Takes(room) /\ wire' = "down"
  /\ UNCHANGED <<room, rooms, greets, applying, optimistic>>

\* Mutant: the hello's room is not looked at.
Greet_Bare ==
  /\ wire = "down" /\ greets < MaxGreets
  /\ wire' = "up" /\ greets' = greets + 1 /\ rooms' = <<>>
  /\ UNCHANGED <<room, panel, applying, optimistic, newest>>

\* hello.
Greet ==
  /\ wire = "down" /\ greets < MaxGreets
  /\ wire' = "up" /\ greets' = greets + 1 /\ rooms' = <<room>>
  /\ UNCHANGED <<room, panel, applying, optimistic, newest>>

Hangup ==
  /\ wire = "up"
  /\ wire' = "down" /\ rooms' = <<>>
  /\ UNCHANGED <<room, panel, greets, applying, optimistic, newest>>

\* hello and room_updated.
TakeFrame ==
  /\ rooms # <<>>
  /\ Takes(Head(rooms)) /\ rooms' = Tail(rooms)
  /\ UNCHANGED <<room, wire, greets, applying, optimistic>>

\* One call of a field at a time: its controls are disabled meanwhile, as long as
\* the drawer stays open (closing it forgets the call; see README).  A setting
\* that is reset to its default goes on showing the old value.
Apply(f, v) ==
  /\ panel # Nothing /\ applying[f] = NoCall
  /\ applying' = [applying EXCEPT ![f].value = v]
  /\ \E overlay \in IF f \in Settings THEN {v, panel.at[f]} ELSE {Nothing} :
       optimistic' = [optimistic EXCEPT ![f] = overlay]
  /\ UNCHANGED <<room, panel, wire, rooms, greets, newest>>

Settles(f) ==
  /\ applying' = [applying EXCEPT ![f] = NoCall]
  /\ optimistic' = [optimistic EXCEPT ![f] = Nothing]
  /\ UNCHANGED <<room, wire, rooms, greets>>

Reconcile(f) ==
  /\ applying[f].answer # Nothing
  /\ Takes(applying[f].answer)
  /\ Settles(f)

\* Refused, or no answer, whatever the server did.
ApplyFails(f) ==
  /\ applying[f] # NoCall
  /\ Settles(f) /\ UNCHANGED <<panel, newest>>

PanelNext ==
  \/ LoadRoom \/ Greet \/ Hangup \/ TakeFrame
  \/ \E f \in Fields :
       \/ Served(f) \/ Reconcile(f) \/ ApplyFails(f)
       \/ \E v \in Values : ElseChanged(f, v) \/ Apply(f, v)

PanelSpec == PanelInit /\ [][PanelNext]_panelVars

-----------------------------------------------------------------------------
(* Correctness.                                                            *)

Shown == [f \in Fields |-> IF optimistic[f] = Nothing THEN panel.at[f] ELSE optimistic[f]]

\* A page that is connected and has nothing under way has been told of every
\* change, whatever failed or was missed, and shows the room as it is, with
\* nothing optimistic left; but an answer that a newer frame overtook hides
\* what it is older than until the next change (useRoomState.ts:421).
PanelAgrees ==
  wire = "up" /\ rooms = <<>> /\ (\A f \in Fields : applying[f] = NoCall)
    => /\ newest = room.changes
       /\ panel.changes = newest => Shown = room.at
=============================================================================
