----------------------------- MODULE MCActivity -----------------------------
(* Either the hub alone, which two sockets of an agent and one of a human  *)
(* may use in any way, or the hub of an agent's two bridge processes.      *)
EXTENDS Activity

CONSTANTS bot, human, b1, b2, s1, s2, s3, h1

MCUserOf == [s \in Sockets |-> IF s = h1 THEN human ELSE bot]
MCOwnerOf == [s \in Sockets \ {h1} |-> IF s = s3 THEN b2 ELSE b1]
MCAgentOf == [b \in Bridges |-> bot]

VARIABLE bridged  \* whether the bridges are there

vars == <<avars, bridged>>

\* The sockets of the hub alone.
Plain == {s1, s2, h1}

HubAlone ==
  /\ HubNext
  /\ conns' \subseteq Plain
  /\ UNCHANGED <<uplink, tracker, link>>

MCInit == Init /\ bridged \in BOOLEAN

MCNext ==
  /\ UNCHANGED bridged
  /\ \/ ~bridged /\ HubAlone
     \/ bridged /\ Next

MCSpec == MCInit /\ [][MCNext]_vars /\ (bridged => Fairness)

\* A connection whose link is gone is dropped: nobody stays online for ever
\* by a socket that carries nothing.
HalfOpenIsDropped == bridged /\ cut # {} ~> cut = {}
=============================================================================
