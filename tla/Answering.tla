----------------------------- MODULE Answering ------------------------------
(***************************************************************************)
(* What an auto-responder promises: it looks at the messages of the room   *)
(* in their order and at each one once, across crashes; it works on one    *)
(* question at a time, the last one it looked at; and every reply it posts *)
(* belongs to the question it is working on.                               *)
(***************************************************************************)
EXTENDS Integers

VARIABLES
  looked,   \* messages up to this one have been looked at
  working,  \* it is working on message `looked`
  replies   \* the questions its replies belong to, by their places in the room

answering == <<looked, working, replies>>

AnsweringInit == looked \in Nat /\ working = FALSE /\ replies = [place \in {} |-> 0]

\* It looks at the next message and leaves it, or starts to work on it.
Look ==
  /\ ~working
  /\ looked' = looked + 1 /\ working' \in BOOLEAN
  /\ UNCHANGED replies

\* With nothing remembered it starts at the end of the room.
Join ==
  /\ ~working /\ looked = 0
  /\ looked' \in Nat
  /\ UNCHANGED <<working, replies>>

\* A reply of the question in work.  One whose answer was lost may be posted
\* again, so the work need not end with it.
Reply ==
  /\ working /\ working' \in BOOLEAN
  /\ \E last \in DOMAIN replies' :
       /\ \A place \in DOMAIN replies : place < last
       /\ replies' = [place \in DOMAIN replies \union {last} |->
                        IF place = last THEN looked ELSE replies[place]]
  /\ UNCHANGED looked

\* The work ends without a reply.
GiveUp ==
  /\ working /\ working' = FALSE
  /\ UNCHANGED <<looked, replies>>

AnsweringSpec == AnsweringInit /\ [][Look \/ Join \/ Reply \/ GiveUp]_answering
=============================================================================
