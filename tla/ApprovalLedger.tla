-------------------------- MODULE ApprovalLedger --------------------------
(***************************************************************************)
(* What an approval promises, whoever reads it and whenever: the human's   *)
(* answer is about the terms it was opened with, is given at most once and *)
(* only within the time to live, lapses only after it, and is spent only   *)
(* when it was a yes.  Uploads.tla is shown to implement this module.      *)
(***************************************************************************)
EXTENDS Naturals

CONSTANTS Approvals,  \* approval ids
          Terms,      \* what can be asked: who, what kind, which file
          TTL,        \* how long an open approval can be decided
          Nothing     \* the terms of an approval nobody opened

VARIABLES clock,      \* the time
          terms,      \* what each approval was opened for
          opened,     \* when
          answer,     \* how it stands
          spent       \* the approvals used for an upload

ledger == <<clock, terms, opened, answer, spent>>

Late(a) == clock - opened[a] > TTL

LedgerInit ==
  /\ clock = 0
  /\ terms = [a \in Approvals |-> Nothing]
  /\ opened = [a \in Approvals |-> 0]
  /\ answer = [a \in Approvals |-> "none"]
  /\ spent = {}

Advance ==
  /\ clock' = clock + 1
  /\ UNCHANGED <<terms, opened, answer, spent>>

Open(a, t) ==
  /\ answer[a] = "none"
  /\ answer' = [answer EXCEPT ![a] = "pending"]
  /\ terms' = [terms EXCEPT ![a] = t]
  /\ opened' = [opened EXCEPT ![a] = clock]
  /\ UNCHANGED <<clock, spent>>

Decide(a, d) ==
  /\ answer[a] = "pending" /\ ~Late(a)
  /\ answer' = [answer EXCEPT ![a] = d]
  /\ UNCHANGED <<clock, terms, opened, spent>>

Lapse(S) ==
  /\ \A a \in S : answer[a] = "pending" /\ Late(a)
  /\ answer' = [a \in Approvals |-> IF a \in S THEN "expired" ELSE answer[a]]
  /\ UNCHANGED <<clock, terms, opened, spent>>

Spend(a) ==
  /\ answer[a] = "approved"
  /\ spent' = spent \union {a}
  /\ UNCHANGED <<clock, terms, opened, answer>>

LedgerNext ==
  \/ Advance
  \/ \E a \in Approvals :
       \/ \E t \in Terms : Open(a, t)
       \/ \E d \in {"approved", "denied"} : Decide(a, d)
       \/ Spend(a)
  \/ \E S \in SUBSET Approvals : Lapse(S)

LedgerSpec == LedgerInit /\ [][LedgerNext]_ledger
=============================================================================
