-------------------------- MODULE ResponderProofs ---------------------------
(* The auto-responder: it keeps its promise, repeats a reply only for a     *)
(* network error, and leaves nothing of a killed engine, for every grace,   *)
(* slack, number of retries and turn limit.                                 *)
EXTENDS Responder, FiniteSetTheorems, TLAPS

-----------------------------------------------------------------------------
(* The inductive invariant.                                                 *)

\* A child that is up is of a run that is not settled, and the flush grace is
\* one of a run whose child went first.
EngineInv ==
  /\ EngineTypeOK /\ KilledGroupGone
  /\ child = "up" => Running
  /\ flush # Off => Running /\ child = "dead"

\* The SIGKILL of a child that is up comes before the deadline of a shutdown,
\* which has not begun to run while a run may yet be started.
DeadlineInv ==
  /\ (deadline = Off) = (bridge # "stopping")
  /\ bridge = "stopping" /\ child = "up" => hard # Off /\ hard < deadline
  /\ bridge = "stopping" /\ pc = "check" => deadline = Grace + Slack

\* There are replies to questions up to the cursor only, and none to a question
\* for which the engine is still to be heard.
RepliesInv ==
  /\ \A n \in 1..Last : Mine(n) => msgs[n].re \in 1..cursor
  /\ pc \in {"check", "engine"} => RepliesTo(cursor) = {}
  /\ OnlyErrorsRepeat

ResponderInv == TypeOK /\ EngineInv /\ DeadlineInv /\ RepliesInv

-----------------------------------------------------------------------------
(* The engine run.                                                          *)

LEMMA TimersAreNumbers == Off \notin Nat /\ 0 # Off /\ Grace # Off /\ Flush # Off
BY EngineRunAssumption

LEMMA TimerValues ==
  \A max \in Nat : 0 \in Timer(max) /\ max \in Timer(max) /\ Off \in Timer(max)
BY DEF Timer

LEMMA SpawnKeeps ==
  ASSUME EngineInv, NEW aborted \in BOOLEAN, Spawn(aborted)
  PROVE  EngineInv'
<1> USE EngineRunAssumption, TimersAreNumbers
<1>1. hard' \in Timer(Grace) /\ flush' \in Timer(Flush)
  BY TimerValues DEF Spawn
<1>2. EngineTypeOK' BY <1>1 DEF EngineTypeOK, Spawn
<1> QED BY <1>2 DEF EngineInv, KilledGroupGone, Spawn, Running

LEMMA TakeKeeps ==
  ASSUME EngineInv, Take
  PROVE  EngineInv'
<1>1. EngineTypeOK' BY DEF EngineInv, EngineTypeOK, Take
<1> QED BY <1>1 DEF EngineInv, KilledGroupGone, Take, Running

LEMMA AbortKeeps ==
  ASSUME EngineInv, Abort
  PROVE  EngineInv'
<1> USE EngineRunAssumption, TimersAreNumbers
<1>1. CASE Running
  <2>1. EngineTypeOK'
    BY <1>1, TimerValues DEF EngineInv, EngineTypeOK, Abort, Kill, Escalated
  <2> QED BY <1>1, <2>1 DEF EngineInv, KilledGroupGone, Abort, Kill, Escalated, Running
<1>2. CASE ~Running
  BY <1>2 DEF EngineInv, EngineTypeOK, KilledGroupGone, Abort, Running, engineVars
<1> QED BY <1>1, <1>2

LEMMA EngineStepKeeps ==
  ASSUME EngineInv, EngineStep
  PROVE  /\ EngineInv'
         /\ child' = "up" => child = "up" /\ (hard # Off => hard' = hard)
         /\ (settled' = "none") = (settled = "none")
         /\ child' # "none" => child # "none" \/ settled # "none"
<1> USE EngineRunAssumption, TimersAreNumbers
<1>1. EngineTypeOK /\ KilledGroupGone
      /\ (child = "up" => Running) /\ (flush # Off => Running /\ child = "dead")
  BY DEF EngineInv
<1>2. CASE Fork
  BY <1>1, <1>2 DEF Fork, EngineInv, EngineTypeOK, KilledGroupGone, Running
<1>3. CASE ChildExits
  <2>1. EngineTypeOK' BY <1>1, <1>3, TimerValues DEF ChildExits, EngineTypeOK
  <2> QED BY <1>1, <1>3, <2>1 DEF ChildExits, EngineInv, KilledGroupGone, Running
<1>4. CASE HelperExits
  BY <1>1, <1>4 DEF HelperExits, EngineInv, EngineTypeOK, KilledGroupGone, Running
<1>5. CASE PipesClose
  <2>1. EngineTypeOK' BY <1>1, <1>5 DEF PipesClose, Settle, Verdict, EngineTypeOK, Timer
  <2> QED
    BY <1>1, <1>5, <2>1
    DEF PipesClose, Settle, Verdict, EngineInv, KilledGroupGone, Running
<1>6. CASE FlushEnds
  <2>1. EngineTypeOK' BY <1>1, <1>6 DEF FlushEnds, Settle, Verdict, EngineTypeOK, Timer
  <2> QED
    BY <1>1, <1>6, <2>1
    DEF FlushEnds, Settle, Verdict, EngineInv, KilledGroupGone, Running
<1>7. CASE TimeLimit
  <2>1. EngineTypeOK' BY <1>1, <1>7, TimerValues DEF TimeLimit, Kill, Escalated, EngineTypeOK
  <2> QED
    BY <1>1, <1>7, <2>1
    DEF TimeLimit, Kill, Escalated, EngineInv, KilledGroupGone, Running
<1>8. CASE HardKill
  <2>1. EngineTypeOK' BY <1>1, <1>8, TimerValues DEF HardKill, GroupDies, EngineTypeOK
  <2> QED
    BY <1>1, <1>8, <2>1 DEF HardKill, GroupDies, EngineInv, KilledGroupGone, Running
<1>9. CASE OutputCap
  <2>1. EngineTypeOK' BY <1>1, <1>9 DEF OutputCap, Settle, EngineTypeOK, Timer
  <2> QED BY <1>1, <1>9, <2>1 DEF OutputCap, Settle, EngineInv, KilledGroupGone, Running
<1> QED BY <1>2, <1>3, <1>4, <1>5, <1>6, <1>7, <1>8, <1>9 DEF EngineStep

LEMMA PassesKeeps ==
  ASSUME EngineInv, EnginePasses
  PROVE  EngineInv'
<1> USE EngineRunAssumption, TimersAreNumbers
<1>1. hard # 0 /\ flush # 0 BY DEF EnginePasses, Due
<1>2. hard' \in Timer(Grace) /\ (hard' = Off) = (hard = Off)
  BY <1>1 DEF EngineInv, EngineTypeOK, EnginePasses, Down, Timer
<1>3. flush' \in Timer(Flush) /\ (flush' = Off) = (flush = Off)
  BY <1>1 DEF EngineInv, EngineTypeOK, EnginePasses, Down, Timer
<1> QED
  BY <1>2, <1>3 DEF EngineInv, EngineTypeOK, EnginePasses, KilledGroupGone, Running

-----------------------------------------------------------------------------
(* The room and the replies in it.                                          *)

\* The room only grows, and what is in it stays.
LEMMA StoreAppends ==
  ASSUME TypeOK, NEW kind \in Kinds \union {"mine"}, NEW re \in Nat, Store(kind, re)
  PROVE  /\ msgs' \in Seq([kind : Kinds \union {"mine"}, re : Nat])
         /\ Last \in Nat /\ Last' = Last + 1 /\ Last' <= MaxMessages
         /\ \A n \in 1..Last : msgs'[n] = msgs[n]
         /\ msgs'[Last + 1].kind = kind /\ msgs'[Last + 1].re = re
         /\ heard' \in 0..Last'
<1> USE ResponderAssumption
<1>1. msgs \in Seq([kind : Kinds \union {"mine"}, re : Nat]) /\ heard \in 0..Last
  BY DEF TypeOK
<1>2. msgs' = Append(msgs, [kind |-> kind, re |-> re]) /\ Len(msgs) + 1 <= MaxMessages
  BY <1>1 DEF Store, Last
<1> QED BY <1>1, <1>2 DEF Store, Last

\* What others post is no reply.
LEMMA OthersAreNotMine == "mine" \notin Kinds
BY ResponderAssumption

LEMMA RepliesAreFinite ==
  ASSUME TypeOK
  PROVE  \A q : IsFiniteSet(RepliesTo(q)) /\ Cardinality(RepliesTo(q)) \in Nat
<1> TAKE q
<1>1. Last \in Nat BY DEF TypeOK, Last
<1>2. IsFiniteSet(1..Last) BY <1>1, FS_Interval
<1>3. RepliesTo(q) \in SUBSET (1..Last) BY DEF RepliesTo
<1>4. IsFiniteSet(RepliesTo(q)) BY <1>2, <1>3, FS_Subset
<1> QED BY <1>4, FS_CardinalityType

LEMMA OthersAddNone ==
  ASSUME TypeOK, NEW kind \in Kinds, Store(kind, 0)
  PROVE  \A q : RepliesTo(q)' = RepliesTo(q)
<1> TAKE q
<1>1. Last \in Nat /\ Last' = Last + 1 /\ msgs'[Last + 1].kind = kind
      /\ \A n \in 1..Last : msgs'[n] = msgs[n]
  BY StoreAppends
<1>2. \A n \in 1..Last' : n \in 1..Last \/ n = Last + 1 BY <1>1
<1>3. 1..Last \subseteq 1..Last' BY <1>1
<1> QED BY <1>1, <1>2, <1>3, OthersAreNotMine DEF RepliesTo, Mine

LEMMA ReplyAddsOne ==
  ASSUME TypeOK, Store("mine", cursor)
  PROVE  \A q : /\ RepliesTo(q)' = IF q = cursor THEN RepliesTo(q) \union {Last + 1}
                                                 ELSE RepliesTo(q)
                /\ Cardinality(RepliesTo(q)') = IF q = cursor
                                                THEN Cardinality(RepliesTo(q)) + 1
                                                ELSE Cardinality(RepliesTo(q))
<1> TAKE q
<1>1. cursor \in Nat BY DEF TypeOK, Last
<1>2. /\ Last \in Nat /\ Last' = Last + 1
      /\ msgs'[Last + 1].kind = "mine" /\ msgs'[Last + 1].re = cursor
      /\ \A n \in 1..Last : msgs'[n] = msgs[n]
  BY <1>1, StoreAppends
<1>3. \A n \in 1..Last' : n \in 1..Last \/ n = Last + 1 BY <1>2
<1>4. 1..Last \subseteq 1..Last' /\ Last + 1 \in 1..Last' /\ Last + 1 \notin 1..Last
  BY <1>2
<1>5. RepliesTo(q)' = IF q = cursor THEN RepliesTo(q) \union {Last + 1} ELSE RepliesTo(q)
  BY <1>2, <1>3, <1>4 DEF RepliesTo, Mine
<1>6. Last + 1 \notin RepliesTo(q) BY <1>4 DEF RepliesTo
<1>7. IsFiniteSet(RepliesTo(q)) BY RepliesAreFinite
<1>8. Cardinality(RepliesTo(q) \union {Last + 1}) = Cardinality(RepliesTo(q)) + 1
  BY <1>6, <1>7, FS_AddElement
<1> QED BY <1>5, <1>8

-----------------------------------------------------------------------------
(* What most steps leave alone.                                             *)

LEMMA EngineUntouched ==
  ASSUME ResponderInv, UNCHANGED <<engineVars, bridge, deadline>>,
         pc' = "check" => pc = "check" \/ bridge # "stopping"
  PROVE  EngineInv' /\ DeadlineInv'
<1>1. EngineInv'
  BY DEF ResponderInv, EngineInv, EngineTypeOK, KilledGroupGone, Running, engineVars
<1> QED BY <1>1 DEF ResponderInv, DeadlineInv, engineVars

\* With the room and the cursor the replies stay, and a retry is only counted.
LEMMA RepliesUntouched ==
  ASSUME ResponderInv, UNCHANGED <<msgs, cursor>>, net' \in Nat,
         InFlight' => (InFlight /\ net <= net')
                      \/ pc \in {"check", "engine"},
         pc' \in {"check", "engine"} => pc \in {"check", "engine"}
  PROVE  RepliesInv'
<1>1. TypeOK /\ RepliesInv BY DEF ResponderInv
<1>2. \A q : RepliesTo(q)' = RepliesTo(q) BY DEF RepliesTo, Mine, Last
<1>3. Cardinality(RepliesTo(cursor)) \in Nat BY <1>1, RepliesAreFinite
<1>4. InFlight' => Cardinality(RepliesTo(cursor)) <= net'
  <2>1. CASE pc \in {"check", "engine"}
    <3>1. Cardinality(RepliesTo(cursor)) = 0
      BY <1>1, <2>1, FS_EmptySet DEF RepliesInv
    <3> QED BY <3>1
  <2>2. ASSUME InFlight, net <= net' PROVE Cardinality(RepliesTo(cursor)) <= net'
    BY <1>1, <1>3, <2>2 DEF RepliesInv, OnlyErrorsRepeat, TypeOK
  <2> QED BY <2>1, <2>2
<1>5. OnlyErrorsRepeat'
  BY <1>1, <1>2, <1>4 DEF RepliesInv, OnlyErrorsRepeat
<1>6. \A n \in 1..Last' : Mine(n)' => msgs'[n].re \in 1..cursor'
  BY <1>1 DEF RepliesInv, Mine, Last
<1>7. pc' \in {"check", "engine"} => RepliesTo(cursor)' = {}
  BY <1>1, <1>2 DEF RepliesInv
<1> QED BY <1>5, <1>6, <1>7 DEF RepliesInv

-----------------------------------------------------------------------------
(* The steps that touch neither the engine nor the messages.                *)

LEMMA TypesUntouched ==
  ASSUME ResponderInv, UNCHANGED <<engineVars, msgs, bridge, cursor, deadline>>,
         paused' \in BOOLEAN, link' \in BOOLEAN, heard' \in 0..Last,
         pc' \in Places, (pc' = "off") = (pc = "off"),
         batchEnd' \in cursor..Last, baseline' \in 0..Last, net' \in 0..MaxNet,
         InFlight' => InFlight, settled # "none" => pc' = "engine"
  PROVE  TypeOK'
<1>1. Last' = Last /\ cursor' \in 0..batchEnd' /\ batchEnd' \in 0..Last
  BY DEF ResponderInv, TypeOK, Last
<1> QED
  BY <1>1
  DEF ResponderInv, TypeOK, engineVars, EngineTypeOK, Mine, RespondsTo, Timer, Last

LEMMA QuietStepsKeep ==
  ASSUME ResponderInv,
         \/ \E on \in BOOLEAN : Pause(on)
         \/ LinkDown \/ LinkUp \/ Deliver \/ Fetch \/ IdleTimeout \/ BatchDone
         \/ Skip \/ PostUnreached \/ PostRefused \/ PostGivenUp \/ PollForHuman
  PROVE  ResponderInv'
<1>1. TypeOK /\ EngineInv /\ DeadlineInv /\ RepliesInv BY DEF ResponderInv
<1>2. Last \in Nat /\ net \in 0..MaxNet /\ cursor \in 0..batchEnd /\ batchEnd \in 0..Last
      /\ heard \in 0..Last /\ (settled # "none" => pc = "engine")
      /\ (pc = "off") = (bridge = "down")
  BY <1>1 DEF TypeOK, Last
<1>3. Last \in 0..Last /\ cursor \in 0..Last /\ batchEnd \in cursor..Last /\ MaxNet \in Nat
  BY <1>2, ResponderAssumption
<1>4. ASSUME NEW on \in BOOLEAN, Pause(on) PROVE ResponderInv'
  <2>1. TypeOK'
    BY <1>1, <1>2, <1>3, <1>4, TypesUntouched
    DEF Pause, TypeOK, Places, InFlight, room, stream, loop
  <2>2. EngineInv' /\ DeadlineInv'
    BY <1>4, EngineUntouched DEF Pause
  <2>3. RepliesInv'
    BY <1>1, <1>2, <1>3, <1>4, RepliesUntouched
    DEF Pause, InFlight, room, loop
  <2> QED BY <2>1, <2>2, <2>3 DEF ResponderInv
<1>5. CASE LinkDown
  <2>1. TypeOK'
    BY <1>1, <1>2, <1>3, <1>5, TypesUntouched
    DEF LinkDown, TypeOK, Places, InFlight, room, stream, loop
  <2>2. EngineInv' /\ DeadlineInv'
    BY <1>5, EngineUntouched DEF LinkDown
  <2>3. RepliesInv'
    BY <1>1, <1>2, <1>3, <1>5, RepliesUntouched
    DEF LinkDown, InFlight, room, loop
  <2> QED BY <2>1, <2>2, <2>3 DEF ResponderInv
<1>6. CASE LinkUp
  <2>1. TypeOK'
    BY <1>1, <1>2, <1>3, <1>6, TypesUntouched
    DEF LinkUp, TypeOK, Places, InFlight, room, stream, loop
  <2>2. EngineInv' /\ DeadlineInv'
    BY <1>6, EngineUntouched DEF LinkUp
  <2>3. RepliesInv'
    BY <1>1, <1>2, <1>3, <1>6, RepliesUntouched
    DEF LinkUp, InFlight, room, loop
  <2> QED BY <2>1, <2>2, <2>3 DEF ResponderInv
<1>7. CASE Deliver
  <2>1. TypeOK'
    BY <1>1, <1>2, <1>3, <1>7, TypesUntouched
    DEF Deliver, TypeOK, Places, InFlight, room, stream, loop
  <2>2. EngineInv' /\ DeadlineInv'
    BY <1>7, EngineUntouched DEF Deliver
  <2>3. RepliesInv'
    BY <1>1, <1>2, <1>3, <1>7, RepliesUntouched
    DEF Deliver, InFlight, room, loop
  <2> QED BY <2>1, <2>2, <2>3 DEF ResponderInv
<1>8. CASE Fetch
  <2>1. TypeOK'
    BY <1>1, <1>2, <1>3, <1>8, TypesUntouched
    DEF Fetch, TypeOK, Places, InFlight, room, stream, loop
  <2>2. EngineInv' /\ DeadlineInv'
    BY <1>8, EngineUntouched DEF Fetch
  <2>3. RepliesInv'
    BY <1>1, <1>2, <1>3, <1>8, RepliesUntouched
    DEF Fetch, InFlight, room, loop
  <2> QED BY <2>1, <2>2, <2>3 DEF ResponderInv
<1>9. CASE IdleTimeout
  <2>1. TypeOK'
    BY <1>1, <1>2, <1>3, <1>9, TypesUntouched
    DEF IdleTimeout, TypeOK, Places, InFlight, room, stream, loop
  <2>2. EngineInv' /\ DeadlineInv'
    BY <1>9, EngineUntouched DEF IdleTimeout
  <2>3. RepliesInv'
    BY <1>1, <1>2, <1>3, <1>9, RepliesUntouched
    DEF IdleTimeout, InFlight, room, loop
  <2> QED BY <2>1, <2>2, <2>3 DEF ResponderInv
<1>10. CASE BatchDone
  <2>1. TypeOK'
    BY <1>1, <1>2, <1>3, <1>10, TypesUntouched
    DEF BatchDone, TypeOK, Places, InFlight, room, stream, loop
  <2>2. EngineInv' /\ DeadlineInv'
    BY <1>10, EngineUntouched DEF BatchDone
  <2>3. RepliesInv'
    BY <1>1, <1>2, <1>3, <1>10, RepliesUntouched
    DEF BatchDone, InFlight, room, loop
  <2> QED BY <2>1, <2>2, <2>3 DEF ResponderInv
<1>11. CASE Skip
  <2>1. TypeOK'
    BY <1>1, <1>2, <1>3, <1>11, TypesUntouched
    DEF Skip, TypeOK, Places, InFlight, room, stream, loop
  <2>2. EngineInv' /\ DeadlineInv'
    BY <1>11, EngineUntouched DEF Skip
  <2>3. RepliesInv'
    BY <1>1, <1>2, <1>3, <1>11, RepliesUntouched
    DEF Skip, InFlight, room, loop
  <2> QED BY <2>1, <2>2, <2>3 DEF ResponderInv
<1>12. CASE PostUnreached
  <2>1. TypeOK'
    BY <1>1, <1>2, <1>3, <1>12, TypesUntouched
    DEF PostUnreached, Posting, NetworkError, TypeOK, Places, InFlight, room, stream, loop
  <2>2. EngineInv' /\ DeadlineInv'
    BY <1>12, EngineUntouched DEF PostUnreached, Posting, NetworkError
  <2>3. RepliesInv'
    BY <1>1, <1>2, <1>3, <1>12, RepliesUntouched
    DEF PostUnreached, Posting, NetworkError, InFlight, room, loop
  <2> QED BY <2>1, <2>2, <2>3 DEF ResponderInv
<1>13. CASE PostRefused
  <2>1. TypeOK'
    BY <1>1, <1>2, <1>3, <1>13, TypesUntouched
    DEF PostRefused, Posting, TypeOK, Places, InFlight, room, stream, loop
  <2>2. EngineInv' /\ DeadlineInv'
    BY <1>13, EngineUntouched DEF PostRefused, Posting
  <2>3. RepliesInv'
    BY <1>1, <1>2, <1>3, <1>13, RepliesUntouched
    DEF PostRefused, Posting, InFlight, room, loop
  <2> QED BY <2>1, <2>2, <2>3 DEF ResponderInv
<1>14. CASE PostGivenUp
  <2>1. TypeOK'
    BY <1>1, <1>2, <1>3, <1>14, TypesUntouched
    DEF PostGivenUp, TypeOK, Places, InFlight, room, stream, loop
  <2>2. EngineInv' /\ DeadlineInv'
    BY <1>14, EngineUntouched DEF PostGivenUp
  <2>3. RepliesInv'
    BY <1>1, <1>2, <1>3, <1>14, RepliesUntouched
    DEF PostGivenUp, InFlight, room, loop
  <2> QED BY <2>1, <2>2, <2>3 DEF ResponderInv
<1>15. CASE PollForHuman
  <2>1. TypeOK'
    BY <1>1, <1>2, <1>3, <1>15, TypesUntouched
    DEF PollForHuman, TypeOK, Places, InFlight, room, stream, loop
  <2>2. EngineInv' /\ DeadlineInv'
    BY <1>15, EngineUntouched DEF PollForHuman
  <2>3. RepliesInv'
    BY <1>1, <1>2, <1>3, <1>15, RepliesUntouched
    DEF PollForHuman, InFlight, room, loop
  <2> QED BY <2>1, <2>2, <2>3 DEF ResponderInv
<1> QED BY <1>4, <1>5, <1>6, <1>7, <1>8, <1>9, <1>10, <1>11, <1>12, <1>13, <1>14, <1>15

-----------------------------------------------------------------------------
(* The steps that do.                                                       *)

LEMMA SpeakKeeps ==
  ASSUME ResponderInv, NEW kind \in Kinds, Speak(kind)
  PROVE  ResponderInv'
<1>1. TypeOK /\ RepliesInv BY DEF ResponderInv
<1>2. Store(kind, 0) /\ kind # "mine" BY OthersAreNotMine DEF Speak
<1>3. /\ msgs' \in Seq([kind : Kinds \union {"mine"}, re : Nat])
      /\ Last \in Nat /\ Last' = Last + 1 /\ Last' <= MaxMessages
      /\ \A n \in 1..Last : msgs'[n] = msgs[n]
      /\ msgs'[Last + 1].kind = kind /\ heard' \in 0..Last'
  BY <1>1, <1>2, StoreAppends
<1>4. \A n \in 1..Last' : Mine(n)' => n \in 1..Last /\ Mine(n)
  BY <1>2, <1>3 DEF Mine
<1>5. \A n \in 1..Last : Mine(n) => msgs[n].re \in 1..n - 1 /\ RespondsTo(msgs[n].re)
                                    /\ msgs[n].re \in 1..cursor
  BY <1>1 DEF TypeOK, RepliesInv
<1>6. \A n \in 1..Last : Mine(n) => msgs'[n] = msgs[n] /\ msgs'[msgs[n].re] = msgs[msgs[n].re]
  <2>1. SUFFICES ASSUME NEW n \in 1..Last, Mine(n)
                 PROVE  msgs'[n] = msgs[n] /\ msgs'[msgs[n].re] = msgs[msgs[n].re]
    OBVIOUS
  <2>2. msgs[n].re \in 1..n - 1 BY <1>5, <2>1
  <2>3. msgs[n].re \in 1..Last BY <1>3, <2>1, <2>2
  <2> QED BY <1>3, <2>1, <2>3
<1>7. \A n \in 1..Last' : Mine(n)' =>
        (msgs[n].re \in 1..n - 1 /\ RespondsTo(msgs[n].re))' /\ msgs'[n].re \in 1..cursor
  BY <1>4, <1>5, <1>6 DEF RespondsTo
<1>8. /\ cursor \in 0..batchEnd /\ batchEnd \in 0..Last
      /\ (InFlight => cursor > 0 /\ RespondsTo(cursor))
  BY <1>1 DEF TypeOK
<1>9. /\ UNCHANGED <<cursor, batchEnd, baseline, net, pc, bridge, paused, link, deadline>>
      /\ UNCHANGED engineVars
  BY DEF Speak, loop
<1>10. InFlight' => cursor' > 0 /\ RespondsTo(cursor)'
  BY <1>3, <1>8, <1>9 DEF InFlight, RespondsTo
<1>11. TypeOK'
  <2>1. cursor' \in 0..batchEnd' /\ batchEnd' \in 0..Last' /\ baseline' \in 0..Last'
    BY <1>1, <1>3, <1>8, <1>9 DEF TypeOK
  <2>2. EngineTypeOK' BY <1>1, <1>9 DEF TypeOK, EngineTypeOK, engineVars
  <2> QED BY <1>1, <1>3, <1>7, <1>9, <1>10, <2>1, <2>2 DEF TypeOK, engineVars
<1>12. EngineInv' /\ DeadlineInv' BY <1>9, EngineUntouched
<1>13. \A q : RepliesTo(q)' = RepliesTo(q) BY <1>1, <1>2, OthersAddNone
<1>14. RepliesInv'
  BY <1>1, <1>7, <1>9, <1>13 DEF RepliesInv, OnlyErrorsRepeat, Mine, InFlight
<1> QED BY <1>11, <1>12, <1>14 DEF ResponderInv

LEMMA StartKeeps ==
  ASSUME ResponderInv, Start
  PROVE  ResponderInv'
<1>1. TypeOK /\ RepliesInv BY DEF ResponderInv
<1>2. Last \in Nat /\ cursor \in 0..Last BY <1>1 DEF TypeOK, Last
<1>3. /\ UNCHANGED <<msgs, paused, link, heard, baseline, net, deadline>>
      /\ UNCHANGED engineVars
      /\ pc = "off" /\ pc' = "fetch" /\ bridge' = "up"
      /\ cursor' \in 0..Last /\ cursor <= cursor' /\ batchEnd' = cursor'
      /\ (cursor # 0 => cursor' = cursor)
  BY <1>2 DEF Start, room, stream
<1>4. TypeOK'
  <2>1. cursor' \in 0..batchEnd' /\ batchEnd' \in 0..Last' BY <1>2, <1>3 DEF Last
  <2> QED
    BY <1>1, <1>3, <2>1
    DEF TypeOK, EngineTypeOK, engineVars, Timer, Mine, RespondsTo, Last, Places, InFlight
<1>5. EngineInv'
  BY <1>3 DEF ResponderInv, EngineInv, EngineTypeOK, KilledGroupGone, Running, engineVars
<1>6. DeadlineInv'
  <2>1. bridge = "down" BY <1>1, <1>3 DEF TypeOK
  <2> QED BY <1>3, <2>1 DEF ResponderInv, DeadlineInv
<1>7. \A q : RepliesTo(q)' = RepliesTo(q) BY <1>3 DEF RepliesTo, Mine, Last
<1>8. \A n \in 1..Last : Mine(n) => msgs[n].re \in 1..cursor BY <1>1 DEF RepliesInv
<1>9. \A q \in 1..cursor' : Cardinality(RepliesTo(q)) <= MaxNet + 1
  <2>1. CASE cursor # 0 BY <1>1, <1>3, <2>1 DEF RepliesInv, OnlyErrorsRepeat
  <2>2. CASE cursor = 0
    <3>1. \A q : RepliesTo(q) = {} BY <1>8, <2>2 DEF RepliesTo
    <3>2. MaxNet \in Nat BY ResponderAssumption
    <3> QED BY <3>1, <3>2, FS_EmptySet
  <2> QED BY <2>1, <2>2
<1>10. \A n \in 1..Last' : Mine(n)' => msgs'[n].re \in 1..cursor'
  BY <1>2, <1>3, <1>8 DEF Mine, Last
<1>11. ~InFlight' /\ pc' \notin {"check", "engine"} BY <1>3 DEF InFlight
<1>12. OnlyErrorsRepeat' BY <1>3, <1>7, <1>9, <1>11 DEF OnlyErrorsRepeat
<1>13. RepliesInv' BY <1>10, <1>11, <1>12 DEF RepliesInv
<1> QED BY <1>4, <1>5, <1>6, <1>13 DEF ResponderInv

LEMMA NextMessageKeeps ==
  ASSUME ResponderInv, NextMessage
  PROVE  ResponderInv'
<1>1. TypeOK /\ RepliesInv BY DEF ResponderInv
<1>2. Last \in Nat /\ cursor \in 0..batchEnd /\ batchEnd \in 0..Last /\ cursor < batchEnd
  BY <1>1 DEF TypeOK, Last, NextMessage
<1>3. /\ UNCHANGED <<msgs, paused, link, heard, bridge, batchEnd, baseline, net, deadline>>
      /\ UNCHANGED engineVars
      /\ pc = "next" /\ bridge = "up" /\ cursor' = cursor + 1
      /\ pc' = IF RespondsTo(cursor + 1) THEN "check" ELSE "next"
  BY DEF NextMessage, Advance, room, stream, loop
<1>4. TypeOK'
  <2>1. cursor' \in 0..batchEnd' /\ batchEnd' \in 0..Last' BY <1>2, <1>3 DEF Last
  <2>2. InFlight' => cursor' > 0 /\ RespondsTo(cursor)'
    BY <1>2, <1>3 DEF InFlight, RespondsTo
  <2>3. settled = "none" /\ child = "none" BY <1>1, <1>3 DEF TypeOK
  <2>4. pc' \in Places /\ (pc' = "off") = (bridge' = "down") BY <1>3 DEF Places
  <2> QED
    BY <1>1, <1>3, <2>1, <2>2, <2>3, <2>4
    DEF TypeOK, EngineTypeOK, engineVars, Timer, Mine, RespondsTo, Last
<1>5. EngineInv' /\ DeadlineInv' BY <1>3, EngineUntouched
<1>6. \A q : RepliesTo(q)' = RepliesTo(q) BY <1>3 DEF RepliesTo, Mine, Last
<1>7. \A n \in 1..Last : Mine(n) => msgs[n].re \in 1..cursor BY <1>1 DEF RepliesInv
<1>8. RepliesTo(cursor + 1) = {} BY <1>2, <1>7 DEF RepliesTo
<1>9. Cardinality(RepliesTo(cursor + 1)) = 0 BY <1>8, FS_EmptySet
<1>10. net \in 0..MaxNet /\ MaxNet \in Nat BY <1>1, ResponderAssumption DEF TypeOK
<1>11. \A q \in 1..cursor' : q \in 1..cursor \/ q = cursor + 1 BY <1>2, <1>3
<1>12. \A q \in 1..cursor : Cardinality(RepliesTo(q)) <= MaxNet + 1
  BY <1>1 DEF RepliesInv, OnlyErrorsRepeat
<1>13. \A q \in 1..cursor' : Cardinality(RepliesTo(q)) <= MaxNet + 1
  BY <1>9, <1>10, <1>11, <1>12
<1>14. \A n \in 1..Last' : Mine(n)' => msgs'[n].re \in 1..cursor'
  BY <1>2, <1>3, <1>7 DEF Mine, Last
<1>15. RepliesTo(cursor)' = {} BY <1>3, <1>6, <1>8
<1>16. Cardinality(RepliesTo(cursor)') = 0 BY <1>15, FS_EmptySet
<1>17. OnlyErrorsRepeat'
  BY <1>3, <1>6, <1>10, <1>13, <1>16 DEF OnlyErrorsRepeat
<1> QED BY <1>4, <1>5, <1>14, <1>15, <1>17 DEF ResponderInv, RepliesInv

LEMMA PostKeeps ==
  ASSUME ResponderInv, PostAccepted \/ PostUnanswered
  PROVE  ResponderInv'
<1>1. TypeOK /\ RepliesInv BY DEF ResponderInv
<1>2. /\ Store("mine", cursor) /\ pc = "post" /\ bridge = "up"
      /\ UNCHANGED <<paused, link, bridge, cursor, batchEnd, baseline, deadline>>
      /\ UNCHANGED engineVars
      /\ \/ pc' = "next" /\ net' = net
         \/ pc' = "post" /\ net' = net + 1 /\ net < MaxNet
  BY DEF PostAccepted, PostUnanswered, Posting, NetworkError, loop
<1>3. /\ cursor \in 0..batchEnd /\ batchEnd \in 0..Last /\ Last \in Nat
      /\ cursor > 0 /\ RespondsTo(cursor) /\ net \in 0..MaxNet
  BY <1>1, <1>2 DEF TypeOK, InFlight, Last
<1>4. MaxNet \in Nat /\ cursor \in Nat BY <1>3, ResponderAssumption
<1>5. /\ msgs' \in Seq([kind : Kinds \union {"mine"}, re : Nat])
      /\ Last' = Last + 1 /\ Last' <= MaxMessages
      /\ \A n \in 1..Last : msgs'[n] = msgs[n]
      /\ msgs'[Last + 1].re = cursor /\ heard' \in 0..Last'
  BY <1>1, <1>2, <1>4, StoreAppends
<1>6. \A n \in 1..Last' : n \in 1..Last \/ n = Last + 1 BY <1>3, <1>5
<1>7. \A n \in 1..Last : Mine(n) => msgs[n].re \in 1..n - 1 /\ RespondsTo(msgs[n].re)
                                    /\ msgs[n].re \in 1..cursor
  BY <1>1 DEF TypeOK, RepliesInv
<1>8. \A n \in 1..Last : Mine(n)' = Mine(n) /\ RespondsTo(n)' = RespondsTo(n)
  BY <1>5 DEF Mine, RespondsTo
<1>9. cursor \in 1..Last BY <1>3
<1>10. \A n \in 1..Last' : Mine(n)' =>
         (msgs[n].re \in 1..n - 1 /\ RespondsTo(msgs[n].re))' /\ msgs'[n].re \in 1..cursor
  <2>1. ASSUME NEW n \in 1..Last, Mine(n)'
        PROVE  (msgs[n].re \in 1..n - 1 /\ RespondsTo(msgs[n].re))'
               /\ msgs'[n].re \in 1..cursor
    <3>1. msgs'[n] = msgs[n] /\ Mine(n) BY <1>5, <1>8, <2>1
    <3>2. msgs[n].re \in 1..n - 1 /\ RespondsTo(msgs[n].re) /\ msgs[n].re \in 1..cursor
      BY <1>7, <3>1
    <3>3. msgs[n].re \in 1..Last BY <1>3, <2>1, <3>2
    <3>4. msgs'[msgs[n].re] = msgs[msgs[n].re] BY <1>5, <3>3
    <3> QED BY <3>1, <3>2, <3>4 DEF RespondsTo
  <2>2. ASSUME NEW n, n = Last + 1
        PROVE  (msgs[n].re \in 1..n - 1 /\ RespondsTo(msgs[n].re))'
               /\ msgs'[n].re \in 1..cursor
    <3>1. msgs'[n].re = cursor /\ cursor \in 1..n - 1 /\ cursor \in 1..cursor
      BY <1>3, <1>5, <2>2
    <3>2. msgs'[cursor] = msgs[cursor] BY <1>5, <1>9
    <3> QED BY <1>3, <3>1, <3>2 DEF RespondsTo
  <2> QED BY <1>6, <2>1, <2>2
<1>11. TypeOK'
  <2>1. cursor' \in 0..batchEnd' /\ batchEnd' \in 0..Last' /\ baseline' \in 0..Last'
        /\ net' \in 0..MaxNet
    <3>1. 0..Last \subseteq 0..Last' BY <1>3, <1>5
    <3>2. baseline \in 0..Last BY <1>1 DEF TypeOK
    <3>3. net' \in 0..MaxNet BY <1>2, <1>3, <1>4
    <3> QED BY <1>2, <1>3, <3>1, <3>2, <3>3
  <2>2. EngineTypeOK' BY <1>1, <1>2 DEF TypeOK, EngineTypeOK, engineVars
  <2>3. cursor' > 0 /\ RespondsTo(cursor)' BY <1>2, <1>3, <1>5, <1>9 DEF RespondsTo
  <2>4. settled' = "none" /\ child' = "none" BY <1>1, <1>2 DEF TypeOK, engineVars
  <2>5. pc' \in Places /\ (pc' = "off") = (bridge' = "down") BY <1>2 DEF Places
  <2> QED BY <1>1, <1>2, <1>5, <1>10, <2>1, <2>2, <2>3, <2>4, <2>5 DEF TypeOK
<1>12. EngineInv' /\ DeadlineInv' BY <1>2, EngineUntouched
<1>13. \A q : /\ Cardinality(RepliesTo(q)') = IF q = cursor
                                              THEN Cardinality(RepliesTo(q)) + 1
                                              ELSE Cardinality(RepliesTo(q))
              /\ Cardinality(RepliesTo(q)) \in Nat
  BY <1>1, <1>2, ReplyAddsOne, RepliesAreFinite
<1>14. Cardinality(RepliesTo(cursor)) <= net
       /\ \A q \in 1..cursor : Cardinality(RepliesTo(q)) <= MaxNet + 1
  BY <1>1, <1>2 DEF RepliesInv, OnlyErrorsRepeat, InFlight
<1>15. \A q \in 1..cursor : Cardinality(RepliesTo(q)') <= MaxNet + 1
  BY <1>3, <1>4, <1>13, <1>14
<1>16. InFlight' => Cardinality(RepliesTo(cursor)') <= net'
  <2>1. InFlight' => net' = net + 1 BY <1>2 DEF InFlight
  <2>2. Cardinality(RepliesTo(cursor)') = Cardinality(RepliesTo(cursor)) + 1
    <3>1. \A q : q = cursor => RepliesTo(q)' = RepliesTo(cursor)' BY <1>2 DEF RepliesTo
    <3> QED BY <1>2, <1>13, <3>1
  <2> QED BY <1>3, <1>13, <1>14, <2>1, <2>2
<1>17. OnlyErrorsRepeat' BY <1>2, <1>15, <1>16 DEF OnlyErrorsRepeat
<1>18. RepliesInv' BY <1>2, <1>10, <1>17 DEF RepliesInv
<1> QED BY <1>11, <1>12, <1>18 DEF ResponderInv

LEMMA StartEngineKeeps ==
  ASSUME ResponderInv, StartEngine
  PROVE  ResponderInv'
<1>1. TypeOK /\ EngineInv /\ DeadlineInv BY DEF ResponderInv
<1>2. /\ UNCHANGED <<msgs, paused, link, heard, bridge, cursor, batchEnd, baseline, net, deadline>>
      /\ pc = "check" /\ pc' = "engine" /\ Spawn(bridge = "stopping")
  BY DEF StartEngine, room, stream, loop
<1>3. EngineInv' BY <1>1, <1>2, SpawnKeeps
<1>4. TypeOK'
  <2>1. EngineTypeOK' /\ settled' # "none" BY <1>2, <1>3 DEF EngineInv, Spawn
  <2> QED
    BY <1>1, <1>2, <2>1
    DEF TypeOK, Timer, Mine, RespondsTo, Last, Places, InFlight
<1>5. DeadlineInv'
  <2>1. bridge = "stopping" => deadline = Grace + Slack BY <1>1, <1>2 DEF DeadlineInv
  <2>2. bridge = "stopping" => hard' = Grace BY <1>2 DEF Spawn
  <2> QED
    BY <1>1, <1>2, <2>1, <2>2, ResponderAssumption, EngineRunAssumption, TimersAreNumbers
    DEF DeadlineInv
<1>6. RepliesInv'
  <2>1. net \in Nat BY <1>1, ResponderAssumption DEF TypeOK
  <2> QED BY <1>2, <2>1, RepliesUntouched DEF InFlight
<1> QED BY <1>3, <1>4, <1>5, <1>6 DEF ResponderInv

LEMMA EngineDoneKeeps ==
  ASSUME ResponderInv, EngineDone
  PROVE  ResponderInv'
<1>1. TypeOK /\ EngineInv /\ DeadlineInv BY DEF ResponderInv
<1>2. /\ UNCHANGED <<msgs, paused, link, heard, bridge, cursor, batchEnd, deadline>>
      /\ pc = "engine" /\ pc' \in {"next", "post"} /\ net' = 0 /\ baseline' = 0 /\ Take
  BY DEF EngineDone, room, stream
<1>3. EngineInv' BY <1>1, <1>2, TakeKeeps
<1>4. TypeOK'
  <2>1. EngineTypeOK' /\ settled' = "none" /\ child' = "none"
    BY <1>2, <1>3 DEF EngineInv, Take
  <2>2. net' \in 0..MaxNet /\ baseline' \in 0..Last
    BY <1>1, <1>2, ResponderAssumption DEF TypeOK, Last
  <2>3. pc' \in Places /\ (pc' = "off") = (bridge' = "down") BY <1>1, <1>2 DEF TypeOK, Places
  <2> QED
    BY <1>1, <1>2, <2>1, <2>2, <2>3 DEF TypeOK, Timer, Mine, RespondsTo, Last, InFlight
<1>5. DeadlineInv' BY <1>1, <1>2 DEF DeadlineInv, Take
<1>6. RepliesInv' BY <1>2, RepliesUntouched DEF InFlight
<1> QED BY <1>3, <1>4, <1>5, <1>6 DEF ResponderInv

LEMMA StopKeeps ==
  ASSUME ResponderInv, Stop
  PROVE  ResponderInv'
<1> USE ResponderAssumption, EngineRunAssumption, TimersAreNumbers
<1>1. TypeOK /\ EngineInv /\ DeadlineInv BY DEF ResponderInv
<1>2. /\ UNCHANGED <<msgs, paused, pc, cursor, batchEnd, baseline, net>>
      /\ bridge = "up" /\ bridge' = "stopping" /\ link' = FALSE /\ heard' = Last
      /\ deadline' = Grace + Slack /\ Abort
  BY DEF Stop, room, loop
<1>3. EngineInv' BY <1>1, <1>2, AbortKeeps
<1>4. settled' = settled /\ child' = child /\ (child = "up" => hard' = Escalated)
  BY <1>1, <1>2 DEF Abort, Kill, engineVars, EngineInv
<1>5. TypeOK'
  <2>1. EngineTypeOK' BY <1>3 DEF EngineInv
  <2>2. Last' = Last /\ Last \in Nat /\ heard' \in 0..Last' BY <1>1, <1>2 DEF TypeOK, Last
  <2>3. /\ msgs' \in Seq([kind : Kinds \union {"mine"}, re : Nat]) /\ Last' <= MaxMessages
        /\ cursor' \in 0..batchEnd' /\ batchEnd' \in 0..Last' /\ baseline' \in 0..Last'
    BY <1>1, <1>2, <2>2 DEF TypeOK
  <2>4. (\A n \in 1..Last : Mine(n) => msgs[n].re \in 1..n - 1 /\ RespondsTo(msgs[n].re))'
    BY <1>1, <1>2, <2>2 DEF TypeOK, Mine, RespondsTo
  <2>5. InFlight' => cursor' > 0 /\ RespondsTo(cursor)'
    BY <1>1, <1>2 DEF TypeOK, InFlight, RespondsTo
  <2>6. deadline' \in Timer(Grace + Slack) BY <1>2, TimerValues
  <2> QED BY <1>1, <1>2, <1>4, <2>1, <2>2, <2>3, <2>4, <2>5, <2>6 DEF TypeOK
<1>6. DeadlineInv'
  <2>1. Escalated \in 0..Grace BY <1>1 DEF Escalated, EngineInv, EngineTypeOK, Timer
  <2>2. child' = "up" => hard' # Off /\ hard' < deadline' BY <1>2, <1>4, <2>1
  <2> QED BY <1>2, <2>2 DEF DeadlineInv
<1>7. RepliesInv'
  <2>1. net \in Nat BY <1>1 DEF TypeOK
  <2> QED BY <1>2, <2>1, RepliesUntouched DEF InFlight
<1> QED BY <1>3, <1>5, <1>6, <1>7 DEF ResponderInv

LEMMA GoneKeeps ==
  ASSUME ResponderInv, Gone
  PROVE  ResponderInv'
<1> USE ResponderAssumption, EngineRunAssumption, TimersAreNumbers
<1>1. TypeOK BY DEF ResponderInv
<1>2. /\ UNCHANGED <<msgs, paused, cursor>>
      /\ bridge' = "down" /\ pc' = "off" /\ link' = FALSE /\ heard' = Last
      /\ deadline' = Off /\ batchEnd' = cursor /\ baseline' = 0 /\ net' = 0
      /\ child' = "none" /\ helper' = FALSE /\ limit' = FALSE
      /\ hard' = Off /\ flush' = Off /\ timedOut' = FALSE /\ settled' = "none"
  BY DEF Gone, room
<1>3. EngineInv'
  BY <1>2, TimerValues DEF EngineInv, EngineTypeOK, KilledGroupGone, Running
<1>4. TypeOK'
  <2>1. EngineTypeOK' BY <1>3 DEF EngineInv
  <2>2. /\ heard' \in 0..Last' /\ cursor' \in 0..batchEnd' /\ batchEnd' \in 0..Last'
        /\ baseline' \in 0..Last' /\ net' \in 0..MaxNet
    <3>1. Last' = Last /\ Last \in Nat BY <1>1, <1>2 DEF TypeOK, Last
    <3>2. cursor \in 0..Last BY <1>1, <3>1 DEF TypeOK
    <3> QED BY <1>2, <3>1, <3>2
  <2>3. deadline' \in Timer(Grace + Slack) BY <1>2, TimerValues
  <2>4. ~InFlight' /\ pc' \in Places BY <1>2 DEF InFlight, Places
  <2> QED
    BY <1>1, <1>2, <2>1, <2>2, <2>3, <2>4 DEF TypeOK, Mine, RespondsTo, Last
<1>5. DeadlineInv' BY <1>2 DEF DeadlineInv
<1>6. RepliesInv' BY <1>2, RepliesUntouched DEF InFlight
<1> QED BY <1>3, <1>4, <1>5, <1>6 DEF ResponderInv

LEMMA TickKeeps ==
  ASSUME ResponderInv, Tick
  PROVE  ResponderInv'
<1> USE ResponderAssumption, EngineRunAssumption, TimersAreNumbers
<1>1. TypeOK /\ EngineInv /\ DeadlineInv BY DEF ResponderInv
<1>2. /\ UNCHANGED <<msgs, paused, link, heard, bridge, pc, cursor, batchEnd, baseline, net>>
      /\ pc # "check" /\ ~ExitDue /\ EnginePasses /\ deadline' = Down(deadline)
  BY DEF Tick, room, stream, loop
<1>3. EngineInv' BY <1>1, <1>2, PassesKeeps
<1>4. bridge = "stopping" => deadline \in 1..Grace + Slack /\ deadline' = deadline - 1
  BY <1>1, <1>2 DEF ExitDue, DeadlineInv, TypeOK, Timer, Down
<1>5. bridge # "stopping" => deadline' = Off BY <1>1, <1>2 DEF DeadlineInv, Down
<1>6. deadline' \in Timer(Grace + Slack) BY <1>4, <1>5 DEF Timer
<1>7. TypeOK'
  <2>1. EngineTypeOK' BY <1>3 DEF EngineInv
  <2> QED
    BY <1>1, <1>2, <1>6, <2>1 DEF TypeOK, EnginePasses, Mine, RespondsTo, Last, InFlight
<1>8. DeadlineInv'
  <2>1. bridge' = "stopping" /\ child' = "up" => hard' # Off /\ hard' < deadline'
    <3>1. SUFFICES ASSUME bridge' = "stopping", child' = "up"
                   PROVE  hard' # Off /\ hard' < deadline'
      OBVIOUS
    <3>2. hard \in 0..Grace /\ hard # 0 /\ hard < deadline /\ hard' = hard - 1
      BY <1>1, <1>2, <3>1
      DEF DeadlineInv, EnginePasses, Due, Down, EngineInv, EngineTypeOK, Timer
    <3> QED BY <1>2, <1>4, <3>1, <3>2
  <2>2. (deadline' = Off) = (bridge' # "stopping") BY <1>2, <1>4, <1>5
  <2> QED BY <1>2, <2>1, <2>2 DEF DeadlineInv
<1>9. RepliesInv'
  <2>1. net \in Nat BY <1>1 DEF TypeOK
  <2> QED BY <1>2, <2>1, RepliesUntouched DEF InFlight
<1> QED BY <1>3, <1>7, <1>8, <1>9 DEF ResponderInv

LEMMA EngineKeeps ==
  ASSUME ResponderInv, Engine
  PROVE  ResponderInv'
<1>1. TypeOK /\ EngineInv /\ DeadlineInv BY DEF ResponderInv
<1>2. /\ UNCHANGED <<msgs, paused, link, heard, bridge, pc, cursor, batchEnd, baseline, net, deadline>>
      /\ EngineStep
  BY DEF Engine, room, stream, loop
<1>3. /\ EngineInv'
      /\ child' = "up" => child = "up" /\ (hard # Off => hard' = hard)
      /\ (settled' = "none") = (settled = "none")
      /\ child' # "none" => child # "none" \/ settled # "none"
  BY <1>1, <1>2, EngineStepKeeps
<1>4. TypeOK'
  <2>1. EngineTypeOK' BY <1>3 DEF EngineInv
  <2> QED BY <1>1, <1>2, <1>3, <2>1 DEF TypeOK, Mine, RespondsTo, Last, InFlight, Timer
<1>5. DeadlineInv' BY <1>1, <1>2, <1>3 DEF DeadlineInv
<1>6. RepliesInv'
  <2>1. net \in Nat BY <1>1, ResponderAssumption DEF TypeOK
  <2> QED BY <1>2, <2>1, RepliesUntouched DEF InFlight
<1> QED BY <1>3, <1>4, <1>5, <1>6 DEF ResponderInv

-----------------------------------------------------------------------------
(* The theorems.                                                            *)

LEMMA ResponderInvInit == Init => ResponderInv
<1> USE ResponderAssumption, EngineRunAssumption, TimersAreNumbers
<1> SUFFICES ASSUME Init PROVE ResponderInv OBVIOUS
<1>1. EngineInv
  BY TimerValues DEF Init, EngineInit, EngineInv, EngineTypeOK, KilledGroupGone, Running
<1>2. Last = 0 BY DEF Init, Last
<1>3. TypeOK
  <2>1. /\ EngineTypeOK /\ settled = "none" /\ child = "none" /\ pc \in Places /\ ~InFlight
    BY <1>1 DEF Init, EngineInit, EngineInv, Places, InFlight
  <2>2. deadline \in Timer(Grace + Slack) /\ Last <= MaxMessages
        /\ 0 \in 0..Last /\ 0 \in 0..0 /\ 0 \in 0..MaxNet
    BY <1>2, TimerValues DEF Init
  <2>3. msgs \in Seq([kind : Kinds \union {"mine"}, re : Nat]) /\ \A n \in 1..Last : FALSE
    BY <1>2 DEF Init
  <2> QED BY <1>2, <2>1, <2>2, <2>3 DEF Init, TypeOK
<1>4. DeadlineInv BY DEF Init, DeadlineInv
<1>5. RepliesInv BY <1>2 DEF Init, RepliesInv, OnlyErrorsRepeat, InFlight
<1> QED BY <1>1, <1>3, <1>4, <1>5 DEF ResponderInv

LEMMA ResponderInvStep == ResponderInv /\ [Next]_vars => ResponderInv'
<1> SUFFICES ASSUME ResponderInv, [Next]_vars PROVE ResponderInv' OBVIOUS
<1>1. CASE \E kind \in Kinds : Speak(kind) BY <1>1, SpeakKeeps
<1>2. CASE \/ \E on \in BOOLEAN : Pause(on)
           \/ LinkDown \/ LinkUp \/ Deliver \/ Fetch \/ IdleTimeout \/ BatchDone
           \/ Skip \/ PostUnreached \/ PostRefused \/ PostGivenUp \/ PollForHuman
  BY <1>2, QuietStepsKeep
<1>3. CASE Start BY <1>3, StartKeeps
<1>4. CASE NextMessage BY <1>4, NextMessageKeeps
<1>5. CASE StartEngine BY <1>5, StartEngineKeeps
<1>6. CASE EngineDone BY <1>6, EngineDoneKeeps
<1>7. CASE PostAccepted \/ PostUnanswered BY <1>7, PostKeeps
<1>8. CASE Stop BY <1>8, StopKeeps
<1>9. CASE Exit \/ Crash BY <1>9, GoneKeeps DEF Exit, Crash
<1>10. CASE Tick BY <1>10, TickKeeps
<1>11. CASE Engine BY <1>11, EngineKeeps
<1>12. CASE UNCHANGED vars
  <2>1. EngineInv' /\ DeadlineInv'
    BY <1>12, EngineUntouched DEF vars
  <2>2. TypeOK'
    BY <1>12
    DEF vars, engineVars, room, stream, loop, ResponderInv, TypeOK, EngineTypeOK, Timer,
        Mine, RespondsTo, Last, InFlight
  <2>3. net \in Nat BY ResponderAssumption DEF ResponderInv, TypeOK
  <2>4. RepliesInv' BY <1>12, <2>3, RepliesUntouched DEF vars, room, loop, InFlight
  <2> QED BY <2>1, <2>2, <2>4 DEF ResponderInv
<1> QED
  BY <1>1, <1>2, <1>3, <1>4, <1>5, <1>6, <1>7, <1>8, <1>9, <1>10, <1>11, <1>12 DEF Next

LEMMA ResponderInvHolds == Spec => []ResponderInv
BY ResponderInvInit, ResponderInvStep, PTL DEF Spec

\* The state of the process, the loop, the timers and the room stays in its
\* types; the part that could go wrong: a settled run outside the loop's wait
\* for it, a reply to a message that is none (auto.ts).
THEOREM ResponderTypes == Spec => []TypeOK
BY ResponderInvHolds, PTL DEF ResponderInv

\* A question is answered once more only for each network error that hid an
\* answer, and never more than MAX_NETWORK_POST_RETRIES times more, also across
\* crashes (auto.ts postWithRetry).
THEOREM OnlyErrorsRepeatAlways == Spec => []OnlyErrorsRepeat
<1>1. ResponderInv => OnlyErrorsRepeat BY DEF ResponderInv, RepliesInv
<1> QED BY <1>1, ResponderInvHolds, PTL

\* When the grace of a killed run is over neither the child nor a helper of it
\* is left (engines.ts killWithEscalation).
THEOREM KilledGroupIsGone == Spec => []KilledGroupGone
<1>1. ResponderInv => KilledGroupGone BY DEF ResponderInv, EngineInv
<1> QED BY <1>1, ResponderInvHolds, PTL

\* A graceful exit, at the deadline or before, leaves no engine up: the SIGKILL
\* of one that is up comes before the deadline (auto.ts shutdown).
THEOREM NoLeaderLeft == Spec => LeaderNeverLeft
<1>1. ASSUME ResponderInv, Exit PROVE child # "up"
  <2>1. SUFFICES ASSUME child = "up" PROVE FALSE OBVIOUS
  <2>2. bridge = "stopping" /\ (~InFlight \/ deadline = 0) BY <1>1 DEF Exit, ExitDue
  <2>3. InFlight
    BY <1>1, <2>1 DEF ResponderInv, TypeOK, InFlight
  <2>4. hard \in Nat /\ hard < deadline
    BY <1>1, <2>1, <2>2, EngineRunAssumption
    DEF ResponderInv, DeadlineInv, EngineInv, EngineTypeOK, Timer
  <2> QED BY <2>2, <2>3, <2>4
<1>2. ResponderInv /\ [Next]_vars => [Exit => child # "up"]_vars BY <1>1
<1> QED BY <1>2, ResponderInvHolds, PTL DEF Spec, LeaderNeverLeft

-----------------------------------------------------------------------------
(* The responder keeps its promise.                                         *)

LEMMA RepliesStay ==
  ASSUME TypeOK, UNCHANGED msgs \/ \E kind \in Kinds : Store(kind, 0)
  PROVE  Replies' = Replies
<1>1. CASE UNCHANGED msgs BY <1>1 DEF Replies, Mine, Last
<1>2. ASSUME NEW kind \in Kinds, Store(kind, 0) PROVE Replies' = Replies
  <2>1. Last \in Nat /\ Last' = Last + 1 /\ msgs'[Last + 1].kind = kind
        /\ \A n \in 1..Last : msgs'[n] = msgs[n]
    BY <1>2, StoreAppends
  <2>2. \A n \in 1..Last' : n \in 1..Last \/ n = Last + 1 BY <2>1
  <2>3. 1..Last \subseteq 1..Last' BY <2>1
  <2>4. {n \in 1..Last : Mine(n)}' = {n \in 1..Last : Mine(n)}
    BY <2>1, <2>2, <2>3, OthersAreNotMine DEF Mine
  <2>5. \A n \in {n \in 1..Last : Mine(n)} : msgs'[n].re = msgs[n].re BY <2>1
  <2> QED BY <2>4, <2>5 DEF Replies
<1> QED BY <1>1, <1>2

LEMMA PostIsReply ==
  ASSUME ResponderInv, PostAccepted \/ PostUnanswered
  PROVE  Promise!Reply
<1>1. TypeOK BY DEF ResponderInv
<1>2. Store("mine", cursor) /\ pc = "post" /\ cursor' = cursor
  BY DEF PostAccepted, PostUnanswered, Posting
<1>3. cursor \in Nat BY <1>1 DEF TypeOK, Last
<1>4. /\ Last \in Nat /\ Last' = Last + 1
      /\ msgs'[Last + 1].kind = "mine" /\ msgs'[Last + 1].re = cursor
      /\ \A n \in 1..Last : msgs'[n] = msgs[n]
  BY <1>1, <1>2, <1>3, StoreAppends
<1> DEFINE mine == {n \in 1..Last : Mine(n)}
<1>5. \A n \in 1..Last' : n \in 1..Last \/ n = Last + 1 BY <1>4
<1>6. 1..Last \subseteq 1..Last' /\ Last + 1 \in 1..Last' /\ Last + 1 \notin 1..Last
  BY <1>4
<1>7. mine' = mine \union {Last + 1} BY <1>4, <1>5, <1>6 DEF Mine
<1>8. DOMAIN Replies = mine /\ \A n \in mine : Replies[n] = msgs[n].re BY DEF Replies
<1>9. Replies' = [n \in mine' |-> msgs'[n].re] BY DEF Replies
<1>10. Replies' = [n \in mine \union {Last + 1} |->
                    IF n = Last + 1 THEN cursor ELSE Replies[n]]
  <2>1. \A n \in mine \union {Last + 1} :
          msgs'[n].re = IF n = Last + 1 THEN cursor ELSE Replies[n]
    BY <1>4, <1>6, <1>8
  <2> QED BY <1>7, <1>9, <2>1
<1>11. \A n \in mine : n < Last + 1 BY <1>4
<1>12. DOMAIN Replies' = mine \union {Last + 1} BY <1>10
<1> HIDE DEF mine
<1>13. InFlight /\ InFlight' \in BOOLEAN BY <1>2 DEF InFlight
<1>14. \E last \in DOMAIN Replies' :
         /\ \A n \in DOMAIN Replies : n < last
         /\ Replies' = [n \in DOMAIN Replies \union {last} |->
                          IF n = last THEN cursor ELSE Replies[n]]
  BY <1>8, <1>10, <1>11, <1>12
<1> QED BY <1>2, <1>13, <1>14 DEF Promise!Reply

LEMMA SeenUntouched ==
  ASSUME ResponderInv, UNCHANGED <<cursor, InFlight>>,
         UNCHANGED msgs \/ \E kind \in Kinds : Store(kind, 0)
  PROVE  UNCHANGED Promise!answering
BY RepliesStay DEF ResponderInv, Promise!answering

\* Work that ends without a post.
LEMMA EndsWork ==
  ASSUME ResponderInv, UNCHANGED <<msgs, cursor>>, ~InFlight'
  PROVE  Promise!GiveUp \/ UNCHANGED Promise!answering
<1>1. Replies' = Replies BY RepliesStay DEF ResponderInv
<1>2. InFlight' = FALSE BY DEF InFlight
<1>3. CASE InFlight BY <1>1, <1>2, <1>3 DEF Promise!GiveUp
<1>4. CASE ~InFlight
  <2>1. InFlight = FALSE BY <1>4 DEF InFlight
  <2> QED BY <1>1, <1>2, <2>1 DEF Promise!answering
<1> QED BY <1>3, <1>4

LEMMA PromiseInit == Init => Promise!AnsweringInit
<1> SUFFICES ASSUME Init PROVE Promise!AnsweringInit OBVIOUS
<1>1. Last = 0 BY DEF Init, Last
<1>2. {n \in 1..Last : Mine(n)} = {} BY <1>1
<1>3. Replies = [n \in {} |-> 0] BY <1>2 DEF Replies
<1>4. InFlight = FALSE BY DEF Init, InFlight
<1> QED BY <1>3, <1>4 DEF Init, Promise!AnsweringInit

LEMMA PromiseStep ==
  ResponderInv /\ [Next]_vars =>
    [Promise!Look \/ Promise!Join \/ Promise!Reply \/ Promise!GiveUp]_(Promise!answering)
<1> SUFFICES ASSUME ResponderInv, [Next]_vars
             PROVE  \/ Promise!Look \/ Promise!Join \/ Promise!Reply \/ Promise!GiveUp
                    \/ UNCHANGED Promise!answering
  OBVIOUS
<1>1. CASE \E kind \in Kinds : Speak(kind)
  BY <1>1, SeenUntouched DEF Speak, InFlight
<1>2. CASE (\E on \in BOOLEAN : Pause(on)) \/ LinkDown \/ LinkUp \/ Deliver
  <2>1. UNCHANGED <<msgs, cursor, InFlight>>
    BY <1>2 DEF Pause, LinkDown, LinkUp, Deliver, room, InFlight
  <2> QED BY <2>1, SeenUntouched
<1>3. CASE Fetch \/ IdleTimeout \/ BatchDone
  <2>1. UNCHANGED <<msgs, cursor, InFlight>>
    BY <1>3 DEF Fetch, IdleTimeout, BatchDone, room, InFlight
  <2> QED BY <2>1, SeenUntouched
<1>4. CASE Start
  <2>1. InFlight = FALSE /\ InFlight' = FALSE /\ UNCHANGED msgs
    BY <1>4 DEF Start, InFlight, room
  <2>2. Replies' = Replies BY <2>1, RepliesStay DEF ResponderInv
  <2>3. CASE cursor = 0
    <3>1. cursor' = Last /\ Last \in Nat
      BY <1>4, <2>3 DEF Start, ResponderInv, TypeOK, Last
    <3> QED BY <2>1, <2>2, <2>3, <3>1 DEF Promise!Join
  <2>4. CASE cursor # 0
    <3>1. cursor' = cursor BY <1>4, <2>4 DEF Start
    <3> QED BY <2>1, <2>2, <3>1 DEF Promise!answering
  <2> QED BY <2>3, <2>4
<1>5. CASE NextMessage
  <2>1. InFlight = FALSE /\ InFlight' \in BOOLEAN /\ UNCHANGED msgs /\ cursor' = cursor + 1
    BY <1>5 DEF NextMessage, Advance, InFlight, room
  <2>2. Replies' = Replies BY <2>1, RepliesStay DEF ResponderInv
  <2> QED BY <2>1, <2>2 DEF Promise!Look
<1>6. CASE Skip \/ PostGivenUp
  <2>1. UNCHANGED <<msgs, cursor>> /\ ~InFlight'
    BY <1>6 DEF Skip, PostGivenUp, room, InFlight
  <2> QED BY <2>1, EndsWork
<1>7. CASE StartEngine \/ PostRefused \/ PollForHuman
  <2>1. UNCHANGED <<msgs, cursor, InFlight>>
    BY <1>7 DEF StartEngine, PostRefused, Posting, PollForHuman, room, InFlight
  <2> QED BY <2>1, SeenUntouched
<1>8. CASE EngineDone \/ PostUnreached
  <2>1. UNCHANGED <<msgs, cursor>> /\ pc \in {"engine", "post"} /\ pc' \in {"next", "post"}
    BY <1>8 DEF EngineDone, PostUnreached, Posting, NetworkError, room
  <2>2. CASE pc' = "post"
    <3>1. UNCHANGED InFlight BY <2>1, <2>2 DEF InFlight
    <3> QED BY <2>1, <3>1, SeenUntouched
  <2>3. CASE pc' = "next"
    <3>1. ~InFlight' BY <2>3 DEF InFlight
    <3> QED BY <2>1, <3>1, EndsWork
  <2> QED BY <2>1, <2>2, <2>3
<1>9. CASE PostAccepted \/ PostUnanswered BY <1>9, PostIsReply
<1>10. CASE Exit \/ Crash
  <2>1. UNCHANGED <<msgs, cursor>> /\ ~InFlight'
    BY <1>10 DEF Exit, Crash, Gone, room, InFlight
  <2> QED BY <2>1, EndsWork
<1>11. CASE Stop \/ Tick \/ Engine
  <2>1. UNCHANGED <<msgs, cursor, InFlight>>
    BY <1>11 DEF Stop, Tick, Engine, room, InFlight
  <2> QED BY <2>1, SeenUntouched
<1>12. CASE UNCHANGED vars
  <2>1. UNCHANGED <<msgs, cursor, InFlight>> BY <1>12 DEF vars, room, InFlight
  <2> QED BY <2>1, SeenUntouched
<1> QED
  BY <1>1, <1>2, <1>3, <1>4, <1>5, <1>6, <1>7, <1>8, <1>9, <1>10, <1>11, <1>12 DEF Next

\* The responder implements what it promises: it looks at each message once and
\* in order, works on one at a time, and a reply always belongs to the question
\* in work (auto.ts run, respondTo, postWithRetry).
THEOREM KeepsItsPromise == Spec => ImplementsAnswering
<1>1. Spec => []ResponderInv /\ Init /\ [][Next]_vars BY ResponderInvHolds DEF Spec
<1> QED BY <1>1, PromiseInit, PromiseStep, PTL DEF ImplementsAnswering, Promise!AnsweringSpec
=============================================================================
