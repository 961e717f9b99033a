----------------------------- MODULE HubProofs -----------------------------
(***************************************************************************)
(* The hub, for every set of users, agents and sockets, and the trackers   *)
(* of any number of bridges over it.                                       *)
(***************************************************************************)
EXTENDS Activity, TLAPS

\* What is under way since before a hello is still under way.
BeforeIsWorking == \A s \in Sockets : before[s] \subseteq working

HubInv == HubTypeOK /\ WorkingIsOnline /\ PresenceExact /\ PillsExact /\ BeforeIsWorking

-----------------------------------------------------------------------------
LEMMA HubInvInit == HubInit => HubInv
BY HubAssumption
   DEF HubInit, HubInv, HubTypeOK, WorkingIsOnline, PresenceExact, PillsExact,
       BeforeIsWorking, Hearing, Presence, View, Blank

LEMMA RegisterKeeps ==
  ASSUME HubInv, NEW s \in Sockets, Register(s)
  PROVE  HubInv'
<1> USE HubAssumption
<1> DEFINE P == Presence(conns')
           first == UserOf[s] \notin Presence(conns)
<1>1. /\ conns' = conns \union {s} /\ alive' = alive \union {s}
      /\ before' = [before EXCEPT ![s] = working]
      /\ doomed' = doomed /\ cut' = cut /\ working' = working
      /\ s \notin conns
  BY DEF Register
<1>2. conns \subseteq Sockets /\ doomed \subseteq conns /\ cut \subseteq conns
  BY DEF HubInv, HubTypeOK
<1>3. P = Presence(conns) \union {UserOf[s]} BY <1>1 DEF Presence
<1>4. P \subseteq Users /\ working \subseteq Users
  BY <1>1, <1>2 DEF Presence, HubInv, HubTypeOK
<1>5. view' = [t \in Sockets |->
                 IF t = s THEN [online |-> P, working |-> {}]
                 ELSE IF t \in Hearing(conns) /\ first
                      THEN [view[t] EXCEPT !.online = P] ELSE view[t]]
  BY DEF Register
<1>6. \A t \in Sockets : view[t] \in View /\ before[t] \in SUBSET Users
  BY DEF HubInv, HubTypeOK
<1> HIDE DEF P
<1>7. view'[s] = [online |-> P, working |-> {}] BY <1>5
<1>8. \A t \in Sockets : t # s /\ t \in Hearing(conns) /\ first =>
        view'[t] = [online |-> P, working |-> view[t].working]
  <2>1. SUFFICES ASSUME NEW t \in Sockets, t # s, t \in Hearing(conns), first
                 PROVE  view'[t] = [online |-> P, working |-> view[t].working]
    OBVIOUS
  <2>2. view'[t] = [view[t] EXCEPT !.online = P] BY <1>5, <2>1
  <2>3. view[t] \in View BY <1>6
  <2> QED BY <2>2, <2>3 DEF View
<1>9. \A t \in Sockets : t # s /\ ~(t \in Hearing(conns) /\ first) => view'[t] = view[t]
  BY <1>5
<1>10. HubTypeOK'
  <2>1. ASSUME NEW t \in Sockets PROVE view'[t] \in View
    <3>1. view[t] \in View BY <1>6
    <3>2. CASE t = s BY <1>4, <1>7, <3>2 DEF View
    <3>3. CASE t # s /\ t \in Hearing(conns) /\ first
      <4>1. view'[t] = [online |-> P, working |-> view[t].working] BY <1>8, <3>3
      <4> QED BY <1>4, <3>1, <4>1 DEF View
    <3>4. CASE t # s /\ ~(t \in Hearing(conns) /\ first) BY <1>9, <3>1, <3>4
    <3> QED BY <3>2, <3>3, <3>4
  <2>2. view' \in [Sockets -> View] BY <1>5, <2>1
  <2>3. before' \in [Sockets -> SUBSET Users] BY <1>1, <1>4 DEF HubInv, HubTypeOK
  <2> QED BY <1>1, <2>2, <2>3 DEF HubInv, HubTypeOK
<1>11. WorkingIsOnline' BY <1>1, <1>3 DEF HubInv, WorkingIsOnline, Presence, P
<1>12. ASSUME NEW t \in Hearing(conns)', t # s
       PROVE  t \in Sockets /\ t \in Hearing(conns)
  BY <1>1, <1>2, <1>12 DEF Hearing
<1>13. PresenceExact'
  <2>1. SUFFICES ASSUME NEW t \in Hearing(conns)' PROVE view'[t].online = P
    BY DEF PresenceExact, Presence, P
  <2>2. CASE t = s BY <1>7, <2>2
  <2>3. CASE t # s /\ first
    <3>1. view'[t] = [online |-> P, working |-> view[t].working] BY <1>8, <1>12, <2>3
    <3> QED BY <3>1
  <2>4. CASE t # s /\ ~first
    <3>1. view[t].online = Presence(conns) BY <1>12, <2>4 DEF HubInv, PresenceExact
    <3> QED BY <1>3, <1>9, <1>12, <2>4, <3>1
  <2> QED BY <2>2, <2>3, <2>4
<1>14. PillsExact'
  <2>1. SUFFICES ASSUME NEW t \in Hearing(conns)'
                 PROVE  view'[t].working = working' \ before'[t]
    BY DEF PillsExact
  <2>2. CASE t = s
    <3>1. before'[s] = working BY <1>1 DEF HubInv, HubTypeOK
    <3> QED BY <1>1, <1>7, <2>2, <3>1
  <2>3. CASE t # s
    <3>1. t \in Sockets /\ t \in Hearing(conns) BY <1>12, <2>3
    <3>2. view[t].working = working \ before[t] BY <3>1 DEF HubInv, PillsExact
    <3>3. before'[t] = before[t] BY <1>1, <2>3, <3>1 DEF HubInv, HubTypeOK
    <3>4. view'[t].working = view[t].working
      <4>1. CASE first
        <5>1. view'[t] = [online |-> P, working |-> view[t].working]
          BY <1>8, <2>3, <3>1, <4>1
        <5> QED BY <5>1
      <4>2. CASE ~first
        <5>1. view'[t] = view[t] BY <1>9, <2>3, <3>1, <4>2
        <5> QED BY <5>1
      <4> QED BY <4>1, <4>2
    <3> QED BY <1>1, <3>2, <3>3, <3>4
  <2> QED BY <2>2, <2>3
<1>15. BeforeIsWorking' BY <1>1 DEF HubInv, BeforeIsWorking, HubTypeOK
<1> QED BY <1>10, <1>11, <1>13, <1>14, <1>15 DEF HubInv

LEMMA UnregisterKeeps ==
  ASSUME HubInv, NEW s \in Sockets, Unregister(s)
  PROVE  HubInv'
<1> USE HubAssumption
<1> DEFINE P == Presence(conns')
           left == {UserOf[s]} \ P
<1>1. /\ s \in conns
      /\ conns' = conns \ {s} /\ alive' = alive \ {s}
      /\ doomed' = doomed \ {s} /\ cut' = cut \ {s}
      /\ working' = working \ left
      /\ before' = [t \in Sockets |-> IF t = s THEN {} ELSE before[t] \ left]
  BY DEF Unregister
<1>2. conns \subseteq Sockets /\ doomed \subseteq conns /\ cut \subseteq conns
  BY DEF HubInv, HubTypeOK
<1>3. Presence(conns) = P \union {UserOf[s]}
  BY <1>1 DEF Presence
<1>4. P \subseteq Users
  BY <1>1, <1>2 DEF Presence
<1>5. view' = [t \in Sockets |->
                 IF t = s THEN Blank
                 ELSE IF t \in Hearing(conns') /\ left # {}
                 THEN [online |-> P, working |-> view[t].working \ left]
                 ELSE view[t]]
  BY DEF Unregister
<1>6. \A t \in Sockets : view[t] \in View /\ before[t] \in SUBSET Users
  BY DEF HubInv, HubTypeOK
<1> HIDE DEF P
<1>7. view'[s] = Blank BY <1>5
<1>8. \A t \in Sockets : t # s /\ t \in Hearing(conns') /\ left # {} =>
        view'[t] = [online |-> P, working |-> view[t].working \ left]
  BY <1>5
<1>9. \A t \in Sockets : t # s /\ ~(t \in Hearing(conns') /\ left # {}) => view'[t] = view[t]
  BY <1>5
<1>10. HubTypeOK'
  <2>1. ASSUME NEW t \in Sockets PROVE view'[t] \in View
    <3>1. view[t] \in View BY <1>6
    <3>2. CASE t = s BY <1>7, <3>2 DEF View, Blank
    <3>3. CASE t # s /\ t \in Hearing(conns') /\ left # {}
      <4>1. view'[t] = [online |-> P, working |-> view[t].working \ left] BY <1>8, <3>3
      <4> HIDE DEF left
      <4> QED BY <1>4, <3>1, <4>1 DEF View
    <3>4. CASE t # s /\ ~(t \in Hearing(conns') /\ left # {}) BY <1>9, <3>1, <3>4
    <3> QED BY <3>2, <3>3, <3>4
  <2>2. view' \in [Sockets -> View] BY <1>5, <2>1
  <2>3. before' \in [Sockets -> SUBSET Users] BY <1>1, <1>6
  <2> QED BY <1>1, <2>2, <2>3 DEF HubInv, HubTypeOK
<1>11. WorkingIsOnline'
  <2>1. working \subseteq Agents \intersect Presence(conns)
    BY DEF HubInv, WorkingIsOnline
  <2>2. working' \subseteq Agents \intersect P BY <1>1, <1>3, <2>1
  <2> QED BY <2>2 DEF WorkingIsOnline, Presence, P
<1>12. ASSUME NEW t \in Hearing(conns)'
       PROVE  t \in Sockets /\ t # s /\ t \in Hearing(conns) /\ t \in Hearing(conns')
  BY <1>1, <1>2 DEF Hearing
<1>13. PresenceExact'
  <2>1. SUFFICES ASSUME NEW t \in Hearing(conns)' PROVE view'[t].online = P
    BY DEF PresenceExact, Presence, P
  <2>2. view[t].online = Presence(conns) BY <1>12 DEF HubInv, PresenceExact
  <2>3. CASE left = {}
    <3>1. view'[t] = view[t] BY <1>9, <1>12, <2>3
    <3> QED BY <1>3, <2>2, <2>3, <3>1
  <2>4. CASE left # {}
    <3>1. view'[t] = [online |-> P, working |-> view[t].working \ left] BY <1>8, <1>12, <2>4
    <3> QED BY <3>1
  <2> QED BY <2>3, <2>4
<1>14. PillsExact'
  <2>1. SUFFICES ASSUME NEW t \in Hearing(conns)'
                 PROVE  view'[t].working = working' \ before'[t]
    BY DEF PillsExact
  <2>2. view[t].working = working \ before[t] BY <1>12 DEF HubInv, PillsExact
  <2>3. before'[t] = before[t] \ left BY <1>1, <1>12
  <2>4. view'[t].working = view[t].working \ left
    <3>1. CASE left = {}
      <4>1. view'[t] = view[t] BY <1>9, <1>12, <3>1
      <4> QED BY <3>1, <4>1
    <3>2. CASE left # {}
      <4>1. view'[t] = [online |-> P, working |-> view[t].working \ left] BY <1>8, <1>12, <3>2
      <4> QED BY <4>1
    <3> QED BY <3>1, <3>2
  <2> HIDE DEF left
  <2> QED BY <1>1, <2>2, <2>3, <2>4
<1>15. BeforeIsWorking'
  <2> HIDE DEF left
  <2> QED BY <1>1 DEF HubInv, BeforeIsWorking
<1> QED BY <1>10, <1>11, <1>13, <1>14, <1>15 DEF HubInv

\* The two ways the activity changes while the connections stay.
LEMMA SetWorkingKeeps ==
  ASSUME HubInv, NEW u \in Agents \intersect Presence(conns), SetWorking(u)
  PROVE  HubInv'
<1> USE HubAssumption
<1>1. /\ conns' = conns /\ alive' = alive /\ doomed' = doomed /\ cut' = cut
      /\ before' = before /\ working' = working \union {u}
      /\ Hearing(conns)' = Hearing(conns) /\ Presence(conns)' = Presence(conns)
  BY DEF SetWorking, Hearing, Presence
<1>2. \A t \in Sockets : view[t] \in View BY DEF HubInv, HubTypeOK
<1>3. view' = [t \in Sockets |->
                 IF t \in Hearing(conns) /\ u \notin working
                 THEN [view[t] EXCEPT !.working = @ \union {u}] ELSE view[t]]
  BY DEF SetWorking
<1>4. \A t \in Sockets :
        \/ view'[t] = [online |-> view[t].online, working |-> view[t].working \union {u}]
        \/ ~(t \in Hearing(conns) /\ u \notin working) /\ view'[t] = view[t]
  <2>1. SUFFICES ASSUME NEW t \in Sockets, t \in Hearing(conns) /\ u \notin working
                 PROVE  view'[t] = [online |-> view[t].online, working |-> view[t].working \union {u}]
    BY <1>3
  <2>2. view'[t] = [view[t] EXCEPT !.working = @ \union {u}] BY <1>3, <2>1
  <2>3. view[t] \in View BY <1>2
  <2> QED BY <2>2, <2>3 DEF View
<1>5. HubTypeOK'
  <2>1. ASSUME NEW t \in Sockets PROVE view'[t] \in View
    <3>1. view[t] \in View BY <1>2
    <3>2. CASE view'[t] = [online |-> view[t].online, working |-> view[t].working \union {u}]
      BY <3>1, <3>2 DEF View
    <3> QED BY <1>4, <3>1, <3>2
  <2>2. view' \in [Sockets -> View] BY <1>3, <2>1
  <2> QED BY <1>1, <2>2 DEF HubInv, HubTypeOK
<1>6. WorkingIsOnline' BY <1>1 DEF HubInv, WorkingIsOnline
<1>7. ASSUME NEW t \in Hearing(conns)
      PROVE  /\ t \in Sockets
             /\ view'[t].online = view[t].online
             /\ \/ view'[t].working = view[t].working \union {u}
                \/ u \in working /\ view'[t] = view[t]
  <2>1. t \in Sockets BY DEF HubInv, HubTypeOK, Hearing
  <2>2. CASE view'[t] = [online |-> view[t].online, working |-> view[t].working \union {u}]
    BY <2>1, <2>2
  <2>3. CASE u \in working /\ view'[t] = view[t]
    BY <2>1, <2>3
  <2>4. \/ view'[t] = [online |-> view[t].online, working |-> view[t].working \union {u}]
        \/ u \in working /\ view'[t] = view[t]
    BY <1>4, <2>1
  <2> QED BY <2>2, <2>3, <2>4
<1>8. PresenceExact' BY <1>1, <1>7 DEF HubInv, PresenceExact
<1>9. PillsExact'
  <2>1. ASSUME NEW t \in Hearing(conns) PROVE view'[t].working = working' \ before'[t]
    <3>1. /\ view[t].working = working \ before[t]
          /\ before[t] \subseteq working
      BY <1>7 DEF HubInv, PillsExact, BeforeIsWorking
    <3>2. CASE u \in working BY <1>1, <1>3, <1>7, <3>1, <3>2
    <3>3. CASE u \notin working BY <1>1, <1>7, <3>1, <3>3
    <3> QED BY <3>2, <3>3
  <2> QED BY <1>1, <2>1 DEF PillsExact
<1>10. BeforeIsWorking' BY <1>1 DEF HubInv, BeforeIsWorking
<1> QED BY <1>5, <1>6, <1>8, <1>9, <1>10 DEF HubInv

LEMMA SetIdleKeeps ==
  ASSUME HubInv, NEW u \in Users, SetIdle(u)
  PROVE  HubInv'
<1> USE HubAssumption
<1>1. /\ conns' = conns /\ alive' = alive /\ doomed' = doomed /\ cut' = cut
      /\ before' = [t \in Sockets |-> before[t] \ {u}] /\ working' = working \ {u}
      /\ Hearing(conns)' = Hearing(conns) /\ Presence(conns)' = Presence(conns)
  BY DEF SetIdle, Hearing, Presence
<1>2. \A t \in Sockets : view[t] \in View /\ before[t] \in SUBSET Users
  BY DEF HubInv, HubTypeOK
<1>3. view' = [t \in Sockets |->
                 IF t \in Hearing(conns) /\ u \in working
                 THEN [view[t] EXCEPT !.working = @ \ {u}] ELSE view[t]]
  BY DEF SetIdle
<1>4. \A t \in Sockets :
        \/ view'[t] = [online |-> view[t].online, working |-> view[t].working \ {u}]
        \/ ~(t \in Hearing(conns) /\ u \in working) /\ view'[t] = view[t]
  <2>1. SUFFICES ASSUME NEW t \in Sockets, t \in Hearing(conns) /\ u \in working
                 PROVE  view'[t] = [online |-> view[t].online, working |-> view[t].working \ {u}]
    BY <1>3
  <2>2. view'[t] = [view[t] EXCEPT !.working = @ \ {u}] BY <1>3, <2>1
  <2>3. view[t] \in View BY <1>2
  <2> QED BY <2>2, <2>3 DEF View
<1>5. HubTypeOK'
  <2>1. ASSUME NEW t \in Sockets PROVE view'[t] \in View
    <3>1. view[t] \in View BY <1>2
    <3>2. CASE view'[t] = [online |-> view[t].online, working |-> view[t].working \ {u}]
      BY <3>1, <3>2 DEF View
    <3> QED BY <1>4, <3>1, <3>2
  <2>2. view' \in [Sockets -> View] BY <1>3, <2>1
  <2>3. before' \in [Sockets -> SUBSET Users] BY <1>1, <1>2
  <2> QED BY <1>1, <2>2, <2>3 DEF HubInv, HubTypeOK
<1>6. WorkingIsOnline' BY <1>1 DEF HubInv, WorkingIsOnline
<1>7. ASSUME NEW t \in Hearing(conns)
      PROVE  /\ t \in Sockets
             /\ view'[t].online = view[t].online
             /\ \/ view'[t].working = view[t].working \ {u}
                \/ u \notin working /\ view'[t] = view[t]
  <2>1. t \in Sockets BY DEF HubInv, HubTypeOK, Hearing
  <2>2. CASE view'[t] = [online |-> view[t].online, working |-> view[t].working \ {u}]
    BY <2>1, <2>2
  <2>3. CASE u \notin working /\ view'[t] = view[t]
    BY <2>1, <2>3
  <2>4. \/ view'[t] = [online |-> view[t].online, working |-> view[t].working \ {u}]
        \/ u \notin working /\ view'[t] = view[t]
    BY <1>4, <2>1
  <2> QED BY <2>2, <2>3, <2>4
<1>8. PresenceExact' BY <1>1, <1>7 DEF HubInv, PresenceExact
<1>9. PillsExact'
  <2>1. ASSUME NEW t \in Hearing(conns) PROVE view'[t].working = working' \ before'[t]
    <3>1. view[t].working = working \ before[t] BY DEF HubInv, PillsExact
    <3>2. before'[t] = before[t] \ {u} BY <1>1, <1>7
    <3> QED BY <1>1, <1>7, <3>1, <3>2
  <2> QED BY <1>1, <2>1 DEF PillsExact
<1>10. BeforeIsWorking' BY <1>1 DEF HubInv, BeforeIsWorking
<1> QED BY <1>5, <1>6, <1>8, <1>9, <1>10 DEF HubInv

LEMMA HubInvStep == HubInv /\ [HubNext]_hub => HubInv'
<1> SUFFICES ASSUME HubInv, [HubNext]_hub PROVE HubInv'
  OBVIOUS
<1> USE HubAssumption
<1>1. ASSUME NEW s \in Sockets, Register(s) PROVE HubInv' BY <1>1, RegisterKeeps
<1>2. ASSUME NEW s \in Sockets, Unregister(s) PROVE HubInv' BY <1>2, UnregisterKeeps
<1>3. CASE UNCHANGED hub
  BY <1>3 DEF hub, HubInv, HubTypeOK, WorkingIsOnline, PresenceExact, PillsExact,
              BeforeIsWorking, Hearing, Presence
<1>4. ASSUME NEW s \in Sockets, NEW state \in {"working", "idle"}, Status(s, state)
      PROVE  HubInv'
  <2>1. UserOf[s] \in Presence(conns) /\ UserOf[s] \in Users
    BY <1>4 DEF Status, Hearing, Presence
  <2>2. CASE UserOf[s] \in Agents /\ SetWorking(UserOf[s]) BY <2>1, <2>2, SetWorkingKeeps
  <2>3. CASE SetIdle(UserOf[s]) BY <2>1, <2>3, SetIdleKeeps
  <2> QED BY <1>3, <1>4, <2>2, <2>3 DEF Status
<1>5. ASSUME NEW u \in Users, AutoIdle(u) PROVE HubInv' BY <1>5, SetIdleKeeps DEF AutoIdle
<1>6. ASSUME NEW s \in Sockets, Pong(s) PROVE HubInv'
  BY <1>6 DEF Pong, HubInv, HubTypeOK, WorkingIsOnline, PresenceExact, PillsExact,
              BeforeIsWorking, Hearing, Presence
<1>7. ASSUME NEW s \in Sockets, Cut(s) PROVE HubInv'
  BY <1>7 DEF Cut, HubInv, HubTypeOK, WorkingIsOnline, PresenceExact, PillsExact,
              BeforeIsWorking, Hearing, Presence
<1>8. CASE PingAll
  BY <1>8 DEF PingAll, HubInv, HubTypeOK, WorkingIsOnline, PresenceExact, PillsExact,
              BeforeIsWorking, Hearing, Presence
<1>9. CASE Close
  BY <1>9 DEF Close, HubInv, HubTypeOK, WorkingIsOnline, PresenceExact, PillsExact,
              BeforeIsWorking, Hearing, Presence, View, Blank
<1> QED BY <1>1, <1>2, <1>3, <1>4, <1>5, <1>6, <1>7, <1>8, <1>9 DEF HubNext

LEMMA HubInvariance == HubSpec => []HubInv
BY HubInvInit, HubInvStep, PTL DEF HubSpec

-----------------------------------------------------------------------------
(* Results.                                                                *)

\* The hub's maps and each client's view keep their types.
THEOREM HubType == HubSpec => []HubTypeOK
<1>1. HubInv => HubTypeOK BY DEF HubInv
<1> QED BY <1>1, HubInvariance, PTL

\* No agent is left showing as working after its last socket closed, for any
\* number of sockets and in whatever order setActivity and unregister run.
THEOREM WorkingOnline == HubSpec => []WorkingIsOnline
<1>1. HubInv => WorkingIsOnline BY DEF HubInv
<1> QED BY <1>1, HubInvariance, PTL

\* The presence frames, sent only for first and last sockets, and hello
\* together keep every client's list exact.
THEOREM PresenceIsExact == HubSpec => []PresenceExact
<1>1. HubInv => PresenceExact BY DEF HubInv
<1> QED BY <1>1, HubInvariance, PTL

\* The activity frames, sent only on change, keep every client's pills exact
\* but for the runs that began before its hello.
THEOREM PillsAreExact == HubSpec => []PillsExact
<1>1. HubInv => PillsExact BY DEF HubInv
<1> QED BY <1>1, HubInvariance, PTL

-----------------------------------------------------------------------------
(* The bridges' trackers over the hub.                                     *)

\* Every step of the bridges and of their links is one of the hub, or none.
LEMMA ActivityStep == HubTypeOK /\ [Next]_avars => [HubNext]_hub
<1> SUFFICES ASSUME HubTypeOK, [Next]_avars PROVE HubNext \/ UNCHANGED hub
  BY DEF hub
<1>1. ASSUME NEW b \in Bridges,
             Begin(b) \/ End(b) \/ ReportIdle(b) \/ Refresh(b) \/ Greet(b) \/ Lost(b) \/ Quit(b)
      PROVE  UNCHANGED hub
  BY <1>1 DEF Begin, End, ReportIdle, Refresh, Greet, Lost, Quit
<1>2. ASSUME NEW b \in Bridges, NEW s \in Sockets, Connect(b, s) PROVE HubNext
  BY <1>2 DEF Connect, HubNext
<1>3. ASSUME NEW s \in Sockets, Fail(s) \/ Drop(s) \/ AnswerPing(s) PROVE HubNext
  BY <1>3 DEF Fail, Drop, AnswerPing, HubNext
<1>4. ASSUME NEW s \in Sockets, Deliver(s) PROVE HubNext \/ UNCHANGED hub
  <2>1. PICK state : state = Head(uplink[s]) OBVIOUS
  <2>2. Status(s, state) BY <1>4, <2>1 DEF Deliver
  <2>3. CASE UserOf[s] \in Agents
    <3>1. state \in {"working", "idle"} BY <2>2, <2>3 DEF Status
    <3> QED BY <2>2, <3>1 DEF HubNext
  <2>4. CASE UserOf[s] \notin Agents BY <2>2, <2>4 DEF Status
  <2> QED BY <2>3, <2>4
<1>5. ASSUME NEW u \in Agents, RunOut(u) PROVE HubNext
  BY <1>5, HubAssumption DEF RunOut, HubNext
<1>6. CASE Heartbeat \/ RestartHub BY <1>6 DEF Heartbeat, RestartHub, HubNext
<1>7. CASE UNCHANGED avars BY <1>7 DEF avars
<1> QED BY <1>1, <1>2, <1>3, <1>4, <1>5, <1>6, <1>7 DEF Next

\* What the bridges do is something a hub's clients may do, so all that is said
\* of the hub above holds of it under them.
THEOREM TrackersUseHub == Spec => HubSpec
<1>1. Init => HubInit /\ HubInv BY HubInvInit DEF Init
<1>2. HubInv /\ [Next]_avars => [HubNext]_hub BY ActivityStep DEF HubInv
<1>3. HubInv /\ [HubNext]_hub => HubInv' BY HubInvStep
<1> QED BY <1>1, <1>2, <1>3, PTL DEF Spec, HubSpec

\* The refresh timer runs as long as a call is in flight.
RunsRefresh == \A b \in Bridges : inFlight[b] > 0 => b \in refreshing

TrackerTypes ==
  /\ mine \in [Bridges -> Sockets \union {NoSocket}]
  /\ greeted \subseteq Bridges /\ holdOff \subseteq idleTimer
  /\ uplink \in [Sockets -> Seq({"working", "idle"})]
  /\ inFlight \in [Bridges -> 0..MaxCalls]
  /\ reported \in [Bridges -> {"working", "idle"}]
  /\ idleTimer \subseteq refreshing /\ refreshing \subseteq Bridges
  /\ \A b \in idleTimer : inFlight[b] = 0
  /\ cuts \in 0..MaxCuts

ActivityInv == HubInv /\ TrackerTypes /\ RunsRefresh

\* send changes what was reported and puts at most one frame on the link.
LEMMA SendTypes ==
  ASSUME HubInv, TrackerTypes, NEW b \in Bridges, NEW state \in {"working", "idle"},
         Send(b, state)
  PROVE  /\ reported' \in [Bridges -> {"working", "idle"}]
         /\ uplink' \in [Sockets -> Seq({"working", "idle"})]
<1>1. reported' \in [Bridges -> {"working", "idle"}] BY DEF Send, TrackerTypes
<1>2. CASE Connected(b)
  <2>1. mine[b] \in Sockets BY <1>2 DEF Connected, Hearing, HubInv, HubTypeOK
  <2>2. Append(uplink[mine[b]], state) \in Seq({"working", "idle"})
    BY <2>1 DEF TrackerTypes
  <2>3. uplink' = [uplink EXCEPT ![mine[b]] = Append(uplink[mine[b]], state)]
    BY <1>2 DEF Send
  <2> QED BY <1>1, <2>1, <2>2, <2>3 DEF TrackerTypes
<1>3. CASE ~Connected(b) BY <1>1, <1>3 DEF Send, TrackerTypes
<1> QED BY <1>2, <1>3

LEMMA TrackerStep ==
  ASSUME ActivityInv, [Next]_avars
  PROVE  TrackerTypes' /\ RunsRefresh'
<1> USE ActivityAssumption DEF ActivityInv
<1>1. ASSUME NEW b \in Bridges, Begin(b) PROVE TrackerTypes' /\ RunsRefresh'
  <2>1. /\ reported' \in [Bridges -> {"working", "idle"}]
        /\ uplink' \in [Sockets -> Seq({"working", "idle"})]
    BY <1>1, SendTypes DEF Begin, TrackerTypes
  <2>2. /\ inFlight[b] \in 0..MaxCalls /\ inFlight[b] < MaxCalls
        /\ inFlight' = [inFlight EXCEPT ![b] = inFlight[b] + 1]
        /\ idleTimer' = idleTimer \ {b} /\ holdOff' = holdOff \ {b}
        /\ refreshing' = refreshing \union {b}
        /\ UNCHANGED <<mine, greeted, cuts>>
    BY <1>1 DEF Begin, TrackerTypes
  <2>3. inFlight' \in [Bridges -> 0..MaxCalls] BY <2>2 DEF TrackerTypes
  <2>4. \A k \in idleTimer' : inFlight'[k] = 0 BY <2>2 DEF TrackerTypes
  <2>5. RunsRefresh' BY <2>2 DEF TrackerTypes, RunsRefresh
  <2>6. TrackerTypes' BY <2>1, <2>2, <2>3, <2>4 DEF TrackerTypes
  <2> QED BY <2>5, <2>6
<1>2. ASSUME NEW b \in Bridges, End(b) PROVE TrackerTypes' /\ RunsRefresh'
  <2>1. inFlight[b] \in 1..MaxCalls /\ b \in refreshing /\ b \notin idleTimer
    BY <1>2 DEF End, TrackerTypes, RunsRefresh
  <2>2. inFlight' = [inFlight EXCEPT ![b] = inFlight[b] - 1] BY <1>2 DEF End
  <2>3. inFlight' \in [Bridges -> 0..MaxCalls] BY <2>1, <2>2 DEF TrackerTypes
  <2>4. \A k \in idleTimer' : inFlight'[k] = 0
    BY <1>2, <2>1, <2>2 DEF End, TrackerTypes
  <2>5. RunsRefresh' BY <1>2, <2>1, <2>2 DEF End, TrackerTypes, RunsRefresh
  <2>6. /\ idleTimer \subseteq idleTimer' /\ idleTimer' \subseteq idleTimer \union {b}
        /\ UNCHANGED <<uplink, reported, refreshing, mine, greeted, holdOff, cuts>>
    BY <1>2 DEF End, link
  <2>7. idleTimer' \subseteq refreshing' /\ holdOff' \subseteq idleTimer'
    BY <2>1, <2>6 DEF TrackerTypes
  <2>8. TrackerTypes' BY <2>3, <2>4, <2>6, <2>7 DEF TrackerTypes
  <2> QED BY <2>5, <2>8
<1>3. ASSUME NEW b \in Bridges, ReportIdle(b) PROVE TrackerTypes' /\ RunsRefresh'
  <2>1. /\ reported' \in [Bridges -> {"working", "idle"}]
        /\ uplink' \in [Sockets -> Seq({"working", "idle"})]
    BY <1>3, SendTypes DEF ReportIdle
  <2> QED BY <1>3, <2>1 DEF ReportIdle, TrackerTypes, RunsRefresh
<1>4. ASSUME NEW b \in Bridges, Refresh(b) PROVE TrackerTypes' /\ RunsRefresh'
  <2>1. /\ reported' \in [Bridges -> {"working", "idle"}]
        /\ uplink' \in [Sockets -> Seq({"working", "idle"})]
    BY <1>4, SendTypes DEF Refresh
  <2> QED BY <1>4, <2>1 DEF Refresh, TrackerTypes, RunsRefresh, link
<1>5. ASSUME NEW b \in Bridges, Greet(b) PROVE TrackerTypes' /\ RunsRefresh'
  <2>1. /\ reported' \in [Bridges -> {"working", "idle"}]
        /\ uplink' \in [Sockets -> Seq({"working", "idle"})]
    BY <1>5, SendTypes DEF Greet, TrackerTypes
  <2> QED BY <1>5, <2>1 DEF Greet, TrackerTypes, RunsRefresh
<1>6. ASSUME NEW b \in Bridges, NEW s \in Sockets, Connect(b, s)
      PROVE  TrackerTypes' /\ RunsRefresh'
  BY <1>6 DEF Connect, TrackerTypes, RunsRefresh, tracker
<1>7. ASSUME NEW b \in Bridges, Lost(b) PROVE TrackerTypes' /\ RunsRefresh'
  BY <1>7 DEF Lost, TrackerTypes, RunsRefresh, tracker
<1>8. ASSUME NEW b \in Bridges, Quit(b) PROVE TrackerTypes' /\ RunsRefresh'
  BY <1>8 DEF Quit, TrackerTypes, RunsRefresh
<1>9. ASSUME NEW s \in Sockets, Fail(s) PROVE TrackerTypes' /\ RunsRefresh'
  BY <1>9 DEF Fail, TrackerTypes, RunsRefresh, tracker
<1>10. ASSUME NEW s \in Sockets, Deliver(s) PROVE TrackerTypes' /\ RunsRefresh'
  <2>1. Tail(uplink[s]) \in Seq({"working", "idle"}) BY <1>10 DEF Deliver, TrackerTypes
  <2>2. uplink' = [uplink EXCEPT ![s] = Tail(uplink[s])] BY <1>10 DEF Deliver
  <2>3. uplink' \in [Sockets -> Seq({"working", "idle"})] BY <2>1, <2>2 DEF TrackerTypes
  <2> QED BY <1>10, <2>3 DEF Deliver, TrackerTypes, RunsRefresh, tracker, link
<1>11. ASSUME NEW s \in Sockets, Drop(s) PROVE TrackerTypes' /\ RunsRefresh'
  BY <1>11 DEF Drop, TrackerTypes, RunsRefresh, tracker, link
<1>12. ASSUME UNCHANGED <<uplink, tracker, link>> PROVE TrackerTypes' /\ RunsRefresh'
  BY <1>12 DEF TrackerTypes, RunsRefresh, tracker, link
<1>13. ASSUME NEW s \in Sockets, AnswerPing(s) PROVE TrackerTypes' /\ RunsRefresh'
  BY <1>12, <1>13 DEF AnswerPing
<1>14. ASSUME NEW u \in Agents, RunOut(u) PROVE TrackerTypes' /\ RunsRefresh'
  BY <1>12, <1>14 DEF RunOut
<1>15. CASE Heartbeat BY <1>12, <1>15 DEF Heartbeat
<1>16. CASE RestartHub
  BY <1>16 DEF RestartHub, TrackerTypes, RunsRefresh, tracker
<1>17. CASE UNCHANGED avars BY <1>12, <1>17 DEF avars
<1> QED
  BY <1>1, <1>2, <1>3, <1>4, <1>5, <1>6, <1>7, <1>8, <1>9, <1>10, <1>11, <1>13, <1>14,
     <1>15, <1>16, <1>17
  DEF Next

\* The tracker is coherent: an idle debounce is pending only when no call is in
\* flight, and then the refresh timer still runs (activity.ts); so
\* the check for calls in flight when the debounce is over never holds.
THEOREM TrackerIsCoherent == Spec => []TypeOK
<1>1. Init => ActivityInv
  <2> SUFFICES ASSUME Init PROVE ActivityInv OBVIOUS
  <2>1. TrackerTypes BY ActivityAssumption DEF Init, TrackerTypes
  <2> QED BY <2>1, HubInvInit DEF Init, ActivityInv, RunsRefresh
<1>2. ActivityInv /\ [Next]_avars => ActivityInv'
  BY TrackerStep, ActivityStep, HubInvStep DEF ActivityInv, HubInv
<1>3. ActivityInv => TypeOK BY DEF ActivityInv, TrackerTypes, HubInv, TypeOK
<1> QED BY <1>1, <1>2, <1>3, PTL DEF Spec
=============================================================================
