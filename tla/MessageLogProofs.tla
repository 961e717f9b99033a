-------------------------- MODULE MessageLogProofs --------------------------
(***************************************************************************)
(* The message log, for every set of users and every value of the limits,  *)
(* under the assumption the code makes of the clock at start-up.           *)
(***************************************************************************)
EXTENDS MessageLog, SequenceTheorems, FiniteSetTheorems, TLAPS

-----------------------------------------------------------------------------
(* The inductive invariant.                                                *)

\* A message stands at the place of its acceptance.
Numbered == \A i \in 1..Len(table) : table[i].n = i

\* The next stamp will be past every stored one.
Covered ==
  \A i \in 1..Len(table) :
    \/ table[i].stamp <= lastStamp
    \/ lastStamp = 0 /\ table[i].stamp < clock

LogInv == /\ clock \in Nat \ {0} /\ lastStamp \in Nat /\ table \in Seq(Message)
          /\ turns \in TurnOverrides \union {Unset}
          /\ Numbered /\ Covered

\* A message is added at the end.
Grows(sender, type) ==
  /\ Len(table') = Len(table) + 1
  /\ \A i \in 1..Len(table) : table'[i] = table[i]
  /\ table'[Len(table) + 1].n = Len(table) + 1
  /\ table'[Len(table) + 1].sender = sender
  /\ table'[Len(table) + 1].type = type

-----------------------------------------------------------------------------
LEMMA StampType ==
  ASSUME LogInv, NEW i \in 1..Len(table)
  PROVE  table[i].stamp \in Nat
<1>1. table[i] \in Message BY ElementOfSeq DEF LogInv
<1> QED BY <1>1 DEF Message

LEMMA NextStampIsPast ==
  ASSUME LogInv
  PROVE  /\ NextStamp \in Nat \ {0}
         /\ \A i \in 1..Len(table) : table[i].stamp < NextStamp
<1>1. NextStamp \in Nat \ {0} BY DEF LogInv, NextStamp
<1>2. ASSUME NEW i \in 1..Len(table) PROVE table[i].stamp < NextStamp
  <2>1. table[i].stamp \in Nat BY StampType
  <2> QED BY <2>1, <1>2 DEF LogInv, Covered, NextStamp
<1> QED BY <1>1, <1>2

\* The only place for a new row is the end of the table.
LEMMA InsertGrows ==
  ASSUME LogInv,
         NEW sender \in Users \union {System}, NEW type \in Types,
         Insert(sender, type)
  PROVE  /\ Grows(sender, type)
         /\ table' \in Seq(Message)
         /\ lastStamp' \in Nat \ {0}
         /\ table'[Len(table) + 1].stamp = lastStamp'
         /\ \A i \in 1..Len(table) : table[i].stamp < lastStamp'
<1> DEFINE m == [n |-> Len(table) + 1, sender |-> sender, type |-> type,
                 stamp |-> NextStamp, at |-> clock]
           end == Len(table) + 1
<1>1. Len(table) \in Nat /\ table \in Seq(Message) BY LenProperties DEF LogInv
<1>2. m \in Message BY <1>1, NextStampIsPast DEF Message, LogInv
<1>3. lastStamp' = m.stamp BY DEF Insert
<1>4. PICK p \in 1..end :
        /\ \A i \in p..Len(table) : table[i].stamp >= m.stamp
        /\ table' = SubSeq(table, 1, p - 1) \o <<m>> \o SubSeq(table, p, Len(table))
  BY DEF Insert
<1>5. p = end
  <2>1. ASSUME p # end PROVE FALSE
    <3>1. p \in 1..Len(table) BY <1>1, <2>1
    <3>2. table[p].stamp >= NextStamp BY <1>1, <1>4, <3>1
    <3>3. table[p].stamp < NextStamp BY <3>1, NextStampIsPast
    <3>4. table[p].stamp \in Nat BY <3>1, StampType
    <3> QED BY <3>2, <3>3, <3>4, NextStampIsPast
  <2> QED BY <2>1
<1>6. SubSeq(table, 1, p - 1) = table
  <2>1. p - 1 = Len(table) BY <1>1, <1>5
  <2> QED BY <1>1, <2>1, SubSeqFull
<1>7. SubSeq(table, p, Len(table)) = <<>> BY <1>1, <1>5, SubSeqEmpty
<1> HIDE DEF m
<1>8. <<m>> \in Seq(Message) /\ Len(<<m>>) = 1 /\ <<m>>[1] = m BY <1>2
<1>9. /\ table \o <<m>> \in Seq(Message)
      /\ Len(table \o <<m>>) = Len(table) + 1
      /\ \A i \in 1..Len(table) + 1 :
           (table \o <<m>>)[i] = IF i <= Len(table) THEN table[i] ELSE <<m>>[i - Len(table)]
  BY <1>1, <1>8, ConcatProperties
<1>10. table' = table \o <<m>> BY <1>4, <1>6, <1>7, <1>9, ConcatEmptySeq
<1>11. /\ \A i \in 1..Len(table) : table'[i] = table[i]
       /\ table'[Len(table) + 1] = m
  BY <1>1, <1>8, <1>9, <1>10
<1>12. /\ m.n = Len(table) + 1 /\ m.sender = sender /\ m.type = type /\ m.stamp = NextStamp
  BY DEF m
<1>13. Grows(sender, type) BY <1>9, <1>10, <1>11, <1>12 DEF Grows
<1> QED BY <1>3, <1>9, <1>10, <1>11, <1>12, <1>13, NextStampIsPast

LEMMA GrowsKeepsInv ==
  ASSUME LogInv,
         NEW sender \in Users \union {System}, NEW type \in Types,
         Insert(sender, type), UNCHANGED <<clock, turns>>
  PROVE  LogInv'
<1>1. Len(table) \in Nat BY LenProperties DEF LogInv
<1>2. Numbered'
  <2>1. ASSUME NEW i \in 1..Len(table') PROVE table'[i].n = i
    <3>1. CASE i \in 1..Len(table) BY <3>1, InsertGrows DEF Grows, LogInv, Numbered
    <3>2. CASE i = Len(table) + 1 BY <3>2, InsertGrows DEF Grows
    <3> QED BY <1>1, <2>1, <3>1, <3>2, InsertGrows DEF Grows
  <2> QED BY <2>1 DEF Numbered
<1>3. Covered'
  <2>1. ASSUME NEW i \in 1..Len(table') PROVE table'[i].stamp <= lastStamp'
    <3>1. lastStamp' \in Nat BY InsertGrows
    <3>2. CASE i \in 1..Len(table)
      <4>1. table'[i] = table[i] BY <3>2, InsertGrows DEF Grows
      <4>2. table[i].stamp < lastStamp' BY <3>2, InsertGrows
      <4>3. table[i].stamp \in Nat BY <3>2, StampType
      <4> QED BY <3>1, <4>1, <4>2, <4>3
    <3>3. CASE i = Len(table) + 1
      <4>1. table'[Len(table) + 1].stamp = lastStamp' BY InsertGrows
      <4>2. table'[i].stamp = lastStamp' BY <3>3, <4>1
      <4> QED BY <3>1, <4>2
    <3> QED BY <1>1, <2>1, <3>2, <3>3, InsertGrows DEF Grows
  <2> QED BY <2>1 DEF Covered
<1> QED BY <1>2, <1>3, InsertGrows DEF LogInv

LEMMA InitLogInv == Init => LogInv
<1> SUFFICES ASSUME Init PROVE LogInv OBVIOUS
<1>1. table \in Seq(Message) /\ Len(table) = 0 BY EmptySeq DEF Init
<1> QED BY <1>1 DEF Init, LogInv, Numbered, Covered

LEMMA NextLogInv ==
  ASSUME ClockTrusted, LogInv, [Next]_vars
  PROVE  LogInv'
<1>1. ASSUME UNCHANGED <<clock, lastStamp, table, turns>> PROVE LogInv'
  BY <1>1 DEF LogInv, Numbered, Covered
<1>2. ASSUME NEW t \in 1..MaxTime, clock' = t, UNCHANGED <<table, turns>>,
             lastStamp' \in {lastStamp, 0}, Sound(lastStamp', t)
      PROVE  LogInv'
  <2>1. t \in Nat \ {0} BY MessageLogAssumption
  <2>2. Covered'
    <3>1. ASSUME NEW i \in 1..Len(table)
          PROVE  table[i].stamp <= lastStamp' \/ (lastStamp' = 0 /\ table[i].stamp < t)
      <4>1. i \in DOMAIN table /\ table[i].stamp \in Nat
        BY LenProperties, StampType DEF LogInv
      <4>2. CASE lastStamp' = 0
        <5>1. ~(table[i].stamp >= t) BY <1>2, <4>1, <4>2 DEF Sound, Stored
        <5> QED BY <2>1, <4>1, <4>2, <5>1
      <4>3. CASE lastStamp' # 0
        BY <1>2, <4>3 DEF LogInv, Covered
      <4> QED BY <4>2, <4>3
    <3> QED BY <1>2, <3>1 DEF Covered
  <2> QED BY <1>2, <2>1, <2>2 DEF LogInv, Numbered
<1>3. CASE UNCHANGED vars BY <1>1, <1>3 DEF vars
<1>4. ASSUME NEW t \in 1..MaxTime, MoveClock(t) PROVE LogInv'
  BY <1>2, <1>4 DEF MoveClock, room
<1>5. ASSUME NEW t \in 1..MaxTime, Restart(t) PROVE LogInv'
  BY <1>2, <1>5 DEF Restart, room
<1>6. ASSUME NEW user \in Users, Post(user) PROVE LogInv'
  BY <1>6, GrowsKeepsInv DEF Post, Types, room
<1>7. ASSUME NEW user \in Users, RefuseRate(user) PROVE LogInv'
  BY <1>1, <1>7 DEF RefuseRate, room
<1>8. ASSUME NEW user \in Users, UploadMessage(user) PROVE LogInv'
  BY <1>8, GrowsKeepsInv DEF UploadMessage, Types, room
<1>9. CASE SystemEvent
  BY <1>9, GrowsKeepsInv DEF SystemEvent, Types, room
<1>10. ASSUME NEW on \in BOOLEAN, PauseAll(on) PROVE LogInv'
  BY <1>1, <1>10 DEF PauseAll
<1>11. ASSUME NEW on \in BOOLEAN, NEW user \in Agents, PauseParticipant(user, on) PROVE LogInv'
  BY <1>1, <1>11 DEF PauseParticipant
<1>12. ASSUME NEW new \in TurnOverrides \union {Unset}, PatchTurns(new) PROVE LogInv'
  BY <1>12 DEF PatchTurns, LogInv, Numbered, Covered
<1>13. ASSUME NEW reader \in Readers, Read(reader) PROVE LogInv'
  BY <1>1, <1>13 DEF Read, room
<1> QED
  BY <1>3, <1>4, <1>5, <1>6, <1>7, <1>8, <1>9, <1>10, <1>11, <1>12, <1>13 DEF Next

LEMMA LogInductive == ASSUME ClockTrusted PROVE Spec => []LogInv
<1>1. LogInv /\ [Next]_vars => LogInv' BY NextLogInv
<1> QED BY <1>1, InitLogInv, PTL DEF Spec

\* Messages are kept in the order of their acceptance, whatever is done to the
\* clock while a process runs (monotonicNowIso of db.ts).
THEOREM LogIsOrdered == ASSUME ClockTrusted PROVE Spec => []InAcceptanceOrder
<1>1. LogInv => InAcceptanceOrder
  <2> SUFFICES ASSUME LogInv, NEW i \in DOMAIN table, NEW j \in DOMAIN table, i < j
               PROVE  table[i].n < table[j].n
    BY DEF InAcceptanceOrder
  <2>1. i \in 1..Len(table) /\ j \in 1..Len(table) BY LenProperties DEF LogInv
  <2> QED BY <2>1 DEF LogInv, Numbered
<1> QED BY <1>1, LogInductive, PTL

-----------------------------------------------------------------------------
(* Readers.                                                                *)

\* A cursor stands in the table, and its reader was given all before it.
ReadInv == \A r \in Readers : /\ cursor[r] \in 0..Len(table)
                              /\ 1..cursor[r] \subseteq seen[r]

ReadersInv == /\ LogInv /\ ReadInv
              /\ cursor \in [Readers -> Nat] /\ seen \in [Readers -> SUBSET Nat]

LEMMA PlaceIsNumber ==
  ASSUME LogInv, NEW k \in 0..Len(table)
  PROVE  Place(k) = k
<1>1. Len(table) \in Nat /\ DOMAIN table = 1..Len(table) BY LenProperties DEF LogInv
<1>2. CASE k = 0 BY <1>2 DEF Place
<1>3. CASE k # 0
  <2>1. k \in DOMAIN table /\ table[k].n = k BY <1>1, <1>3 DEF LogInv, Numbered
  <2>2. ASSUME NEW i \in DOMAIN table, table[i].n = k PROVE i = k
    BY <1>1, <2>2 DEF LogInv, Numbered
  <2> QED BY <1>3, <2>1, <2>2 DEF Place
<1> QED BY <1>2, <1>3

\* A page that is not empty ends beyond the cursor and leaves nothing out.
LEMMA PageIsNext ==
  ASSUME ReadersInv, NEW r \in Readers, Page(r) # <<>>
  PROVE  \E to \in cursor[r] + 1..Len(table) :
           /\ Len(Page(r)) = to - cursor[r]
           /\ \A i \in 1..Len(Page(r)) : Page(r)[i].n = cursor[r] + i
<1> DEFINE from == cursor[r]
           to == IF from + PageLimit < Len(table) THEN from + PageLimit ELSE Len(table)
<1>1. Len(table) \in Nat /\ from \in 0..Len(table)
  BY LenProperties DEF ReadersInv, ReadInv, LogInv
<1>2. Place(cursor[r]) = from BY <1>1, PlaceIsNumber DEF ReadersInv
<1>3. Page(r) = SubSeq(table, from + 1, to) BY <1>2 DEF Page
<1>4. to \in Nat /\ to <= Len(table) BY <1>1, MessageLogAssumption
<1> HIDE DEF to
<1>5. from + 1 <= to
  <2>1. ASSUME to < from + 1 PROVE FALSE
    <3>1. SubSeq(table, from + 1, to) = <<>> BY <1>1, <1>4, <2>1, SubSeqEmpty
    <3> QED BY <1>3, <3>1
  <2> QED BY <1>1, <1>4, <2>1
<1>6. \A i \in from + 1..to : table[i] \in Message
  BY <1>1, <1>4, ElementOfSeq DEF ReadersInv, LogInv
<1>7. /\ Len(Page(r)) = to - from
      /\ \A i \in 1..to - from : Page(r)[i] = table[from + i]
  <2>1. from + 1 \in Int /\ to \in Int BY <1>1, <1>4
  <2>2. /\ Len(SubSeq(table, from + 1, to)) = IF from + 1 <= to THEN to - (from + 1) + 1 ELSE 0
        /\ \A i \in 1..to - (from + 1) + 1 :
             SubSeq(table, from + 1, to)[i] = table[from + 1 + i - 1]
    BY <1>6, <2>1, SubSeqProperties
  <2>3. /\ to - (from + 1) + 1 = to - from
        /\ \A i \in 1..to - from : from + 1 + i - 1 = from + i
    BY <1>1, <1>4
  <2> QED BY <1>3, <1>5, <2>2, <2>3
<1>8. ASSUME NEW i \in 1..to - from PROVE table[from + i].n = from + i
  <2>1. from + i \in 1..Len(table) BY <1>1, <1>4
  <2> QED BY <2>1 DEF ReadersInv, LogInv, Numbered
<1>9. to \in from + 1..Len(table) BY <1>1, <1>4, <1>5
<1> QED BY <1>7, <1>8, <1>9

LEMMA ReadKeepsInv ==
  ASSUME ReadersInv, NEW reader \in Readers, Read(reader), LogInv'
  PROVE  ReadersInv'
<1> DEFINE page == Page(reader)
           from == cursor[reader]
<1>1. page # <<>> /\ table' = table BY DEF Read
<1>2. PICK to \in from + 1..Len(table) :
        /\ Len(page) = to - from
        /\ \A i \in 1..Len(page) : page[i].n = from + i
  BY <1>1, PageIsNext
<1>3. from \in Nat /\ Len(table) \in Nat /\ to \in Nat
  BY <1>2, LenProperties DEF ReadersInv, ReadInv, LogInv
<1>4. Len(page) \in 1..Len(page) /\ page[Len(page)].n = to
  <2> HIDE DEF page
  <2>1. Len(page) = to - from /\ to - from \in Nat \ {0} BY <1>2, <1>3
  <2>2. Len(page) \in 1..Len(page) BY <2>1
  <2>3. page[Len(page)].n = from + Len(page) BY <1>2, <2>2
  <2> QED BY <1>3, <2>1, <2>2, <2>3
<1>5. DOMAIN page = 1..Len(page)
  <2>1. ASSUME NEW s, NEW m \in Int, NEW n \in Int
        PROVE  DOMAIN SubSeq(s, m, n) = 1..(IF m <= n THEN n - m + 1 ELSE 0)
               /\ Len(SubSeq(s, m, n)) = IF m <= n THEN n - m + 1 ELSE 0
    OBVIOUS
  <2>2. Place(from) \in Int BY <1>3, PlaceIsNumber DEF ReadersInv, ReadInv
  <2>3. PageLimit \in Int BY MessageLogAssumption
  <2> QED BY <1>3, <2>1, <2>2, <2>3 DEF Page
<1>6. {page[i].n : i \in DOMAIN page} = from + 1..to
  <2>1. ASSUME NEW i \in 1..Len(page) PROVE page[i].n \in from + 1..to
    <3>1. Len(page) \in Nat /\ page[i].n = from + i /\ i \in 1..to - from
      BY <1>2, <1>3, <2>1
    <3> HIDE DEF page
    <3> QED BY <1>3, <3>1
  <2>2. ASSUME NEW n \in from + 1..to PROVE \E i \in 1..Len(page) : page[i].n = n
    <3>1. n - from \in 1..Len(page) BY <1>2, <1>3
    <3>2. page[n - from].n = n BY <1>2, <1>3, <3>1
    <3> QED BY <3>1, <3>2
  <2> QED BY <1>5, <2>1, <2>2
<1>7. /\ cursor' = [cursor EXCEPT ![reader] = to]
      /\ seen' = [seen EXCEPT ![reader] = @ \union (from + 1..to)]
  BY <1>4, <1>6 DEF Read
<1> HIDE DEF page
<1>8. cursor' \in [Readers -> Nat] /\ seen' \in [Readers -> SUBSET Nat]
  <2>1. from + 1..to \subseteq Nat BY <1>3
  <2> QED BY <1>3, <1>7, <2>1 DEF ReadersInv
<1>9. ReadInv'
  <2> SUFFICES ASSUME NEW r \in Readers
               PROVE  cursor'[r] \in 0..Len(table) /\ 1..cursor'[r] \subseteq seen'[r]
    BY <1>1 DEF ReadInv
  <2>1. CASE r = reader
    <3>1. cursor'[r] = to /\ seen'[r] = seen[reader] \union (from + 1..to)
      BY <1>7, <2>1 DEF ReadersInv
    <3>2. 1..from \subseteq seen[reader] BY DEF ReadersInv, ReadInv
    <3>3. to \in 0..Len(table)' BY <1>1, <1>2, <1>3
    <3>4. \A n \in 1..to : n \in 1..from \/ n \in from + 1..to BY <1>3
    <3> QED BY <1>1, <3>1, <3>2, <3>3, <3>4
  <2>2. CASE r # reader
    BY <1>7, <2>2 DEF ReadersInv, ReadInv
  <2> QED BY <2>1, <2>2
<1> QED BY <1>8, <1>9 DEF ReadersInv

\* Every other step leaves the readers alone and takes nothing from the table.
LEMMA LongerLogKeepsReaders ==
  ASSUME ReadersInv, UNCHANGED reading, LogInv',
         table' = table \/ \E sender, type : Grows(sender, type)
  PROVE  ReadersInv'
<1>1. Len(table) \in Nat BY LenProperties DEF ReadersInv, LogInv
<1>2. Len(table') \in Nat /\ Len(table) <= Len(table') BY <1>1 DEF Grows
<1> QED BY <1>1, <1>2 DEF reading, ReadersInv, ReadInv

LEMMA NextReadersInv ==
  ASSUME ClockTrusted, ReadersInv, [Next]_vars
  PROVE  ReadersInv'
<1>1. LogInv' /\ LogInv BY NextLogInv DEF ReadersInv
<1>2. ASSUME UNCHANGED <<table, reading>> PROVE ReadersInv'
  BY <1>1, <1>2, LongerLogKeepsReaders DEF reading
<1>3. ASSUME NEW sender \in Users \union {System}, NEW type \in Types,
             Insert(sender, type), UNCHANGED reading
      PROVE  ReadersInv'
  <2>1. Grows(sender, type) BY <1>1, <1>3, InsertGrows
  <2> QED BY <1>1, <1>3, <2>1, LongerLogKeepsReaders
<1>4. CASE UNCHANGED vars BY <1>2, <1>4 DEF vars, reading
<1>5. ASSUME NEW t \in 1..MaxTime, MoveClock(t) \/ Restart(t) PROVE ReadersInv'
  BY <1>2, <1>5 DEF MoveClock, Restart, reading
<1>6. ASSUME NEW user \in Users, Post(user) PROVE ReadersInv'
  BY <1>3, <1>6 DEF Post, Types
<1>7. ASSUME NEW user \in Users, RefuseRate(user) PROVE ReadersInv'
  BY <1>2, <1>7 DEF RefuseRate, reading
<1>8. ASSUME NEW user \in Users, UploadMessage(user) PROVE ReadersInv'
  BY <1>3, <1>8 DEF UploadMessage, Types
<1>9. CASE SystemEvent BY <1>3, <1>9 DEF SystemEvent, Types
<1>10. ASSUME NEW on \in BOOLEAN, PauseAll(on) PROVE ReadersInv'
  BY <1>2, <1>10 DEF PauseAll, reading
<1>11. ASSUME NEW on \in BOOLEAN, NEW user \in Agents, PauseParticipant(user, on)
       PROVE  ReadersInv'
  BY <1>2, <1>11 DEF PauseParticipant, reading
<1>12. ASSUME NEW new \in TurnOverrides \union {Unset}, PatchTurns(new) PROVE ReadersInv'
  BY <1>2, <1>12 DEF PatchTurns, reading
<1>13. ASSUME NEW reader \in Readers, Read(reader) PROVE ReadersInv'
  BY <1>1, <1>13, ReadKeepsInv
<1> QED
  BY <1>4, <1>5, <1>6, <1>7, <1>8, <1>9, <1>10, <1>11, <1>12, <1>13 DEF Next

\* A cursor passes over no message its reader was not given: paging by
\* `after` in routes/messages.ts loses nothing.
THEOREM CursorsLoseNothing == ASSUME ClockTrusted PROVE Spec => []NothingInvisible
<1>1. Init => ReadersInv
  <2> SUFFICES ASSUME Init PROVE ReadersInv OBVIOUS
  <2>1. Len(table) = 0 BY EmptySeq DEF Init
  <2>2. ASSUME NEW r \in Readers
        PROVE  cursor[r] \in 0..Len(table) /\ 1..cursor[r] \subseteq seen[r]
    BY <2>1 DEF Init
  <2> QED BY <2>2, InitLogInv DEF Init, ReadersInv, ReadInv
<1>2. ReadersInv /\ [Next]_vars => ReadersInv' BY NextReadersInv
<1>3. ReadersInv => NothingInvisible
  <2> SUFFICES ASSUME ReadersInv, NEW r \in Readers, NEW i \in 1..Place(cursor[r])
               PROVE  table[i].n \in seen[r]
    BY DEF NothingInvisible
  <2>1. Len(table) \in Nat /\ cursor[r] \in 0..Len(table)
    BY LenProperties DEF ReadersInv, ReadInv, LogInv
  <2>2. Place(cursor[r]) = cursor[r] BY <2>1, PlaceIsNumber DEF ReadersInv
  <2>3. i \in 1..cursor[r] /\ i \in 1..Len(table) BY <2>1, <2>2
  <2>4. table[i].n = i BY <2>3 DEF ReadersInv, LogInv, Numbered
  <2> QED BY <2>3, <2>4 DEF ReadersInv, ReadInv
<1> QED BY <1>1, <1>2, <1>3, PTL DEF Spec
-----------------------------------------------------------------------------
(* Agents stop.                                                            *)

\* The messages that the turn limit counts, by their places.
Trail == {i \in DOMAIN table : IsAgents(table[i])
            /\ \A j \in i..Len(table) : ~BreaksRun(table[j])}

\* No human has spoken after message n.
Unbroken(n) == \A i \in DOMAIN table : table[i].n > n => ~BreaksRun(table[i])

Bounded(n) == \E limit \in TurnOverrides \union {DefaultTurns} : Cardinality(Since(n)) <= limit

LEMMA SinceFinite ==
  ASSUME LogInv, NEW n
  PROVE  IsFiniteSet(Since(n)) /\ IsFiniteSet(Trail)
<1>1. DOMAIN table = 1..Len(table) /\ Len(table) \in Nat BY LenProperties DEF LogInv
<1>2. IsFiniteSet(DOMAIN table) BY <1>1, FS_Interval
<1>3. Since(n) \in SUBSET DOMAIN table /\ Trail \in SUBSET DOMAIN table BY DEF Since, Trail
<1> QED BY <1>2, <1>3, FS_Subset

\* Nothing has been said since the last message, whatever a step added.
LEMMA NothingSinceEnd ==
  ASSUME LogInv'
  PROVE  Bounded(Len(table))'
<1>1. DOMAIN table' = 1..Len(table') /\ Len(table') \in Nat BY LenProperties DEF LogInv
<1>2. Since(Len(table))' = {} BY <1>1 DEF Since, LogInv, Numbered
<1>3. Cardinality(Since(Len(table))') = 0 BY <1>2, FS_EmptySet
<1>4. DefaultTurns \in Nat BY MessageLogAssumption
<1> QED BY <1>3, <1>4 DEF Bounded

\* A message that is not an agent's post adds nothing to what is counted, and
\* one that breaks the run leaves nothing to count.
LEMMA OtherMessage ==
  ASSUME LogInv, LogInv', NoRunaway, NEW sender, NEW type, Grows(sender, type),
         ~(sender \in Agents /\ type = "posted")
  PROVE  NoRunaway'
<1>1. DOMAIN table = 1..Len(table) /\ Len(table) \in Nat BY LenProperties DEF LogInv
<1>2. DOMAIN table' = 1..Len(table) + 1 /\ Len(table') = Len(table) + 1
  BY LenProperties DEF LogInv, Grows
<1> SUFFICES ASSUME NEW n \in 0..Len(table'), Unbroken(n)' PROVE Bounded(n)'
  BY DEF NoRunaway, Unbroken, Bounded
<1>3. CASE n = Len(table')
  <2>1. Bounded(Len(table))' BY NothingSinceEnd
  <2> QED BY <1>3, <2>1 DEF Bounded, Since
<1>4. CASE n \in 0..Len(table)
  <2>1. \A i \in DOMAIN table : i \in DOMAIN table' /\ table'[i] = table[i]
    BY <1>1, <1>2 DEF Grows
  <2>2. Unbroken(n) BY <2>1 DEF Unbroken, BreaksRun
  <2>3. Bounded(n) BY <1>4, <2>2 DEF NoRunaway, Unbroken, Bounded
  <2>4. ~(IsAgents(table'[Len(table) + 1]) /\ table'[Len(table) + 1].type = "posted")
    BY DEF Grows, IsAgents
  <2>5. Since(n)' = Since(n)
    <3>1. ASSUME NEW i \in Since(n)' PROVE i \in Since(n)
      <4>1. i \in 1..Len(table) + 1 /\ i # Len(table) + 1 BY <1>2, <2>4 DEF Since, IsAgents
      <4>2. i \in DOMAIN table BY <1>1, <4>1
      <4> QED BY <2>1, <4>2 DEF Since, IsAgents
    <3>2. ASSUME NEW i \in Since(n) PROVE i \in Since(n)'
      BY <2>1 DEF Since, IsAgents
    <3> QED BY <3>1, <3>2
  <2> QED BY <2>3, <2>5 DEF Bounded
<1> QED BY <1>1, <1>2, <1>3, <1>4

\* An agent's post goes past the limit by nothing: the run it extends was
\* shorter than the limit in force.
LEMMA AgentPosts ==
  ASSUME LogInv, LogInv', NoRunaway, NEW user \in Agents, Grows(user, "posted"),
         TrailingAgentRun < EffectiveTurns
  PROVE  NoRunaway'
<1>1. DOMAIN table = 1..Len(table) /\ Len(table) \in Nat BY LenProperties DEF LogInv
<1>2. DOMAIN table' = 1..Len(table) + 1 /\ Len(table') = Len(table) + 1
  BY LenProperties DEF LogInv, Grows
<1>3. EffectiveTurns \in TurnOverrides \union {DefaultTurns} /\ EffectiveTurns \in Nat
  BY MessageLogAssumption DEF EffectiveTurns, LogInv
<1> SUFFICES ASSUME NEW n \in 0..Len(table'), Unbroken(n)' PROVE Bounded(n)'
  BY DEF NoRunaway, Unbroken, Bounded
<1>4. CASE n = Len(table')
  <2>1. Bounded(Len(table))' BY NothingSinceEnd
  <2> QED BY <1>4, <2>1 DEF Bounded, Since
<1>5. CASE n \in 0..Len(table)
  <2>1. \A i \in DOMAIN table : i \in DOMAIN table' /\ table'[i] = table[i] /\ table[i].n = i
    BY <1>1, <1>2 DEF Grows, LogInv, Numbered
  <2>2. Since(n)' \subseteq Trail \union {Len(table) + 1}
    <3>1. ASSUME NEW i \in Since(n)', i # Len(table) + 1 PROVE i \in Trail
      <4>1. i \in 1..Len(table) + 1 BY <1>2 DEF Since
      <4>2. i \in DOMAIN table BY <1>1, <3>1, <4>1
      <4>3. IsAgents(table[i]) /\ i > n BY <2>1, <4>2 DEF Since, IsAgents
      <4>4. ASSUME NEW j \in i..Len(table) PROVE ~BreaksRun(table[j])
        <5>1. j \in DOMAIN table /\ j > n BY <1>1, <1>5, <4>1, <4>3
        <5> QED BY <2>1, <5>1 DEF Unbroken, BreaksRun
      <4> QED BY <4>2, <4>3, <4>4 DEF Trail
    <3> QED BY <3>1
  <2>3. IsFiniteSet(Trail) BY SinceFinite
  <2>4. Cardinality(Trail) \in Nat BY <2>3, FS_CardinalityType
  <2>5. Cardinality(Trail) < EffectiveTurns BY DEF TrailingAgentRun, Trail
  <2>6. /\ IsFiniteSet(Trail \union {Len(table) + 1})
        /\ Cardinality(Trail \union {Len(table) + 1}) <= Cardinality(Trail) + 1
    <3>1. /\ IsFiniteSet(Trail \union {Len(table) + 1})
          /\ Cardinality(Trail \union {Len(table) + 1}) =
               IF Len(table) + 1 \in Trail THEN Cardinality(Trail) ELSE Cardinality(Trail) + 1
      BY <2>3, FS_AddElement
    <3> QED BY <2>4, <3>1
  <2>7. /\ IsFiniteSet(Since(n)')
        /\ Cardinality(Since(n)') <= Cardinality(Trail \union {Len(table) + 1})
    BY <2>2, <2>6, FS_Subset
  <2>8. /\ Cardinality(Since(n)') \in Nat
        /\ Cardinality(Trail \union {Len(table) + 1}) \in Nat
    BY <2>6, <2>7, FS_CardinalityType
  <2>9. Cardinality(Since(n)') <= EffectiveTurns
    BY <1>3, <2>4, <2>5, <2>6, <2>7, <2>8
  <2> QED BY <1>3, <2>9 DEF Bounded
<1> QED BY <1>1, <1>2, <1>4, <1>5

LEMMA NextNoRunaway ==
  ASSUME ClockTrusted, LogInv, NoRunaway, [Next]_vars
  PROVE  NoRunaway'
<1>1. LogInv' BY NextLogInv
<1>2. ASSUME UNCHANGED table PROVE NoRunaway'
  BY <1>2 DEF NoRunaway, Since, BreaksRun, IsAgents
<1>3. ASSUME NEW user \in Users, Post(user) PROVE NoRunaway'
  <2>1. Grows(user, "posted") BY <1>3, InsertGrows DEF Post, Types
  <2>2. CASE user \in Agents
    <3>1. TrailingAgentRun < EffectiveTurns BY <1>3, <2>2 DEF Post, MaySpeak
    <3> QED BY <1>1, <2>1, <2>2, <3>1, AgentPosts
  <2>3. CASE user \notin Agents BY <1>1, <2>1, <2>3, OtherMessage
  <2> QED BY <2>2, <2>3
<1>4. ASSUME NEW user \in Users, UploadMessage(user) PROVE NoRunaway'
  <2>1. Grows(user, "artifact_uploaded") BY <1>4, InsertGrows DEF UploadMessage, Types
  <2> QED BY <1>1, <2>1, OtherMessage
<1>5. CASE SystemEvent
  <2>1. Grows(System, "system_event") BY <1>5, InsertGrows DEF SystemEvent, Types
  <2> QED BY <1>1, <2>1, OtherMessage
<1>6. CASE UNCHANGED vars BY <1>2, <1>6 DEF vars
<1>7. ASSUME NEW t \in 1..MaxTime, MoveClock(t) \/ Restart(t) PROVE NoRunaway'
  BY <1>2, <1>7 DEF MoveClock, Restart
<1>8. ASSUME NEW user \in Users, RefuseRate(user) PROVE NoRunaway'
  BY <1>2, <1>8 DEF RefuseRate
<1>9. ASSUME NEW on \in BOOLEAN, PauseAll(on) PROVE NoRunaway'
  BY <1>2, <1>9 DEF PauseAll
<1>10. ASSUME NEW on \in BOOLEAN, NEW user \in Agents, PauseParticipant(user, on)
       PROVE  NoRunaway'
  BY <1>2, <1>10 DEF PauseParticipant
<1>11. ASSUME NEW new \in TurnOverrides \union {Unset}, PatchTurns(new) PROVE NoRunaway'
  BY <1>2, <1>11 DEF PatchTurns
<1>12. ASSUME NEW reader \in Readers, Read(reader) PROVE NoRunaway'
  BY <1>2, <1>12 DEF Read
<1> QED BY <1>3, <1>4, <1>5, <1>6, <1>7, <1>8, <1>9, <1>10, <1>11, <1>12 DEF Next

\* Agents that answer each other stop at the turn limit, however it is changed
\* and whatever is uploaded or announced in between (policy.ts, messages.ts).
THEOREM AgentsStop == ASSUME ClockTrusted PROVE Spec => []NoRunaway
<1>1. Init => NoRunaway
  <2> SUFFICES ASSUME Init PROVE NoRunaway OBVIOUS
  <2>1. LogInv BY InitLogInv
  <2>2. Len(table) = 0 /\ DOMAIN table = {} BY <2>1, EmptySeq, LenProperties DEF Init
  <2>3. \A n : Since(n) = {} BY <2>2 DEF Since
  <2>4. \A n : Cardinality(Since(n)) = 0 BY <2>3, FS_EmptySet
  <2> QED BY <2>4, MessageLogAssumption DEF NoRunaway
<1>2. LogInv /\ NoRunaway /\ [Next]_vars => NoRunaway' BY NextNoRunaway
<1> QED BY <1>1, <1>2, LogInductive, PTL DEF Spec

-----------------------------------------------------------------------------
(* Types and the rate limit, which need nothing of the clock.              *)

\* A cursor names a message of the table, whose own name is at most its length.
Standing ==
  /\ \A i \in 1..Len(table) : table[i].n <= Len(table)
  /\ \A r \in Readers : cursor[r] = 0 \/ \E i \in 1..Len(table) : table[i].n = cursor[r]

TypeInv == TypeOK /\ Standing

\* The row that Insert adds.
Row(sender, type) ==
  [n |-> Len(table) + 1, sender |-> sender, type |-> type, stamp |-> NextStamp, at |-> clock]

\* Wherever it is put, the rows are the old ones and the new one.
LEMMA InsertKeepsRows ==
  ASSUME TypeOK,
         NEW sender \in Users \union {System}, NEW type \in Types,
         Insert(sender, type)
  PROVE  /\ Row(sender, type) \in Message
         /\ table' \in Seq(Message) /\ Len(table') = Len(table) + 1
         /\ Len(table') <= MaxMessages /\ lastStamp' \in Nat
         /\ \A i \in 1..Len(table') :
              table'[i] = Row(sender, type) \/ \E j \in 1..Len(table) : table'[i] = table[j]
         /\ \A j \in 1..Len(table) : \E i \in 1..Len(table') : table'[i] = table[j]
<1> DEFINE m == Row(sender, type)
           size == Len(table)
<1>1. size \in Nat /\ table \in Seq(Message) /\ clock \in Nat \ {0} /\ lastStamp \in Nat
  BY LenProperties, MessageLogAssumption DEF TypeOK
<1>2. NextStamp \in Nat BY <1>1 DEF NextStamp
<1>3. m \in Message BY <1>1, <1>2 DEF Message, Row
<1>4. /\ size < MaxMessages
      /\ lastStamp' = NextStamp
  BY DEF Insert
<1>5. PICK p \in 1..size + 1 :
        table' = SubSeq(table, 1, p - 1) \o <<m>> \o SubSeq(table, p, size)
  BY DEF Insert, Row
<1> HIDE DEF m
<1> DEFINE head == SubSeq(table, 1, p - 1)
           tail == SubSeq(table, p, size)
<1>6. /\ head \in Seq(Message) /\ Len(head) = p - 1
      /\ \A i \in 1..p - 1 : head[i] = table[i]
  BY <1>1, SubSeqProperties
<1>7. /\ tail \in Seq(Message) /\ Len(tail) = size - p + 1
      /\ \A i \in 1..size - p + 1 : tail[i] = table[p + i - 1]
  <2>1. p \in Int /\ size \in Int /\ \A i \in p..size : table[i] \in Message
    BY <1>1, ElementOfSeq
  <2>2. Len(tail) = IF p <= size THEN size - p + 1 ELSE 0 BY <2>1, SubSeqProperties
  <2>3. Len(tail) = size - p + 1 BY <1>1, <2>2
  <2> QED BY <2>1, <2>3, SubSeqProperties
<1> HIDE DEF head, tail
<1>8. <<m>> \in Seq(Message) /\ Len(<<m>>) = 1 /\ <<m>>[1] = m BY <1>3
<1>9. /\ head \o <<m>> \in Seq(Message)
      /\ Len(head \o <<m>>) = p
      /\ \A i \in 1..p : (head \o <<m>>)[i] = IF i < p THEN table[i] ELSE m
  <2>1. /\ head \o <<m>> \in Seq(Message)
        /\ Len(head \o <<m>>) = Len(head) + Len(<<m>>)
        /\ \A i \in 1..Len(head) + Len(<<m>>) :
             (head \o <<m>>)[i] = IF i <= Len(head) THEN head[i] ELSE <<m>>[i - Len(head)]
    BY <1>6, <1>8, ConcatProperties
  <2>2. ASSUME NEW i \in 1..p, i < p PROVE (head \o <<m>>)[i] = table[i]
    BY <1>1, <1>6, <1>8, <2>1, <2>2
  <2>3. ASSUME NEW i \in 1..p, ~(i < p) PROVE (head \o <<m>>)[i] = m
    <3>1. i = p /\ i \in 1..Len(head) + Len(<<m>>) /\ ~(i <= Len(head)) /\ i - Len(head) = 1
      BY <1>1, <1>6, <1>8, <2>3
    <3> QED BY <1>8, <2>1, <3>1
  <2>4. Len(head) + Len(<<m>>) = p BY <1>1, <1>6, <1>8
  <2> QED BY <2>1, <2>2, <2>3, <2>4
<1> DEFINE front == head \o <<m>>
<1> HIDE DEF front
<1>10. /\ front \in Seq(Message) /\ Len(front) = p
       /\ \A i \in 1..p : front[i] = IF i < p THEN table[i] ELSE m
  BY <1>9 DEF front
<1>11. /\ table' \in Seq(Message)
       /\ Len(table') = size + 1
       /\ \A i \in 1..size + 1 :
            table'[i] = IF i < p THEN table[i] ELSE IF i = p THEN m ELSE table[i - 1]
  <2>1. /\ front \o tail \in Seq(Message)
        /\ Len(front \o tail) = Len(front) + Len(tail)
        /\ \A i \in 1..Len(front) + Len(tail) :
             (front \o tail)[i] = IF i <= Len(front) THEN front[i] ELSE tail[i - Len(front)]
    BY <1>7, <1>10, ConcatProperties
  <2>2. table' = front \o tail BY <1>5 DEF front, head, tail
  <2> QED BY <1>1, <1>7, <1>10, <2>1, <2>2
<1>12. ASSUME NEW i \in 1..Len(table')
       PROVE  table'[i] = m \/ \E j \in 1..size : table'[i] = table[j]
  <2>1. CASE i < p BY <1>1, <1>11, <2>1
  <2>2. CASE i = p BY <1>11, <2>2
  <2>3. CASE i > p BY <1>1, <1>11, <2>3
  <2> QED BY <1>1, <1>11, <2>1, <2>2, <2>3
<1>13. ASSUME NEW j \in 1..size PROVE \E i \in 1..Len(table') : table'[i] = table[j]
  <2>1. CASE j < p BY <1>1, <1>11, <2>1
  <2>2. CASE j >= p
    <3>1. j + 1 \in 1..size + 1 /\ table'[j + 1] = table[j] BY <1>1, <1>11, <2>2
    <3> QED BY <1>11, <3>1
  <2> QED BY <1>1, <2>1, <2>2
<1>14. lastStamp' \in Nat /\ Len(table') <= MaxMessages
  BY <1>1, <1>2, <1>4, <1>11, MessageLogAssumption
<1> QED BY <1>3, <1>11, <1>12, <1>13, <1>14 DEF m

LEMMA InsertKeepsStanding ==
  ASSUME TypeInv,
         NEW sender \in Users \union {System}, NEW type \in Types,
         Insert(sender, type), UNCHANGED cursor
  PROVE  Standing'
<1>1. Len(table) \in Nat BY LenProperties DEF TypeInv, TypeOK
<1>2. ASSUME NEW i \in 1..Len(table') PROVE table'[i].n <= Len(table')
  <2>1. CASE table'[i] = Row(sender, type)
    BY <1>1, <2>1, InsertKeepsRows DEF TypeInv, Row
  <2>2. ASSUME NEW j \in 1..Len(table), table'[i] = table[j] PROVE table'[i].n <= Len(table')
    <3>1. table[j] \in Message BY ElementOfSeq DEF TypeInv, TypeOK
    <3>2. table[j].n \in Nat /\ table[j].n <= Len(table)
      BY <3>1 DEF TypeInv, Standing, Message
    <3>3. Len(table') = Len(table) + 1 BY InsertKeepsRows DEF TypeInv
    <3> QED BY <1>1, <2>2, <3>2, <3>3
  <2>3. table'[i] = Row(sender, type) \/ \E j \in 1..Len(table) : table'[i] = table[j]
    BY InsertKeepsRows DEF TypeInv
  <2> QED BY <2>1, <2>2, <2>3
<1>3. ASSUME NEW r \in Readers, cursor[r] # 0
      PROVE  \E i \in 1..Len(table') : table'[i].n = cursor[r]
  <2>1. PICK j \in 1..Len(table) : table[j].n = cursor[r] BY <1>3 DEF TypeInv, Standing
  <2>2. \E i \in 1..Len(table') : table'[i] = table[j] BY InsertKeepsRows DEF TypeInv
  <2> QED BY <2>1, <2>2
<1> QED BY <1>2, <1>3 DEF Standing

\* What is left of a user's window after the limiter looked at it.
LEMMA PrunedType ==
  ASSUME TypeOK, NEW user \in Users
  PROVE  /\ Pruned(user) \in SUBSET [n : Nat, at : Nat]
         /\ IsFiniteSet(Pruned(user))
         /\ Cardinality(Pruned(user)) \in Nat
         /\ Cardinality(Pruned(user)) <= RateMax
<1>1. /\ accepted[user] \in SUBSET [n : Nat, at : Nat]
      /\ IsFiniteSet(accepted[user]) /\ Cardinality(accepted[user]) <= RateMax
  BY DEF TypeOK
<1>2. Pruned(user) \in SUBSET accepted[user] BY DEF Pruned
<1>3. IsFiniteSet(Pruned(user)) /\ Cardinality(Pruned(user)) <= Cardinality(accepted[user])
  BY <1>1, <1>2, FS_Subset
<1>4. Cardinality(Pruned(user)) \in Nat /\ Cardinality(accepted[user]) \in Nat
  BY <1>1, <1>3, FS_CardinalityType
<1> QED BY <1>1, <1>2, <1>3, <1>4, MessageLogAssumption

\* One more message fits, when the limiter allows it.
LEMMA OneMoreFits ==
  ASSUME TypeOK, NEW user \in Users, NEW one, Cardinality(Pruned(user)) < RateMax
  PROVE  /\ IsFiniteSet(Pruned(user) \union {one})
         /\ Cardinality(Pruned(user) \union {one}) \in Nat
         /\ Cardinality(Pruned(user) \union {one}) <= RateMax
<1>1. /\ IsFiniteSet(Pruned(user)) /\ Cardinality(Pruned(user)) \in Nat
      /\ RateMax \in Nat
  BY PrunedType, MessageLogAssumption
<1>2. /\ IsFiniteSet(Pruned(user) \union {one})
      /\ Cardinality(Pruned(user) \union {one}) \in {Cardinality(Pruned(user)),
                                                    Cardinality(Pruned(user)) + 1}
  BY <1>1, FS_AddElement
<1> QED BY <1>1, <1>2

LEMMA InitTypeInv == Init => TypeInv
<1> SUFFICES ASSUME Init PROVE TypeInv OBVIOUS
<1>1. table \in Seq(Message) /\ Len(table) = 0 BY EmptySeq DEF Init
<1>2. IsFiniteSet({}) /\ Cardinality({}) = 0 BY FS_EmptySet
<1>3. RateMax \in Nat /\ 1 \in 1..MaxTime /\ MaxMessages \in Nat BY MessageLogAssumption
<1>4. accepted \in [Users -> SUBSET [n : Nat, at : Nat]] /\ \A u \in Users : accepted[u] = {}
  BY DEF Init
<1>5. \A u \in Users : IsFiniteSet(accepted[u]) /\ Cardinality(accepted[u]) <= RateMax
  BY <1>2, <1>3, <1>4
<1>6. cursor \in [Readers -> Nat] /\ seen \in [Readers -> SUBSET Nat]
  BY DEF Init
<1>7. TypeOK
  <2>1. clock \in 1..MaxTime /\ lastStamp \in Nat /\ steady \in Nat BY <1>3 DEF Init
  <2>2. table \in Seq(Message) /\ Len(table) <= MaxMessages BY <1>1, <1>3
  <2>3. turns \in TurnOverrides \union {Unset} /\ agentsPaused \in BOOLEAN /\ paused \subseteq Users
    BY DEF Init
  <2> QED BY <1>4, <1>5, <1>6, <2>1, <2>2, <2>3 DEF TypeOK
<1>8. Standing BY <1>1 DEF Init, Standing
<1> QED BY <1>7, <1>8 DEF TypeInv

\* A page's last message is one of the table.
LEMMA PageIsOfTable ==
  ASSUME TypeInv, NEW reader \in Readers, Page(reader) # <<>>
  PROVE  /\ Page(reader) \in Seq(Message)
         /\ \E i \in 1..Len(table) : table[i] = Page(reader)[Len(Page(reader))]
<1> DEFINE from == Place(cursor[reader])
           to == from + PageLimit
           last == IF to < Len(table) THEN to ELSE Len(table)
<1>1. Len(table) \in Nat /\ table \in Seq(Message) /\ DOMAIN table = 1..Len(table)
  BY LenProperties DEF TypeInv, TypeOK
<1>2. from \in 0..Len(table)
  <2>1. CASE cursor[reader] = 0 BY <1>1, <2>1 DEF Place
  <2>2. CASE cursor[reader] # 0
    <3>1. \E i \in DOMAIN table : table[i].n = cursor[reader]
      BY <1>1, <2>2 DEF TypeInv, Standing
    <3> QED BY <1>1, <2>2, <3>1 DEF Place
  <2> QED BY <2>1, <2>2
<1>3. last \in 0..Len(table) BY <1>1, <1>2, MessageLogAssumption
<1>4. Page(reader) = SubSeq(table, from + 1, last) BY DEF Page
<1> HIDE DEF from, last
<1>5. from + 1 \in Int /\ last \in Int /\ \A i \in from + 1..last : table[i] \in Message
  BY <1>1, <1>2, <1>3, ElementOfSeq
<1>6. /\ Page(reader) \in Seq(Message)
      /\ Len(Page(reader)) = IF from + 1 <= last THEN last - (from + 1) + 1 ELSE 0
      /\ \A i \in 1..last - (from + 1) + 1 : Page(reader)[i] = table[from + 1 + i - 1]
  BY <1>4, <1>5, SubSeqProperties
<1>7. from + 1 <= last
  <2>1. Len(Page(reader)) # 0 BY <1>6, EmptySeq
  <2> QED BY <1>6, <2>1
<1>8. Page(reader)[Len(Page(reader))] = table[last] BY <1>2, <1>3, <1>6, <1>7
<1> QED BY <1>2, <1>3, <1>6, <1>7, <1>8

LEMMA NextTypeInv == ASSUME TypeInv, [Next]_vars PROVE TypeInv'
<1> USE DEF TypeInv
<1>1. ASSUME UNCHANGED <<table, cursor>> PROVE Standing' BY <1>1 DEF Standing
<1>2. CASE UNCHANGED vars BY <1>1, <1>2 DEF vars, TypeOK
<1>3. ASSUME NEW t \in 1..MaxTime, MoveClock(t) PROVE TypeInv'
  <2>1. steady' \in Nat BY <1>3, LenProperties DEF MoveClock, TypeOK
  <2> QED BY <1>1, <1>3, <2>1 DEF MoveClock, room, reading, TypeOK
<1>4. ASSUME NEW t \in 1..MaxTime, Restart(t) PROVE TypeInv'
  <2>1. steady' \in Nat BY <1>4, LenProperties DEF Restart, TypeOK
  <2>2. IsFiniteSet({}) /\ Cardinality({}) = 0 BY FS_EmptySet
  <2> QED BY <1>1, <1>4, <2>1, <2>2, MessageLogAssumption DEF Restart, room, reading, TypeOK
<1>5. ASSUME NEW user \in Users, Post(user) PROVE TypeInv'
  <2> DEFINE one == [n |-> Len(table) + 1, at |-> clock]
             next == Pruned(user) \union {one}
  <2>1. /\ Insert(user, "posted") /\ UNCHANGED <<clock, room, steady, reading>>
        /\ Cardinality(Pruned(user)) < RateMax
        /\ accepted' = [accepted EXCEPT ![user] = next]
    BY <1>5 DEF Post
  <2>2. one \in [n : Nat, at : Nat] BY LenProperties, MessageLogAssumption DEF TypeOK
  <2>3. next \in SUBSET [n : Nat, at : Nat] BY <2>2, PrunedType
  <2> HIDE DEF one
  <2>4. IsFiniteSet(next) /\ Cardinality(next) <= RateMax BY <2>1, OneMoreFits
  <2> HIDE DEF next
  <2>5. accepted' \in [Users -> SUBSET [n : Nat, at : Nat]] BY <2>1, <2>3 DEF TypeOK
  <2>6. \A u \in Users : IsFiniteSet(accepted'[u]) /\ Cardinality(accepted'[u]) <= RateMax
    BY <2>1, <2>4 DEF TypeOK
  <2>7. Standing' BY <2>1, InsertKeepsStanding DEF Types, reading
  <2>8. table' \in Seq(Message) /\ Len(table') <= MaxMessages /\ lastStamp' \in Nat
    BY <2>1, InsertKeepsRows DEF Types
  <2> QED BY <2>1, <2>5, <2>6, <2>7, <2>8 DEF TypeOK, room, reading
<1>6. ASSUME NEW user \in Users, RefuseRate(user) PROVE TypeInv'
  <2>1. accepted' \in [Users -> SUBSET [n : Nat, at : Nat]]
    BY <1>6, PrunedType DEF RefuseRate, TypeOK
  <2>2. \A u \in Users : IsFiniteSet(accepted'[u]) /\ Cardinality(accepted'[u]) <= RateMax
    BY <1>6, PrunedType DEF RefuseRate, TypeOK
  <2> QED BY <1>1, <1>6, <2>1, <2>2 DEF RefuseRate, TypeOK, room, reading
<1>7. ASSUME NEW sender \in Users \union {System}, NEW type \in Types, Insert(sender, type),
             UNCHANGED <<clock, room, accepted, steady, reading>>
      PROVE  TypeInv'
  <2>1. Standing' BY <1>7, InsertKeepsStanding DEF reading
  <2>2. table' \in Seq(Message) /\ Len(table') <= MaxMessages /\ lastStamp' \in Nat
    BY <1>7, InsertKeepsRows
  <2> QED BY <1>7, <2>1, <2>2 DEF TypeOK, room, reading
<1>8. ASSUME NEW user \in Users, UploadMessage(user) PROVE TypeInv'
  BY <1>7, <1>8 DEF UploadMessage, Types
<1>9. CASE SystemEvent BY <1>7, <1>9 DEF SystemEvent, Types
<1>10. ASSUME NEW on \in BOOLEAN, PauseAll(on) PROVE TypeInv'
  BY <1>1, <1>10 DEF PauseAll, TypeOK, reading
<1>11. ASSUME NEW on \in BOOLEAN, NEW user \in Agents, PauseParticipant(user, on) PROVE TypeInv'
  BY <1>1, <1>11 DEF PauseParticipant, TypeOK, reading, Users
<1>12. ASSUME NEW new \in TurnOverrides \union {Unset}, PatchTurns(new) PROVE TypeInv'
  BY <1>1, <1>12 DEF PatchTurns, TypeOK, reading
<1>13. ASSUME NEW reader \in Readers, Read(reader) PROVE TypeInv'
  <2> DEFINE page == Page(reader)
             new == {page[i].n : i \in DOMAIN page}
  <2>1. /\ page # <<>>
        /\ seen' = [seen EXCEPT ![reader] = @ \union new]
        /\ cursor' = [cursor EXCEPT ![reader] = page[Len(page)].n]
        /\ UNCHANGED <<clock, lastStamp, table, room, accepted, steady>>
    BY <1>13 DEF Read
  <2>2. page \in Seq(Message) BY <2>1, PageIsOfTable
  <2>3. PICK i \in 1..Len(table) : table[i] = page[Len(page)] BY <2>1, PageIsOfTable
  <2> HIDE DEF page
  <2>4. new \subseteq Nat
    <3>1. ASSUME NEW k \in DOMAIN page PROVE page[k].n \in Nat
      <4>1. page[k] \in Message BY <2>2, <3>1, ElementOfSeq, LenProperties
      <4> QED BY <4>1 DEF Message
    <3> QED BY <3>1
  <2> HIDE DEF new
  <2>5. table[i].n \in Nat
    <3>1. table[i] \in Message BY ElementOfSeq DEF TypeOK
    <3> QED BY <3>1 DEF Message
  <2>6. cursor' \in [Readers -> Nat] /\ seen' \in [Readers -> SUBSET Nat]
    BY <2>1, <2>3, <2>4, <2>5 DEF TypeOK
  <2>7. Standing' BY <2>1, <2>3 DEF Standing, TypeOK
  <2> QED BY <2>1, <2>6, <2>7 DEF TypeOK, room
<1> QED
  BY <1>2, <1>3, <1>4, <1>5, <1>6, <1>8, <1>9, <1>10, <1>11, <1>12, <1>13 DEF Next

LEMMA TypesInductive == Spec => []TypeInv
<1> QED BY InitTypeInv, NextTypeInv, PTL DEF Spec

\* Every variable keeps its type, on any clock: the limiter's memory is bounded
\* by the limit, and no handler stores a row that is not one of a message.
THEOREM LogTypes == Spec => []TypeOK
<1>1. TypeInv => TypeOK BY DEF TypeInv
<1> QED BY <1>1, TypesInductive, PTL

-----------------------------------------------------------------------------
(* The rate limit.                                                         *)

\* A message that was accepted since steady has a time that is not past the
\* clock, and is in the limiter's memory as long as it is in the window.
Remembered ==
  \A u \in Users :
    /\ IsFiniteSet(Posted(u))
    /\ \A p \in Posted(u) : p.at \in Nat /\ p.at <= clock
                            /\ (p.at > clock - Window => p \in accepted[u])

RateInv == Remembered /\ RateHolds

\* A window of messages among fewer messages, or ones that fit, holds no more.
InWindow(posts, t) == {p \in posts : p.at > t - Window /\ p.at <= t}

LEMMA RateHoldsOf ==
  ASSUME \A u \in Users : \A t \in 1..MaxTime : Cardinality(InWindow(Posted(u), t)) <= RateMax
  PROVE  RateHolds
BY DEF RateHolds, InWindow

LEMMA WindowShrinks ==
  ASSUME NEW few, NEW many, IsFiniteSet(many), few \subseteq many,
         NEW t, Cardinality(InWindow(many, t)) <= RateMax
  PROVE  Cardinality(InWindow(few, t)) <= RateMax
<1>1. InWindow(many, t) \in SUBSET many /\ InWindow(few, t) \in SUBSET InWindow(many, t)
  BY DEF InWindow
<1>2. IsFiniteSet(InWindow(many, t)) BY <1>1, FS_Subset
<1>3. /\ IsFiniteSet(InWindow(few, t))
      /\ Cardinality(InWindow(few, t)) <= Cardinality(InWindow(many, t))
  BY <1>1, <1>2, FS_Subset
<1>4. Cardinality(InWindow(few, t)) \in Nat /\ Cardinality(InWindow(many, t)) \in Nat
  BY <1>2, <1>3, FS_CardinalityType
<1> QED BY <1>3, <1>4, MessageLogAssumption

\* Posted after an insertion: at most the new message more, if it was posted.
LEMMA InsertPosted ==
  ASSUME TypeOK,
         NEW sender \in Users \union {System}, NEW type \in Types,
         Insert(sender, type), UNCHANGED steady, NEW u \in Users
  PROVE  /\ Posted(u)' \subseteq Posted(u) \union {[n |-> Len(table) + 1, at |-> clock]}
         /\ ~(type = "posted" /\ sender = u) => Posted(u)' \subseteq Posted(u)
<1>1. Len(table) \in Nat /\ DOMAIN table = 1..Len(table) BY LenProperties DEF TypeOK
<1>2. DOMAIN table' = 1..Len(table') BY InsertKeepsRows, LenProperties
<1>3. ASSUME NEW p \in Posted(u)'
      PROVE  \/ p \in Posted(u)
             \/ /\ type = "posted" /\ sender = u
                /\ p = [n |-> Len(table) + 1, at |-> clock]
  <2>1. PICK i \in DOMAIN table' :
           /\ table'[i].n > steady /\ table'[i].sender = u /\ table'[i].type = "posted"
           /\ p = [n |-> table'[i].n, at |-> table'[i].at]
    BY <1>3 DEF Posted
  <2>2. CASE table'[i] = Row(sender, type) BY <2>1, <2>2 DEF Row
  <2>3. ASSUME NEW j \in 1..Len(table), table'[i] = table[j] PROVE p \in Posted(u)
    <3>1. /\ j \in DOMAIN table /\ table[j].n > steady /\ table[j].sender = u
          /\ table[j].type = "posted" /\ p = [n |-> table[j].n, at |-> table[j].at]
      BY <1>1, <2>1, <2>3
    <3> QED BY <3>1 DEF Posted
  <2>4. table'[i] = Row(sender, type) \/ \E j \in 1..Len(table) : table'[i] = table[j]
    <3>1. i \in 1..Len(table') BY <1>2, <2>1
    <3> QED BY <3>1, InsertKeepsRows
  <2> QED BY <2>2, <2>3, <2>4
<1> DEFINE one == [n |-> Len(table) + 1, at |-> clock]
<1>4. \A p \in Posted(u)' : p \in Posted(u) \/ (type = "posted" /\ sender = u /\ p = one)
  BY <1>3
<1> HIDE DEF one
<1>5. Posted(u)' \subseteq Posted(u) \union {one} BY <1>4
<1>6. ~(type = "posted" /\ sender = u) => Posted(u)' \subseteq Posted(u) BY <1>4
<1> QED BY <1>5, <1>6 DEF one

\* Nothing was posted since a moment that is now.
LEMMA NothingSinceNow ==
  ASSUME TypeInv, UNCHANGED table, steady' = Len(table)
  PROVE  RateInv'
<1>1. Len(table) \in Nat /\ DOMAIN table = 1..Len(table)
  BY LenProperties DEF TypeInv, TypeOK
<1>2. ASSUME NEW u \in Users PROVE Posted(u)' = {}
  <2>1. ASSUME NEW i \in DOMAIN table PROVE ~(table[i].n > Len(table))
    <3>1. table[i] \in Message /\ table[i].n <= Len(table)
      BY <1>1, ElementOfSeq DEF TypeInv, TypeOK, Standing
    <3> QED BY <1>1, <3>1 DEF Message
  <2> QED BY <2>1 DEF Posted
<1>3. RateHolds'
  <2>1. ASSUME NEW u \in Users, NEW t \in 1..MaxTime
        PROVE  Cardinality(InWindow(Posted(u)', t)) <= RateMax
    <3>1. InWindow(Posted(u)', t) = {} BY <1>2 DEF InWindow
    <3> QED BY <3>1, FS_EmptySet, MessageLogAssumption
  <2> QED BY <2>1 DEF RateHolds, InWindow
<1>4. Remembered' BY <1>2, FS_EmptySet DEF Remembered
<1> QED BY <1>3, <1>4 DEF RateInv

\* The posts are no more, the clock does not go back, and the memory keeps what
\* is in the window.
LEMMA FewerPosts ==
  ASSUME RateInv, clock \in Nat, clock' \in Nat, clock <= clock',
         \A u \in Users : Posted(u)' \subseteq Posted(u),
         \A u \in Users : \A a \in accepted[u] :
            a.at \in Nat /\ a.at > clock' - Window => a \in accepted'[u]
  PROVE  RateInv'
<1>1. ASSUME NEW u \in Users PROVE IsFiniteSet(Posted(u)')
  BY FS_Subset DEF RateInv, Remembered
<1>2. ASSUME NEW u \in Users, NEW p \in Posted(u)'
      PROVE  /\ p.at \in Nat /\ p.at <= clock'
             /\ (p.at > clock' - Window => p \in accepted'[u])
  <2>1. /\ p \in Posted(u) /\ p.at \in Nat /\ p.at <= clock
        /\ (p.at > clock - Window => p \in accepted[u])
    BY <1>2 DEF RateInv, Remembered
  <2>2. ASSUME p.at > clock' - Window PROVE p.at > clock - Window
    BY <2>1, <2>2, MessageLogAssumption
  <2> QED BY <2>1, <2>2
<1>3. Remembered' BY <1>1, <1>2 DEF Remembered
<1>4. ASSUME NEW u \in Users, NEW t \in 1..MaxTime
      PROVE  Cardinality(InWindow(Posted(u)', t)) <= RateMax
  <2>1. Cardinality(InWindow(Posted(u), t)) <= RateMax BY DEF RateInv, RateHolds, InWindow
  <2>2. IsFiniteSet(Posted(u)) BY DEF RateInv, Remembered
  <2> QED BY <2>1, <2>2, WindowShrinks
<1>5. RateHolds' BY <1>4 DEF RateHolds, InWindow
<1> QED BY <1>3, <1>5 DEF RateInv

\* A post that the limiter allowed.
LEMMA PostKeepsRate ==
  ASSUME TypeInv, RateInv, NEW user \in Users, Post(user)
  PROVE  RateInv'
<1> DEFINE one == [n |-> Len(table) + 1, at |-> clock]
           next == Pruned(user) \union {one}
<1>1. /\ Insert(user, "posted") /\ UNCHANGED <<clock, steady>>
      /\ Cardinality(Pruned(user)) < RateMax
      /\ accepted' = [accepted EXCEPT ![user] = next]
  BY DEF Post
<1>2. one.at = clock /\ clock \in Nat \ {0} BY MessageLogAssumption DEF TypeInv, TypeOK
<1>3. ASSUME NEW u \in Users
      PROVE  /\ Posted(u)' \subseteq Posted(u) \union {one}
             /\ u # user => Posted(u)' \subseteq Posted(u)
  BY <1>1, InsertPosted DEF TypeInv, Types
<1> HIDE DEF one
<1>4. accepted'[user] = next /\ \A u \in Users \ {user} : accepted'[u] = accepted[u]
  BY <1>1 DEF TypeInv, TypeOK
<1>5. ASSUME NEW u \in Users
      PROVE  /\ IsFiniteSet(Posted(u)) /\ IsFiniteSet(Posted(u)')
             /\ \A p \in Posted(u) : /\ p.at \in Nat /\ p.at <= clock
                                     /\ (p.at > clock - Window => p \in accepted[u])
  <2>1. IsFiniteSet(Posted(u)) /\ IsFiniteSet(Posted(u) \union {one})
    BY FS_AddElement DEF RateInv, Remembered
  <2> QED BY <1>3, <2>1, FS_Subset DEF RateInv, Remembered
<1>6. ASSUME NEW u \in Users, NEW p \in Posted(u)'
      PROVE  /\ p.at \in Nat /\ p.at <= clock
             /\ (p.at > clock - Window => p \in accepted'[u])
  <2>1. CASE p = one /\ u = user BY <1>2, <1>4, <2>1
  <2>2. CASE p \in Posted(u) BY <1>4, <1>5, <2>2 DEF Pruned
  <2> QED BY <1>3, <1>6, <2>1, <2>2
<1>7. Remembered' BY <1>1, <1>5, <1>6 DEF Remembered
<1>8. ASSUME NEW u \in Users, NEW t \in 1..MaxTime
      PROVE  Cardinality(InWindow(Posted(u)', t)) <= RateMax
  <2>1. t \in Nat BY MessageLogAssumption
  <2>2. Cardinality(InWindow(Posted(u), t)) <= RateMax BY DEF RateInv, RateHolds, InWindow
  <2>3. CASE u # user BY <1>3, <1>5, <2>2, <2>3, WindowShrinks
  <2>4. CASE u = user /\ t < clock
    <3>1. ~(one.at <= t) BY <1>2, <2>1, <2>4
    <3>2. InWindow(Posted(u)', t) \in SUBSET InWindow(Posted(u), t)
      BY <1>3, <3>1 DEF InWindow
    <3>3. InWindow(Posted(u), t) \in SUBSET Posted(u) BY DEF InWindow
    <3>4. IsFiniteSet(InWindow(Posted(u), t)) BY <1>5, <3>3, FS_Subset
    <3>5. /\ IsFiniteSet(InWindow(Posted(u)', t))
          /\ Cardinality(InWindow(Posted(u)', t)) <= Cardinality(InWindow(Posted(u), t))
      BY <3>2, <3>4, FS_Subset
    <3>6. /\ Cardinality(InWindow(Posted(u)', t)) \in Nat
          /\ Cardinality(InWindow(Posted(u), t)) \in Nat
      BY <3>4, <3>5, FS_CardinalityType
    <3> QED BY <2>2, <3>5, <3>6, MessageLogAssumption
  <2>5. CASE u = user /\ t >= clock
    <3>1. InWindow(Posted(u)', t) \in SUBSET next
      <4>1. ASSUME NEW p \in InWindow(Posted(u)', t) PROVE p \in next
        <5>1. p \in Posted(u)' /\ p.at > t - Window BY <4>1 DEF InWindow
        <5>2. CASE p = one BY <5>2
        <5>3. CASE p \in Posted(u)
          <6>1. p.at \in Nat /\ (p.at > clock - Window => p \in accepted[u]) BY <1>5, <5>3
          <6>2. p.at > clock - Window BY <1>2, <2>1, <2>5, <5>1, <6>1, MessageLogAssumption
          <6> QED BY <2>5, <6>1, <6>2 DEF Pruned
        <5> QED BY <1>3, <5>1, <5>2, <5>3
      <4> QED BY <4>1
    <3>2. /\ IsFiniteSet(next) /\ Cardinality(next) \in Nat /\ Cardinality(next) <= RateMax
      BY <1>1, OneMoreFits DEF TypeInv
    <3>3. /\ IsFiniteSet(InWindow(Posted(u)', t))
          /\ Cardinality(InWindow(Posted(u)', t)) <= Cardinality(next)
      BY <3>1, <3>2, FS_Subset
    <3>4. Cardinality(InWindow(Posted(u)', t)) \in Nat BY <3>3, FS_CardinalityType
    <3> QED BY <3>2, <3>3, <3>4, MessageLogAssumption
  <2>6. clock \in Nat BY <1>2
  <2> QED BY <2>1, <2>3, <2>4, <2>5, <2>6
<1>9. RateHolds' BY <1>8 DEF RateHolds, InWindow
<1> QED BY <1>7, <1>9 DEF RateInv

LEMMA NextRateInv == ASSUME TypeInv, RateInv, [Next]_vars PROVE RateInv'
<1>1. clock \in Nat BY MessageLogAssumption DEF TypeInv, TypeOK
<1>2. ASSUME UNCHANGED <<clock, table, accepted, steady>> PROVE RateInv'
  BY <1>2 DEF RateInv, Remembered, RateHolds, Posted
<1>3. CASE UNCHANGED vars BY <1>2, <1>3 DEF vars
<1>4. ASSUME NEW t \in 1..MaxTime, MoveClock(t) PROVE RateInv'
  <2>1. t \in Nat BY MessageLogAssumption
  <2>2. CASE t < clock BY <1>4, <2>2, NothingSinceNow DEF MoveClock
  <2>3. CASE ~(t < clock)
    <3>1. /\ clock' = t /\ clock' \in Nat /\ clock <= clock'
          /\ UNCHANGED <<table, steady, accepted>>
      BY <1>1, <1>4, <2>1, <2>3 DEF MoveClock
    <3>2. \A u \in Users : Posted(u)' \subseteq Posted(u) BY <3>1 DEF Posted
    <3> QED BY <1>1, <3>1, <3>2, FewerPosts
  <2> QED BY <2>2, <2>3
<1>5. ASSUME NEW t \in 1..MaxTime, Restart(t) PROVE RateInv'
  BY <1>5, NothingSinceNow DEF Restart
<1>6. ASSUME NEW user \in Users, Post(user) PROVE RateInv'
  BY <1>6, PostKeepsRate
<1>7. ASSUME NEW user \in Users, RefuseRate(user) PROVE RateInv'
  <2>1. /\ UNCHANGED <<clock, table, steady>>
        /\ accepted' = [accepted EXCEPT ![user] = Pruned(user)]
    BY <1>7 DEF RefuseRate
  <2>2. \A u \in Users : Posted(u)' \subseteq Posted(u) BY <2>1 DEF Posted
  <2>3. \A u \in Users : \A a \in accepted[u] :
           a.at \in Nat /\ a.at > clock' - Window => a \in accepted'[u]
    BY <2>1 DEF Pruned, TypeInv, TypeOK
  <2> QED BY <1>1, <2>1, <2>2, <2>3, FewerPosts
<1>8. ASSUME NEW sender \in Users \union {System}, NEW type \in Types, type # "posted",
             Insert(sender, type), UNCHANGED <<clock, accepted, steady>>
      PROVE  RateInv'
  <2>1. \A u \in Users : Posted(u)' \subseteq Posted(u) BY <1>8, InsertPosted DEF TypeInv
  <2> QED BY <1>1, <1>8, <2>1, FewerPosts
<1>9. ASSUME NEW user \in Users, UploadMessage(user) PROVE RateInv'
  BY <1>8, <1>9 DEF UploadMessage, Types
<1>10. CASE SystemEvent BY <1>8, <1>10 DEF SystemEvent, Types
<1>11. ASSUME NEW on \in BOOLEAN, PauseAll(on) PROVE RateInv' BY <1>2, <1>11 DEF PauseAll
<1>12. ASSUME NEW on \in BOOLEAN, NEW user \in Agents, PauseParticipant(user, on) PROVE RateInv'
  BY <1>2, <1>12 DEF PauseParticipant
<1>13. ASSUME NEW new \in TurnOverrides \union {Unset}, PatchTurns(new) PROVE RateInv'
  BY <1>2, <1>13 DEF PatchTurns
<1>14. ASSUME NEW reader \in Readers, Read(reader) PROVE RateInv' BY <1>2, <1>14 DEF Read
<1> QED
  BY <1>3, <1>4, <1>5, <1>6, <1>7, <1>9, <1>10, <1>11, <1>12, <1>13, <1>14 DEF Next

\* In one life of the process, and as long as the clock is not set back, a user
\* gets no more than the limit into any window of time, wherever the clock jumps
\* and in whatever order rows of equal stamps are kept (policy.ts).
THEOREM RateIsKept == Spec => []RateHolds
<1>1. Init => RateInv
  <2> SUFFICES ASSUME Init PROVE RateInv OBVIOUS
  <2>1. DOMAIN table = {} BY EmptySeq, LenProperties DEF Init
  <2>2. \A u \in Users : Posted(u) = {} BY <2>1 DEF Posted
  <2>3. Remembered BY <2>2, FS_EmptySet DEF Remembered
  <2>4. ASSUME NEW u \in Users, NEW t \in 1..MaxTime
        PROVE  Cardinality(InWindow(Posted(u), t)) <= RateMax
    <3>1. InWindow(Posted(u), t) = {} BY <2>2 DEF InWindow
    <3> QED BY <3>1, FS_EmptySet, MessageLogAssumption
  <2> QED BY <2>3, <2>4, RateHoldsOf DEF RateInv
<1>2. TypeInv /\ RateInv /\ [Next]_vars => RateInv' BY NextRateInv
<1>3. RateInv => RateHolds BY DEF RateInv
<1> QED BY <1>1, <1>2, <1>3, TypesInductive, PTL DEF Spec
=============================================================================
