----------------------------- MODULE FeedProofs -----------------------------
(***************************************************************************)
(* What a client of a room may rely on: the web page with its messages,    *)
(* approvals and socket (WebRoom), the settings it shows (RoomPanel), and  *)
(* the waiting tool of the bridge (Inbox).                                 *)
(***************************************************************************)
EXTENDS WebRoom, RoomPanel, Inbox, FiniteSetTheorems, TLAPS

Tells == {"pending", "resolved"}

FrameType ==
  [type : {"hello"}] \union [type : {"message"}, id : Nat \ {0}]
    \union [type : {"card"}, id : Cards, status : Tells]

FeedTypes ==
  /\ count \in Nat
  /\ status \in [Cards -> Statuses]
  /\ link \in {"off", "down", "up", "denied"}
  /\ frames \in Seq(FrameType)
  /\ \A i \in 1..Len(frames) : frames[i].type = "message" => frames[i].id <= count
  /\ link # "up" => frames = <<>>

LEMMA Frames ==
  /\ Hello \in FrameType /\ Hello.type = "hello"
  /\ \A m : MessageCreated(m).type = "message" /\ MessageCreated(m).id = m
  /\ \A m \in Nat \ {0} : MessageCreated(m) \in FrameType
  /\ \A a, st : /\ CardFrame(a, st).type = "card"
                /\ CardFrame(a, st).id = a /\ CardFrame(a, st).status = st
  /\ \A a \in Cards, st \in Tells : CardFrame(a, st) \in FrameType
  /\ \A f \in FrameType :
       \/ f.type = "hello" /\ f = Hello
       \/ f.type = "message" /\ f.id \in Nat \ {0} /\ f = MessageCreated(f.id)
       \/ f.type = "card" /\ f.id \in Cards /\ f.status \in Tells /\ f = CardFrame(f.id, f.status)
BY DEF FrameType, Hello, MessageCreated, CardFrame, Tells

\* Frames are added at the end.
LEMMA Appended ==
  ASSUME NEW s \in Seq(FrameType), NEW t \in Seq(FrameType)
  PROVE  /\ s \o t \in Seq(FrameType) /\ Len(s \o t) = Len(s) + Len(t)
         /\ \A i \in 1..Len(s) : (s \o t)[i] = s[i]
         /\ \A i \in 1..Len(t) : (s \o t)[Len(s) + i] = t[i]
         /\ \A i \in 1..Len(s \o t) : i \in 1..Len(s) \/ i - Len(s) \in 1..Len(t)
OBVIOUS

LEMMA BroadcastKeeps ==
  ASSUME FeedTypes, NEW t \in Seq(FrameType), Broadcast(t), UNCHANGED link,
         count' \in {count, count + 1}, status' \in [Cards -> Statuses],
         \A i \in 1..Len(t) : t[i].type = "message" => t[i].id <= count'
  PROVE  FeedTypes'
<1>1. /\ frames \in Seq(FrameType) /\ count \in Nat
      /\ \A i \in 1..Len(frames) : frames[i].type = "message" => frames[i].id <= count
      /\ \A i \in 1..Len(frames) : frames[i] \in FrameType
  BY DEF FeedTypes
<1>2. \A i \in 1..Len(frames) : frames[i].type = "message" => frames[i].id <= count'
  BY <1>1, Frames
<1>3. CASE link = "up"
  <2>1. frames' = frames \o t BY <1>3 DEF Broadcast
  <2>2. ASSUME NEW i \in 1..Len(frames'), frames'[i].type = "message"
        PROVE  frames'[i].id <= count'
    <3>1. CASE i \in 1..Len(frames) BY <1>1, <1>2, <2>1, <2>2, <3>1, Appended
    <3>2. CASE i - Len(frames) \in 1..Len(t)
      <4>1. i = Len(frames) + (i - Len(frames)) BY <1>1
      <4>2. frames'[i] = t[i - Len(frames)] BY <1>1, <2>1, <3>2, <4>1, Appended
      <4> QED BY <2>2, <3>2, <4>2
    <3> QED BY <1>1, <2>1, <2>2, <3>1, <3>2, Appended
  <2> QED BY <1>1, <1>3, <2>1, <2>2, Appended DEF FeedTypes
<1>4. CASE link # "up"
  BY <1>2, <1>4 DEF Broadcast, FeedTypes
<1> QED BY <1>3, <1>4

\* What the server sends.
LEMMA PublishSends ==
  ASSUME FeedTypes, Publish
  PROVE  /\ <<MessageCreated(count + 1)>> \in Seq(FrameType)
         /\ Broadcast(<<MessageCreated(count + 1)>>)
         /\ FeedTypes' /\ count' = count + 1 /\ UNCHANGED <<status, link>>
<1>1. count + 1 \in Nat \ {0} /\ count' = count + 1 BY DEF FeedTypes, Publish
<1>2. MessageCreated(count + 1) \in FrameType BY <1>1, Frames
<1>3. <<MessageCreated(count + 1)>> \in Seq(FrameType) BY <1>2
<1>4. \A i \in 1..Len(<<MessageCreated(count + 1)>>) :
        <<MessageCreated(count + 1)>>[i].id <= count'
  BY <1>1, Frames
<1>5. /\ Broadcast(<<MessageCreated(count + 1)>>) /\ UNCHANGED <<status, link>>
      /\ status' \in [Cards -> Statuses]
  BY DEF FeedTypes, Publish
<1>6. FeedTypes' BY <1>1, <1>3, <1>4, <1>5, BroadcastKeeps
<1> QED BY <1>1, <1>3, <1>5, <1>6

LEMMA OpenSends ==
  ASSUME FeedTypes, NEW a \in Cards, OpenCard(a)
  PROVE  /\ <<CardFrame(a, "pending")>> \in Seq(FrameType)
         /\ Broadcast(<<CardFrame(a, "pending")>>)
         /\ FeedTypes' /\ UNCHANGED <<count, link>>
<1>1. CardFrame(a, "pending") \in FrameType /\ CardFrame(a, "pending").type = "card"
  BY Frames DEF Tells
<1>2. <<CardFrame(a, "pending")>> \in Seq(FrameType) BY <1>1
<1>3. \A i \in 1..Len(<<CardFrame(a, "pending")>>) :
        <<CardFrame(a, "pending")>>[i].type # "message"
  BY <1>1
<1>4. /\ Broadcast(<<CardFrame(a, "pending")>>) /\ UNCHANGED <<count, link>>
      /\ status' \in [Cards -> Statuses]
  BY DEF FeedTypes, OpenCard, Statuses
<1>5. FeedTypes' BY <1>2, <1>3, <1>4, BroadcastKeeps
<1> QED BY <1>2, <1>4, <1>5

LEMMA ResolveSends ==
  ASSUME FeedTypes, NEW a \in Cards, ResolveCard(a)
  PROVE  LET t == <<CardFrame(a, "resolved"), MessageCreated(count + 1)>> IN
         /\ t \in Seq(FrameType) /\ Broadcast(t)
         /\ FeedTypes' /\ count' = count + 1 /\ UNCHANGED link
<1> DEFINE t == <<CardFrame(a, "resolved"), MessageCreated(count + 1)>>
<1>1. count + 1 \in Nat \ {0} /\ count' = count + 1 BY DEF FeedTypes, ResolveCard
<1>2. /\ MessageCreated(count + 1) \in FrameType /\ CardFrame(a, "resolved") \in FrameType
      /\ CardFrame(a, "resolved").type = "card" /\ MessageCreated(count + 1).id = count + 1
  BY <1>1, Frames DEF Tells
<1>3. t \in Seq(FrameType) /\ Len(t) = 2 /\ t[1] = CardFrame(a, "resolved")
      /\ t[2] = MessageCreated(count + 1)
  BY <1>2
<1>4. Broadcast(t) /\ UNCHANGED link /\ status' \in [Cards -> Statuses]
  BY DEF FeedTypes, ResolveCard, Statuses
<1> HIDE DEF t
<1>5. \A i \in 1..Len(t) : t[i].type = "message" => t[i].id <= count'
  <2>1. \A i \in 1..Len(t) : i = 1 \/ i = 2 BY <1>3
  <2> QED BY <1>1, <1>2, <1>3, <2>1
<1>6. FeedTypes' BY <1>1, <1>3, <1>4, <1>5, BroadcastKeeps
<1> QED BY <1>1, <1>3, <1>4, <1>6 DEF t

LEMMA LinkKeeps ==
  ASSUME FeedTypes, Connect \/ LoseLink \/ Deny
  PROVE  FeedTypes' /\ UNCHANGED <<count, status>>
<1>1. CASE Connect
  <2>1. frames' = <<Hello>> /\ <<Hello>> \in Seq(FrameType) /\ Len(<<Hello>>) = 1
        /\ <<Hello>>[1].type = "hello"
    BY <1>1, Frames DEF Connect
  <2> QED BY <1>1, <2>1 DEF Connect, FeedTypes
<1>2. CASE LoseLink \/ Deny
  <2>1. frames' = <<>> /\ <<>> \in Seq(FrameType) /\ Len(<<>>) = 0
        /\ link' \in {"down", "denied"} /\ UNCHANGED <<count, status>>
    BY <1>2 DEF LoseLink, Deny
  <2> QED BY <2>1 DEF FeedTypes
<1> QED BY <1>1, <1>2

\* The frame handled, and those after it.
LEMMA Handled ==
  ASSUME FeedTypes, frames # <<>>, frames' = Tail(frames), UNCHANGED <<count, status, link>>
  PROVE  /\ FeedTypes' /\ Head(frames) = frames[1] /\ Head(frames) \in FrameType
         /\ Len(frames) = Len(frames') + 1 /\ 1 \in 1..Len(frames)
         /\ Head(frames).type = "message" => Head(frames).id <= count
         /\ \A i \in 1..Len(frames') : frames'[i] = frames[i + 1] /\ i + 1 \in 1..Len(frames)
         /\ \A i \in 1..Len(frames) : i = 1 \/ (i - 1 \in 1..Len(frames') /\ frames[i] = frames'[i - 1])
<1>1. frames \in Seq(FrameType) BY DEF FeedTypes
<1>2. /\ frames' \in Seq(FrameType) /\ Head(frames) = frames[1] /\ Head(frames) \in FrameType
      /\ Len(frames) = Len(frames') + 1 /\ 1 \in 1..Len(frames)
      /\ \A i \in 1..Len(frames') : frames'[i] = frames[i + 1] /\ i + 1 \in 1..Len(frames)
  BY <1>1
<1>3. \A i \in 1..Len(frames) : i = 1 \/ (i - 1 \in 1..Len(frames') /\ frames[i] = frames'[i - 1])
  BY <1>1, <1>2
<1>4. FeedTypes' BY <1>2 DEF FeedTypes
<1> QED BY <1>2, <1>3, <1>4 DEF FeedTypes

-----------------------------------------------------------------------------
(* The page: messages.                                                     *)

ReadType ==
  [who : {"load", "hello"}, what : {"messages", "cards"}, after : Nat,
   stage : {"asked", "answered"}, upto : Nat, cards : [Cards -> Statuses]]

WebTypes ==
  /\ FeedTypes
  /\ phase \in {"opening", "loading", "live", "failed", "gone"}
  /\ shown \subseteq 1..count /\ last \in 0..count
  /\ card \in [Cards -> Statuses]
  /\ reads \subseteq ReadType
  /\ posts \subseteq 1..count /\ answers \subseteq Cards
  /\ phase # "live" => link = "off"

\* A GET under way that will show message m, or the page before it.
WillShow(r, m) ==
  r.what = "messages" /\ r.after < m /\ (r.stage = "asked" \/ m <= r.upto)
Covered(m) == \E r \in reads : WillShow(r, m)

\* Message m, or a hello, comes before any newer message.
Awaits(s, m) ==
  \E j \in 1..Len(s) :
    /\ s[j] = Hello \/ s[j] = MessageCreated(m)
    /\ \A i \in 1..(j - 1) : s[i].type = "message" => s[i].id <= m

MissingInv ==
  /\ \A r \in reads : r.what = "messages" =>
       r.after <= last /\ (r.stage = "answered" => r.upto <= count)
  /\ \A m \in Missing \ excused :
       /\ m <= last => Covered(m)
       /\ link = "up" => Covered(m) \/ Awaits(frames, m)

-----------------------------------------------------------------------------
(* The page: approvals.                                                    *)

\* What the page may show at rest, and what may have been so once.
Agrees(st, now) == st = now \/ (st = "pending" /\ now = "expired")
WasSo(st, now) ==
  st = "none" \/ st = now \/ (st = "pending" /\ now \in {"resolved", "expired"})

Carries(s, f) == \E j \in 1..Len(s) : s[j] = f

\* A frame of the sequence tells how the approval stands.
Told(s, a, now) ==
  \E st \in Tells : Carries(s, CardFrame(a, st)) /\ Agrees(st, now)

\* A frame that is older than the approval is followed by its answer.
Corrected(s, a, now) ==
  \A j \in 1..Len(s), st \in Tells : s[j] = CardFrame(a, st) =>
    /\ WasSo(st, now)
    /\ \/ Agrees(st, now)
       \/ \E k \in (j + 1)..Len(s) : s[k] = CardFrame(a, "resolved")

\* A GET after a hello that will tell.
Asked(r, a, now) ==
  /\ r.who = "hello" /\ r.what = "cards"
  /\ r.stage = "asked" \/ Agrees(r.cards[a], now)

CardsInv ==
  /\ \A a \in answers : status[a] = "resolved"
  /\ \A a \in Cards :
       /\ WasSo(card[a], status[a])
       /\ \A r \in reads : WasSo(r.cards[a], status[a])
       /\ Corrected(frames, a, status[a])
       /\ link = "up" /\ a \notin stale =>
            \/ Agrees(card[a], status[a])
            \/ Carries(frames, Hello) \/ Told(frames, a, status[a])
            \/ \E r \in reads : Asked(r, a, status[a])

WebInv == WebTypes /\ MissingInv /\ CardsInv

-----------------------------------------------------------------------------
(* Lemmas about pages of messages, and about what frames tell.             *)

LEMMA Newest ==
  ASSUME NEW S \in SUBSET Nat, NEW k \in S, \A n \in S : n <= k
  PROVE  NewestOf(S) = k
<1> DEFINE top == NewestOf(S)
<1>1. top \in S /\ \A n \in S : n <= top BY DEF NewestOf
<1> HIDE DEF top
<1>2. top \in Nat /\ k \in Nat /\ k <= top /\ top <= k BY <1>1
<1>3. top = k BY <1>2
<1> QED BY <1>3 DEF top

\* A page is the run of messages after the one it was asked for; it is full
\* just if the room has that many.
LEMMA PageRuns ==
  ASSUME NEW after \in Nat, NEW limit \in Nat \ {0}, NEW n \in Nat
  PROVE  LET P == Page(after, limit, n) IN
         /\ P = (after + 1)..(IF n <= after + limit THEN n ELSE after + limit)
         /\ Cardinality(P) = limit <=> n >= after + limit
         /\ n >= after + limit => NewestOf(P) = after + limit /\ after + limit \in P
<1> DEFINE P == Page(after, limit, n)
           end == IF n <= after + limit THEN n ELSE after + limit
<1>1. end \in Nat /\ after + 1 \in Nat OBVIOUS
<1>2. P = (after + 1)..end BY DEF Page
<1> HIDE DEF P
<1>3. Cardinality(P) = IF after + 1 > end THEN 0 ELSE end - (after + 1) + 1
  <2> HIDE DEF end
  <2> QED BY <1>1, <1>2, FS_Interval
<1>4. Cardinality(P) = limit <=> n >= after + limit BY <1>1, <1>3
<1>5. ASSUME n >= after + limit PROVE NewestOf(P) = after + limit /\ after + limit \in P
  <2>1. after + limit \in P /\ P \in SUBSET Nat /\ \A m \in P : m <= after + limit
    BY <1>2, <1>5
  <2> QED BY <2>1, Newest
<1> QED BY <1>2, <1>4, <1>5 DEF P

\* noteMessages moves the last message to the newest one noted, if that is newer.
LEMMA NoteMoves ==
  ASSUME WebTypes, NEW S \in SUBSET (1..count), Note(S),
         S = {} \/ \E k \in S : \A n \in S : n <= k
  PROVE  /\ shown' = shown \union S /\ shown' \subseteq 1..count
         /\ last' \in 0..count /\ last <= last' /\ (last' = last \/ last' \in S)
         /\ \A n \in S : n <= last'
<1>1. count \in Nat /\ last \in 0..count /\ shown \subseteq 1..count
  BY DEF WebTypes, FeedTypes
<1>2. \E k \in S \union {last} : \A n \in S \union {last} : n <= k
  <2>1. CASE S = {} BY <1>1, <2>1
  <2>2. ASSUME NEW k \in S, \A n \in S : n <= k
        PROVE  \E j \in S \union {last} : \A n \in S \union {last} : n <= j
    <3>1. CASE k >= last BY <1>1, <2>2, <3>1
    <3>2. CASE k < last BY <1>1, <2>2, <3>2
    <3> QED BY <1>1, <2>2, <3>1, <3>2
  <2> QED BY <2>1, <2>2
<1>3. PICK k \in S \union {last} : \A n \in S \union {last} : n <= k BY <1>2
<1>4. S \union {last} \in SUBSET Nat BY <1>1
<1>5. last' = k /\ shown' = shown \union S BY <1>3, <1>4, Newest DEF Note
<1>6. last \in S \union {last} /\ last <= k /\ k \in 0..count BY <1>1, <1>3
<1> QED BY <1>1, <1>3, <1>5, <1>6

\* More frames leave what comes before as it is.
LEMMA AwaitsMore ==
  ASSUME NEW s \in Seq(FrameType), NEW t \in Seq(FrameType), NEW m, Awaits(s, m)
  PROVE  Awaits(s \o t, m)
<1>1. PICK j \in 1..Len(s) :
        /\ s[j] = Hello \/ s[j] = MessageCreated(m)
        /\ \A i \in 1..(j - 1) : s[i].type = "message" => s[i].id <= m
  BY DEF Awaits
<1>2. /\ j \in 1..Len(s \o t) /\ (s \o t)[j] = s[j]
      /\ \A i \in 1..(j - 1) : (s \o t)[i] = s[i]
  BY Appended
<1> QED BY <1>1, <1>2 DEF Awaits

LEMMA CarriesMore ==
  ASSUME NEW s \in Seq(FrameType), NEW t \in Seq(FrameType), NEW f
  PROVE  Carries(s \o t, f) <=> Carries(s, f) \/ Carries(t, f)
<1>1. ASSUME Carries(s, f) PROVE Carries(s \o t, f)
  BY <1>1, Appended DEF Carries
<1>2. ASSUME NEW j \in 1..Len(t), t[j] = f PROVE Carries(s \o t, f)
  <2>1. Len(s) \in Nat /\ Len(t) \in Nat /\ Len(s \o t) = Len(s) + Len(t)
        /\ (s \o t)[Len(s) + j] = f
    BY <1>2, Appended
  <2>2. Len(s) + j \in 1..Len(s \o t) BY <1>2, <2>1
  <2> QED BY <2>1, <2>2 DEF Carries
<1>3. ASSUME NEW j \in 1..Len(s \o t), (s \o t)[j] = f, ~Carries(s, f)
      PROVE  Carries(t, f)
  <2>1. j \in 1..Len(s) \/ j - Len(s) \in 1..Len(t) BY Appended
  <2>2. j \notin 1..Len(s) BY <1>3, Appended DEF Carries
  <2>3. j = Len(s) + (j - Len(s)) OBVIOUS
  <2>4. t[j - Len(s)] = f BY <1>3, <2>1, <2>2, <2>3, Appended
  <2> QED BY <2>1, <2>2, <2>4 DEF Carries
<1> QED BY <1>1, <1>2, <1>3 DEF Carries

\* The frame handled was not the one awaited.
LEMMA AwaitsOn ==
  ASSUME FeedTypes, frames # <<>>, frames' = Tail(frames), UNCHANGED <<count, status, link>>,
         NEW m, Awaits(frames, m), Head(frames) # Hello, Head(frames) # MessageCreated(m)
  PROVE  /\ Awaits(frames', m)
         /\ Head(frames).type = "message" => Head(frames).id <= m
<1>1. PICK j \in 1..Len(frames) :
        /\ frames[j] = Hello \/ frames[j] = MessageCreated(m)
        /\ \A i \in 1..(j - 1) : frames[i].type = "message" => frames[i].id <= m
  BY DEF Awaits
<1>2. j # 1 BY <1>1, Handled
<1>3. j - 1 \in 1..Len(frames') /\ frames'[j - 1] = frames[j] BY <1>2, Handled
<1>4. 1 \in 1..(j - 1) BY <1>1, <1>2
<1>5. \A i \in 1..(j - 2) : i \in 1..Len(frames') /\ i + 1 \in 1..(j - 1)
  BY <1>3
<1>6. \A i \in 1..(j - 2) : frames'[i] = frames[i + 1] BY <1>5, Handled
<1>7. \A i \in 1..((j - 1) - 1) : frames'[i].type = "message" => frames'[i].id <= m
  BY <1>1, <1>5, <1>6
<1> QED BY <1>1, <1>3, <1>4, <1>7, Handled DEF Awaits

LEMMA CarriesOn ==
  ASSUME FeedTypes, frames # <<>>, frames' = Tail(frames), UNCHANGED <<count, status, link>>,
         NEW f
  PROVE  Carries(frames, f) <=> Head(frames) = f \/ Carries(frames', f)
<1>1. ASSUME NEW j \in 1..Len(frames), frames[j] = f, Head(frames) # f
      PROVE  Carries(frames', f)
  <2>1. j # 1 BY <1>1, Handled
  <2> QED BY <1>1, <2>1, Handled DEF Carries
<1>2. ASSUME NEW j \in 1..Len(frames'), frames'[j] = f PROVE Carries(frames, f)
  BY <1>2, Handled DEF Carries
<1>3. Head(frames) = f => Carries(frames, f) BY Handled DEF Carries
<1> QED BY <1>1, <1>2, <1>3 DEF Carries

-----------------------------------------------------------------------------
(* The page: its invariant holds at the start, and the server keeps it.    *)

LEMMA WebInvInit == WebInit => WebInv
<1>1. SUFFICES ASSUME WebInit PROVE WebInv OBVIOUS
<1>2. /\ count = 0 /\ link = "off" /\ frames = <<>> /\ Len(frames) = 0
      /\ status = NoCards /\ card = NoCards /\ NoCards \in [Cards -> Statuses]
      /\ phase = "opening" /\ shown = {} /\ last = 0 /\ reads = {} /\ posts = {}
      /\ answers = {} /\ frames \in Seq(FrameType)
  BY <1>1 DEF WebInit, FeedInit, NoCards, Statuses
<1>3. WebTypes BY <1>2 DEF WebTypes, FeedTypes
<1>4. MissingInv BY <1>2 DEF MissingInv, Missing
<1>5. CardsInv BY <1>2 DEF CardsInv, WasSo, Corrected, Carries
<1> QED BY <1>3, <1>4, <1>5 DEF WebInv

\* How an approval moves on, and what is sent of it.
Moves(st, now, t, a) ==
  \/ now = st
  \/ st = "none" /\ now = "pending" /\ Carries(t, CardFrame(a, now))
  \/ st = "pending" /\ now = "resolved" /\ Carries(t, CardFrame(a, now))
  \/ st = "pending" /\ now = "expired"

LEMMA OnceSo ==
  ASSUME NEW st \in Statuses, NEW now, NEW next, NEW t, NEW a,
         Moves(now, next, t, a), WasSo(st, now)
  PROVE  WasSo(st, next)
BY DEF Moves, WasSo, Statuses

\* What the server sends after an approval moved corrects what was sent before.
LEMMA StillCorrected ==
  ASSUME NEW s \in Seq(FrameType), NEW t \in Seq(FrameType), NEW a \in Cards,
         NEW now, NEW next, Corrected(s, a, now), Moves(now, next, t, a),
         \A st \in Tells : Carries(t, CardFrame(a, st)) => st = next
  PROVE  Corrected(s \o t, a, next)
<1>1. SUFFICES ASSUME NEW j \in 1..Len(s \o t), NEW st \in Tells,
                      (s \o t)[j] = CardFrame(a, st)
               PROVE  /\ WasSo(st, next)
                      /\ \/ Agrees(st, next)
                         \/ \E k \in (j + 1)..Len(s \o t) : (s \o t)[k] = CardFrame(a, "resolved")
  BY DEF Corrected
<1>2. Len(s) \in Nat /\ Len(t) \in Nat /\ Len(s \o t) = Len(s) + Len(t) BY Appended
<1>3. CASE j \in 1..Len(s)
  <2>1. s[j] = CardFrame(a, st) BY <1>1, <1>3, Appended
  <2>2. WasSo(st, now) /\ (Agrees(st, now)
          \/ \E k \in (j + 1)..Len(s) : s[k] = CardFrame(a, "resolved"))
    BY <1>3, <2>1 DEF Corrected
  <2>3. WasSo(st, next) BY <2>2, OnceSo DEF Tells, Statuses
  <2>4. ASSUME NEW k \in (j + 1)..Len(s), s[k] = CardFrame(a, "resolved")
        PROVE  \E i \in (j + 1)..Len(s \o t) : (s \o t)[i] = CardFrame(a, "resolved")
    <3>1. k \in 1..Len(s) /\ k \in (j + 1)..Len(s \o t) BY <1>2, <1>3
    <3> QED BY <2>4, <3>1, Appended
  <2>5. ASSUME Agrees(st, now), ~Agrees(st, next)
        PROVE  \E i \in (j + 1)..Len(s \o t) : (s \o t)[i] = CardFrame(a, "resolved")
    <3>1. Carries(t, CardFrame(a, "resolved"))
      BY <2>5 DEF Moves, Agrees, Tells
    <3>2. PICK i \in 1..Len(t) : t[i] = CardFrame(a, "resolved") BY <3>1 DEF Carries
    <3>3. Len(s) + i \in (j + 1)..Len(s \o t) /\ (s \o t)[Len(s) + i] = t[i]
      BY <1>2, <1>3, Appended
    <3> QED BY <3>2, <3>3
  <2> QED BY <2>2, <2>3, <2>4, <2>5
<1>4. CASE j \notin 1..Len(s)
  <2>1. j - Len(s) \in 1..Len(t) BY <1>4, Appended
  <2>2. j = Len(s) + (j - Len(s)) BY <1>2
  <2>3. t[j - Len(s)] = CardFrame(a, st) BY <1>1, <2>1, <2>2, Appended
  <2>4. st = next BY <2>1, <2>3 DEF Carries
  <2> QED BY <2>4 DEF WasSo, Agrees
<1> QED BY <1>3, <1>4

\* The server accepts, opens, answers or lets lapse, and sends what tells of it.
LEMMA ServerKeepsPage ==
  ASSUME WebInv, NEW t \in Seq(FrameType), Broadcast(t), FeedTypes',
         UNCHANGED <<link, phase, shown, last, card, reads, excused, stale>>,
         posts' \subseteq 1..count', answers' \subseteq Cards,
         \A a \in answers' : status'[a] = "resolved",
         \/ UNCHANGED count
         \/ count' = count + 1 /\ Carries(t, MessageCreated(count')),
         \A a \in Cards : Moves(status[a], status'[a], t, a),
         \A a \in Cards, st \in Tells : Carries(t, CardFrame(a, st)) => st = status'[a]
  PROVE  WebInv'
<1>1. /\ FeedTypes /\ count \in Nat /\ frames \in Seq(FrameType)
      /\ status \in [Cards -> Statuses] /\ card \in [Cards -> Statuses]
      /\ reads \subseteq ReadType /\ shown \subseteq 1..count /\ last \in 0..count
      /\ link # "up" => frames = <<>>
  BY DEF WebInv, WebTypes, FeedTypes
<1>2. WebTypes'
  <2>1. shown' \subseteq 1..count' /\ last' \in 0..count' BY <1>1
  <2> QED BY <2>1 DEF WebInv, WebTypes
<1>3. link = "up" => frames' = frames \o t BY DEF Broadcast
<1>4. MissingInv'
  <2>1. \A r \in reads' : r.what = "messages" =>
          r.after <= last' /\ (r.stage = "answered" => r.upto <= count')
    <3>1. SUFFICES ASSUME NEW r \in reads, r.what = "messages"
                   PROVE  r.after <= last /\ (r.stage = "answered" => r.upto <= count')
      OBVIOUS
    <3>2. r.upto \in Nat /\ r.after <= last /\ (r.stage = "answered" => r.upto <= count)
      BY <1>1, <3>1 DEF WebInv, MissingInv, ReadType
    <3> QED BY <1>1, <3>2
  <2>2. ASSUME NEW m \in (Missing \ excused)'
        PROVE  /\ m <= last' => Covered(m)'
               /\ link' = "up" => Covered(m)' \/ Awaits(frames', m)
    <3>1. CASE m \in 1..count
      <4>1. m \in Missing \ excused BY <2>2, <3>1 DEF Missing
      <4>2. Covered(m)' <=> Covered(m) BY DEF Covered
      <4>3. (m <= last => Covered(m)) /\ (link = "up" => Covered(m) \/ Awaits(frames, m))
        BY <4>1 DEF WebInv, MissingInv
      <4> QED BY <1>1, <1>3, <4>2, <4>3, AwaitsMore
    <3>2. CASE m \notin 1..count
      <4>1. m = count + 1 /\ m = count' /\ Carries(t, MessageCreated(m))
        BY <1>1, <2>2, <3>2 DEF Missing
      <4>2. ~(m <= last') BY <1>1, <4>1
      <4>3. ASSUME link' = "up" PROVE Awaits(frames', m)
        <5>1. frames' = frames \o t BY <1>3, <4>3
        <5>2. PICK j \in 1..Len(frames') : frames'[j] = MessageCreated(m)
          <6>1. Carries(frames \o t, MessageCreated(m)) BY <1>1, <4>1, CarriesMore
          <6> QED BY <5>1, <6>1 DEF Carries
        <5>3. \A i \in 1..(j - 1) : i \in 1..Len(frames') BY <5>1, <5>2, Appended, <1>1
        <5>4. \A i \in 1..(j - 1) : frames'[i].type = "message" => frames'[i].id <= m
          BY <4>1, <5>3 DEF FeedTypes
        <5> QED BY <5>2, <5>4 DEF Awaits
      <4> QED BY <4>2, <4>3
    <3> QED BY <3>1, <3>2
  <2> QED BY <2>1, <2>2 DEF MissingInv
<1>5. ASSUME NEW a \in Cards
      PROVE  /\ WasSo(card'[a], status'[a])
             /\ \A r \in reads' : WasSo(r.cards[a], status'[a])
             /\ Corrected(frames', a, status'[a])
             /\ link' = "up" /\ a \notin stale' =>
                  \/ Agrees(card'[a], status'[a])
                  \/ Carries(frames', Hello) \/ Told(frames', a, status'[a])
                  \/ \E r \in reads' : Asked(r, a, status'[a])
  <2>1. /\ WasSo(card[a], status[a])
        /\ \A r \in reads : WasSo(r.cards[a], status[a])
        /\ Corrected(frames, a, status[a])
        /\ link = "up" /\ a \notin stale =>
             \/ Agrees(card[a], status[a])
             \/ Carries(frames, Hello) \/ Told(frames, a, status[a])
             \/ \E r \in reads : Asked(r, a, status[a])
    BY DEF WebInv, CardsInv
  <2>2. Moves(status[a], status'[a], t, a) OBVIOUS
  <2>3. WasSo(card'[a], status'[a]) BY <1>1, <2>1, <2>2, OnceSo
  <2>4. \A r \in reads' : WasSo(r.cards[a], status'[a])
    <3>1. \A r \in reads : r.cards[a] \in Statuses BY <1>1 DEF ReadType
    <3> QED BY <2>1, <2>2, <3>1, OnceSo
  <2>5. Corrected(frames', a, status'[a])
    <3>1. CASE link = "up" BY <1>1, <1>3, <2>1, <2>2, <3>1, StillCorrected
    <3>2. CASE link # "up"
      <4>1. frames' = <<>> /\ Len(frames') = 0 BY <1>1, <3>2 DEF Broadcast
      <4> QED BY <4>1 DEF Corrected
    <3> QED BY <3>1, <3>2
  <2>6. ASSUME link' = "up", a \notin stale'
        PROVE  \/ Agrees(card'[a], status'[a])
               \/ Carries(frames', Hello) \/ Told(frames', a, status'[a])
               \/ \E r \in reads' : Asked(r, a, status'[a])
    <3>1. frames' = frames \o t BY <1>3, <2>6
    <3>2. CASE Carries(t, CardFrame(a, status'[a])) /\ status'[a] \in Tells
      BY <1>1, <3>1, <3>2, CarriesMore DEF Told, Agrees
    <3>3. CASE status'[a] = status[a] \/ (status[a] = "pending" /\ status'[a] = "expired")
      <4>1. \A st : Agrees(st, status[a]) => Agrees(st, status'[a]) BY <3>3 DEF Agrees
      <4>2. Told(frames, a, status[a]) => Told(frames', a, status'[a])
        BY <1>1, <3>1, <4>1, CarriesMore DEF Told
      <4>3. Carries(frames, Hello) => Carries(frames', Hello)
        BY <1>1, <3>1, CarriesMore
      <4>4. \A r : Asked(r, a, status[a]) => Asked(r, a, status'[a]) BY <4>1 DEF Asked
      <4> QED BY <2>1, <2>6, <4>1, <4>2, <4>3, <4>4
    <3> QED BY <2>2, <3>2, <3>3 DEF Moves, Tells
  <2> QED BY <2>3, <2>4, <2>5, <2>6
<1>6. CardsInv' BY <1>5 DEF CardsInv
<1> QED BY <1>2, <1>4, <1>6 DEF WebInv

LEMMA PublishKeepsPage ==
  ASSUME WebInv, Publish, posts' \in {posts, posts \union {count + 1}},
         UNCHANGED <<phase, shown, last, card, reads, answers, excused, stale>>
  PROVE  WebInv'
<1> DEFINE t == <<MessageCreated(count + 1)>>
<1>1. FeedTypes /\ count \in Nat /\ posts \subseteq 1..count /\ answers \subseteq Cards
      /\ \A a \in answers : status[a] = "resolved"
  BY DEF WebInv, WebTypes, FeedTypes, CardsInv
<1>2. t \in Seq(FrameType) /\ Broadcast(t) /\ FeedTypes' /\ count' = count + 1
      /\ UNCHANGED <<status, link>>
  BY <1>1, PublishSends
<1>3. Carries(t, MessageCreated(count')) /\ \A a, st : ~Carries(t, CardFrame(a, st))
  <2>1. Len(t) = 1 /\ t[1] = MessageCreated(count') BY <1>2
  <2>2. \A a, st : t[1] # CardFrame(a, st) BY <2>1, Frames
  <2> QED BY <2>1, <2>2 DEF Carries
<1>4. posts' \subseteq 1..count' BY <1>1, <1>2
<1>5. \A a \in Cards : Moves(status[a], status'[a], t, a) BY <1>2 DEF Moves
<1> HIDE DEF t
<1> QED BY <1>1, <1>2, <1>3, <1>4, <1>5, ServerKeepsPage

LEMMA OpenKeepsPage ==
  ASSUME WebInv, NEW a \in Cards, OpenCard(a),
         UNCHANGED <<phase, shown, last, card, reads, posts, answers, excused, stale>>
  PROVE  WebInv'
<1> DEFINE t == <<CardFrame(a, "pending")>>
<1>1. FeedTypes /\ count \in Nat /\ posts \subseteq 1..count /\ answers \subseteq Cards
      /\ (\A b \in answers : status[b] = "resolved") /\ status \in [Cards -> Statuses]
  BY DEF WebInv, WebTypes, FeedTypes, CardsInv
<1>2. t \in Seq(FrameType) /\ Broadcast(t) /\ FeedTypes' /\ UNCHANGED <<count, link>>
  BY <1>1, OpenSends
<1>3. /\ status[a] = "none" /\ status'[a] = "pending"
      /\ \A b \in Cards \ {a} : status'[b] = status[b]
  BY <1>1 DEF OpenCard
<1>4. Carries(t, CardFrame(a, "pending"))
      /\ \A b \in Cards, st \in Tells : Carries(t, CardFrame(b, st)) => st = status'[b]
  <2>1. Len(t) = 1 /\ t[1] = CardFrame(a, "pending") BY <1>2
  <2>2. \A b, st : t[1] = CardFrame(b, st) => b = a /\ st = "pending" BY <2>1, Frames
  <2> QED BY <1>3, <2>1, <2>2 DEF Carries
<1>5. \A b \in Cards : Moves(status[b], status'[b], t, b) BY <1>3, <1>4 DEF Moves
<1>6. \A b \in answers' : status'[b] = "resolved" BY <1>1, <1>3
<1> HIDE DEF t
<1> QED BY <1>1, <1>2, <1>4, <1>5, <1>6, ServerKeepsPage

LEMMA ResolveKeepsPage ==
  ASSUME WebInv, NEW a \in Cards, ResolveCard(a), answers' \in {answers, answers \union {a}},
         UNCHANGED <<phase, shown, last, card, reads, posts, excused, stale>>
  PROVE  WebInv'
<1> DEFINE t == <<CardFrame(a, "resolved"), MessageCreated(count + 1)>>
<1>1. FeedTypes /\ count \in Nat /\ posts \subseteq 1..count /\ answers \subseteq Cards
      /\ (\A b \in answers : status[b] = "resolved") /\ status \in [Cards -> Statuses]
  BY DEF WebInv, WebTypes, FeedTypes, CardsInv
<1>2. t \in Seq(FrameType) /\ Broadcast(t) /\ FeedTypes' /\ count' = count + 1
      /\ UNCHANGED link
  BY <1>1, ResolveSends
<1>3. /\ status[a] = "pending" /\ status'[a] = "resolved"
      /\ \A b \in Cards \ {a} : status'[b] = status[b]
  BY <1>1 DEF ResolveCard
<1>4. /\ Carries(t, CardFrame(a, "resolved")) /\ Carries(t, MessageCreated(count'))
      /\ \A b \in Cards, st \in Tells : Carries(t, CardFrame(b, st)) => st = status'[b]
  <2>1. Len(t) = 2 /\ t[1] = CardFrame(a, "resolved") /\ t[2] = MessageCreated(count')
    BY <1>2
  <2>2. \A b, st : t[1] = CardFrame(b, st) => b = a /\ st = "resolved" BY <2>1, Frames
  <2>3. \A b, st : t[2] # CardFrame(b, st) BY <2>1, Frames
  <2>4. \A j \in 1..Len(t) : j = 1 \/ j = 2 BY <2>1
  <2>5. 1 \in 1..Len(t) /\ 2 \in 1..Len(t) BY <2>1
  <2> HIDE DEF t
  <2> QED BY <1>3, <2>1, <2>2, <2>3, <2>4, <2>5 DEF Carries
<1>5. \A b \in Cards : Moves(status[b], status'[b], t, b) BY <1>3, <1>4 DEF Moves
<1>6. \A b \in answers' : status'[b] = "resolved" BY <1>1, <1>3
<1>7. posts' \subseteq 1..count' /\ answers' \subseteq Cards BY <1>1, <1>2
<1> HIDE DEF t
<1> QED BY <1>2, <1>4, <1>5, <1>6, <1>7, ServerKeepsPage

LEMMA LapseKeepsPage ==
  ASSUME WebInv, NEW a \in Cards, LapseCard(a),
         UNCHANGED <<phase, shown, last, card, reads, posts, answers, excused, stale>>
  PROVE  WebInv'
<1>1. FeedTypes /\ count \in Nat /\ posts \subseteq 1..count /\ answers \subseteq Cards
      /\ (\A b \in answers : status[b] = "resolved") /\ status \in [Cards -> Statuses]
      /\ frames \in Seq(FrameType)
  BY DEF WebInv, WebTypes, FeedTypes, CardsInv
<1>2. /\ status[a] = "pending" /\ status'[a] = "expired"
      /\ \A b \in Cards \ {a} : status'[b] = status[b]
      /\ UNCHANGED <<count, link, frames>> /\ status' \in [Cards -> Statuses]
  BY <1>1 DEF LapseCard, Statuses
<1>3. <<>> \in Seq(FrameType) /\ Len(<<>>) = 0 /\ frames \o <<>> = frames BY <1>1
<1>4. Broadcast(<<>>) BY <1>2, <1>3 DEF Broadcast
<1>5. \A f : ~Carries(<<>>, f) BY <1>3 DEF Carries
<1>6. FeedTypes' BY <1>1, <1>2 DEF FeedTypes
<1>7. \A b \in Cards : Moves(status[b], status'[b], <<>>, b) BY <1>2 DEF Moves
<1>8. \A b \in answers' : status'[b] = "resolved" BY <1>1, <1>2
<1> QED BY <1>1, <1>2, <1>3, <1>4, <1>5, <1>6, <1>7, <1>8, ServerKeepsPage

\* The socket opens with a hello ahead, or closes.
LEMMA LinkKeepsPage ==
  ASSUME WebInv, FeedTypes', UNCHANGED <<count, status, shown, last, card, reads, posts,
                                         answers, excused, stale>>,
         \/ link' = "up" /\ frames' = <<Hello>> /\ phase = "live"
         \/ link' \in {"down", "denied"} /\ phase = "live" /\ frames' = <<>>
         \/ link' = "off" /\ frames' = <<>>,
         phase' \in {phase, "gone"}, phase' = "gone" => link' = "off"
  PROVE  WebInv'
<1>1. WebTypes' BY DEF WebInv, WebTypes
<1>2. link' = "up" => Carries(frames', Hello) /\ \A m : Awaits(frames', m)
  <2>1. ASSUME link' = "up"
        PROVE  Len(frames') = 1 /\ frames'[1] = Hello /\ 1 \in 1..Len(frames')
    BY <2>1
  <2>2. ASSUME link' = "up" PROVE \A i \in 1..(1 - 1) : FALSE OBVIOUS
  <2> QED BY <2>1, <2>2 DEF Carries, Awaits
<1>3. MissingInv'
  <2>1. \A m : Covered(m)' <=> Covered(m) BY DEF Covered
  <2>2. (Missing \ excused)' = Missing \ excused BY DEF Missing
  <2> QED BY <1>2, <2>1, <2>2 DEF WebInv, MissingInv
<1>4. \A a \in Cards : Corrected(frames', a, status[a])
  <2>1. \A j \in 1..Len(frames') : frames'[j] = Hello
    <3>1. CASE frames' = <<>> BY <3>1
    <3>2. CASE frames' = <<Hello>> BY <3>2
    <3> QED BY <3>1, <3>2
  <2>2. \A a, st : Hello # CardFrame(a, st) BY Frames
  <2> QED BY <2>1, <2>2 DEF Corrected
<1>5. CardsInv' BY <1>2, <1>4 DEF WebInv, CardsInv
<1> QED BY <1>1, <1>3, <1>5 DEF WebInv

LEMMA WorldKeepsPage ==
  ASSUME WebInv, World
  PROVE  WebInv'
<1>1. UNCHANGED <<phase, shown, last, card, reads, posts, answers, excused, stale>>
  BY DEF World, page, calls, history
<1>2. CASE Publish BY <1>1, <1>2, PublishKeepsPage
<1>3. ASSUME NEW a \in Cards, OpenCard(a) \/ ResolveCard(a) \/ LapseCard(a)
      PROVE  WebInv'
  BY <1>1, <1>3, OpenKeepsPage, ResolveKeepsPage, LapseKeepsPage
<1>4. CASE Connect \/ LoseLink \/ Deny
  <2>1. FeedTypes /\ (phase # "live" => link = "off") /\ phase # "gone"
    BY DEF WebInv, WebTypes, World
  <2>2. FeedTypes' /\ UNCHANGED <<count, status>> BY <1>4, <2>1, LinkKeeps
  <2>3. phase = "live" /\ \/ link' = "up" /\ frames' = <<Hello>>
                          \/ link' \in {"down", "denied"} /\ frames' = <<>>
    BY <1>4, <2>1 DEF Connect, LoseLink, Deny
  <2> QED BY <1>1, <2>1, <2>2, <2>3, LinkKeepsPage
<1> QED BY <1>2, <1>3, <1>4 DEF World

-----------------------------------------------------------------------------
(* The page: what it does itself.                                          *)

\* What a step of the page needs to show of the messages.
LEMMA MissingKeeps ==
  ASSUME WebInv, UNCHANGED <<count, frames>>, link' = link \/ link' # "up",
         shown \subseteq shown', last \in Nat, last' \in Nat, last <= last',
         excused \subseteq excused',
         \A r \in reads' : r \in reads \/ r.what = "cards"
           \/ (r.after <= last' /\ (r.stage = "answered" => r.upto <= count)),
         \A m \in (Missing \ excused)' :
           /\ m <= last' => m <= last \/ Covered(m)'
           /\ Covered(m) => Covered(m)'
  PROVE  MissingInv'
<1>1. \A r \in reads' : r.what = "messages" =>
        r.after <= last' /\ (r.stage = "answered" => r.upto <= count')
  <2>1. SUFFICES ASSUME NEW r \in reads, r.what = "messages", r \in reads'
                 PROVE  r.after <= last' /\ (r.stage = "answered" => r.upto <= count')
    OBVIOUS
  <2>2. r.after \in Nat BY <2>1 DEF WebInv, WebTypes, ReadType
  <2> QED BY <2>1, <2>2 DEF WebInv, MissingInv
<1>2. ASSUME NEW m \in (Missing \ excused)'
      PROVE  /\ m <= last' => Covered(m)'
             /\ link' = "up" => Covered(m)' \/ Awaits(frames', m)
  <2>1. m \in Missing \ excused BY <1>2 DEF Missing
  <2>2. (m <= last => Covered(m)) /\ (link = "up" => Covered(m) \/ Awaits(frames, m))
    BY <2>1 DEF WebInv, MissingInv
  <2> QED BY <1>2, <2>2
<1> QED BY <1>1, <1>2 DEF MissingInv

\* And of the approvals.
LEMMA CardsKeep ==
  ASSUME WebInv, UNCHANGED <<status, frames>>, link' = link \/ link' # "up",
         \A a \in answers' : status[a] = "resolved",
         stale \subseteq stale',
         \A a \in Cards :
           /\ WasSo(card'[a], status[a])
           /\ \A r \in reads' : r \in reads \/ WasSo(r.cards[a], status[a])
           /\ link' = "up" /\ a \notin stale' =>
                /\ Agrees(card[a], status[a]) =>
                     Agrees(card'[a], status[a]) \/ \E r \in reads' : Asked(r, a, status[a])
                /\ \A r \in reads : Asked(r, a, status[a]) =>
                     Agrees(card'[a], status[a]) \/ \E q \in reads' : Asked(q, a, status[a])
  PROVE  CardsInv'
<1>1. ASSUME NEW a \in Cards
      PROVE  /\ WasSo(card'[a], status'[a])
             /\ \A r \in reads' : WasSo(r.cards[a], status'[a])
             /\ Corrected(frames', a, status'[a])
             /\ link' = "up" /\ a \notin stale' =>
                  \/ Agrees(card'[a], status'[a])
                  \/ Carries(frames', Hello) \/ Told(frames', a, status'[a])
                  \/ \E r \in reads' : Asked(r, a, status'[a])
  <2>1. /\ \A r \in reads : WasSo(r.cards[a], status[a])
        /\ Corrected(frames, a, status[a])
        /\ link = "up" /\ a \notin stale =>
             \/ Agrees(card[a], status[a])
             \/ Carries(frames, Hello) \/ Told(frames, a, status[a])
             \/ \E r \in reads : Asked(r, a, status[a])
    BY DEF WebInv, CardsInv
  <2> QED BY <2>1
<1> QED BY <1>1 DEF CardsInv

\* Gets that are asked, or given up, once nothing depends on them.
LEMMA SameMissing ==
  ASSUME WebInv, UNCHANGED <<count, frames, shown, last>>, link' = link \/ link' # "up",
         excused \subseteq excused',
         \A r \in reads' : r \in reads \/ r.what = "cards"
           \/ (r.after <= last /\ (r.stage = "answered" => r.upto <= count)),
         \A m \in Missing \ excused' : Covered(m) => Covered(m)'
  PROVE  MissingInv'
<1>1. last \in Nat BY DEF WebInv, WebTypes, FeedTypes
<1>2. Missing' = Missing BY DEF Missing
<1> QED BY <1>1, <1>2, MissingKeeps

LEMMA GetType ==
  ASSUME NEW who \in {"load", "hello"}, NEW what \in {"messages", "cards"}, NEW after \in Nat
  PROVE  LET r == Get(who, what, after) IN
         /\ r \in ReadType /\ r.who = who /\ r.what = what /\ r.after = after
         /\ r.stage = "asked" /\ \A a \in Cards : r.cards[a] = "none"
BY DEF Get, ReadType, NoCards, Statuses

LEMMA PageFacts ==
  ASSUME WebInv
  PROVE  /\ count \in Nat /\ status \in [Cards -> Statuses] /\ card \in [Cards -> Statuses]
         /\ shown \subseteq 1..count /\ last \in 0..count /\ last \in Nat
         /\ reads \subseteq ReadType /\ posts \subseteq 1..count /\ answers \subseteq Cards
         /\ phase \in {"opening", "loading", "live", "failed", "gone"}
         /\ phase # "live" => link = "off"
         /\ FeedTypes
         /\ \A a \in answers : status[a] = "resolved"
         /\ \A a \in Cards : /\ WasSo(card[a], status[a])
                             /\ \A r \in reads : WasSo(r.cards[a], status[a])
         /\ \A r \in reads : r.what = "messages" =>
              r.after <= last /\ (r.stage = "answered" => r.upto <= count)
         /\ MissingInv /\ CardsInv /\ WebTypes
BY DEF WebInv, WebTypes, FeedTypes, MissingInv, CardsInv

LEMMA LoadedKeeps ==
  ASSUME WebInv, Loaded
  PROVE  WebInv'
<1> DEFINE next == Get("load", "cards", 0)
<1>1. /\ phase = "opening" /\ phase' = "loading" /\ reads' = reads \union {next}
      /\ UNCHANGED <<count, status, link, frames, shown, last, card, posts, answers,
                     excused, stale>>
  BY DEF Loaded, feed, history
<1>2. /\ next \in ReadType /\ next.what = "cards" /\ next.who = "load"
      /\ \A a \in Cards : next.cards[a] = "none"
  BY GetType
<1> HIDE DEF next
<1>3. WebTypes' BY <1>1, <1>2, PageFacts DEF WebTypes, FeedTypes
<1>4. \A m : Covered(m) => Covered(m)' BY <1>1 DEF Covered
<1>5. MissingInv' BY <1>1, <1>2, <1>4, SameMissing
<1>6. CardsInv' BY <1>1, <1>2, PageFacts, CardsKeep DEF WasSo
<1> QED BY <1>3, <1>5, <1>6 DEF WebInv

\* The answer to a GET is as the room is then.
LEMMA AnswerKeeps ==
  ASSUME WebInv, NEW r \in reads, Answer(r)
  PROVE  WebInv'
<1> DEFINE next == IF r.what = "messages"
                   THEN [r EXCEPT !.stage = "answered", !.upto = count]
                   ELSE [r EXCEPT !.stage = "answered", !.cards = status]
<1>1. /\ r.stage = "asked" /\ reads' = (reads \ {r}) \union {next}
      /\ UNCHANGED <<count, status, link, frames, phase, shown, last, card, posts, answers,
                     excused, stale>>
  BY DEF Answer, feed, page, history
<1>2. r \in ReadType /\ count \in Nat /\ status \in [Cards -> Statuses] BY PageFacts
<1>3. /\ next \in ReadType /\ next.stage = "answered"
      /\ next.who = r.who /\ next.what = r.what /\ next.after = r.after
      /\ r.what = "messages" => next.upto = count /\ next.cards = r.cards
      /\ r.what = "cards" => next.cards = status
  BY <1>2 DEF ReadType
<1> HIDE DEF next
<1>4. WebTypes' BY <1>1, <1>3, PageFacts DEF WebTypes, FeedTypes
<1>5. ASSUME NEW m \in Missing \ excused', Covered(m) PROVE Covered(m)'
  <2>1. PICK q \in reads : WillShow(q, m) BY <1>5 DEF Covered
  <2>2. CASE q # r BY <1>1, <2>1, <2>2 DEF Covered
  <2>3. CASE q = r
    <3>1. WillShow(next, m) BY <1>3, <1>5, <2>1, <2>3 DEF WillShow, Missing
    <3> QED BY <1>1, <3>1 DEF Covered
  <2> QED BY <2>2, <2>3
<1>6. next.what = "cards" \/ (next.after <= last /\ next.upto <= count)
  BY <1>2, <1>3, PageFacts DEF ReadType
<1>7. MissingInv' BY <1>1, <1>5, <1>6, SameMissing
<1>8. ASSUME NEW a \in Cards
      PROVE  /\ \A q \in reads' : q \in reads \/ WasSo(q.cards[a], status[a])
             /\ \A q \in reads : Asked(q, a, status[a]) =>
                  \E p \in reads' : Asked(p, a, status[a])
  <2>1. WasSo(next.cards[a], status[a])
    BY <1>2, <1>3, PageFacts DEF WasSo, ReadType
  <2>2. Asked(r, a, status[a]) => Asked(next, a, status[a])
    BY <1>3 DEF Asked, Agrees
  <2> QED BY <1>1, <2>1, <2>2
<1>9. CardsInv' BY <1>1, <1>8, PageFacts, CardsKeep
<1> QED BY <1>4, <1>7, <1>9 DEF WebInv

LEMMA CardsLoadedKeeps ==
  ASSUME WebInv, NEW r \in reads, CardsLoaded(r)
  PROVE  WebInv'
<1> DEFINE next == Get("load", "messages", 0)
<1>1. /\ r.who = "load" /\ r.what = "cards" /\ r.stage = "answered"
      /\ UNCHANGED <<count, status, link, frames, phase, shown, last, posts, answers,
                     excused, stale>>
      /\ \/ phase = "loading" /\ card' = r.cards /\ reads' = (reads \ {r}) \union {next}
         \/ reads' = reads \ {r} /\ card' = card
  BY DEF CardsLoaded, feed, history
<1>2. /\ next \in ReadType /\ next.what = "messages" /\ next.after = 0
      /\ next.stage = "asked" /\ \A a \in Cards : next.cards[a] = "none"
  BY GetType
<1> HIDE DEF next
<1>3. r \in ReadType /\ r.cards \in [Cards -> Statuses] BY PageFacts DEF ReadType
<1>4. WebTypes' BY <1>1, <1>2, <1>3, PageFacts DEF WebTypes, FeedTypes
<1>5. \A m : Covered(m) => Covered(m)' BY <1>1 DEF Covered, WillShow
<1>6. next.after <= last BY <1>2, PageFacts
<1>7. MissingInv' BY <1>1, <1>2, <1>5, <1>6, SameMissing
<1>8. ASSUME NEW a \in Cards
      PROVE  /\ WasSo(card'[a], status[a])
             /\ \A q \in reads' : q \in reads \/ WasSo(q.cards[a], status[a])
             /\ link' = "up" => card' = card
             /\ \A q \in reads : Asked(q, a, status[a]) => q \in reads'
  BY <1>1, <1>2, PageFacts DEF Asked, WasSo
<1>9. CardsInv' BY <1>1, <1>8, PageFacts, CardsKeep
<1> QED BY <1>4, <1>7, <1>9 DEF WebInv

\* An answer that the page has is not taken back by an older reading.
LEMMA CardsMergedKeeps ==
  ASSUME WebInv, NEW r \in reads, CardsMerged(r)
  PROVE  WebInv'
<1>1. /\ r.who = "hello" /\ r.what = "cards" /\ r.stage = "answered"
      /\ UNCHANGED <<count, status, link, frames, phase, shown, last, posts, answers,
                     excused, stale>>
      /\ reads' = reads \ {r}
      /\ \A a \in Cards : card'[a] =
           IF \/ r.cards[a] = "none"
              \/ card[a] \in {"resolved", "expired"} /\ r.cards[a] = "pending"
           THEN card[a] ELSE r.cards[a]
  BY DEF CardsMerged, feed, history
<1>2. r \in ReadType /\ r.cards \in [Cards -> Statuses] /\ card \in [Cards -> Statuses]
  BY PageFacts DEF ReadType
<1>3. card' \in [Cards -> Statuses] BY <1>2 DEF CardsMerged
<1>4. WebTypes' BY <1>1, <1>3, PageFacts DEF WebTypes, FeedTypes
<1>5. \A m : Covered(m) => Covered(m)' BY <1>1 DEF Covered, WillShow
<1>6. MissingInv' BY <1>1, <1>5, SameMissing
<1>7. ASSUME NEW a \in Cards
      PROVE  /\ WasSo(card'[a], status[a])
             /\ Agrees(card[a], status[a]) => Agrees(card'[a], status[a])
             /\ Agrees(r.cards[a], status[a]) => Agrees(card'[a], status[a])
  <2>1. /\ WasSo(card[a], status[a]) /\ WasSo(r.cards[a], status[a])
        /\ card[a] \in Statuses /\ r.cards[a] \in Statuses
    BY <1>2, PageFacts
  <2> QED BY <1>1, <2>1 DEF WasSo, Agrees, Statuses
<1>8. ASSUME NEW a \in Cards, NEW q \in reads, Asked(q, a, status[a])
      PROVE  q \in reads' \/ Agrees(card'[a], status[a])
  BY <1>1, <1>7, <1>8 DEF Asked
<1>9. CardsInv' BY <1>1, <1>7, <1>8, PageFacts, CardsKeep
<1> QED BY <1>4, <1>6, <1>9 DEF WebInv

LEMMA GetFailsKeeps ==
  ASSUME WebInv, NEW r \in reads, GetFails(r)
  PROVE  WebInv'
<1>1. /\ reads' = reads \ {r}
      /\ UNCHANGED <<count, status, link, frames, shown, last, card, posts, answers>>
      /\ phase' \in {phase, "failed"} /\ (phase' # phase => phase = "loading")
      /\ \/ r.what = "messages" /\ excused' = excused \union Missing /\ stale' = stale
         \/ /\ r.what # "messages" /\ excused' = excused
            /\ stale' = stale \union {a \in Cards : card[a] # status[a]}
  BY DEF GetFails, feed
<1>2. WebTypes' BY <1>1, PageFacts DEF WebTypes, FeedTypes
<1>3. \A m \in Missing \ excused' : Covered(m) => Covered(m)'
  BY <1>1 DEF Covered, WillShow
<1>4. MissingInv' BY <1>1, <1>3, SameMissing
<1>5. ASSUME NEW a \in Cards, NEW q \in reads, Asked(q, a, status[a]), a \notin stale'
      PROVE  q \in reads' \/ Agrees(card'[a], status[a])
  BY <1>1, <1>5 DEF Asked, Agrees
<1>6. CardsInv' BY <1>1, <1>5, PageFacts, CardsKeep
<1> QED BY <1>2, <1>4, <1>6 DEF WebInv

\* A page of messages is shown; what it leaves out below its end is not of
\* the room, and a full page is followed by the next.
LEMMA PageLandsKeeps ==
  ASSUME WebInv, NEW r \in reads, PageLands(r)
  PROVE  WebInv'
<1> DEFINE B == Batch(r)
           next == Get(r.who, "messages", NewestOf(B))
           end == IF r.upto <= r.after + PageLimit THEN r.upto ELSE r.after + PageLimit
<1>1. /\ r.what = "messages" /\ r.stage = "answered" /\ Note(B)
      /\ reads' = (reads \ {r}) \union (IF More(r) THEN {next} ELSE {})
      /\ UNCHANGED <<count, status, frames, card, posts, answers, excused, stale>>
      /\ \/ Ready(r) /\ phase = "loading" /\ phase' = "live" /\ link' = "down"
         \/ UNCHANGED <<phase, link>>
  BY DEF PageLands, history, Start, Ready
<1>2. /\ r \in ReadType /\ r.after \in Nat /\ r.upto \in 0..count /\ r.after <= last
      /\ r.who \in {"load", "hello"}
      /\ count \in Nat /\ last \in 0..count /\ PageLimit \in Nat \ {0}
  BY <1>1, PageFacts, WebAssumption DEF ReadType
<1>3. /\ B = (r.after + 1)..end /\ end \in Nat /\ end <= count
      /\ More(r) <=> r.upto >= r.after + PageLimit
      /\ More(r) => NewestOf(B) = r.after + PageLimit /\ NewestOf(B) \in B
  <2>1. r.upto \in Nat /\ end \in Nat /\ end <= count BY <1>2
  <2>2. B = Page(r.after, PageLimit, r.upto) BY DEF Batch
  <2> HIDE DEF B
  <2>3. LET P == Page(r.after, PageLimit, r.upto) IN
        /\ P = (r.after + 1)..end
        /\ Cardinality(P) = PageLimit <=> r.upto >= r.after + PageLimit
        /\ r.upto >= r.after + PageLimit =>
             NewestOf(P) = r.after + PageLimit /\ r.after + PageLimit \in P
    BY <1>2, <2>1, PageRuns
  <2>4. More(r) <=> Cardinality(B) = PageLimit BY DEF More, B
  <2> QED BY <2>1, <2>2, <2>3, <2>4
<1> HIDE DEF B
<1>4. B \in SUBSET (1..count) /\ (B = {} \/ \E k \in B : \A n \in B : n <= k)
  <2>1. B = {} \/ (end \in B /\ \A n \in B : n <= end) BY <1>2, <1>3
  <2>2. B \in SUBSET (1..count)
    <3>1. \A n \in (r.after + 1)..end : n \in 1..count BY <1>2, <1>3
    <3> QED BY <1>3, <3>1
  <2> QED BY <2>1, <2>2
<1>5. /\ shown' = shown \union B /\ shown' \subseteq 1..count /\ last' \in 0..count
      /\ last <= last' /\ (last' = last \/ last' \in B) /\ \A n \in B : n <= last'
  BY <1>1, <1>4, NoteMoves, PageFacts
<1>6. More(r) => /\ next \in ReadType /\ next.what = "messages" /\ next.stage = "asked"
                 /\ next.after = r.after + PageLimit /\ next.after <= last'
                 /\ \A a \in Cards : next.cards[a] = "none"
  <2>1. More(r) => NewestOf(B) \in Nat /\ NewestOf(B) <= last' BY <1>3, <1>5, <1>4
  <2> QED BY <1>2, <1>3, <2>1, GetType
<1> HIDE DEF next
<1>7. reads' \subseteq ReadType BY <1>1, <1>6, PageFacts
<1>8. FeedTypes'
  <2>1. link' # link => link = "off" BY <1>1, PageFacts
  <2> QED BY <1>1, <2>1, PageFacts DEF FeedTypes
<1>9. WebTypes' BY <1>1, <1>5, <1>7, <1>8, PageFacts DEF WebTypes
<1>10. ASSUME NEW m \in (Missing \ excused)', m \notin B
       PROVE  /\ m <= last' => m <= last \/ Covered(m)'
              /\ Covered(m) => Covered(m)'
  <2>1. m \in 1..count BY <1>1, <1>10 DEF Missing
  <2>2. m <= last' => m <= last
    <3>1. SUFFICES ASSUME m <= last', last' \in B, last < m PROVE FALSE
      BY <1>2, <1>5, <2>1
    <3>2. r.after < m /\ m <= end BY <1>2, <1>3, <2>1, <3>1
    <3> QED BY <1>2, <1>3, <1>10, <2>1, <3>2
  <2>3. WillShow(r, m) => Covered(m)'
    <3>1. SUFFICES ASSUME r.after < m, m <= r.upto PROVE Covered(m)'
      BY <1>1 DEF WillShow
    <3>2. r.after + PageLimit < m BY <1>2, <1>3, <1>10, <2>1, <3>1
    <3>3. More(r) BY <1>2, <1>3, <2>1, <3>1, <3>2
    <3>4. next \in reads' /\ WillShow(next, m) BY <1>1, <1>6, <3>2, <3>3 DEF WillShow
    <3> QED BY <3>4 DEF Covered
  <2>4. Covered(m) => Covered(m)' BY <1>1, <2>3 DEF Covered
  <2> QED BY <2>2, <2>4
<1>11. \A m \in (Missing \ excused)' : m \notin B BY <1>5 DEF Missing
<1>12. MissingInv'
  <2>1. \A q \in reads' : q \in reads \/ (q.after <= last' /\ q.stage = "asked")
    BY <1>1, <1>6
  <2>2. shown \subseteq shown' /\ last \in Nat /\ last' \in Nat BY <1>2, <1>5
  <2>3. link' = link \/ link' # "up" BY <1>1
  <2> QED BY <1>1, <1>5, <1>10, <1>11, <2>1, <2>2, <2>3, MissingKeeps
<1>13. ASSUME NEW a \in Cards
       PROVE  /\ \A q \in reads' : q \in reads \/ WasSo(q.cards[a], status[a])
              /\ \A q \in reads : Asked(q, a, status[a]) => q \in reads'
  BY <1>1, <1>6 DEF WasSo, Asked
<1>14. link' = link \/ link' # "up" BY <1>1
<1>15. CardsInv' BY <1>1, <1>13, <1>14, PageFacts, CardsKeep
<1> QED BY <1>9, <1>12, <1>15 DEF WebInv

\* The frames are handled in the order they were sent.
LEMMA HandleFrameKeeps ==
  ASSUME WebInv, HandleFrame
  PROVE  WebInv'
<1> DEFINE f == Head(frames)
<1>1. /\ phase = "live" /\ link = "up" /\ frames # <<>> /\ frames' = Tail(frames)
      /\ UNCHANGED <<count, status, link, phase, posts, answers, excused, stale>>
      /\ FeedTypes
  BY PageFacts DEF HandleFrame, history
<1>2. /\ FeedTypes' /\ f = frames[1] /\ f \in FrameType /\ 1 \in 1..Len(frames)
      /\ f.type = "message" => f.id <= count
  BY <1>1, Handled
<1>3. \A g : Carries(frames, g) <=> f = g \/ Carries(frames', g)
  BY <1>1, CarriesOn
<1>4. ASSUME NEW a \in Cards PROVE Corrected(frames', a, status[a])
  <2>1. SUFFICES ASSUME NEW j \in 1..Len(frames'), NEW st \in Tells,
                        frames'[j] = CardFrame(a, st)
                 PROVE  /\ WasSo(st, status[a])
                        /\ \/ Agrees(st, status[a])
                           \/ \E k \in (j + 1)..Len(frames') : frames'[k] = CardFrame(a, "resolved")
    BY DEF Corrected
  <2>2. j + 1 \in 1..Len(frames) /\ frames[j + 1] = CardFrame(a, st)
    BY <1>1, <2>1, Handled
  <2>3. /\ WasSo(st, status[a])
        /\ \/ Agrees(st, status[a])
           \/ \E k \in (j + 2)..Len(frames) : frames[k] = CardFrame(a, "resolved")
    <3>1. Corrected(frames, a, status[a]) BY DEF WebInv, CardsInv
    <3>2. (j + 1) + 1 = j + 2 OBVIOUS
    <3> QED BY <2>2, <3>1, <3>2 DEF Corrected
  <2>4. ASSUME NEW k \in (j + 2)..Len(frames), frames[k] = CardFrame(a, "resolved")
        PROVE  \E i \in (j + 1)..Len(frames') : frames'[i] = CardFrame(a, "resolved")
    <3>1. k \in 1..Len(frames) /\ k # 1 /\ k - 1 >= j + 1 OBVIOUS
    <3>2. k - 1 \in 1..Len(frames') /\ frames'[k - 1] = frames[k] BY <1>1, <3>1, Handled
    <3>3. k - 1 \in (j + 1)..Len(frames') BY <3>1, <3>2
    <3> QED BY <2>4, <3>2, <3>3
  <2> QED BY <2>3, <2>4
<1>5. ASSUME NEW m \in Missing \ excused, f # Hello, f # MessageCreated(m)
      PROVE  \/ Covered(m)
             \/ Awaits(frames', m) /\ (f.type = "message" => f.id <= m)
  <2>1. Covered(m) \/ Awaits(frames, m) BY <1>1, <1>5 DEF WebInv, MissingInv
  <2> QED BY <1>1, <1>5, <2>1, AwaitsOn
<1>6. CASE f.type = "hello" /\ HandleHello
  <2> DEFINE asks == Get("hello", "messages", last)
             looks == Get("hello", "cards", 0)
  <2>1. reads' = reads \union {asks, looks} /\ UNCHANGED <<shown, last, card>>
    BY <1>6 DEF HandleHello
  <2>2. last \in Nat /\ last \in 0..count BY PageFacts
  <2>3. /\ asks \in ReadType /\ asks.what = "messages" /\ asks.after = last
        /\ asks.stage = "asked" /\ \A a \in Cards : asks.cards[a] = "none"
    BY <2>2, GetType
  <2>4. /\ looks \in ReadType /\ looks.what = "cards" /\ looks.who = "hello"
        /\ looks.stage = "asked" /\ \A a \in Cards : looks.cards[a] = "none"
    BY GetType
  <2> HIDE DEF asks, looks
  <2>5. WebTypes' BY <1>1, <1>2, <2>1, <2>3, <2>4, PageFacts DEF WebTypes
  <2>6. MissingInv'
    <3>1. ASSUME NEW m \in (Missing \ excused)' PROVE Covered(m)'
      <4>1. m \in Missing \ excused /\ m \in 1..count BY <1>1, <2>1, <3>1 DEF Missing
      <4>2. m <= last => Covered(m) BY <4>1 DEF WebInv, MissingInv
      <4>3. m > last => WillShow(asks, m) BY <2>3 DEF WillShow
      <4> QED BY <2>1, <2>2, <4>1, <4>2, <4>3 DEF Covered
    <3>2. \A r \in reads' : r.what = "messages" =>
            r.after <= last' /\ (r.stage = "answered" => r.upto <= count')
      <4>1. asks.after <= last /\ asks.stage # "answered" BY <2>2, <2>3
      <4> QED BY <1>1, <2>1, <2>4, <4>1, PageFacts
    <3> QED BY <3>1, <3>2 DEF MissingInv
  <2>7. ASSUME NEW a \in Cards
        PROVE  /\ WasSo(card'[a], status'[a])
               /\ \A r \in reads' : WasSo(r.cards[a], status'[a])
               /\ \E r \in reads' : Asked(r, a, status'[a])
    <3>1. Asked(looks, a, status[a]) BY <2>4 DEF Asked
    <3> QED BY <1>1, <2>1, <2>3, <2>4, <3>1, PageFacts DEF WasSo
  <2>8. \A a \in answers' : status'[a] = "resolved" BY <1>1, PageFacts
  <2>9. CardsInv' BY <1>1, <1>4, <2>7, <2>8 DEF CardsInv
  <2> QED BY <2>5, <2>6, <2>9 DEF WebInv
<1>7. CASE f.type = "message" /\ Note({f.id}) /\ UNCHANGED <<card, reads>>
  <2>1. /\ f = MessageCreated(f.id) /\ f.id \in 1..count /\ f # Hello
        /\ \A a, st : f # CardFrame(a, st)
    BY <1>2, <1>7, PageFacts, Frames
  <2>2. /\ shown' = shown \union {f.id} /\ shown' \subseteq 1..count /\ last' \in 0..count
        /\ last <= last' /\ (last' = last \/ last' = f.id) /\ f.id <= last'
    <3>1. {f.id} \in SUBSET (1..count) BY <2>1
    <3>2. \E k \in {f.id} : \A n \in {f.id} : n <= k BY <2>1
    <3> QED BY <1>7, <3>1, <3>2, NoteMoves, PageFacts
  <2>3. WebTypes' BY <1>1, <1>2, <1>7, <2>2, PageFacts DEF WebTypes
  <2>4. \A m : Covered(m)' <=> Covered(m) BY <1>7 DEF Covered
  <2>5. MissingInv'
    <3>1. ASSUME NEW m \in (Missing \ excused)'
          PROVE  /\ m <= last' => Covered(m)'
                 /\ link' = "up" => Covered(m)' \/ Awaits(frames', m)
      <4>1. m \in Missing \ excused /\ m \in 1..count /\ m # f.id
        BY <1>1, <2>2, <3>1 DEF Missing
      <4>2. f # MessageCreated(m) BY <2>1, <4>1, Frames
      <4>3. Covered(m) \/ (Awaits(frames', m) /\ f.id <= m) BY <1>5, <1>7, <2>1, <4>1, <4>2
      <4>4. m <= last => Covered(m) BY <4>1 DEF WebInv, MissingInv
      <4>5. m <= last' => Covered(m)
        <5>1. CASE last' = last BY <4>4, <5>1
        <5>2. CASE last' = f.id BY <2>1, <4>1, <4>3, <5>2
        <5> QED BY <2>2, <5>1, <5>2
      <4> QED BY <2>4, <4>3, <4>5
    <3>2. \A r \in reads' : r.what = "messages" =>
            r.after <= last' /\ (r.stage = "answered" => r.upto <= count')
      <4>1. SUFFICES ASSUME NEW r \in reads, r.what = "messages"
                     PROVE  r.after <= last' /\ (r.stage = "answered" => r.upto <= count')
        BY <1>7
      <4>2. r.after \in Nat /\ r.after <= last /\ last \in Nat BY <4>1, PageFacts DEF ReadType
      <4> QED BY <1>1, <2>2, <4>1, <4>2, PageFacts
    <3> QED BY <3>1, <3>2 DEF MissingInv
  <2>6. CardsInv'
    <3>1. ASSUME NEW a \in Cards, link' = "up", a \notin stale'
          PROVE  \/ Agrees(card'[a], status'[a])
                 \/ Carries(frames', Hello) \/ Told(frames', a, status'[a])
                 \/ \E r \in reads' : Asked(r, a, status'[a])
      <4>1. \/ Agrees(card[a], status[a])
            \/ Carries(frames, Hello) \/ Told(frames, a, status[a])
            \/ \E r \in reads : Asked(r, a, status[a])
        BY <1>1, <3>1 DEF WebInv, CardsInv
      <4>2. Told(frames, a, status[a]) => Told(frames', a, status[a])
        BY <1>3, <2>1 DEF Told
      <4> QED BY <1>1, <1>3, <1>7, <2>1, <4>1, <4>2
    <3> QED BY <1>1, <1>4, <1>7, <3>1, PageFacts DEF CardsInv
  <2> QED BY <2>3, <2>5, <2>6 DEF WebInv
<1>8. CASE f.type = "card" /\ card' = [card EXCEPT ![f.id] = f.status]
           /\ UNCHANGED <<shown, last, reads>>
  <2>1. /\ f = CardFrame(f.id, f.status) /\ f.id \in Cards /\ f.status \in Tells
        /\ f # Hello /\ \A m : f # MessageCreated(m)
    BY <1>2, <1>8, Frames
  <2>2. /\ card' \in [Cards -> Statuses] /\ card'[f.id] = f.status
        /\ \A a \in Cards \ {f.id} : card'[a] = card[a]
    BY <1>8, <2>1, PageFacts DEF Statuses, Tells
  <2>3. WebTypes' BY <1>1, <1>2, <1>8, <2>2, PageFacts DEF WebTypes
  <2>4. MissingInv'
    <3>1. \A m : Covered(m)' <=> Covered(m) BY <1>8 DEF Covered
    <3>2. (Missing \ excused)' = Missing \ excused BY <1>1, <1>8 DEF Missing
    <3>3. \A m \in Missing \ excused : Covered(m) \/ Awaits(frames', m)
      BY <1>5, <2>1
    <3> QED BY <1>1, <1>8, <3>1, <3>2, <3>3 DEF WebInv, MissingInv
  <2>5. ASSUME NEW a \in Cards
        PROVE  /\ WasSo(card'[a], status[a])
               /\ a \notin stale =>
                    \/ Agrees(card'[a], status[a])
                    \/ Carries(frames', Hello) \/ Told(frames', a, status[a])
                    \/ \E r \in reads : Asked(r, a, status[a])
    <3>1. CASE a = f.id
      <4>1. Corrected(frames, a, status[a]) BY DEF WebInv, CardsInv
      <4>2. /\ WasSo(f.status, status[a])
            /\ \/ Agrees(f.status, status[a])
               \/ \E k \in (1 + 1)..Len(frames) : frames[k] = CardFrame(a, "resolved")
        BY <1>2, <2>1, <3>1, <4>1 DEF Corrected
      <4>3. ASSUME NEW k \in (1 + 1)..Len(frames), frames[k] = CardFrame(a, "resolved"),
                   ~Agrees(f.status, status[a])
            PROVE  Told(frames', a, status[a])
        <5>1. k \in 1..Len(frames) /\ k # 1 OBVIOUS
        <5>2. Carries(frames', CardFrame(a, "resolved"))
          BY <1>1, <4>3, <5>1, Handled DEF Carries
        <5>3. status[a] = "resolved" BY <2>1, <4>2, <4>3 DEF WasSo, Agrees, Tells
        <5> QED BY <5>2, <5>3 DEF Told, Agrees, Tells
      <4> QED BY <2>2, <3>1, <4>2, <4>3
    <3>2. CASE a # f.id
      <4>1. a \notin stale => \/ Agrees(card[a], status[a])
                              \/ Carries(frames, Hello) \/ Told(frames, a, status[a])
                              \/ \E r \in reads : Asked(r, a, status[a])
        BY <1>1 DEF WebInv, CardsInv
      <4>2. \A st : f # CardFrame(a, st) BY <2>1, <3>2, Frames
      <4>3. Told(frames, a, status[a]) => Told(frames', a, status[a])
        BY <1>3, <4>2 DEF Told
      <4> QED BY <1>3, <2>1, <2>2, <3>2, <4>1, <4>3, PageFacts
    <3> QED BY <3>1, <3>2
  <2>6. CardsInv' BY <1>1, <1>4, <1>8, <2>5, PageFacts DEF CardsInv
  <2> QED BY <2>3, <2>4, <2>6 DEF WebInv
<1> QED BY <1>1, <1>6, <1>7, <1>8 DEF HandleFrame

LEMMA SentKeeps ==
  ASSUME WebInv, NEW m \in posts, Sent(m)
  PROVE  WebInv'
<1>1. /\ posts' = posts \ {m} /\ Note({m}) /\ excused' = excused \union {n \in Missing : n < m}
      /\ UNCHANGED <<count, status, link, frames, phase, card, reads, answers, stale>>
  BY DEF Sent, feed
<1>2. m \in 1..count BY PageFacts
<1>3. /\ shown' = shown \union {m} /\ shown' \subseteq 1..count /\ last' \in 0..count
      /\ last <= last' /\ (last' = last \/ last' = m)
  <2>1. {m} \in SUBSET (1..count) BY <1>2
  <2>2. \E k \in {m} : \A n \in {m} : n <= k BY <1>2, PageFacts
  <2> QED BY <1>1, <2>1, <2>2, NoteMoves, PageFacts
<1>4. WebTypes' BY <1>1, <1>3, PageFacts DEF WebTypes, FeedTypes
<1>5. \A n : Covered(n)' <=> Covered(n) BY <1>1 DEF Covered
<1>6. ASSUME NEW n \in (Missing \ excused)', n <= last'
      PROVE  n <= last
  <2>1. n \in Missing /\ n # m /\ n \in 1..count /\ ~(n < m)
    BY <1>1, <1>3, <1>6 DEF Missing
  <2> QED BY <1>2, <1>3, <1>6, <2>1, PageFacts
<1>7. MissingInv'
  <2>1. last \in Nat /\ last' \in Nat BY <1>3, PageFacts
  <2> QED BY <1>1, <1>3, <1>5, <1>6, <2>1, MissingKeeps
<1>8. CardsInv' BY <1>1, PageFacts, CardsKeep
<1> QED BY <1>4, <1>7, <1>8 DEF WebInv

LEMMA RespondedKeeps ==
  ASSUME WebInv, NEW a \in Cards, Responded(a)
  PROVE  WebInv'
<1>1. /\ a \in answers /\ answers' = answers \ {a} /\ card' = [card EXCEPT ![a] = "resolved"]
      /\ UNCHANGED <<count, status, link, frames, phase, shown, last, reads, posts, excused, stale>>
  BY DEF Responded, feed, history
<1>2. /\ status[a] = "resolved" /\ card' \in [Cards -> Statuses] /\ card'[a] = "resolved"
      /\ \A b \in Cards \ {a} : card'[b] = card[b]
  BY <1>1, PageFacts DEF Statuses
<1>3. WebTypes' BY <1>1, <1>2, PageFacts DEF WebTypes, FeedTypes
<1>4. \A m : Covered(m)' <=> Covered(m) BY <1>1 DEF Covered
<1>5. MissingInv' BY <1>1, <1>4, SameMissing
<1>6. \A b \in Cards : /\ WasSo(card'[b], status[b])
                       /\ Agrees(card[b], status[b]) => Agrees(card'[b], status[b])
  BY <1>2, PageFacts DEF WasSo, Agrees
<1>7. CardsInv' BY <1>1, <1>6, PageFacts, CardsKeep
<1> QED BY <1>3, <1>5, <1>7 DEF WebInv

\* Nothing changes but answers that are lost, or the phase.
LEMMA QuietKeeps ==
  ASSUME WebInv,
         UNCHANGED <<count, status, link, frames, shown, last, card, reads, excused, stale>>,
         posts' \subseteq posts, answers' \subseteq answers,
         phase' = phase \/ (phase = "opening" /\ phase' = "failed")
  PROVE  WebInv'
<1>1. WebTypes' BY PageFacts DEF WebTypes, FeedTypes
<1>2. \A m : Covered(m)' <=> Covered(m) BY DEF Covered
<1>3. MissingInv' BY <1>2, SameMissing
<1>4. CardsInv' BY PageFacts, CardsKeep
<1> QED BY <1>1, <1>3, <1>4 DEF WebInv

LEMMA WebInvStep ==
  ASSUME WebInv, [WebNext]_web
  PROVE  WebInv'
<1>1. CASE Loaded BY <1>1, LoadedKeeps
<1>2. CASE LoadFails BY <1>2, QuietKeeps DEF LoadFails, feed, calls, history
<1>3. ASSUME NEW r \in reads,
             Answer(r) \/ CardsLoaded(r) \/ CardsMerged(r) \/ PageLands(r) \/ GetFails(r)
      PROVE  WebInv'
  BY <1>3, AnswerKeeps, CardsLoadedKeeps, CardsMergedKeeps, PageLandsKeeps, GetFailsKeeps
<1>4. CASE HandleFrame BY <1>4, HandleFrameKeeps
<1>5. CASE SendMessage
  BY <1>5, PublishKeepsPage DEF SendMessage, page, history
<1>6. ASSUME NEW m \in posts, Sent(m) PROVE WebInv' BY <1>6, SentKeeps
<1>7. ASSUME NEW a \in Cards, Respond(a) PROVE WebInv'
  BY <1>7, ResolveKeepsPage DEF Respond, page, history
<1>8. ASSUME NEW a \in Cards, Responded(a) PROVE WebInv' BY <1>8, RespondedKeeps
<1>9. CASE AnswerLost
  BY <1>9, QuietKeeps DEF AnswerLost, feed, page, history
<1>10. CASE World BY <1>10, WorldKeepsPage
<1>11. CASE Leave
  <2>1. /\ phase' = "gone" /\ link' = "off" /\ frames' = <<>>
        /\ UNCHANGED <<count, status, shown, last, card, reads, posts, answers, excused, stale>>
    BY <1>11 DEF Leave, calls, history
  <2>2. FeedTypes'
    <3>1. frames' \in Seq(FrameType) /\ Len(frames') = 0 BY <2>1
    <3> QED BY <2>1, <3>1, PageFacts DEF FeedTypes
  <2> QED BY <2>1, <2>2, LinkKeepsPage
<1>12. CASE UNCHANGED web
  BY <1>12, QuietKeeps DEF web, feed, page, calls, history
<1> QED
  BY <1>1, <1>2, <1>3, <1>4, <1>5, <1>6, <1>7, <1>8, <1>9, <1>10, <1>11, <1>12 DEF WebNext

LEMMA WebInvAlways == WebSpec => []WebInv
BY WebInvInit, WebInvStep, PTL DEF WebSpec

\* A page at rest shows every message of the room but those that a failed GET
\* or its own post may have hidden: for rooms and pages of any length, however
\* frames, answers and reconnections interleave (useRoomState.ts).
THEOREM NothingIsMissed == WebSpec => []ShowsAllButExcused
<1>1. ASSUME WebInv PROVE ShowsAllButExcused
  <2>1. SUFFICES ASSUME Quiet, NEW m \in Missing \ excused PROVE FALSE
    BY DEF ShowsAllButExcused
  <2>2. ~Covered(m) BY <2>1 DEF Quiet, Covered
  <2>3. ~Awaits(frames, m) BY <2>1 DEF Quiet, Awaits
  <2> QED BY <1>1, <2>1, <2>2, <2>3 DEF WebInv, MissingInv, Quiet
<1> QED BY <1>1, WebInvAlways, PTL

\* A page at rest shows every approval as it stands, or as pending when it
\* lapsed: no older reading takes an answer back (useRoomState.ts, approvals_merge).
THEOREM ApprovalsSettle == WebSpec => []CardsSettle
<1>1. ASSUME WebInv PROVE CardsSettle
  <2>1. SUFFICES ASSUME Quiet, NEW a \in Cards \ stale
                 PROVE  card[a] = status[a] \/ (status[a] = "expired" /\ card[a] = "pending")
    BY DEF CardsSettle
  <2>2. /\ ~Carries(frames, Hello) /\ ~Told(frames, a, status[a])
        /\ \A r \in reads : ~Asked(r, a, status[a])
    BY <2>1 DEF Quiet, Carries, Told
  <2>3. Agrees(card[a], status[a]) BY <1>1, <2>1, <2>2 DEF WebInv, CardsInv, Quiet
  <2> QED BY <2>3 DEF Agrees
<1> QED BY <1>1, WebInvAlways, PTL

\* A page that was left, or whose load failed, never has a socket running,
\* also when the load's last answer comes after it was left (useRoomState.ts).
THEOREM SocketsAreStopped == WebSpec => []NoSocketLeft
<1>1. ASSUME WebInv PROVE NoSocketLeft BY <1>1 DEF WebInv, WebTypes, NoSocketLeft
<1> QED BY <1>1, WebInvAlways, PTL

-----------------------------------------------------------------------------
(* The settings.                                                           *)

RoomType == [changes : Nat, at : [Fields -> Values]]

\* A room that the store had: the newest one is the room itself.
Version(x) ==
  /\ x \in RoomType /\ x.changes <= room.changes
  /\ x.changes = room.changes => x = room

PanelInv ==
  /\ room \in RoomType
  /\ wire \in {"off", "down", "up"}
  /\ rooms \in Seq(RoomType) /\ \A i \in 1..Len(rooms) : Version(rooms[i])
  /\ wire # "off" \/ panel # Nothing => Version(panel)
  /\ applying \in [Fields -> [value : Values \union {Nothing}, answer : RoomType \union {Nothing}]]
  /\ \A f \in Fields : applying[f].answer # Nothing => Version(applying[f].answer)
  /\ optimistic \in [Fields -> Values \union {Nothing}]
  /\ \A f \in Fields : applying[f] = NoCall => optimistic[f] = Nothing
  /\ newest \in 0..room.changes
  /\ wire = "up" => newest = room.changes \/ (rooms # <<>> /\ rooms[Len(rooms)] = room)

\* A page that was not opened shows nothing, and the room is as it was made.
LEMMA PanelInvInit == PanelInit => PanelInv
<1>1. SUFFICES ASSUME PanelInit PROVE PanelInv OBVIOUS
<1>2. PICK v \in Values : room = [changes |-> 0, at |-> [f \in Fields |-> v]]
  BY <1>1 DEF PanelInit
<1>3. room \in RoomType /\ room.changes = 0 BY <1>2 DEF RoomType
<1>4. \A f \in Fields : applying[f].answer = Nothing BY <1>1 DEF PanelInit, NoCall
<1>5. applying \in [Fields -> [value : Values \union {Nothing},
                               answer : RoomType \union {Nothing}]]
  BY <1>1 DEF PanelInit, NoCall
<1> QED BY <1>1, <1>3, <1>4, <1>5 DEF PanelInit, PanelInv, Version

\* A change makes every room that was handed out an older one.
LEMMA ChangedKeeps ==
  ASSUME PanelInv, NEW f \in Fields, NEW v \in Values, Changed(f, v),
         UNCHANGED <<panel, wire, optimistic, newest>>,
         applying' \in [Fields -> [value : Values \union {Nothing},
                                   answer : RoomType \union {Nothing}]],
         \A g \in Fields :
           /\ applying'[g].answer \in {Nothing, applying[g].answer, room'}
           /\ applying'[g] = NoCall => applying[g] = NoCall
  PROVE  PanelInv'
<1> DEFINE next == [changes |-> room.changes + 1, at |-> [room.at EXCEPT ![f] = v]]
<1>1. room \in RoomType BY DEF PanelInv
<1>2. room' = next BY DEF Changed
<1>3. next \in RoomType /\ next.changes = room.changes + 1 BY <1>1 DEF RoomType
<1>4. room' \in RoomType /\ room'.changes = room.changes + 1 /\ room.changes \in Nat
  BY <1>1, <1>2, <1>3 DEF RoomType
<1> HIDE DEF next
<1>5. \A x : Version(x) => Version(x)'
  BY <1>4 DEF Version, RoomType
<1>6. Version(room)' BY <1>4 DEF Version, RoomType
<1>7. rooms \in Seq(RoomType) BY DEF PanelInv
<1>8. /\ rooms' \in Seq(RoomType) /\ \A i \in 1..Len(rooms') : Version(rooms[i])'
      /\ wire = "up" => rooms' # <<>> /\ rooms'[Len(rooms')] = room'
  <2>1. CASE wire = "up"
    <3>1. rooms' = Append(rooms, room') BY <2>1 DEF Changed
    <3>2. /\ rooms' \in Seq(RoomType) /\ Len(rooms') = Len(rooms) + 1
          /\ rooms'[Len(rooms')] = room'
          /\ \A i \in 1..Len(rooms) : rooms'[i] = rooms[i]
      BY <1>4, <1>7, <3>1
    <3>3. \A i \in 1..Len(rooms') : i \in 1..Len(rooms) \/ i = Len(rooms')
      BY <1>7, <3>2
    <3> QED BY <1>5, <1>6, <2>1, <3>2, <3>3 DEF PanelInv
  <2>2. CASE wire # "up"
    BY <1>5, <1>7, <2>2 DEF Changed, PanelInv
  <2> QED BY <2>1, <2>2
<1>9. \A g \in Fields : applying'[g].answer # Nothing => Version(applying[g].answer)'
  <2>1. SUFFICES ASSUME NEW g \in Fields, applying'[g].answer # Nothing
                 PROVE  Version(applying[g].answer)'
    OBVIOUS
  <2>2. CASE applying'[g].answer = applying[g].answer
    BY <1>5, <2>1, <2>2 DEF PanelInv
  <2>3. CASE applying'[g].answer = room' BY <1>6, <2>3
  <2> QED BY <2>1, <2>2, <2>3
<1>10. wire # "off" \/ panel # Nothing => Version(panel)' BY <1>5 DEF PanelInv
<1>11. newest \in 0..room'.changes BY <1>4 DEF PanelInv
<1> QED BY <1>4, <1>8, <1>9, <1>10, <1>11 DEF PanelInv

\* What a step of the page, which leaves the store alone, needs to show.
LEMMA PageKeeps ==
  ASSUME PanelInv, UNCHANGED room,
         UNCHANGED <<panel, newest>> \/ \E x : Version(x) /\ Takes(x),
         wire' \in {"off", "down", "up"},
         wire' # "off" => wire # "off" \/ Version(panel'),
         rooms' \in Seq(RoomType), \A i \in 1..Len(rooms') : Version(rooms'[i]),
         wire' = "up" => newest' = room.changes
                           \/ (rooms' # <<>> /\ rooms'[Len(rooms')] = room),
         applying' \in [Fields -> [value : Values \union {Nothing},
                                   answer : RoomType \union {Nothing}]],
         optimistic' \in [Fields -> Values \union {Nothing}],
         \A g \in Fields :
           /\ applying'[g].answer \in {Nothing, applying[g].answer}
           /\ applying'[g] = NoCall => optimistic'[g] = Nothing
  PROVE  PanelInv'
<1>1. \A x : Version(x)' <=> Version(x) BY DEF Version
<1>2. newest' \in 0..room.changes /\ newest' >= newest
  BY DEF PanelInv, Takes, Version, RoomType
<1>3. wire' # "off" \/ panel' # Nothing => Version(panel') BY DEF PanelInv, Takes
<1>4. \A g \in Fields : applying'[g].answer # Nothing => Version(applying'[g].answer)
  BY DEF PanelInv
<1>5. wire' # "off" \/ panel' # Nothing => Version(panel)' BY <1>1, <1>3
<1>6. \A i \in 1..Len(rooms') : Version(rooms[i])' BY <1>1
<1>7. \A g \in Fields : applying'[g].answer # Nothing => Version(applying[g].answer)'
  BY <1>1, <1>4
<1> QED BY <1>2, <1>5, <1>6, <1>7 DEF PanelInv

LEMMA PanelInvStep ==
  ASSUME PanelInv, [PanelNext]_panelVars
  PROVE  PanelInv'
<1> DEFINE Applying == [Fields -> [value : Values \union {Nothing},
                                   answer : RoomType \union {Nothing}]]
<1>1. /\ room \in RoomType /\ rooms \in Seq(RoomType) /\ applying \in Applying
      /\ optimistic \in [Fields -> Values \union {Nothing}]
      /\ wire \in {"off", "down", "up"} /\ Nothing \notin Values
      /\ \A g \in Fields : applying[g] = NoCall => optimistic[g] = Nothing
      /\ \A i \in 1..Len(rooms) : Version(rooms[i])
      /\ wire = "up" => newest = room.changes
                          \/ (rooms # <<>> /\ rooms[Len(rooms)] = room)
  BY RoomPanelAssumption DEF PanelInv
<1>2. Version(room) /\ room.changes \in Nat BY <1>1 DEF Version, RoomType
<1>3. CASE LoadRoom
  BY <1>1, <1>2, <1>3, PageKeeps DEF LoadRoom, Takes
<1>4. CASE Greet
  <2>1. rooms' = <<room>> /\ rooms' \in Seq(RoomType) /\ Len(rooms') = 1
        /\ rooms'[1] = room /\ rooms' # <<>>
    BY <1>1, <1>4 DEF Greet
  <2> QED BY <1>1, <1>2, <1>4, <2>1, PageKeeps DEF Greet
<1>5. CASE Hangup
  BY <1>1, <1>2, <1>5, PageKeeps DEF Hangup
<1>6. CASE TakeFrame
  <2>1. /\ rooms # <<>> /\ rooms' = Tail(rooms) /\ Takes(Head(rooms))
        /\ UNCHANGED <<room, wire, greets, applying, optimistic>>
    BY <1>6 DEF TakeFrame
  <2>2. /\ rooms' \in Seq(RoomType) /\ Len(rooms') = Len(rooms) - 1 /\ Len(rooms) >= 1
        /\ Head(rooms) = rooms[1]
        /\ \A i \in 1..Len(rooms') : rooms'[i] = rooms[i + 1] /\ i + 1 \in 1..Len(rooms)
    BY <1>1, <2>1
  <2>3. Version(Head(rooms)) /\ \A i \in 1..Len(rooms') : Version(rooms'[i])
    BY <1>1, <2>2
  <2>4. newest' \in Nat /\ newest \in Nat /\ newest <= room.changes
        /\ newest' <= room.changes /\ newest' >= newest
    BY <1>2, <2>1, <2>3 DEF PanelInv, Takes, Version, RoomType
  <2>5. ASSUME wire = "up", newest' # room.changes
        PROVE  rooms' # <<>> /\ rooms'[Len(rooms')] = room
    <3>1. newest # room.changes BY <1>2, <2>4, <2>5
    <3>2. rooms[Len(rooms)] = room BY <1>1, <2>5, <3>1
    <3>3. Len(rooms) # 1
      BY <1>2, <2>1, <2>2, <2>4, <2>5, <3>1, <3>2 DEF Takes
    <3> QED BY <2>2, <3>2, <3>3
  <2>6. Version(panel') BY <2>1, <2>3 DEF Takes
  <2>7. \E x : Version(x) /\ Takes(x) BY <2>1, <2>3
  <2> QED BY <1>1, <2>1, <2>2, <2>3, <2>5, <2>6, <2>7, PageKeeps
<1>7. ASSUME NEW f \in Fields, Served(f) PROVE PanelInv'
  <2> DEFINE v == applying[f].value
  <2>1. v \in Values /\ Changed(f, v) BY <1>1, <1>7 DEF Served
  <2>2. room' \in RoomType
    BY <1>1, <2>1 DEF Changed, RoomType
  <2>3. /\ applying' \in Applying
        /\ \A g \in Fields \ {f} : applying'[g] = applying[g]
        /\ applying'[f].value = v /\ applying'[f].answer = room'
    BY <1>1, <1>7, <2>2 DEF Served
  <2>4. applying'[f] # NoCall BY <1>1, <2>1, <2>3 DEF NoCall
  <2> QED BY <1>7, <2>1, <2>3, <2>4, ChangedKeeps DEF Served
<1>8. ASSUME NEW f \in Fields, Settles(f) PROVE
           /\ applying' \in Applying /\ optimistic' \in [Fields -> Values \union {Nothing}]
           /\ \A g \in Fields :
                /\ applying'[g].answer \in {Nothing, applying[g].answer}
                /\ applying'[g] = NoCall => optimistic'[g] = Nothing
           /\ UNCHANGED <<room, wire, rooms>>
  <2>1. NoCall \in [value : Values \union {Nothing}, answer : RoomType \union {Nothing}]
        /\ NoCall.answer = Nothing
    BY DEF NoCall
  <2> QED BY <1>1, <1>8, <2>1 DEF Settles
<1>9. ASSUME NEW f \in Fields, Reconcile(f) PROVE PanelInv'
  <2>1. Version(applying[f].answer) /\ Takes(applying[f].answer) /\ Settles(f)
    BY <1>9 DEF Reconcile, PanelInv
  <2>2. newest' <= room.changes /\ newest' >= newest /\ newest' \in Nat /\ newest \in Nat
    BY <1>2, <2>1 DEF PanelInv, Takes, Version, RoomType
  <2>3. newest = room.changes => newest' = room.changes BY <1>2, <2>2
  <2>4. Version(panel') BY <2>1 DEF Takes
  <2>5. \E x : Version(x) /\ Takes(x) BY <2>1
  <2> QED BY <1>1, <1>8, <2>1, <2>3, <2>4, <2>5, PageKeeps
<1>10. ASSUME NEW f \in Fields, ApplyFails(f) PROVE PanelInv'
  BY <1>1, <1>8, <1>10, PageKeeps DEF ApplyFails
<1>11. ASSUME NEW f \in Fields, NEW v \in Values, ElseChanged(f, v) PROVE PanelInv'
  BY <1>1, <1>11, ChangedKeeps DEF ElseChanged
<1>12. ASSUME NEW f \in Fields, NEW v \in Values, Apply(f, v) PROVE PanelInv'
  <2>1. PICK overlay : /\ overlay \in IF f \in Settings THEN {v, panel.at[f]} ELSE {Nothing}
                       /\ optimistic' = [optimistic EXCEPT ![f] = overlay]
    BY <1>12 DEF Apply
  <2>2. overlay \in Values \union {Nothing}
    <3>1. panel.at[f] \in Values BY <1>12 DEF Apply, PanelInv, Version, RoomType
    <3> QED BY <2>1, <3>1
  <2>3. /\ applying' \in Applying
        /\ \A g \in Fields \ {f} : applying'[g] = applying[g]
        /\ applying'[f].value = v /\ applying'[f].answer = applying[f].answer
    BY <1>1, <1>12 DEF Apply
  <2>4. applying'[f] # NoCall BY <1>1, <2>3 DEF NoCall
  <2>5. optimistic' \in [Fields -> Values \union {Nothing}]
        /\ \A g \in Fields \ {f} : optimistic'[g] = optimistic[g]
    BY <1>1, <2>1, <2>2
  <2>6. UNCHANGED <<room, panel, wire, rooms, newest>> BY <1>12 DEF Apply
  <2> QED BY <1>1, <2>3, <2>4, <2>5, <2>6, PageKeeps
<1>13. CASE UNCHANGED panelVars
  BY <1>13 DEF panelVars, PanelInv, Version
<1> QED
  BY <1>3, <1>4, <1>5, <1>6, <1>7, <1>9, <1>10, <1>11, <1>12, <1>13 DEF PanelNext

\* A page with nothing under way has been told of every change, and shows the
\* room as it is once the newest answer is the last it took: whatever answers
\* and frames overtook each other or were lost (useRoomState.ts, RoomSettings.tsx).
THEOREM PanelsAgree == PanelSpec => []PanelAgrees
<1>1. ASSUME PanelInv PROVE PanelAgrees
  <2>1. SUFFICES ASSUME wire = "up", rooms = <<>>, \A f \in Fields : applying[f] = NoCall
                 PROVE  newest = room.changes /\ (panel.changes = newest => Shown = room.at)
    BY DEF PanelAgrees
  <2>2. newest = room.changes BY <1>1, <2>1 DEF PanelInv
  <2>3. ASSUME panel.changes = newest PROVE Shown = room.at
    <3>1. panel = room BY <1>1, <2>1, <2>2, <2>3 DEF PanelInv, Version
    <3>2. \A f \in Fields : optimistic[f] = Nothing BY <1>1, <2>1 DEF PanelInv
    <3>3. room.at \in [Fields -> Values] BY <1>1 DEF PanelInv, RoomType
    <3> QED BY <3>1, <3>2, <3>3 DEF Shown
  <2> QED BY <2>2, <2>3
<1> QED BY <1>1, PanelInvInit, PanelInvStep, PTL DEF PanelSpec

-----------------------------------------------------------------------------
(* The waiting tool.                                                       *)

\* Message m cannot pass unheard.
Safe(m) == m <= cursor \/ OnItsWay(m) \/ CatchUpAhead

\* The tool knows of message m, or will.
Heeded(m) ==
  /\ wait = "listening" => m \in before \/ Safe(m)
  /\ Answered /\ m > upto => Safe(m)

BoxInv ==
  /\ FeedTypes
  /\ aside \subseteq 1..count /\ cursor \in 0..count
  /\ wait \in {"none", "snapshot", "snapshotted", "listening", "catching", "caught"}
  /\ from \in 0..cursor /\ upto \in 0..count
  /\ link = "off" => wait = "none"
  /\ link # "denied" => \A m \in Addressed \ unheard : Heeded(m)

\* More frames, and a cursor that moved on, make nothing less safe.
LEMMA SafeStays ==
  ASSUME BoxInv, UNCHANGED link, cursor' \in Nat, cursor <= cursor',
         UNCHANGED frames \/ \E t \in Seq(FrameType) : Broadcast(t)
  PROVE  \A m \in 1..count : Safe(m) => Safe(m)'
<1>1. frames \in Seq(FrameType) /\ cursor \in Nat /\ count \in Nat BY DEF BoxInv, FeedTypes
<1>2. \A i \in 1..Len(frames) : i \in 1..Len(frames') /\ frames'[i] = frames[i]
  <2>1. CASE UNCHANGED frames BY <2>1
  <2>2. ASSUME NEW t \in Seq(FrameType), Broadcast(t)
        PROVE  \A i \in 1..Len(frames) : i \in 1..Len(frames') /\ frames'[i] = frames[i]
    BY <1>1, <2>2, Appended DEF Broadcast
  <2> QED BY <2>1, <2>2
<1>3. \A m : OnItsWay(m) => OnItsWay(m)' BY <1>2 DEF OnItsWay
<1>4. CatchUpAhead => CatchUpAhead' BY <1>2 DEF CatchUpAhead
<1> QED BY <1>1, <1>3, <1>4 DEF Safe

\* What a step needs to show.
LEMMA BoxKeeps ==
  ASSUME BoxInv, FeedTypes', aside' \subseteq 1..count', cursor' \in 0..count',
         wait' \in {"none", "snapshot", "snapshotted", "listening", "catching", "caught"},
         from' \in 0..cursor', upto' \in 0..count',
         link' = "off" => wait' = "none",
         link' # "denied" => \A m \in (Addressed \ unheard)' : Heeded(m)'
  PROVE  BoxInv'
BY DEF BoxInv

LEMMA BoxInvInit == BoxInit => BoxInv
BY FeedAssumption DEF BoxInit, FeedInit, BoxInv, FeedTypes, FrameType, Statuses,
   Addressed, Answered, Heeded

\* The answer to the first GET, or to a catch-up that lets the tool wait on.
LEMMA LandsKeeps ==
  ASSUME BoxInv, Answered, wait' = "listening", UNCHANGED <<feed, aside, cursor, from, upto>>,
         Pending \subseteq before', unheard' = unheard \union BeyondPage
  PROVE  BoxInv'
<1>1. UNCHANGED <<count, status, link, frames>> BY DEF feed
<1>2. FeedTypes' BY <1>1 DEF BoxInv, FeedTypes
<1>3. ASSUME link' # "denied", NEW m \in (Addressed \ unheard)'
      PROVE  Heeded(m)'
  <2>1. m \in Addressed \ unheard /\ m \notin BeyondPage /\ m \in 1..count /\ m \notin aside
    BY <1>1, <1>3 DEF Addressed
  <2>2. count \in Nat /\ upto \in 0..count /\ cursor \in 0..count /\ from \in 0..cursor
    BY DEF BoxInv, FeedTypes
  <2>3. Safe(m)' <=> Safe(m) BY <1>1 DEF Safe, OnItsWay, CatchUpAhead
  <2>4. CASE m > upto BY <1>1, <1>3, <2>1, <2>3, <2>4 DEF BoxInv, Heeded, Answered
  <2>5. CASE m <= from BY <2>1, <2>2, <2>3, <2>5 DEF Safe, Heeded, Answered
  <2>6. CASE m <= upto /\ m > from
    <3>1. m <= from + Limit BY <2>1, <2>2, <2>6, InboxAssumption DEF BeyondPage
    <3>2. m \in Pending BY <2>1, <2>2, <2>6, <3>1, InboxAssumption DEF Pending, Page
    <3> QED BY <3>2 DEF Heeded, Answered
  <2> QED BY <2>1, <2>2, <2>4, <2>5, <2>6
<1>4. link' = "off" => wait' = "none" BY <1>1 DEF BoxInv, Answered
<1>5. /\ aside' \subseteq 1..count' /\ cursor' \in 0..count'
      /\ from' \in 0..cursor' /\ upto' \in 0..count'
  BY <1>1 DEF BoxInv
<1> QED BY <1>2, <1>3, <1>4, <1>5, BoxKeeps

\* A wait that ended, that asks, or that was just answered.
LEMMA WaitKeeps ==
  ASSUME BoxInv, UNCHANGED <<count, status, link, frames, aside, cursor>>,
         \/ wait' \in {"none", "snapshot", "catching"}
         \/ wait' \in {"snapshotted", "caught"} /\ upto' = count
         \/ wait' = "listening" /\ 1..count \subseteq unheard',
         link = "off" => wait' = "none",
         from' \in {from, cursor}, upto' \in {upto, count}
  PROVE  BoxInv'
<1>1. count \in Nat /\ cursor \in 0..count /\ from \in 0..cursor /\ upto \in 0..count
      /\ aside \subseteq 1..count
  BY DEF BoxInv, FeedTypes
<1>2. FeedTypes' BY DEF BoxInv, FeedTypes
<1>3. ASSUME NEW m \in (Addressed \ unheard)'
      PROVE  Heeded(m)'
  <2>1. m \in 1..count BY <1>3 DEF Addressed
  <2>2. wait' # "listening" BY <1>3, <2>1
  <2>3. ~(Answered' /\ m > upto') BY <1>1, <2>1 DEF Answered
  <2> QED BY <2>2, <2>3 DEF Heeded
<1>4. /\ aside' \subseteq 1..count' /\ cursor' \in 0..count'
      /\ from' \in 0..cursor' /\ upto' \in 0..count'
      /\ wait' \in {"none", "snapshot", "snapshotted", "listening", "catching", "caught"}
  BY <1>1
<1> QED BY <1>2, <1>3, <1>4, BoxKeeps

LEMMA HandleKeeps ==
  ASSUME BoxInv, Handle
  PROVE  BoxInv'
<1> DEFINE f == Head(frames)
<1>1. /\ frames # <<>> /\ frames' = Tail(frames) /\ link = "up"
      /\ UNCHANGED <<count, status, link, aside, cursor, upto, before>>
      /\ FeedTypes
  BY DEF Handle, BoxInv
<1>2. FeedTypes' /\ f = frames[1] /\ f \in FrameType BY <1>1, Handled
<1>3. \A m : OnItsWay(m) /\ f # MessageCreated(m) => OnItsWay(m)'
  <2>1. SUFFICES ASSUME NEW m, NEW i \in 1..Len(frames), frames[i] = MessageCreated(m),
                        f # MessageCreated(m)
                 PROVE  \E j \in 1..Len(frames') : frames'[j] = MessageCreated(m)
    BY DEF OnItsWay
  <2>2. i - 1 \in 1..Len(frames') /\ frames'[i - 1] = frames[i] BY <1>1, <1>2, <2>1, Handled
  <2> QED BY <2>1, <2>2
<1>4. CatchUpAhead /\ f # Hello => CatchUpAhead'
  <2>1. SUFFICES ASSUME NEW i \in 1..Len(frames), frames[i] = Hello, f # Hello
                 PROVE  \E j \in 1..Len(frames') : frames'[j] = Hello
    BY <1>1 DEF CatchUpAhead
  <2>2. i - 1 \in 1..Len(frames') /\ frames'[i - 1] = frames[i] BY <1>1, <1>2, <2>1, Handled
  <2> QED BY <2>1, <2>2
<1>5. /\ count \in Nat /\ cursor \in 0..count /\ from \in 0..cursor /\ upto \in 0..count
      /\ aside \subseteq 1..count
  BY DEF BoxInv, FeedTypes
<1>6. CASE wait = "listening" /\ Hears(f) /\ unheard' = unheard
  <2>1. wait' \in {"none", "catching", "listening"} /\ from' \in {from, cursor}
    BY <1>6 DEF Hears
  <2>2. ASSUME NEW m \in (Addressed \ unheard)', wait' = "listening"
        PROVE  Heeded(m)'
    <3>1. f.type # "hello" /\ (f.type = "message" => f.id \in aside)
      BY <1>6, <2>2, Frames DEF Hears
    <3>2. m \in Addressed \ unheard /\ m \notin aside BY <1>1, <1>6, <2>2 DEF Addressed
    <3>3. f # Hello /\ f # MessageCreated(m) BY <3>1, <3>2, Frames
    <3>4. m \in before \/ Safe(m) BY <1>1, <1>6, <3>2 DEF BoxInv, Heeded
    <3> QED BY <1>1, <1>3, <1>4, <2>2, <3>3, <3>4 DEF Safe, Heeded, Answered
  <2>3. wait' # "listening" => \A m : Heeded(m)' BY <2>1 DEF Heeded, Answered
  <2>4. from' \in 0..cursor' /\ upto' \in 0..count' /\ cursor' \in 0..count'
        /\ aside' \subseteq 1..count'
    BY <1>1, <1>5, <2>1
  <2> QED BY <1>1, <1>2, <2>1, <2>2, <2>3, <2>4, BoxKeeps
<1>7. CASE Answered /\ unheard' = unheard \union Overheard(f) /\ UNCHANGED <<wait, from>>
  <2>1. ASSUME NEW m \in (Addressed \ unheard)', m > upto'
        PROVE  Safe(m)'
    <3>1. m \in Addressed \ unheard /\ m \notin Overheard(f) /\ m \in 1..count
      BY <1>1, <1>7, <2>1 DEF Addressed
    <3>2. Safe(m) BY <1>1, <1>7, <2>1, <3>1 DEF BoxInv, Heeded
    <3>3. f # MessageCreated(m) /\ (f = Hello => OnItsWay(m))
      BY <1>1, <2>1, <3>1 DEF Overheard
    <3> QED BY <1>1, <1>3, <1>4, <3>2, <3>3 DEF Safe
  <2>2. wait' # "listening" /\ wait' \in {"snapshotted", "caught"} BY <1>7 DEF Answered
  <2>3. \A m \in (Addressed \ unheard)' : Heeded(m)' BY <2>1, <2>2 DEF Heeded
  <2> QED BY <1>1, <1>2, <1>5, <1>7, <2>2, <2>3, BoxKeeps
<1>8. CASE wait # "listening" /\ ~Answered /\ UNCHANGED <<wait, from, unheard>>
  <2>1. \A m : Heeded(m)' BY <1>8 DEF Answered, Heeded
  <2>2. wait \in {"none", "snapshot", "snapshotted", "listening", "catching", "caught"}
    BY DEF BoxInv
  <2> QED BY <1>1, <1>2, <1>5, <1>8, <2>1, <2>2, BoxKeeps
<1> QED BY <1>6, <1>7, <1>8 DEF Handle

\* The room and the socket.
LEMMA OthersKeep ==
  ASSUME BoxInv, Others
  PROVE  BoxInv'
<1>1. /\ FeedTypes /\ count \in Nat /\ cursor \in 0..count /\ from \in 0..cursor
      /\ upto \in 0..count /\ aside \subseteq 1..count
      /\ wait \in {"none", "snapshot", "snapshotted", "listening", "catching", "caught"}
  BY DEF BoxInv, FeedTypes
<1>2. link # "off" /\ UNCHANGED <<cursor, wait, from, upto, before, unheard>>
  BY DEF Others, tool
<1>3. Answered' <=> Answered BY <1>2 DEF Answered
<1>4. ASSUME NEW t \in Seq(FrameType), Broadcast(t), FeedTypes', UNCHANGED link,
             aside \subseteq aside', aside' \subseteq 1..count',
             \/ UNCHANGED count
             \/ /\ count' = count + 1
                /\ \E i \in 1..Len(t) : t[i] = MessageCreated(count')
      PROVE  BoxInv'
  <2>1. \A m \in 1..count : Safe(m) => Safe(m)' BY <1>1, <1>2, <1>4, SafeStays
  <2>2. ASSUME link # "denied", NEW m \in 1..count', m \notin 1..count
        PROVE  Safe(m)'
    <3>1. m = count' /\ count' = count + 1 BY <1>1, <1>4, <2>2
    <3>2. CASE link = "up"
      <4>1. PICK i \in 1..Len(t) : t[i] = MessageCreated(m) BY <1>1, <1>4, <3>1
      <4>2. frames \in Seq(FrameType) /\ frames' = frames \o t
        BY <1>1, <1>4, <3>2 DEF FeedTypes, Broadcast
      <4>3. Len(frames) + i \in 1..Len(frames') /\ frames'[Len(frames) + i] = t[i]
        BY <1>4, <4>2, Appended
      <4> QED BY <4>1, <4>3 DEF Safe, OnItsWay
    <3>3. CASE link = "down" BY <1>4, <3>3 DEF Safe, CatchUpAhead
    <3> QED BY <1>1, <1>2, <2>2, <3>2, <3>3 DEF FeedTypes
  <2>3. ASSUME link' # "denied", NEW m \in (Addressed \ unheard)'
        PROVE  Heeded(m)'
    <3>1. m \in 1..count' BY <2>3 DEF Addressed
    <3>2. CASE m \notin 1..count BY <1>4, <2>2, <2>3, <3>1, <3>2 DEF Heeded
    <3>3. CASE m \in 1..count
      <4>1. m \in Addressed \ unheard BY <1>2, <1>4, <2>3, <3>3 DEF Addressed
      <4>2. Heeded(m) BY <1>4, <2>3, <4>1 DEF BoxInv
      <4> QED BY <1>2, <1>3, <2>1, <3>3, <4>2 DEF Heeded
    <3> QED BY <3>2, <3>3
  <2>4. cursor' \in 0..count' /\ from' \in 0..cursor' /\ upto' \in 0..count'
        /\ link' # "off"
    BY <1>1, <1>2, <1>4
  <2> QED BY <1>1, <1>2, <1>4, <2>3, <2>4, BoxKeeps
<1>5. CASE Publish /\ aside' \in {aside, aside \union {count + 1}}
  <2> DEFINE t == <<MessageCreated(count + 1)>>
  <2>1. t \in Seq(FrameType) /\ Broadcast(t) /\ FeedTypes' /\ count' = count + 1
        /\ UNCHANGED link
    BY <1>1, <1>5, PublishSends
  <2>2. 1 \in 1..Len(t) /\ t[1] = MessageCreated(count') BY <2>1
  <2>3. aside \subseteq aside' /\ aside' \subseteq 1..count' BY <1>1, <1>5, <2>1
  <2> HIDE DEF t
  <2> QED BY <1>4, <2>1, <2>2, <2>3
<1>6. ASSUME NEW a \in Cards, OpenCard(a) \/ ResolveCard(a), UNCHANGED aside
      PROVE  BoxInv'
  <2>1. CASE OpenCard(a)
    <3> DEFINE t == <<CardFrame(a, "pending")>>
    <3>1. t \in Seq(FrameType) /\ Broadcast(t) /\ FeedTypes' /\ UNCHANGED <<count, link>>
      BY <1>1, <2>1, OpenSends
    <3> HIDE DEF t
    <3> QED BY <1>1, <1>4, <1>6, <3>1
  <2>2. CASE ResolveCard(a)
    <3> DEFINE t == <<CardFrame(a, "resolved"), MessageCreated(count + 1)>>
    <3>1. t \in Seq(FrameType) /\ Broadcast(t) /\ FeedTypes' /\ count' = count + 1
          /\ UNCHANGED link
      BY <1>1, <2>2, ResolveSends
    <3>2. 2 \in 1..Len(t) /\ t[2] = MessageCreated(count') BY <3>1
    <3>3. aside' \subseteq 1..count' BY <1>1, <1>6, <3>1
    <3> HIDE DEF t
    <3> QED BY <1>4, <1>6, <3>1, <3>2, <3>3
  <2> QED BY <1>6, <2>1, <2>2
<1>7. CASE (Connect \/ LoseLink \/ Deny) /\ UNCHANGED aside
  <2>1. FeedTypes' /\ UNCHANGED count BY <1>1, <1>7, LinkKeeps
  <2>2. link' # "off" BY <1>7 DEF Connect, LoseLink, Deny
  <2>3. link' # "denied" => CatchUpAhead'
    <3>1. CASE Connect
      <4>1. frames' = <<Hello>> /\ Len(frames') = 1 /\ frames'[1] = Hello
        BY <3>1 DEF Connect
      <4> QED BY <4>1 DEF CatchUpAhead
    <3>2. CASE LoseLink \/ Deny BY <3>2 DEF LoseLink, Deny, CatchUpAhead
    <3> QED BY <1>7, <3>1, <3>2
  <2>4. link' # "denied" => \A m : Heeded(m)' BY <2>3 DEF Safe, Heeded
  <2> QED BY <1>1, <1>2, <1>7, <2>1, <2>2, <2>4, BoxKeeps
<1> QED BY <1>5, <1>6, <1>7 DEF Others

LEMMA BoxInvStep ==
  ASSUME BoxInv, [BoxNext]_box
  PROVE  BoxInv'
<1>1. /\ FeedTypes /\ count \in Nat /\ cursor \in 0..count /\ from \in 0..cursor
      /\ upto \in 0..count /\ aside \subseteq 1..count
      /\ link = "off" => wait = "none"
  BY DEF BoxInv, FeedTypes
<1>2. CASE Open
  <2>1. FeedTypes' BY <1>1, <1>2 DEF Open, Start, FeedTypes
  <2>2. wait' = "none" /\ \A m : Heeded(m)' BY <1>1, <1>2 DEF Open, tool, Answered, Heeded
  <2> QED BY <1>1, <1>2, <2>1, <2>2, BoxKeeps DEF Open, tool
<1>3. CASE Call BY <1>3, WaitKeeps DEF Call, feed
<1>4. CASE ServerAnswers
  BY <1>1, <1>4, WaitKeeps DEF ServerAnswers, Asking, feed
<1>5. CASE SnapshotLands
  BY <1>5, LandsKeeps DEF SnapshotLands, Answered
<1>6. CASE CatchUpLands
  <2>1. CASE Pending \subseteq before
    BY <1>6, <2>1, LandsKeeps DEF CatchUpLands, Answered
  <2>2. CASE ~(Pending \subseteq before)
    BY <1>6, <2>2, WaitKeeps DEF CatchUpLands, feed
  <2> QED BY <2>1, <2>2
<1>7. CASE GetBreaks
  BY <1>1, <1>7, WaitKeeps DEF GetBreaks, feed
<1>8. CASE TimedOut BY <1>8, WaitKeeps DEF TimedOut, feed
<1>9. CASE Handle BY <1>9, HandleKeeps
<1>10. CASE ReadMessages
  <2>1. UNCHANGED <<count, status, link, frames, aside, wait, from, upto, before, unheard>>
    BY <1>10 DEF ReadMessages, feed, tool
  <2>2. cursor' \in 1..count /\ cursor' > cursor BY <1>10 DEF ReadMessages
  <2>3. \A m \in 1..count : Safe(m) => Safe(m)' BY <1>1, <2>1, <2>2, SafeStays
  <2>4. FeedTypes' BY <1>1, <2>1 DEF FeedTypes
  <2>5. (Answered' <=> Answered) /\ (Addressed \ unheard)' = Addressed \ unheard
        /\ Addressed \subseteq 1..count
    BY <2>1 DEF Answered, Addressed
  <2>6. from' \in 0..cursor' BY <1>1, <2>1, <2>2
  <2>7. ASSUME link' # "denied", NEW m \in (Addressed \ unheard)'
        PROVE  Heeded(m)'
    BY <2>1, <2>3, <2>5, <2>7 DEF BoxInv, Heeded
  <2>8. wait' \in {"none", "snapshot", "snapshotted", "listening", "catching", "caught"}
    BY <2>1 DEF BoxInv
  <2> QED BY <1>1, <2>1, <2>2, <2>4, <2>6, <2>7, <2>8, BoxKeeps
<1>11. CASE Others BY <1>11, OthersKeep
<1>12. CASE UNCHANGED box
  <2>1. UNCHANGED <<count, status, link, frames, aside, cursor, wait, from, upto, before, unheard>>
    BY <1>12 DEF box, feed, tool
  <2> QED BY <2>1
      DEF BoxInv, FeedTypes, Addressed, Answered, Heeded, Safe, OnItsWay, CatchUpAhead
<1> QED
  BY <1>2, <1>3, <1>4, <1>5, <1>6, <1>7, <1>8, <1>9, <1>10, <1>11, <1>12 DEF BoxNext

\* While the tool listens no message to the agent passes but those that came
\* as a GET was answered, lay beyond its page or fell into one that failed:
\* for rooms, pages and interruptions of any length (mcp.ts).
THEOREM NothingPasses == BoxSpec => []WaitLetsNothingPass
<1>1. ASSUME BoxInv PROVE WaitLetsNothingPass
  BY <1>1 DEF BoxInv, WaitLetsNothingPass, Heeded, Safe
<1> QED BY <1>1, BoxInvInit, BoxInvStep, PTL DEF BoxSpec
=============================================================================
