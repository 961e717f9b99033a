------------------------------- MODULE WebRoom -------------------------------
(***************************************************************************)
(* The state of one room on a web page (useRoomState.ts, ws.ts): the first *)
(* load over REST, the frames of the socket, and the catch-up after every  *)
(* hello.  REST answers and frames travel on different connections, so any *)
(* answer may be older than a frame already handled, or newer.             *)
(***************************************************************************)
EXTENDS RoomFeed, FiniteSets

CONSTANTS
  PageLimit,  \* messages of a page
  RestFails   \* whether REST calls may fail

ASSUME WebAssumption == PageLimit \in Nat \ {0} /\ RestFails \in BOOLEAN

VARIABLES
  phase,    \* of the mount effect
  shown,    \* ids of state.messages
  last,     \* lastMessageRef
  card,     \* state.approvals
  reads,    \* GETs under way
  posts,    \* POSTs of a message whose answer is under way
  answers,  \* POSTs of a decision whose answer is under way
  excused,  \* (history) messages a failed GET or an own post may have hidden
  stale     \* (history) approvals that differed when a GET of them failed

page == <<phase, shown, last, card>>
calls == <<reads, posts, answers>>
history == <<excused, stale>>
web == <<feed, page, calls, history>>

Missing == (1..count) \ shown

\* A GET: who asked, for what, and the state the server answered from.
NoCards == [a \in Cards |-> "none"]
Get(who, what, after) ==
  [who |-> who, what |-> what, after |-> after, stage |-> "asked",
   upto |-> 0, cards |-> NoCards]

WebInit ==
  /\ FeedInit
  /\ phase = "opening" /\ shown = {} /\ last = 0
  /\ card = NoCards
  /\ reads = {} /\ posts = {} /\ answers = {}
  /\ excused = {} /\ stale = {}

NewestOf(S) == CHOOSE m \in S : \A n \in S : n <= m

\* noteMessages
Note(S) == shown' = shown \union S /\ last' = NewestOf(S \union {last})

\* getRoom answered; the approvals are asked for.
Loaded ==
  /\ phase = "opening" /\ phase' = "loading"
  /\ reads' = reads \union {Get("load", "cards", 0)}
  /\ UNCHANGED <<feed, shown, last, card, posts, answers, history>>

Answer(r) ==
  /\ r.stage = "asked"
  /\ reads' = (reads \ {r}) \union
       {IF r.what = "messages" THEN [r EXCEPT !.stage = "answered", !.upto = count]
                               ELSE [r EXCEPT !.stage = "answered", !.cards = status]}
  /\ UNCHANGED <<feed, page, posts, answers, history>>

\* approvals_set, then catchUp(null); nothing when the page was left.
CardsLoaded(r) ==
  /\ r.who = "load" /\ r.what = "cards" /\ r.stage = "answered"
  /\ IF phase = "loading"
     THEN /\ card' = r.cards
          /\ reads' = (reads \ {r}) \union {Get("load", "messages", 0)}
     ELSE reads' = reads \ {r} /\ card' = card
  /\ UNCHANGED <<feed, phase, shown, last, posts, answers, history>>

\* Mutant: what the server said replaces what the page has.
CardsMerged_Replace(r) ==
  /\ r.who = "hello" /\ r.what = "cards" /\ r.stage = "answered"
  /\ card' = r.cards
  /\ reads' = reads \ {r}
  /\ UNCHANGED <<feed, phase, shown, last, posts, answers, history>>

\* approvals_merge: an answer is not taken back.
CardsMerged(r) ==
  /\ r.who = "hello" /\ r.what = "cards" /\ r.stage = "answered"
  /\ card' = [a \in Cards |->
       IF \/ r.cards[a] = "none"
          \/ card[a] \in {"resolved", "expired"} /\ r.cards[a] = "pending"
       THEN card[a] ELSE r.cards[a]]
  /\ reads' = reads \ {r}
  /\ UNCHANGED <<feed, phase, shown, last, posts, answers, history>>

Batch(r) == Page(r.after, PageLimit, r.upto)

\* Mutant: a full page is taken for the last one.
More_Never(r) == FALSE

\* catchUp: a full page is followed by another.
More(r) == Cardinality(Batch(r)) = PageLimit

\* Mutant: nobody asks whether the page was left.
Ready_Regardless(r) == r.who = "load" /\ ~More(r)

\* After the load's last page the socket is started, unless the page was
\* left meanwhile.
Ready(r) == r.who = "load" /\ ~More(r) /\ phase = "loading"

PageLands(r) ==
  /\ r.what = "messages" /\ r.stage = "answered"
  /\ Note(Batch(r))
  /\ reads' = (reads \ {r}) \union
       (IF More(r) THEN {Get(r.who, "messages", NewestOf(Batch(r)))} ELSE {})
  /\ phase' = IF Ready(r) /\ phase = "loading" THEN "live" ELSE phase
  /\ IF Ready(r) THEN Start ELSE UNCHANGED link
  /\ UNCHANGED <<count, status, frames, hellos, card, posts, answers, history>>

\* A failure ends the load, and is passed over after a hello.
GetFails(r) ==
  /\ RestFails
  /\ reads' = reads \ {r}
  /\ phase' = IF r.who = "load" /\ phase = "loading" THEN "failed" ELSE phase
  /\ IF r.what = "messages"
     THEN excused' = excused \union Missing /\ stale' = stale
     ELSE /\ stale' = stale \union {a \in Cards : card[a] # status[a]}
          /\ excused' = excused
  /\ UNCHANGED <<feed, shown, last, card, posts, answers>>

-----------------------------------------------------------------------------
\* handleFrame.  The catch-up of a hello starts after the last message noted.
HandleHello ==
  /\ reads' = reads \union {Get("hello", "messages", last), Get("hello", "cards", 0)}
  /\ UNCHANGED <<shown, last, card>>

HandleFrame ==
  /\ phase = "live" /\ link = "up" /\ frames # <<>>
  /\ frames' = Tail(frames)
  /\ LET f == Head(frames) IN
       \/ f.type = "hello" /\ HandleHello
       \/ f.type = "message" /\ Note({f.id}) /\ UNCHANGED <<card, reads>>
       \/ /\ f.type = "card"
          /\ card' = [card EXCEPT ![f.id] = f.status]
          /\ UNCHANGED <<shown, last, reads>>
  /\ UNCHANGED <<count, status, link, hellos, phase, posts, answers, history>>

Usable == phase \in {"loading", "live"}

\* sendMessage; its own answer is noted, and moves the last message too.
SendMessage ==
  /\ Usable /\ Publish
  /\ posts' = posts \union {count + 1}
  /\ UNCHANGED <<page, reads, answers, history>>

Sent(m) ==
  /\ m \in posts /\ posts' = posts \ {m}
  /\ Note({m})
  /\ excused' = excused \union {n \in Missing : n < m}
  /\ UNCHANGED <<feed, phase, card, reads, answers, stale>>

\* respondApproval, from the card's buttons; refused when it is settled.
Respond(a) ==
  /\ Usable /\ card[a] = "pending"
  /\ ResolveCard(a)
  /\ answers' = answers \union {a}
  /\ UNCHANGED <<page, reads, posts, history>>

Responded(a) ==
  /\ a \in answers /\ answers' = answers \ {a}
  /\ card' = [card EXCEPT ![a] = "resolved"]
  /\ UNCHANGED <<feed, phase, shown, last, reads, posts, history>>

AnswerLost ==
  /\ RestFails
  /\ \/ \E m \in posts : posts' = posts \ {m} /\ UNCHANGED answers
     \/ \E a \in answers : answers' = answers \ {a} /\ UNCHANGED posts
  /\ UNCHANGED <<feed, page, reads, history>>

\* Everyone else in the room, and the socket.
World ==
  /\ phase \notin {"failed", "gone"}
  /\ \/ Publish
     \/ \E a \in Cards : OpenCard(a) \/ ResolveCard(a) \/ LapseCard(a)
     \/ Connect \/ LoseLink \/ Deny
  /\ UNCHANGED <<page, calls, history>>

\* getRoom fails; or the page is left, and its socket stopped.
LoadFails ==
  /\ RestFails /\ phase = "opening" /\ phase' = "failed"
  /\ UNCHANGED <<feed, shown, last, card, calls, history>>

Leave ==
  /\ phase # "gone" /\ phase' = "gone"
  /\ link' = "off" /\ frames' = <<>>
  /\ UNCHANGED <<count, status, hellos, shown, last, card, calls, history>>

WebNext ==
  \/ Loaded \/ LoadFails
  \/ \E r \in reads :
       Answer(r) \/ CardsLoaded(r) \/ CardsMerged(r) \/ PageLands(r) \/ GetFails(r)
  \/ HandleFrame
  \/ SendMessage \/ \E m \in posts : Sent(m)
  \/ \E a \in Cards : Respond(a) \/ Responded(a)
  \/ AnswerLost
  \/ World
  \/ Leave

WebSpec == WebInit /\ [][WebNext]_web

-----------------------------------------------------------------------------
(* Correctness.                                                            *)

\* The page is connected and nothing is under way to it.
Quiet ==
  /\ phase = "live" /\ link = "up" /\ frames = <<>>
  /\ reads = {} /\ posts = {} /\ answers = {}

\* A page at rest shows every message of the room, whatever was lost and in
\* whatever order frames and answers came; but for those that a failed GET
\* or the page's own post may have hidden.
ShowsAllButExcused == Quiet => Missing \subseteq excused

\* What useRoomState.ts:2 says: the catch-up leaves no gap.
NoGap == Quiet => Missing = {}

\* A page at rest shows every approval as it stands: an answer is never
\* taken back by an older reading.  One that lapsed without a frame is shown
\* as lapsed by the card itself (ApprovalCard.tsx, effectiveStatus).
CardsSettle ==
  Quiet => \A a \in Cards \ stale :
    \/ card[a] = status[a]
    \/ status[a] = "expired" /\ card[a] = "pending"

\* The socket of a page that was left, or never loaded, is not running.
NoSocketLeft == phase \in {"gone", "failed", "opening"} => link = "off"
=============================================================================
