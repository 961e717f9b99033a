------------------------------- MODULE SignIn -------------------------------
(***************************************************************************)
(* The pages of one browser between the sign-in screen, a join link and    *)
(* the rooms: the session they hold, the one in localStorage, which they   *)
(* share, and their calls, whose answers come late, in any order, or not.  *)
(*                                                                         *)
(* The server is what Access shows of one human: his newest token alone    *)
(* can be used, an invite once, a session until it expires or the owner    *)
(* issues another invite.  An act stands for every guarded call of a       *)
(* signed-in page; it is not cancelled when the page moves on.  A page has *)
(* one call of a kind under way at a time.                                 *)
(***************************************************************************)
EXTENDS Naturals, FiniteSets

CONSTANTS
  Tabs,       \* the tabs of the browser
  NoToken,    \* no token held or stored
  MaxInvites, \* bound: invites issued
  MaxAsked    \* bound: calls under way

ASSUME SignInAssumption ==
  /\ MaxInvites \in Nat \ {0} /\ MaxAsked \in Nat
  /\ \A n \in 1..MaxInvites : NoToken \notin {<<"invite", n>>, <<"session", n>>}

VARIABLES
  issued,  \* invites issued so far
  live,    \* the token the server takes, if any
  tabs,    \* the page of each tab: its view and the token it holds
  stored,  \* clausroom.session_token
  asked,   \* calls under way, answered by the server or not
  promised \* the session that "stays in this browser"

browser == <<tabs, stored, asked, promised>>
signing == <<issued, live, browser>>

Invite(n) == <<"invite", n>>
Session(n) == <<"session", n>>
Tokens == {Invite(n) : n \in 1..issued} \union {Session(n) : n \in 1..issued}
IsInvite(token) == \E n \in 1..issued : token = Invite(n)

Face(view, token) == [view |-> view, token |-> token]
Shows(tab, view) == tabs[tab].view = view

SignInInit ==
  /\ issued = 1 /\ live = Invite(1)
  /\ tabs = [tab \in Tabs |-> Face("closed", NoToken)]
  /\ stored = NoToken /\ asked = {} /\ promised = NoToken

Query(tab, kind, token) ==
  [tab |-> tab, kind |-> kind, token |-> token, answer |-> "none", session |-> NoToken]

Busy(tab, kind) == \E call \in asked : call.tab = tab /\ call.kind = kind

Ask(tab, kind, token) ==
  /\ Cardinality(asked) < MaxAsked
  /\ asked' = asked \union {Query(tab, kind, token)}

\* The boot of a page that moved on is cancelled.
Without(these, tab) == {call \in these : ~(call.tab = tab /\ call.kind = "boot")}

GoesTo(tab, face) == tabs' = [tabs EXCEPT ![tab] = face]

-----------------------------------------------------------------------------
(* What the user does.                                                     *)

\* App starts without a link: the stored session is asked for.
Load(tab) ==
  /\ Shows(tab, "closed")
  /\ IF stored = NoToken
     THEN GoesTo(tab, Face("login", NoToken)) /\ UNCHANGED asked
     ELSE /\ GoesTo(tab, Face("boot", stored))
          /\ Ask(tab, "boot", stored)
  /\ UNCHANGED <<issued, live, stored, promised>>

\* /join with an invite or a session.
LoadLink(tab, token) ==
  /\ Shows(tab, "closed")
  /\ GoesTo(tab, Face("join", stored))
  /\ Ask(tab, "link", token)
  /\ UNCHANGED <<issued, live, stored, promised>>

\* /join without either.
LoadJoin(tab) ==
  /\ Shows(tab, "closed")
  /\ IF stored = NoToken
     THEN GoesTo(tab, Face("stuck", NoToken)) /\ UNCHANGED asked
     ELSE /\ GoesTo(tab, Face("join", stored))
          /\ Ask(tab, "bare", stored)
  /\ UNCHANGED <<issued, live, stored, promised>>

\* To the sign-in screen; a token held from the start is asked for now.
Fallback(tab) ==
  /\ Shows(tab, "stuck")
  /\ GoesTo(tab, Face("login", tabs[tab].token))
  /\ IF tabs[tab].token = NoToken THEN UNCHANGED asked
     ELSE Ask(tab, "boot", tabs[tab].token)
  /\ UNCHANGED <<issued, live, stored, promised>>

Submit(tab, token) ==
  /\ Shows(tab, "login") /\ ~Busy(tab, "form")
  /\ Ask(tab, "form", token)
  /\ UNCHANGED <<issued, live, tabs, stored, promised>>

Retry(tab) ==
  /\ Shows(tab, "retry")
  /\ GoesTo(tab, Face("boot", tabs[tab].token))
  /\ Ask(tab, "boot", tabs[tab].token)
  /\ UNCHANGED <<issued, live, stored, promised>>

Act(tab) ==
  /\ Shows(tab, "in") /\ ~Busy(tab, "act")
  /\ Ask(tab, "act", tabs[tab].token)
  /\ UNCHANGED <<issued, live, tabs, stored, promised>>

SignOut(tab) ==
  /\ Shows(tab, "in") \/ Shows(tab, "retry")
  /\ stored' = NoToken /\ promised' = NoToken
  /\ GoesTo(tab, Face("login", NoToken))
  /\ UNCHANGED <<issued, live, asked>>

Shut(tab) ==
  /\ ~Shows(tab, "closed")
  /\ GoesTo(tab, Face("closed", NoToken))
  /\ asked' = {call \in asked : call.tab # tab}
  /\ UNCHANGED <<issued, live, stored, promised>>

-----------------------------------------------------------------------------
(* What the server does.                                                   *)

Exchanges(call) == call.kind \in {"link", "form"} /\ IsInvite(call.token)

Replies(call, answer, session) ==
  asked' = (asked \ {call}) \union
             {[call EXCEPT !.answer = answer, !.session = session]}

SessionFor(invite) == Session(invite[2])

\* POST /auth/login, and GET /me or any call with a session.
Serve(call) ==
  /\ call.answer = "none"
  /\ \/ /\ Exchanges(call) /\ call.token = live
        /\ live' = SessionFor(live)
        /\ Replies(call, "ok", SessionFor(live))
     \/ /\ ~Exchanges(call) /\ call.token = live
        /\ Replies(call, "ok", live) /\ UNCHANGED live
     \/ /\ call.token # live
        /\ Replies(call, "refused", NoToken) /\ UNCHANGED live
  /\ UNCHANGED <<issued, tabs, stored, promised>>

\* A session expires.
Expire ==
  /\ live # NoToken /\ ~IsInvite(live)
  /\ live' = NoToken
  /\ UNCHANGED <<issued, browser>>

\* The owner, or a restart, gives the human another invite.
Issue ==
  /\ issued < MaxInvites
  /\ issued' = issued + 1 /\ live' = Invite(issued + 1)
  /\ UNCHANGED browser

-----------------------------------------------------------------------------
(* What the page does with the answer.                                     *)

\* setSessionToken, and the view of the rooms.
SignsIn(call) ==
  /\ stored' = IF call.kind = "bare" THEN stored ELSE call.session
  /\ promised' = CASE Exchanges(call) -> call.session
                   [] call.kind # "bare" /\ call.session # promised -> NoToken
                   [] OTHER -> promised
  /\ GoesTo(call.tab, Face("in", call.session))
  /\ asked' = Without(asked \ {call}, call.tab)

\* handleUnauthorized.  It erases whatever is stored: of a session that is
\* not the one refused the promise is broken here.
Unauthorized(call) ==
  /\ stored' = NoToken
  /\ promised' = IF call.token = stored THEN promised ELSE NoToken
  /\ GoesTo(call.tab, Face("login", NoToken))
  /\ asked' = Without(asked \ {call}, call.tab)

\* api.me at the start succeeds; the sign-in screen stays if it is up.
Booted(call) ==
  /\ GoesTo(call.tab, IF Shows(call.tab, "boot")
                      THEN Face("in", call.token) ELSE tabs[call.tab])
  /\ asked' = asked \ {call}
  /\ UNCHANGED <<stored, promised>>

\* A link that fails, and a form that says so.
Fails(call) ==
  /\ GoesTo(call.tab, IF call.kind \in {"link", "bare"}
                      THEN Face("stuck", tabs[call.tab].token) ELSE tabs[call.tab])
  /\ asked' = asked \ {call}
  /\ UNCHANGED <<stored, promised>>

Take(call) ==
  /\ \/ call.answer = "ok" /\ call.kind \in {"link", "bare", "form"} /\ SignsIn(call)
     \/ call.answer = "ok" /\ call.kind = "boot" /\ Booted(call)
     \/ call.answer = "refused" /\ call.kind \in {"boot", "act"} /\ Unauthorized(call)
     \/ call.answer = "refused" /\ call.kind \in {"link", "bare", "form"} /\ Fails(call)
     \/ call.answer = "ok" /\ call.kind = "act" /\ Fails(call)
  /\ UNCHANGED <<issued, live>>

\* Mutant: any error of a page that starts signs it out.
Lose_SignsOut(call) ==
  /\ IF call.kind = "boot"
     THEN /\ stored' = NoToken /\ UNCHANGED promised
          /\ GoesTo(call.tab, Face("login", NoToken))
          /\ asked' = asked \ {call}
     ELSE Fails(call)
  /\ UNCHANGED <<issued, live>>

\* No answer arrives, whatever the server did.
Lose(call) ==
  /\ IF call.kind = "boot" /\ Shows(call.tab, "boot")
     THEN /\ GoesTo(call.tab, Face("retry", tabs[call.tab].token))
          /\ asked' = asked \ {call}
          /\ UNCHANGED <<stored, promised>>
     ELSE Fails(call)
  /\ UNCHANGED <<issued, live>>

SignInNext ==
  \/ Expire \/ Issue
  \/ \E tab \in Tabs :
       \/ Load(tab) \/ LoadJoin(tab) \/ Fallback(tab) \/ Retry(tab)
       \/ Act(tab) \/ SignOut(tab) \/ Shut(tab)
       \/ \E token \in Tokens : LoadLink(tab, token) \/ Submit(tab, token)
  \/ \E call \in asked : Serve(call) \/ Take(call) \/ Lose(call)

SignInSpec == SignInInit /\ [][SignInNext]_signing

-----------------------------------------------------------------------------
(* Correctness.                                                            *)

\* A session got for an invite stays in the browser as long as the server
\* takes it, until a user signs out or in anew, or a page is refused with an
\* older session (App.tsx, storage.ts).
SessionKept ==
  promised # NoToken /\ promised = live => stored = promised
=============================================================================
