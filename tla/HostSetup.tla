----------------------------- MODULE HostSetup ------------------------------
(***************************************************************************)
(* `npm run up`: it starts the server as its child, logs the host in with  *)
(* the session it saved last time, or else with an invite, makes a room    *)
(* with three participants, and stays in front of the server.              *)
(*                                                                         *)
(* The server and its tokens are those of Access.  The rows of the new     *)
(* room are counted and not kept: nobody else uses them.  A mishap is      *)
(* whatever the host and his machine did not want: a call that fails, an   *)
(* interrupt, a kill, a lost file, an old invite on the command line.      *)
(***************************************************************************)
EXTENDS Access

CONSTANT MaxMishaps  \* bound: mishaps

ASSUME HostSetupAssumption == MaxMishaps \in Nat

RoomCalls == 4  \* the room, the teacher, the two agents

VARIABLES
  up,       \* the step `up` has reached
  child,    \* a server process it started exists
  invite,   \* the invite it may log in with
  saved,    \* the token in host-session.json
  session,  \* the token it works with
  made,     \* calls of the room that were answered
  mishaps   \* mishaps so far

setup == <<up, child, invite, saved, session, made, mishaps>>

UpInit ==
  /\ up = "off" /\ child = FALSE
  /\ invite = NoToken /\ saved = NoToken /\ session = NoToken
  /\ made = 0 /\ mishaps = 0

Mishap == mishaps < MaxMishaps /\ mishaps' = mishaps + 1
NoMishap == UNCHANGED mishaps

GoesTo(step) == up' = step
Stays == UNCHANGED <<child, invite, saved, session, made>>

-----------------------------------------------------------------------------
(* The server process.                                                     *)

HostInvites == {t \in 1..count : tokens[t].user = Host /\ tokens[t].kind = "invite"}

\* What a host who reads the log passes with --invite.
BestInvite ==
  LET open == {t \in HostInvites \intersect known : Usable(tokens[t])}
  IN  IF open = {} THEN NoToken ELSE CHOOSE t \in open : TRUE

Start(given) ==
  /\ up = "off" /\ ~child
  /\ IF given = BestInvite THEN NoMishap ELSE Mishap
  /\ GoesTo("starting") /\ child' = TRUE
  /\ invite' = given /\ session' = NoToken /\ made' = 0
  /\ UNCHANGED <<vars, saved>>

ServerBoots == child /\ Boot /\ UNCHANGED setup

\* The line on the child's output; nobody reads an orphan's.
ServerPrints ==
  /\ server = "printing" /\ server' = "up"
  /\ IF up = "starting"
     THEN /\ known' = known \union {count}
          /\ invite' = IF invite = NoToken THEN count ELSE invite
     ELSE UNCHANGED <<known, invite>>
  /\ UNCHANGED <<count, tokens, role, ownerOf, up, child, saved, session, made, mishaps>>

\* CLAUSROOM_LISTENING.
Listening ==
  /\ up = "starting" /\ server = "up" /\ GoesTo("probing")
  /\ Stays /\ NoMishap /\ UNCHANGED vars

Exits == up' = "off" /\ child' = FALSE /\ server' = "down"

\* `up` again beside an orphan: the new server opens the database, and may
\* print an invite, before it finds the port taken.
PortTaken ==
  /\ up = "off" /\ server = "up" /\ Mishap
  /\ IF NeedsRecovery
     THEN Mint(tokens, "invite", Host, NoOne) /\ known' = known \union {count + 1}
     ELSE UNCHANGED <<count, tokens, known>>
  /\ UNCHANGED <<server, role, ownerOf, up>> /\ Stays

\* A call fails or times out, or Ctrl-C: the server is stopped on the way out.
Break ==
  /\ up # "off" /\ Mishap /\ Exits
  /\ UNCHANGED <<count, tokens, role, ownerOf, known, invite, saved, session, made>>

\* `up` is killed and leaves the server.
Kill ==
  /\ up # "off" /\ Mishap /\ GoesTo("off") /\ Stays /\ UNCHANGED vars

ServerDies ==
  /\ child /\ Mishap /\ child' = FALSE /\ server' = "down"
  /\ UNCHANGED <<count, tokens, role, ownerOf, known, up, invite, saved, session, made>>

\* An early exit, the next call, or the end of a room that was up.
Gone ==
  /\ up # "off" /\ ~child /\ GoesTo("off") /\ Stays /\ NoMishap /\ UNCHANGED vars

StopOrphan ==
  /\ up = "off" /\ child
  /\ Exits /\ NoMishap
  /\ UNCHANGED <<count, tokens, role, ownerOf, known, invite, saved, session, made>>

\* fail, main's catch, stopServerSync.
GiveUp ==
  /\ up = "failing"
  /\ Exits /\ NoMishap
  /\ UNCHANGED <<count, tokens, role, ownerOf, known, invite, saved, session, made>>

-----------------------------------------------------------------------------
(* Logging in.                                                             *)

\* Mutant: the saved session is not tried.
Reuse_Untried ==
  /\ up = "probing" /\ server = "up" /\ saved # NoToken
  /\ GoesTo("room") /\ session' = saved
  /\ NoMishap /\ UNCHANGED <<vars, child, invite, saved, made>>

\* validateSession answers 200.
Reuse ==
  /\ up = "probing" /\ saved # NoToken /\ Request(saved)
  /\ GoesTo("room") /\ session' = saved
  /\ NoMishap /\ UNCHANGED <<child, invite, saved, made>>

\* No file, 401, or no answer in time.
NoReuse ==
  /\ up = "probing" /\ server = "up" /\ GoesTo("login") /\ Stays
  /\ \/ (saved # NoToken => ~Resolves(saved)) /\ NoMishap /\ UNCHANGED vars
     \/ saved # NoToken /\ Request(saved) /\ Mishap

\* Neither the server's invite nor a good one of the caller's.
NoInvite ==
  /\ up = "login" /\ server = "up"
  /\ invite = NoToken \/ (invite # NoToken /\ ~Usable(tokens[invite]))
  /\ GoesTo("failing") /\ Stays /\ NoMishap /\ UNCHANGED vars

LogIn ==
  /\ up = "login" /\ invite # NoToken /\ Login(invite)
  /\ \/ /\ count' \in known' /\ session' = count'
        /\ GoesTo("saving") /\ NoMishap
     \/ /\ count' \notin known' /\ Mishap
        /\ GoesTo("failing") /\ UNCHANGED session
  /\ UNCHANGED <<child, invite, saved, made>>

\* writeHostSession.
Save ==
  /\ up = "saving" /\ GoesTo("room") /\ saved' = session
  /\ NoMishap /\ UNCHANGED <<vars, child, invite, session, made>>

LoseFile ==
  /\ saved # NoToken /\ Mishap /\ saved' = NoToken
  /\ UNCHANGED <<vars, up, child, invite, session, made>>

-----------------------------------------------------------------------------
(* The room.                                                               *)

\* POST /rooms, then the three POST /participants.
MakeRoom ==
  /\ up = "room" /\ made < RoomCalls /\ Request(session)
  /\ made' = made + 1
  /\ NoMishap /\ UNCHANGED <<up, child, invite, saved, session>>

Denied ==
  /\ up = "room" /\ made < RoomCalls /\ server = "up" /\ ~Resolves(session)
  /\ GoesTo("failing") /\ Stays /\ NoMishap /\ UNCHANGED vars

\* CLAUSROOM_UP_READY.
Ready ==
  /\ up = "room" /\ made = RoomCalls /\ GoesTo("ready")
  /\ Stays /\ NoMishap /\ UNCHANGED vars

\* A run of `up` is short: time passes during one as a mishap, or when the
\* bound has stopped it.
TimePasses ==
  /\ Tick /\ UNCHANGED up /\ Stays
  /\ IF up \in {"off", "ready"} \/ count = MaxTokens THEN NoMishap ELSE Mishap

UpStep ==
  \/ ServerBoots \/ ServerPrints \/ Listening \/ Gone \/ StopOrphan \/ GiveUp
  \/ Reuse \/ NoReuse \/ NoInvite \/ LogIn \/ Save
  \/ MakeRoom \/ Denied \/ Ready

UpNext ==
  \/ UpStep
  \/ \E given \in {NoToken} \union (HostInvites \intersect known) : Start(given)
  \/ PortTaken \/ Break \/ Kill \/ ServerDies \/ LoseFile \/ TimePasses

UpSpec == Init /\ UpInit /\ [][UpNext]_<<vars, setup>>
=============================================================================
