------------------------------- MODULE Access -------------------------------
(***************************************************************************)
(* Who may use the server: the tokens table with its invites, sessions and *)
(* bridge tokens, the bootstrap and the recovery at start-up, login, the   *)
(* rotations, and the sliding expiry of sessions.                          *)
(*                                                                         *)
(* Every handler runs without an await and changes the table in one        *)
(* transaction, so each is one action; what may get lost is its answer,    *)
(* and the raw token with it.  Tokens are numbered in the order they are   *)
(* minted.  An invite is known to whoever got it; Forget stands for a      *)
(* closed browser or a lost note.  Time only matters to sessions: each has *)
(* its age since max(created_at, last_used_at), which stops at expiry.     *)
(***************************************************************************)
EXTENDS Integers, FiniteSets

CONSTANTS
  Humans,    \* human users
  Agents,    \* agent users
  Host,      \* the bootstrap user, the only admin
  Rooms,
  GivenRoles,\* roles an owner gives to those added
  NoOne,     \* no role, no owner, no room
  TTL,       \* sessionTtlDays, in ticks
  Throttle,  \* SESSION_LAST_USED_THROTTLE_MS, in ticks
  MaxTokens  \* bound: tokens ever minted

Users == Humans \union Agents
Roles == {"owner", "human", "agent", "observer"}

ASSUME AccessAssumption ==
  /\ Host \in Humans /\ Humans \intersect Agents = {}
  /\ GivenRoles \subseteq Roles
  /\ NoOne \notin Users \union Rooms \union Roles
  /\ TTL \in Nat /\ Throttle \in Nat \ {0} /\ MaxTokens \in Nat

VARIABLES
  server,   \* the process: down, up, or with a minted token it has yet to print
  count,    \* tokens minted so far
  tokens,   \* the tokens table
  role,     \* room_participants
  ownerOf,  \* users.owner_user_id
  known     \* tokens whose raw value somebody has

vars == <<server, count, tokens, role, ownerOf, known>>

Token == [kind : {"invite", "session", "bridge"}, user : Users,
          room : Rooms \union {NoOne},
          status : {"live", "spent", "revoked"},
          idle : 0..TTL + 1,   \* age since max(created_at, last_used_at)
          touched : BOOLEAN,   \* last_used_at is set
          quiet : 0..TTL + 1]  \* age since the last request or its creation

TypeOK ==
  /\ server \in {"down", "printing", "up"}
  /\ count \in 0..MaxTokens
  /\ tokens \in [1..count -> Token]
  /\ role \in [Rooms -> [Users -> Roles \union {NoOne}]]
  /\ ownerOf \in [Agents -> Humans \union {NoOne}]
  /\ known \subseteq 1..count
  /\ server = "printing" => count > 0

Init ==
  /\ server = "down" /\ count = 0 /\ tokens = [t \in {} |-> NoOne]
  /\ role = [r \in Rooms |-> [u \in Users |-> NoOne]]
  /\ ownerOf = [a \in Agents |-> NoOne]
  /\ known = {}

-----------------------------------------------------------------------------
(* The tokens table.                                                       *)

NoToken == 0

Fresh(kind, user, room) ==
  [kind |-> kind, user |-> user, room |-> room, status |-> "live",
   idle |-> 0, touched |-> FALSE, quiet |-> 0]

\* insertToken.
Minted(table, token) ==
  [t \in 1..count + 1 |-> IF t = count + 1 THEN token ELSE table[t]]

Exists(user) == \E t \in 1..count : tokens[t].user = user

Expired(token) == token.kind = "session" /\ token.idle > TTL

Usable(token) == token.status = "live" /\ ~Expired(token)

\* Mutant: only invites are revoked.
Revoked_Invites(table, user) ==
  [t \in 1..count |->
    IF table[t].user = user /\ table[t].kind # "session"
    THEN [table[t] EXCEPT !.status = "revoked"] ELSE table[t]]

\* revokeHumanTokens, or revokeBridgeTokens for the one room of an agent.
Revoked(table, user) ==
  [t \in 1..count |->
    IF table[t].user = user THEN [table[t] EXCEPT !.status = "revoked"] ELSE table[t]]

\* Mutant: strictly more than the throttle.
Slid_Late(token) ==
  IF token.kind # "session" THEN token
  ELSE IF ~token.touched \/ token.idle > Throttle
       THEN [token EXCEPT !.idle = 0, !.touched = TRUE, !.quiet = 0]
       ELSE [token EXCEPT !.quiet = 0]

\* touchToken, at most once per throttle.
Slid(token) ==
  IF token.kind # "session" THEN token
  ELSE IF ~token.touched \/ token.idle >= Throttle
       THEN [token EXCEPT !.idle = 0, !.touched = TRUE, !.quiet = 0]
       ELSE [token EXCEPT !.quiet = 0]

\* Mutant: the use is recorded before the expiry is looked at.
Resolves_Late(t) == tokens[t].status = "live" /\ tokens[t].kind \in {"session", "bridge"}

\* resolveApiToken.
Resolves(t) == Usable(tokens[t]) /\ tokens[t].kind \in {"session", "bridge"}

Authenticated(t) == server = "up" /\ t \in known /\ Resolves(t)

AfterUse(t) == [tokens EXCEPT ![t] = Slid(@)]

\* roomGuard: the caller takes part in the room, and his token is for it.
Guarded(t, r) ==
  /\ tokens[t].kind = "bridge" => tokens[t].room = r
  /\ role[r][tokens[t].user] # NoOne

\* The answer with the raw token arrives, or is lost.
Answered == known' \in {known, known \union {count + 1}}

Mint(table, kind, user, room) ==
  /\ count < MaxTokens
  /\ count' = count + 1
  /\ tokens' = Minted(table, Fresh(kind, user, room))

-----------------------------------------------------------------------------
(* The process.                                                            *)

HostLockedOut == \A t \in 1..count : tokens[t].user = Host => ~Usable(tokens[t])

\* Mutant: any session counts as access.
NeedsRecovery_AnySession ==
  \A t \in 1..count :
    tokens[t].user = Host => tokens[t].status # "live"

\* recoverAdminAccess, condition; true of an empty table, when bootstrap mints.
NeedsRecovery == HostLockedOut

\* main: bootstrap or recoverAdminAccess commit a token before it is printed.
Boot ==
  /\ server = "down"
  /\ IF NeedsRecovery
     THEN server' = "printing" /\ Mint(tokens, "invite", Host, NoOne)
     ELSE server' = "up" /\ UNCHANGED <<count, tokens>>
  /\ UNCHANGED <<role, ownerOf, known>>

PrintInvite ==
  /\ server = "printing"
  /\ server' = "up" /\ known' = known \union {count}
  /\ UNCHANGED <<count, tokens, role, ownerOf>>

Crash ==
  /\ server # "down"
  /\ server' = "down"
  /\ UNCHANGED <<count, tokens, role, ownerOf, known>>

Forget(t) ==
  /\ t \in known
  /\ known' = known \ {t}
  /\ UNCHANGED <<server, count, tokens, role, ownerOf>>

\* Time passes.
Older(age) == IF age > TTL THEN age ELSE age + 1

Tick ==
  /\ tokens' = [t \in 1..count |->
       IF tokens[t].kind = "session"
       THEN [tokens[t] EXCEPT !.idle = Older(@), !.quiet = Older(@)] ELSE tokens[t]]
  /\ UNCHANGED <<server, count, role, ownerOf, known>>

-----------------------------------------------------------------------------
(* Requests.                                                               *)

\* POST /auth/login.
Login(t) ==
  /\ server = "up" /\ t \in known
  /\ tokens[t].kind = "invite" /\ tokens[t].status = "live"
  /\ Mint([tokens EXCEPT ![t].status = "spent"], "session", tokens[t].user, NoOne)
  /\ Answered
  /\ UNCHANGED <<server, role, ownerOf>>

\* Any request that changes nothing but the caller's own last use, a refused
\* one included.
Request(t) ==
  /\ Authenticated(t)
  /\ tokens' = AfterUse(t)
  /\ UNCHANGED <<server, count, role, ownerOf, known>>

\* POST /rooms.
CreateRoom(t, r) ==
  /\ Authenticated(t) /\ tokens[t].kind = "session"
  /\ \A u \in Users : role[r][u] = NoOne
  /\ role' = [role EXCEPT ![r][tokens[t].user] = "owner"]
  /\ tokens' = AfterUse(t)
  /\ UNCHANGED <<server, count, ownerOf, known>>

KindFor(user) == IF user \in Humans THEN "invite" ELSE "bridge"
RoomFor(user, r) == IF user \in Humans THEN NoOne ELSE r

\* A new user with his first token, in one transaction.
Enrol(t, r, user, as) ==
  /\ ~Exists(user)
  /\ role' = [role EXCEPT ![r][user] = as]
  /\ Mint(AfterUse(t), KindFor(user), user, RoomFor(user, r))
  /\ Answered

\* Revoke and mint in one transaction.
Renew(t, r, user) ==
  /\ Mint(Revoked(AfterUse(t), user), KindFor(user), user, RoomFor(user, r))
  /\ Answered
  /\ UNCHANGED <<role, ownerOf>>

CallerOwns(t, r) ==
  Authenticated(t) /\ Guarded(t, r) /\ role[r][tokens[t].user] = "owner"

\* POST /participants.
AddParticipant(t, r, user, as) ==
  /\ CallerOwns(t, r)
  /\ Enrol(t, r, user, as)
  /\ IF user \in Agents
     THEN \E owner \in Humans :
            role[r][owner] # NoOne /\ ownerOf' = [ownerOf EXCEPT ![user] = owner]
     ELSE UNCHANGED ownerOf
  /\ UNCHANGED server

\* POST /participants/:userId/token.
RotateToken(t, r, user) ==
  /\ CallerOwns(t, r)
  /\ role[r][user] # NoOne
  /\ Renew(t, r, user)
  /\ UNCHANGED server

\* The caller's agents of the room, and the one that was created first.
OwnAgents(me, r) == {a \in Agents : role[r][a] = "agent" /\ ownerOf[a] = me}

Created(user) == CHOOSE t \in 1..count :
  tokens[t].user = user /\ \A k \in 1..t - 1 : tokens[k].user # user

\* POST /my-agent: rotate the first such agent, or create one.
MyAgent(t, r) ==
  /\ Authenticated(t) /\ Guarded(t, r) /\ tokens[t].kind = "session"
  /\ LET me == tokens[t].user
         mine == OwnAgents(me, r)
     IN  \/ \E a \in mine :
              /\ \A other \in mine : Created(a) <= Created(other)
              /\ Renew(t, r, a)
         \/ /\ mine = {}
            /\ \E a \in Agents :
                 /\ Enrol(t, r, a, "agent")
                 /\ ownerOf' = [ownerOf EXCEPT ![a] = me]
  /\ UNCHANGED server

Next ==
  \/ Boot \/ PrintInvite \/ Crash \/ Tick
  \/ \E t \in 1..count :
       \/ Forget(t) \/ Login(t) \/ Request(t)
       \/ \E r \in Rooms :
            \/ CreateRoom(t, r) \/ MyAgent(t, r)
            \/ \E user \in Users :
                 \/ RotateToken(t, r, user)
                 \/ \E as \in GivenRoles : AddParticipant(t, r, user, as)

Spec == Init /\ [][Next]_vars

HostHasAccess == \E t \in known : tokens[t].user = Host /\ Usable(tokens[t])

-----------------------------------------------------------------------------
(* Correctness.                                                            *)

\* Of one user's tokens only the newest can be used, and an agent's newest
\* always can: rotations, logins and recoveries leave no second key and no
\* agent without one (participants.ts, myAgent.ts, routes/auth.ts).
OneKey ==
  /\ \A t, k \in 1..count :
       t < k /\ tokens[t].user = tokens[k].user => ~Usable(tokens[t])
  /\ \A a \in Agents : Exists(a) =>
       \E t \in 1..count : tokens[t].user = a /\ Usable(tokens[t])

\* A token that is spent, revoked or expired is never usable again.
DeadStaysDead ==
  [][\A t \in 1..count : ~Usable(tokens[t]) => ~Usable(tokens'[t])]_vars

\* A session in use stays: with requests no further apart than the TTL less
\* the throttle it never expires (auth.ts resolveApiToken).
UseKeepsAlive ==
  \A t \in 1..count :
    tokens[t].quiet + Throttle <= TTL + 1 => ~Expired(tokens[t])
=============================================================================
