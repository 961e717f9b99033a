---------------------------- MODULE AccessProofs ----------------------------
(***************************************************************************)
(* The tokens table, for every set of users and rooms, every life span and *)
(* throttle of sessions, and any number of tokens: under any requests, as  *)
(* the child of `npm run up`, and while a token is handed to a machine.    *)
(***************************************************************************)
EXTENDS HostSetup, HandOff, TLAPS

\* An agent never holds an invite, so a login never spends an agent's key.
AgentsHoldBridges ==
  \A t \in 1..count : tokens[t].user \in Agents => tokens[t].kind = "bridge"

\* The recorded use of a session lags the last one by less than the throttle.
Recorded(token) == token.kind = "session" => token.idle < token.quiet + Throttle
AllRecorded == \A t \in 1..count : Recorded(tokens[t])

AccessInv == TypeOK /\ OneKey /\ AgentsHoldBridges /\ AllRecorded

\* What a step may do to the tokens there are.
NoneRevived == \A t \in 1..count : ~Usable(tokens[t]) => ~Usable(tokens'[t])

\* The parts of the invariant that are about the table alone.
TableInv == /\ tokens \in [1..count -> Token] /\ count \in 0..MaxTokens
            /\ OneKey /\ AgentsHoldBridges /\ AllRecorded

\* A table that differs from the present one by uses and revocations only.
Worn(table) ==
  /\ table \in [1..count -> Token]
  /\ \A k \in 1..count :
       /\ table[k].user = tokens[k].user /\ table[k].kind = tokens[k].kind
       /\ Usable(table[k]) => Usable(tokens[k])
       /\ Recorded(table[k])

-----------------------------------------------------------------------------
LEMMA InvInit == Init => AccessInv
BY AccessAssumption
   DEF Init, AccessInv, TypeOK, OneKey, AgentsHoldBridges, AllRecorded, Exists

\* touchToken: the slid token is of its type, its use is recorded, and it is
\* exactly as usable as it was.
LEMMA SlidToken ==
  ASSUME NEW token \in Token, Usable(token), Recorded(token)
  PROVE  /\ Slid(token) \in Token /\ Recorded(Slid(token))
         /\ Slid(token).user = token.user /\ Slid(token).kind = token.kind
         /\ Usable(Slid(token))
<1> USE AccessAssumption
<1>1. CASE token.kind # "session"
  BY <1>1 DEF Slid
<1>2. CASE token.kind = "session" /\ (~token.touched \/ token.idle >= Throttle)
  <2>1. Slid(token) = [kind |-> token.kind, user |-> token.user, room |-> token.room,
                       status |-> token.status, idle |-> 0, touched |-> TRUE, quiet |-> 0]
    BY <1>2 DEF Slid, Token
  <2> QED BY <1>2, <2>1 DEF Token, Recorded, Usable, Expired
<1>3. CASE token.kind = "session" /\ token.touched /\ ~(token.idle >= Throttle)
  <2>1. Slid(token) = [kind |-> token.kind, user |-> token.user, room |-> token.room,
                       status |-> token.status, idle |-> token.idle,
                       touched |-> token.touched, quiet |-> 0]
    BY <1>3 DEF Slid, Token
  <2> QED BY <1>3, <2>1 DEF Token, Recorded, Usable, Expired
<1> QED BY <1>1, <1>2, <1>3

\* A use wears the table, and costs nobody his key.
LEMMA UseWears ==
  ASSUME TableInv, NEW t \in 1..count, Resolves(t)
  PROVE  /\ Worn(AfterUse(t))
         /\ \A k \in 1..count : Usable(tokens[k]) => Usable(AfterUse(t)[k])
<1> DEFINE table == AfterUse(t)
<1>1. table[t] = Slid(tokens[t]) /\ DOMAIN table = 1..count
  BY DEF AfterUse, TableInv
<1>2. \A k \in 1..count : k # t => table[k] = tokens[k]
  BY DEF AfterUse, TableInv
<1>3. /\ table[t] \in Token /\ Recorded(table[t])
      /\ table[t].user = tokens[t].user /\ table[t].kind = tokens[t].kind
      /\ Usable(table[t])
  BY <1>1, SlidToken DEF TableInv, AllRecorded, Resolves
<1>4. \A k \in 1..count : tokens[k] \in Token /\ Recorded(tokens[k])
  BY DEF TableInv, AllRecorded
<1>5. Usable(tokens[t]) BY DEF Resolves
<1>6. table \in [1..count -> Token]
  <2>1. \A k \in 1..count : table[k] \in Token BY <1>2, <1>3, <1>4
  <2>2. table = [k \in 1..count |-> table[k]] BY <1>1 DEF AfterUse, TableInv
  <2> QED BY <2>1, <2>2
<1> HIDE DEF table
<1> QED BY <1>2, <1>3, <1>4, <1>5, <1>6 DEF Worn, table

\* A revocation wears the table further; only the user's own keys go.
LEMMA RevokedWears ==
  ASSUME TableInv, NEW table, Worn(table), NEW user
  PROVE  /\ Worn(Revoked(table, user))
         /\ \A k \in 1..count :
              IF tokens[k].user = user THEN ~Usable(Revoked(table, user)[k])
              ELSE Revoked(table, user)[k] = table[k]
<1> DEFINE less == Revoked(table, user)
<1>1. ASSUME NEW k \in 1..count
      PROVE  /\ less[k] \in Token
             /\ less[k].user = tokens[k].user /\ less[k].kind = tokens[k].kind
             /\ Usable(less[k]) => Usable(tokens[k])
             /\ Recorded(less[k])
             /\ IF tokens[k].user = user THEN ~Usable(less[k]) ELSE less[k] = table[k]
  <2>1. /\ table[k] \in Token /\ table[k].user = tokens[k].user
        /\ table[k].kind = tokens[k].kind /\ Recorded(table[k])
        /\ Usable(table[k]) => Usable(tokens[k])
    BY DEF Worn
  <2>2. CASE table[k].user = user
    <3>1. less[k] = [kind |-> table[k].kind, user |-> table[k].user,
                     room |-> table[k].room, status |-> "revoked",
                     idle |-> table[k].idle, touched |-> table[k].touched,
                     quiet |-> table[k].quiet]
      BY <2>1, <2>2 DEF Revoked, Token
    <3> QED BY <2>1, <2>2, <3>1 DEF Token, Usable, Recorded
  <2>3. CASE table[k].user # user
    <3>1. less[k] = table[k] BY <2>3 DEF Revoked
    <3> QED BY <2>1, <2>3, <3>1
  <2> QED BY <2>2, <2>3
<1>2. less = [k \in 1..count |-> less[k]] BY DEF Revoked
<1> HIDE DEF less
<1>3. less \in [1..count -> Token] BY <1>1, <1>2
<1> QED BY <1>1, <1>3 DEF Worn, less

\* The table after a use or a revocation that takes nobody's key.
LEMMA WornTable ==
  ASSUME TableInv, Worn(tokens'), count' = count,
         \A k \in 1..count : tokens[k].user \in Agents /\ Usable(tokens[k])
                             => Usable(tokens'[k])
  PROVE  TableInv' /\ NoneRevived
<1>1. OneKey'
  <2>1. \A t, k \in 1..count :
          t < k /\ tokens'[t].user = tokens'[k].user => ~Usable(tokens'[t])
    BY DEF TableInv, OneKey, Worn
  <2>2. ASSUME NEW a \in Agents, Exists(a)'
        PROVE  \E t \in 1..count : tokens'[t].user = a /\ Usable(tokens'[t])
    <3>1. Exists(a) BY <2>2 DEF Exists, Worn
    <3>2. PICK t \in 1..count : tokens[t].user = a /\ Usable(tokens[t])
      BY <3>1 DEF TableInv, OneKey
    <3> QED BY <3>2 DEF Worn
  <2>3. (\A t, k \in 1..count :
           t < k /\ tokens[t].user = tokens[k].user => ~Usable(tokens[t]))'
    BY <2>1
  <2>4. (\A a \in Agents : Exists(a) =>
           \E t \in 1..count : tokens[t].user = a /\ Usable(tokens[t]))'
    BY <2>2
  <2> QED BY <2>3, <2>4 DEF OneKey
<1>2. AgentsHoldBridges' /\ AllRecorded'
  BY DEF TableInv, AgentsHoldBridges, AllRecorded, Worn
<1>3. NoneRevived BY DEF NoneRevived, Worn
<1> QED BY <1>1, <1>2, <1>3 DEF TableInv, Worn

\* insertToken onto a worn table in which the user holds no other key.
LEMMA MintedTable ==
  ASSUME TableInv, NEW table, Worn(table), NEW kind, NEW user, NEW room,
         kind \in {"invite", "session", "bridge"}, user \in Users,
         room \in Rooms \union {NoOne}, user \in Agents => kind = "bridge",
         Mint(table, kind, user, room),
         \A k \in 1..count : tokens[k].user = user => ~Usable(table[k]),
         \A k \in 1..count : tokens[k].user \in Agents /\ tokens[k].user # user
                             /\ Usable(tokens[k]) => Usable(table[k])
  PROVE  TableInv' /\ NoneRevived
<1> USE AccessAssumption
<1> DEFINE new == Fresh(kind, user, room)
<1>1. count \in Nat /\ count' = count + 1 /\ count < MaxTokens
  BY DEF TableInv, Mint
<1>2. tokens' = [t \in 1..count' |-> IF t = count' THEN new ELSE table[t]]
  BY <1>1 DEF Mint, Minted
<1>3. /\ new \in Token /\ Usable(new) /\ Recorded(new)
      /\ new.user = user /\ new.kind = kind
  BY DEF Fresh, Token, Usable, Expired, Recorded
<1> HIDE DEF new
<1>4. /\ \A k \in 1..count : tokens'[k] = table[k]
      /\ tokens'[count'] = new
  BY <1>1, <1>2
<1>5. \A k \in 1..count' : k = count' \/ k \in 1..count
  BY <1>1
<1>6. tokens' \in [1..count' -> Token]
  BY <1>2, <1>3, <1>5 DEF Worn
<1>7. OneKey'
  <2>1. ASSUME NEW t \in 1..count', NEW k \in 1..count', t < k,
               tokens'[t].user = tokens'[k].user
        PROVE  ~Usable(tokens'[t])
    <3>1. t \in 1..count BY <1>1, <2>1
    <3>2. CASE k = count' BY <1>3, <1>4, <2>1, <3>1, <3>2 DEF Worn
    <3>3. CASE k \in 1..count
      <4>1. tokens[t].user = tokens[k].user BY <1>4, <2>1, <3>1, <3>3 DEF Worn
      <4> QED BY <1>4, <2>1, <3>1, <3>3, <4>1 DEF TableInv, OneKey, Worn
    <3> QED BY <1>5, <3>2, <3>3
  <2>2. ASSUME NEW a \in Agents, Exists(a)'
        PROVE  \E t \in 1..count' : tokens'[t].user = a /\ Usable(tokens'[t])
    <3>1. CASE a = user BY <1>1, <1>3, <1>4, <3>1
    <3>2. CASE a # user
      <4>1. Exists(a) BY <1>3, <1>4, <1>5, <2>2, <3>2 DEF Exists, Worn
      <4>2. PICK t \in 1..count : tokens[t].user = a /\ Usable(tokens[t])
        BY <4>1 DEF TableInv, OneKey
      <4> QED BY <1>1, <1>4, <3>2, <4>2 DEF Worn
    <3> QED BY <3>1, <3>2
  <2>3. (\A t, k \in 1..count :
           t < k /\ tokens[t].user = tokens[k].user => ~Usable(tokens[t]))'
    BY <2>1
  <2>4. (\A a \in Agents : Exists(a) =>
           \E t \in 1..count : tokens[t].user = a /\ Usable(tokens[t]))'
    BY <2>2
  <2> QED BY <2>3, <2>4 DEF OneKey
<1>8. AgentsHoldBridges'
  BY <1>3, <1>4, <1>5 DEF TableInv, AgentsHoldBridges, Worn
<1>9. AllRecorded' BY <1>3, <1>4, <1>5 DEF AllRecorded, Worn
<1>10. NoneRevived BY <1>4 DEF NoneRevived, Worn
<1>11. count' \in 0..MaxTokens BY <1>1
<1> QED BY <1>6, <1>7, <1>8, <1>9, <1>10, <1>11 DEF TableInv

\* A present table is a worn one.
LEMMA PresentWorn == TableInv => Worn(tokens)
BY DEF TableInv, Worn, AllRecorded

-----------------------------------------------------------------------------
LEMMA BootKeeps ==
  ASSUME AccessInv, Boot
  PROVE  AccessInv' /\ NoneRevived
<1> USE AccessAssumption
<1>1. TableInv BY DEF AccessInv, TypeOK, TableInv
<1>2. CASE NeedsRecovery
  <2>1. server' = "printing" /\ Mint(tokens, "invite", Host, NoOne)
    BY <1>2 DEF Boot
  <2>2. Host \in Users /\ Host \notin Agents BY DEF Users
  <2>3. \A k \in 1..count : tokens[k].user = Host => ~Usable(tokens[k])
    BY <1>2 DEF NeedsRecovery, HostLockedOut
  <2>4. TableInv' /\ NoneRevived
    BY <1>1, <2>1, <2>2, <2>3, PresentWorn, MintedTable
  <2>5. TypeOK'
    <3>1. count \in Nat /\ count' = count + 1 BY <1>1, <2>1 DEF TableInv, Mint
    <3>2. known' \subseteq 1..count' /\ role' = role /\ ownerOf' = ownerOf
      BY <3>1 DEF Boot, AccessInv, TypeOK
    <3> QED BY <2>1, <2>4, <3>1, <3>2 DEF TableInv, AccessInv, TypeOK
  <2> QED BY <2>4, <2>5 DEF TableInv, AccessInv
<1>3. CASE ~NeedsRecovery
  <2>1. server' = "up" /\ UNCHANGED <<count, tokens, role, ownerOf, known>>
    BY <1>3 DEF Boot
  <2> QED BY <2>1
       DEF AccessInv, TypeOK, OneKey, Exists, AgentsHoldBridges, AllRecorded,
           NoneRevived
<1> QED BY <1>2, <1>3

\* Nothing but the process or what is known changes.
LEMMA TableStays ==
  ASSUME AccessInv, UNCHANGED <<count, tokens, role, ownerOf>>,
         known' \subseteq 1..count, server' \in {"down", "up"}
  PROVE  AccessInv' /\ NoneRevived
BY DEF AccessInv, TypeOK, OneKey, Exists, AgentsHoldBridges, AllRecorded,
       NoneRevived

LEMMA TickKeeps ==
  ASSUME AccessInv, Tick
  PROVE  AccessInv' /\ NoneRevived
<1> USE AccessAssumption
<1>1. TableInv BY DEF AccessInv, TypeOK, TableInv
<1>2. \A k \in 1..count : tokens[k] \in Token /\ Recorded(tokens[k])
  BY <1>1 DEF TableInv, AllRecorded
<1>3. ASSUME NEW k \in 1..count
      PROVE  /\ tokens'[k] \in Token
             /\ tokens'[k].user = tokens[k].user /\ tokens'[k].kind = tokens[k].kind
             /\ Usable(tokens'[k]) => Usable(tokens[k])
             /\ Recorded(tokens'[k])
             /\ tokens[k].kind # "session" => tokens'[k] = tokens[k]
  <2>1. CASE tokens[k].kind # "session"
    <3>1. tokens'[k] = tokens[k] BY <2>1 DEF Tick
    <3> QED BY <1>2, <3>1
  <2>2. CASE tokens[k].kind = "session"
    <3>1. tokens'[k] = [kind |-> tokens[k].kind, user |-> tokens[k].user,
                        room |-> tokens[k].room, status |-> tokens[k].status,
                        idle |-> Older(tokens[k].idle),
                        touched |-> tokens[k].touched,
                        quiet |-> Older(tokens[k].quiet)]
      BY <1>2, <2>2 DEF Tick, Token
    <3>2. \A age \in 0..TTL + 1 : Older(age) \in 0..TTL + 1 /\ Older(age) >= age
      BY DEF Older
    <3>3. Older(tokens[k].idle) < Older(tokens[k].quiet) + Throttle
      BY <1>2, <2>2 DEF Token, Recorded, Older
    <3> QED BY <1>2, <2>2, <3>1, <3>2, <3>3 DEF Token, Recorded, Usable, Expired
  <2> QED BY <2>1, <2>2
<1>4. Worn(tokens')
  <2>1. tokens' = [k \in 1..count |-> tokens'[k]] BY DEF Tick
  <2>2. tokens' \in [1..count -> Token] BY <1>3, <2>1
  <2> QED BY <1>3, <2>2 DEF Worn
<1>5. count' = count BY DEF Tick
<1>6. \A k \in 1..count : tokens[k].user \in Agents => tokens[k].kind = "bridge"
  BY <1>1 DEF TableInv, AgentsHoldBridges
<1>7. TableInv' /\ NoneRevived BY <1>1, <1>3, <1>4, <1>5, <1>6, WornTable
<1> QED BY <1>7 DEF TableInv, AccessInv, TypeOK, Tick

LEMMA LoginKeeps ==
  ASSUME AccessInv, NEW t \in 1..count, Login(t)
  PROVE  AccessInv' /\ NoneRevived
<1> USE AccessAssumption
<1> DEFINE table == [tokens EXCEPT ![t].status = "spent"]
<1>1. TableInv BY DEF AccessInv, TypeOK, TableInv
<1>2. /\ tokens[t].kind = "invite" /\ tokens[t].status = "live" /\ Usable(tokens[t])
      /\ Mint(table, "session", tokens[t].user, NoOne)
      /\ server' = server /\ role' = role /\ ownerOf' = ownerOf /\ Answered
  BY DEF Login, Usable, Expired
<1>3. \A k \in 1..count : tokens[k] \in Token /\ Recorded(tokens[k])
  BY <1>1 DEF TableInv, AllRecorded
<1>4. table[t] = [tokens[t] EXCEPT !.status = "spent"]
  BY <1>1 DEF TableInv
<1>5. table[t] = [kind |-> tokens[t].kind, user |-> tokens[t].user,
                  room |-> tokens[t].room, status |-> "spent",
                  idle |-> tokens[t].idle, touched |-> tokens[t].touched,
                  quiet |-> tokens[t].quiet]
  BY <1>3, <1>4 DEF Token
<1>6. /\ table[t] \in Token /\ ~Usable(table[t]) /\ Recorded(table[t])
      /\ table[t].user = tokens[t].user /\ table[t].kind = tokens[t].kind
  BY <1>3, <1>5 DEF Token, Usable, Recorded
<1>7. \A k \in 1..count : k # t => table[k] = tokens[k]
  BY <1>1 DEF TableInv
<1>8. table = [k \in 1..count |-> table[k]] BY <1>1 DEF TableInv
<1> HIDE DEF table
<1>9. Worn(table)
  <2>1. table \in [1..count -> Token] BY <1>3, <1>6, <1>7, <1>8
  <2> QED BY <1>3, <1>6, <1>7, <2>1 DEF Worn
<1>10. tokens[t].user \in Users /\ tokens[t].user \notin Agents
  BY <1>1, <1>2, <1>3 DEF TableInv, AgentsHoldBridges, Token
<1>11. ASSUME NEW k \in 1..count, tokens[k].user = tokens[t].user
       PROVE  ~Usable(table[k])
  <2>1. CASE k = t BY <1>6, <2>1
  <2>2. CASE k < t BY <1>1, <1>7, <1>11, <2>2 DEF TableInv, OneKey
  <2>3. CASE t < k BY <1>1, <1>2, <1>11, <2>3 DEF TableInv, OneKey
  <2> QED BY <1>1, <2>1, <2>2, <2>3 DEF TableInv
<1>12. \A k \in 1..count : tokens[k].user \in Agents /\ tokens[k].user # tokens[t].user
         /\ Usable(tokens[k]) => Usable(table[k])
  BY <1>7
<1>13. TableInv' /\ NoneRevived
  BY <1>1, <1>2, <1>9, <1>10, <1>11, <1>12, MintedTable
<1>14. count \in Nat /\ count' = count + 1 BY <1>1, <1>2 DEF TableInv, Mint
<1>15. known' \subseteq 1..count' BY <1>2, <1>14 DEF AccessInv, TypeOK, Answered
<1> QED BY <1>2, <1>13, <1>14, <1>15 DEF TableInv, AccessInv, TypeOK

\* What a handler does to the table when it changes nobody's token.
LEMMA UsedTable ==
  ASSUME TableInv, NEW t \in 1..count, Resolves(t), tokens' = AfterUse(t),
         count' = count
  PROVE  TableInv' /\ NoneRevived
BY UseWears, WornTable

\* One transaction revokes what the user held and mints the only other.
LEMMA RenewedTable ==
  ASSUME TableInv, NEW t \in 1..count, Resolves(t), NEW r \in Rooms,
         NEW user \in Users, Renew(t, r, user)
  PROVE  TableInv' /\ NoneRevived
<1> USE AccessAssumption
<1> DEFINE table == Revoked(AfterUse(t), user)
<1>1. Worn(AfterUse(t)) /\ \A k \in 1..count : Usable(tokens[k]) => Usable(AfterUse(t)[k])
  BY UseWears
<1>2. /\ Worn(table)
      /\ \A k \in 1..count : IF tokens[k].user = user THEN ~Usable(table[k])
                             ELSE table[k] = AfterUse(t)[k]
  BY <1>1, RevokedWears
<1>3. Mint(table, KindFor(user), user, RoomFor(user, r)) BY DEF Renew
<1>4. /\ KindFor(user) \in {"invite", "session", "bridge"}
      /\ RoomFor(user, r) \in Rooms \union {NoOne}
      /\ user \in Agents => KindFor(user) = "bridge"
  BY DEF KindFor, RoomFor
<1> HIDE DEF table
<1> QED BY <1>1, <1>2, <1>3, <1>4, MintedTable

\* A new user has no other token.
LEMMA EnrolledTable ==
  ASSUME TableInv, NEW t \in 1..count, Resolves(t), NEW r \in Rooms,
         NEW user \in Users, NEW as, Enrol(t, r, user, as)
  PROVE  TableInv' /\ NoneRevived
<1> USE AccessAssumption
<1>1. Worn(AfterUse(t)) /\ \A k \in 1..count : Usable(tokens[k]) => Usable(AfterUse(t)[k])
  BY UseWears
<1>2. /\ Mint(AfterUse(t), KindFor(user), user, RoomFor(user, r))
      /\ \A k \in 1..count : tokens[k].user # user
  BY DEF Enrol, Exists
<1>3. /\ KindFor(user) \in {"invite", "session", "bridge"}
      /\ RoomFor(user, r) \in Rooms \union {NoOne}
      /\ user \in Agents => KindFor(user) = "bridge"
  BY DEF KindFor, RoomFor
<1> QED BY <1>1, <1>2, <1>3, MintedTable

\* The rest of the type invariant, after a minting handler.
LEMMA RestAfterMint ==
  ASSUME AccessInv, TableInv', server' = server, count' = count + 1, Answered,
         role' \in [Rooms -> [Users -> Roles \union {NoOne}]],
         ownerOf' \in [Agents -> Humans \union {NoOne}]
  PROVE  AccessInv'
<1>1. count \in Nat BY DEF AccessInv, TypeOK
<1>2. known' \subseteq 1..count' BY <1>1 DEF AccessInv, TypeOK, Answered
<1> QED BY <1>1, <1>2 DEF TableInv, AccessInv, TypeOK

LEMMA RequestKeeps ==
  ASSUME AccessInv, NEW t \in 1..count, Request(t)
  PROVE  AccessInv' /\ NoneRevived
<1>1. TableInv BY DEF AccessInv, TypeOK, TableInv
<1>2. Resolves(t) /\ tokens' = AfterUse(t) /\ count' = count
  BY DEF Request, Authenticated
<1>3. TableInv' /\ NoneRevived BY <1>1, <1>2, UsedTable
<1> QED BY <1>3 DEF Request, TableInv, AccessInv, TypeOK

LEMMA CreateRoomKeeps ==
  ASSUME AccessInv, NEW t \in 1..count, NEW r \in Rooms, CreateRoom(t, r)
  PROVE  AccessInv' /\ NoneRevived
<1>1. TableInv BY DEF AccessInv, TypeOK, TableInv
<1>2. Resolves(t) /\ tokens' = AfterUse(t) /\ count' = count
  BY DEF CreateRoom, Authenticated
<1>3. TableInv' /\ NoneRevived BY <1>1, <1>2, UsedTable
<1>4. role' \in [Rooms -> [Users -> Roles \union {NoOne}]]
  BY DEF CreateRoom, AccessInv, TypeOK, Roles
<1> QED BY <1>3, <1>4 DEF CreateRoom, TableInv, AccessInv, TypeOK

LEMMA RotateTokenKeeps ==
  ASSUME AccessInv, NEW t \in 1..count, NEW r \in Rooms, NEW user \in Users,
         RotateToken(t, r, user)
  PROVE  AccessInv' /\ NoneRevived
<1>1. TableInv BY DEF AccessInv, TypeOK, TableInv
<1>2. Resolves(t) /\ Renew(t, r, user) /\ server' = server
  BY DEF RotateToken, CallerOwns, Authenticated
<1>3. TableInv' /\ NoneRevived BY <1>1, <1>2, RenewedTable
<1>4. count' = count + 1 /\ Answered /\ role' = role /\ ownerOf' = ownerOf
  BY <1>2 DEF Renew, Mint
<1> QED BY <1>2, <1>3, <1>4, RestAfterMint DEF AccessInv, TypeOK

LEMMA AddParticipantKeeps ==
  ASSUME AccessInv, NEW t \in 1..count, NEW r \in Rooms, NEW user \in Users,
         NEW as \in Roles, AddParticipant(t, r, user, as)
  PROVE  AccessInv' /\ NoneRevived
<1>1. TableInv BY DEF AccessInv, TypeOK, TableInv
<1>2. Resolves(t) /\ Enrol(t, r, user, as) /\ server' = server
  BY DEF AddParticipant, CallerOwns, Authenticated
<1>3. TableInv' /\ NoneRevived BY <1>1, <1>2, EnrolledTable
<1>4. count' = count + 1 /\ Answered /\ role' = [role EXCEPT ![r][user] = as]
  BY <1>2 DEF Enrol, Mint
<1>5. role' \in [Rooms -> [Users -> Roles \union {NoOne}]]
  BY <1>4, AccessAssumption DEF AccessInv, TypeOK
<1>6. ownerOf' \in [Agents -> Humans \union {NoOne}]
  BY DEF AddParticipant, AccessInv, TypeOK
<1> QED BY <1>2, <1>3, <1>4, <1>5, <1>6, RestAfterMint

LEMMA MyAgentKeeps ==
  ASSUME AccessInv, NEW t \in 1..count, NEW r \in Rooms, MyAgent(t, r)
  PROVE  AccessInv' /\ NoneRevived
<1> DEFINE me == tokens[t].user
<1>1. TableInv BY DEF AccessInv, TypeOK, TableInv
<1>2. Resolves(t) /\ tokens[t].kind = "session" /\ server' = server
  BY DEF MyAgent, Authenticated
<1>3. me \in Humans
  BY <1>1, <1>2 DEF TableInv, AgentsHoldBridges, Token, Users
<1>4. CASE \E a \in OwnAgents(me, r) : Renew(t, r, a)
  <2>1. PICK a \in Agents : Renew(t, r, a) BY <1>4 DEF OwnAgents
  <2>2. TableInv' /\ NoneRevived
    <3>1. a \in Users BY DEF Users
    <3> QED BY <1>1, <1>2, <2>1, <3>1, RenewedTable
  <2>3. count' = count + 1 /\ Answered /\ role' = role /\ ownerOf' = ownerOf
    BY <2>1 DEF Renew, Mint
  <2> QED BY <1>2, <2>2, <2>3, RestAfterMint DEF AccessInv, TypeOK
<1>5. CASE \E a \in Agents : /\ Enrol(t, r, a, "agent")
                             /\ ownerOf' = [ownerOf EXCEPT ![a] = me]
  <2>1. PICK a \in Agents : /\ Enrol(t, r, a, "agent")
                            /\ ownerOf' = [ownerOf EXCEPT ![a] = me]
    BY <1>5
  <2>2. TableInv' /\ NoneRevived
    <3>1. a \in Users BY DEF Users
    <3> QED BY <1>1, <1>2, <2>1, <3>1, EnrolledTable
  <2>3. count' = count + 1 /\ Answered /\ role' = [role EXCEPT ![r][a] = "agent"]
    BY <2>1 DEF Enrol, Mint
  <2>4. role' \in [Rooms -> [Users -> Roles \union {NoOne}]]
    BY <2>3 DEF AccessInv, TypeOK, Roles
  <2>5. ownerOf' \in [Agents -> Humans \union {NoOne}]
    BY <1>3, <2>1 DEF AccessInv, TypeOK
  <2> QED BY <1>2, <2>2, <2>3, <2>4, <2>5, RestAfterMint
<1> QED BY <1>4, <1>5 DEF MyAgent

-----------------------------------------------------------------------------
LEMMA StutterKeeps ==
  ASSUME AccessInv, UNCHANGED vars
  PROVE  AccessInv' /\ NoneRevived
BY DEF vars, AccessInv, TypeOK, OneKey, Exists, AgentsHoldBridges, AllRecorded,
       NoneRevived

LEMMA NextKeeps ==
  ASSUME AccessInv, [Next]_vars
  PROVE  AccessInv' /\ NoneRevived
<1>1. CASE Boot BY <1>1, BootKeeps
<1>2. CASE PrintInvite
  BY <1>2, TableStays DEF PrintInvite, AccessInv, TypeOK
<1>3. CASE Crash BY <1>3, TableStays DEF Crash, AccessInv, TypeOK
<1>4. CASE Tick BY <1>4, TickKeeps
<1>5. ASSUME NEW t \in 1..count, Forget(t) PROVE AccessInv' /\ NoneRevived
  <2>1. UNCHANGED <<server, count, tokens, role, ownerOf>> /\ known' \subseteq known
    BY <1>5 DEF Forget
  <2> QED BY <2>1 DEF AccessInv, TypeOK, OneKey, Exists, AgentsHoldBridges,
                      AllRecorded, NoneRevived
<1>6. ASSUME NEW t \in 1..count, Login(t) PROVE AccessInv' /\ NoneRevived
  BY <1>6, LoginKeeps
<1>7. ASSUME NEW t \in 1..count, Request(t) PROVE AccessInv' /\ NoneRevived
  BY <1>7, RequestKeeps
<1>8. ASSUME NEW t \in 1..count, NEW r \in Rooms, CreateRoom(t, r)
      PROVE  AccessInv' /\ NoneRevived
  BY <1>8, CreateRoomKeeps
<1>9. ASSUME NEW t \in 1..count, NEW r \in Rooms, MyAgent(t, r)
      PROVE  AccessInv' /\ NoneRevived
  BY <1>9, MyAgentKeeps
<1>10. ASSUME NEW t \in 1..count, NEW r \in Rooms, NEW user \in Users,
              RotateToken(t, r, user)
       PROVE  AccessInv' /\ NoneRevived
  BY <1>10, RotateTokenKeeps
<1>11. ASSUME NEW t \in 1..count, NEW r \in Rooms, NEW user \in Users,
              NEW as \in GivenRoles, AddParticipant(t, r, user, as)
       PROVE  AccessInv' /\ NoneRevived
  BY <1>11, AddParticipantKeeps, AccessAssumption
<1> QED
  BY <1>1, <1>2, <1>3, <1>4, <1>5, <1>6, <1>7, <1>8, <1>9, <1>10, <1>11,
     StutterKeeps DEF Next

\* The invariant holds in every reachable state.
LEMMA AlwaysInv == Spec => []AccessInv
<1>1. AccessInv /\ [Next]_vars => AccessInv' BY NextKeeps
<1> QED BY <1>1, InvInit, PTL DEF Spec

\* Of a user's tokens only the newest can be used, and an agent's newest always
\* can: no login, rotation or recovery leaves a second key (insertToken and the
\* revokers, participants.ts, myAgent.ts).
THEOREM OneKeyEach == Spec => []OneKey
BY AlwaysInv, PTL DEF AccessInv

\* No request, rotation or tick makes a dead token usable again, whoever asks
\* and in whatever order (resolveApiToken, revokeHumanTokens).
THEOREM NoTokenRevives == Spec => DeadStaysDead
<1>1. AccessInv /\ [Next]_vars =>
        [\A t \in 1..count : ~Usable(tokens[t]) => ~Usable(tokens'[t])]_vars
  BY NextKeeps DEF NoneRevived
<1> QED BY <1>1, AlwaysInv, PTL DEF Spec, DeadStaysDead

LEMMA RecordedSuffices == AccessInv => UseKeepsAlive
<1>1. SUFFICES ASSUME AccessInv, NEW t \in 1..count,
                      tokens[t].quiet + Throttle <= TTL + 1
               PROVE  ~Expired(tokens[t])
  BY DEF UseKeepsAlive
<1>2. tokens[t] \in Token /\ Recorded(tokens[t])
  BY <1>1 DEF AccessInv, TypeOK, AllRecorded
<1> QED BY <1>1, <1>2, AccessAssumption DEF Token, Recorded, Expired

\* A session that is used again within the life span less the throttle never
\* expires, for every life span and throttle (resolveApiToken, touchToken).
THEOREM SlidingKeeps == Spec => []UseKeepsAlive
BY RecordedSuffices, AlwaysInv, PTL

-----------------------------------------------------------------------------
(* The server as the child of `npm run up`.                                *)

LEMMA KnownAreMinted == ASSUME AccessInv, NEW t \in known PROVE t \in 1..count
BY DEF AccessInv, TypeOK

LEMMA KnownRequestKeeps ==
  ASSUME AccessInv, NEW t, Request(t)
  PROVE  AccessInv' /\ NoneRevived
<1>1. t \in known BY DEF Request, Authenticated
<1> QED BY <1>1, KnownAreMinted, RequestKeeps

\* A second server beside an orphan mints a recovery invite before it finds the
\* port taken: the host it recovers was locked out, so his key is still one.
LEMMA PortTakenKeeps ==
  ASSUME AccessInv, PortTaken
  PROVE  AccessInv' /\ NoneRevived
<1> USE AccessAssumption
<1>1. TableInv BY DEF AccessInv, TypeOK, TableInv
<1>2. UNCHANGED <<server, role, ownerOf>> /\ server = "up" BY DEF PortTaken
<1>3. CASE NeedsRecovery
  <2>1. Mint(tokens, "invite", Host, NoOne) /\ known' = known \union {count + 1}
    BY <1>3 DEF PortTaken
  <2>2. Host \in Users /\ Host \notin Agents BY DEF Users
  <2>3. \A k \in 1..count : tokens[k].user = Host => ~Usable(tokens[k])
    BY <1>3 DEF NeedsRecovery, HostLockedOut
  <2>4. TableInv' /\ NoneRevived
    BY <1>1, <2>1, <2>2, <2>3, PresentWorn, MintedTable
  <2>5. count \in Nat /\ count' = count + 1 BY <1>1, <2>1 DEF TableInv, Mint
  <2>6. known' \subseteq 1..count' BY <2>1, <2>5 DEF AccessInv, TypeOK
  <2> QED BY <1>2, <2>4, <2>5, <2>6 DEF TableInv, AccessInv, TypeOK
<1>4. CASE ~NeedsRecovery
  <2>1. UNCHANGED <<count, tokens, known>> BY <1>4 DEF PortTaken
  <2> QED BY <1>2, <2>1, TableStays DEF AccessInv, TypeOK
<1> QED BY <1>3, <1>4

LEMMA UpKeeps ==
  ASSUME AccessInv, [UpNext]_<<vars, setup>>
  PROVE  AccessInv' /\ NoneRevived
<1>1. ASSUME UNCHANGED vars PROVE AccessInv' /\ NoneRevived BY <1>1, StutterKeeps
<1>2. ASSUME UNCHANGED <<count, tokens, role, ownerOf, known>>, server' = "down"
      PROVE  AccessInv' /\ NoneRevived
  BY <1>2, TableStays DEF AccessInv, TypeOK
<1>3. CASE ServerBoots BY <1>3, BootKeeps DEF ServerBoots
<1>4. CASE ServerPrints
  <2>1. count \in 1..count BY <1>4, AccessAssumption DEF ServerPrints, AccessInv, TypeOK
  <2>2. known \subseteq 1..count BY DEF AccessInv, TypeOK
  <2>3. known' \in {known, known \union {count}} BY <1>4 DEF ServerPrints
  <2>4. known' \subseteq 1..count BY <2>1, <2>2, <2>3
  <2> QED BY <1>4, <2>4, TableStays DEF ServerPrints
<1>5. CASE GiveUp \/ StopOrphan \/ Break \/ ServerDies
  BY <1>2, <1>5 DEF GiveUp, StopOrphan, Break, ServerDies, Exits
<1>6. CASE Listening \/ Gone \/ NoInvite \/ Save \/ Denied \/ Ready \/ Kill \/ LoseFile
  BY <1>1, <1>6 DEF Listening, Gone, NoInvite, Save, Denied, Ready, Kill, LoseFile
<1>7. CASE Reuse BY <1>7, KnownRequestKeeps DEF Reuse
<1>8. CASE NoReuse BY <1>1, <1>8, KnownRequestKeeps DEF NoReuse
<1>9. CASE MakeRoom BY <1>9, KnownRequestKeeps DEF MakeRoom
<1>10. CASE LogIn
  <2>1. Login(invite) BY <1>10 DEF LogIn
  <2>2. invite \in 1..count BY <2>1, KnownAreMinted DEF Login
  <2> QED BY <2>1, <2>2, LoginKeeps
<1>11. ASSUME NEW given, Start(given) PROVE AccessInv' /\ NoneRevived
  BY <1>1, <1>11 DEF Start
<1>12. CASE PortTaken BY <1>12, PortTakenKeeps
<1>13. CASE TimePasses BY <1>13, TickKeeps DEF TimePasses
<1>14. CASE UNCHANGED <<vars, setup>> BY <1>1, <1>14
<1> QED
  BY <1>3, <1>4, <1>5, <1>6, <1>7, <1>8, <1>9, <1>10, <1>11, <1>12, <1>13, <1>14
  DEF UpNext, UpStep

\* However often `up` is started, broken off or killed, also beside an orphan of
\* its last run, it leaves the host one key, revives no token and slides the
\* sessions it works with (host-setup.mjs runUp).
THEOREM UpLeavesOneKey == UpSpec => []OneKey /\ DeadStaysDead /\ []UseKeepsAlive
<1>1. AccessInv /\ [UpNext]_<<vars, setup>> => AccessInv' BY UpKeeps
<1>2. AccessInv /\ [UpNext]_<<vars, setup>> =>
        [\A t \in 1..count : ~Usable(tokens[t]) => ~Usable(tokens'[t])]_vars
  BY UpKeeps DEF NoneRevived
<1>3. AccessInv => OneKey BY DEF AccessInv
<1> QED
  BY <1>1, <1>2, <1>3, InvInit, RecordedSuffices, PTL DEF UpSpec, DeadStaysDead

-----------------------------------------------------------------------------
(* The server while a token is handed to a machine.                        *)

LEMMA ServeKeeps ==
  ASSUME AccessInv, NEW b \in Buttons, Serve(b)
  PROVE  AccessInv' /\ NoneRevived
<1>1. PICK t \in HostSessions, r \in Rooms : Handled(b, t, r) BY DEF Serve
<1>2. t \in 1..count BY KnownAreMinted DEF HostSessions
<1>3. CASE MyAgent(t, r) BY <1>2, <1>3, MyAgentKeeps
<1>4. ASSUME NEW a \in Agents, AddParticipant(t, r, a, "agent")
      PROVE  AccessInv' /\ NoneRevived
  BY <1>2, <1>4, AddParticipantKeeps DEF Roles, Users
<1>5. ASSUME NEW a \in Agents, RotateToken(t, r, a) PROVE AccessInv' /\ NoneRevived
  BY <1>2, <1>5, RotateTokenKeeps DEF Users
<1> QED BY <1>1, <1>3, <1>4, <1>5 DEF Handled

LEMMA PreludeKeeps == ASSUME AccessInv, Prelude PROVE AccessInv' /\ NoneRevived
<1>1. CASE Boot BY <1>1, BootKeeps
<1>2. CASE PrintInvite BY <1>2, TableStays DEF PrintInvite, AccessInv, TypeOK
<1>3. ASSUME NEW t \in known, Login(t) PROVE AccessInv' /\ NoneRevived
  BY <1>3, KnownAreMinted, LoginKeeps
<1>4. ASSUME NEW t \in known, NEW r \in Rooms, CreateRoom(t, r)
      PROVE  AccessInv' /\ NoneRevived
  BY <1>4, KnownAreMinted, CreateRoomKeeps
<1> QED BY <1>1, <1>2, <1>3, <1>4 DEF Prelude

LEMMA HandKeeps ==
  ASSUME AccessInv, [HandNext]_<<vars, handing>>
  PROVE  AccessInv' /\ NoneRevived
<1>1. ASSUME UNCHANGED vars PROVE AccessInv' /\ NoneRevived BY <1>1, StutterKeeps
<1>2. CASE Prelude BY <1>2, PreludeKeeps
<1>3. ASSUME NEW b \in Buttons, Serve(b) PROVE AccessInv' /\ NoneRevived
  BY <1>3, ServeKeeps
<1>4. ASSUME NEW b \in Buttons, Fails(b) \/ Answer(b) \/ Press(b)
      PROVE  AccessInv' /\ NoneRevived
  BY <1>1, <1>4 DEF Fails, Answer, Press
<1>5. ASSUME NEW w \in Modals, Copy(w) PROVE AccessInv' /\ NoneRevived
  BY <1>1, <1>5 DEF Copy
<1>6. CASE WriteConfig \/ Register \/ CheckFails \/ Join \/ Dismiss \/ Abandon \/ Elsewhere
  BY <1>1, <1>6 DEF WriteConfig, Register, CheckFails, Join, Dismiss, Abandon, Elsewhere
<1>7. CASE Paste \/ Export \/ RegisterByHand \/ Check
  BY <1>1, <1>7 DEF Paste, Export, RegisterByHand, Check, AtHand
<1>8. CASE Me BY <1>8, KnownRequestKeeps DEF Me
<1>9. CASE AskRoom BY <1>9, KnownRequestKeeps DEF AskRoom
<1>10. CASE ServerFails
  BY <1>10, TableStays DEF ServerFails, Crash, AccessInv, TypeOK
<1>11. CASE UNCHANGED <<vars, handing>> BY <1>1, <1>11
<1> QED
  BY <1>2, <1>3, <1>4, <1>5, <1>6, <1>7, <1>8, <1>9, <1>10, <1>11
  DEF HandNext, HandStep, Buttons

\* Whichever buttons of the page overlap, and whatever answers, files and runs
\* of `join` are lost, an agent has one key that opens, and the keys copied
\* before it stay dead (myAgent.ts, participants.ts, join.ts).
THEOREM HandOffLeavesOneKey == HandSpec => []OneKey /\ DeadStaysDead /\ []UseKeepsAlive
<1>1. AccessInv /\ [HandNext]_<<vars, handing>> => AccessInv' BY HandKeeps
<1>2. AccessInv /\ [HandNext]_<<vars, handing>> =>
        [\A t \in 1..count : ~Usable(tokens[t]) => ~Usable(tokens'[t])]_vars
  BY HandKeeps DEF NoneRevived
<1>3. AccessInv => OneKey BY DEF AccessInv
<1> QED
  BY <1>1, <1>2, <1>3, InvInit, RecordedSuffices, PTL DEF HandSpec, DeadStaysDead
=============================================================================
