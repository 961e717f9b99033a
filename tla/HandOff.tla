------------------------------ MODULE HandOff -------------------------------
(***************************************************************************)
(* A bridge token on its way from the owner's page into a machine: the     *)
(* "Add my agent" panel and the room's drawer, which show a raw token      *)
(* once; the person who copies it; `clausroom-bridge join` and `check`,    *)
(* the configuration file, the shell and the MCP registration.             *)
(*                                                                         *)
(* The server and its tokens are those of Access.  The person believes     *)
(* what page and terminal say and does what they tell.  A slip is whatever *)
(* goes wrong beside: a lost answer, a kill, a "no", another `join`.       *)
(***************************************************************************)
EXTENDS Access, TLC

CONSTANT MaxSlips  \* bound: slips

ASSUME HandOffAssumption == MaxSlips \in Nat

Buttons == {"connect", "add", "rotate"}
Modals == {"panel", "drawer"}

VARIABLES
  page,     \* asked: the call of each button; shows: the token in each modal
  machine,  \* run: the step of `join` or `check`, using: its token, read: the room
            \* it loaded; config: the room of bridge.toml; shell: the exported
            \* token; claude: the registered one
  person,   \* held: the token copied last, how: as a join command or raw;
            \* byHand: told to register it; checked: told that all checks passed
  slips     \* slips so far

handing == <<page, machine, person, slips>>

NotAsked == [at |-> "no", token |-> NoToken]

HandInit ==
  /\ page = [asked |-> [b \in Buttons |-> NotAsked], shows |-> [w \in Modals |-> NoToken]]
  /\ machine \in [run : {"off"}, using : {NoToken}, read : {"absent"},
                  config : {"absent", "elsewhere"}, shell : {NoToken}, claude : {NoToken}]
  /\ person = [held |-> NoToken, how |-> "blob", byHand |-> FALSE, checked |-> FALSE]
  /\ slips = 0

Slip == slips < MaxSlips /\ slips' = slips + 1
NoSlip == UNCHANGED slips

RoomMade == \E r \in Rooms : role[r][Host] = "owner"
HostSessions == {t \in known : tokens[t].user = Host /\ tokens[t].kind = "session"}

\* The host starts the server, logs in and makes the room.
Prelude ==
  /\ Boot \/ PrintInvite
     \/ \E t \in known : (Login(t) /\ count' \in known')
                         \/ (~RoomMade /\ \E r \in Rooms : CreateRoom(t, r))
  /\ UNCHANGED handing

ServerFails ==
  /\ RoomMade /\ Slip /\ Crash
  /\ page' = [page EXCEPT !.asked =
       [b \in Buttons |-> IF @[b].at = "sent" THEN [at |-> "answered", token |-> NoToken] ELSE @[b]]]
  /\ UNCHANGED <<machine, person>>

-----------------------------------------------------------------------------
(* The page.                                                               *)

ModalOf(b) == IF b = "connect" THEN "panel" ELSE "drawer"
AllQuiet == \A b \in Buttons : page.asked[b] = NotAsked
AllClosed == \A w \in Modals : page.shows[w] = NoToken

\* The person has been told that all is well.
Done == AllQuiet /\ person.checked /\ ~person.byHand

\* The model has no token left to try.
OutOfTokens == count = MaxTokens /\ AllQuiet /\ AllClosed /\ person.held = NoToken

Unsure == person' = [person EXCEPT !.checked = FALSE]

\* Each button is disabled while its own call is out; the three do not wait for
\* one another.  Pressing more than is needed is a slip.
Press(b) ==
  /\ RoomMade /\ page.asked[b] = NotAsked
  /\ count < MaxTokens \/ OutOfTokens
  /\ b = "rotate" => \E a \in Agents : Exists(a)
  /\ b = "add" => \E a \in Agents : ~Exists(a)
  /\ page' = [page EXCEPT !.asked[b].at = "sent"]
  /\ IF b = "connect" /\ person.held = NoToken /\ AllQuiet /\ AllClosed /\ machine.run = "off"
     THEN NoSlip ELSE Slip
  /\ Unsure /\ UNCHANGED <<vars, machine>>

Handled(b, t, r) ==
  \/ b = "connect" /\ MyAgent(t, r)
  \/ b = "add" /\ \E a \in Agents : AddParticipant(t, r, a, "agent")
  \/ b = "rotate" /\ \E a \in Agents : RotateToken(t, r, a)

Serve(b) ==
  /\ page.asked[b].at = "sent"
  /\ \E t \in HostSessions, r \in Rooms : Handled(b, t, r)
  /\ \/ /\ count' \in known' /\ NoSlip
        /\ page' = [page EXCEPT !.asked[b] = [at |-> "answered", token |-> count']]
     \/ /\ count' \notin known' /\ Slip
        /\ page' = [page EXCEPT !.asked[b].at = "answered"]
  /\ UNCHANGED <<machine, person>>

\* The request gets nowhere; free of charge when the model has no more to give.
Fails(b) ==
  /\ page.asked[b].at = "sent"
  /\ page' = [page EXCEPT !.asked[b].at = "answered"]
  /\ IF \/ server # "up" \/ count = MaxTokens
        \/ b = "add" /\ \A a \in Agents : Exists(a)
     THEN NoSlip ELSE Slip
  /\ UNCHANGED <<vars, machine, person>>

\* The modal opens, in the place of one that is open; or the error is shown.
Answer(b) ==
  /\ page.asked[b].at = "answered"
  /\ page' = [asked |-> [page.asked EXCEPT ![b] = NotAsked],
              shows |-> IF page.asked[b].token = NoToken THEN page.shows
                        ELSE [page.shows EXCEPT ![ModalOf(b)] = page.asked[b].token]]
  /\ Unsure /\ NoSlip /\ UNCHANGED <<vars, machine>>

Copy(w) ==
  /\ page.shows[w] # NoToken /\ machine.run = "off"
  /\ page' = [page EXCEPT !.shows[w] = NoToken]
  /\ person' = [held |-> page.shows[w], how |-> IF w = "panel" THEN "blob" ELSE "raw",
                byHand |-> FALSE, checked |-> FALSE]
  /\ NoSlip /\ UNCHANGED <<vars, machine>>

\* A click beside the modal, or the page is left: what it showed is gone.
Dismiss ==
  /\ ~AllClosed /\ \A b \in Buttons : page.asked[b].at # "sent"
  /\ page' = [page EXCEPT !.shows = [w \in Modals |-> NoToken]]
  /\ Slip /\ UNCHANGED <<vars, machine, person>>

-----------------------------------------------------------------------------
(* The terminal.                                                           *)

Ends == machine' = [machine EXCEPT !.run = "off", !.using = NoToken, !.read = "absent"]

\* runJoin: the blob is decoded; the project is asked for, and whether an
\* existing file may be overwritten, which --yes answers.
Join ==
  /\ machine.run = "off" /\ person.held # NoToken /\ person.how = "blob"
  /\ person.checked => Done
  /\ machine' = [machine EXCEPT !.run = "project", !.using = person.held]
  /\ person' = [person EXCEPT !.byHand = FALSE, !.checked = FALSE]
  /\ NoSlip /\ UNCHANGED <<vars, page>>

WriteConfig ==
  /\ machine.run = "project"
  /\ machine' = [machine EXCEPT !.run = "register", !.config = tokens[machine.using].room]
  /\ NoSlip /\ UNCHANGED <<vars, page, person>>

\* registerClaude: done, or left to the person; and runCheck reads the file.
Register ==
  /\ machine.run = "register"
  /\ \E byHand \in BOOLEAN :
       /\ person' = [person EXCEPT !.byHand = byHand]
       /\ machine' = [machine EXCEPT !.run = "me", !.read = machine.config,
                        !.claude = IF byHand THEN @ ELSE machine.using]
  /\ NoSlip /\ UNCHANGED <<vars, page>>

\* A "no", or not a terminal and no --yes; or the process is killed.
Abandon ==
  /\ machine.run # "off" /\ Ends
  /\ Slip /\ UNCHANGED <<vars, page, person>>

-----------------------------------------------------------------------------
(* runCheck, at the end of `join` or by itself.                            *)

\* GET /healthz and /me; another server may know the caller or not.
Me ==
  /\ machine.run = "me" /\ Request(machine.using)
  /\ machine' = [machine EXCEPT !.run = "room"]
  /\ NoSlip /\ UNCHANGED <<page, person>>

\* Mutant: any room will do.
Opens_Any == machine.read # "absent"

\* GET /rooms/:id, by the room of the file.
Opens == machine.read \in Rooms /\ Guarded(machine.using, machine.read)

AskRoom ==
  /\ machine.run = "room" /\ Opens /\ Request(machine.using) /\ Ends
  /\ person' = [person EXCEPT !.checked = TRUE]
  /\ NoSlip /\ UNCHANGED page

\* The check fails, and the person throws the token away.
CheckFails ==
  /\ machine.run \in {"me", "room"}
  /\ IF ~Authenticated(machine.using) \/ ~Opens THEN NoSlip ELSE Slip
  /\ Ends
  /\ person' = [person EXCEPT !.held = NoToken, !.how = "blob", !.byHand = FALSE]
  /\ UNCHANGED <<vars, page>>

-----------------------------------------------------------------------------
(* What the person does by hand, from the snippets.                        *)

AtHand == machine.run = "off" /\ person.held # NoToken /\ NoSlip /\ UNCHANGED <<vars, page>>

\* A raw token comes with a bridge.toml to save.
Paste ==
  /\ AtHand /\ person.how = "raw" /\ ~person.byHand /\ machine.claude # person.held
  /\ machine' = [machine EXCEPT !.config = tokens[person.held].room]
  /\ person' = [person EXCEPT !.byHand = TRUE]

Export ==
  /\ AtHand /\ person.byHand /\ machine.shell # person.held
  /\ machine' = [machine EXCEPT !.shell = person.held]
  /\ UNCHANGED person

\* `claude mcp add` with the token of the shell.
RegisterByHand ==
  /\ AtHand /\ person.byHand /\ machine.shell = person.held
  /\ machine' = [machine EXCEPT !.claude = machine.shell]
  /\ person' = [person EXCEPT !.byHand = FALSE]

\* `clausroom-bridge check`, in that shell.
Check ==
  /\ AtHand /\ person.how = "raw" /\ ~person.byHand
  /\ machine.claude = person.held /\ (person.checked => Done)
  /\ machine' = [machine EXCEPT !.run = "me", !.using = machine.shell, !.read = machine.config]
  /\ UNCHANGED person

\* A `join` of another room or an edit gets in between, until the check has read
\* the file.
Elsewhere ==
  /\ ~person.checked /\ machine.run \notin {"me", "room"}
  /\ machine.config # "elsewhere" /\ Slip
  /\ machine' = [machine EXCEPT !.config = "elsewhere"]
  /\ UNCHANGED <<vars, page, person>>

\* What goes on by itself, and what a person does who is not done.
HandStep ==
  \/ Prelude
  \/ \E b \in Buttons : Serve(b) \/ Fails(b) \/ Answer(b)
  \/ \E w \in Modals : Copy(w)
  \/ WriteConfig \/ Register \/ Me \/ AskRoom \/ CheckFails
  \/ Paste \/ Export \/ RegisterByHand
  \/ ~person.checked /\ (Join \/ Check)
  \/ NoSlip /\ Press("connect")

HandNext ==
  \/ HandStep \/ ServerFails \/ Dismiss \/ Abandon \/ Join \/ Check \/ Elsewhere
  \/ \E b \in Buttons : Press(b)

HandSpec == Init /\ HandInit /\ [][HandNext]_<<vars, handing>>

\* The registered bridge gets into the room of its configuration.
Attached ==
  /\ machine.claude # NoToken /\ Resolves(machine.claude)
  /\ machine.config \in Rooms /\ Guarded(machine.claude, machine.config)
=============================================================================
