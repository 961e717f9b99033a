# ClausRoom: TLA+ models, checks and proofs

ClausRoom is a chat room for humans and their agents. One Node process (`apps/server`)
keeps rooms, messages, artifacts, approvals and tokens in SQLite and tells the room's
WebSockets what happens. Each agent runs behind a bridge (`apps/bridge`) on its human's
machine; humans use a web client (`apps/web`); `npm run up` (`scripts/host-setup.mjs`)
starts a server and makes a room on it. This directory models the logic of that program
in TLA+, checks it with TLC on small instances, and proves with TLAPS, for every value of
the constants, all that the passing runs check but liveness.

Paths below are relative to `src/`.

## Inventory

| Component | State | Operations | Hard behaviour | What makes it correct |
|---|---|---|---|---|
| Uploads, approvals, retention (`apps/server/src/routes/artifacts.ts`, `approvals.ts`, `retention.ts`) | `approvals`, `artifacts`, files on disk, `.tmp` files, requests in flight | upload, ask, list, answer, sweep, boot | two awaits inside an upload; lazy expiry by any reader; several steps on disk and in the database; crashes between them | no guarded file without a yes for it; an answer is final and in time; a quota that holds; no row without file, no leaked file; expired bytes come back |
| Message log and agent gates (`routes/messages.ts`, `messageService.ts`, `policy.ts`, `routes/pause.ts`, `summary.ts`) | `messages`, last stamp and rate windows in memory, pause flags, turn limit | post, upload message, notice, pause, page | clock set back or of coarse grain, restart, settings changed during a run of agents | the order of the table is the order of acceptance; a cursor skips nothing; agents cannot run away; the rate limit holds |
| Rooms and settings (`routes/rooms.ts`) | `rooms` | create, patch | a patch during an upload; its answer races its own broadcast | decisions use the settings in force; pages agree with the store |
| Store (`db.ts`) | SQLite | synchronous queries, transactions | crash around a transaction | all or nothing |
| Tokens and bootstrap (`auth.ts`, `routes/auth.ts`, `participants.ts`, `myAgent.ts`, `index.ts`) | `tokens`, `users`, `participants` | log in, add, rotate, sliding expiry, bootstrap, recovery | throttled renewal; crash between commit and print; lost answers | one usable key per user; the dead stay dead; use keeps alive; an admin can get back in |
| WebSocket hub (`ws.ts`) | sockets per room, activity timers | register, unregister, frames, heartbeat, broadcast | sockets of one user closing in any order, lost frames, stale timers | presence is the set of users with a socket; working implies online; observers converge |
| Auto-responder (`apps/bridge/src/auto.ts`) | cursor, context, run in flight | prime, fetch, answer, post with retry, wait for a human, stop | cursor before answer, retry of a post whose answer was lost, wait at the turn limit | no question answered again, no endless retries, wakes when a human speaks |
| Activity tracker (`activity.ts`) | calls in flight, last report, timers | begin, end, refresh | debounce against reconnect | the hub's view follows the calls in flight |
| Engines (`engines.ts`) | child process, timers | run, time out, abort | exit, timeout and SIGKILL in any order; helpers that outlive the child | settles once, leaves no child |
| MCP tools and cursor file (`mcp.ts`, `state.ts`) | calls under way, the read cursor, files | wait, read, say, upload, ask, download | a message between snapshot and subscription; configuration and file change during a call; overlapping downloads | a wait does not miss a message; nothing passes the policy; a saved file is whole |
| Local policy (`apps/bridge/src/policy.ts`) | none | path, size, secret and approval rules, in an order | awaits between its steps | one configuration decides |
| Config watch (`reload.ts`, `config.ts`) | current config, watcher, timers | reload, re-watch, stop | atomic renames, events lost between two watches | the last valid file is loaded in the end |
| Client (`client.ts`) | socket, waiters, back-off | request, connect, wait | reconnect gaps | waiters settle once |
| Start and join (`index.ts`, `join.ts`) | `bridge.toml`, the environment, the MCP registration | join, check | a run broken off between file and registration; a token rotated on its way | told that all checks passed, the person has a bridge that gets in |
| Web room state (`apps/web/src/useRoomState.ts`, `ws.ts`) | messages, approvals, room, last message | load, catch up, apply frame | pages and frames in any order, failed catch-up | everything is shown once, in order; nothing is downgraded |
| Web UI (`App.tsx`, `Login.tsx`, `JoinView.tsx`, `RoomSettings.tsx`, `OwnerDrawer.tsx`, ...) | session token, views, calls in flight, optimistic values, one-time modals | boot, sign in, join by link, sign out, apply a setting, mint a token | tabs that share a browser's storage; late 401s; optimistic values | a session that was promised stays; settings shown are the room's |
| Host set-up (`scripts/host-setup.mjs`) | child process, session file | up | a break at any step, a repeated run | `up` comes up again |
| Protocol schemas, environment, export, static files, smoke test, deployment | little or none | parsing, I/O | none of interest here | not modelled |

How they interact: web client and bridge call the server's REST routes; a route changes
the store and then broadcasts frames through the hub; frames to a closed socket are lost,
so a client pages `GET /messages?after=` on every `hello`. The bridge tells the hub over
its socket whether the agent is working. Server and bridge hold part of their state in
memory only, and lose it in a crash.

Node runs one handler at a time, and the store is synchronous, so a handler is atomic
from one `await` to the next. On the server only the upload awaits anything on its way to
a state change; the bridge and the web client await everywhere.

`PROJECT.json` lists every component with its status, and under `hazards` what in this
code is hard to test, each with the properties that cover it. One hazard has no property:
two bridge processes that share one cursor file (`state.ts:82`).

## Modules

| Module | Models | Uses |
|---|---|---|
| `Uploads` | uploads, approvals, quota, retention, crashes of one room | |
| `ApprovalLedger` | what an approval promises, abstractly | implemented by `Uploads` |
| `MessageLog` | messages, stamps, turn limit, rate limit, pauses, cursors of one room | |
| `Hub` | sockets, presence, activity flags, heartbeat of one room, and what each client is shown | |
| `Activity` | the activity trackers and room sockets of bridges | extends `Hub` |
| `EngineRun` | one run of the engine: child, helper, timers, pipes | |
| `Responder` | the auto-responder | extends `EngineRun` |
| `Answering` | what an auto-responder promises, abstractly | implemented by `Responder` |
| `Access` | tokens, sessions, invites, roles, bootstrap, recovery | |
| `HostSetup` | `npm run up` over a server | extends `Access` |
| `HandOff` | a bridge token from the page to a machine: panel, drawer, person, `join`, `check`, shell, MCP registration | extends `Access` |
| `RoomFeed` | what the server offers one client: messages, approvals, a socket | |
| `WebRoom` | messages and approvals of a room on a web page | extends `RoomFeed` |
| `Inbox` | the waiting and reading tools of the MCP bridge | extends `RoomFeed` |
| `ConfigWatch` | `bridge.toml`, its watch, the configuration in force | |
| `Outbox` | the saying and uploading tools, the policy, approvals as the bridge asks for them | extends `ConfigWatch` |
| `Downloads` | overlapping downloads to one name | |
| `RoomPanel` | a page's room with its settings, and its own changes of them | |
| `SignIn` | the tabs of a browser between sign-in, a join link and the rooms | |
| `MCUploads`, `MCActivity`, `MCAccess`, `MCReaders` | instances for TLC; the last three also put components side by side | |
| `UploadsProofs` | theorems: types, the approval gate | extends `Uploads` |
| `UploadsStoreProofs` | theorems: files, quota, the ledger | extends `UploadsProofs` |
| `MessageLogProofs` | theorems: order, cursors, turn and rate limits, types | extends `MessageLog` |
| `HubProofs` | theorems: presence, pills; the trackers over the hub | extends `Activity` |
| `AccessProofs` | theorems: keys, under the server alone, under `up`, under the hand-off | extends `HostSetup`, `HandOff` |
| `ResponderProofs` | theorems: the promise, repeats, what a kill leaves | extends `Responder` |
| `LocalProofs` | theorems: configuration, policy, downloads, sessions | extends `Outbox`, `Downloads`, `SignIn` |
| `FeedProofs` | theorems: pages, panels, the waiting tool | extends `WebRoom`, `RoomPanel`, `Inbox` |

### Uploads

An upload has three steps, cut where `POST /artifacts` awaits. `BeginUpload` is
`roomGuard` and `requireCanUpload`: the room row is kept in the request. `ReadApproval`
runs when multer has the body: the approval named by the request is looked up, lazily
expired (and the flip written back), and kept in `request[r].seen`. Then the content is
hashed, and one of `RefuseUnapproved` (403), `RefuseOverQuota` (413, with the file already
moved and removed again) or `CommitUpload` ends it, all three on the rows read before.
`FailUpload` stands for everything that can go wrong earlier. The unlink of a file or a
temporary file may fail, which the code ignores: `stuck` remembers such files.

`CreateApproval`, `ListApprovals` and `RespondApproval` are the three approval routes.
`Sweep` is the timer's pass, `Boot` the one at start-up. `Crash`, `CrashInUpload` (between
the rename and the commit) and `CrashInSweep` (between an unlink and its mark) are deaths
of the process. An artifact has the identifier of the upload that made it. Contents are
model values with a size, and a live artifact holds as many bytes as its file has
(`HeldBytes`), which `ActiveBytes` counts over all of them; that a name looks secret or
like an archive is membership of `GuardedNames`. Not distinguished: who may see what, names, MIME types, and downloads,
which change nothing here (see `Downloads` for the bridge's side).

### MessageLog

Every handler is one action. The table is kept in its total order `(created_at, id)`;
because ids are random, a row that ties with others may land anywhere among them.
`MoveClock` sets the wall clock forward or back at any time; `Restart` forgets
`lastMonotonicMs` and the rate windows. `ClockTrusted` says whether a fresh process may
take its clock to be past every stored stamp: the code never checks it. The limiter's
window is an array of times in the code; `accepted` is the set of its entries, each with
the number of its message, since nothing but their count and their age is ever looked at. The variable
`steady` is not in the code: it marks the messages accepted before the last restart or
the last setting back of the clock, for the statement of `RateHolds`. Posts refused
by the gates for agents change nothing and are no action; a post refused by the rate
limit prunes the window and is one. Recipients, mentions and text are left out.

### Hub and Activity

`Register` and `Unregister` are what `ws.ts` does when a socket opens and closes, `Status`
a client's status frame, `AutoIdle` the activity timer, `PingAll` and `Pong` the heartbeat,
`Close` the shutdown (a restart begins with the same empty maps). `terminate()` only
dooms a connection: it stays registered until its close event, and `broadcast` passes it
over. `Cut` fails a link silently. `view` is what the frames sent on a socket amount to
in `useRoomState.ts` (hello sets the presence and clears the pills); TCP keeps frames in
order, so this is what the client shows once they arrive. `before` is not in the code: it
holds the agents at work since before a socket's hello, which the contract lets that
client miss.

`Activity` adds the bridges: `Connect`, `Deliver`, `Drop`, `Heartbeat`, `AnswerPing`,
`RunOut` and `RestartHub` contain the hub's actions; `Begin`, `End`, `ReportIdle`,
`Refresh`, `Greet` are `ActivityTracker`; `Lost`, `Quit`, `Fail`, `RestartHub` are what
befalls a `RoomSocket`. Frames from bridge to hub are queues (`uplink`); the hello from
hub to bridge is under way until `Greet`. Two processes that serve one agent share its
flag in the hub.

Time is not counted; the lengths the code chooses are guards. A refresh comes after the
frame of the last one (30 s apart); the hub's idle timer (60 s) does not run out for a
connected bridge with a call in flight, which refreshes twice in it; a ping is answered
before the next (30 s); a socket lost during the debounce (500 ms) is not replaced
within it (back-off of at least 1 s). A call that begins and ends while there is no
connection starts its debounce at any time before the connection, and that guard does not
concern it. The fatal close codes, after which a bridge gives up, are in `RoomFeed`
(`Deny`), not here.

### EngineRun and Responder

`EngineRun` races the ways a child ends (`ChildExits`, `TimeLimit`, `OutputCap`, an abort)
with the ways its promise settles (`PipesClose`, `FlushEnds`) and the SIGKILL that was
scheduled (`HardKill`). Its three short timers are counted in ticks, so that which comes
first is decided as in the code. A descendant of the child that holds its pipes is
`helper`.

`Responder` is the loop of `auto.ts` as a program counter over `fetch`, `idle`, `next`,
`check`, `engine`, `post`, `human`: the cursor is saved at `NextMessage`, before the
engine runs; `PostAccepted`, `PostUnanswered` (accepted, the answer lost), `PostUnreached`
and `PostRefused` are the outcomes of a post; at a turn limit or a pause it waits in
`human`, until a frame (`Deliver`) or the poll (`PollForHuman`) shows a human's message.
`Stop`, `Exit` and `Crash` end the process. What it does not show: processes left over
from an earlier run are dropped when the bridge ends or a new run starts; the check of the
configuration takes less than a tick; a helper that ignores SIGTERM survives a graceful
shutdown; after the human resumes agents without writing it goes on waiting; the reset of
a cursor the server does not know (404) leads to the same states as an empty one.

### Access

A token is a record of kind, user, room, and two ages: since it was used (`quiet`) and
since that was last recorded (`idle`), which the throttle keeps apart; `Expired` looks at
the recorded one. `Login` spends an invite and makes a session in one step; every one of
`Login`, `AddParticipant`, `RotateToken` and `MyAgent` may lose its answer, in which case
the new token is not in `known`. `Boot` creates the host's invite, or a recovery invite if
he has no live session and no unspent invite; `PrintInvite` is a step of its own, and a
`Crash` may come between. The clock only goes forward; an agent belongs to one room;
sockets opened with a token that is rotated later stay open in the code and are not shown.

### HostSetup

`Start` gives `up` an invite or none; the server is its child (`ServerBoots`,
`ServerPrints`, `Listening`); `Reuse` tries the saved session, `LogIn` the invite, `Save`
writes the file, `MakeRoom` makes the four calls. A `Mishap` is anything unwanted: `Break`
(a call fails, Ctrl-C), `Kill`, `ServerDies`, `LoseFile`, a wrong invite on the command
line. After a kill the server goes on as an orphan, holding the port, until the host stops
it. The room's rows are counted and not kept; a run is shorter than a tick of the clock
unless time is the mishap; a server that is stopping (at most 3 s) counts as stopped.

### HandOff

The page has three buttons that mint a bridge token: the panel's (`connect`), the drawer's
"Add" and "Regenerate" (`add`, `rotate`). Each is disabled only during its own call, so
answers come in any order, and each modal shows one token, once. The person copies it:
from the panel as a `join` command, from the drawer as a token with snippets. `Join`,
`WriteConfig`, `Register` are `runJoin` cut where it asks or spawns; `Me` and `AskRoom`
are `runCheck`. `Paste`, `Export`, `RegisterByHand`, `Check` are what the snippets tell a
person to do. A `Slip` is what goes wrong beside: a lost answer, a dismissed modal, a
second press, a kill, another `join` that overwrites the file. The file changes only until
the check has read it; `claude mcp add` may succeed or be left to the person; the person
follows the terminal, so he exports before he registers; a page is not left with a request
in flight; `--print` changes nothing and is left out.

### RoomFeed, WebRoom, Inbox

`RoomFeed` numbers the messages in the order of `GET /messages`, and loses the frames
under way when the link fails. `WebRoom` keeps each GET apart from its answer: the server
answers (`Answer`) with the state of that moment, and the page takes it later, in any
order with frames. `excused` and `stale` are not in the code: they hold what a failed GET
or the page's own post may have hidden, for the statement of what does hold. Approvals
that lapse are not broadcast; the card shows `effectiveStatus`.

`Inbox` is `room_wait_for_new_messages`: a snapshot, then listening, with a catch-up on
each hello. It is deaf while a REST answer is under way (`mcp.ts:497`, `518`), and a
backlog of more than one page (500) is not seen; `unheard` excuses both by name.

### ConfigWatch, Outbox, Downloads

A watch is on an inode. `Edit` writes in place, removes, or replaces the file; `Notified`,
`DebounceOver`, `Reload` are the reaction; `WatchFails` and `RetryOver` the path by
`retryRewatch`. The first load and the first watch are one step.

`Outbox` has `room_send_message` and its kin, and `room_upload_artifact` through
`checkUploadPolicy` (stat, scan, hash, approval) and the request. Each call keeps the
configuration it started with; between its steps the configuration may be reloaded and
the local file rewritten. So a call may go on by an outdated configuration, against
`reload.ts:28-30` (see the divergences below); `PassesPolicy` is that it goes on by one. The file's content is a model value, and what a configuration
says of it a set. A file rewritten during the check is excused, for no check can see it;
the server's own gate is in `Uploads`. The run has one such call at a time, which meets
reloads and rewrites between its steps; calls share nothing but the configuration.

`Downloads`: each call opens the name, writes part by part, compares the hash, and on any
failure removes the name. An inode that was removed lives on for its writers. A process
that dies in a download leaves a part of a file behind, and a failed download removes a
name that an earlier one has reported as saved (`mcp.ts:713`); the first is not modelled,
the second is not excluded by `DownloadsWhole`.

### RoomPanel and SignIn

A room is its fields and the number of changes it has seen; `Changed` writes and
broadcasts, a call's answer carries the room of the moment it was served. A field has one
call at a time, since its controls are disabled meanwhile. Closing the drawer unmounts the
body (`RoomSettings.tsx:47`), so somebody who closes and reopens it in time may start a
second call of the same field; that is not modelled. Two answers that arrive in the wrong
order then take the page back, which `PanelAgrees` excepts for answers of different fields
too. `SignIn` has the
views `closed`, `boot`, `login`, `join`, `retry`, `stuck` and `in` per tab, one `stored` token per browser and calls
whose answers come late. The server is reduced to one human's newest token, as `Access`
shows it. A boot whose effect was cleaned up is cancelled; guarded calls are not, which
over-approximates those that are.

## Runs

| Run | Question | Bounds | Result |
|---|---|---|---|
| `gate` | Can an upload get past the human? Is an approval the ledger's? | 2 uploads in flight at once, 1 approval, 2 agents of one human, a small free and a guarded file, 3 ticks, life of an approval 1 | holds |
| `storage` | Do rows, files and quota agree, and do uploads and sweeps end? | 2 uploads of size 2 under a quota of 3, retention off or 1 tick, every unlink may fail, 1 crash anywhere | holds |
| `reuse` | Does an approval serve one upload? | 2 uploads, 1 approval | **violated** |
| `log` | Do agents stop? Does a reader get everything, in order? Does the rate limit hold? | 1 agent, 1 human, 1 reader, page of 1, 3 messages, turn limits 1 and 2, 3 clock values, rate 2 in a window of 2 | holds, given `ClockTrusted` |
| `restart` | The order without that trust | same, without the agent | **violated** |
| `activity` | Is every client shown who is online and at work? Is a dead link dropped? Does a call that lasts come to be shown? | the hub alone with 2 sockets of an agent and 1 of a human; or 2 bridges of 1 agent with 2 and 1 sockets, 1 call each, 1 frame under way per socket, 1 failure, quit or restart | holds |
| `auto` | Does the responder keep its promise, never stick, and leave no engine behind? | 3 messages, turn limit 1, 1 retry, grace of 2 ticks, crashes and stops anywhere | holds |
| `wake` | Does its wait advance past what it has inspected? | 3 messages | **violated** |
| `access` | One usable key per user? Does the host get in again, `up` come up, and a token's bridge get attached? | 2 humans, 2 agents, 1 room, 5 tokens, a life of 2 ticks; 3 mishaps; 2 slips | holds |
| `readers` | Does a client at rest have what the room has, and does nothing pass its policy? | one client part at a time; 2 messages, pages of 1, 2 connections, 1 approval; 2 edits, 1 fault, 1 rewrite; 2 downloads of 2 parts; 3 changes of a room; 2 tabs, 2 invites, 2 calls | holds |
| `gap` | Does a page's catch-up leave a gap? | 2 messages, no failing call | **violated** |
| `edit` | Is every edit of `bridge.toml` read? | 2 edits, no failing watch | **violated** |

`access` and `readers` choose in the initial state which of several scenes is played
(`scene`, `client`), because the scenes share a server or a feed and nothing else:
`access` has some 233,000 distinct states and takes about a minute, `readers` 3.2 million
in about two.

Why the bounds are enough. The hazards of `Uploads` need two uploads (to spend one
approval twice, to squeeze under one quota) and one approval; three ticks let an approval
be made, answered at the last moment, lapse, and be read stale. In `storage` the quota
holds exactly one of the two files, so both the refusal and the return of bytes by a sweep
happen; a second crash finds the state that the first one and its boot leave. In `log`,
three messages and pages of one give a message before, at and after the cursor, and let
the agent reach either limit with a breaking or neutral message in between; that nothing
depends on the number of agents is a theorem (`AgentsStop`). In `activity`, two sockets of
one user and one of another are what "first", "last" and "other" need; the first bridge has
a socket to spare, so that it can reconnect before the hub has noticed that the old link
is dead, and the second keeps the user online and reports idle against it. In `auto`, three
messages give a question, what buries it, and what wakes; a grace longer than the flush
lets each timer win. In `access`, five tokens are an invite, a session, a recovery and a
rotation; an added guest becomes a second owner, who may rotate the host's token
(`GivenRoles`); agents are added by `HandOff` and `MyAgent`. Three mishaps break
`up`, break its repetition and lose the file; two slips are an overlapping press and a
broken run. In `readers`, two messages and pages of one make a catch-up of two pages;
two connections give a loss and a return; three changes are the page's own, one before and
one after; two tabs share one storage.

`MaxTime`, `MaxCrashes`, `MaxMessages`, `MaxTokens`, `MaxMishaps`, `MaxSlips`,
`MaxHellos`, `MaxEdits`, `MaxFaults`, `MaxRewrites`, `MaxChanges`, `MaxGreets`,
`MaxInvites`, `MaxAsked`, `MaxCalls`, `MaxFrames`, `MaxCuts` are guards of the actions they
count; the program has none of them. Symmetry is used over uploads in `gate` only, where no
liveness property is checked.

Deadlock is checked in every run but `readers`, `edit` and `gap`: a page that was left, a watch
that was stopped and a feed at its bound have nothing more to do.

### What the violations show

* `reuse`: both uploads read the approved row before either has finished hashing; both
  commit. `consumeApproval` updates `WHERE consumed_at IS NULL` but nobody looks at the
  number of rows changed. What does hold, and is proved: an upload that reads the approval
  after it was spent is refused (`ConsumedAdmitsNoMore`).
* `restart`: the first stamp of a fresh process comes from the clock alone, so a clock set
  back while the server was down puts new messages behind old ones, and a cursor passes
  over them.
* `wake`: `waitForHumanMessage` starts its poll at the question again on every call, so a
  human's message that is already buried wakes the responder each time, and the reply is
  refused again. It is paced by the poll, and `OnlyErrorsRepeat` still holds.
* `gap`: the answer of a page's own post moves `lastMessageRef` past messages the page was
  never shown. `ShowsAllButExcused` says what does hold.
* `edit`: the watch that `retryRewatch` opens is not followed by a load. `KeepsUp` says
  what does hold.

### Other divergences met while modelling

No run is kept for these; the models follow the code.

* `reload.ts:28-30` says of the store's `current`: "Read this PER OPERATION (never cache it
  across awaits) so every policy check / engine run sees the current bridge.toml." The
  tools read it once, at their start, and keep it: `room_upload_artifact` (`mcp.ts:566`)
  across the awaits of `checkUploadPolicy`, `listApprovals` and `uploadArtifact`,
  `room_send_message` (`mcp.ts:386`) across `getRoom`, and the responder for a whole reply
  (`auto.ts:458`, "per-reply"). A lockdown that is reloaded after a call has started does
  not stop that call. `mcp.ts:143-146` promises no more than a read "PER CALL", and that is
  what `PassesPolicy` states: a call is let through by the one configuration it started
  with, outdated or not. Reading `current` anew at each check would not do either: it could
  mix two configurations, neither of which lets the upload through.
* The quota in force is read before the body arrives (`artifacts.ts:197`), where
  `docs/API-CONTRACT.md:456` has it decide at the upload; `BytesGrowWithinQuota` is about
  the limit the request read.
* The tracker takes what it tried to send for what the hub knows: after a call that began
  and ended while the socket was down, the next call inside the debounce sends nothing
  (`activity.ts:78`, comment at 74-75), and the hub shows the agent as idle until the refresh.
* `docs/API-CONTRACT.md:45` has every use of a session slide its expiry; with a life span
  below the throttle of an hour a session in constant use expires. `UseKeepsAlive` states
  the condition.
* `myAgent.ts:78` speaks of "at most one such agent"; nothing enforces it. The oldest is
  rotated.
* `Login.tsx:99-101` says a session "stays in this browser"; a late 401, or one of another
  tab, clears whatever is stored (`App.tsx:59-68`). `SessionKept` excepts 401s and
  sign-outs, so it says nothing of the late 401 itself; it is about the other failures,
  cancelled boots and other tabs.
* `useRoomState.ts:405-413` calls the answer of a PATCH authoritative; overtaken by the
  frame of a newer change it takes the page back to an older room. `PanelAgrees` excepts
  that.
* `host-setup.mjs:1042-1047` tells the host that a restart mints a recovery invite; it does
  not while an unspent invite or a live session exists. `UpComesUp` excepts an unread invite.
  A server that dies between the commit of an invite and its print leaves just that
  (`index.ts:79`, `93`): `AdminRecovers` excepts an open invite too, so neither property
  covers that death.
* The comment at `snippets.ts:52-54` says that `join` has "exported
  AGENT_ROOM_BRIDGE_TOKEN", which a child process cannot do for its shell: the
  `claude mcp add` line of the modal then registers the shell's old or empty value.
* The drawer's add and regenerate do not wait for each other, so a second answer replaces
  a modal whose token is "shown once" (`OwnerDrawer.tsx:81`, `113`). The person has to
  regenerate it; `AgentAttaches` says that he can.

### Fairness

`FairSpec` of `Uploads` is weakly fair to three things: the end of an upload whose
hash is ready (Node resumes the handler), the sweep (a timer that is never
cleared while the process runs), and the boot (the operator, or `restart: unless-stopped` and
systemd's `Restart=on-failure`, start the server again). It is not fair to clients, to the clock, or to
the success of an unlink. `HashedUploadSettles` does not cover the receipt of the body, for
a client may stop sending. `FairSpec` of `MessageLog` assumes only that
clients keep polling.

`Fairness` of `Activity` covers the heartbeat, an interval that runs as long as the server,
the close event of a terminated socket, the bridge's timers, the delivery of frames on a
link that holds, the client's own discovery that its link is gone (it writes a ping every
25 s, so TCP gives up in the end), and its reconnect loop, which retries for ever. It is not
fair to calls: one may last for ever or never come.

`Fairness` of `Responder`: the loop runs, its timers fire, a post that can be sent is, time
passes. It is not fair to the engine's exit, to the room, or to the link.

`MCFairness` of `MCAccess` is fair to time, to a boot, and to a host who does what the
documentation says when he is locked out: he restarts the server, or stops one that was left
over and starts `up` again with the best invite he has read; each step of `up` ends. It is
strongly fair to time in front of `up`, which runs must not hold up for ever. In `HandOff`, a request
is served or fails, its answer arrives, and a person who is not done goes on. None of it is
fair to a mishap or a slip, and there are finitely many.

## Proofs

Every safety property of a passing run (invariant, action property or refinement) is a
theorem; `PROJECT.json` lists the theorems with the properties they state. The theorems
hold for any number of users, uploads, messages, sockets, bridges, calls, tabs, for any
limit, quota, rate, window, grace and life span, and for every value of the bounds.

The assumptions are those on the constants, each named in the module that declares them
and evaluated by TLC in a run: that the constants are of their kinds, that model values for
"none" differ from what they stand beside, and that a limit that divides or counts
something is positive. Two say more: `EngineRunAssumption` has the flush grace shorter than
the kill grace, as `engines.ts` has them, and `DownloadsAssumption` has finitely many
callers. Three theorems
take `ClockTrusted` as a hypothesis. No module proved about reaches a recursive operator.

**Gate.** `TypeOK` and `GatedWasApproved` are not inductive: an upload commits on the row
it read, not on the row in the table. The invariant `IInv` of `UploadsProofs` adds

* `ReadStaysTrue`: a request in flight has its request record, and what it read of the
  approval is still so: the terms are fixed, and an answer is not taken back;
* `SpentWasApproved`: a spent row is an approved one;
* `ArtifactIsCommitted`: an artifact's upload is no longer in flight, so a commit
  overwrites no artifact.

Three lemmas say what a step does to each table, action by action: `RowsProgress`
(a row keeps its terms; an answer stays; only the commit of an upload that rests on it
spends it), `ArtifactsProgress` (a row stays, a deleted one stays deleted, a new one is a
passed gate) and `RequestsProgress` (a request stays, or has just read the row of the
table). `NextIInv` combines them. From it: `TypeCorrect`, `GateHolds`, `StaleReadIsSound`,
`SpendingNeedsArtifact` and the action property `SpentIsClosed`.

**Storage.** `UploadsStoreProofs` looks at one upload at a time: `Harmless(r)` says that
a step keeps the file of a live artifact and accounts for every file it leaves; each action
is shown harmless for each upload. `DownloadFindsFile` and `NothingLeaks` follow.

**Quota.** `QuotaIsKept` (`BytesGrowWithinQuota`) needs no sum: the active bytes are the
cardinality of a set of pairs. An old row never holds more than it did
(`OldRowsHoldNoMore`), so only the commit of an upload adds to the set, by as many pairs as
the file it let through has bytes (`CommitHolds`). The invariant `HeldInv`, that finitely
many bytes are held, is what makes a subset no larger.

**Ledger.** The same module maps each approval row to the ledger's terms, date, answer
and spent mark, and shows each action to be `Open`, `Decide`, `Lapse`, `Spend`, `Advance`
or a stutter (`LedgerImplemented`). An answer to an overdue row is a `Lapse` because the
route writes the lazy expiry first; `Spend` is only possible after a yes by
`GatedWasApproved`'s reasoning, from `ReadStaysTrue`.

**Message log.** Three theorems of `MessageLogProofs` assume `ClockTrusted`, which the
run `restart` shows to be necessary. `LogInv` adds two facts to the types: message `n` stands
at place `n` (`Numbered`), and the next stamp is past every stored one (`Covered`: by
`lastStamp`, or in a fresh process by the clock). Under it the only place for a new row is the
end (`InsertGrows`), which gives `LogIsOrdered`. `CursorsLoseNothing` adds that a reader was given
everything up to its cursor. `AgentsStop` needs no strengthening of its own: what
`NoRunaway` counts is contained in what `TrailingAgentRun` counted before an agent's post
(`AgentPosts`), and other messages add nothing to it (`OtherMessage`).

Two do not: `LogTypes` and `RateIsKept`. Without trust a row may be inserted anywhere, so
they speak of messages by number, not by place. `TypeOK` needs `Standing`, that a cursor
names a message of the table. `RateHolds` needs `Remembered`: a message since `steady`
is not later than the clock, and the limiter still has it as long as it is in the window.
Then every window that ends now fits in what the limiter counted before it let the last
message through (`OneMoreFits`), and windows that ended earlier got no new message unless
the clock was set back, which moves `steady` past them all.

**Hub.** `HubInv` adds to the types and its three properties one fact, `BeforeIsWorking`
(what is under way since before a hello is still under way): without it a new `working`
frame could be for a run that `PillsExact` excuses. Each action keeps `HubInv`; `SetWorking`
and `SetIdle` have lemmas of their own, used for status frames and for the timer. The
theorems need nothing of how many sockets a user has. `TrackersUseHub` shows each step of
`Activity` to be one of the hub or a stutter, so the same holds under the bridges.
`TrackerIsCoherent` gives the types of the trackers; that a pending idle debounce is one
without calls and with a running refresh needs `RunsRefresh`.

**Access.** `AccessInv` is the types, `OneKey`, and two facts. `AgentsHoldBridges`: an
agent's tokens are bridge tokens, so that neither a login nor the clock takes his key away.
`AllRecorded`: what a session's record lags behind its use is less than
the throttle, from which `UseKeepsAlive` follows by arithmetic. A step either leaves the
tokens, ages them, mints one after it has retired the user's others, or both uses one and
does so; a lemma for each says that it keeps the invariant and revives nothing, and the
handlers cite them. `OneKeyEach`, `SlidingKeeps` and the action property `NoTokenRevives`
are about the server by itself; `UpLeavesOneKey` and `HandOffLeavesOneKey` about `HostSetup`
and `HandOff`, which use its handlers in parts and orders of their own. The case that
is none of the server's is `PortTaken`: a second server mints a recovery invite beside an
orphan that is still running, and the key is one because the host it recovers was locked
out (`PortTakenKeeps`).

**Responder.** `ResponderInv` has the types and three parts. `EngineInv`: a child that is
up is of a run that is not settled, so that no kill is forgotten with a run
(`KilledGroupIsGone`). `DeadlineInv`: once a shutdown has begun, the SIGKILL of a child
that is up comes before its deadline, and a run still to be started finds the whole of it
ahead (`NoLeaderLeft`). `RepliesInv`: replies are to questions up to the cursor, and none to
the one the engine has yet to answer; with it the replies to the question in work count
the network errors (`OnlyErrorsRepeatAlways`). `KeepsItsPromise` maps the cursor to `looked`
and the run in flight to `working`; the replies are those rows of the room that are the
agent's own, and a post is a `Reply` because a row is stored at the end.

**On the human's machine** (`LocalProofs`).
`WatchKeepsUp`: a watch on a file that has left the path has an event or a debounce
pending. `OutboxPassesPolicy`: an upload carries what it has found by the one
configuration it started with, step by step (`Found`), unless its file was written
meanwhile. `DownloadsAreWhole`: what is at the name will be removed, or each of its parts
is good or will be written by a call that has that inode open and is not past that part
(`DestComing`); that a new file always finds an inode the model has not in use is a
counting argument (`InodeIsFree`). `SessionsAreKept`: what a browser, a tab or an answer
holds is a session the server has made, and a refusal is of one it never takes again
(`CallSound`), so the newest session is never the one refused.

**Clients of the feed** (`FeedProofs`).
`NothingIsMissed`: a message the page does not show is covered by a GET under way from
before it, or awaits its frame, or a hello, ahead of any newer message (`MissingInv`).
A message below `last` cannot rely on frames, since the next catch-up starts at `last`: it
must be covered. `ApprovalsSettle`: whatever is shown, read or on the wire was so once, an
older frame is followed by the answer, and a card that is wrong has a hello, the right
frame or a GET ahead (`CardsInv`).
`PanelsAgree`: every room that is shown, sent or answered is a version of the room's, equal
to it if it has as many changes; the last frame on the wire is the newest.
`NothingPasses`: while the tool listens, or has an answer it has not looked at, each
message is known, on its way, or before a catch-up (`Heeded`).

**Only model-checked.** Liveness, because TLAPS reaches neither fairness nor ENABLED:
`ExpiredEventuallySwept`, `HashedUploadSettles`, `EveryMessageIsRead`, `HalfOpenIsDropped`,
`RunIsShown`, `WakesOnHuman`, `EveryMessageIsSeen`, `AdminRecovers`, `UpComesUp`,
`AgentAttaches`. The violations are counterexamples and need no proof.

## Not modelled

* SQLite errors other than a roll-back (the best-effort write of the lazy expiry may fail and
  is then repeated by the next reader); a multipart body that outlives the process in the
  `.tmp` directory after a crash (it stays there, see `DiskAccounted`); deleting rooms or
  users, which the server does not offer.
* Sockets that were opened with a token that is rotated later: the code leaves them open.
* Two bridge processes on one cursor file; a bridge that dies during a download.
* `room_get_status`, `room_get_summary`, `room_list_artifacts`, `GET /rooms`, the export:
  reads without state of their own.
* Text: prompts, redaction patterns, path rules, TOML, schemas, ids. What they decide is a
  set or a choice in the models. Rendering, styling and the composer.
* The environment's parsing and the static files; the guided wizard of `host-setup.mjs`,
  which asks a person for what `up` takes from its options; Tailscale and the browser; the
  smoke test; container and service files.

## Plan

All components with state of their own have a module, and every safety property a run
checks has a theorem. What is left, in this order:

1. The invariants behind liveness that are themselves safety: what `RunIsShown` rests on
   in `Activity` (a report that is not what the hub has is on its way or will be repeated),
   and what `AgentAttaches` and `UpComesUp` rest on in `HandOff` and `HostSetup`, with the
   types of both.
2. Consequences of the abstract modules by themselves: an answer of `ApprovalLedger` is
   final and in time; `Answering` never answers what it has passed.
3. The cursor file shared by two processes, as a property of `Inbox`; downloads cut off by
   a death.
