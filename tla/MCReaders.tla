----------------------------- MODULE MCReaders ------------------------------
(* One client of a room at a time: a web page with its messages, with its  *)
(* room and settings, or on the way to sign in; or an MCP bridge of which  *)
(* one part is busy: its inbox, its outbox under a configuration that is   *)
(* edited, or its downloads.                                               *)
EXTENDS WebRoom, RoomPanel, SignIn, Inbox, Outbox, Downloads, TLC

CONSTANTS lax, tight, small, big, key, low, high

\* The tight configuration denies what is big, and asks for no approvals.
MCAdmits == lax :> {small, big, key} @@ tight :> {small}
MCFrees == lax :> {small} @@ tight :> {small, big, key}

VARIABLE client

pages == <<page, calls, history, panelVars, signing>>
bridge == <<aside, cursor, tool>>
files == <<outbox, downloads>>

\* The parts that are not there.
NoPage ==
  phase = "absent" /\ shown = {} /\ last = 0 /\ card = NoCards
  /\ reads = {} /\ posts = {} /\ answers = {} /\ excused = {} /\ stale = {}
NoPanel == PanelInit /\ \A f \in Fields : room.at[f] = low
NoInbox ==
  aside = {} /\ cursor = 0 /\ wait = "off" /\ from = 0 /\ upto = 0
  /\ before = {} /\ unheard = {}
NoOutbox == OutboxInit /\ local = small /\ file = lax
NoWeb == NoPage /\ NoPanel /\ SignInInit
NoBridge == NoInbox /\ NoOutbox /\ DownloadsInit

Init ==
  \/ client = "page" /\ WebInit /\ NoPanel /\ SignInInit /\ NoBridge
  \/ client = "panel" /\ PanelInit /\ NoPage /\ SignInInit /\ FeedInit /\ NoBridge
  \/ client = "signing" /\ NoWeb /\ FeedInit /\ NoBridge
  \/ client = "inbox" /\ BoxInit /\ NoWeb /\ NoOutbox /\ DownloadsInit
  \/ client = "outbox" /\ OutboxInit /\ FeedInit /\ NoWeb /\ NoInbox /\ DownloadsInit
  \/ client = "downloads" /\ FeedInit /\ NoWeb /\ NoBridge

Next ==
  /\ UNCHANGED client
  /\ \/ client = "page" /\ WebNext /\ UNCHANGED <<panelVars, signing, bridge, files>>
     \/ client = "panel" /\ PanelNext /\ UNCHANGED <<feed, page, calls, history, signing, bridge, files>>
     \/ client = "signing" /\ SignInNext /\ UNCHANGED <<feed, page, calls, history, panelVars, bridge, files>>
     \/ client = "inbox" /\ BoxNext /\ UNCHANGED <<pages, files>>
     \/ client = "outbox" /\ OutboxNext /\ UNCHANGED <<feed, pages, bridge, downloads>>
     \/ client = "downloads" /\ DownloadsNext /\ UNCHANGED <<feed, pages, bridge, outbox>>

vars == <<feed, pages, bridge, files, client>>
Spec == Init /\ [][Next]_vars
=============================================================================
