------------------------------ MODULE MCAccess ------------------------------
(* The server by itself under any requests of its users; or as the child   *)
(* of `npm run up`; or while its host hands a bridge token to a machine.   *)
EXTENDS HostSetup, HandOff

VARIABLE scene

Alone(action) == scene = "alone" /\ action
Operated(action) == scene = "operated" /\ action
Handing(action) == scene = "handing" /\ action

MCInit ==
  /\ Init /\ UpInit /\ HandInit
  /\ scene \in {"alone", "operated", "handing"}
  /\ scene # "handing" => machine.config = "absent"

MCNext ==
  /\ UNCHANGED scene
  /\ \/ Alone(Next) /\ UNCHANGED <<setup, handing>>
     \/ Operated(UpNext) /\ UNCHANGED handing
     \/ Handing(HandNext) /\ UNCHANGED setup

all == <<vars, setup, handing, scene>>

\* Time goes on, and a host who cannot get in restarts the server, which is
\* the documented way back, or starts `up` again and stops a server that was
\* left over; and a person who is not done goes on.
MCFairness ==
  /\ WF_vars(Alone(Tick)) /\ WF_vars(Alone(Boot))
  /\ WF_vars(Alone(PrintInvite))
  /\ WF_vars(Alone(~HostHasAccess /\ server = "up" /\ Crash))
  /\ WF_<<vars, setup>>(Operated(UpStep)) /\ SF_<<vars, setup>>(Operated(TimePasses))
  /\ WF_<<vars, setup>>(Operated(Start(BestInvite)))
  /\ WF_<<vars, handing>>(Handing(HandStep)) /\ WF_<<vars, handing>>(Handing(Prelude))
  /\ WF_<<vars, handing>>(Handing(\E b \in Buttons : Serve(b) \/ Fails(b) \/ Answer(b)))

MCSpec == MCInit /\ [][MCNext]_all /\ MCFairness

-----------------------------------------------------------------------------
(* Correctness.                                                            *)

OpenInvite == \E t \in HostInvites : Usable(tokens[t])
UnreadInvite == \E t \in HostInvites \ known : Usable(tokens[t])

\* A host without access gets in again by restarting, whatever logins, crashes
\* and answers were lost, unless an invite of his is out that nobody spent:
\* one that was committed and never printed, or forgotten (index.ts:91).
AdminRecovers ==
  Alone(~HostHasAccess) ~> (HostHasAccess \/ OpenInvite \/ count = MaxTokens)

\* `up` brings the room up again however its last runs ended, at what step
\* they broke and whatever answer or file was lost; but not while an invite of
\* the host is out that nobody has read, for then the server mints no other
\* (host-setup.mjs runUp).
UpComesUp ==
  Operated(up # "ready") ~> (up = "ready" \/ UnreadInvite \/ count = MaxTokens)

\* A person who does what page and terminal say gets his agent into the room,
\* however calls overlap, tokens die on the way and runs of `join` break off;
\* and when they say that all is well, it is (join.ts, index.ts runCheck).
AgentAttaches ==
  Handing(RoomMade) ~> ((Done /\ Attached) \/ OutOfTokens)
=============================================================================
