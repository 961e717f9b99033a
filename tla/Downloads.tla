----------------------------- MODULE Downloads ------------------------------
(***************************************************************************)
(* room_download_artifact: calls that overlap and save one artifact to one *)
(* name in the downloads directory.  Each streams into a file it opens     *)
(* there, compares the hash of what it was sent, and removes the name if   *)
(* anything failed since it asked for the bytes.  A file that is removed   *)
(* lives on for those that have it open.                                   *)
(***************************************************************************)
EXTENDS Naturals, FiniteSets

CONSTANTS
  Fetchers,   \* calls that may overlap
  Parts,      \* the chunks of the artifact
  Nowhere     \* no inode

ASSUME DownloadsAssumption ==
  /\ IsFiniteSet(Fetchers) /\ Parts \in Nat \ {0}
  /\ Nowhere \notin Nat

VARIABLES
  fetch,     \* the calls: where each is, the inode it writes, the next part, and
             \* whether it was sent something else than the artifact
  dest,      \* the inode at the name
  good,      \* inode -> its parts that hold what the artifact holds
  leftover   \* (history) a name could not be removed

downloads == <<fetch, dest, good, leftover>>

\* One for each call, and one at the name.
Inodes == 1..(Cardinality(Fetchers) + 1)

Idle == [at |-> "idle", inode |-> Nowhere, part |-> 1, bad |-> FALSE]

DownloadsInit ==
  /\ fetch = [f \in Fetchers |-> Idle]
  /\ dest = Nowhere /\ good = [i \in Inodes |-> {}] /\ leftover = FALSE

Moves(f, at) == fetch' = [fetch EXCEPT ![f].at = at]
Finishes(f) == fetch' = [fetch EXCEPT ![f] = Idle]

Download(f) ==
  /\ fetch[f].at = "idle" /\ Moves(f, "meta")
  /\ UNCHANGED <<dest, good, leftover>>

\* getArtifact: the name and the hash, or it is not found or too large.
Meta(f) ==
  /\ fetch[f].at = "meta"
  /\ Moves(f, "open") \/ Finishes(f)
  /\ UNCHANGED <<dest, good, leftover>>

InUse == {fetch[f].inode : f \in Fetchers} \union {dest}

\* createWriteStream: a new file, or the one that is there, truncated.
OpenDest(f) ==
  /\ fetch[f].at = "open"
  /\ LET i == IF dest # Nowhere THEN dest
              ELSE CHOOSE n \in Inodes : n \notin InUse
     IN  /\ dest' = i
         /\ good' = [good EXCEPT ![i] = {}]
         /\ fetch' = [fetch EXCEPT ![f] = [@ EXCEPT !.at = "write", !.inode = i]]
  /\ UNCHANGED leftover

\* A chunk arrives, as it should be or not, and is written at its place.
WriteChunk(f) ==
  /\ fetch[f].at = "write"
  /\ LET p == fetch[f].part  i == fetch[f].inode IN
     \E ok \in BOOLEAN :
       /\ good' = [good EXCEPT ![i] = IF ok THEN @ \union {p} ELSE @ \ {p}]
       /\ fetch' = [fetch EXCEPT ![f] =
            [at |-> IF p = Parts THEN "verify" ELSE "write", inode |-> i,
             part |-> p + 1, bad |-> @.bad \/ ~ok]]
  /\ UNCHANGED <<dest, leftover>>

\* The hash is compared; the path is answered if it is right.
Verify(f) ==
  /\ fetch[f].at = "verify"
  /\ IF fetch[f].bad THEN Moves(f, "discard") ELSE Finishes(f)
  /\ UNCHANGED <<dest, good, leftover>>

\* Mutant: what a stream that broke off has left stays.
Break_Leaves(f) ==
  /\ fetch[f].at \in {"open", "write"} /\ Finishes(f)
  /\ UNCHANGED <<dest, good, leftover>>

\* The request or the stream fails.
Break(f) ==
  /\ fetch[f].at \in {"open", "write"} /\ Moves(f, "discard")
  /\ UNCHANGED <<dest, good, leftover>>

\* rm of the name, whosever file it is; that it failed is not reported.
Discard(f) ==
  /\ fetch[f].at = "discard" /\ Finishes(f)
  /\ \/ dest' = Nowhere /\ UNCHANGED leftover
     \/ dest # Nowhere /\ leftover' = TRUE /\ UNCHANGED dest
  /\ UNCHANGED good

DownloadsNext ==
  \E f \in Fetchers :
    \/ Download(f) \/ Meta(f) \/ OpenDest(f) \/ WriteChunk(f)
    \/ Verify(f) \/ Break(f) \/ Discard(f)

DownloadsSpec == DownloadsInit /\ [][DownloadsNext]_downloads

-----------------------------------------------------------------------------
(* Correctness.                                                            *)

\* With no download under way, the file at the name is whole or not there,
\* however downloads to that name overlapped and failed.
DownloadsWhole ==
  (\A f \in Fetchers : fetch[f].at = "idle") /\ dest # Nowhere /\ ~leftover
    => good[dest] = 1..Parts
=============================================================================
