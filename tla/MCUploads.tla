----------------------------- MODULE MCUploads -----------------------------
(* A small room for TLC: two agents of one human, two kinds of file.       *)
EXTENDS Uploads, TLC

CONSTANTS bot1, bot2, human, plain, archive

MCOwner == [a \in Agents |-> human]
MCSizeOf == [f \in Files |-> IF f = plain THEN 1 ELSE 2]

Symmetry == Permutations(Uploads)
=============================================================================
