---------------------------- MODULE MCProcesses -----------------------------
(* A small volume for two processes: files of one block, two data blocks.  *)
EXTENDS Processes

MCPayload == {<<1>>}

\* No name is too long.
MCNoClip == [n \in {} |-> ""]
=============================================================================
