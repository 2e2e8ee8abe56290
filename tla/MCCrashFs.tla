----------------------------- MODULE MCCrashFs -----------------------------
(* Small instances of CrashFs for TLC.                                     *)
EXTENDS CrashFs

\* Nothing, less than a block, and a block and a half of other bytes.
MCPayload == {<<>>, <<1>>, <<2, 2, 2>>}

\* No name is too long.
MCNoClip == [n \in {} |-> ""]
=============================================================================
