------------------------------ MODULE MCMiniFs ------------------------------
(* Small instances of MiniFs for TLC.                                      *)
EXTENDS MiniFsStore, TLC

\* Names other than the empty one are alike.
Alike == Permutations(Name \ {""})

\* The content given to write and append: a block and half of the next one.
\* Truncate makes shorter ones, and appends to these cross blocks.
MCPayload == {<<1, 1, 2>>}

\* Less than a block, and more than one.
MCPayloadPlain == {<<1>>, <<1, 1, 1>>}

\* The same with the empty content, which only the command line can pass, and
\* with one of more than MAX_DIRECT_BLOCKS blocks.
MCPayloadEmpty == {<<>>, <<1, 1, 1, 1, 1>>} \cup MCPayloadPlain

\* No name is too long.
MCNoClip == [n \in {} |-> ""]

\* A name of 32 characters and the 31 characters cp keeps of it.
MCClip == [n \in {"long"} |-> "a"]
=============================================================================
