----------------------------- MODULE FileStore -----------------------------
(***************************************************************************)
(* What mini_fs promises its users: a durable map from names to files.     *)
(* Slots, blocks, bitmaps and superblocks are gone; what is left of them   *)
(* is the room they give, because a user sees when a command is refused.   *)
(* A command does nothing but what it answers, an answer tells the truth,  *)
(* and closing, killing and reopening the volume changes no file.          *)
(***************************************************************************)
EXTENDS Integers, Sequences, FiniteSets, FiniteSetsExt

CONSTANTS
  Name,       \* names a file can have
  BadName,    \* names that are too long
  Byte,       \* bytes users store
  Payload,    \* contents given to write and append
  Perm,       \* permission bits
  DefaultPerm,
  BlockSize,  \* files are stored in whole blocks of that size
  MaxBlocks,  \* blocks a file can have
  MaxFiles,   \* files the store can have
  Capacity,   \* blocks the store has
  InPlace     \* the room of a content counts for the one that replaces it

VARIABLES
  open,       \* somebody has the store open
  formatted,  \* there is a store to open
  files,      \* the files by name
  reply       \* the answer to the last command

vars == <<open, formatted, files, reply>>

File == [bytes: Seq(Byte), perm: Perm]

TypeOK ==
  /\ open \in BOOLEAN
  /\ formatted \in BOOLEAN
  /\ DOMAIN files \subseteq Name
  /\ \A n \in DOMAIN files : files[n] \in File
  /\ reply \in [cmd: STRING, ok: BOOLEAN, out: Seq(Nat)]

-----------------------------------------------------------------------------
BlocksFor(len) == (len + BlockSize - 1) \div BlockSize

Room == Capacity - MapThenSumSet(LAMBDA n : BlocksFor(Len(files[n].bytes)), DOMAIN files)

\* Unless contents are replaced in place, one is stored before the one it
\* replaces is given up.
Fits(bytes, old) ==
  /\ BlocksFor(Len(bytes)) <= MaxBlocks
  /\ BlocksFor(Len(bytes)) <= Room + IF InPlace THEN BlocksFor(Len(old)) ELSE 0

Exists(n) == formatted /\ n \in DOMAIN files

With(n, file)   == [m \in DOMAIN files \cup {n} |-> IF m = n THEN file ELSE files[m]]
Without(n)      == [m \in DOMAIN files \ {n} |-> files[m]]

Answer(cmd, ok, out) == reply' = [cmd |-> cmd, ok |-> ok, out |-> out]

\* The command is carried out exactly when its precondition holds.
Attempt(cmd, possible, result) ==
  /\ open
  /\ \/ Answer(cmd, TRUE, <<>>) /\ possible /\ files' = result
     \/ Answer(cmd, FALSE, <<>>) /\ ~possible /\ files' = files
  /\ UNCHANGED <<open, formatted>>

\* The question is answered exactly when the file exists.
Ask(cmd, n, answer) ==
  /\ open
  /\ \/ Exists(n) /\ Answer(cmd, TRUE, answer)
     \/ ~Exists(n) /\ Answer(cmd, FALSE, <<>>)
  /\ UNCHANGED <<open, formatted, files>>

\* The store is asked about itself; one that is not there has nothing.
AskStore(cmd, answer) ==
  /\ open
  /\ \/ formatted /\ Answer(cmd, TRUE, answer)
     \/ ~formatted /\ Answer(cmd, TRUE, [k \in DOMAIN answer |-> 0])
     \/ ~formatted /\ Answer(cmd, FALSE, <<>>)
  /\ UNCHANGED <<open, formatted, files>>

-----------------------------------------------------------------------------
Nothing == [n \in {} |-> [bytes |-> <<>>, perm |-> 0]]

\* Nobody has made a store yet.
Blank ==
  /\ formatted = FALSE
  /\ files = Nothing
  /\ reply = [cmd |-> "none", ok |-> TRUE, out |-> <<>>]

Init == open = FALSE /\ Blank

\* A format is refused, or it empties the store and may still fail.
Format ==
  \/ Answer("format", FALSE, <<>>) /\ UNCHANGED <<open, formatted, files>>
  \/ \E ok \in BOOLEAN :
       /\ files' = Nothing
       /\ formatted' = ok
       /\ Answer("format", ok, <<>>)
       /\ UNCHANGED open

Open  == ~open /\ formatted /\ open' = TRUE /\ UNCHANGED <<formatted, files, reply>>
Close == open /\ open' = FALSE /\ UNCHANGED <<formatted, files, reply>>

Create(n) ==
  Attempt("create",
          formatted /\ n \in Name \ DOMAIN files /\ Cardinality(DOMAIN files) < MaxFiles,
          With(n, [bytes |-> <<>>, perm |-> DefaultPerm]))

Delete(n) == Attempt("rm", Exists(n), Without(n))

Rename(old, new) ==
  Attempt("rename", Exists(old) /\ new \in Name \ DOMAIN files,
          [m \in (DOMAIN files \ {old}) \cup {new} |->
             IF m = new THEN files[old] ELSE files[m]])

Chmod(n, perm) == Attempt("chmod", Exists(n), With(n, [files[n] EXCEPT !.perm = perm]))

Truncate(n, size) ==
  Attempt("truncate", Exists(n) /\ size <= Len(files[n].bytes),
          With(n, [files[n] EXCEPT !.bytes = SubSeq(@, 1, size)]))

Write(n, bytes) ==
  Attempt("write", Exists(n) /\ Fits(bytes, files[n].bytes),
          With(n, [files[n] EXCEPT !.bytes = bytes]))

AppendTo(n, bytes) ==
  Attempt("append", Exists(n) /\ Fits(files[n].bytes \o bytes, files[n].bytes),
          With(n, [files[n] EXCEPT !.bytes = @ \o bytes]))

Copy(src, dst) ==
  Attempt("cp",
          /\ Exists(src)
          /\ dst \in Name \ DOMAIN files
          /\ Cardinality(DOMAIN files) < MaxFiles
          /\ Fits(files[src].bytes, <<>>),
          With(dst, files[src]))

Read(n) == Ask("read", n, files[n].bytes)

Stat(n) == LET len == Len(files[n].bytes)
           IN  Ask("stat", n, <<len, BlocksFor(len), files[n].perm>>)

Ls == AskStore("ls", <<Cardinality(DOMAIN files)>>)

\* The room left, in blocks and in files.
Statfs == AskStore("statfs", <<Room, MaxFiles - Cardinality(DOMAIN files)>>)

\* The consistency check finds nothing wrong with a store that is there.
Fsck == open /\ Answer("fsck", formatted, <<>>) /\ UNCHANGED <<open, formatted, files>>

Command ==
  \/ Fsck \/ Ls \/ Statfs
  \/ \E n \in Name \cup BadName :
       \/ Create(n) \/ Delete(n) \/ Read(n) \/ Stat(n)
       \/ \E m \in Name \cup BadName : Rename(n, m) \/ Copy(n, m)
       \/ \E perm \in Perm : Chmod(n, perm)
       \/ \E size \in 0 .. MaxBlocks * BlockSize : Truncate(n, size)
       \/ \E bytes \in Payload : Write(n, bytes) \/ AppendTo(n, bytes)

Next == Format \/ Open \/ Close \/ Command

Spec == Init /\ [][Next]_vars
=============================================================================
