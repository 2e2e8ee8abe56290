---------------------------- MODULE MiniFsStore -----------------------------
(***************************************************************************)
(* MiniFs implements FileStore: where the store of names and files is      *)
(* found on a volume.  It is read off the disk and not off the memory of   *)
(* the process that has the volume open.                                   *)
(***************************************************************************)
EXTENDS MiniFs

\* The slot a name is found in.
SlotOf(n) == CHOOSE i \in UsedSlots : inode[i].name = n

\* What a user sees of the file in a slot.
FileIn(i) == [bytes |-> Content(inode[i]), perm |-> inode[i].mode.perm]

Files == [n \in {inode[i].name : i \in UsedSlots} |-> FileIn(SlotOf(n))]

Abstract == INSTANCE FileStore WITH
  BadName   <- LongName,
  MaxBlocks <- MaxDirect,
  MaxFiles  <- MaxInodes,
  Capacity  <- TotalBlocks - DataStart,
  InPlace   <- FALSE,
  open      <- up,
  formatted <- dsb.magic,
  files     <- Files

\* Every behaviour of the program is one of the durable map from names to
\* files: each command does to the files what it answers and nothing else,
\* is refused exactly when it must be, and neither Unmount nor Kill nor
\* Mount changes a file.
ImplementsFileStore == Abstract!Spec
=============================================================================
