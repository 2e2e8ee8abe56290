---------------------------- MODULE MCWebVolume -----------------------------
(***************************************************************************)
(* A small volume of the web page: inodes of 1 byte, blocks of 2 and at    *)
(* most 2 blocks for a file.  A size of 12 gives 6 blocks: the superblock, *)
(* one of bitmap, one of 2 inodes and 3 of data.  A size of 6 is too small *)
(* and a block of 0 bytes has no room for an inode.                        *)
(***************************************************************************)
EXTENDS WebVolume, TLC

CONSTANTS x, y

\* Names are alike.
Alike == Permutations(Name)

\* Nothing, and what needs two blocks; an append of it makes too long a file.
MCText == {<<>>, <<x, y, x>>}

\* What needs two blocks only.
MCPlain == {<<x, y, x>>}

MCSizeArg  == {6, 12, NaN}
MCBlockArg == {0, 2, NaN}
MCCutArg   == {-2, 2, NaN}
-----------------------------------------------------------------------------
(* The page keeps the promise of FileStore, which the C program keeps too, *)
(* where both take what they are given alike: after formats with numbers,  *)
(* with names of at most 31 characters, and with files that have as many   *)
(* blocks as their size calls for.  (cp takes longer names here; writing   *)
(* or keeping nothing gives a file a block here and in the C program not.) *)

TakenAlike ==
  /\ formatted => Counting
  /\ \A i \in DOMAIN files :
       /\ files[i].name \in Name
       /\ Len(files[i].blocks) = CeilDiv(Len(files[i].content), superblock.blockSize)

InodeOf(n) == CHOOSE i \in DOMAIN files : files[i].name = n

\* The store by names.
Named == [n \in {files[i].name : i \in DOMAIN files} |->
            [bytes |-> files[InodeOf(n)].content, perm |-> files[InodeOf(n)].perm]]

\* The verdict of fsck is left to NoDoubleAllocation: the page finds blocks
\* of two owners, which the store does not know.
Told == IF reply.cmd = "fsck" THEN [reply EXCEPT !.ok = formatted] ELSE reply

Abstract == INSTANCE FileStore WITH
  BadName   <- LongName,
  Byte      <- Char,
  Payload   <- Text,
  BlockSize <- 2,
  MaxBlocks <- MaxDirect,
  MaxFiles  <- 2,
  Capacity  <- 3,
  InPlace   <- TRUE,
  open      <- TRUE,
  files     <- Named,
  reply     <- Told

\* The page is a FileStore that is always open: each command does to the files
\* what it answers and nothing else, and is refused exactly when the name,
\* the inodes or the room of the volume forbid it.  Other than in the C
\* program, a content may use the room of the one it replaces.
ImplementsFileStore ==
  Abstract!Blank /\ [][TakenAlike /\ TakenAlike' => [Abstract!Next]_(Abstract!vars)]_vars
=============================================================================
