----------------------------- MODULE WebVolume ------------------------------
(***************************************************************************)
(* The volume of the web simulator (the fs... functions of ui/app.js).     *)
(* JavaScript runs one handler at a time, so a command is one action.      *)
(*                                                                         *)
(* There is no disk: FS.files holds the files with their contents, and a   *)
(* file's block numbers are made up from the counter of used blocks.       *)
(*                                                                         *)
(* Abstractions.  Timestamps, links and the byte totals are left out;      *)
(* file.size is always content.length.  The array FS.files is a function   *)
(* from inode numbers to files: create and cp push the next number at its  *)
(* end, so the array is always in the order of the numbers.  What commands *)
(* write to the log and to the performance records is in module WebRecords.*)
(***************************************************************************)
EXTENDS Layout, Sequences, FiniteSets

CONSTANTS
  Name,        \* file names of 1 to 31 characters
  LongName,    \* longer ones
  Char,        \* the characters of contents
  Text,        \* the contents given to write and append
  Perm,        \* permission bits
  DefaultPerm, \* 0o644
  MaxDirect,   \* 16, the blocks a file can have
  DispMax,     \* DISP_MAX, 300, the cells of the map of the disk
  NaN,         \* what parseInt makes of a word that is no number
  SizeArg,     \* sizes given to format
  BlockArg,    \* block sizes given to format
  CutArg,      \* sizes given to truncate
  MaxNumber,   \* bound: inode numbers given out since the last format
  MaxLength    \* bound: characters in a file where no block limits them

ASSUME WebAssumption ==
  /\ Name \cap LongName = {}
  /\ Text \subseteq Seq(Char)
  /\ DefaultPerm \in Perm
  /\ {MaxDirect, DispMax} \subseteq Nat \ {0}
  /\ NaN \notin Int
  /\ SizeArg \subseteq Int \cup {NaN}
  /\ BlockArg \subseteq Int \cup {NaN}
  /\ CutArg \subseteq Int \cup {NaN}
  /\ MaxNumber \in Nat
  /\ MaxLength \in Nat

VARIABLES
  formatted,      \* FS.formatted
  superblock,     \* FS.superblock
  files,          \* FS.files, by inode number
  nextInode,      \* FS.nextInode
  usedDataBlocks, \* FS.usedDataBlocks
  reply           \* what the last command returned

FS   == <<formatted, superblock, files, nextInode, usedDataBlocks>>
vars == <<FS, reply>>

-----------------------------------------------------------------------------
AnyName == Name \cup LongName

File == [name: AnyName, content: Seq(Char), perm: Perm, blocks: Seq(Int \cup {NaN})]

\* What a format with a word that is no number leaves: NaN in every field but
\* the block size and the place of the bitmap.  Blank(NaN) also stands for the
\* null of a page that has no volume.
Blank(block) == [blockSize |-> block, bitmapStart |-> 1, inodeStart |-> NaN,
                 dataStart |-> NaN, totalBlocks |-> NaN, maxInodes |-> NaN,
                 freeBlocks |-> NaN, freeInodes |-> NaN]

\* A superblock of numbers, which stay counts: none of them goes below zero.
Superblock ==
  [blockSize: Nat \ {0}, bitmapStart: Nat, inodeStart: Nat, dataStart: Nat,
   totalBlocks: Nat, maxInodes: Nat, freeBlocks: Nat, freeInodes: Nat]

\* A format with two numbers made a volume whose counters are numbers.
Counting == superblock.freeBlocks # NaN

dataBlocks == superblock.totalBlocks - superblock.dataStart

Holders(n)    == {i \in DOMAIN files : files[i].name = n}
IsFirst(i, S) == i \in S /\ \A j \in S : i <= j

\* FS.files.find: the first file of that name.
Found(n, i) == IsFirst(i, Holders(n))

Exists(n) == formatted /\ Holders(n) # {}

-----------------------------------------------------------------------------
(* Results.                                                                *)

CommandName == {"none", "format", "create", "rm", "write", "append", "read", "rename",
                "cp", "chmod", "truncate", "stat", "ls", "statfs", "fsck"}

Reply == [cmd: CommandName, ok: BOOLEAN, out: Seq(Char \cup Perm \cup Nat \cup {NaN})]

Ok(cmd, out) == reply' = [cmd |-> cmd, ok |-> TRUE, out |-> out]
Error(cmd)   == reply' = [cmd |-> cmd, ok |-> FALSE, out |-> <<>>]

\* An early return: an error and no change.
Refuse(cmd) == Error(cmd) /\ UNCHANGED FS

-----------------------------------------------------------------------------
(* Format and reset.                                                       *)

NoFiles == [i \in {} |-> i]

Init ==
  /\ formatted = FALSE
  /\ superblock = Blank(NaN)
  /\ files = NoFiles
  /\ nextInode = 0
  /\ usedDataBlocks = 0
  /\ reply = [cmd |-> "none", ok |-> TRUE, out |-> <<>>]

\* Comparisons with NaN are false, so no check stops a word that is no number.
MustRefuse(size, block) ==
  /\ block # NaN
  /\ \/ block < InodeSize
     \/ size # NaN /\ ~Acceptable(size, block)

\* A superblock with that layout and that many free blocks.
Numbered(block, geo, free) ==
  [blockSize |-> block, bitmapStart |-> geo.bitmapStart, inodeStart |-> geo.inodeStart,
   dataStart |-> geo.dataStart, totalBlocks |-> geo.totalBlocks,
   maxInodes |-> geo.maxInodes, freeBlocks |-> free, freeInodes |-> geo.maxInodes]

\* A bug: the metadata blocks are counted as free.
NewSuperblockAllFree(size, block) ==
  IF size = NaN \/ block = NaN
  THEN Blank(block)
  ELSE LET geo == Geometry(size \div block, block)
       IN  Numbered(block, geo, geo.totalBlocks)

NewSuperblock(size, block) ==
  IF size = NaN \/ block = NaN
  THEN Blank(block)
  ELSE LET geo == Geometry(size \div block, block)
       IN  Numbered(block, geo, geo.totalBlocks - geo.dataStart)

Format(size, block) ==
  \/ MustRefuse(size, block) /\ Refuse("format")
  \/ /\ ~MustRefuse(size, block)
     /\ formatted' = TRUE
     /\ superblock' = NewSuperblock(size, block)
     /\ files' = NoFiles
     /\ nextInode' = 0
     /\ usedDataBlocks' = 0
     /\ Ok("format", <<>>)

\* doReset forgets the volume; it answers nothing, which reply shows as a
\* format that failed.
Reset ==
  /\ formatted' = FALSE
  /\ superblock' = Blank(NaN)
  /\ files' = NoFiles
  /\ nextInode' = 0
  /\ usedDataBlocks' = 0
  /\ Error("format")

-----------------------------------------------------------------------------
(* Commands that change the name space or the metadata.                    *)

\* FS.superblock.freeInodes <= 0
NoInodeLeft == Counting /\ superblock.freeInodes <= 0

NewFile(n, perm) == [name |-> n, content |-> <<>>, perm |-> perm, blocks |-> <<>>]

\* FS.files.push with the next inode number.
With(i, f) == [j \in DOMAIN files \cup {i} |-> IF j = i THEN f ELSE files[j]]

\* The inode counter moves unless it is NaN.
Less(counter, n) == IF Counting THEN counter - n ELSE counter

\* A bug: the name is not looked up.
MayNotCreateTwice(n) == ~formatted \/ n \in LongName \/ NoInodeLeft

MayNotCreate(n) ==
  \/ ~formatted
  \/ n \in LongName
  \/ Holders(n) # {}
  \/ NoInodeLeft

Create(n) ==
  \/ MayNotCreate(n) /\ Refuse("create")
  \/ /\ ~MayNotCreate(n)
     /\ nextInode < MaxNumber
     /\ nextInode' = nextInode + 1
     /\ files' = With(nextInode, NewFile(n, DefaultPerm))
     /\ superblock' = [superblock EXCEPT !.freeInodes = Less(@, 1)]
     /\ Ok("create", <<>>)
     /\ UNCHANGED <<formatted, usedDataBlocks>>

\* A bug: the blocks are given back but not counted as free.
DeleteUncounted(n) ==
  \/ ~Exists(n) /\ Refuse("rm")
  \/ \E i \in DOMAIN files :
       /\ formatted
       /\ Found(n, i)
       /\ usedDataBlocks' = usedDataBlocks - Len(files[i].blocks)
       /\ superblock' = [superblock EXCEPT !.freeInodes = Less(@, -1)]
       /\ files' = [j \in DOMAIN files \ {i} |-> files[j]]
       /\ Ok("rm", <<>>)
       /\ UNCHANGED <<formatted, nextInode>>

Delete(n) ==
  \/ ~Exists(n) /\ Refuse("rm")
  \/ \E i \in DOMAIN files :
       /\ formatted
       /\ Found(n, i)
       /\ usedDataBlocks' = usedDataBlocks - Len(files[i].blocks)
       /\ superblock' = [superblock EXCEPT !.freeBlocks = Less(@, -Len(files[i].blocks)),
                                           !.freeInodes = Less(@, -1)]
       /\ files' = [j \in DOMAIN files \ {i} |-> files[j]]
       /\ Ok("rm", <<>>)
       /\ UNCHANGED <<formatted, nextInode>>

Rename(old, new) ==
  \/ /\ ~Exists(old) \/ Holders(new) # {} \/ new \in LongName
     /\ Refuse("rename")
  \/ \E i \in DOMAIN files :
       /\ formatted
       /\ Found(old, i)
       /\ Holders(new) = {}
       /\ new \in Name
       /\ files' = [files EXCEPT ![i].name = new]
       /\ Ok("rename", <<>>)
       /\ UNCHANGED <<formatted, superblock, nextInode, usedDataBlocks>>

\* The type bits stay; of a word that is no number the bits are 0.
Chmod(n, perm) ==
  \/ ~Exists(n) /\ Refuse("chmod")
  \/ \E i \in DOMAIN files :
       /\ formatted
       /\ Found(n, i)
       /\ files' = [files EXCEPT ![i].perm = perm]
       /\ Ok("chmod", <<>>)
       /\ UNCHANGED <<formatted, superblock, nextInode, usedDataBlocks>>

-----------------------------------------------------------------------------
(* Commands that store content.                                            *)

\* A bug: the last, partly filled block is forgotten.
NeededWhole(len) ==
  IF superblock.blockSize = NaN THEN 0 ELSE AtLeastOne(len \div superblock.blockSize)

\* How often the loop of _doWrite runs: at least once, and never when the
\* block size is NaN.
Needed(len) ==
  IF superblock.blockSize = NaN THEN 0 ELSE AtLeastOne(CeilDiv(len, superblock.blockSize))

\* A bug: one block too many is let through.
FitsNotQuite(len, own) ==
  \/ Needed(len) > MaxDirect
  \/ Counting /\ Needed(len) > superblock.freeBlocks + own + 1

\* The blocks the content replaces count as free.
FitsNot(len, own) ==
  \/ Needed(len) > MaxDirect
  \/ Counting /\ Needed(len) > superblock.freeBlocks + own

\* A bug: the counter is not moved back before the new blocks are numbered.
NumbersAhead(own, need) ==
  [k \in 1 .. need |-> IF Counting THEN superblock.dataStart + usedDataBlocks + k - 1
                                   ELSE NaN]

\* The numbers of the new blocks: those after the blocks in use, once the
\* file's own have been given back.  They may be another file's.
Numbers(own, need) ==
  [k \in 1 .. need |-> IF Counting THEN superblock.dataStart + usedDataBlocks - own + k - 1
                                   ELSE NaN]

\* _doWrite: file f becomes inode i with that content; s is the superblock.
Store(i, f, text, s) ==
  LET own  == Len(f.blocks)
      need == Needed(Len(text))
  IN  /\ files' = With(i, [f EXCEPT !.content = text, !.blocks = Numbers(own, need)])
      /\ usedDataBlocks' = usedDataBlocks - own + need
      /\ superblock' = [s EXCEPT !.freeBlocks = Less(@, need - own)]

\* The command replaces the content of file n by text[i], where i is its inode;
\* of the files outside fit it is refused.
Replace(cmd, n, fit, text) ==
  \/ ~Exists(n) /\ Refuse(cmd)
  \/ \E i \in DOMAIN files :
       /\ formatted
       /\ Found(n, i)
       /\ LET own == Len(files[i].blocks)
              len == Len(text[i])
          IN  \/ /\ i \notin fit \/ FitsNot(len, own)
                 /\ Refuse(cmd)
              \/ /\ i \in fit
                 /\ ~FitsNot(len, own)
                 /\ superblock.blockSize = NaN => len <= MaxLength
                 /\ Store(i, files[i], text[i], superblock)
                 /\ Ok(cmd, <<>>)
                 /\ UNCHANGED <<formatted, nextInode>>

Write(n, text) == Replace("write", n, DOMAIN files, [i \in DOMAIN files |-> text])

AppendTo(n, text) ==
  Replace("append", n, DOMAIN files, [i \in DOMAIN files |-> files[i].content \o text])

\* content.slice(0, cut): a negative cut counts from the end, NaN is 0.
Kept(len, cut) == CASE cut = NaN            -> 0
                    [] cut # NaN /\ cut < 0 -> IF len + cut < 0 THEN 0 ELSE len + cut
                    [] OTHER                -> IF cut < len THEN cut ELSE len

\* The kept part is stored again, so the file gets new blocks, at least one.
Truncate(n, cut) ==
  Replace("truncate", n,
          {i \in DOMAIN files : cut = NaN \/ cut <= Len(files[i].content)},
          [i \in DOMAIN files |->
             SubSeq(files[i].content, 1, Kept(Len(files[i].content), cut))])

\* The length of dst is not checked.  When the content does not fit, the new
\* file is taken back; its inode number is not.
Copy(src, dst) ==
  \/ /\ ~Exists(src) \/ Holders(dst) # {} \/ NoInodeLeft
     /\ Refuse("cp")
  \/ \E i \in DOMAIN files :
       /\ formatted
       /\ Found(src, i)
       /\ Holders(dst) = {}
       /\ ~NoInodeLeft
       /\ nextInode < MaxNumber
       /\ nextInode' = nextInode + 1
       /\ LET text == files[i].content
              new  == NewFile(dst, files[i].perm)
              s    == [superblock EXCEPT !.freeInodes = Less(@, 1)]
          IN  \/ /\ text = <<>>
                 /\ files' = With(nextInode, new)
                 /\ superblock' = s
                 /\ Ok("cp", <<>>)
                 /\ UNCHANGED usedDataBlocks
              \/ /\ text # <<>>
                 /\ ~FitsNot(Len(text), 0)
                 /\ Store(nextInode, new, text, s)
                 /\ Ok("cp", <<>>)
              \/ /\ text # <<>>
                 /\ FitsNot(Len(text), 0)
                 /\ Error("cp")
                 /\ UNCHANGED <<superblock, files, usedDataBlocks>>
       /\ UNCHANGED formatted

-----------------------------------------------------------------------------
(* Commands that only look.                                                *)

\* The question is about one file; answer[i] is the answer for inode i.
Ask(cmd, n, answer) ==
  \/ ~Exists(n) /\ Refuse(cmd)
  \/ \E i \in DOMAIN files :
       /\ formatted
       /\ Found(n, i)
       /\ Ok(cmd, answer[i])
       /\ UNCHANGED FS

Read(n) == Ask("read", n, [i \in DOMAIN files |-> files[i].content])

Stat(n) == Ask("stat", n, [i \in DOMAIN files |-> <<Len(files[i].content),
                                                  Len(files[i].blocks), files[i].perm>>])

\* The question is about the volume.
AskVolume(cmd, answer) ==
  \/ ~formatted /\ Refuse(cmd)
  \/ formatted /\ Ok(cmd, answer) /\ UNCHANGED FS

\* The other numbers of the last line of ls are those of statfs.
Ls == AskVolume("ls", <<Cardinality(DOMAIN files)>>)

Statfs == AskVolume("statfs", <<superblock.freeBlocks, superblock.freeInodes>>)

\* The block numbers in the files: an inode number and a position.
Pointer == UNION {{i} \X DOMAIN files[i].blocks : i \in DOMAIN files}

BlockAt(p) == files[p[1]].blocks[p[2]]

InDataRange(b) == superblock.dataStart <= b /\ b < superblock.totalBlocks

DoubleAllocated == \E p, q \in Pointer : p # q /\ BlockAt(p) = BlockAt(q)

\* What fsFsck counts as an error.  Its counts are never equal to a NaN.
FsckErrors ==
  Counting =>
    \/ Cardinality(DOMAIN files) # superblock.maxInodes - superblock.freeInodes
    \/ \E i \in DOMAIN files : files[i].name \in LongName
    \/ \E p \in Pointer : ~InDataRange(BlockAt(p))
    \/ DoubleAllocated
    \/ Cardinality(Pointer) # dataBlocks - superblock.freeBlocks

Fsck ==
  \/ (~formatted \/ FsckErrors) /\ Refuse("fsck")
  \/ formatted /\ ~FsckErrors /\ Ok("fsck", <<>>) /\ UNCHANGED FS

-----------------------------------------------------------------------------
Command ==
  \/ \E size \in SizeArg, block \in BlockArg : Format(size, block)
  \/ \E n \in AnyName : Create(n) \/ Delete(n) \/ Read(n) \/ Stat(n)
  \/ \E n, m \in AnyName : Rename(n, m) \/ Copy(n, m)
  \/ \E n \in AnyName, perm \in Perm : Chmod(n, perm)
  \/ \E n \in AnyName, text \in Text : Write(n, text) \/ AppendTo(n, text)
  \/ \E n \in AnyName, cut \in CutArg : Truncate(n, cut)
  \/ Ls
  \/ Statfs
  \/ Fsck

Next == Command \/ Reset

Spec == Init /\ [][Next]_vars

-----------------------------------------------------------------------------
(* The map of the disk.                                                    *)

\* The map has at most DispMax cells: of a larger disk it draws every
\* ratio-th block only, from block 0 on.
ratio == CeilDiv(superblock.totalBlocks, DispMax)

Cell == 0 .. CeilDiv(superblock.totalBlocks, ratio) - 1

\* The block that cell i draws.
CellBlock(i) == i * ratio

\* A bug: the number of the block, not its place among the data blocks, is
\* compared with the counter.
DrawnByNumber(b) ==
  CASE b = 0                                                          -> "superblock"
    [] superblock.bitmapStart <= b /\ b < superblock.inodeStart       -> "bitmap"
    [] superblock.inodeStart <= b /\ b < superblock.dataStart         -> "inodes"
    [] superblock.dataStart <= b /\ b < usedDataBlocks                -> "used"
    [] OTHER                                                          -> "free"

\* How refreshBlockGrid draws block b: the data region is drawn as used up
\* to the number of blocks in use, whoever owns them.
Drawn(b) ==
  CASE b = 0                                                          -> "superblock"
    [] superblock.bitmapStart <= b /\ b < superblock.inodeStart       -> "bitmap"
    [] superblock.inodeStart <= b /\ b < superblock.dataStart         -> "inodes"
    [] superblock.dataStart <= b /\ b - superblock.dataStart < usedDataBlocks -> "used"
    [] OTHER                                                          -> "free"

\* The cells drawn as used.
UsedCells == {i \in Cell : Drawn(CellBlock(i)) = "used"}

-----------------------------------------------------------------------------
(* Properties.                                                             *)

\* Every variable has its type, and no counter of the superblock is ever
\* below zero.
TypeOK ==
  /\ formatted \in BOOLEAN
  /\ \/ superblock \in Superblock
     \/ /\ superblock = Blank(superblock.blockSize)
        /\ superblock.blockSize \in (Nat \ {0}) \cup {NaN}
  /\ nextInode \in Nat
  /\ DOMAIN files \subseteq 0 .. nextInode - 1
  /\ \A i \in DOMAIN files : files[i] \in File
  /\ usedDataBlocks \in Int
  /\ reply \in Reply

\* The counters of the superblock, the counter of used blocks and the files
\* are four records of one thing, which every command changes by hand: the
\* two counts of fsck never fail on a volume formatted with numbers.
CountsAgree ==
  /\ usedDataBlocks = Cardinality(Pointer)
  /\ Counting =>
       /\ superblock.freeInodes = superblock.maxInodes - Cardinality(DOMAIN files)
       /\ superblock.freeBlocks = dataBlocks - usedDataBlocks

\* A block number made up by _doWrite never leaves the data region.
PointersInRange == Counting => \A p \in Pointer : InDataRange(BlockAt(p))

\* Two files never have the same name, cp with its unchecked name included.
NamesUnique == \A i, j \in DOMAIN files : files[i].name = files[j].name => i = j

\* A file has the blocks its content needs; only an empty one may have one
\* more, which it got from truncate or from writing nothing.
EnoughBlocks ==
  superblock.blockSize # NaN =>
    \A i \in DOMAIN files :
      LET len == Len(files[i].content)
      IN  \/ Len(files[i].blocks) = CeilDiv(len, superblock.blockSize)
          \/ len = 0 /\ Len(files[i].blocks) = 1

\* The map fits its place, draws data as data and metadata as metadata, and
\* its used cells, each of which stands for ratio blocks, tell how many block
\* numbers the files have: less than one cell too many or too few, and the
\* very number where every block has a cell.
MapCounts ==
  Counting =>
    LET shown == Cardinality(UsedCells) * ratio
        held  == Cardinality(Pointer)
    IN  /\ Cardinality(Cell) <= DispMax
        /\ \A i \in Cell : Drawn(CellBlock(i)) \in {"used", "free"} <=> InDataRange(CellBlock(i))
        /\ held - ratio < shown /\ shown < held + ratio

\* No block belongs to two files.  (False: _doWrite numbers blocks from the
\* counter of used ones.)
NoDoubleAllocation == formatted => ~DoubleAllocated
=============================================================================
