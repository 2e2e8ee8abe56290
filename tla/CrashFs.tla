------------------------------ MODULE CrashFs ------------------------------
(***************************************************************************)
(* The volume of MiniFs when a process can be killed inside a command.     *)
(* A command changes the disk by a series of disk_write calls, and the     *)
(* kernel keeps those that were made: what a kill leaves is the disk after *)
(* some of them.  Here a command is started by one action, which changes   *)
(* the memory and lists in todo the disks its writes lead through, in the  *)
(* order of fs.c; DiskWrite makes the next write; Kill drops the rest.     *)
(*                                                                         *)
(* Abstractions.  The bitmap is one block, so bitmap_sync is one write.    *)
(* The zeroes fs_format writes over a file it has just truncated change    *)
(* nothing and are left out.  Append and cp end in the writes of write and *)
(* create and are left out, with the commands that change no file and the  *)
(* shell's format, which runs the writes of three operations here.         *)
(*                                                                         *)
(* Bound.  A kill in fs_format can leave metadata blocks unmarked.  What a *)
(* file written into them does to the volume is not modelled: StartWrite   *)
(* waits for MetadataKept.                                                 *)
(***************************************************************************)
EXTENDS MiniFs

CONSTANT MaxCuts  \* the number of commands that are killed (a bound)

ASSUME CutsAssumption == MaxCuts \in Nat

VARIABLES
  todo,  \* the disks the writes still to come lead through
  job,   \* the command under way, or the one cut off last: the files it is
         \* about, the disk before it and the disk it leads to
  cuts   \* how many commands have been cut off

crashVars == <<vars, todo, job, cuts>>

-----------------------------------------------------------------------------
(* Disks.                                                                  *)

OnDisk == [sb |-> dsb, bits |-> dbitmap, inode |-> inode, data |-> data]

\* The disk once the writes are made.
EndOf(start, disks) == IF disks = <<>> THEN start ELSE disks[Len(disks)]

Due == EndOf(OnDisk, todo)

\* A bug: the last pointer of the list is not freed.
FreedShort(d, list) ==
  [k \in 1 .. Len(list) |->
     [d EXCEPT !.bits = @ \ {list[x] : x \in (1 .. k) \ {Len(list)}}]]

\* bitmap_free_block for each block of a list.
Freed(d, list) ==
  [k \in 1 .. Len(list) |-> [d EXCEPT !.bits = @ \ {list[x] : x \in 1 .. k}]]

\* The loop of _do_write: each block is marked, then written.
Filled(d, pick, bytes) ==
  [k \in 1 .. 2 * Len(pick) |->
     [d EXCEPT !.bits = @ \cup {pick[x] : x \in 1 .. (k + 1) \div 2},
               !.data = [b \in Block |->
                           IF \E x \in 1 .. k \div 2 : pick[x] = b
                           THEN ChunkOf(bytes, CHOOSE x \in 1 .. k \div 2 : pick[x] = b)
                           ELSE d.data[b]]]]

\* inode_write, the last but one write of most commands, and disk_write(0, &sb).
Slot(d, i, ino) == [d EXCEPT !.inode[i] = ino]

Saved(d, i, ino, s) == <<Slot(d, i, ino), [Slot(d, i, ino) EXCEPT !.sb = s]>>

\* A bug: the inode is written before the blocks it points at.
InodeFirst(d, i, ino, pick, bytes, s) ==
  LET early == Slot(d, i, ino)
      rest  == Filled(early, pick, bytes)
  IN  <<early>> \o rest \o <<[EndOf(early, rest) EXCEPT !.sb = s]>>

\* Blocks, then the inode that points at them, then the superblock.
Written(d, i, ino, pick, bytes, s) ==
  LET rest == Filled(d, pick, bytes)
  IN  rest \o Saved(EndOf(d, rest), i, ino, s)

\* A bug: the superblock is saved as soon as the slot is taken.
Counted(d, i, ino, s) ==
  LET taken == [Slot(d, i, [ZeroInode EXCEPT !.used = TRUE]) EXCEPT !.sb = s]
  IN  <<taken, Slot(taken, i, ino)>>

\* inode_allocate puts a used slot without a name on the disk; inode_write
\* names it.
Made(d, i, ino, s) ==
  <<Slot(d, i, [ZeroInode EXCEPT !.used = TRUE])>> \o Saved(d, i, ino, s)

\* The loop of fs_format over bitmap_allocate_block.
Marked(d) == [k \in 1 .. DataStart |-> [d EXCEPT !.bits = 0 .. k - 1]]

BlankDisk == [sb |-> ZeroSb, bits |-> {},
              inode |-> [i \in InodeId |-> ZeroInode],
              data |-> [b \in Block |-> ZeroChunk]]

-----------------------------------------------------------------------------
(* Commands.                                                               *)

\* No command is under way.
Still == todo = <<>>

Rest(d) == [about |-> {}, was |-> d, due |-> d]

\* A command about some files starts: its first write is still to come.
Start(about, disks) ==
  /\ Still
  /\ todo' = disks
  /\ job' = IF disks = <<>> THEN Rest(OnDisk)
            ELSE [about |-> about, was |-> OnDisk, due |-> EndOf(OnDisk, disks)]
  /\ UNCHANGED <<disk, cuts>>

CrashInit == Init /\ todo = <<>> /\ job = Rest(OnDisk) /\ cuts = 0

\* disk_init truncates the file; the superblock is written before the bits
\* of the metadata blocks are set.
FormatDisks(arg) ==
  CASE arg = "bad_block" -> <<>>
    [] arg = "too_small" -> <<BlankDisk>>
    [] arg = "fine"      ->
         LET new == [BlankDisk EXCEPT !.sb = FreshSb]
         IN  <<BlankDisk, new>> \o Marked(new)

StartFormat(arg) ==
  /\ ~up
  /\ Start(Name, FormatDisks(arg))
  /\ AnswerFormat(arg)
  /\ UNCHANGED <<up, sb, bitmap>>

\* A bug: bitmap_init allocates the bitmap and does not read it.
StartMountUnread ==
  /\ Still
  /\ ~up /\ dsb.magic
  /\ up' = TRUE /\ sb' = dsb /\ bitmap' = {}
  /\ UNCHANGED <<disk, reply, todo, job, cuts>>

StartMount ==
  /\ Still
  /\ Mount
  /\ UNCHANGED <<todo, job, cuts>>

\* fs_unmount: bitmap_sync, then the superblock.
StartUnmount ==
  /\ up
  /\ LET d == [OnDisk EXCEPT !.bits = bitmap]
     IN  Start({}, <<d, [d EXCEPT !.sb = sb]>>)
  /\ Exit
  /\ UNCHANGED reply

\* An early return.
Decline(cmd) == Start({}, <<>>) /\ Error(cmd) /\ UNCHANGED <<up, sb, bitmap>>

\* After a kill free_inodes can promise a slot that is not there.
StartCreate(n) ==
  /\ up
  /\ \/ (~MayCreate(n) \/ FreeSlots = {}) /\ Decline("create")
     \/ /\ MayCreate(n)
        /\ sb' = [sb EXCEPT !.free_inodes = @ - 1]
        /\ \E i \in InodeId :
             /\ IsFirst(i, FreeSlots)
             /\ Start({n}, Made(OnDisk, i, NewInode(n), sb'))
        /\ Ok("create", <<>>)
        /\ UNCHANGED <<up, bitmap>>

StartDelete(n) ==
  /\ up
  /\ \/ Holders(n) = {} /\ Decline("rm")
     \/ \E i \in InodeId :
          /\ Found(n, i)
          /\ bitmap' = bitmap \ Image(inode[i].direct)
          /\ sb' = [sb EXCEPT !.free_blocks = @ + Blocks(inode[i].size),
                              !.free_inodes = @ + 1]
          /\ LET freed == Freed(OnDisk, inode[i].direct)
             IN  Start({n}, freed \o Saved(EndOf(OnDisk, freed), i, ZeroInode, sb'))
          /\ Ok("rm", <<>>)
          /\ UNCHANGED up

StartRename(old, new) ==
  /\ up
  /\ \/ /\ new \in LongName \/ Holders(old) = {} \/ Holders(new) # {}
        /\ Decline("rename")
     \/ \E i \in InodeId :
          /\ Found(old, i)
          /\ new \in Name
          /\ Holders(new) = {}
          /\ Start({old, new}, <<Slot(OnDisk, i, [inode[i] EXCEPT !.name = new])>>)
          /\ Ok("rename", <<>>)
          /\ UNCHANGED <<up, sb, bitmap>>

StartTruncate(n, size) ==
  /\ up
  /\ \/ Holders(n) = {} /\ Decline("truncate")
     \/ \E i \in InodeId :
          /\ Found(n, i)
          /\ \/ size > inode[i].size /\ Decline("truncate")
             \/ /\ size <= inode[i].size
                /\ LET ino   == inode[i]
                       list  == SubSeq(ino.direct, Blocks(size) + 1, Blocks(ino.size))
                       kept  == SubSeq(ino.direct, 1, Blocks(size))
                       freed == Freed(OnDisk, list)
                       new   == [ino EXCEPT !.size = size, !.direct = kept]
                   IN  /\ bitmap' = bitmap \ Image(list)
                       /\ sb' = [sb EXCEPT !.free_blocks = @ + Len(list)]
                       /\ Start({n}, freed \o Saved(EndOf(OnDisk, freed), i, new, sb'))
                /\ Ok("truncate", <<>>)
                /\ UNCHANGED up

\* The metadata blocks are marked in memory.
MetadataKept == MetaBlock \subseteq bitmap

\* A bug: blocks are taken by the count of free ones, not by their bits.
ClearBlindly(ino) == Block \ (0 .. TotalBlocks - sb.free_blocks - 1)

\* The blocks a write finds clear once it has freed those of the file.
ClearFor(ino) == (Block \ bitmap) \cup Image(ino.direct)

\* After a kill free_blocks can promise blocks that are not clear: then the
\* loop of _do_write runs out of them and leaves the inode and the
\* superblock as they are on the disk, the bitmap and the blocks changed.
StartWrite(n, bytes) ==
  /\ up
  /\ MetadataKept
  /\ \/ /\ Holders(n) = {} \/ FitsNot(Len(bytes))
        /\ Decline("write")
     \/ \E i \in InodeId :
          /\ Found(n, i)
          /\ ~FitsNot(Len(bytes))
          /\ LET ino   == inode[i]
                 need  == BlocksNeeded(Len(bytes))
                 clear == ClearFor(ino)
                 got   == IF need <= Cardinality(clear) THEN need ELSE Cardinality(clear)
                 freed == Freed(OnDisk, ino.direct)
                 d     == EndOf(OnDisk, freed)
             IN  \E pick \in FirstFit(got, clear) :
                   /\ bitmap' = (bitmap \ Image(ino.direct)) \cup Image(pick)
                   /\ \/ /\ got = need
                         /\ sb' = [sb EXCEPT !.free_blocks = @ + Blocks(ino.size) - need,
                                             !.total_writes = Bump(@)]
                         /\ LET new == [ino EXCEPT !.size = Len(bytes),
                                          !.direct = SubSeq(pick, 1, Blocks(Len(bytes)))]
                            IN  Start({n}, freed \o Written(d, i, new, pick, bytes, sb'))
                         /\ Ok("write", <<>>)
                      \/ /\ got < need
                         /\ sb' = [sb EXCEPT !.free_blocks = @ + Blocks(ino.size) - got]
                         /\ Start({n}, freed \o Filled(d, pick, bytes))
                         /\ Error("write")
          /\ UNCHANGED up

-----------------------------------------------------------------------------
(* The disk and the end of a process.                                      *)

\* disk_write: the next write reaches the disk.
DiskWrite ==
  /\ ~Still
  /\ LET d == Head(todo)
     IN  dsb' = d.sb /\ dbitmap' = d.bits /\ inode' = d.inode /\ data' = d.data
  /\ todo' = Tail(todo)
  /\ job' = IF todo' = <<>> THEN Rest(OnDisk') ELSE job
  /\ UNCHANGED <<up, sb, bitmap, reply, cuts>>

\* The process is killed while it waits for a command.
KillIdle == Still /\ Kill /\ UNCHANGED <<todo, job, cuts>>

\* The process is killed before a write of its command.
KillBusy ==
  /\ ~Still
  /\ cuts < MaxCuts
  /\ cuts' = cuts + 1
  /\ todo' = <<>>
  /\ Exit
  /\ UNCHANGED <<disk, reply, job>>

CrashNext ==
  \/ \E arg \in FormatArg : StartFormat(arg)
  \/ StartMount
  \/ StartUnmount
  \/ \E n \in Name : StartCreate(n) \/ StartDelete(n)
  \/ \E n \in Name, m \in Name : StartRename(n, m)
  \/ \E n \in Name, size \in Size : StartTruncate(n, size)
  \/ \E n \in Name, bytes \in Payload : StartWrite(n, bytes)
  \/ DiskWrite
  \/ KillIdle
  \/ KillBusy

CrashSpec == CrashInit /\ [][CrashNext]_crashVars

-----------------------------------------------------------------------------
(* Properties.                                                             *)

Volume == INSTANCE MiniFs WITH
  dsb <- Due.sb, dbitmap <- Due.bits, inode <- Due.inode, data <- Due.data

\* Until a command is cut off, the writes of a command add up to what MiniFs
\* says the command does, and it is done before the next one starts.
ImplementsMiniFs ==
  Volume!Init /\ [][cuts' = 0 => [Volume!Next]_(Volume!vars)]_crashVars

\* The disk shows the work of one command in part, all else being whole:
\* it is under way and nothing was cut off before it, or it was the first
\* that was cut off and no other has started since.
OneInPart == cuts = 0 \/ (cuts = 1 /\ Still /\ job.about # {})

\* The slots of a disk that hold a file.
Owners(d) == {i \in InodeId : d.inode[i].used}

\* Killing a process in a command harms no file the command is not about:
\* its inode, its blocks and their bits are as they were.
OthersKept ==
  OneInPart =>
    \A i \in Owners(job.was) :
      job.was.inode[i].name \notin job.about =>
        /\ inode[i] = job.was.inode[i]
        /\ \A b \in Image(inode[i].direct) : data[b] = job.was.data[b] /\ b \in dbitmap

ChunksOf(d, n) ==
  UNION {{d.data[b] : b \in Image(d.inode[i].direct)} :
           i \in {j \in Owners(d) : d.inode[j].name = n}}

\* A write of nothing takes a block all the same, perhaps one of those the
\* file had, and clears it.
Padding == IF <<>> \in Payload THEN {ZeroChunk} ELSE {}

\* A file whose write was cut off holds chunks of its old content and of the
\* new one, perhaps mixed, or zeroes, and never the bytes of another file or
\* of one that was deleted: the blocks are written before the inode that
\* points at them.
NoForeignBytes ==
  OneInPart /\ Cardinality(job.about) = 1 =>
    \A n \in job.about :
      ChunksOf(OnDisk, n)
        \subseteq ChunksOf(job.was, n) \cup ChunksOf(job.due, n) \cup Padding

\* If the first command that was cut off left a disk fsck calls clean, then
\* the inode table is the one before the command or the one after it: a slot
\* that create had taken and not yet named is reported.
CleanMeansWhole ==
  up /\ OneInPart /\ Still /\ FsckFindsNothing =>
    inode \in {job.was.inode, job.due.inode}

\* However often commands are cut off, no two files have the same name, but
\* for the nameless files a cut create leaves.
NamedOnce ==
  \A i, j \in UsedSlots : inode[i].name = inode[j].name /\ inode[i].name # "" => i = j

\* Once a format is done, and until the next one truncates the disk, the
\* metadata blocks stay marked and no file points at one, however often
\* commands are cut off and whatever they find on the disk then.
Sound ==
  /\ MetaBlock \subseteq dbitmap
  /\ \A p \in Pointer : BlockAt(p) \in DataBlock

MetadataSafe == [][Sound /\ dsb'.magic => Sound']_crashVars

\* When fsck calls the volume clean the metadata blocks are marked.
SpotCheck == up /\ Still /\ FsckFindsNothing => MetadataKept
=============================================================================
