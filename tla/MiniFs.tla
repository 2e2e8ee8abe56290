------------------------------- MODULE MiniFs -------------------------------
(***************************************************************************)
(* The mini_fs volume at the granularity of its commands (fs.c, inode.c,   *)
(* bitmap.c, main.c).  Every command runs to its end under fs_mutex in the *)
(* only process that has the volume open, so a command is one action.  The *)
(* volume can disappear between two commands (Unmount, Kill) and come back *)
(* from what the disk holds (Mount).                                       *)
(*                                                                         *)
(* In memory a process keeps the superblock sb and the bitmap; on the disk *)
(* are their copies dsb and dbitmap, the inode table and the data blocks.  *)
(*                                                                         *)
(* Abstractions.  Timestamps, link_count (always 1) and the byte totals of *)
(* the statistics are left out.  Inode.id is always the slot's own number  *)
(* and is left out.  A free slot is always ZeroInode: its stale bytes are  *)
(* never read, because every reader tests is_used and inode_allocate       *)
(* clears the slot.  Inode.direct keeps the pointers below Blocks(size):   *)
(* the code computes every loop bound over direct_blocks from size.        *)
(***************************************************************************)
EXTENDS Integers, Sequences, FiniteSets

CONSTANTS
  Name,        \* file names shorter than MAX_FILENAME_LEN
  LongName,    \* names of MAX_FILENAME_LEN characters and more
  Clip,        \* Clip[n]: the first MAX_FILENAME_LEN - 1 characters of n
  Byte,        \* the bytes users store; 0 is the padding of calloc
  Payload,     \* the strings given to write and append
  Perm,        \* permission bits
  DefaultPerm, \* FS_DEFAULT_MODE
  BlockSize,   \* sb.block_size
  MaxDirect,   \* MAX_DIRECT_BLOCKS
  MaxInodes,   \* sb.max_inodes
  DataStart,   \* sb.data_start: blocks 0 .. DataStart - 1 hold metadata
  TotalBlocks, \* sb.total_blocks
  StatWrap     \* the range of an I/O counter (2^64 in the code)

ASSUME NamesAssumption ==
  /\ "" \in Name
  /\ Name \cap LongName = {}
  /\ Clip \in [LongName -> Name]

ASSUME BytesAssumption ==
  /\ Byte \subseteq Nat \ {0}
  /\ Payload \subseteq Seq(Byte)
  /\ Perm \subseteq Nat
  /\ {0, DefaultPerm} \subseteq Perm

ASSUME GeometryAssumption ==
  /\ BlockSize \in Nat \ {0}
  /\ MaxDirect \in Nat \ {0}
  /\ MaxInodes \in Nat \ {0}
  /\ DataStart \in Nat \ {0}
  /\ TotalBlocks \in Nat
  /\ DataStart < TotalBlocks
  /\ StatWrap \in Nat \ {0}

VARIABLES
  up,      \* a process has the volume open and waits for a command
  sb,      \* its superblock
  bitmap,  \* its bitmap, as the set of blocks whose bit is 1
  dsb,     \* the superblock on the disk
  dbitmap, \* the bitmap on the disk
  inode,   \* the inode table on the disk
  data,    \* the data blocks on the disk
  reply    \* what the last command answered

disk == <<dsb, dbitmap, inode, data>>
vars == <<up, sb, bitmap, disk, reply>>

-----------------------------------------------------------------------------
(* The volume's layout and records.                                        *)

AnyName   == Name \cup LongName
InodeId   == 0 .. MaxInodes - 1
Block     == 0 .. TotalBlocks - 1
MetaBlock == 0 .. DataStart - 1
DataBlock == Block \ MetaBlock
Size      == 0 .. MaxDirect * BlockSize
Mode      == [reg: BOOLEAN, perm: Perm]
Chunk     == [1 .. BlockSize -> Byte \cup {0}]
Direct    == UNION {[1 .. k -> Block] : k \in 0 .. MaxDirect}

Inode == [used: BOOLEAN, name: Name, size: Size, direct: Direct, mode: Mode]

Superblock == [magic: BOOLEAN,
               free_blocks: Nat,
               free_inodes: Nat,
               total_writes: 0 .. StatWrap - 1,
               total_reads: 0 .. StatWrap - 1]

ZeroInode == [used |-> FALSE, name |-> "", size |-> 0, direct |-> <<>>,
              mode |-> [reg |-> FALSE, perm |-> 0]]

ZeroSb == [magic |-> FALSE, free_blocks |-> 0, free_inodes |-> 0,
           total_writes |-> 0, total_reads |-> 0]

\* A bug: the superblock written after the loop that marks the metadata.
LateSb == [ZeroSb EXCEPT !.magic = TRUE,
                         !.free_blocks = TotalBlocks - 2 * DataStart,
                         !.free_inodes = MaxInodes]

\* The superblock fs_format writes: free_blocks counts the data blocks only.
FreshSb == [ZeroSb EXCEPT !.magic = TRUE,
                          !.free_blocks = TotalBlocks - DataStart,
                          !.free_inodes = MaxInodes]

ZeroChunk == [j \in 1 .. BlockSize |-> 0]

Bump(counter) == (counter + 1) % StatWrap

-----------------------------------------------------------------------------
(* What the commands compute from the volume.                              *)

\* Blocks a file of that size occupies.
Blocks(size) == (size + BlockSize - 1) \div BlockSize

\* Blocks _do_write allocates for that many bytes: never less than one.
BlocksNeeded(len) == IF Blocks(len) = 0 THEN 1 ELSE Blocks(len)

\* The slots inode_find_by_name can match; it sees none when the superblock
\* in memory is all zero, because max_inodes is then 0.
Holders(n) == {i \in InodeId : sb.magic /\ inode[i].used /\ inode[i].name = n}

FreeSlots == {i \in InodeId : ~inode[i].used}

IsFirst(i, S) == i \in S /\ \A j \in S : i <= j

Found(n, i) == IsFirst(i, Holders(n))

\* The bytes of a file, collected over its direct blocks.
Content(ino) ==
  [p \in 1 .. ino.size |->
     data[ino.direct[((p - 1) \div BlockSize) + 1]][((p - 1) % BlockSize) + 1]]

\* A bug: every block gets the beginning of the buffer.
FirstChunkOf(bytes, k) ==
  [j \in 1 .. BlockSize |-> IF j <= Len(bytes) THEN bytes[j] ELSE 0]

\* The k-th block of a buffer, padded with zeros.
ChunkOf(bytes, k) ==
  [j \in 1 .. BlockSize |->
     LET p == (k - 1) * BlockSize + j
     IN  IF p <= Len(bytes) THEN bytes[p] ELSE 0]

\* A bug: the lowest blocks of the data region, whatever their bits say.
BlindFit(k, clear) == {[x \in 1 .. k |-> DataStart + x - 1]}

\* k runs of bitmap_allocate_block, each taking the lowest clear bit.
FirstFit(k, clear) ==
  {f \in [1 .. k -> clear] :
     /\ \A x, y \in 1 .. k : x < y => f[x] < f[y]
     /\ \A b \in clear : b < f[k] => \E x \in 1 .. k : f[x] = b}

Image(f) == {f[x] : x \in DOMAIN f}

\* A bug: the first block to free is skipped.
CutShort(ino, size) == {ino.direct[k] : k \in Blocks(size) + 2 .. Blocks(ino.size)}

\* The blocks truncate frees.
CutOff(ino, size) == {ino.direct[k] : k \in Blocks(size) + 1 .. Blocks(ino.size)}

-----------------------------------------------------------------------------
(* Writing the copies in memory back.                                      *)

\* A bug: disk_write(0, &sb) left out.
ForgetSb == dsb' = dsb

\* disk_write(0, &sb)
SaveSb == dsb' = sb'

\* bitmap_sync, the last call of every change of a bit.
SyncBitmap == dbitmap' = bitmap'

-----------------------------------------------------------------------------
(* Replies.                                                                *)

CommandName == {"none", "format", "create", "rm", "rename", "chmod", "truncate",
                "write", "append", "cp", "read", "stat", "ls", "statfs", "fsck"}

Reply == [cmd: CommandName, ok: BOOLEAN, out: Seq(Nat)]

Ok(cmd, out) == reply' = [cmd |-> cmd, ok |-> TRUE, out |-> out]
Error(cmd)   == reply' = [cmd |-> cmd, ok |-> FALSE, out |-> <<>>]

\* An early return: the command prints an error and changes nothing.
Refuse(cmd) == Error(cmd) /\ UNCHANGED <<up, sb, bitmap, disk>>

-----------------------------------------------------------------------------
(* Format, mount and unmount.                                              *)

Init ==
  /\ up = FALSE
  /\ sb = ZeroSb
  /\ bitmap = {}
  /\ dsb = ZeroSb
  /\ dbitmap = {}
  /\ inode = [i \in InodeId |-> ZeroInode]
  /\ data = [b \in Block |-> ZeroChunk]
  /\ reply = [cmd |-> "none", ok |-> TRUE, out |-> <<>>]

\* The parameters of a format, by what fs_format does with them: block_size
\* is below sizeof(Inode), the disk is too small for its metadata, or fine.
\* Left out are sizes below sizeof(Superblock), after which fs_mount's short
\* pread keeps part of the superblock in memory.
FormatArg == {"bad_block", "too_small", "fine"}

\* A bug: the marking loop ends one block early.
ShortMark(arg) == IF arg = "fine" THEN 0 .. DataStart - 2 ELSE {}

\* The bitmap a format leaves on the disk it truncated: the loop over
\* bitmap_allocate_block marks the metadata blocks.
FormatBitmap(arg) == IF arg = "fine" THEN MetaBlock ELSE {}

\* fs_format on a disk whose superblock and bitmap are s and b.  The file is
\* truncated before its size is checked.  The superblock is written before
\* bitmap_allocate_block marks the metadata blocks and counts them off.
FormatDisk(arg, s, b) ==
  \/ /\ arg = "bad_block"
     /\ dsb' = s
     /\ dbitmap' = b
     /\ UNCHANGED <<inode, data>>
  \/ /\ arg # "bad_block"
     /\ dsb' = IF arg = "fine" THEN FreshSb ELSE ZeroSb
     /\ dbitmap' = FormatBitmap(arg)
     /\ inode' = [i \in InodeId |-> ZeroInode]
     /\ data' = [x \in Block |-> ZeroChunk]

AnswerFormat(arg) == IF arg = "fine" THEN Ok("format", <<>>) ELSE Error("format")

\* ./mini_fs format: a process of its own, which never mounts.
CliFormat(arg) ==
  /\ ~up
  /\ FormatDisk(arg, dsb, dbitmap)
  /\ AnswerFormat(arg)
  /\ UNCHANGED <<up, sb, bitmap>>

\* What fs_unmount leaves on the disk: nothing when the superblock in memory
\* is all zero, because the block size is then 0.
SyncedSb     == IF sb.magic THEN sb ELSE dsb
SyncedBitmap == IF sb.magic THEN bitmap ELSE dbitmap

\* The shell's format: unmount, format, mount.  Neither result is looked at:
\* when the format failed on a truncated disk the shell goes on with an
\* all-zero superblock.
ShellFormat(arg) ==
  /\ up
  /\ FormatDisk(arg, SyncedSb, SyncedBitmap)
  /\ AnswerFormat(arg)
  /\ sb' = dsb'
  /\ bitmap' = IF dsb'.magic THEN dbitmap' ELSE bitmap
  /\ UNCHANGED up

\* fs_mount; without the magic number the process gives up.
Mount ==
  /\ ~up
  /\ dsb.magic
  /\ up' = TRUE
  /\ sb' = dsb
  /\ bitmap' = dbitmap
  /\ UNCHANGED <<disk, reply>>

\* The process ends and its memory goes with it.
Exit == up' = FALSE /\ sb' = ZeroSb /\ bitmap' = {}

Unmount ==
  /\ up
  /\ dsb' = SyncedSb
  /\ dbitmap' = SyncedBitmap
  /\ Exit
  /\ UNCHANGED <<inode, data, reply>>

\* The process is killed while it waits for a command.
Kill == up /\ Exit /\ UNCHANGED <<disk, reply>>

-----------------------------------------------------------------------------
(* Commands that change the name space or the metadata.                    *)

\* A bug: the name is not looked up.
MayCreateBlindly(n) == n \in Name /\ sb.free_inodes # 0

MayCreate(n) ==
  /\ n \in Name
  /\ Holders(n) = {}
  /\ sb.free_inodes # 0

NewInode(n) == [ZeroInode EXCEPT !.used = TRUE, !.name = n,
                                 !.mode = [reg |-> TRUE, perm |-> DefaultPerm]]

Create(n) ==
  /\ up
  /\ \/ ~MayCreate(n) /\ Refuse("create")
     \/ /\ MayCreate(n)
        /\ \E i \in InodeId :
             /\ IsFirst(i, FreeSlots)
             /\ inode' = [inode EXCEPT ![i] = NewInode(n)]
        /\ sb' = [sb EXCEPT !.free_inodes = @ - 1]
        /\ SaveSb
        /\ Ok("create", <<>>)
        /\ UNCHANGED <<up, bitmap, dbitmap, data>>

Delete(n) ==
  /\ up
  /\ \/ Holders(n) = {} /\ Refuse("rm")
     \/ \E i \in InodeId :
          /\ Found(n, i)
          /\ bitmap' = bitmap \ Image(inode[i].direct)
          /\ SyncBitmap
          /\ inode' = [inode EXCEPT ![i] = ZeroInode]
          /\ sb' = [sb EXCEPT !.free_blocks = @ + Blocks(inode[i].size),
                              !.free_inodes = @ + 1]
          /\ SaveSb
          /\ Ok("rm", <<>>)
          /\ UNCHANGED <<up, data>>

Rename(old, new) ==
  /\ up
  /\ \/ /\ new \in LongName \/ Holders(old) = {} \/ Holders(new) # {}
        /\ Refuse("rename")
     \/ \E i \in InodeId :
          /\ Found(old, i)
          /\ new \in Name
          /\ Holders(new) = {}
          /\ inode' = [inode EXCEPT ![i].name = new]
          /\ Ok("rename", <<>>)
          /\ UNCHANGED <<up, sb, bitmap, dsb, dbitmap, data>>

\* The type bits of the mode survive; the argument's are masked off.
Chmod(n, mode) ==
  /\ up
  /\ \/ Holders(n) = {} /\ Refuse("chmod")
     \/ \E i \in InodeId :
          /\ Found(n, i)
          /\ inode' = [inode EXCEPT ![i].mode.perm = mode.perm]
          /\ Ok("chmod", <<>>)
          /\ UNCHANGED <<up, sb, bitmap, dsb, dbitmap, data>>

Truncate(n, size) ==
  /\ up
  /\ \/ Holders(n) = {} /\ Refuse("truncate")
     \/ \E i \in InodeId :
          /\ Found(n, i)
          /\ \/ size > inode[i].size /\ Refuse("truncate")
             \/ /\ size <= inode[i].size
                /\ LET ino  == inode[i]
                       kept == [k \in 1 .. Blocks(size) |-> ino.direct[k]]
                   IN  /\ bitmap' = bitmap \ CutOff(ino, size)
                       /\ inode' = [inode EXCEPT ![i].size = size,
                                                 ![i].direct = kept]
                       /\ sb' = [sb EXCEPT !.free_blocks =
                                   @ + Blocks(ino.size) - Blocks(size)]
                /\ SyncBitmap
                /\ SaveSb
                /\ Ok("truncate", <<>>)
                /\ UNCHANGED <<up, data>>

-----------------------------------------------------------------------------
(* Commands that store and read content.                                   *)

\* A bug: a list of pointers one longer than direct_blocks.
FitsNotQuite(len) ==
  \/ BlocksNeeded(len) > MaxDirect + 1
  \/ BlocksNeeded(len) > sb.free_blocks

\* The blocks to be freed are not counted as free.
FitsNot(len) ==
  \/ BlocksNeeded(len) > MaxDirect
  \/ BlocksNeeded(len) > sb.free_blocks

\* _do_write and the inode_write and superblock write after it: slot i gets
\* inode ino with the new content; s is the superblock in memory so far.
\* The loop's own failure exit needs free_blocks to exceed the clear bits,
\* which CountsAgree excludes.
Store(i, ino, bytes, s) ==
  LET need == BlocksNeeded(Len(bytes))
      old  == Image(ino.direct)
  IN  \E pick \in FirstFit(need, (Block \ bitmap) \cup old) :
        /\ bitmap' = (bitmap \ old) \cup Image(pick)
        /\ SyncBitmap
        /\ data' = [b \in Block |->
                      IF b \in Image(pick)
                      THEN ChunkOf(bytes, CHOOSE k \in 1 .. need : pick[k] = b)
                      ELSE data[b]]
        /\ inode' = [inode EXCEPT ![i] =
                      [ino EXCEPT !.size = Len(bytes),
                                  !.direct = [k \in 1 .. Blocks(Len(bytes)) |-> pick[k]]]]
        /\ sb' = [s EXCEPT !.free_blocks = @ + Blocks(ino.size) - need,
                           !.total_writes = Bump(@)]
        /\ SaveSb

Write(n, bytes) ==
  /\ up
  /\ \/ /\ Holders(n) = {} \/ FitsNot(Len(bytes))
        /\ Refuse("write")
     \/ \E i \in InodeId :
          /\ Found(n, i)
          /\ ~FitsNot(Len(bytes))
          /\ Store(i, inode[i], bytes, sb)
          /\ Ok("write", <<>>)
          /\ UNCHANGED up

\* The whole file is read back and stored again with the bytes added.
AppendTo(n, bytes) ==
  /\ up
  /\ \/ Holders(n) = {} /\ Refuse("append")
     \/ \E i \in InodeId :
          /\ Found(n, i)
          /\ LET all == Content(inode[i]) \o bytes
             IN  \/ FitsNot(Len(all)) /\ Refuse("append")
                 \/ /\ ~FitsNot(Len(all))
                    /\ Store(i, inode[i], all, sb)
                    /\ Ok("append", <<>>)
                    /\ UNCHANGED up

\* fs_copy does not check the length of dst; strncpy clips it.  When the
\* content does not fit, the slot just taken is given back.
Stored(n) == IF n \in LongName THEN Clip[n] ELSE n

Copy(src, dst) ==
  /\ up
  /\ \/ /\ Holders(src) = {} \/ Holders(dst) # {} \/ sb.free_inodes = 0
        /\ Refuse("cp")
     \/ \E i, j \in InodeId :
          /\ Found(src, i)
          /\ Holders(dst) = {}
          /\ sb.free_inodes # 0
          /\ IsFirst(j, FreeSlots)
          /\ LET new == [NewInode(Stored(dst)) EXCEPT !.mode = inode[i].mode]
                 s   == [sb EXCEPT !.free_inodes = @ - 1]
             IN  \/ /\ inode[i].size = 0
                    /\ inode' = [inode EXCEPT ![j] = new]
                    /\ sb' = s
                    /\ SaveSb
                    /\ Ok("cp", <<>>)
                    /\ UNCHANGED <<up, bitmap, dbitmap, data>>
                 \/ /\ inode[i].size > 0
                    /\ ~FitsNot(inode[i].size)
                    /\ Store(j, new, Content(inode[i]), s)
                    /\ Ok("cp", <<>>)
                    /\ UNCHANGED up
                 \/ /\ inode[i].size > 0
                    /\ FitsNot(inode[i].size)
                    /\ Refuse("cp")

Read(n) ==
  /\ up
  /\ \/ Holders(n) = {} /\ Refuse("read")
     \/ \E i \in InodeId :
          /\ Found(n, i)
          /\ Ok("read", Content(inode[i]))
          /\ sb' = [sb EXCEPT !.total_reads = Bump(@)]
          /\ SaveSb
          /\ UNCHANGED <<up, bitmap, dbitmap, inode, data>>

\* stat prints the size, the blocks computed from it, and the mode.
Stat(n) ==
  /\ up
  /\ \/ Holders(n) = {} /\ Refuse("stat")
     \/ \E i \in InodeId :
          /\ Found(n, i)
          /\ Ok("stat", <<inode[i].size, Blocks(inode[i].size), inode[i].mode.perm>>)
          /\ UNCHANGED <<up, sb, bitmap, disk>>

UsedSlots == {i \in InodeId : inode[i].used}

\* ls goes through the slots max_inodes counts, which is 0 in a superblock
\* that is all zero.
Ls ==
  /\ up
  /\ Ok("ls", <<IF sb.magic THEN Cardinality(UsedSlots) ELSE 0>>)
  /\ UNCHANGED <<up, sb, bitmap, disk>>

\* statfs prints the counters of the superblock in memory.
Statfs ==
  /\ up
  /\ Ok("statfs", <<sb.free_blocks, sb.free_inodes>>)
  /\ UNCHANGED <<up, sb, bitmap, disk>>

-----------------------------------------------------------------------------
(* fsck.  It looks at the superblock in memory and at the inodes on the    *)
(* disk, and never at the bitmap.                                          *)

\* The block pointers of the files: a slot and a position in its list.
Pointer == {p \in InodeId \X (1 .. MaxDirect) :
              inode[p[1]].used /\ p[2] \in DOMAIN inode[p[1]].direct}

BlockAt(p) == inode[p[1]].direct[p[2]]

FsckFindsNothing ==
  /\ sb.magic
  /\ \A p \in Pointer : BlockAt(p) \in DataBlock
  /\ Cardinality(UsedSlots) = MaxInodes - sb.free_inodes
  /\ Cardinality(Pointer) = TotalBlocks - DataStart - sb.free_blocks

Fsck ==
  /\ up
  /\ IF FsckFindsNothing THEN Ok("fsck", <<>>) ELSE Error("fsck")
  /\ UNCHANGED <<up, sb, bitmap, disk>>

-----------------------------------------------------------------------------
Command ==
  \/ Fsck \/ Ls \/ Statfs
  \/ \E n \in AnyName : Create(n) \/ Delete(n) \/ Read(n) \/ Stat(n)
  \/ \E n \in AnyName, m \in AnyName : Rename(n, m) \/ Copy(n, m)
  \/ \E n \in AnyName, mode \in Mode : Chmod(n, mode)
  \/ \E n \in AnyName, size \in Size : Truncate(n, size)
  \/ \E n \in AnyName, bytes \in Payload : Write(n, bytes) \/ AppendTo(n, bytes)

Next ==
  \/ \E arg \in FormatArg : CliFormat(arg) \/ ShellFormat(arg)
  \/ Mount
  \/ Unmount
  \/ Kill
  \/ Command

Spec == Init /\ [][Next]_vars

-----------------------------------------------------------------------------
(* Properties.                                                             *)

\* Every variable has its type and an inode lists exactly the blocks its
\* size calls for; the unsigned counters of the superblock never wrap.
TypeOK ==
  /\ up \in BOOLEAN
  /\ sb \in Superblock
  /\ dsb \in Superblock
  /\ bitmap \subseteq Block
  /\ dbitmap \subseteq Block
  /\ inode \in [InodeId -> Inode]
  /\ \A i \in InodeId : DOMAIN inode[i].direct = 1 .. Blocks(inode[i].size)
  /\ data \in [Block -> Chunk]
  /\ reply \in Reply

\* Between two commands memory holds nothing the disk lacks, so a kill loses
\* nothing: every command ends with disk_write(0, &sb) where it changed sb,
\* and every bitmap change ends with bitmap_sync.  A process that lost its
\* superblock to a failed format sees a disk without one.
Durable ==
  up => /\ sb = dsb
        /\ sb.magic => bitmap = dbitmap

\* Every block a file points at is a data block marked in the bitmap, and no
\* two pointers name the same block: bitmap_allocate_block never hands out
\* a block that is in use, and no block in use is ever freed.
NoSharedBlocks ==
  /\ \A p \in Pointer : BlockAt(p) \in DataBlock \cap dbitmap
  /\ \A p, q \in Pointer : BlockAt(p) = BlockAt(q) => p = q

\* On a formatted disk the metadata blocks stay marked for ever.
MetadataMarked == dsb.magic => MetaBlock \subseteq dbitmap

\* The free counters of the superblock agree with the bitmap and with the
\* inode table: no early return leaves one of them changed alone.
CountsAgree ==
  dsb.magic => /\ dsb.free_blocks = Cardinality(Block \ dbitmap)
               /\ dsb.free_inodes = Cardinality(FreeSlots)

\* Two files never have the same name: create, rename and cp look the new
\* name up first.  (False when cp can be given a name it clips.)
NamesUnique == \A i, j \in UsedSlots : inode[i].name = inode[j].name => i = j

\* A block is marked only when it is metadata or a file owns it.  (False
\* when a file can be given an empty content, see _do_write.)
NoLeak == dsb.magic => dbitmap = MetaBlock \cup {BlockAt(p) : p \in Pointer}

\* fsck would report a clean file system.  (False with empty contents.)
FsckClean == up /\ sb.magic => FsckFindsNothing
=============================================================================
