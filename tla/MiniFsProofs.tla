---------------------------- MODULE MiniFsProofs ----------------------------
(***************************************************************************)
(* Type correctness of MiniFs for every volume and every set of names,     *)
(* contents and permissions.                                               *)
(***************************************************************************)
EXTENDS MiniFs, FiniteSetTheorems, TLAPS

-----------------------------------------------------------------------------
(* Arithmetic of sizes and blocks.                                         *)

\* A size has a number of blocks, none only when it is 0.
LEMMA BlocksType ==
  ASSUME NEW s \in Nat
  PROVE  Blocks(s) \in Nat /\ (Blocks(s) = 0 <=> s = 0)
BY GeometryAssumption DEF GeometryAssumption, Blocks

\* A smaller file has no more blocks.
LEMMA BlocksMonotone ==
  ASSUME NEW s \in Nat, NEW t \in Nat, s <= t
  PROVE  Blocks(s) <= Blocks(t)
BY GeometryAssumption DEF GeometryAssumption, Blocks

\* k blocks hold the sizes up to k * BlockSize.
LEMMA BlocksBound ==
  ASSUME NEW s \in Nat, NEW k \in Nat
  PROVE  Blocks(s) <= k <=> s <= k * BlockSize
BY GeometryAssumption DEF GeometryAssumption, Blocks

\* The p-th byte of a file lies in one of its blocks.
LEMMA ByteInBlock ==
  ASSUME NEW s \in Nat, NEW p \in 1 .. s
  PROVE  ((p - 1) \div BlockSize) + 1 \in 1 .. Blocks(s)
BY GeometryAssumption DEF GeometryAssumption, Blocks

\* ... and has a place in it.
LEMMA ByteInChunk ==
  ASSUME NEW p \in Nat \ {0}
  PROVE  ((p - 1) % BlockSize) + 1 \in 1 .. BlockSize
BY GeometryAssumption DEF GeometryAssumption

\* A size a file can have takes at most MaxDirect blocks.
LEMMA SizeBlocks ==
  ASSUME NEW s \in Size
  PROVE  s \in Nat /\ Blocks(s) \in 0 .. MaxDirect
<1>1. MaxDirect \in Nat /\ BlockSize \in Nat /\ MaxDirect * BlockSize \in Nat
  BY GeometryAssumption DEF GeometryAssumption
<1>2. s \in Nat /\ s <= MaxDirect * BlockSize
  BY <1>1 DEF Size
<1> QED
  BY <1>1, <1>2, BlocksType, BlocksBound

\* A content _do_write accepts gives a legal size and at least one block.
LEMMA AcceptedSize ==
  ASSUME NEW len \in Nat, ~FitsNot(len), sb.free_blocks \in Nat
  PROVE  /\ len \in Size
         /\ BlocksNeeded(len) \in 1 .. MaxDirect
         /\ BlocksNeeded(len) <= sb.free_blocks
         /\ Blocks(len) <= BlocksNeeded(len)
         /\ len > 0 => Blocks(len) = BlocksNeeded(len)
<1>1. MaxDirect \in Nat \ {0} /\ BlockSize \in Nat /\ MaxDirect * BlockSize \in Nat
  BY GeometryAssumption DEF GeometryAssumption
<1>2. Blocks(len) \in Nat /\ (Blocks(len) = 0 <=> len = 0)
  BY BlocksType
<1>3. BlocksNeeded(len) \in Nat \ {0} /\ Blocks(len) <= BlocksNeeded(len)
  BY <1>2 DEF BlocksNeeded
<1>4. BlocksNeeded(len) <= MaxDirect /\ BlocksNeeded(len) <= sb.free_blocks
  BY <1>1, <1>3 DEF FitsNot
<1>5. Blocks(len) <= MaxDirect
  BY <1>1, <1>2, <1>3, <1>4
<1>6. len <= MaxDirect * BlockSize
  BY <1>1, <1>5, BlocksBound
<1> QED
  BY <1>1, <1>2, <1>3, <1>4, <1>6 DEF Size, BlocksNeeded

-----------------------------------------------------------------------------
(* Types of what the commands compute.                                     *)

\* A list of pointers is a function of at most MaxDirect positions to blocks.
LEMMA DirectType ==
  ASSUME NEW d, NEW k \in 0 .. MaxDirect, DOMAIN d = 1 .. k
  PROVE  d \in Direct <=> d \in [1 .. k -> Block]
<1>1. d \in [1 .. k -> Block] => d \in Direct
  BY DEF Direct
<1>2. ASSUME d \in Direct PROVE d \in [1 .. k -> Block]
  <2>1. PICK m \in 0 .. MaxDirect : d \in [1 .. m -> Block]
    BY <1>2 DEF Direct
  <2>2. DOMAIN d = 1 .. m
    BY <2>1
  <2> QED
    BY <2>1, <2>2
<1> QED
  BY <1>1, <1>2

\* The bytes of a file are a sequence of its size.
LEMMA ContentType ==
  ASSUME TypeOK, NEW i \in InodeId
  PROVE  /\ Content(inode[i]) \in Seq(Byte \cup {0})
         /\ Content(inode[i]) \in Seq(Nat)
         /\ Len(Content(inode[i])) = inode[i].size
<1> DEFINE ino == inode[i]
<1>1. /\ ino \in Inode
      /\ DOMAIN ino.direct = 1 .. Blocks(ino.size)
      /\ data \in [Block -> Chunk]
  BY DEF TypeOK
<1>2. ino.size \in Nat /\ ino.size \in Size
  BY <1>1, SizeBlocks DEF Inode
<1>3. \A k \in 1 .. Blocks(ino.size) : ino.direct[k] \in Block
  BY <1>1, <1>2, SizeBlocks, DirectType DEF Inode
<1>4. \A p \in 1 .. ino.size :
        data[ino.direct[((p - 1) \div BlockSize) + 1]][((p - 1) % BlockSize) + 1]
          \in Byte \cup {0}
  <2> TAKE p \in 1 .. ino.size
  <2>1. data[ino.direct[((p - 1) \div BlockSize) + 1]] \in Chunk
    BY <1>1, <1>2, <1>3, ByteInBlock
  <2>2. ((p - 1) % BlockSize) + 1 \in 1 .. BlockSize
    BY <1>2, ByteInChunk
  <2> QED
    BY <2>1, <2>2 DEF Chunk
<1>5. Content(ino) \in [1 .. ino.size -> Byte \cup {0}]
  BY <1>4 DEF Content
<1>6. Byte \cup {0} \subseteq Nat
  BY BytesAssumption DEF BytesAssumption
<1>7. Content(ino) \in [1 .. ino.size -> Nat]
  BY <1>5, <1>6
<1> QED
  BY <1>2, <1>5, <1>7

\* A block of a buffer is a block of bytes.
LEMMA ChunkType ==
  ASSUME NEW bytes \in Seq(Byte \cup {0}), NEW k \in Nat \ {0}
  PROVE  ChunkOf(bytes, k) \in Chunk
<1> SUFFICES ASSUME NEW j \in 1 .. BlockSize, (k - 1) * BlockSize + j <= Len(bytes)
             PROVE  bytes[(k - 1) * BlockSize + j] \in Byte \cup {0}
  BY DEF ChunkOf, Chunk
<1>1. (k - 1) * BlockSize \in Nat
  BY GeometryAssumption DEF GeometryAssumption
<1>2. (k - 1) * BlockSize + j \in 1 .. Len(bytes)
  BY <1>1, GeometryAssumption DEF GeometryAssumption
<1> QED
  BY <1>2

\* The bytes of a content are a legal buffer.
LEMMA BufferType ==
  ASSUME NEW bytes \in Seq(Byte)
  PROVE  bytes \in Seq(Byte \cup {0})
OBVIOUS

\* What the pointers of an inode name are blocks.
LEMMA ImageType ==
  ASSUME NEW ino \in Inode
  PROVE  Image(ino.direct) \subseteq Block
<1>1. ino.direct \in Direct
  BY DEF Inode
<1>2. PICK k \in 0 .. MaxDirect : ino.direct \in [1 .. k -> Block]
  BY <1>1 DEF Direct
<1> QED
  BY <1>2 DEF Image

\* An inode with one field changed is still an inode.
LEMMA InodeType ==
  ASSUME NEW ino \in Inode
  PROVE  /\ \A n \in Name : [ino EXCEPT !.name = n] \in Inode
         /\ \A m \in Mode : [ino EXCEPT !.mode = m] \in Inode
         /\ \A q \in Perm : [ino EXCEPT !.mode.perm = q] \in Inode
         /\ \A z \in Size, d \in Direct : [ino EXCEPT !.size = z, !.direct = d] \in Inode
BY DEF Inode, Mode

\* The inodes the code makes up have their type and point at nothing.
LEMMA NewInodeType ==
  /\ ZeroInode \in Inode /\ ZeroInode.direct = <<>> /\ ZeroInode.size = 0
  /\ \A n \in Name : /\ NewInode(n) \in Inode
                     /\ NewInode(n).direct = <<>>
                     /\ NewInode(n).size = 0
                     /\ NewInode(n).used
<1>1. <<>> \in Direct
  <2>1. MaxDirect \in Nat
    BY GeometryAssumption DEF GeometryAssumption
  <2>2. 0 \in 0 .. MaxDirect /\ <<>> \in [1 .. 0 -> Block]
    BY <2>1
  <2> QED
    BY <2>2 DEF Direct
<1>2. 0 \in Size
  BY GeometryAssumption DEF GeometryAssumption, Size
<1>3. "" \in Name /\ 0 \in Perm /\ DefaultPerm \in Perm
  BY NamesAssumption, BytesAssumption DEF NamesAssumption, BytesAssumption
<1>4. ZeroInode \in Inode /\ ZeroInode.direct = <<>> /\ ZeroInode.size = 0
  BY <1>1, <1>2, <1>3 DEF ZeroInode, Inode, Mode
<1>5. ASSUME NEW n \in Name
      PROVE  /\ NewInode(n) \in Inode
             /\ NewInode(n).direct = <<>>
             /\ NewInode(n).size = 0
             /\ NewInode(n).used
  BY <1>1, <1>2, <1>3 DEF NewInode, ZeroInode, Inode, Mode
<1> QED
  BY <1>4, <1>5

\* The superblocks the code makes up have their type.
LEMMA NewSbType ==
  ZeroSb \in Superblock /\ FreshSb \in Superblock
<1>1. /\ 0 \in 0 .. StatWrap - 1
      /\ TotalBlocks - DataStart \in Nat
      /\ MaxInodes \in Nat
  BY GeometryAssumption DEF GeometryAssumption
<1>2. ZeroSb \in Superblock
  BY <1>1 DEF ZeroSb, Superblock
<1>3. FreshSb \in Superblock
  BY <1>1, <1>2 DEF FreshSb, Superblock
<1> QED
  BY <1>2, <1>3

\* A file without bytes has no blocks.
LEMMA NoBlocks == Blocks(0) = 0
BY BlocksType

-----------------------------------------------------------------------------
(* TypeOK is an invariant.                                                 *)

\* The part of TypeOK that speaks of the volume.
VolumeType ==
  /\ sb \in Superblock
  /\ dsb \in Superblock
  /\ bitmap \subseteq Block
  /\ dbitmap \subseteq Block
  /\ inode \in [InodeId -> Inode]
  /\ \A i \in InodeId : DOMAIN inode[i].direct = 1 .. Blocks(inode[i].size)
  /\ data \in [Block -> Chunk]

\* _do_write and the writes after it leave the volume well typed.
LEMMA StoreType ==
  ASSUME VolumeType,
         NEW i \in InodeId, NEW ino \in Inode, NEW bytes \in Seq(Byte \cup {0}),
         NEW s \in Superblock, s.free_blocks = sb.free_blocks,
         ~FitsNot(Len(bytes)),
         Store(i, ino, bytes, s)
  PROVE  VolumeType'
<1> DEFINE need == BlocksNeeded(Len(bytes))
           old  == Image(ino.direct)
           kept == Blocks(Len(bytes))
<1>1. sb.free_blocks \in Nat
  BY DEF VolumeType, Superblock
<1>2. /\ Len(bytes) \in Size
      /\ need \in 1 .. MaxDirect
      /\ need <= sb.free_blocks
      /\ kept \in 0 .. need
  BY <1>1, AcceptedSize, BlocksType
<1>3. PICK pick \in FirstFit(need, (Block \ bitmap) \cup old) :
        /\ bitmap' = (bitmap \ old) \cup Image(pick)
        /\ dbitmap' = bitmap'
        /\ data' = [b \in Block |->
                      IF b \in Image(pick)
                      THEN ChunkOf(bytes, CHOOSE k \in 1 .. need : pick[k] = b)
                      ELSE data[b]]
        /\ inode' = [inode EXCEPT ![i] =
                      [ino EXCEPT !.size = Len(bytes),
                                  !.direct = [k \in 1 .. kept |-> pick[k]]]]
        /\ sb' = [s EXCEPT !.free_blocks = @ + Blocks(ino.size) - need,
                           !.total_writes = Bump(@)]
        /\ dsb' = sb'
  BY DEF Store, SaveSb, SyncBitmap
<1>4. old \subseteq Block
  BY ImageType
<1>5. pick \in [1 .. need -> Block]
  BY <1>3, <1>4 DEF FirstFit
<1>6. bitmap' \subseteq Block /\ dbitmap' \subseteq Block
  BY <1>3, <1>5 DEF VolumeType, Image
<1>7. data' \in [Block -> Chunk]
  <2> SUFFICES ASSUME NEW b \in Image(pick)
               PROVE  ChunkOf(bytes, CHOOSE k \in 1 .. need : pick[k] = b) \in Chunk
    BY <1>3 DEF VolumeType
  <2>1. \E k \in 1 .. need : pick[k] = b
    BY <1>5 DEF Image
  <2>2. (CHOOSE k \in 1 .. need : pick[k] = b) \in Nat \ {0}
    BY <2>1, <1>2
  <2> QED
    BY <2>2, ChunkType
<1>8. /\ sb' \in Superblock
      /\ dsb' \in Superblock
  <2>1. ino.size \in Size
    BY DEF Inode
  <2>2. s.free_blocks + Blocks(ino.size) - need \in Nat
    BY <1>1, <1>2, <2>1, SizeBlocks
  <2>3. Bump(s.total_writes) \in 0 .. StatWrap - 1
    BY GeometryAssumption DEF GeometryAssumption, Bump, Superblock
  <2> QED
    BY <1>3, <2>2, <2>3 DEF Superblock
<1>9. /\ inode' \in [InodeId -> Inode]
      /\ \A j \in InodeId : DOMAIN inode'[j].direct = 1 .. Blocks(inode'[j].size)
  <2> DEFINE d   == [k \in 1 .. kept |-> pick[k]]
             new == [ino EXCEPT !.size = Len(bytes), !.direct = d]
  <2>1. kept \in 0 .. MaxDirect
    BY <1>2, GeometryAssumption DEF GeometryAssumption
  <2>2. d \in [1 .. kept -> Block]
    BY <1>2, <1>5
  <2>3. d \in Direct
    BY <2>1, <2>2, DirectType
  <2>4. new \in Inode
    BY <1>2, <2>3, InodeType
  <2>5. new.size = Len(bytes) /\ new.direct = d
    BY DEF Inode
  <2>6. inode' = [inode EXCEPT ![i] = new]
    BY <1>3
  <2> HIDE DEF new
  <2> QED
    BY <2>2, <2>4, <2>5, <2>6 DEF VolumeType
<1> QED
  BY <1>6, <1>7, <1>8, <1>9 DEF VolumeType

\* TypeOK in three parts.
LEMMA TypeParts ==
  /\ TypeOK <=> up \in BOOLEAN /\ VolumeType /\ reply \in Reply
  /\ TypeOK' <=> up' \in BOOLEAN /\ VolumeType' /\ reply' \in Reply
BY DEF TypeOK, VolumeType

\* An answer without output has its type.
LEMMA AnswerType ==
  ASSUME NEW cmd \in CommandName, Ok(cmd, <<>>) \/ Error(cmd)
  PROVE  reply' \in Reply
<1>1. <<>> \in Seq(Nat)
  OBVIOUS
<1>2. CASE Ok(cmd, <<>>)
  BY <1>1, <1>2 DEF Ok, Reply
<1>3. CASE Error(cmd)
  BY <1>1, <1>3 DEF Error, Reply
<1> QED
  BY <1>2, <1>3

\* A command that is refused keeps every type.
LEMMA RefuseType ==
  ASSUME TypeOK, NEW cmd \in CommandName, Refuse(cmd)
  PROVE  TypeOK'
<1>1. reply' \in Reply
  BY AnswerType DEF Refuse
<1>2. VolumeType' /\ up' \in BOOLEAN
  BY TypeParts DEF Refuse, disk, VolumeType
<1> QED
  BY <1>1, <1>2, TypeParts

\* A volume on which one slot got a legal inode is still well typed.
LEMMA SlotType ==
  ASSUME VolumeType, NEW i \in InodeId, NEW new \in Inode,
         DOMAIN new.direct = 1 .. Blocks(new.size),
         inode' = [inode EXCEPT ![i] = new],
         sb' \in Superblock, dsb' \in Superblock,
         bitmap' \subseteq Block, dbitmap' \subseteq Block,
         data' = data
  PROVE  VolumeType'
BY DEF VolumeType

\* The slot a name is found in.
LEMMA FoundSlot ==
  ASSUME NEW n, NEW i, Found(n, i)
  PROVE  i \in InodeId /\ sb.magic /\ inode[i].used /\ inode[i].name = n
BY DEF Found, IsFirst, Holders

\* What a format leaves on the disk is well typed.
LEMMA FormatType ==
  ASSUME VolumeType, NEW arg \in FormatArg, NEW s \in Superblock, NEW b \in SUBSET Block,
         FormatDisk(arg, s, b)
  PROVE  /\ dsb' \in Superblock
         /\ dbitmap' \subseteq Block
         /\ inode' \in [InodeId -> Inode]
         /\ \A i \in InodeId : DOMAIN inode'[i].direct = 1 .. Blocks(inode'[i].size)
         /\ data' \in [Block -> Chunk]
<1>1. CASE arg = "bad_block"
  BY <1>1 DEF FormatDisk, VolumeType
<1>2. CASE arg # "bad_block"
  <2>1. /\ dsb' \in {FreshSb, ZeroSb}
        /\ dbitmap' \in {MetaBlock, {}}
        /\ inode' = [i \in InodeId |-> ZeroInode]
        /\ data' = [x \in Block |-> ZeroChunk]
    BY <1>2 DEF FormatDisk, FormatBitmap
  <2>2. MetaBlock \subseteq Block
    BY GeometryAssumption DEF GeometryAssumption, MetaBlock, Block
  <2>3. ZeroChunk \in Chunk
    BY DEF ZeroChunk, Chunk
  <2>4. ZeroInode \in Inode /\ DOMAIN ZeroInode.direct = 1 .. Blocks(ZeroInode.size)
    BY NewInodeType, NoBlocks
  <2> QED
    BY <2>1, <2>2, <2>3, <2>4, NewSbType
<1> QED
  BY <1>1, <1>2

\* Every step keeps TypeOK.
LEMMA TypeStep == TypeOK /\ [Next]_vars => TypeOK'
<1> SUFFICES ASSUME TypeOK, [Next]_vars PROVE TypeOK'
  OBVIOUS
<1> USE DEF CommandName
<1>0. up \in BOOLEAN /\ VolumeType /\ reply \in Reply
  BY TypeParts
<1>1. ASSUME NEW arg \in FormatArg, CliFormat(arg) PROVE TypeOK'
  <2>1. reply' \in Reply
    BY <1>1, AnswerType DEF CliFormat, AnswerFormat
  <2>2. dsb \in Superblock /\ dbitmap \in SUBSET Block
    BY <1>0 DEF VolumeType
  <2>3. VolumeType'
    BY <1>0, <1>1, <2>2, FormatType DEF CliFormat, VolumeType
  <2> QED
    BY <1>0, <1>1, <2>1, <2>3, TypeParts DEF CliFormat
<1>2. ASSUME NEW arg \in FormatArg, ShellFormat(arg) PROVE TypeOK'
  <2>1. reply' \in Reply
    BY <1>2, AnswerType DEF ShellFormat, AnswerFormat
  <2>2. SyncedSb \in Superblock /\ SyncedBitmap \in SUBSET Block
    BY <1>0 DEF VolumeType, SyncedSb, SyncedBitmap
  <2>3. VolumeType'
    BY <1>0, <1>2, <2>2, FormatType DEF ShellFormat, VolumeType
  <2> QED
    BY <1>0, <1>2, <2>1, <2>3, TypeParts DEF ShellFormat
<1>3. CASE Mount
  BY <1>3 DEF Mount, disk, TypeOK
<1>4. CASE Unmount
  BY <1>4, NewSbType DEF Unmount, Exit, SyncedSb, SyncedBitmap, TypeOK
<1>5. CASE Kill
  BY <1>5, NewSbType DEF Kill, Exit, disk, TypeOK
<1>6. ASSUME NEW n \in AnyName, Create(n) PROVE TypeOK'
  <2>1. CASE Refuse("create")
    BY <2>1, RefuseType
  <2>2. CASE MayCreate(n) /\ ~Refuse("create")
    <3>1. PICK i \in InodeId : inode' = [inode EXCEPT ![i] = NewInode(n)]
      BY <1>6, <2>2 DEF Create
    <3>2. n \in Name /\ sb.free_inodes # 0
      BY <2>2 DEF MayCreate
    <3>3. sb' \in Superblock
      BY <1>0, <1>6, <2>2, <3>2 DEF Create, VolumeType, Superblock, SaveSb
    <3>4. VolumeType'
      BY <1>0, <1>6, <2>2, <3>1, <3>2, <3>3, NewInodeType, NoBlocks, SlotType
         DEF Create, VolumeType, SaveSb
    <3>5. reply' \in Reply /\ up' \in BOOLEAN
      BY <1>0, <1>6, <2>2, AnswerType DEF Create
    <3> QED
      BY <3>4, <3>5, TypeParts
  <2> QED
    BY <1>6, <2>1, <2>2 DEF Create
<1>7. ASSUME NEW n \in AnyName, Delete(n) PROVE TypeOK'
  <2>1. CASE Refuse("rm")
    BY <2>1, RefuseType
  <2>2. ASSUME NEW i \in InodeId, Found(n, i),
               bitmap' = bitmap \ Image(inode[i].direct),
               dbitmap' = bitmap',
               inode' = [inode EXCEPT ![i] = ZeroInode],
               sb' = [sb EXCEPT !.free_blocks = @ + Blocks(inode[i].size),
                                !.free_inodes = @ + 1],
               dsb' = sb',
               Ok("rm", <<>>),
               UNCHANGED <<up, data>>
        PROVE  TypeOK'
    <3>1. Blocks(inode[i].size) \in Nat
      BY <1>0, SizeBlocks DEF VolumeType, Inode
    <3>2. sb' \in Superblock
      <4>1. sb \in Superblock /\ sb.free_blocks \in Nat /\ sb.free_inodes \in Nat
        BY <1>0 DEF VolumeType, Superblock
      <4>2. /\ sb.free_blocks + Blocks(inode[i].size) \in Nat
            /\ sb.free_inodes + 1 \in Nat
        BY <3>1, <4>1
      <4> QED
        BY <2>2, <4>1, <4>2 DEF Superblock
    <3>3. VolumeType'
      BY <1>0, <2>2, <3>2, NewInodeType, NoBlocks, SlotType DEF VolumeType
    <3> QED
      BY <1>0, <2>2, <3>3, AnswerType, TypeParts
  <2> QED
    BY <1>7, <2>1, <2>2 DEF Delete, SaveSb, SyncBitmap
<1>8. ASSUME NEW old \in AnyName, NEW new \in AnyName, Rename(old, new) PROVE TypeOK'
  <2>1. CASE Refuse("rename")
    BY <2>1, RefuseType
  <2>2. ASSUME NEW i \in InodeId, new \in Name,
               inode' = [inode EXCEPT ![i].name = new],
               Ok("rename", <<>>),
               UNCHANGED <<up, sb, bitmap, dsb, dbitmap, data>>
        PROVE  TypeOK'
    <3>1. [inode[i] EXCEPT !.name = new] \in Inode
      BY <1>0, <2>2, InodeType DEF VolumeType
    <3>2. VolumeType'
      BY <1>0, <2>2, <3>1, SlotType DEF VolumeType, Inode
    <3> QED
      BY <1>0, <2>2, <3>2, AnswerType, TypeParts
  <2> QED
    BY <1>8, <2>1, <2>2 DEF Rename
<1>9. ASSUME NEW n \in AnyName, NEW mode \in Mode, Chmod(n, mode) PROVE TypeOK'
  <2>1. CASE Refuse("chmod")
    BY <2>1, RefuseType
  <2>2. ASSUME NEW i \in InodeId,
               inode' = [inode EXCEPT ![i].mode.perm = mode.perm],
               Ok("chmod", <<>>),
               UNCHANGED <<up, sb, bitmap, dsb, dbitmap, data>>
        PROVE  TypeOK'
    <3>1. [inode[i] EXCEPT !.mode.perm = mode.perm] \in Inode
      BY <1>0, InodeType DEF VolumeType, Mode
    <3>2. VolumeType'
      BY <1>0, <2>2, <3>1, SlotType DEF VolumeType, Inode
    <3> QED
      BY <1>0, <2>2, <3>2, AnswerType, TypeParts
  <2> QED
    BY <1>9, <2>1, <2>2 DEF Chmod
<1>10. ASSUME NEW n \in AnyName, NEW size \in Size, Truncate(n, size) PROVE TypeOK'
  <2>1. CASE Refuse("truncate")
    BY <2>1, RefuseType
  <2>2. ASSUME NEW i \in InodeId,
               size <= inode[i].size,
               bitmap' = bitmap \ {inode[i].direct[k] :
                            k \in Blocks(size) + 1 .. Blocks(inode[i].size)},
               inode' = [inode EXCEPT ![i].size = size,
                                      ![i].direct = [k \in 1 .. Blocks(size) |->
                                                       inode[i].direct[k]]],
               sb' = [sb EXCEPT !.free_blocks =
                        @ + Blocks(inode[i].size) - Blocks(size)],
               dbitmap' = bitmap',
               dsb' = sb',
               Ok("truncate", <<>>),
               UNCHANGED <<up, data>>
        PROVE  TypeOK'
    <3> DEFINE d   == [k \in 1 .. Blocks(size) |-> inode[i].direct[k]]
               new == [inode[i] EXCEPT !.size = size, !.direct = d]
    <3>1. /\ inode[i] \in Inode /\ inode[i].size \in Size /\ inode[i].direct \in Direct
          /\ DOMAIN inode[i].direct = 1 .. Blocks(inode[i].size)
      BY <1>0 DEF VolumeType, Inode
    <3>2. /\ size \in Nat /\ Blocks(size) \in 0 .. MaxDirect
          /\ inode[i].size \in Nat /\ Blocks(inode[i].size) \in 0 .. MaxDirect
      BY <3>1, SizeBlocks
    <3>3. Blocks(size) <= Blocks(inode[i].size)
      BY <2>2, <3>2, BlocksMonotone
    <3>4. inode[i].direct \in [1 .. Blocks(inode[i].size) -> Block]
      BY <3>1, <3>2, DirectType
    <3>5. d \in [1 .. Blocks(size) -> Block]
      BY <3>2, <3>3, <3>4
    <3>6. d \in Direct
      BY <3>2, <3>5, DirectType
    <3>7. new \in Inode /\ new.size = size /\ new.direct = d
      BY <3>1, <3>6, InodeType DEF Inode
    <3>8. inode' = [inode EXCEPT ![i] = new]
      BY <1>0, <2>2 DEF VolumeType
    <3>9. sb' \in Superblock
      <4> DEFINE more == Blocks(inode[i].size) - Blocks(size)
      <4>1. sb \in Superblock /\ sb.free_blocks \in Nat
        BY <1>0 DEF VolumeType, Superblock
      <4>2. more \in Nat
        BY <3>2, <3>3
      <4>3. sb' = [sb EXCEPT !.free_blocks = sb.free_blocks + more]
        <5>1. sb.free_blocks + Blocks(inode[i].size) - Blocks(size)
                = sb.free_blocks + more
          BY <3>2, <4>1
        <5> QED
          BY <2>2, <5>1
      <4> HIDE DEF more
      <4>4. sb.free_blocks + more \in Nat
        BY <4>1, <4>2
      <4> QED
        BY <4>1, <4>3, <4>4 DEF Superblock
    <3>10. bitmap' \subseteq Block
      BY <1>0, <2>2 DEF VolumeType
    <3>11. DOMAIN new.direct = 1 .. Blocks(new.size)
      BY <3>7
    <3> HIDE DEF new
    <3>12. VolumeType'
      BY <1>0, <2>2, <3>7, <3>8, <3>9, <3>10, <3>11, SlotType
    <3> QED
      BY <1>0, <2>2, <3>12, AnswerType, TypeParts
  <2> QED
    BY <1>10, <2>1, <2>2 DEF Truncate, CutOff, SaveSb, SyncBitmap
<1>11. ASSUME NEW n \in AnyName, NEW bytes \in Payload, Write(n, bytes) PROVE TypeOK'
  <2>1. CASE Refuse("write")
    BY <2>1, RefuseType
  <2>2. ASSUME NEW i \in InodeId, ~FitsNot(Len(bytes)), Store(i, inode[i], bytes, sb),
               Ok("write", <<>>), UNCHANGED up
        PROVE  TypeOK'
    <3>1. bytes \in Seq(Byte \cup {0})
      BY BytesAssumption, BufferType DEF BytesAssumption
    <3>2. inode[i] \in Inode /\ sb \in Superblock
      BY <1>0 DEF VolumeType
    <3>3. VolumeType'
      BY <1>0, <2>2, <3>1, <3>2, StoreType
    <3> QED
      BY <1>0, <2>2, <3>3, AnswerType, TypeParts
  <2> QED
    BY <1>11, <2>1, <2>2 DEF Write
<1>12. ASSUME NEW n \in AnyName, NEW bytes \in Payload, AppendTo(n, bytes) PROVE TypeOK'
  <2>1. CASE Refuse("append")
    BY <2>1, RefuseType
  <2>2. ASSUME NEW i \in InodeId,
               ~FitsNot(Len(Content(inode[i]) \o bytes)),
               Store(i, inode[i], Content(inode[i]) \o bytes, sb),
               Ok("append", <<>>), UNCHANGED up
        PROVE  TypeOK'
    <3>1. Content(inode[i]) \o bytes \in Seq(Byte \cup {0})
      <4>1. bytes \in Seq(Byte \cup {0})
        BY BytesAssumption, BufferType DEF BytesAssumption
      <4>2. Content(inode[i]) \in Seq(Byte \cup {0})
        BY ContentType
      <4> QED
        BY <4>1, <4>2
    <3>2. inode[i] \in Inode /\ sb \in Superblock
      BY <1>0 DEF VolumeType
    <3>3. VolumeType'
      BY <1>0, <2>2, <3>1, <3>2, StoreType
    <3> QED
      BY <1>0, <2>2, <3>3, AnswerType, TypeParts
  <2> QED
    BY <1>12, <2>1, <2>2 DEF AppendTo
<1>13. ASSUME NEW src \in AnyName, NEW dst \in AnyName, Copy(src, dst) PROVE TypeOK'
  <2> DEFINE New(i) == [NewInode(Stored(dst)) EXCEPT !.mode = inode[i].mode]
             S      == [sb EXCEPT !.free_inodes = @ - 1]
  <2>1. CASE Refuse("cp")
    BY <2>1, RefuseType
  <2>2. Stored(dst) \in Name
    BY NamesAssumption DEF NamesAssumption, Stored, AnyName
  <2>3. ASSUME NEW i \in InodeId
        PROVE  New(i) \in Inode /\ New(i).direct = <<>> /\ New(i).size = 0
    <3>1. inode[i].mode \in Mode
      BY <1>0 DEF VolumeType, Inode
    <3>2. /\ NewInode(Stored(dst)) \in Inode
          /\ NewInode(Stored(dst)).direct = <<>>
          /\ NewInode(Stored(dst)).size = 0
      BY <2>2, NewInodeType
    <3>3. New(i) \in Inode
      BY <3>1, <3>2, InodeType
    <3>4. New(i).direct = <<>> /\ New(i).size = 0
      BY <3>2 DEF Inode
    <3> QED
      BY <3>3, <3>4
  <2> HIDE DEF New
  <2>4. ASSUME sb.free_inodes # 0
        PROVE  S \in Superblock /\ S.free_blocks = sb.free_blocks
    BY <1>0, <2>4 DEF VolumeType, Superblock
  <2>5. ASSUME NEW i \in InodeId, NEW j \in InodeId, sb.free_inodes # 0,
               inode' = [inode EXCEPT ![j] = New(i)],
               sb' = S, dsb' = sb', Ok("cp", <<>>),
               UNCHANGED <<up, bitmap, dbitmap, data>>
        PROVE  TypeOK'
    <3>1. DOMAIN New(i).direct = 1 .. Blocks(New(i).size)
      BY <2>3, NoBlocks
    <3>2. VolumeType'
      BY <1>0, <2>3, <2>4, <2>5, <3>1, SlotType DEF VolumeType
    <3> QED
      BY <1>0, <2>5, <3>2, AnswerType, TypeParts
  <2>6. ASSUME NEW i \in InodeId, NEW j \in InodeId, sb.free_inodes # 0,
               ~FitsNot(inode[i].size),
               Store(j, New(i), Content(inode[i]), S), Ok("cp", <<>>), UNCHANGED up
        PROVE  TypeOK'
    <3>1. /\ Content(inode[i]) \in Seq(Byte \cup {0})
          /\ Len(Content(inode[i])) = inode[i].size
      BY ContentType
    <3>2. VolumeType'
      BY <1>0, <2>3, <2>4, <2>6, <3>1, StoreType
    <3> QED
      BY <1>0, <2>6, <3>2, AnswerType, TypeParts
  <2> QED
    BY <1>13, <2>1, <2>5, <2>6 DEF Copy, New, SaveSb
<1>14. ASSUME NEW n \in AnyName, Read(n) PROVE TypeOK'
  <2>1. CASE Refuse("read")
    BY <2>1, RefuseType
  <2>2. ASSUME NEW i \in InodeId,
               Ok("read", Content(inode[i])),
               sb' = [sb EXCEPT !.total_reads = Bump(@)],
               dsb' = sb',
               UNCHANGED <<up, bitmap, dbitmap, inode, data>>
        PROVE  TypeOK'
    <3>1. reply' \in Reply
      BY <2>2, ContentType DEF Ok, Reply
    <3>2. Bump(sb.total_reads) \in 0 .. StatWrap - 1
      BY <1>0, GeometryAssumption DEF GeometryAssumption, Bump, VolumeType, Superblock
    <3>3. VolumeType'
      BY <1>0, <2>2, <3>2 DEF VolumeType, Superblock
    <3> QED
      BY <1>0, <2>2, <3>1, <3>3, TypeParts
  <2> QED
    BY <1>14, <2>1, <2>2 DEF Read, SaveSb
<1>15. ASSUME NEW n \in AnyName, Stat(n) PROVE TypeOK'
  <2>1. CASE Refuse("stat")
    BY <2>1, RefuseType
  <2>2. ASSUME NEW i \in InodeId,
               Ok("stat", <<inode[i].size, Blocks(inode[i].size), inode[i].mode.perm>>),
               UNCHANGED <<up, sb, bitmap, disk>>
        PROVE  TypeOK'
    <3>1. inode[i].size \in Nat /\ Blocks(inode[i].size) \in Nat
      BY <1>0, SizeBlocks DEF VolumeType, Inode
    <3>2. inode[i].mode.perm \in Nat
      BY <1>0, BytesAssumption DEF BytesAssumption, VolumeType, Inode, Mode
    <3>3. reply' \in Reply
      BY <2>2, <3>1, <3>2 DEF Ok, Reply
    <3>4. VolumeType'
      BY <1>0, <2>2 DEF disk, VolumeType
    <3> QED
      BY <1>0, <2>2, <3>3, <3>4, TypeParts
  <2> QED
    BY <1>15, <2>1, <2>2 DEF Stat
<1>16. CASE Fsck
  <2>1. reply' \in Reply
    BY <1>16, AnswerType DEF Fsck
  <2>2. VolumeType'
    BY <1>0, <1>16 DEF Fsck, disk, VolumeType
  <2> QED
    BY <1>0, <1>16, <2>1, <2>2, TypeParts DEF Fsck
<1>17. CASE Ls
  <2>1. IsFiniteSet(InodeId)
    BY FS_Interval, GeometryAssumption DEF GeometryAssumption, InodeId
  <2>2. Cardinality(UsedSlots) \in Nat
    BY <2>1, FS_Subset, FS_CardinalityType DEF UsedSlots
  <2>3. reply' \in Reply
    BY <1>17, <2>2 DEF Ls, Ok, Reply, CommandName
  <2>4. VolumeType'
    BY <1>0, <1>17 DEF Ls, disk, VolumeType
  <2> QED
    BY <1>0, <1>17, <2>3, <2>4, TypeParts DEF Ls
<1>18. CASE Statfs
  <2>1. sb.free_blocks \in Nat /\ sb.free_inodes \in Nat
    BY <1>0 DEF VolumeType, Superblock
  <2>2. reply' \in Reply
    BY <1>18, <2>1 DEF Statfs, Ok, Reply, CommandName
  <2>3. VolumeType'
    BY <1>0, <1>18 DEF Statfs, disk, VolumeType
  <2> QED
    BY <1>0, <1>18, <2>2, <2>3, TypeParts DEF Statfs
<1>19. CASE UNCHANGED vars
  BY <1>19 DEF vars, disk, TypeOK
<1> QED
  BY <1>1, <1>2, <1>3, <1>4, <1>5, <1>6, <1>7, <1>8, <1>9, <1>10, <1>11, <1>12,
     <1>13, <1>14, <1>15, <1>16, <1>17, <1>18, <1>19 DEF Next, Command

\* The disk that was never formatted is well typed.
LEMMA InitType == Init => TypeOK
<1> SUFFICES ASSUME Init PROVE TypeOK
  OBVIOUS
<1>1. ZeroChunk \in Chunk
  BY DEF ZeroChunk, Chunk
<1>2. VolumeType
  BY <1>1, NewInodeType, NewSbType, NoBlocks DEF Init, VolumeType
<1>3. reply \in Reply
  BY DEF Init, Reply, CommandName
<1> QED
  BY <1>2, <1>3, TypeParts DEF Init

\* Every reachable state is well typed: no counter of the superblock ever
\* goes below zero, and every inode lists just the blocks its size needs.
THEOREM TypeCorrect == Spec => []TypeOK
BY InitType, TypeStep, PTL DEF Spec
=============================================================================
