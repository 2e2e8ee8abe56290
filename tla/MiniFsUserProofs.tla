-------------------------- MODULE MiniFsUserProofs ---------------------------
(***************************************************************************)
(* What a user sees of a MiniFs volume, where the two inputs that spoil it *)
(* are kept out: a name belongs to one file when no name is so long that   *)
(* cp clips it; no block is lost and fsck is satisfied when nobody stores  *)
(* an empty content.  Under both assumptions the volume implements         *)
(* FileStore, the durable map from names to files.                         *)
(***************************************************************************)
EXTENDS MiniFsSafetyProofs, MiniFsStore, WellFoundedInduction

-----------------------------------------------------------------------------
(* The blocks all files own together.                                      *)

Owned(tab) == UNION {BlocksOf(tab[i]) : i \in InodeId}

\* A pointer is a used slot and a position in its list.
LEMMA PointerMeans ==
  inode \in [InodeId -> Inode] => {BlockAt(p) : p \in Pointer} = Owned(inode)
<1> SUFFICES ASSUME inode \in [InodeId -> Inode]
             PROVE  {BlockAt(p) : p \in Pointer} = Owned(inode)
  OBVIOUS
<1>1. \A i \in InodeId : DOMAIN inode[i].direct \subseteq 1 .. MaxDirect
  BY ListDomain
<1>2. ASSUME NEW i \in InodeId, inode[i].used, NEW k \in DOMAIN inode[i].direct
      PROVE  <<i, k>> \in Pointer /\ BlockAt(<<i, k>>) = inode[i].direct[k]
  BY <1>1, <1>2 DEF Pointer, BlockAt
<1>3. ASSUME NEW p \in Pointer
      PROVE  /\ p[1] \in InodeId /\ inode[p[1]].used
             /\ p[2] \in DOMAIN inode[p[1]].direct
             /\ BlockAt(p) = inode[p[1]].direct[p[2]]
  BY DEF Pointer, BlockAt
<1>4. ASSUME NEW p \in Pointer PROVE BlockAt(p) \in Owned(inode)
  BY <1>3 DEF Owned, BlocksOf, Image
<1>5. ASSUME NEW b \in Owned(inode) PROVE b \in {BlockAt(p) : p \in Pointer}
  <2>1. PICK i \in InodeId : b \in BlocksOf(inode[i])
    BY DEF Owned
  <2>2. inode[i].used /\ b \in Image(inode[i].direct)
    BY <2>1 DEF BlocksOf
  <2>3. PICK k \in DOMAIN inode[i].direct : b = inode[i].direct[k]
    BY <2>2 DEF Image
  <2> QED
    BY <1>2, <2>2, <2>3
<1> QED
  BY <1>4, <1>5

\* A slot whose new blocks are what it keeps and what it takes leaves the
\* bitmap as the metadata and the blocks of all files.
LEMMA OwnedStep ==
  ASSUME inode \in [InodeId -> Inode], Apart(inode, dbitmap),
         dbitmap = MetaBlock \cup Owned(inode),
         NEW i \in InodeId, NEW new \in Inode, NEW R, NEW A,
         inode' = [inode EXCEPT ![i] = new],
         R \subseteq BlocksOf(inode[i]),
         BlocksOf(new) = (BlocksOf(inode[i]) \ R) \cup A,
         dbitmap' = (dbitmap \ R) \cup A
  PROVE  dbitmap' = MetaBlock \cup Owned(inode')
<1> DEFINE rest == UNION {BlocksOf(inode[j]) : j \in InodeId \ {i}}
<1>1. inode'[i] = new /\ \A j \in InodeId \ {i} : inode'[j] = inode[j]
  OBVIOUS
<1>2. Owned(inode) = rest \cup BlocksOf(inode[i])
  BY DEF Owned
<1>3. Owned(inode') = rest \cup BlocksOf(new)
  BY <1>1 DEF Owned
<1>4. rest \cap BlocksOf(inode[i]) = {}
  BY DEF Apart
<1>5. BlocksOf(inode[i]) \cap MetaBlock = {}
  BY DEF Apart, DataBlock
<1> HIDE DEF rest
<1> QED
  BY <1>2, <1>3, <1>4, <1>5

-----------------------------------------------------------------------------
(* The invariant.  An unformatted disk has no free inodes to create with,  *)
(* or create would not see the names that are taken: a superblock without  *)
(* the magic number makes every lookup fail.  It has no free blocks        *)
(* either, which is what statfs says of it.                                *)

Blank == ~dsb.magic => dsb.free_inodes = 0 /\ dsb.free_blocks = 0

User == /\ Blank
        /\ LongName = {} => NamesUnique
        /\ <<>> \notin Payload => NoLeak

UserInv == SafeInv /\ User

\* A slot may be rewritten when no other file has its new name.
LEMMA NameStep ==
  ASSUME inode \in [InodeId -> Inode], NamesUnique,
         NEW i \in InodeId, NEW new \in Inode,
         inode' = [inode EXCEPT ![i] = new],
         \A j \in InodeId \ {i} : new.used /\ inode[j].used => inode[j].name # new.name
  PROVE  NamesUnique'
<1>1. inode'[i] = new /\ \A j \in InodeId \ {i} : inode'[j] = inode[j]
  OBVIOUS
<1> QED
  BY <1>1 DEF NamesUnique, UsedSlots

\* What the commands that change a slot have in common.
LEMMA UserSlot ==
  ASSUME UserInv, dsb.magic, dsb'.magic,
         NEW i \in InodeId, NEW new \in Inode, NEW R, NEW A,
         inode' = [inode EXCEPT ![i] = new],
         R \subseteq BlocksOf(inode[i]),
         dbitmap' = (dbitmap \ R) \cup A,
         LongName = {} =>
            \A j \in InodeId \ {i} : new.used /\ inode[j].used => inode[j].name # new.name,
         <<>> \notin Payload => BlocksOf(new) = (BlocksOf(inode[i]) \ R) \cup A
  PROVE  User'
<1>1. inode \in [InodeId -> Inode] /\ Apart(inode, dbitmap)
  BY DEF UserInv, SafeInv, TypeOK, DiskSafe
<1>2. Blank'
  BY DEF Blank
<1>3. ASSUME LongName = {} PROVE NamesUnique'
  BY <1>1, <1>3, NameStep DEF UserInv, User
<1>4. ASSUME <<>> \notin Payload PROVE NoLeak'
  <2>1. dbitmap = MetaBlock \cup Owned(inode)
    BY <1>1, <1>4, PointerMeans DEF UserInv, User, NoLeak
  <2>2. dbitmap' = MetaBlock \cup Owned(inode')
    BY <1>1, <1>4, <2>1, OwnedStep
  <2>3. inode' \in [InodeId -> Inode]
    BY <1>1
  <2>4. (inode \in [InodeId -> Inode] => {BlockAt(p) : p \in Pointer} = Owned(inode))'
    BY PointerMeans, PTL
  <2> QED
    BY <2>2, <2>3, <2>4 DEF NoLeak
<1> QED
  BY <1>2, <1>3, <1>4 DEF User

\* A step that leaves table, bitmap and the superblock's counts alone.
LEMMA UserSame ==
  ASSUME User, UNCHANGED <<dbitmap, inode>>,
         dsb'.magic = dsb.magic,
         dsb'.free_inodes = dsb.free_inodes, dsb'.free_blocks = dsb.free_blocks
  PROVE  User'
BY DEF User, Blank, NamesUnique, UsedSlots, NoLeak, Pointer, BlockAt

\* A format leaves no files and, if it succeeds, only the metadata marked.
LEMMA UserFormat ==
  ASSUME UserInv, NEW arg \in FormatArg, FormatDisk(arg, dsb, dbitmap)
  PROVE  User'
<1>1. CASE arg = "bad_block"
  BY <1>1, UserSame DEF FormatDisk, UserInv
<1>2. CASE arg # "bad_block"
  <2>1. /\ dsb' = IF arg = "fine" THEN FreshSb ELSE ZeroSb
        /\ dbitmap' = IF arg = "fine" THEN MetaBlock ELSE {}
        /\ inode' = [i \in InodeId |-> ZeroInode]
    BY <1>2 DEF FormatDisk, FormatBitmap
  <2>2. Pointer' = {} /\ UsedSlots' = {}
    <3>1. \A i \in InodeId : ~inode'[i].used
      BY <2>1 DEF ZeroInode
    <3> QED
      BY <3>1 DEF Pointer, UsedSlots
  <2>3. CASE arg = "fine"
    <3>1. dsb'.magic /\ dbitmap' = MetaBlock
      BY <2>1, <2>3 DEF FreshSb, ZeroSb
    <3> QED
      BY <2>2, <3>1 DEF User, Blank, NamesUnique, NoLeak
  <2>4. CASE arg # "fine"
    <3>1. ~dsb'.magic /\ dsb'.free_inodes = 0 /\ dsb'.free_blocks = 0
      BY <2>1, <2>4 DEF ZeroSb
    <3> QED
      BY <2>2, <3>1 DEF User, Blank, NamesUnique, NoLeak
  <2> QED
    BY <2>3, <2>4
<1> QED
  BY <1>1, <1>2

\* Nobody has a name that was looked up in vain on a formatted disk.
LEMMA NoHolder ==
  ASSUME sb.magic, NEW n, Holders(n) = {}
  PROVE  \A j \in InodeId : inode[j].used => inode[j].name # n
BY DEF Holders

\* The slot a name was found in keeps it to itself.
LEMMA OwnName ==
  ASSUME NamesUnique, NEW i \in InodeId, inode[i].used
  PROVE  \A j \in InodeId \ {i} : inode[j].used => inode[j].name # inode[i].name
BY DEF NamesUnique, UsedSlots

\* Storing a content takes as many blocks as the new size lists, unless the
\* content is empty.
LEMMA UserStore ==
  ASSUME UserInv, dsb.magic, bitmap = dbitmap, sb = dsb,
         NEW i \in InodeId, NEW ino \in Inode, NEW bytes \in Seq(Byte \cup {0}),
         NEW s \in Superblock, s.magic, ino.used,
         Image(ino.direct) = BlocksOf(inode[i]),
         ~FitsNot(Len(bytes)),
         <<>> \notin Payload => Len(bytes) > 0,
         LongName = {} =>
            \A j \in InodeId \ {i} : inode[j].used => inode[j].name # ino.name,
         Store(i, ino, bytes, s)
  PROVE  User'
<1> DEFINE need == BlocksNeeded(Len(bytes))
           old  == Image(ino.direct)
           kept == Blocks(Len(bytes))
<1>1. sb.free_blocks \in Nat
  BY DEF UserInv, SafeInv, TypeOK, Superblock
<1>2. /\ Len(bytes) \in Size
      /\ need \in 1 .. MaxDirect
      /\ kept \in 0 .. need
      /\ Len(bytes) > 0 => kept = need
  BY <1>1, AcceptedSize, BlocksType
<1>3. PICK pick \in FirstFit(need, (Block \ bitmap) \cup old) :
        /\ dbitmap' = (bitmap \ old) \cup Image(pick)
        /\ inode' = [inode EXCEPT ![i] =
                      [ino EXCEPT !.size = Len(bytes),
                                  !.direct = [k \in 1 .. kept |-> pick[k]]]]
        /\ dsb' = [s EXCEPT !.free_blocks = @ + Blocks(ino.size) - need,
                            !.total_writes = Bump(@)]
  BY DEF Store, SaveSb, SyncBitmap
<1> DEFINE d   == [k \in 1 .. kept |-> pick[k]]
           new == [ino EXCEPT !.size = Len(bytes), !.direct = d]
<1>4. pick \in [1 .. need -> (Block \ bitmap) \cup old]
  BY <1>3 DEF FirstFit
<1>5. old \subseteq Block
  BY DEF UserInv, SafeInv, DiskSafe, Apart, DataBlock
<1>6. d \in Direct
  <2>1. kept \in 0 .. MaxDirect
    BY <1>2, GeometryAssumption DEF GeometryAssumption
  <2>2. d \in [1 .. kept -> Block]
    BY <1>2, <1>4, <1>5
  <2> QED
    BY <2>1, <2>2, DirectType
<1>7. /\ new \in Inode
      /\ new.used
      /\ new.direct = d
      /\ new.name = ino.name
  BY <1>2, <1>6, InodeType DEF Inode
<1>8. dsb'.magic
  BY <1>3 DEF Superblock
<1>9. ASSUME <<>> \notin Payload PROVE Image(d) = Image(pick)
  BY <1>2, <1>4, <1>9 DEF Image
<1>10. inode' = [inode EXCEPT ![i] = new] /\ dbitmap' = (dbitmap \ old) \cup Image(pick)
  BY <1>3
<1> HIDE DEF new, d
<1>11. <<>> \notin Payload => BlocksOf(new) = (BlocksOf(inode[i]) \ old) \cup Image(pick)
  BY <1>7, <1>9 DEF BlocksOf
<1>12. LongName = {} =>
         \A j \in InodeId \ {i} : new.used /\ inode[j].used => inode[j].name # new.name
  BY <1>7
<1>13. old \subseteq BlocksOf(inode[i])
  OBVIOUS
<1> HIDE DEF old
<1> QED
  BY <1>7, <1>8, <1>10, <1>11, <1>12, <1>13, UserSlot

-----------------------------------------------------------------------------
(* Every step keeps the invariant.                                         *)

LEMMA UserStep == UserInv /\ [Next]_vars => UserInv'
<1> SUFFICES ASSUME UserInv, [Next]_vars PROVE User'
  BY SafeStep DEF UserInv
<1>0. TypeOK /\ Durable /\ DiskSafe /\ User
  BY DEF UserInv, SafeInv
<1>a. inode \in [InodeId -> Inode] /\ sb \in Superblock /\ dsb \in Superblock
  BY <1>0 DEF TypeOK
<1>b. \A n, i : up /\ Found(n, i) =>
        /\ i \in InodeId /\ inode[i].used /\ inode[i].name = n
        /\ sb = dsb /\ dsb.magic /\ bitmap = dbitmap
        /\ BlocksOf(inode[i]) = Image(inode[i].direct)
        /\ DOMAIN inode[i].direct = 1 .. Blocks(inode[i].size)
  BY <1>0, FoundSlot, FileBlocks DEF Durable, TypeOK
<1>c. ASSUME NEW cmd, Refuse(cmd) PROVE User'
  BY <1>0, <1>c, UserSame DEF Refuse, disk
<1>1. ASSUME NEW arg \in FormatArg, CliFormat(arg) PROVE User'
  BY <1>1, UserFormat DEF CliFormat
<1>2. ASSUME NEW arg \in FormatArg, ShellFormat(arg) PROVE User'
  <2>1. SyncedSb = dsb /\ SyncedBitmap = dbitmap
    BY <1>0, <1>2 DEF ShellFormat, Durable, SyncedSb, SyncedBitmap
  <2> QED
    BY <1>2, <2>1, UserFormat DEF ShellFormat
<1>3. CASE Mount
  BY <1>0, <1>3, UserSame DEF Mount, disk
<1>4. CASE Unmount
  <2>1. SyncedSb = dsb /\ SyncedBitmap = dbitmap
    BY <1>0, <1>4 DEF Unmount, Durable, SyncedSb, SyncedBitmap
  <2> QED
    BY <1>0, <1>4, <2>1, UserSame DEF Unmount
<1>5. CASE Kill
  BY <1>0, <1>5, UserSame DEF Kill, disk
<1>6. ASSUME NEW n \in AnyName, Create(n) PROVE User'
  <2>1. CASE Refuse("create")
    BY <1>c, <2>1
  <2>2. ASSUME MayCreate(n), NEW i \in InodeId, IsFirst(i, FreeSlots),
               inode' = [inode EXCEPT ![i] = NewInode(n)],
               sb' = [sb EXCEPT !.free_inodes = @ - 1],
               dsb' = sb', dbitmap' = dbitmap
        PROVE  User'
    <3>1. sb = dsb /\ sb.magic /\ dsb.magic
      BY <1>0, <1>a, <1>6, <2>2 DEF Create, Durable, MayCreate, User, Blank, Superblock
    <3>2. /\ NewInode(n) \in Inode /\ NewInode(n).direct = <<>>
          /\ NewInode(n).name = n
      BY <2>2, NewInodeType DEF MayCreate, NewInode, ZeroInode
    <3>3. BlocksOf(NewInode(n)) = {} /\ BlocksOf(inode[i]) = {}
      BY <2>2, <3>2, NoOwner DEF BlocksOf, IsFirst, FreeSlots
    <3>4. dsb'.magic
      BY <2>2, <3>1 DEF Superblock
    <3>5. \A j \in InodeId : inode[j].used => inode[j].name # NewInode(n).name
      BY <2>2, <3>1, <3>2, NoHolder DEF MayCreate
    <3>6. PICK none : none = {}
      OBVIOUS
    <3>7. /\ dbitmap' = (dbitmap \ none) \cup none
          /\ none \subseteq BlocksOf(inode[i])
          /\ BlocksOf(NewInode(n)) = (BlocksOf(inode[i]) \ none) \cup none
      BY <2>2, <3>3, <3>6
    <3> HIDE DEF NewInode
    <3> QED
      BY <2>2, <3>1, <3>2, <3>4, <3>5, <3>7, UserSlot
  <2> QED
    BY <1>6, <2>1, <2>2 DEF Create, SaveSb
<1>7. ASSUME NEW n \in AnyName, Delete(n) PROVE User'
  <2>1. CASE Refuse("rm")
    BY <1>c, <2>1
  <2>2. ASSUME NEW i \in InodeId, Found(n, i),
               bitmap' = bitmap \ Image(inode[i].direct),
               dbitmap' = bitmap',
               inode' = [inode EXCEPT ![i] = ZeroInode],
               sb' = [sb EXCEPT !.free_blocks = @ + Blocks(inode[i].size),
                                !.free_inodes = @ + 1],
               dsb' = sb'
        PROVE  User'
    <3> DEFINE R == Image(inode[i].direct)
    <3>1. /\ sb = dsb /\ dsb.magic /\ bitmap = dbitmap /\ BlocksOf(inode[i]) = R
      BY <1>7, <1>b, <2>2 DEF Delete
    <3>2. ZeroInode \in Inode /\ ~ZeroInode.used /\ BlocksOf(ZeroInode) = {}
      BY NewInodeType, NoOwner DEF ZeroInode
    <3>3. dsb'.magic
      BY <1>a, <2>2, <3>1 DEF Superblock
    <3>4. PICK none : none = {}
      OBVIOUS
    <3>5. /\ dbitmap' = (dbitmap \ R) \cup none
          /\ R \subseteq BlocksOf(inode[i])
          /\ BlocksOf(ZeroInode) = (BlocksOf(inode[i]) \ R) \cup none
      BY <2>2, <3>1, <3>2, <3>4
    <3> HIDE DEF R
    <3> QED
      BY <2>2, <3>1, <3>2, <3>3, <3>5, UserSlot
  <2> QED
    BY <1>7, <2>1, <2>2 DEF Delete, SaveSb, SyncBitmap
<1>8. ASSUME NEW i \in InodeId, NEW n, Found(n, i), up,
             NEW new \in Inode, new.used, new.direct = inode[i].direct,
             LongName = {} =>
               \A j \in InodeId \ {i} : inode[j].used => inode[j].name # new.name,
             inode' = [inode EXCEPT ![i] = new],
             UNCHANGED <<dsb, dbitmap>>
      PROVE  User'
  <2>1. dsb.magic /\ dsb'.magic /\ BlocksOf(new) = BlocksOf(inode[i])
    BY <1>b, <1>8 DEF BlocksOf
  <2>2. PICK none : none = {}
    OBVIOUS
  <2>3. /\ dbitmap' = (dbitmap \ none) \cup none
        /\ none \subseteq BlocksOf(inode[i])
        /\ BlocksOf(new) = (BlocksOf(inode[i]) \ none) \cup none
    BY <1>8, <2>1, <2>2
  <2> QED
    BY <1>8, <2>1, <2>3, UserSlot
<1>9. ASSUME NEW old \in AnyName, NEW new \in AnyName, Rename(old, new)
      PROVE  User'
  <2>1. CASE Refuse("rename")
    BY <1>c, <2>1
  <2>2. ASSUME NEW i \in InodeId, Found(old, i), new \in Name, Holders(new) = {},
               inode' = [inode EXCEPT ![i].name = new],
               UNCHANGED <<dsb, dbitmap>>
        PROVE  User'
    <3> DEFINE ino == [inode[i] EXCEPT !.name = new]
    <3>1. inode[i] \in Inode /\ inode[i].used /\ up /\ sb.magic
      BY <1>a, <1>9, <2>2, FoundSlot DEF Rename
    <3>2. ino \in Inode /\ ino.used /\ ino.direct = inode[i].direct /\ ino.name = new
      BY <2>2, <3>1, InodeType DEF Inode
    <3>3. inode' = [inode EXCEPT ![i] = ino]
      BY <1>a, <2>2
    <3>4. \A j \in InodeId \ {i} : inode[j].used => inode[j].name # ino.name
      BY <2>2, <3>1, <3>2, NoHolder
    <3> HIDE DEF ino
    <3> QED
      BY <1>8, <2>2, <3>1, <3>2, <3>3, <3>4
  <2> QED
    BY <1>9, <2>1, <2>2 DEF Rename
<1>10. ASSUME NEW n \in AnyName, NEW mode \in Mode, Chmod(n, mode)
       PROVE  User'
  <2>1. CASE Refuse("chmod")
    BY <1>c, <2>1
  <2>2. ASSUME NEW i \in InodeId, Found(n, i),
               inode' = [inode EXCEPT ![i].mode.perm = mode.perm],
               UNCHANGED <<dsb, dbitmap>>
        PROVE  User'
    <3> DEFINE ino == [inode[i] EXCEPT !.mode.perm = mode.perm]
    <3>1. inode[i] \in Inode /\ inode[i].used /\ up /\ mode.perm \in Perm
      BY <1>a, <1>10, <2>2, FoundSlot DEF Chmod, Mode
    <3>2. /\ ino \in Inode /\ ino.used /\ ino.direct = inode[i].direct
          /\ ino.name = inode[i].name
      BY <3>1, InodeType DEF Inode
    <3>3. inode' = [inode EXCEPT ![i] = ino]
      BY <1>a, <2>2
    <3>4. LongName = {} =>
            \A j \in InodeId \ {i} : inode[j].used => inode[j].name # ino.name
      BY <1>0, <3>1, <3>2, OwnName DEF User
    <3> HIDE DEF ino
    <3> QED
      BY <1>8, <2>2, <3>1, <3>2, <3>3, <3>4
  <2> QED
    BY <1>10, <2>1, <2>2 DEF Chmod
<1>11. ASSUME NEW n \in AnyName, NEW size \in Size, Truncate(n, size)
       PROVE  User'
  <2>1. CASE Refuse("truncate")
    BY <1>c, <2>1
  <2>2. ASSUME NEW i \in InodeId, Found(n, i), size <= inode[i].size,
               bitmap' = bitmap \ {inode[i].direct[k] :
                            k \in Blocks(size) + 1 .. Blocks(inode[i].size)},
               inode' = [inode EXCEPT ![i].size = size,
                                      ![i].direct = [k \in 1 .. Blocks(size) |->
                                                       inode[i].direct[k]]],
               sb' = [sb EXCEPT !.free_blocks =
                        @ + Blocks(inode[i].size) - Blocks(size)],
               dbitmap' = bitmap',
               dsb' = sb'
        PROVE  User'
    <3> DEFINE list == inode[i].direct
               R    == {list[k] : k \in Blocks(size) + 1 .. Blocks(inode[i].size)}
               d    == [k \in 1 .. Blocks(size) |-> list[k]]
               ino  == [inode[i] EXCEPT !.size = size, !.direct = d]
    <3>1. /\ inode[i].used /\ sb = dsb /\ dsb.magic /\ bitmap = dbitmap
          /\ BlocksOf(inode[i]) = Image(list)
          /\ DOMAIN list = 1 .. Blocks(inode[i].size)
      BY <1>11, <1>b, <2>2 DEF Truncate
    <3>2. inode[i] \in Inode /\ inode[i].size \in Size
      BY <1>a DEF Inode
    <3>3. /\ size \in Nat /\ Blocks(size) \in 0 .. MaxDirect
          /\ inode[i].size \in Nat /\ Blocks(inode[i].size) \in 0 .. MaxDirect
      BY <3>2, SizeBlocks
    <3>4. Blocks(size) <= Blocks(inode[i].size)
      BY <2>2, <3>3, BlocksMonotone
    <3>5. OneToOne(list, 1 .. Blocks(inode[i].size))
      BY <1>0, <3>1, FileBlocks
    <3>6. /\ R \subseteq Image(list)
          /\ Image(d) = Image(list) \ R
      <4>1. R \subseteq Image(list) /\ Image(d) \cap R = {} /\ Image(d) \subseteq Image(list)
        <5>1. Blocks(size) \in Nat /\ Blocks(inode[i].size) \in Nat
          BY <3>3
        <5>2. R = Cut(list, Blocks(size), Blocks(inode[i].size)) /\ d = Keep(list, Blocks(size))
          BY DEF Cut, Keep
        <5> HIDE DEF R, d, list
        <5> QED
          BY <3>1, <3>4, <3>5, <5>1, <5>2, CutList
      <4>2. Image(list) \subseteq Image(d) \cup R
        BY <3>1, <3>3, <3>4 DEF Image
      <4> HIDE DEF R, d, list
      <4> QED
        BY <4>1, <4>2
    <3>7. d \in Direct
      <4>1. list \in [1 .. Blocks(inode[i].size) -> Block]
        BY <3>1, <3>2, <3>3, DirectType DEF Inode
      <4>2. d \in [1 .. Blocks(size) -> Block]
        BY <3>3, <3>4, <4>1
      <4> QED
        BY <3>3, <4>2, DirectType
    <3>8. /\ ino \in Inode /\ ino.used /\ ino.direct = d
          /\ ino.name = inode[i].name
      BY <3>1, <3>2, <3>7, InodeType DEF Inode
    <3>9. inode' = [inode EXCEPT ![i] = ino]
      BY <1>a, <2>2
    <3>10. dsb'.magic
      BY <1>a, <2>2, <3>1 DEF Superblock
    <3>11. LongName = {} =>
             \A j \in InodeId \ {i} : inode[j].used => inode[j].name # ino.name
      BY <1>0, <3>1, <3>8, OwnName DEF User
    <3>12. PICK none : none = {}
      OBVIOUS
    <3>13. dbitmap' = (dbitmap \ R) \cup none
      BY <2>2, <3>1, <3>12
    <3> HIDE DEF R, d, ino
    <3>14. /\ BlocksOf(ino) = (BlocksOf(inode[i]) \ R) \cup none
           /\ R \subseteq BlocksOf(inode[i])
      BY <3>1, <3>6, <3>8, <3>12 DEF BlocksOf
    <3> QED
      BY <3>1, <3>8, <3>9, <3>10, <3>11, <3>13, <3>14, UserSlot
  <2> QED
    BY <1>11, <2>1, <2>2 DEF Truncate, CutOff, SaveSb, SyncBitmap
<1>12. ASSUME NEW n \in AnyName, up, NEW i \in InodeId, Found(n, i),
              NEW bytes \in Seq(Byte \cup {0}), ~FitsNot(Len(bytes)),
              <<>> \notin Payload => Len(bytes) > 0,
              Store(i, inode[i], bytes, sb)
       PROVE  User'
  <2>1. /\ inode[i].used /\ sb = dsb /\ dsb.magic /\ bitmap = dbitmap
        /\ BlocksOf(inode[i]) = Image(inode[i].direct)
    BY <1>b, <1>12
  <2>2. inode[i] \in Inode
    BY <1>a
  <2>3. LongName = {} =>
          \A j \in InodeId \ {i} : inode[j].used => inode[j].name # inode[i].name
    BY <1>0, <2>1, OwnName DEF User
  <2> QED
    BY <1>a, <1>12, <2>1, <2>2, <2>3, UserStore
<1>13. ASSUME NEW n \in AnyName, NEW bytes \in Payload, Write(n, bytes)
       PROVE  User'
  <2>1. CASE Refuse("write")
    BY <1>c, <2>1
  <2>2. ASSUME NEW i \in InodeId, Found(n, i), ~FitsNot(Len(bytes)),
               Store(i, inode[i], bytes, sb)
        PROVE  User'
    <3>1. bytes \in Seq(Byte \cup {0})
      BY BytesAssumption, BufferType DEF BytesAssumption
    <3>2. <<>> \notin Payload => Len(bytes) > 0
      BY <3>1
    <3> QED
      BY <1>12, <1>13, <2>2, <3>1, <3>2 DEF Write
  <2> QED
    BY <1>13, <2>1, <2>2 DEF Write
<1>14. ASSUME NEW n \in AnyName, NEW bytes \in Payload, AppendTo(n, bytes)
       PROVE  User'
  <2>1. CASE Refuse("append")
    BY <1>c, <2>1
  <2>2. ASSUME NEW i \in InodeId, Found(n, i),
               ~FitsNot(Len(Content(inode[i]) \o bytes)),
               Store(i, inode[i], Content(inode[i]) \o bytes, sb)
        PROVE  User'
    <3>1. bytes \in Seq(Byte \cup {0})
      BY BytesAssumption, BufferType DEF BytesAssumption
    <3>2. Content(inode[i]) \in Seq(Byte \cup {0})
      BY <1>0, ContentType
    <3>3. /\ Content(inode[i]) \o bytes \in Seq(Byte \cup {0})
          /\ <<>> \notin Payload => Len(Content(inode[i]) \o bytes) > 0
      BY <3>1, <3>2
    <3> QED
      BY <1>12, <1>14, <2>2, <3>3 DEF AppendTo
  <2> QED
    BY <1>14, <2>1, <2>2 DEF AppendTo
<1>15. ASSUME NEW src \in AnyName, NEW dst \in AnyName, Copy(src, dst)
       PROVE  User'
  <2>1. CASE Refuse("cp")
    BY <1>c, <2>1
  <2> DEFINE New(i) == [NewInode(Stored(dst)) EXCEPT !.mode = inode[i].mode]
             S      == [sb EXCEPT !.free_inodes = @ - 1]
  <2>2. /\ Stored(dst) \in Name
        /\ LongName = {} => Stored(dst) = dst
    BY NamesAssumption DEF NamesAssumption, Stored, AnyName
  <2>3. ASSUME NEW i \in InodeId
        PROVE  /\ New(i) \in Inode /\ New(i).used /\ New(i).direct = <<>>
               /\ New(i).name = Stored(dst)
    <3>1. inode[i].mode \in Mode
      BY <1>a DEF Inode
    <3>2. /\ NewInode(Stored(dst)) \in Inode /\ NewInode(Stored(dst)).used
          /\ NewInode(Stored(dst)).direct = <<>>
      BY <2>2, NewInodeType
    <3>3. NewInode(Stored(dst)).name = Stored(dst)
      BY DEF NewInode, ZeroInode
    <3>4. New(i) \in Inode
      BY <3>1, <3>2, InodeType
    <3>5. New(i).used /\ New(i).direct = <<>> /\ New(i).name = Stored(dst)
      BY <3>2, <3>3 DEF Inode
    <3> QED
      BY <3>4, <3>5
  <2> HIDE DEF New
  <2>4. ASSUME NEW i \in InodeId, NEW j \in InodeId, Found(src, i), sb.free_inodes # 0,
               Holders(dst) = {}, IsFirst(j, FreeSlots)
        PROVE  /\ sb = dsb /\ dsb.magic /\ bitmap = dbitmap
               /\ S \in Superblock /\ S.magic
               /\ BlocksOf(inode[j]) = {} /\ BlocksOf(New(i)) = {}
               /\ LongName = {} => \A k \in InodeId \ {j} :
                                      inode[k].used => inode[k].name # New(i).name
    <3>1. sb = dsb /\ sb.magic /\ dsb.magic /\ bitmap = dbitmap
      BY <1>b, <1>15, <2>4 DEF Copy
    <3>2. sb \in Superblock /\ sb.free_inodes \in Nat /\ sb.free_inodes - 1 \in Nat
      BY <1>a, <2>4 DEF Superblock
    <3>3. S \in Superblock /\ S.magic
      BY <3>1, <3>2 DEF Superblock
    <3>4. BlocksOf(inode[j]) = {} /\ BlocksOf(New(i)) = {}
      BY <2>3, <2>4, NoOwner DEF BlocksOf, IsFirst, FreeSlots
    <3>5. \A k \in InodeId : inode[k].used => inode[k].name # dst
      BY <2>4, <3>1, NoHolder
    <3> QED
      BY <2>2, <2>3, <3>1, <3>3, <3>4, <3>5
  <2>5. ASSUME NEW i \in InodeId, NEW j \in InodeId, Found(src, i), sb.free_inodes # 0,
               Holders(dst) = {}, IsFirst(j, FreeSlots),
               inode' = [inode EXCEPT ![j] = New(i)],
               sb' = S, dsb' = sb', dbitmap' = dbitmap
        PROVE  User'
    <3>1. /\ dsb.magic /\ S.magic
          /\ BlocksOf(inode[j]) = {} /\ BlocksOf(New(i)) = {}
          /\ LongName = {} => \A k \in InodeId \ {j} :
                                 inode[k].used => inode[k].name # New(i).name
      BY <2>4, <2>5
    <3>2. New(i) \in Inode
      BY <2>3
    <3>3. PICK none : none = {}
      OBVIOUS
    <3>4. /\ dbitmap' = (dbitmap \ none) \cup none
          /\ none \subseteq BlocksOf(inode[j])
          /\ BlocksOf(New(i)) = (BlocksOf(inode[j]) \ none) \cup none
      BY <2>5, <3>1, <3>3
    <3> HIDE DEF S
    <3> QED
      BY <2>5, <3>1, <3>2, <3>4, UserSlot
  <2>6. ASSUME NEW i \in InodeId, NEW j \in InodeId, Found(src, i), sb.free_inodes # 0,
               Holders(dst) = {}, IsFirst(j, FreeSlots),
               inode[i].size > 0, ~FitsNot(inode[i].size),
               Store(j, New(i), Content(inode[i]), S)
        PROVE  User'
    <3>1. /\ sb = dsb /\ dsb.magic /\ bitmap = dbitmap
          /\ S \in Superblock /\ S.magic
          /\ BlocksOf(inode[j]) = {}
          /\ LongName = {} => \A k \in InodeId \ {j} :
                                 inode[k].used => inode[k].name # New(i).name
      BY <2>4, <2>6
    <3>2. /\ New(i) \in Inode /\ New(i).used
          /\ Image(New(i).direct) = BlocksOf(inode[j])
      BY <2>3, <3>1, NoOwner
    <3>3. /\ Content(inode[i]) \in Seq(Byte \cup {0})
          /\ Len(Content(inode[i])) = inode[i].size
      BY <1>0, ContentType
    <3> HIDE DEF S
    <3> QED
      BY <2>6, <3>1, <3>2, <3>3, UserStore
  <2> QED
    BY <1>15, <2>1, <2>5, <2>6 DEF Copy, New, SaveSb
<1>16. ASSUME NEW n \in AnyName, Read(n) PROVE User'
  <2>1. CASE Refuse("read")
    BY <1>c, <2>1
  <2>2. ASSUME NEW i \in InodeId, Found(n, i),
               sb' = [sb EXCEPT !.total_reads = Bump(@)],
               dsb' = sb',
               UNCHANGED <<dbitmap, inode>>
        PROVE  User'
    <3>1. sb = dsb
      BY <1>b, <1>16, <2>2 DEF Read
    <3>2. /\ dsb'.magic = dsb.magic
          /\ dsb'.free_inodes = dsb.free_inodes /\ dsb'.free_blocks = dsb.free_blocks
      BY <1>a, <2>2, <3>1 DEF Superblock
    <3> QED
      BY <1>0, <2>2, <3>2, UserSame
  <2> QED
    BY <1>16, <2>1, <2>2 DEF Read, SaveSb
<1>17. ASSUME NEW n \in AnyName, Stat(n) PROVE User'
  BY <1>0, <1>c, <1>17, UserSame DEF Stat, disk
<1>18. CASE Fsck \/ Ls \/ Statfs \/ UNCHANGED vars
  BY <1>0, <1>18, UserSame DEF Fsck, Ls, Statfs, vars, disk
<1> QED
  BY <1>1, <1>2, <1>3, <1>4, <1>5, <1>6, <1>7, <1>9, <1>10, <1>11, <1>13, <1>14,
     <1>15, <1>16, <1>17, <1>18 DEF Next, Command

\* An empty disk has no files and no superblock.
LEMMA UserInit == Init => UserInv
<1> SUFFICES ASSUME Init PROVE User
  BY SafeInit DEF UserInv
<1>1. /\ ~dsb.magic /\ dsb.free_inodes = 0 /\ dsb.free_blocks = 0
      /\ \A i \in InodeId : ~inode[i].used
  BY DEF Init, ZeroSb, ZeroInode
<1> QED
  BY <1>1 DEF User, Blank, NamesUnique, UsedSlots, NoLeak

LEMMA UserAlways == Spec => []UserInv
BY UserInit, UserStep, PTL DEF Spec

-----------------------------------------------------------------------------
(* Why fsck is satisfied: its two counts are the counters of the           *)
(* superblock when the bitmap marks what files own and nothing else.       *)

LEMMA PointersFinite == IsFiniteSet(Pointer)
<1>1. MaxDirect \in Int
  BY GeometryAssumption DEF GeometryAssumption
<1>2. IsFiniteSet(1 .. MaxDirect)
  BY <1>1, FS_Interval
<1>3. IsFiniteSet(InodeId \X (1 .. MaxDirect))
  BY <1>2, Finite, FS_Product
<1> QED
  BY <1>3, FS_Subset DEF Pointer

LEMMA FsckCounts ==
  ASSUME SafeInv, NoLeak, dsb.magic
  PROVE  /\ Cardinality(UsedSlots) = MaxInodes - dsb.free_inodes
         /\ Cardinality(Pointer) = TotalBlocks - DataStart - dsb.free_blocks
<1>1. /\ inode \in [InodeId -> Inode] /\ dbitmap \in SUBSET Block
      /\ NoSharedBlocks
      /\ dsb.free_blocks = Cardinality(Block \ dbitmap)
      /\ dsb.free_inodes = Cardinality(FreeSlots)
  BY ApartMeans DEF SafeInv, TypeOK, DiskSafe, CountsAgree
<1>2. Cardinality(UsedSlots) = MaxInodes - dsb.free_inodes
  <2>1. UsedSlots \cup FreeSlots = InodeId /\ UsedSlots \cap FreeSlots = {}
    BY DEF UsedSlots, FreeSlots
  <2>2. IsFiniteSet(UsedSlots) /\ IsFiniteSet(FreeSlots)
    BY <2>1, Finite, FS_Subset
  <2>3. Cardinality(UsedSlots) \in Nat /\ Cardinality(FreeSlots) \in Nat
    BY <2>2, FS_CardinalityType
  <2>4. Cardinality(InodeId) = Cardinality(UsedSlots) + Cardinality(FreeSlots)
    BY <2>1, <2>2, DisjointCount
  <2> QED
    BY <1>1, <2>3, <2>4, Finite
<1>3. Cardinality(Pointer) = TotalBlocks - DataStart - dsb.free_blocks
  <2> DEFINE owned == {BlockAt(p) : p \in Pointer}
  <2>1. dbitmap = MetaBlock \cup owned /\ owned \subseteq DataBlock
    BY <1>1 DEF NoLeak, NoSharedBlocks
  <2>2. IsFiniteSet(owned) /\ IsFiniteSet(MetaBlock) /\ MetaBlock \cap owned = {}
    BY <2>1, Finite, FS_Subset DEF DataBlock
  <2>3. IsFiniteSet(Pointer)
    BY PointersFinite
  <2>4. Cardinality(owned) = Cardinality(Pointer)
    <3> DEFINE f == [p \in Pointer |-> BlockAt(p)]
    <3>1. OneToOne(f, Pointer)
      BY <1>1 DEF OneToOne, NoSharedBlocks
    <3>2. owned = {f[p] : p \in Pointer}
      OBVIOUS
    <3> HIDE DEF f, owned
    <3> QED
      BY <2>3, <3>1, <3>2, ImageCount
  <2> HIDE DEF owned
  <2>5. Cardinality(dbitmap) = DataStart + Cardinality(owned)
    BY <2>1, <2>2, DisjointCount, Finite
  <2>6. Cardinality(Block \ dbitmap) = TotalBlocks - Cardinality(dbitmap)
    BY <1>1, ClearBits
  <2>7. /\ Cardinality(Pointer) \in Nat /\ DataStart \in Nat /\ TotalBlocks \in Nat
    BY <2>3, FS_CardinalityType, GeometryAssumption DEF GeometryAssumption
  <2> QED
    BY <1>1, <2>4, <2>5, <2>6, <2>7
<1> QED
  BY <1>2, <1>3

-----------------------------------------------------------------------------
(* What a user can count on.                                               *)

\* Where no name is clipped, create, rename and cp never give a name twice.
THEOREM NamesUniqueCorrect ==
  ASSUME LongName = {}
  PROVE  Spec => []NamesUnique
<1>1. UserInv => NamesUnique
  BY DEF UserInv, User
<1> QED
  BY <1>1, UserAlways, PTL

\* Where nobody stores an empty content, every marked block is metadata or
\* a file's: whatever a command frees, cuts off or replaces is given back.
THEOREM NoLeakCorrect ==
  ASSUME <<>> \notin Payload
  PROVE  Spec => []NoLeak
<1>1. UserInv => NoLeak
  BY DEF UserInv, User
<1> QED
  BY <1>1, UserAlways, PTL

\* Under the same assumption fsck never finds anything.
THEOREM FsckCleanCorrect ==
  ASSUME <<>> \notin Payload
  PROVE  Spec => []FsckClean
<1>1. UserInv => FsckClean
  <2> SUFFICES ASSUME UserInv, up, sb.magic PROVE FsckFindsNothing
    BY DEF FsckClean
  <2>1. SafeInv /\ NoLeak /\ sb = dsb /\ NoSharedBlocks
    BY ApartMeans DEF UserInv, User, SafeInv, Durable, DiskSafe, TypeOK
  <2> QED
    BY <2>1, FsckCounts DEF FsckFindsNothing, NoSharedBlocks
<1> QED
  BY <1>1, UserAlways, PTL

-----------------------------------------------------------------------------
(* The volume implements the store: the files it holds.                    *)

\* The files in used slots, by name.
LEMMA FilesMeans ==
  NamesUnique => /\ DOMAIN Files = {inode[i].name : i \in UsedSlots}
                 /\ \A i \in UsedSlots : SlotOf(inode[i].name) = i
                 /\ \A i \in UsedSlots : Files[inode[i].name] = FileIn(i)
<1> SUFFICES ASSUME NamesUnique
             PROVE  /\ DOMAIN Files = {inode[i].name : i \in UsedSlots}
                    /\ \A i \in UsedSlots : SlotOf(inode[i].name) = i
                    /\ \A i \in UsedSlots : Files[inode[i].name] = FileIn(i)
  OBVIOUS
<1>1. DOMAIN Files = {inode[i].name : i \in UsedSlots}
  BY DEF Files
<1>2. ASSUME NEW i \in UsedSlots
      PROVE  SlotOf(inode[i].name) = i
  BY DEF SlotOf, NamesUnique
<1>3. ASSUME NEW i \in UsedSlots
      PROVE  Files[inode[i].name] = FileIn(i)
  BY <1>1, <1>2 DEF Files
<1> QED
  BY <1>1, <1>2, <1>3

LEMMA FilesMeansThen ==
  (NamesUnique => /\ DOMAIN Files = {inode[i].name : i \in UsedSlots}
                  /\ \A i \in UsedSlots : SlotOf(inode[i].name) = i
                  /\ \A i \in UsedSlots : Files[inode[i].name] = FileIn(i))'
BY FilesMeans, PTL

\* There are as many files as used slots.
LEMMA FilesCount ==
  ASSUME NamesUnique
  PROVE  /\ IsFiniteSet(DOMAIN Files)
         /\ Cardinality(DOMAIN Files) = Cardinality(UsedSlots)
<1> DEFINE f == [i \in UsedSlots |-> inode[i].name]
<1>1. IsFiniteSet(UsedSlots)
  BY Finite, FS_Subset DEF UsedSlots
<1>2. OneToOne(f, UsedSlots)
  BY DEF OneToOne, NamesUnique
<1>3. DOMAIN Files = {f[i] : i \in UsedSlots}
  BY DEF Files
<1> HIDE DEF f
<1>4. Cardinality(DOMAIN Files) = Cardinality(UsedSlots)
  BY <1>1, <1>2, <1>3, ImageCount
<1>5. IsFiniteSet({f[i] : i \in UsedSlots})
  BY <1>1, <1>2, ImageCount
<1> QED
  BY <1>3, <1>4, <1>5

-----------------------------------------------------------------------------
(* The room of the store.                                                  *)

\* Adding up what the elements of S weigh, in the order CHOOSE gives.
Adds(g, w, S) ==
  g = [s \in SUBSET S |->
         IF s = {} THEN 0
         ELSE w[CHOOSE x \in s : TRUE] + g[s \ {CHOOSE x \in s : TRUE}]]

Weight == [n \in DOMAIN Files |-> Blocks(Len(Files[n].bytes))]

LEMMA RoomDefined ==
  Abstract!Room = TotalBlocks - DataStart
                    - (CHOOSE g : Adds(g, Weight, DOMAIN Files))[DOMAIN Files]
<1> USE DEF Abstract!Room, Abstract!MapThenSumSet, Abstract!MapThenFoldSet
<1>0. \A len : Abstract!BlocksFor(len) = Blocks(len)
  BY DEF Abstract!BlocksFor, Blocks
<1> QED
  BY <1>0 DEF Adds, Weight

\* There are finitely many pointers, and as many of one slot as it lists.
LEMMA RowCount ==
  ASSUME NEW i, NEW n \in Nat
  PROVE  Cardinality({i} \X (1 .. n)) = n
<1>1. IsFiniteSet({i}) /\ Cardinality({i}) = 1
  BY FS_Singleton
<1>2. IsFiniteSet(1 .. n) /\ Cardinality(1 .. n) = n
  BY FS_Interval
<1> DEFINE S == {i}
           T == 1 .. n
<1>3. IsFiniteSet(S) /\ IsFiniteSet(T)
  BY <1>1, <1>2
<1> HIDE DEF S, T
<1>4. Cardinality(S \X T) = Cardinality(S) * Cardinality(T)
  BY <1>3, FS_Product
<1> QED
  BY <1>1, <1>2, <1>4 DEF S, T

\* When every element of S has a row of as many things as it weighs, and no
\* two rows share anything, adding up counts the things in all rows.
LEMMA AddsCounts ==
  ASSUME NEW S, IsFiniteSet(S), NEW w, NEW row, NEW All, IsFiniteSet(All),
         \A x \in S : row[x] \subseteq All /\ Cardinality(row[x]) = w[x],
         \A x, y \in S : x # y => row[x] \cap row[y] = {}
  PROVE  (CHOOSE g : Adds(g, w, S))[S] = Cardinality(UNION {row[x] : x \in S})
<1> DEFINE U(s)     == UNION {row[x] : x \in s}
           count(s) == Cardinality(U(s))
           first(s) == CHOOSE x \in s : TRUE
           j        == CHOOSE g : Adds(g, w, S)
<1>1. ASSUME NEW s, s \in SUBSET S, s # {}
      PROVE  /\ first(s) \in s
             /\ count(s) = w[first(s)] + count(s \ {first(s)})
  <2>1. PICK x : x = first(s)
    OBVIOUS
  <2>2. x \in s
    BY <1>1, <2>1
  <2>3. U(s) = row[x] \cup U(s \ {x}) /\ row[x] \cap U(s \ {x}) = {}
    BY <1>1, <2>2
  <2>4. IsFiniteSet(row[x]) /\ IsFiniteSet(U(s \ {x}))
    <3>1. row[x] \subseteq All /\ U(s \ {x}) \subseteq All
      BY <1>1, <2>2
    <3> QED
      BY <3>1, FS_Subset
  <2>5. Cardinality(row[x]) = w[x]
    BY <1>1, <2>2
  <2> HIDE DEF U
  <2>6. Cardinality(U(s)) = Cardinality(row[x]) + Cardinality(U(s \ {x}))
    BY <2>3, <2>4, DisjointCount
  <2> QED
    BY <2>1, <2>2, <2>5, <2>6
<1>2. count({}) = 0
  BY FS_EmptySet
<1> HIDE DEF U
<1>3. Adds([s \in SUBSET S |-> count(s)], w, S)
  <2> DEFINE g == [s \in SUBSET S |-> count(s)]
  <2>1. ASSUME NEW s, s \in SUBSET S
        PROVE  g[s] = IF s = {} THEN 0 ELSE w[first(s)] + g[s \ {first(s)}]
    BY <1>1, <1>2, <2>1
  <2>2. g = [s \in SUBSET S |-> g[s]]
    OBVIOUS
  <2> HIDE DEF g
  <2> QED
    BY <2>1, <2>2 DEF Adds, g
<1>4. Adds(j, w, S)
  BY <1>3
<1> HIDE DEF j
<1>5. ASSUME NEW s, s \in SUBSET S
      PROVE  j[s] = IF s = {} THEN 0 ELSE w[first(s)] + j[s \ {first(s)}]
  BY <1>4, <1>5 DEF Adds
<1> DEFINE Bad == {s \in SUBSET S : j[s] # count(s)}
<1>6. ASSUME Bad # {} PROVE FALSE
  <2>1. IsWellFoundedOn(StrictSubsetOrdering(S), SUBSET S)
    BY FS_StrictSubsetOrderingWellFounded, FS_FiniteSubsetsOfFinite
  <2>2. Bad \subseteq SUBSET S
    OBVIOUS
  <2>3. PICK s \in Bad : \A t \in Bad : ~(<<t, s>> \in StrictSubsetOrdering(S))
    <3> HIDE DEF Bad
    <3> QED
      BY <1>6, <2>1, <2>2, WFMin
  <2>4. s \in SUBSET S /\ j[s] # count(s)
    OBVIOUS
  <2>5. s # {}
    BY <1>2, <1>5, <2>4
  <2>6. PICK x : x = first(s)
    OBVIOUS
  <2>7. x \in s /\ count(s) = w[x] + count(s \ {x}) /\ j[s] = w[x] + j[s \ {x}]
    <3>1. /\ first(s) \in s
          /\ count(s) = w[first(s)] + count(s \ {first(s)})
      BY <1>1, <2>4, <2>5
    <3>2. j[s] = w[first(s)] + j[s \ {first(s)}]
      BY <1>5, <2>4, <2>5
    <3> HIDE DEF first, count
    <3> QED
      BY <2>6, <3>1, <3>2
  <2>8. s \ {x} \notin Bad
    <3>1. <<s \ {x}, s>> \in StrictSubsetOrdering(S)
      BY <2>4, <2>7 DEF StrictSubsetOrdering
    <3> QED
      BY <2>3, <3>1
  <2>9. j[s \ {x}] = count(s \ {x})
    BY <2>4, <2>8
  <2> QED
    BY <2>4, <2>7, <2>9
<1> QED
  BY <1>6 DEF U, j

\* The room of the store is the number of free blocks.
LEMMA RoomFree ==
  ASSUME SafeInv, NamesUnique, NoLeak, dsb.magic
  PROVE  Abstract!Room = dsb.free_blocks
<1> DEFINE D   == DOMAIN Files
           row == [n \in D |-> {SlotOf(n)} \X (1 .. Weight[n])]
<1>1. TypeOK
  BY DEF SafeInv
<1>2. ASSUME NEW n \in D
      PROVE  /\ SlotOf(n) \in UsedSlots
             /\ inode[SlotOf(n)].name = n
             /\ Weight[n] = Blocks(inode[SlotOf(n)].size)
             /\ Weight[n] \in 0 .. MaxDirect
             /\ DOMAIN inode[SlotOf(n)].direct = 1 .. Weight[n]
  <2>1. PICK i \in UsedSlots : n = inode[i].name
    BY DEF Files
  <2>2. SlotOf(n) = i /\ Files[n] = FileIn(i) /\ i \in InodeId
    BY <2>1, FilesMeans DEF UsedSlots
  <2>3. Len(Files[n].bytes) = inode[i].size
    BY <1>1, <2>2, ContentType DEF FileIn
  <2>4. inode[i].size \in Size /\ DOMAIN inode[i].direct = 1 .. Blocks(inode[i].size)
    BY <1>1, <2>2 DEF TypeOK, Inode
  <2>5. Weight[n] = Blocks(inode[i].size)
    BY <2>3 DEF Weight
  <2>6. Blocks(inode[i].size) \in 0 .. MaxDirect
    BY <2>4, SizeBlocks
  <2> QED
    BY <2>1, <2>2, <2>4, <2>5, <2>6
<1>3. ASSUME NEW n \in D
      PROVE  row[n] \subseteq Pointer /\ Cardinality(row[n]) = Weight[n]
  <2>1. PICK i, m : i = SlotOf(n) /\ m = Weight[n]
    OBVIOUS
  <2>2. /\ i \in InodeId /\ inode[i].used /\ m \in 0 .. MaxDirect
        /\ DOMAIN inode[i].direct = 1 .. m /\ m \in Nat
    BY <1>2, <2>1, GeometryAssumption DEF UsedSlots, GeometryAssumption
  <2>3. row[n] = {i} \X (1 .. m)
    BY <2>1
  <2>4. {i} \X (1 .. m) \subseteq Pointer
    <3>1. \A k \in 1 .. m : k \in 1 .. MaxDirect
      BY <2>2, GeometryAssumption DEF GeometryAssumption
    <3> QED
      BY <2>2, <3>1 DEF Pointer
  <2>5. Cardinality({i} \X (1 .. m)) = m
    BY <2>2, RowCount
  <2> QED
    BY <2>1, <2>3, <2>4, <2>5
<1>4. ASSUME NEW n \in D, NEW m \in D, n # m
      PROVE  row[n] \cap row[m] = {}
  <2>1. SlotOf(n) # SlotOf(m)
    BY <1>2, <1>4
  <2> QED
    BY <2>1
<1>5. UNION {row[n] : n \in D} = Pointer
  <2>1. ASSUME NEW p \in Pointer PROVE p \in UNION {row[n] : n \in D}
    <3>1. /\ p[1] \in UsedSlots /\ p = <<p[1], p[2]>>
          /\ p[2] \in DOMAIN inode[p[1]].direct
      BY DEF Pointer, UsedSlots
    <3>2. inode[p[1]].name \in D /\ SlotOf(inode[p[1]].name) = p[1]
      BY <3>1, FilesMeans
    <3>3. p[2] \in 1 .. Weight[inode[p[1]].name]
      BY <1>2, <3>1, <3>2
    <3>4. p \in row[inode[p[1]].name]
      BY <3>1, <3>2, <3>3
    <3> QED
      BY <3>2, <3>4
  <2> QED
    BY <1>3, <2>1
<1>6. IsFiniteSet(Pointer) /\ Cardinality(Pointer) = TotalBlocks - DataStart - dsb.free_blocks
  BY FsckCounts, PointersFinite
<1>7. IsFiniteSet(D)
  BY FilesCount
<1> HIDE DEF row
<1>8. (CHOOSE g : Adds(g, Weight, D))[D] = Cardinality(UNION {row[n] : n \in D})
  <2> HIDE DEF D
  <2> QED
    BY <1>3, <1>4, <1>6, <1>7, AddsCounts
<1>9. TotalBlocks \in Int /\ DataStart \in Int /\ dsb.free_blocks \in Int
  BY <1>1, GeometryAssumption DEF GeometryAssumption, TypeOK, Superblock
<1>10. PICK r : r = (CHOOSE g : Adds(g, Weight, D))[D]
  OBVIOUS
<1>11. Abstract!Room = TotalBlocks - DataStart - r
  BY <1>10, RoomDefined
<1>12. r = TotalBlocks - DataStart - dsb.free_blocks
  BY <1>5, <1>6, <1>8, <1>10
<1> QED
  BY <1>9, <1>11, <1>12

-----------------------------------------------------------------------------
(* What a step does to the files.                                          *)

\* A file whose slot and blocks are left alone is the same file.
LEMMA FileKept ==
  ASSUME TypeOK, NEW j \in InodeId, inode[j].used, inode'[j] = inode[j],
         \A b \in BlocksOf(inode[j]) : data'[b] = data[b]
  PROVE  FileIn(j)' = FileIn(j)
<1> DEFINE ino == inode[j]
<1>1. /\ ino.size \in Nat
      /\ DOMAIN ino.direct = 1 .. Blocks(ino.size)
  BY SizeBlocks DEF TypeOK, Inode
<1>2. ASSUME NEW p \in 1 .. ino.size
      PROVE  data'[ino.direct[((p - 1) \div BlockSize) + 1]]
               = data[ino.direct[((p - 1) \div BlockSize) + 1]]
  <2>1. PICK k : k = ((p - 1) \div BlockSize) + 1
    OBVIOUS
  <2>2. k \in DOMAIN ino.direct
    BY <1>1, <2>1, ByteInBlock
  <2>3. ino.direct[k] \in BlocksOf(ino)
    BY <2>2 DEF BlocksOf, Image
  <2> QED
    BY <2>1, <2>3
<1>3. Content(inode[j])' = Content(inode[j])
  BY <1>2 DEF Content
<1> QED
  BY <1>3 DEF FileIn

\* The k-th chunk of a buffer holds its bytes behind k - 1 whole blocks.
LEMMA ByteOfChunk ==
  ASSUME NEW bytes, NEW n, n \in Nat, n = Len(bytes), NEW p, p \in 1 .. n
  PROVE  ChunkOf(bytes, ((p - 1) \div BlockSize) + 1)[((p - 1) % BlockSize) + 1] = bytes[p]
<1>1. PICK q, r : q = (p - 1) \div BlockSize /\ r = (p - 1) % BlockSize
  OBVIOUS
<1>2. p - 1 = BlockSize * q + r /\ r + 1 \in 1 .. BlockSize /\ q \in Nat /\ r \in Nat
  BY <1>1, GeometryAssumption DEF GeometryAssumption
<1>3. ((q + 1) - 1) * BlockSize + (r + 1) = p
  BY <1>2, GeometryAssumption DEF GeometryAssumption
<1> QED
  BY <1>1, <1>2, <1>3 DEF ChunkOf

\* What _do_write stores is what is read back, whatever blocks it took.
LEMMA StoredFile ==
  ASSUME TypeOK, NEW i \in InodeId, NEW ino \in Inode, NEW bytes \in Seq(Byte \cup {0}),
         NEW s, ~FitsNot(Len(bytes)), Store(i, ino, bytes, s)
  PROVE  /\ FileIn(i)' = [bytes |-> bytes, perm |-> ino.mode.perm]
         /\ inode' = [inode EXCEPT ![i] = inode'[i]]
         /\ inode'[i] \in Inode
         /\ inode'[i].used = ino.used
         /\ inode'[i].name = ino.name
         /\ \A b \in Block : b \notin (Block \ bitmap) \cup Image(ino.direct)
                               => data'[b] = data[b]
<1> DEFINE n    == Len(bytes)
           need == BlocksNeeded(n)
           old  == Image(ino.direct)
           kept == Blocks(n)
<1>1. sb.free_blocks \in Nat
  BY DEF TypeOK, Superblock
<1>2. n \in Size /\ n \in Nat /\ need \in 1 .. MaxDirect /\ kept \in 0 .. need
  BY <1>1, AcceptedSize, BlocksType
<1>3. PICK pick \in FirstFit(need, (Block \ bitmap) \cup old) :
        /\ data' = [b \in Block |->
                      IF b \in Image(pick)
                      THEN ChunkOf(bytes, CHOOSE k \in 1 .. need : pick[k] = b)
                      ELSE data[b]]
        /\ inode' = [inode EXCEPT ![i] =
                      [ino EXCEPT !.size = n,
                                  !.direct = [k \in 1 .. kept |-> pick[k]]]]
  BY DEF Store
<1>4. /\ pick \in [1 .. need -> (Block \ bitmap) \cup old]
      /\ \A x, y \in 1 .. need : x < y => pick[x] < pick[y]
  BY <1>3 DEF FirstFit
<1>5. old \subseteq Block
  BY ImageType
<1> DEFINE d   == [k \in 1 .. kept |-> pick[k]]
           new == [ino EXCEPT !.size = n, !.direct = d]
<1>6. d \in Direct
  <2>1. kept \in 0 .. MaxDirect
    BY <1>2, GeometryAssumption DEF GeometryAssumption
  <2>2. d \in [1 .. kept -> Block]
    BY <1>2, <1>4, <1>5
  <2> QED
    BY <2>1, <2>2, DirectType
<1>7. /\ new \in Inode /\ new.used = ino.used /\ new.name = ino.name
      /\ new.size = n /\ new.direct = d /\ new.mode = ino.mode
  BY <1>2, <1>6, InodeType DEF Inode
<1>8. inode'[i] = new /\ inode' = [inode EXCEPT ![i] = inode'[i]]
  BY <1>3 DEF TypeOK
<1>9. \A x, y \in 1 .. need : pick[x] = pick[y] => x = y
  <2> SUFFICES ASSUME NEW x \in 1 .. need, NEW y \in 1 .. need, pick[x] = pick[y], x # y
               PROVE  FALSE
    OBVIOUS
  <2>1. pick[x] \in Int /\ pick[y] \in Int
    BY <1>4, <1>5, GeometryAssumption DEF Block, GeometryAssumption
  <2>2. x < y \/ y < x
    BY <1>2
  <2> QED
    BY <1>4, <2>1, <2>2
<1>10. ASSUME NEW k \in 1 .. need
       PROVE  data'[pick[k]] = ChunkOf(bytes, k)
  <2>1. pick[k] \in Block /\ pick[k] \in Image(pick)
    BY <1>4, <1>5 DEF Image
  <2>2. (CHOOSE y \in 1 .. need : pick[y] = pick[k]) = k
    BY <1>9
  <2> QED
    BY <1>3, <2>1, <2>2
<1>11. ASSUME NEW b \in Block, b \notin (Block \ bitmap) \cup old
       PROVE  data'[b] = data[b]
  <2>1. b \notin Image(pick)
    BY <1>4, <1>11 DEF Image
  <2> QED
    BY <1>3, <2>1
<1> HIDE DEF new, d
<1>12. Content(inode[i])' = bytes
  <2> DEFINE c == Content(inode[i])'
  <2>1. c = [p \in 1 .. n |->
               data'[new.direct[((p - 1) \div BlockSize) + 1]][((p - 1) % BlockSize) + 1]]
    BY <1>7, <1>8 DEF Content
  <2>2. ASSUME NEW p \in 1 .. n
        PROVE  data'[new.direct[((p - 1) \div BlockSize) + 1]][((p - 1) % BlockSize) + 1]
                 = bytes[p]
    <3>1. PICK k : k = ((p - 1) \div BlockSize) + 1
      OBVIOUS
    <3>2. k \in 1 .. kept /\ k \in 1 .. need
      BY <1>2, <3>1, ByteInBlock
    <3>3. new.direct[k] = pick[k]
      BY <1>7, <3>2 DEF d
    <3>4. data'[new.direct[k]] = ChunkOf(bytes, k)
      BY <1>10, <3>2, <3>3
    <3> QED
      BY <1>2, <3>1, <3>4, ByteOfChunk
  <2>3. c = [p \in 1 .. n |-> bytes[p]]
    BY <2>1, <2>2
  <2>4. bytes = [p \in 1 .. n |-> bytes[p]]
    OBVIOUS
  <2> QED
    BY <2>3, <2>4
<1>13. FileIn(i)' = [bytes |-> bytes, perm |-> ino.mode.perm]
  BY <1>7, <1>8, <1>12 DEF FileIn
<1> QED
  BY <1>7, <1>8, <1>11, <1>13

\* The files of which some names go and some come.
Changed(gone, come, file) ==
  [m \in (DOMAIN Files \ gone) \cup come |-> IF m \in come THEN file ELSE Files[m]]

\* When one slot is rewritten the file that was in it goes, the file that is
\* in it comes, and every other file stays.
LEMMA FilesStep ==
  ASSUME NamesUnique, NamesUnique', inode \in [InodeId -> Inode],
         NEW i \in InodeId, NEW new, inode' = [inode EXCEPT ![i] = new],
         \A j \in InodeId \ {i} : inode[j].used => FileIn(j)' = FileIn(j),
         NEW gone, gone = IF inode[i].used THEN {inode[i].name} ELSE {},
         NEW come, come = IF new.used THEN {new.name} ELSE {}
  PROVE  Files' = Changed(gone, come, FileIn(i)')
<1>1. inode'[i] = new /\ \A j \in InodeId \ {i} : inode'[j] = inode[j]
  OBVIOUS
<1>2. /\ DOMAIN Files = {inode[j].name : j \in UsedSlots}
      /\ \A j \in UsedSlots : Files[inode[j].name] = FileIn(j)
  BY FilesMeans
<1>3. /\ DOMAIN Files' = {inode'[j].name : j \in UsedSlots'}
      /\ \A j \in UsedSlots' : Files'[inode'[j].name] = FileIn(j)'
  BY FilesMeansThen
<1>4. /\ UsedSlots = {j \in InodeId : inode[j].used}
      /\ UsedSlots' = {j \in InodeId : inode'[j].used}
  BY DEF UsedSlots
<1> DEFINE new2 == [m \in (DOMAIN Files \ gone) \cup come |->
                      IF m \in come THEN FileIn(i)' ELSE Files[m]]
<1>5. ASSUME NEW m \in DOMAIN Files'
      PROVE  m \in DOMAIN new2 /\ Files'[m] = new2[m]
  <2>1. PICK j \in UsedSlots' : m = inode'[j].name /\ Files'[m] = FileIn(j)'
    BY <1>3
  <2>2. CASE j = i
    BY <1>1, <1>4, <2>1, <2>2
  <2>3. CASE j # i
    <3>1. j \in UsedSlots /\ inode'[j] = inode[j] /\ m = inode[j].name
      BY <1>1, <1>4, <2>1, <2>3
    <3>2. m \in DOMAIN Files /\ Files[m] = FileIn(j) /\ FileIn(j)' = FileIn(j)
      BY <1>2, <1>4, <2>3, <3>1
    <3>3. m \notin gone
      BY <1>4, <2>3, <3>1 DEF NamesUnique
    <3>4. m \notin come
      <4>1. new.used => i \in UsedSlots'
        BY <1>1, <1>4
      <4>2. new.used => new.name # m
        BY <1>1, <2>1, <2>3, <4>1 DEF NamesUnique
      <4> QED
        BY <4>2
    <3> QED
      BY <2>1, <3>2, <3>3, <3>4
  <2> QED
    BY <2>2, <2>3
<1>6. ASSUME NEW m \in DOMAIN new2
      PROVE  m \in DOMAIN Files'
  <2>1. CASE m \in come
    BY <1>1, <1>3, <1>4, <2>1
  <2>2. CASE m \in DOMAIN Files \ gone
    <3>1. PICK j \in UsedSlots : m = inode[j].name
      BY <1>2, <2>2
    <3>2. j # i
      BY <1>4, <2>2, <3>1
    <3>3. j \in UsedSlots' /\ inode'[j].name = m
      BY <1>1, <1>4, <3>1, <3>2
    <3> QED
      BY <1>3, <3>3
  <2> QED
    BY <2>1, <2>2
<1>7. Files' = [m \in DOMAIN Files' |-> Files'[m]]
  BY DEF Files
<1>8. DOMAIN Files' = DOMAIN new2
  BY <1>5, <1>6
<1>9. new2 = [m \in DOMAIN new2 |-> new2[m]]
  OBVIOUS
<1> HIDE DEF new2
<1>10. Files' = new2
  BY <1>5, <1>7, <1>8, <1>9
<1> QED
  BY <1>10 DEF new2, Changed

-----------------------------------------------------------------------------
(* Commands that are refused, and those that change no file.               *)

\* A volume between two commands, where names are as long as they may be
\* and nobody stores an empty content.
Related == UserInv /\ NamesUnique /\ NoLeak

LEMMA SameFiles == UNCHANGED <<inode, data>> => Files' = Files
BY DEF Files, SlotOf, UsedSlots, FileIn, Content

\* A process that has the volume open finds the files of the store.
LEMMA OpenStore ==
  ASSUME Related, up
  PROVE  /\ TypeOK /\ sb = dsb /\ (dsb.magic => bitmap = dbitmap)
         /\ \A n : Holders(n) # {} <=> dsb.magic /\ n \in DOMAIN Files
         /\ \A n : Abstract!Exists(n) <=> dsb.magic /\ n \in DOMAIN Files
         /\ \A n, i : Found(n, i) =>
              /\ i \in InodeId /\ i \in UsedSlots /\ inode[i].used /\ inode[i].name = n
              /\ dsb.magic /\ n \in DOMAIN Files
              /\ Files[n] = FileIn(i)
<1>1. TypeOK /\ Durable
  BY DEF Related, UserInv, SafeInv
<1>2. sb = dsb /\ (dsb.magic => bitmap = dbitmap)
  BY <1>1 DEF Durable
<1>3. /\ DOMAIN Files = {inode[i].name : i \in UsedSlots}
      /\ \A i \in UsedSlots : Files[inode[i].name] = FileIn(i)
  BY FilesMeans DEF Related
<1>4. \A n : Holders(n) # {} <=> dsb.magic /\ n \in DOMAIN Files
  BY <1>2, <1>3 DEF Holders, UsedSlots
<1>5. \A n : Abstract!Exists(n) <=> dsb.magic /\ n \in DOMAIN Files
  BY DEF Abstract!Exists
<1>6. ASSUME NEW n, NEW i, Found(n, i)
      PROVE  /\ i \in InodeId /\ i \in UsedSlots /\ inode[i].used /\ inode[i].name = n
             /\ dsb.magic /\ n \in DOMAIN Files
             /\ Files[n] = FileIn(i)
  BY <1>2, <1>3, <1>6, FoundSlot DEF UsedSlots
<1> QED
  BY <1>1, <1>2, <1>4, <1>5, <1>6

\* FileStore has the operators of FiniteSets under names of its own here.
LEMMA SameCount == \A S : Abstract!Cardinality(S) = Cardinality(S)
BY DEF Abstract!Cardinality, Cardinality

\* Room and number of files of the store are the counters of the superblock.
LEMMA Counters ==
  ASSUME Related, dsb.magic
  PROVE  /\ Abstract!Room = dsb.free_blocks
         /\ Abstract!Cardinality(DOMAIN Files) = MaxInodes - dsb.free_inodes
         /\ dsb.free_blocks \in Nat /\ dsb.free_inodes \in Nat /\ MaxInodes \in Nat
<1>1. SafeInv /\ TypeOK
  BY DEF Related, UserInv, SafeInv
<1>2. Abstract!Room = dsb.free_blocks
  BY <1>1, RoomFree DEF Related
<1>3. Abstract!Cardinality(DOMAIN Files) = MaxInodes - dsb.free_inodes
  BY <1>1, FilesCount, FsckCounts, SameCount DEF Related
<1>4. dsb.free_blocks \in Nat /\ dsb.free_inodes \in Nat /\ MaxInodes \in Nat
  BY <1>1, GeometryAssumption DEF TypeOK, Superblock, GeometryAssumption
<1> QED
  BY <1>2, <1>3, <1>4

\* A refused command answers so and leaves the store alone.
LEMMA Refused ==
  ASSUME NEW cmd, Refuse(cmd)
  PROVE  /\ Abstract!Answer(cmd, FALSE, <<>>)
         /\ Files' = Files
         /\ UNCHANGED <<up, dsb>>
BY SameFiles DEF Refuse, Error, disk, Abstract!Answer

\* What _do_write looks at is the room of the store.
LEMMA FitsMeans ==
  ASSUME Related, up, dsb.magic, NEW bytes \in Seq(Byte \cup {0}), NEW old,
         Len(bytes) > 0
  PROVE  Abstract!Fits(bytes, old) <=> ~FitsNot(Len(bytes))
<1>1. PICK len : len = Len(bytes) /\ len \in Nat /\ len # 0
  OBVIOUS
<1>2. Blocks(len) \in Nat /\ BlocksNeeded(len) = Blocks(len)
  BY <1>1, BlocksType DEF BlocksNeeded
<1>3. Abstract!BlocksFor(len) = Blocks(len)
  BY DEF Abstract!BlocksFor, Blocks
<1>4. Abstract!Room = sb.free_blocks /\ sb.free_blocks \in Nat /\ MaxDirect \in Nat
  BY Counters, OpenStore, GeometryAssumption DEF GeometryAssumption
<1>5. Abstract!Fits(bytes, old) <=> Blocks(len) <= MaxDirect /\ Blocks(len) <= sb.free_blocks
  BY <1>1, <1>2, <1>3, <1>4 DEF Abstract!Fits
<1>6. FitsNot(len) <=> Blocks(len) > MaxDirect \/ Blocks(len) > sb.free_blocks
  BY <1>2 DEF FitsNot
<1> QED
  BY <1>1, <1>2, <1>4, <1>5, <1>6
-----------------------------------------------------------------------------
(* Every action of the volume is one of the store.                         *)

LEMMA FormatImplements ==
  ASSUME Related, NEW arg \in FormatArg, FormatDisk(arg, dsb, dbitmap), up' = up,
         AnswerFormat(arg)
  PROVE  Abstract!Format
<1>1. arg \in {"bad_block", "too_small", "fine"}
  BY DEF FormatArg
<1>2. CASE arg = "bad_block"
  <2>1. dsb' = dsb /\ Files' = Files
    BY <1>2, SameFiles DEF FormatDisk
  <2>2. Abstract!Answer("format", FALSE, <<>>)
    BY <1>2 DEF AnswerFormat, Error, Abstract!Answer
  <2> QED
    BY <2>1, <2>2 DEF Abstract!Format
<1>3. CASE arg # "bad_block"
  <2>1. /\ dsb' = IF arg = "fine" THEN FreshSb ELSE ZeroSb
        /\ inode' = [i \in InodeId |-> ZeroInode]
    BY <1>3 DEF FormatDisk
  <2>2. dsb'.magic = (arg = "fine")
    BY <1>1, <2>1 DEF FreshSb, ZeroSb
  <2>3. UsedSlots' = {}
    BY <2>1 DEF UsedSlots, ZeroInode
  <2>4. Files' = Abstract!Nothing
    <3>1. {inode'[i].name : i \in UsedSlots'} = {}
      BY <2>3
    <3> QED
      BY <3>1 DEF Files, Abstract!Nothing
  <2>5. Abstract!Answer("format", arg = "fine", <<>>)
    BY <1>1 DEF AnswerFormat, Ok, Error, Abstract!Answer
  <2>6. (arg = "fine") \in BOOLEAN
    OBVIOUS
  <2> QED
    BY <2>2, <2>4, <2>5, <2>6 DEF Abstract!Format
<1> QED
  BY <1>2, <1>3

LEMMA InitImplements == Init => Abstract!Init
<1> SUFFICES ASSUME Init PROVE Abstract!Init
  OBVIOUS
<1>1. dsb.magic = FALSE /\ up = FALSE /\ reply = [cmd |-> "none", ok |-> TRUE, out |-> <<>>]
  BY DEF Init, ZeroSb
<1>2. UsedSlots = {}
  BY DEF Init, UsedSlots, ZeroInode
<1>3. {inode[i].name : i \in UsedSlots} = {}
  BY <1>2
<1>4. Files = Abstract!Nothing
  BY <1>3 DEF Files, Abstract!Nothing
<1> QED
  BY <1>1, <1>4 DEF Abstract!Init, Abstract!Blank

\* One slot rewritten, for the three things that can happen to its file.
LEMMA FileGone ==
  ASSUME NamesUnique, NamesUnique', inode \in [InodeId -> Inode],
         NEW i \in InodeId, NEW new, inode' = [inode EXCEPT ![i] = new],
         \A j \in InodeId \ {i} : inode[j].used => FileIn(j)' = FileIn(j),
         inode[i].used, ~new.used
  PROVE  Files' = Abstract!Without(inode[i].name)
<1>0. PICK gone, come : /\ gone = IF inode[i].used THEN {inode[i].name} ELSE {}
                        /\ come = IF new.used THEN {new.name} ELSE {}
  OBVIOUS
<1>1. gone = {inode[i].name} /\ come = {}
  BY <1>0
<1>2. Files' = Changed(gone, come, FileIn(i)')
  BY <1>0, FilesStep
<1>3. (DOMAIN Files \ gone) \cup come = DOMAIN Files \ {inode[i].name}
  BY <1>1
<1>4. Files' = [m \in DOMAIN Files \ {inode[i].name} |-> Files[m]]
  BY <1>1, <1>2, <1>3 DEF Changed
<1> QED
  BY <1>4 DEF Abstract!Without

LEMMA FileCome ==
  ASSUME NamesUnique, NamesUnique', inode \in [InodeId -> Inode],
         NEW i \in InodeId, NEW new, inode' = [inode EXCEPT ![i] = new],
         \A j \in InodeId \ {i} : inode[j].used => FileIn(j)' = FileIn(j),
         new.used, inode[i].used => inode[i].name = new.name
  PROVE  Files' = Abstract!With(new.name, FileIn(i)')
<1>0. PICK gone, come : /\ gone = IF inode[i].used THEN {inode[i].name} ELSE {}
                        /\ come = IF new.used THEN {new.name} ELSE {}
  OBVIOUS
<1>1. gone \subseteq {new.name} /\ come = {new.name}
  BY <1>0
<1>2. Files' = Changed(gone, come, FileIn(i)')
  BY <1>0, FilesStep
<1>3. (DOMAIN Files \ gone) \cup come = DOMAIN Files \cup {new.name}
  BY <1>1
<1>4. Files' = [m \in DOMAIN Files \cup {new.name} |->
                  IF m = new.name THEN FileIn(i)' ELSE Files[m]]
  BY <1>1, <1>2, <1>3 DEF Changed
<1> QED
  BY <1>4 DEF Abstract!With

LEMMA FileMoved ==
  ASSUME NamesUnique, NamesUnique', inode \in [InodeId -> Inode],
         NEW i \in InodeId, NEW new, inode' = [inode EXCEPT ![i] = new],
         \A j \in InodeId \ {i} : inode[j].used => FileIn(j)' = FileIn(j),
         inode[i].used, new.used
  PROVE  Files' = [m \in (DOMAIN Files \ {inode[i].name}) \cup {new.name} |->
                     IF m = new.name THEN FileIn(i)' ELSE Files[m]]
<1>0. PICK gone, come : /\ gone = IF inode[i].used THEN {inode[i].name} ELSE {}
                        /\ come = IF new.used THEN {new.name} ELSE {}
  OBVIOUS
<1>1. gone = {inode[i].name} /\ come = {new.name}
  BY <1>0
<1>2. Files' = Changed(gone, come, FileIn(i)')
  BY <1>0, FilesStep
<1> QED
  BY <1>1, <1>2 DEF Changed

\* When no data is written the other slots keep their files.
LEMMA OthersStay ==
  ASSUME TypeOK, data' = data, NEW i \in InodeId, NEW new,
         inode' = [inode EXCEPT ![i] = new]
  PROVE  \A j \in InodeId \ {i} : inode[j].used => FileIn(j)' = FileIn(j)
<1> SUFFICES ASSUME NEW j \in InodeId \ {i}, inode[j].used
             PROVE  FileIn(j)' = FileIn(j)
  OBVIOUS
<1>1. inode'[j] = inode[j] /\ j \in InodeId
  BY DEF TypeOK
<1> QED
  BY <1>1, FileKept

\* Blocks taken for a content are no other file's.
LEMMA OthersSpared ==
  ASSUME Related, up, dsb.magic, NEW i \in InodeId, NEW ino \in Inode,
         Image(ino.direct) = BlocksOf(inode[i]),
         NEW new, inode' = [inode EXCEPT ![i] = new],
         \A b \in Block : b \notin (Block \ bitmap) \cup Image(ino.direct)
                            => data'[b] = data[b]
  PROVE  \A j \in InodeId \ {i} : inode[j].used => FileIn(j)' = FileIn(j)
<1> SUFFICES ASSUME NEW j \in InodeId \ {i}, inode[j].used
             PROVE  FileIn(j)' = FileIn(j)
  OBVIOUS
<1>1. TypeOK /\ bitmap = dbitmap /\ Apart(inode, dbitmap)
  BY OpenStore DEF Related, UserInv, SafeInv, DiskSafe
<1>2. inode'[j] = inode[j] /\ j \in InodeId
  BY <1>1 DEF TypeOK
<1>3. ASSUME NEW b \in BlocksOf(inode[j])
      PROVE  data'[b] = data[b]
  <2>1. b \in Block /\ b \in bitmap
    BY <1>1 DEF Apart, DataBlock
  <2>2. b \notin BlocksOf(inode[i])
    BY <1>1 DEF Apart
  <2> QED
    BY <2>1, <2>2
<1> QED
  BY <1>1, <1>2, <1>3, FileKept

\* A content stored is the content of the store's file.
LEMMA StoreImplements ==
  ASSUME Related, Related', up, dsb.magic,
         NEW i \in InodeId, NEW ino \in Inode, ino.used,
         Image(ino.direct) = BlocksOf(inode[i]),
         inode[i].used => inode[i].name = ino.name,
         NEW bytes \in Seq(Byte \cup {0}), NEW s \in Superblock, s.magic,
         ~FitsNot(Len(bytes)), Store(i, ino, bytes, s)
  PROVE  /\ Files' = Abstract!With(ino.name, [bytes |-> bytes, perm |-> ino.mode.perm])
         /\ dsb'.magic
<1>1. TypeOK
  BY OpenStore
<1>2. PICK new : new = inode'[i]
  OBVIOUS
<1>3. /\ FileIn(i)' = [bytes |-> bytes, perm |-> ino.mode.perm]
      /\ inode' = [inode EXCEPT ![i] = new]
      /\ new.used /\ new.name = ino.name
      /\ \A b \in Block : b \notin (Block \ bitmap) \cup Image(ino.direct)
                            => data'[b] = data[b]
  BY <1>1, <1>2, StoredFile
<1>4. \A j \in InodeId \ {i} : inode[j].used => FileIn(j)' = FileIn(j)
  BY <1>3, OthersSpared
<1>5. NamesUnique /\ NamesUnique' /\ inode \in [InodeId -> Inode]
  BY <1>1 DEF Related, TypeOK
<1>6. inode[i].used => inode[i].name = new.name
  BY <1>3
<1>7. Files' = Abstract!With(new.name, FileIn(i)')
  BY <1>3, <1>4, <1>5, <1>6, FileCome
<1>8. dsb'.magic
  BY DEF Store, SaveSb, Superblock
<1> QED
  BY <1>3, <1>7, <1>8

LEMMA CreateImplements ==
  ASSUME Related, Related', NEW n \in AnyName, Create(n)
  PROVE  Abstract!Create(n)
<1> DEFINE possible == /\ dsb.magic /\ n \in Name \ DOMAIN Files
                       /\ Abstract!Cardinality(DOMAIN Files) < MaxInodes
           file == [bytes |-> <<>>, perm |-> DefaultPerm]
<1>1. up /\ TypeOK /\ sb = dsb
  BY OpenStore DEF Create
<1>2. possible <=> MayCreate(n)
  <2>1. Holders(n) # {} <=> dsb.magic /\ n \in DOMAIN Files
    BY <1>1, OpenStore
  <2>2. CASE dsb.magic
    <3>1. Abstract!Cardinality(DOMAIN Files) < MaxInodes <=> dsb.free_inodes # 0
      BY <2>2, Counters
    <3> QED
      BY <1>1, <2>1, <2>2, <3>1 DEF MayCreate
  <2>3. CASE ~dsb.magic
    BY <1>1, <2>3 DEF MayCreate, Related, UserInv, User, Blank
  <2> QED
    BY <2>2, <2>3
<1>3. CASE ~MayCreate(n) /\ Refuse("create")
  <2>1. Abstract!Answer("create", FALSE, <<>>) /\ Files' = Files /\ UNCHANGED <<up, dsb>>
    BY <1>3, Refused
  <2> QED
    BY <1>1, <1>2, <1>3, <2>1 DEF Abstract!Create, Abstract!Attempt
<1>4. ASSUME MayCreate(n), NEW i \in InodeId, IsFirst(i, FreeSlots),
             inode' = [inode EXCEPT ![i] = NewInode(n)],
             dsb' = [sb EXCEPT !.free_inodes = @ - 1],
             Ok("create", <<>>), data' = data, up' = up
      PROVE  Abstract!Create(n)
  <2>1. NewInode(n).used /\ NewInode(n).name = n /\ ~inode[i].used
    BY <1>4 DEF NewInode, ZeroInode, IsFirst, FreeSlots
  <2>2. \A j \in InodeId \ {i} : inode[j].used => FileIn(j)' = FileIn(j)
    BY <1>1, <1>4, OthersStay
  <2>3. Files' = Abstract!With(NewInode(n).name, FileIn(i)')
    BY <1>1, <1>4, <2>1, <2>2, FileCome DEF Related, TypeOK
  <2>4. FileIn(i)' = file
    <3>1. inode'[i] = NewInode(n)
      BY <1>1, <1>4 DEF TypeOK
    <3>2. inode'[i].size = 0 /\ inode'[i].mode.perm = DefaultPerm
      BY <3>1 DEF NewInode, ZeroInode
    <3>3. Content(inode[i])' = <<>>
      BY <3>2 DEF Content
    <3> QED
      BY <3>2, <3>3 DEF FileIn
  <2>5. dsb'.magic = dsb.magic
    BY <1>1, <1>4 DEF TypeOK, Superblock
  <2>6. Abstract!Answer("create", TRUE, <<>>)
    BY <1>4 DEF Ok, Abstract!Answer
  <2>7. Files' = Abstract!With(n, file)
    BY <2>1, <2>3, <2>4
  <2> QED
    BY <1>1, <1>2, <1>4, <2>5, <2>6, <2>7 DEF Abstract!Create, Abstract!Attempt
<1> QED
  BY <1>3, <1>4 DEF Create, SaveSb

LEMMA DeleteImplements ==
  ASSUME Related, Related', NEW n \in AnyName, Delete(n)
  PROVE  Abstract!Delete(n)
<1>1. up /\ TypeOK /\ sb = dsb /\ (Abstract!Exists(n) <=> Holders(n) # {})
  BY OpenStore DEF Delete
<1>2. CASE Holders(n) = {} /\ Refuse("rm")
  <2>1. Abstract!Answer("rm", FALSE, <<>>) /\ Files' = Files /\ UNCHANGED <<up, dsb>>
    BY <1>2, Refused
  <2> QED
    BY <1>1, <1>2, <2>1 DEF Abstract!Delete, Abstract!Attempt
<1>3. ASSUME NEW i \in InodeId, Found(n, i),
             inode' = [inode EXCEPT ![i] = ZeroInode],
             dsb' = [sb EXCEPT !.free_blocks = @ + Blocks(inode[i].size),
                               !.free_inodes = @ + 1],
             Ok("rm", <<>>), data' = data, up' = up
      PROVE  Abstract!Delete(n)
  <2>1. inode[i].used /\ inode[i].name = n /\ ~ZeroInode.used /\ Abstract!Exists(n)
    BY <1>1, <1>3, OpenStore DEF ZeroInode
  <2>2. \A j \in InodeId \ {i} : inode[j].used => FileIn(j)' = FileIn(j)
    BY <1>1, <1>3, OthersStay
  <2>3. Files' = Abstract!Without(inode[i].name)
    BY <1>1, <1>3, <2>1, <2>2, FileGone DEF Related, TypeOK
  <2>4. dsb'.magic = dsb.magic
    BY <1>1, <1>3 DEF TypeOK, Superblock
  <2>5. Abstract!Answer("rm", TRUE, <<>>)
    BY <1>3 DEF Ok, Abstract!Answer
  <2> QED
    BY <1>1, <1>3, <2>1, <2>3, <2>4, <2>5 DEF Abstract!Delete, Abstract!Attempt
<1> QED
  BY <1>2, <1>3 DEF Delete, SaveSb

LEMMA RenameImplements ==
  ASSUME Related, Related', LongName = {},
         NEW old \in AnyName, NEW new \in AnyName, Rename(old, new)
  PROVE  Abstract!Rename(old, new)
<1> DEFINE result == [m \in (DOMAIN Files \ {old}) \cup {new} |->
                        IF m = new THEN Files[old] ELSE Files[m]]
           possible == Abstract!Exists(old) /\ new \in Name \ DOMAIN Files
<1>1. /\ up /\ TypeOK /\ sb = dsb
      /\ Abstract!Exists(old) <=> Holders(old) # {}
      /\ Holders(old) # {} => dsb.magic
      /\ Holders(new) # {} <=> dsb.magic /\ new \in DOMAIN Files
  BY OpenStore DEF Rename
<1>2. new \in Name /\ new \notin LongName
  BY DEF AnyName
<1>3. CASE (Holders(old) = {} \/ Holders(new) # {}) /\ Refuse("rename")
  <2>1. Abstract!Answer("rename", FALSE, <<>>) /\ Files' = Files /\ UNCHANGED <<up, dsb>>
    BY <1>3, Refused
  <2>2. ~possible
    BY <1>1, <1>3
  <2> QED
    BY <1>1, <2>1, <2>2 DEF Abstract!Rename, Abstract!Attempt
<1>4. ASSUME NEW i \in InodeId, Found(old, i), Holders(new) = {},
             inode' = [inode EXCEPT ![i].name = new],
             Ok("rename", <<>>), data' = data, up' = up, dsb' = dsb
      PROVE  Abstract!Rename(old, new)
  <2>1. inode[i].used /\ inode[i].name = old /\ Files[old] = FileIn(i) /\ dsb.magic
        /\ Abstract!Exists(old)
    BY <1>1, <1>4, OpenStore
  <2>2. PICK ino : ino = [inode[i] EXCEPT !.name = new]
    OBVIOUS
  <2>3. inode' = [inode EXCEPT ![i] = ino] /\ inode[i] \in Inode
    BY <1>1, <1>4, <2>2 DEF TypeOK
  <2>4. /\ ino.used /\ ino.name = new /\ ino.size = inode[i].size
        /\ ino.direct = inode[i].direct /\ ino.mode = inode[i].mode
    BY <2>1, <2>2, <2>3 DEF Inode
  <2>5. \A j \in InodeId \ {i} : inode[j].used => FileIn(j)' = FileIn(j)
    BY <1>1, <1>4, <2>3, OthersStay
  <2>6. Files' = [m \in (DOMAIN Files \ {inode[i].name}) \cup {ino.name} |->
                     IF m = ino.name THEN FileIn(i)' ELSE Files[m]]
    BY <1>1, <2>1, <2>3, <2>4, <2>5, FileMoved DEF Related, TypeOK
  <2>7. FileIn(i)' = Files[old]
    <3>1. inode'[i] = ino
      BY <1>1, <2>3 DEF TypeOK
    <3>2. Content(inode[i])' = Content(inode[i])
      BY <1>4, <2>4, <3>1 DEF Content
    <3> QED
      BY <2>1, <2>4, <3>1, <3>2 DEF FileIn
  <2>8. Files' = result
    BY <2>1, <2>4, <2>6, <2>7
  <2>9. possible
    BY <1>1, <1>2, <1>4, <2>1
  <2>10. Abstract!Answer("rename", TRUE, <<>>)
    BY <1>4 DEF Ok, Abstract!Answer
  <2> QED
    BY <1>1, <1>4, <2>8, <2>9, <2>10 DEF Abstract!Rename, Abstract!Attempt
<1> QED
  BY <1>2, <1>3, <1>4 DEF Rename

LEMMA ChmodImplements ==
  ASSUME Related, Related', NEW n \in AnyName, NEW mode \in Mode, Chmod(n, mode)
  PROVE  Abstract!Chmod(n, mode.perm)
<1>1. up /\ TypeOK /\ sb = dsb /\ (Abstract!Exists(n) <=> Holders(n) # {})
  BY OpenStore DEF Chmod
<1>2. CASE Holders(n) = {} /\ Refuse("chmod")
  <2>1. Abstract!Answer("chmod", FALSE, <<>>) /\ Files' = Files /\ UNCHANGED <<up, dsb>>
    BY <1>2, Refused
  <2> QED
    BY <1>1, <1>2, <2>1 DEF Abstract!Chmod, Abstract!Attempt
<1>3. ASSUME NEW i \in InodeId, Found(n, i),
             inode' = [inode EXCEPT ![i].mode.perm = mode.perm],
             Ok("chmod", <<>>), data' = data, up' = up, dsb' = dsb
      PROVE  Abstract!Chmod(n, mode.perm)
  <2>1. inode[i].used /\ inode[i].name = n /\ Files[n] = FileIn(i) /\ Abstract!Exists(n)
    BY <1>1, <1>3, OpenStore
  <2>2. PICK ino : ino = [inode[i] EXCEPT !.mode.perm = mode.perm]
    OBVIOUS
  <2>3. inode' = [inode EXCEPT ![i] = ino] /\ inode[i] \in Inode
    BY <1>1, <1>3, <2>2 DEF TypeOK
  <2>4. /\ ino.used /\ ino.name = n /\ ino.size = inode[i].size
        /\ ino.direct = inode[i].direct /\ ino.mode.perm = mode.perm
    BY <2>1, <2>2, <2>3 DEF Inode, Mode
  <2>5. \A j \in InodeId \ {i} : inode[j].used => FileIn(j)' = FileIn(j)
    BY <1>1, <1>3, <2>3, OthersStay
  <2>6. Files' = Abstract!With(ino.name, FileIn(i)')
    BY <1>1, <2>1, <2>3, <2>4, <2>5, FileCome DEF Related, TypeOK
  <2>7. FileIn(i)' = [Files[n] EXCEPT !.perm = mode.perm]
    <3>1. inode'[i] = ino
      BY <1>1, <2>3 DEF TypeOK
    <3>2. Content(inode[i])' = Content(inode[i])
      BY <1>3, <2>4, <3>1 DEF Content
    <3> QED
      BY <2>1, <2>4, <3>1, <3>2 DEF FileIn
  <2>8. Files' = Abstract!With(n, [Files[n] EXCEPT !.perm = mode.perm])
    BY <2>4, <2>6, <2>7
  <2>9. Abstract!Answer("chmod", TRUE, <<>>)
    BY <1>3 DEF Ok, Abstract!Answer
  <2> QED
    BY <1>1, <1>3, <2>1, <2>8, <2>9 DEF Abstract!Chmod, Abstract!Attempt
<1> QED
  BY <1>2, <1>3 DEF Chmod

LEMMA TruncateImplements ==
  ASSUME Related, Related', NEW n \in AnyName, NEW size \in Size, Truncate(n, size)
  PROVE  Abstract!Truncate(n, size)
<1> DEFINE result == Abstract!With(n, [Files[n] EXCEPT !.bytes = SubSeq(@, 1, size)])
           possible == Abstract!Exists(n) /\ size <= Len(Files[n].bytes)
<1>1. up /\ TypeOK /\ sb = dsb /\ (Abstract!Exists(n) <=> Holders(n) # {})
  BY OpenStore DEF Truncate
<1>2. ASSUME Refuse("truncate"), ~possible PROVE Abstract!Truncate(n, size)
  <2>1. Abstract!Answer("truncate", FALSE, <<>>) /\ Files' = Files /\ UNCHANGED <<up, dsb>>
    BY <1>2, Refused
  <2> QED
    BY <1>1, <1>2, <2>1 DEF Abstract!Truncate, Abstract!Attempt
<1>3. ASSUME NEW i \in InodeId, Found(n, i)
      PROVE  /\ inode[i].used /\ inode[i].name = n /\ Files[n] = FileIn(i)
             /\ Abstract!Exists(n)
             /\ Files[n].bytes = Content(inode[i])
             /\ Content(inode[i]) \in Seq(Nat)
             /\ Len(Files[n].bytes) = inode[i].size
  <2>1. inode[i].used /\ inode[i].name = n /\ Files[n] = FileIn(i) /\ Abstract!Exists(n)
    BY <1>1, <1>3, OpenStore
  <2>2. Files[n].bytes = Content(inode[i])
    BY <2>1 DEF FileIn
  <2> QED
    BY <1>1, <2>1, <2>2, ContentType
<1>4. ASSUME NEW i \in InodeId, Found(n, i), size <= inode[i].size,
             inode' = [inode EXCEPT ![i].size = size,
                                    ![i].direct = [k \in 1 .. Blocks(size) |->
                                                     inode[i].direct[k]]],
             dsb' = [sb EXCEPT !.free_blocks =
                       @ + Blocks(inode[i].size) - Blocks(size)],
             Ok("truncate", <<>>), data' = data, up' = up
      PROVE  Abstract!Truncate(n, size)
  <2>1. /\ inode[i].used /\ inode[i].name = n /\ possible
        /\ Files[n] = FileIn(i) /\ Files[n].bytes = Content(inode[i])
        /\ Content(inode[i]) \in Seq(Nat) /\ Len(Content(inode[i])) = inode[i].size
    BY <1>3, <1>4
  <2> DEFINE d == [k \in 1 .. Blocks(size) |-> inode[i].direct[k]]
  <2>2. PICK ino : ino = [inode[i] EXCEPT !.size = size, !.direct = d]
    OBVIOUS
  <2>3. inode' = [inode EXCEPT ![i] = ino] /\ inode[i] \in Inode
    BY <1>1, <1>4, <2>2 DEF TypeOK
  <2>4. /\ ino.used /\ ino.name = n /\ ino.size = size
        /\ ino.direct = d /\ ino.mode = inode[i].mode
    BY <2>1, <2>2, <2>3 DEF Inode
  <2>5. \A j \in InodeId \ {i} : inode[j].used => FileIn(j)' = FileIn(j)
    BY <1>1, <1>4, <2>3, OthersStay
  <2>6. Files' = Abstract!With(ino.name, FileIn(i)')
    BY <1>1, <2>1, <2>3, <2>4, <2>5, FileCome DEF Related, TypeOK
  <2>7. Content(inode[i])' = SubSeq(Content(inode[i]), 1, size)
    <3> DEFINE c == Content(inode[i])
               e == Content(inode[i])'
               byte(list, p) == data[list[((p - 1) \div BlockSize) + 1]][((p - 1) % BlockSize) + 1]
    <3>1. inode'[i] = ino
      BY <1>1, <2>3 DEF TypeOK
    <3>2. size \in Nat /\ inode[i].size \in Nat
      BY <2>3, SizeBlocks DEF Inode
    <3>3. e = [p \in 1 .. size |-> byte(d, p)]
      <4>1. e = [p \in 1 .. ino.size |->
                   data'[ino.direct[((p - 1) \div BlockSize) + 1]][((p - 1) % BlockSize) + 1]]
        BY <3>1 DEF Content
      <4>2. e = [p \in 1 .. ino.size |-> byte(ino.direct, p)]
        BY <1>4, <4>1
      <4> HIDE DEF d, e, byte
      <4> QED
        BY <2>4, <4>2
    <3>4. c = [p \in 1 .. inode[i].size |-> byte(inode[i].direct, p)]
      BY DEF Content
    <3>5. ASSUME NEW p \in 1 .. size
          PROVE  byte(d, p) = c[p]
      <4>1. p \in 1 .. inode[i].size
        BY <1>4, <3>2
      <4>2. c[p] = byte(inode[i].direct, p)
        BY <3>4, <4>1
      <4>3. PICK k : k = ((p - 1) \div BlockSize) + 1
        OBVIOUS
      <4>4. k \in 1 .. Blocks(size)
        BY <3>2, <4>3, ByteInBlock
      <4>5. d[k] = inode[i].direct[k]
        BY <4>4
      <4> HIDE DEF d, c
      <4> QED
        BY <4>2, <4>3, <4>5
    <3> HIDE DEF c, d, e
    <3>6. e = [p \in 1 .. size |-> c[p]]
      BY <3>3, <3>5
    <3>7. SubSeq(c, 1, size) = [p \in 1 .. size |-> c[p]]
      <4>1. c \in Seq(Nat) /\ size <= Len(c)
        BY <1>4, <2>1 DEF c
      <4> QED
        BY <3>2, <4>1
    <3> QED
      BY <3>6, <3>7 DEF c, e
  <2>8. FileIn(i)' = [Files[n] EXCEPT !.bytes = SubSeq(@, 1, size)]
    <3>1. inode'[i].mode = inode[i].mode
      BY <1>1, <2>3, <2>4 DEF TypeOK
    <3>2. PICK b, p : b = Content(inode[i]) /\ p = inode[i].mode.perm
      OBVIOUS
    <3>3. Files[n] = [bytes |-> b, perm |-> p]
      BY <2>1, <3>2 DEF FileIn
    <3>4. FileIn(i)' = [bytes |-> SubSeq(b, 1, size), perm |-> p]
      BY <2>7, <3>1, <3>2 DEF FileIn
    <3>5. Files[n].bytes = b
      BY <3>3
    <3>6. PICK f, c : f = Files[n] /\ c = SubSeq(Files[n].bytes, 1, size)
      OBVIOUS
    <3>7. [f EXCEPT !.bytes = c] = [bytes |-> c, perm |-> p]
      <4>1. f = [bytes |-> b, perm |-> p]
        BY <3>3, <3>6
      <4> QED
        BY ONLY <4>1
    <3>8. c = SubSeq(b, 1, size)
      BY <3>5, <3>6
    <3>9. FileIn(i)' = [f EXCEPT !.bytes = c]
      BY <3>4, <3>7, <3>8
    <3> QED
      BY <3>6, <3>9
  <2>9. Files' = result
    BY <2>4, <2>6, <2>8
  <2>10. dsb'.magic = dsb.magic
    BY <1>1, <1>4 DEF TypeOK, Superblock
  <2>11. Abstract!Answer("truncate", TRUE, <<>>)
    BY <1>4 DEF Ok, Abstract!Answer
  <2> QED
    BY <1>1, <1>4, <2>1, <2>9, <2>10, <2>11 DEF Abstract!Truncate, Abstract!Attempt
<1>5. CASE Holders(n) = {} /\ Refuse("truncate")
  BY <1>1, <1>2, <1>5
<1>6. ASSUME NEW i \in InodeId, Found(n, i), size > inode[i].size, Refuse("truncate")
      PROVE  Abstract!Truncate(n, size)
  <2>1. inode[i].size \in Nat /\ size \in Nat
    BY <1>1, SizeBlocks DEF TypeOK, Inode
  <2>2. ~possible
    BY <1>3, <1>6, <2>1
  <2> QED
    BY <1>2, <1>6, <2>2
<1> QED
  BY <1>4, <1>5, <1>6 DEF Truncate, SaveSb

\* A content stored in the slot of a file.
LEMMA ReplaceImplements ==
  ASSUME Related, Related', up, NEW n, NEW i \in InodeId, Found(n, i),
         NEW bytes \in Seq(Byte \cup {0}),
         ~FitsNot(Len(bytes)), Store(i, inode[i], bytes, sb)
  PROVE  /\ Files' = Abstract!With(n, [Files[n] EXCEPT !.bytes = bytes])
         /\ dsb'.magic = dsb.magic
<1>1. /\ TypeOK /\ sb = dsb
      /\ inode[i].used /\ inode[i].name = n /\ Files[n] = FileIn(i) /\ dsb.magic
  BY OpenStore
<1>2. /\ inode[i] \in Inode /\ sb \in Superblock /\ sb.magic
      /\ Image(inode[i].direct) = BlocksOf(inode[i])
  BY <1>1 DEF TypeOK, BlocksOf
<1>3. /\ Files' = Abstract!With(n, [bytes |-> bytes, perm |-> inode[i].mode.perm])
      /\ dsb'.magic
  BY <1>1, <1>2, StoreImplements
<1>4. PICK f, b, p : f = Files[n] /\ b = f.bytes /\ p = inode[i].mode.perm
  OBVIOUS
<1>5. f = [bytes |-> b, perm |-> p]
  BY <1>1, <1>4 DEF FileIn
<1>6. [f EXCEPT !.bytes = bytes] = [bytes |-> bytes, perm |-> p]
  BY ONLY <1>5
<1>7. dsb'.magic = TRUE /\ dsb.magic = TRUE
  <2>1. dsb.magic \in BOOLEAN
    BY <1>1 DEF TypeOK, Superblock
  <2>2. dsb'.magic \in BOOLEAN
    BY DEF Related, UserInv, SafeInv, TypeOK, Superblock
  <2> QED
    BY <1>1, <1>3, <2>1, <2>2
<1> QED
  BY <1>3, <1>4, <1>6, <1>7

LEMMA WriteImplements ==
  ASSUME Related, Related', <<>> \notin Payload,
         NEW n \in AnyName, NEW bytes \in Payload, Write(n, bytes)
  PROVE  Abstract!Write(n, bytes)
<1> DEFINE possible == Abstract!Exists(n) /\ Abstract!Fits(bytes, Files[n].bytes)
<1>1. /\ up /\ sb = dsb /\ (Abstract!Exists(n) <=> Holders(n) # {})
      /\ Abstract!Exists(n) => dsb.magic
  BY OpenStore DEF Write
<1>2. bytes \in Seq(Byte \cup {0}) /\ Len(bytes) > 0
  <2>1. bytes \in Seq(Byte \cup {0})
    BY BytesAssumption, BufferType DEF BytesAssumption
  <2> QED
    BY <2>1
<1>3. dsb.magic => (Abstract!Fits(bytes, Files[n].bytes) <=> ~FitsNot(Len(bytes)))
  BY <1>1, <1>2, FitsMeans
<1>4. CASE (Holders(n) = {} \/ FitsNot(Len(bytes))) /\ Refuse("write")
  <2>1. Abstract!Answer("write", FALSE, <<>>) /\ Files' = Files /\ UNCHANGED <<up, dsb>>
    BY <1>4, Refused
  <2>2. ~possible
    BY <1>1, <1>3, <1>4
  <2> QED
    BY <1>1, <2>1, <2>2 DEF Abstract!Write, Abstract!Attempt
<1>5. ASSUME NEW i \in InodeId, Found(n, i), ~FitsNot(Len(bytes)),
             Store(i, inode[i], bytes, sb), Ok("write", <<>>), up' = up
      PROVE  Abstract!Write(n, bytes)
  <2>1. Files' = Abstract!With(n, [Files[n] EXCEPT !.bytes = bytes]) /\ dsb'.magic = dsb.magic
    BY <1>1, <1>2, <1>5, ReplaceImplements
  <2>2. possible
    BY <1>1, <1>3, <1>5, OpenStore
  <2>3. Abstract!Answer("write", TRUE, <<>>)
    BY <1>5 DEF Ok, Abstract!Answer
  <2> QED
    BY <1>1, <1>5, <2>1, <2>2, <2>3 DEF Abstract!Write, Abstract!Attempt
<1> QED
  BY <1>4, <1>5 DEF Write

LEMMA AppendImplements ==
  ASSUME Related, Related', <<>> \notin Payload,
         NEW n \in AnyName, NEW bytes \in Payload, AppendTo(n, bytes)
  PROVE  Abstract!AppendTo(n, bytes)
<1> DEFINE all == Files[n].bytes \o bytes
           possible == Abstract!Exists(n) /\ Abstract!Fits(all, Files[n].bytes)
<1>1. /\ up /\ TypeOK /\ sb = dsb /\ (Abstract!Exists(n) <=> Holders(n) # {})
      /\ Abstract!Exists(n) => dsb.magic
  BY OpenStore DEF AppendTo
<1>2. bytes \in Seq(Byte \cup {0}) /\ Len(bytes) > 0
  <2>1. bytes \in Seq(Byte \cup {0})
    BY BytesAssumption, BufferType DEF BytesAssumption
  <2> QED
    BY <2>1
<1>3. CASE Holders(n) = {} /\ Refuse("append")
  <2>1. Abstract!Answer("append", FALSE, <<>>) /\ Files' = Files /\ UNCHANGED <<up, dsb>>
    BY <1>3, Refused
  <2>2. ~possible
    BY <1>1, <1>3
  <2> QED
    BY <1>1, <2>1, <2>2 DEF Abstract!AppendTo, Abstract!Attempt
<1>4. ASSUME NEW i \in InodeId, Found(n, i)
      PROVE  /\ Content(inode[i]) \o bytes = all
             /\ all \in Seq(Byte \cup {0})
             /\ Abstract!Exists(n)
             /\ Abstract!Fits(all, Files[n].bytes) <=> ~FitsNot(Len(all))
  <2>1. Files[n] = FileIn(i) /\ Abstract!Exists(n) /\ dsb.magic
    BY <1>1, <1>4, OpenStore
  <2>2. PICK c : c = Content(inode[i])
    OBVIOUS
  <2>3. Files[n].bytes = c
    BY <2>1, <2>2 DEF FileIn
  <2>4. c \in Seq(Byte \cup {0})
    BY <1>1, <2>2, ContentType
  <2>5. c \o bytes \in Seq(Byte \cup {0}) /\ Len(c \o bytes) > 0
    BY <1>2, <2>4
  <2>6. all = c \o bytes
    BY <2>3
  <2> HIDE DEF all
  <2>7. Abstract!Fits(all, Files[n].bytes) <=> ~FitsNot(Len(all))
    BY <1>1, <2>1, <2>5, <2>6, FitsMeans
  <2> QED
    BY <2>1, <2>2, <2>5, <2>6, <2>7
<1>5. ASSUME NEW i \in InodeId, Found(n, i),
             FitsNot(Len(Content(inode[i]) \o bytes)), Refuse("append")
      PROVE  Abstract!AppendTo(n, bytes)
  <2>1. Abstract!Answer("append", FALSE, <<>>) /\ Files' = Files /\ UNCHANGED <<up, dsb>>
    BY <1>5, Refused
  <2>2. ~possible
    <3>1. FitsNot(Len(all))
      BY <1>4, <1>5
    <3> HIDE DEF all
    <3> QED
      BY <1>4, <1>5, <3>1
  <2> QED
    BY <1>1, <2>1, <2>2 DEF Abstract!AppendTo, Abstract!Attempt
<1>6. ASSUME NEW i \in InodeId, Found(n, i),
             ~FitsNot(Len(Content(inode[i]) \o bytes)),
             Store(i, inode[i], Content(inode[i]) \o bytes, sb),
             Ok("append", <<>>), up' = up
      PROVE  Abstract!AppendTo(n, bytes)
  <2>1. PICK a : a = all
    OBVIOUS
  <2>2. /\ a \in Seq(Byte \cup {0}) /\ Abstract!Exists(n)
        /\ ~FitsNot(Len(a)) /\ Store(i, inode[i], a, sb)
    BY <1>4, <1>6, <2>1
  <2>3. Files' = Abstract!With(n, [Files[n] EXCEPT !.bytes = a]) /\ dsb'.magic = dsb.magic
    BY <1>1, <1>6, <2>2, ReplaceImplements
  <2>4. possible
    BY <1>4, <1>6, <2>1, <2>2
  <2>5. Abstract!Answer("append", TRUE, <<>>)
    BY <1>6 DEF Ok, Abstract!Answer
  <2>6. Files' = Abstract!With(n, [Files[n] EXCEPT !.bytes = @ \o bytes])
    BY <2>1, <2>3
  <2> QED
    BY <1>1, <1>6, <2>3, <2>4, <2>5, <2>6 DEF Abstract!AppendTo, Abstract!Attempt
<1> QED
  BY <1>3, <1>5, <1>6 DEF AppendTo

\* An empty content fits always.
LEMMA NothingFits ==
  ASSUME Related, dsb.magic, NEW old
  PROVE  Abstract!Fits(<<>>, old)
<1>1. Len(<<>>) = 0
  OBVIOUS
<1>2. Abstract!BlocksFor(0) = 0
  BY NoBlocks DEF Abstract!BlocksFor, Blocks
<1>3. Abstract!Room \in Nat /\ MaxDirect \in Nat
  BY Counters, GeometryAssumption DEF GeometryAssumption
<1> QED
  BY <1>1, <1>2, <1>3 DEF Abstract!Fits

LEMMA CopyImplements ==
  ASSUME Related, Related', LongName = {},
         NEW src \in AnyName, NEW dst \in AnyName, Copy(src, dst)
  PROVE  Abstract!Copy(src, dst)
<1> DEFINE room     == Abstract!Cardinality(DOMAIN Files) < MaxInodes
           possible == /\ Abstract!Exists(src)
                       /\ dst \in Name \ DOMAIN Files
                       /\ room
                       /\ Abstract!Fits(Files[src].bytes, <<>>)
           New(i)   == [NewInode(dst) EXCEPT !.mode = inode[i].mode]
           S        == [sb EXCEPT !.free_inodes = @ - 1]
<1>1. /\ up /\ TypeOK /\ sb = dsb
      /\ Abstract!Exists(src) <=> Holders(src) # {}
      /\ Abstract!Exists(src) => dsb.magic
      /\ Holders(dst) # {} <=> dsb.magic /\ dst \in DOMAIN Files
  BY OpenStore DEF Copy
<1>2. dst \in Name /\ Stored(dst) = dst
  BY DEF AnyName, Stored
<1>3. dsb.magic => (room <=> sb.free_inodes # 0)
  BY <1>1, Counters
<1>4. ASSUME Refuse("cp"), ~possible PROVE Abstract!Copy(src, dst)
  <2>1. Abstract!Answer("cp", FALSE, <<>>) /\ Files' = Files /\ UNCHANGED <<up, dsb>>
    BY <1>4, Refused
  <2> HIDE DEF room
  <2> QED
    BY <1>1, <1>4, <2>1 DEF Abstract!Copy, Abstract!Attempt, room
<1>5. CASE (Holders(src) = {} \/ Holders(dst) # {} \/ sb.free_inodes = 0) /\ Refuse("cp")
  BY <1>1, <1>3, <1>4, <1>5
<1>6. ASSUME NEW i \in InodeId, Found(src, i)
      PROVE  /\ Abstract!Exists(src) /\ dsb.magic
             /\ inode[i].used /\ inode[i].name = src /\ Files[src] = FileIn(i)
             /\ Files[src].bytes = Content(inode[i])
             /\ Content(inode[i]) \in Seq(Byte \cup {0})
             /\ Len(Content(inode[i])) = inode[i].size
             /\ inode[i].size \in Nat
             /\ Files[src] = [bytes |-> Content(inode[i]), perm |-> inode[i].mode.perm]
             /\ New(i) \in Inode /\ New(i).used /\ New(i).name = dst
             /\ New(i).mode.perm = inode[i].mode.perm
             /\ New(i).size = 0 /\ New(i).direct = <<>>
  <2>1. /\ Abstract!Exists(src) /\ dsb.magic
        /\ inode[i].used /\ inode[i].name = src /\ Files[src] = FileIn(i)
    BY <1>1, <1>6, OpenStore
  <2>2. /\ Files[src] = [bytes |-> Content(inode[i]), perm |-> inode[i].mode.perm]
        /\ Files[src].bytes = Content(inode[i])
    BY <2>1 DEF FileIn
  <2>3. inode[i] \in Inode /\ inode[i].mode \in Mode /\ inode[i].size \in Nat
    BY <1>1, SizeBlocks DEF TypeOK, Inode
  <2>4. NewInode(dst) \in Inode /\ NewInode(dst).used /\ NewInode(dst).direct = <<>>
    BY <1>2, NewInodeType
  <2>5. NewInode(dst).name = dst /\ NewInode(dst).size = 0
    BY DEF NewInode, ZeroInode
  <2>6. New(i) \in Inode
    BY <2>3, <2>4, InodeType
  <2>7. /\ New(i).used /\ New(i).name = dst /\ New(i).mode = inode[i].mode
        /\ New(i).size = 0 /\ New(i).direct = <<>>
    BY <2>4, <2>5 DEF Inode
  <2> HIDE DEF New
  <2> QED
    BY <1>1, <2>1, <2>2, <2>3, <2>6, <2>7, ContentType
<1>7. ASSUME NEW i \in InodeId, Found(src, i), inode[i].size > 0
      PROVE  Abstract!Fits(Files[src].bytes, <<>>) <=> ~FitsNot(inode[i].size)
  <2>1. PICK c : c = Content(inode[i])
    OBVIOUS
  <2>2. /\ c \in Seq(Byte \cup {0}) /\ Len(c) = inode[i].size /\ Len(c) > 0
        /\ Files[src].bytes = c /\ dsb.magic
    BY <1>6, <1>7, <2>1
  <2> QED
    BY <1>1, <2>2, FitsMeans
<1>8. ASSUME NEW i \in InodeId, Found(src, i), inode[i].size = 0
      PROVE  Abstract!Fits(Files[src].bytes, <<>>) /\ Content(inode[i]) = <<>>
  <2>1. PICK c : c = Content(inode[i])
    OBVIOUS
  <2>2. c \in Seq(Byte \cup {0}) /\ Len(c) = 0 /\ Files[src].bytes = c
    BY <1>6, <1>8, <2>1
  <2>3. c = <<>>
    BY <2>2
  <2> QED
    BY <1>6, <1>8, <2>1, <2>2, <2>3, NothingFits
<1>9. ASSUME NEW i \in InodeId, NEW j \in InodeId,
             Found(src, i), Holders(dst) = {}, sb.free_inodes # 0,
             Abstract!Fits(Files[src].bytes, <<>>),
             Files' = Abstract!With(dst, Files[src]), dsb'.magic = dsb.magic,
             up' = up, Ok("cp", <<>>)
      PROVE  Abstract!Copy(src, dst)
  <2>1. possible
    BY <1>1, <1>2, <1>3, <1>6, <1>9
  <2>2. Abstract!Answer("cp", TRUE, <<>>)
    BY <1>9 DEF Ok, Abstract!Answer
  <2> QED
    BY <1>1, <1>9, <2>1, <2>2 DEF Abstract!Copy, Abstract!Attempt
<1>10. ASSUME NEW j \in InodeId, IsFirst(j, FreeSlots)
       PROVE  ~inode[j].used /\ BlocksOf(inode[j]) = {}
  BY <1>10, NoOwner DEF IsFirst, FreeSlots
<1>11. S.magic = sb.magic /\ dsb.magic \in BOOLEAN
  BY <1>1 DEF TypeOK, Superblock
<1>12. ASSUME NEW i \in InodeId, NEW j \in InodeId,
              Found(src, i), Holders(dst) = {}, sb.free_inodes # 0,
              IsFirst(j, FreeSlots), inode[i].size = 0,
              inode' = [inode EXCEPT ![j] = New(i)],
              dsb' = S, Ok("cp", <<>>), up' = up, data' = data
       PROVE  Abstract!Copy(src, dst)
  <2>1. PICK new : new = New(i)
    OBVIOUS
  <2>2. /\ inode' = [inode EXCEPT ![j] = new] /\ new.used /\ new.name = dst
        /\ new.size = 0 /\ new.mode.perm = inode[i].mode.perm
    BY <1>6, <1>12, <2>1
  <2>3. \A k \in InodeId \ {j} : inode[k].used => FileIn(k)' = FileIn(k)
    BY <1>1, <1>12, <2>2, OthersStay
  <2>4. Files' = Abstract!With(new.name, FileIn(j)')
    BY <1>1, <1>10, <1>12, <2>2, <2>3, FileCome DEF Related, TypeOK
  <2>5. FileIn(j)' = Files[src]
    <3>1. inode'[j] = new
      BY <1>1, <2>2 DEF TypeOK
    <3>2. Content(inode[j])' = <<>>
      BY <2>2, <3>1 DEF Content
    <3>3. FileIn(j)' = [bytes |-> <<>>, perm |-> inode[i].mode.perm]
      BY <2>2, <3>1, <3>2 DEF FileIn
    <3> QED
      BY <1>6, <1>8, <1>12, <3>3
  <2>6. Files' = Abstract!With(dst, Files[src])
    BY <2>2, <2>4, <2>5
  <2> HIDE DEF New, S
  <2>7. dsb'.magic = dsb.magic /\ Abstract!Fits(Files[src].bytes, <<>>)
    BY <1>1, <1>8, <1>11, <1>12
  <2> QED
    BY <1>9, <1>12, <2>6, <2>7
<1>13. ASSUME NEW i \in InodeId, NEW j \in InodeId,
              Found(src, i), Holders(dst) = {}, sb.free_inodes # 0,
              IsFirst(j, FreeSlots), inode[i].size > 0, ~FitsNot(inode[i].size),
              Store(j, New(i), Content(inode[i]), S), Ok("cp", <<>>), up' = up
       PROVE  Abstract!Copy(src, dst)
  <2>1. PICK new, s, c : new = New(i) /\ s = S /\ c = Content(inode[i])
    OBVIOUS
  <2>2. /\ new \in Inode /\ new.used /\ new.name = dst
        /\ new.direct = <<>> /\ new.mode.perm = inode[i].mode.perm
        /\ c \in Seq(Byte \cup {0}) /\ Len(c) = inode[i].size
        /\ dsb.magic /\ Files[src] = [bytes |-> c, perm |-> inode[i].mode.perm]
    BY <1>6, <1>13, <2>1
  <2>3. Image(new.direct) = BlocksOf(inode[j]) /\ ~inode[j].used
    BY <1>10, <1>13, <2>2, NoOwner
  <2>4. s \in Superblock /\ s.magic
    <3>1. sb \in Superblock /\ sb.free_inodes - 1 \in Nat
      BY <1>1, <1>13 DEF TypeOK, Superblock
    <3>2. s \in Superblock
      BY <2>1, <3>1 DEF Superblock
    <3> QED
      BY <1>1, <1>11, <2>1, <2>2, <3>2
  <2>5. Store(j, new, c, s)
    BY <1>13, <2>1
  <2> HIDE DEF New, S
  <2>6. /\ Files' = Abstract!With(new.name, [bytes |-> c, perm |-> new.mode.perm])
        /\ dsb'.magic
    BY <1>1, <1>13, <2>2, <2>3, <2>4, <2>5, StoreImplements
  <2>7. Files' = Abstract!With(dst, Files[src])
    BY <2>2, <2>6
  <2>8. dsb'.magic = dsb.magic
    <3>1. dsb'.magic \in BOOLEAN
      BY DEF Related, UserInv, SafeInv, TypeOK, Superblock
    <3>2. dsb'.magic = TRUE /\ dsb.magic = TRUE
      BY <1>11, <2>2, <2>6, <3>1
    <3> QED
      BY <3>2
  <2>9. Abstract!Fits(Files[src].bytes, <<>>)
    BY <1>7, <1>13
  <2> QED
    BY <1>9, <1>13, <2>7, <2>8, <2>9
<1>14. ASSUME NEW i \in InodeId, Found(src, i), inode[i].size > 0,
              FitsNot(inode[i].size), Refuse("cp")
       PROVE  Abstract!Copy(src, dst)
  BY <1>4, <1>7, <1>14
<1> QED
  BY <1>2, <1>5, <1>12, <1>13, <1>14 DEF Copy, SaveSb

-----------------------------------------------------------------------------
(* Questions, and what closes and opens the volume.                        *)

LEMMA ReadImplements ==
  ASSUME Related, Related', NEW n \in AnyName, Read(n)
  PROVE  Abstract!Read(n)
<1>1. up /\ TypeOK /\ sb = dsb /\ (Abstract!Exists(n) <=> Holders(n) # {})
  BY OpenStore DEF Read
<1>2. CASE Holders(n) = {} /\ Refuse("read")
  <2>1. Abstract!Answer("read", FALSE, <<>>) /\ Files' = Files /\ UNCHANGED <<up, dsb>>
    BY <1>2, Refused
  <2> QED
    BY <1>1, <1>2, <2>1 DEF Abstract!Read, Abstract!Ask
<1>3. ASSUME NEW i \in InodeId, Found(n, i), Ok("read", Content(inode[i])),
             dsb' = [sb EXCEPT !.total_reads = Bump(@)],
             UNCHANGED <<up, inode, data>>
      PROVE  Abstract!Read(n)
  <2>1. Files[n].bytes = Content(inode[i]) /\ Abstract!Exists(n)
    <3>1. Files[n] = FileIn(i) /\ Abstract!Exists(n)
      BY <1>1, <1>3, OpenStore
    <3> QED
      BY <3>1 DEF FileIn
  <2>2. Abstract!Answer("read", TRUE, Files[n].bytes)
    BY <1>3, <2>1 DEF Ok, Abstract!Answer
  <2>3. dsb'.magic = dsb.magic
    BY <1>1, <1>3 DEF TypeOK, Superblock
  <2>4. Files' = Files
    BY <1>3, SameFiles
  <2> QED
    BY <1>1, <1>3, <2>1, <2>2, <2>3, <2>4 DEF Abstract!Read, Abstract!Ask
<1> QED
  BY <1>2, <1>3 DEF Read, SaveSb

LEMMA StatImplements ==
  ASSUME Related, NEW n \in AnyName, Stat(n)
  PROVE  Abstract!Stat(n)
<1>1. up /\ TypeOK /\ (Abstract!Exists(n) <=> Holders(n) # {})
  BY OpenStore DEF Stat
<1>2. CASE Holders(n) = {} /\ Refuse("stat")
  <2>1. Abstract!Answer("stat", FALSE, <<>>) /\ Files' = Files /\ UNCHANGED <<up, dsb>>
    BY <1>2, Refused
  <2> QED
    BY <1>1, <1>2, <2>1 DEF Abstract!Stat, Abstract!Ask
<1>3. ASSUME NEW i \in InodeId, Found(n, i),
             Ok("stat", <<inode[i].size, Blocks(inode[i].size), inode[i].mode.perm>>),
             UNCHANGED <<up, dsb, inode, data>>
      PROVE  Abstract!Stat(n)
  <2>1. Files[n] = FileIn(i) /\ Abstract!Exists(n)
    BY <1>1, <1>3, OpenStore
  <2>2. Len(Files[n].bytes) = inode[i].size /\ Files[n].perm = inode[i].mode.perm
    BY <1>1, <2>1, ContentType DEF FileIn
  <2>3. Abstract!BlocksFor(inode[i].size) = Blocks(inode[i].size)
    BY DEF Abstract!BlocksFor, Blocks
  <2>4. Files' = Files
    BY <1>3, SameFiles
  <2>5. PICK len, perm : len = inode[i].size /\ perm = inode[i].mode.perm
    OBVIOUS
  <2>6. Abstract!Answer("stat", TRUE, <<len, Abstract!BlocksFor(len), perm>>)
    BY <1>3, <2>3, <2>5 DEF Ok, Abstract!Answer
  <2>7. Abstract!Answer("stat", TRUE,
          <<Len(Files[n].bytes), Abstract!BlocksFor(Len(Files[n].bytes)), Files[n].perm>>)
    BY <2>2, <2>5, <2>6
  <2> QED
    BY <1>1, <1>3, <2>1, <2>4, <2>7 DEF Abstract!Stat, Abstract!Ask
<1> QED
  BY <1>2, <1>3 DEF Stat, disk

\* What the store answers when asked about itself.
LEMMA Told ==
  ASSUME NEW cmd, NEW answer, NEW out, up, Ok(cmd, out),
         UNCHANGED <<up, dsb, inode, data>>, dsb.magic \in BOOLEAN,
         out = IF dsb.magic THEN answer ELSE [k \in DOMAIN answer |-> 0]
  PROVE  Abstract!AskStore(cmd, answer)
<1>1. Abstract!Answer(cmd, TRUE, out) /\ Files' = Files
  BY SameFiles DEF Ok, Abstract!Answer
<1>2. CASE dsb.magic
  BY <1>1, <1>2 DEF Abstract!AskStore
<1>3. CASE ~dsb.magic
  BY <1>1, <1>3 DEF Abstract!AskStore
<1> QED
  BY <1>2, <1>3

LEMMA ZeroAnswers ==
  /\ \A a : [k \in DOMAIN <<a>> |-> 0] = <<0>>
  /\ \A a, b : [k \in DOMAIN <<a, b>> |-> 0] = <<0, 0>>
OBVIOUS

LEMMA LsImplements ==
  ASSUME Related, Ls
  PROVE  Abstract!Ls
<1>1. up /\ TypeOK /\ sb = dsb /\ dsb.magic \in BOOLEAN
  BY OpenStore DEF Ls, TypeOK, Superblock
<1>2. PICK count, out : /\ count = Abstract!Cardinality(DOMAIN Files)
                        /\ out = <<IF sb.magic THEN Cardinality(UsedSlots) ELSE 0>>
  OBVIOUS
<1>3. dsb.magic => out = <<count>>
  BY <1>1, <1>2, FilesCount, SameCount DEF Related
<1>4. ~dsb.magic => out = [k \in DOMAIN <<count>> |-> 0]
  BY <1>1, <1>2, ZeroAnswers
<1>5. PICK answer : answer = <<count>>
  OBVIOUS
<1>6. out = IF dsb.magic THEN answer ELSE [k \in DOMAIN answer |-> 0]
  BY <1>3, <1>4, <1>5
<1>7. Ok("ls", out) /\ UNCHANGED <<up, dsb, inode, data>>
  BY <1>2 DEF Ls, disk
<1>8. Abstract!AskStore("ls", answer)
  BY <1>1, <1>6, <1>7, Told
<1> QED
  BY <1>2, <1>5, <1>8 DEF Abstract!Ls

LEMMA StatfsImplements ==
  ASSUME Related, Statfs
  PROVE  Abstract!Statfs
<1>1. up /\ TypeOK /\ sb = dsb /\ dsb.magic \in BOOLEAN /\ Blank
  BY OpenStore DEF Statfs, TypeOK, Superblock, Related, UserInv, User
<1>2. PICK room, left, out : /\ room = Abstract!Room
                             /\ left = MaxInodes - Abstract!Cardinality(DOMAIN Files)
                             /\ out = <<sb.free_blocks, sb.free_inodes>>
  OBVIOUS
<1>3. dsb.magic => out = <<room, left>>
  BY <1>1, <1>2, Counters
<1>4. ~dsb.magic => out = [k \in DOMAIN <<room, left>> |-> 0]
  BY <1>1, <1>2, ZeroAnswers DEF Blank
<1>5. PICK answer : answer = <<room, left>>
  OBVIOUS
<1>6. out = IF dsb.magic THEN answer ELSE [k \in DOMAIN answer |-> 0]
  BY <1>3, <1>4, <1>5
<1>7. Ok("statfs", out) /\ UNCHANGED <<up, dsb, inode, data>>
  BY <1>2 DEF Statfs, disk
<1>8. Abstract!AskStore("statfs", answer)
  BY <1>1, <1>6, <1>7, Told
<1> QED
  BY <1>2, <1>5, <1>8 DEF Abstract!Statfs

\* fsck has nothing to report of a volume that is there.
LEMMA FsckImplements ==
  ASSUME Related, Fsck
  PROVE  Abstract!Fsck
<1>1. /\ up /\ TypeOK /\ sb = dsb /\ dsb.magic \in BOOLEAN
      /\ SafeInv /\ NoLeak /\ NoSharedBlocks
  BY OpenStore, ApartMeans
     DEF Fsck, TypeOK, Superblock, Related, UserInv, SafeInv, DiskSafe
<1>2. FsckFindsNothing <=> dsb.magic
  BY <1>1, FsckCounts DEF FsckFindsNothing, NoSharedBlocks
<1>3. Files' = Files
  BY SameFiles DEF Fsck, disk
<1>4. CASE dsb.magic
  <2>1. Abstract!Answer("fsck", dsb.magic, <<>>)
    BY <1>1, <1>2, <1>4 DEF Fsck, Ok, Abstract!Answer
  <2> QED
    BY <1>1, <1>3, <2>1 DEF Abstract!Fsck, Fsck, disk
<1>5. CASE ~dsb.magic
  <2>1. Abstract!Answer("fsck", dsb.magic, <<>>)
    BY <1>1, <1>2, <1>5 DEF Fsck, Error, Abstract!Answer
  <2> QED
    BY <1>1, <1>3, <2>1 DEF Abstract!Fsck, Fsck, disk
<1> QED
  BY <1>1, <1>4, <1>5

\* Unmount and Kill close the store and Mount opens it: no file changes.
LEMMA OpenCloseImplements ==
  ASSUME Related, Mount \/ Unmount \/ Kill
  PROVE  Abstract!Open \/ Abstract!Close
<1>1. CASE Mount
  BY <1>1, SameFiles DEF Mount, disk, Abstract!Open
<1>2. CASE Unmount
  <2>1. dsb' = dsb
    BY <1>2, OpenStore DEF Unmount, SyncedSb
  <2> QED
    BY <1>2, <2>1, SameFiles DEF Unmount, Exit, Abstract!Close
<1>3. CASE Kill
  BY <1>3, SameFiles DEF Kill, Exit, disk, Abstract!Close
<1> QED
  BY <1>1, <1>2, <1>3

-----------------------------------------------------------------------------
(* Every step of the volume is one of the store.                           *)

LEMMA CommandImplements ==
  ASSUME LongName = {}, <<>> \notin Payload, Related, Related', Command
  PROVE  Abstract!Command
<1>1. AnyName = Name \cup LongName /\ Size = 0 .. MaxDirect * BlockSize
  BY DEF AnyName, Size
<1>2. \A mode \in Mode : mode.perm \in Perm
  BY DEF Mode
<1>3. CASE Fsck \/ Ls \/ Statfs
  BY <1>3, FsckImplements, LsImplements, StatfsImplements DEF Abstract!Command
<1>4. ASSUME NEW n \in AnyName, Create(n) \/ Delete(n) \/ Read(n) \/ Stat(n)
      PROVE  Abstract!Command
  <2>1. Abstract!Create(n) \/ Abstract!Delete(n) \/ Abstract!Read(n) \/ Abstract!Stat(n)
    BY <1>4, CreateImplements, DeleteImplements, ReadImplements, StatImplements
  <2> QED
    BY <1>1, <2>1 DEF Abstract!Command
<1>5. ASSUME NEW n \in AnyName, NEW m \in AnyName, Rename(n, m) \/ Copy(n, m)
      PROVE  Abstract!Command
  <2>1. Abstract!Rename(n, m) \/ Abstract!Copy(n, m)
    BY <1>5, RenameImplements, CopyImplements
  <2> QED
    BY <1>1, <2>1 DEF Abstract!Command
<1>6. ASSUME NEW n \in AnyName, NEW mode \in Mode, Chmod(n, mode)
      PROVE  Abstract!Command
  <2>1. Abstract!Chmod(n, mode.perm)
    BY <1>6, ChmodImplements
  <2> QED
    BY <1>1, <1>2, <2>1 DEF Abstract!Command
<1>7. ASSUME NEW n \in AnyName, NEW size \in Size, Truncate(n, size)
      PROVE  Abstract!Command
  <2>1. Abstract!Truncate(n, size)
    BY <1>7, TruncateImplements
  <2> QED
    BY <1>1, <2>1 DEF Abstract!Command
<1>8. ASSUME NEW n \in AnyName, NEW bytes \in Payload, Write(n, bytes) \/ AppendTo(n, bytes)
      PROVE  Abstract!Command
  <2>1. Abstract!Write(n, bytes) \/ Abstract!AppendTo(n, bytes)
    BY <1>8, WriteImplements, AppendImplements
  <2> QED
    BY <1>1, <2>1 DEF Abstract!Command
<1> QED
  BY <1>3, <1>4, <1>5, <1>6, <1>7, <1>8 DEF Command

LEMMA StoreStep ==
  ASSUME LongName = {}, <<>> \notin Payload, Related, Related', [Next]_vars
  PROVE  [Abstract!Next]_(Abstract!vars)
<1>1. ASSUME NEW arg \in FormatArg, CliFormat(arg)
      PROVE  Abstract!Next
  BY <1>1, FormatImplements DEF CliFormat, Abstract!Next
<1>2. ASSUME NEW arg \in FormatArg, ShellFormat(arg)
      PROVE  Abstract!Next
  <2>1. SyncedSb = dsb /\ SyncedBitmap = dbitmap
    BY <1>2, OpenStore DEF ShellFormat, SyncedSb, SyncedBitmap
  <2> QED
    BY <1>2, <2>1, FormatImplements DEF ShellFormat, Abstract!Next
<1>3. CASE Mount \/ Unmount \/ Kill
  BY <1>3, OpenCloseImplements DEF Abstract!Next
<1>4. CASE Command
  BY <1>4, CommandImplements DEF Abstract!Next
<1>5. CASE UNCHANGED vars
  <2>1. UNCHANGED <<up, dsb, inode, data, reply>>
    BY <1>5 DEF vars, disk
  <2> QED
    BY <2>1, SameFiles DEF Abstract!vars
<1> QED
  BY <1>1, <1>2, <1>3, <1>4, <1>5 DEF Next

\* Where no name is too long and nobody stores an empty content, the volume
\* is a durable map from names to files: every command does to the files
\* what it answers and nothing else, is refused exactly when the store must
\* refuse it, and neither a kill nor an unmount and a mount changes a file.
THEOREM StoreCorrect ==
  ASSUME LongName = {}, <<>> \notin Payload
  PROVE  Spec => ImplementsFileStore
<1>1. UserInv => Related
  BY DEF UserInv, User, Related
<1>2. Related /\ Related' /\ [Next]_vars => [Abstract!Next]_(Abstract!vars)
  BY StoreStep
<1> QED
  BY <1>1, <1>2, InitImplements, UserAlways, PTL DEF Spec, ImplementsFileStore, Abstract!Spec
=============================================================================
