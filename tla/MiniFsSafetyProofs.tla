------------------------ MODULE MiniFsSafetyProofs --------------------------
(***************************************************************************)
(* The safety of MiniFs for every volume: commands leave nothing behind in *)
(* memory, no block has two owners, and the counters of the superblock     *)
(* agree with the bitmap and the inode table.                              *)
(***************************************************************************)
EXTENDS MiniFsProofs, FiniteSetTheorems

-----------------------------------------------------------------------------
(* Who owns which block, for any inode table.                              *)

OneToOne(f, S) == \A x, y \in S : f[x] = f[y] => x = y

BlocksOf(ino) == IF ino.used THEN Image(ino.direct) ELSE {}

\* The table tab on the bitmap bm: its pointers are marked data blocks, no
\* list names a block twice, and no two slots share one.
Apart(tab, bm) ==
  /\ \A i \in InodeId : BlocksOf(tab[i]) \subseteq DataBlock \cap bm
  /\ \A i \in InodeId : tab[i].used => OneToOne(tab[i].direct, DOMAIN tab[i].direct)
  /\ \A i, j \in InodeId : i # j => BlocksOf(tab[i]) \cap BlocksOf(tab[j]) = {}

\* The positions of a list of pointers are legal positions.
LEMMA ListDomain ==
  ASSUME NEW ino \in Inode
  PROVE  DOMAIN ino.direct \subseteq 1 .. MaxDirect
<1>1. PICK k \in 0 .. MaxDirect : ino.direct \in [1 .. k -> Block]
  BY DEF Inode, Direct
<1> QED
  BY <1>1, GeometryAssumption DEF GeometryAssumption

\* Apart says what NoSharedBlocks says.
LEMMA ApartMeans ==
  ASSUME inode \in [InodeId -> Inode]
  PROVE  NoSharedBlocks <=> Apart(inode, dbitmap)
<1>1. \A i \in InodeId : DOMAIN inode[i].direct \subseteq 1 .. MaxDirect
  BY ListDomain
<1>2. \A i \in InodeId : \A k \in DOMAIN inode[i].direct :
        inode[i].used => /\ <<i, k>> \in Pointer
                         /\ BlockAt(<<i, k>>) = inode[i].direct[k]
  BY <1>1 DEF Pointer, BlockAt
<1>3. \A p \in Pointer : /\ p[1] \in InodeId
                         /\ p[2] \in DOMAIN inode[p[1]].direct
                         /\ inode[p[1]].used
                         /\ BlockAt(p) = inode[p[1]].direct[p[2]]
                         /\ BlockAt(p) \in BlocksOf(inode[p[1]])
                         /\ p = <<p[1], p[2]>>
  BY DEF Pointer, BlockAt, BlocksOf, Image
<1>4. ASSUME NoSharedBlocks PROVE Apart(inode, dbitmap)
  <2>1. ASSUME NEW i \in InodeId PROVE BlocksOf(inode[i]) \subseteq DataBlock \cap dbitmap
    <3> SUFFICES ASSUME inode[i].used, NEW k \in DOMAIN inode[i].direct
                 PROVE  inode[i].direct[k] \in DataBlock \cap dbitmap
      BY DEF BlocksOf, Image
    <3>1. <<i, k>> \in Pointer /\ BlockAt(<<i, k>>) = inode[i].direct[k]
      BY <1>2
    <3> QED
      BY <1>4, <3>1 DEF NoSharedBlocks
  <2>2. ASSUME NEW i \in InodeId, inode[i].used
        PROVE  OneToOne(inode[i].direct, DOMAIN inode[i].direct)
    <3> SUFFICES ASSUME NEW x \in DOMAIN inode[i].direct, NEW y \in DOMAIN inode[i].direct,
                        inode[i].direct[x] = inode[i].direct[y]
                 PROVE  x = y
      BY DEF OneToOne
    <3>1. /\ <<i, x>> \in Pointer /\ BlockAt(<<i, x>>) = inode[i].direct[x]
          /\ <<i, y>> \in Pointer /\ BlockAt(<<i, y>>) = inode[i].direct[y]
      BY <1>2, <2>2
    <3>2. <<i, x>> = <<i, y>>
      BY <1>4, <3>1 DEF NoSharedBlocks
    <3> QED
      BY <3>2
  <2>3. ASSUME NEW i \in InodeId, NEW j \in InodeId, i # j
        PROVE  BlocksOf(inode[i]) \cap BlocksOf(inode[j]) = {}
    <3> SUFFICES ASSUME NEW x \in DOMAIN inode[i].direct, inode[i].used,
                        NEW y \in DOMAIN inode[j].direct, inode[j].used,
                        inode[i].direct[x] = inode[j].direct[y]
                 PROVE  FALSE
      BY DEF BlocksOf, Image
    <3>1. /\ <<i, x>> \in Pointer /\ BlockAt(<<i, x>>) = inode[i].direct[x]
          /\ <<j, y>> \in Pointer /\ BlockAt(<<j, y>>) = inode[j].direct[y]
      BY <1>2
    <3>2. <<i, x>> = <<j, y>>
      BY <1>4, <3>1 DEF NoSharedBlocks
    <3> QED
      BY <2>3, <3>2
  <2> QED
    BY <2>1, <2>2, <2>3 DEF Apart
<1>5. ASSUME Apart(inode, dbitmap) PROVE NoSharedBlocks
  <2>1. \A p \in Pointer : BlockAt(p) \in DataBlock \cap dbitmap
    BY <1>3, <1>5 DEF Apart
  <2>2. ASSUME NEW p \in Pointer, NEW q \in Pointer, BlockAt(p) = BlockAt(q)
        PROVE  p = q
    <3>1. p[1] = q[1]
      BY <1>3, <1>5, <2>2 DEF Apart
    <3>2. p[2] = q[2]
      BY <1>3, <1>5, <2>2, <3>1 DEF Apart, OneToOne
    <3> QED
      BY <1>3, <3>1, <3>2
  <2> QED
    BY <2>1, <2>2 DEF NoSharedBlocks
<1> QED
  BY <1>4, <1>5

\* A slot may be rewritten when its new blocks were its own or clear, and
\* the bitmap keeps everything else.
LEMMA Reassign ==
  ASSUME NEW tab \in [InodeId -> Inode], NEW bm, NEW bm2, Apart(tab, bm),
         NEW i \in InodeId, NEW new \in Inode,
         new.used => OneToOne(new.direct, DOMAIN new.direct),
         BlocksOf(new) \subseteq DataBlock,
         BlocksOf(new) \cap bm \subseteq BlocksOf(tab[i]),
         bm \ BlocksOf(tab[i]) \subseteq bm2,
         BlocksOf(new) \subseteq bm2
  PROVE  Apart([tab EXCEPT ![i] = new], bm2)
<1> DEFINE tab2 == [tab EXCEPT ![i] = new]
<1>1. tab2[i] = new /\ \A j \in InodeId \ {i} : tab2[j] = tab[j]
  OBVIOUS
<1> HIDE DEF tab2
<1>2. ASSUME NEW j \in InodeId \ {i}
      PROVE  /\ BlocksOf(tab[j]) \subseteq DataBlock \cap bm2
             /\ BlocksOf(tab[j]) \cap BlocksOf(new) = {}
  BY DEF Apart
<1>3. \A j \in InodeId : BlocksOf(tab2[j]) \subseteq DataBlock \cap bm2
  BY <1>1, <1>2
<1>4. \A j \in InodeId : tab2[j].used => OneToOne(tab2[j].direct, DOMAIN tab2[j].direct)
  BY <1>1 DEF Apart
<1>5. \A j, k \in InodeId : j # k => BlocksOf(tab2[j]) \cap BlocksOf(tab2[k]) = {}
  BY <1>1, <1>2 DEF Apart
<1> QED
  BY <1>3, <1>4, <1>5 DEF Apart, tab2

-----------------------------------------------------------------------------
(* Counting.                                                               *)

\* A one-to-one image of a finite set has its size.
LEMMA ImageCount ==
  ASSUME NEW S, IsFiniteSet(S), NEW f, OneToOne(f, S)
  PROVE  /\ IsFiniteSet({f[x] : x \in S})
         /\ Cardinality({f[x] : x \in S}) = Cardinality(S)
<1> DEFINE T == {f[x] : x \in S}
           g == [x \in S |-> f[x]]
<1>1. g \in Bijection(S, T)
  BY DEF OneToOne, Bijection, Injection, Surjection, IsInjective
<1>2. ExistsBijection(S, T)
  BY <1>1 DEF ExistsBijection
<1> QED
  BY <1>2, FS_Bijection

\* The blocks and the slots are finitely many.
LEMMA Finite ==
  /\ IsFiniteSet(Block) /\ Cardinality(Block) = TotalBlocks
  /\ IsFiniteSet(MetaBlock) /\ Cardinality(MetaBlock) = DataStart
  /\ IsFiniteSet(InodeId) /\ Cardinality(InodeId) = MaxInodes
  /\ MetaBlock \subseteq Block
<1>1. /\ TotalBlocks \in Nat /\ TotalBlocks - 1 \in Int
      /\ DataStart \in Nat \ {0} /\ DataStart - 1 \in Int /\ DataStart < TotalBlocks
      /\ MaxInodes \in Nat \ {0} /\ MaxInodes - 1 \in Int
  BY GeometryAssumption DEF GeometryAssumption
<1>2. IsFiniteSet(Block) /\ Cardinality(Block) = TotalBlocks
  BY <1>1, FS_Interval DEF Block
<1>3. IsFiniteSet(MetaBlock) /\ Cardinality(MetaBlock) = DataStart
  BY <1>1, FS_Interval DEF MetaBlock
<1>4. IsFiniteSet(InodeId) /\ Cardinality(InodeId) = MaxInodes
  BY <1>1, FS_Interval DEF InodeId
<1>5. MetaBlock \subseteq Block
  BY <1>1 DEF MetaBlock, Block
<1> QED
  BY <1>2, <1>3, <1>4, <1>5

\* The clear bits of a set of blocks.
LEMMA ClearBits ==
  ASSUME NEW bm \in SUBSET Block
  PROVE  /\ IsFiniteSet(bm) /\ Cardinality(bm) \in Nat
         /\ Cardinality(Block \ bm) = TotalBlocks - Cardinality(bm)
<1>1. IsFiniteSet(bm) /\ IsFiniteSet(Block \ bm)
  BY Finite, FS_Subset
<1>2. Cardinality(bm) \in Nat /\ Cardinality(Block \ bm) \in Nat
  BY <1>1, FS_CardinalityType
<1>3. Block = bm \cup (Block \ bm) /\ bm \cap (Block \ bm) = {}
  OBVIOUS
<1>4. Cardinality(Block) = Cardinality(bm) + Cardinality(Block \ bm) - Cardinality({})
  BY <1>1, <1>3, FS_Union
<1> QED
  BY <1>1, <1>2, <1>4, Finite, FS_EmptySet

\* Sets with nothing in common add up.
LEMMA DisjointCount ==
  ASSUME NEW S, IsFiniteSet(S), NEW T, IsFiniteSet(T), S \cap T = {}
  PROVE  Cardinality(S \cup T) = Cardinality(S) + Cardinality(T)
<1>1. Cardinality(S) \in Nat /\ Cardinality(T) \in Nat
  BY FS_CardinalityType
<1>2. Cardinality(S \cup T) = Cardinality(S) + Cardinality(T) - Cardinality(S \cap T)
  BY FS_Union
<1> QED
  BY <1>1, <1>2, FS_EmptySet

\* Clearing R and then setting A, which was clear by then, moves the number
\* of clear bits by their difference.
LEMMA BitmapCount ==
  ASSUME NEW bm \in SUBSET Block, NEW R \in SUBSET bm, NEW A \in SUBSET Block,
         A \cap (bm \ R) = {}
  PROVE  Cardinality(Block \ ((bm \ R) \cup A))
           = Cardinality(Block \ bm) + Cardinality(R) - Cardinality(A)
<1> DEFINE kept == bm \ R
<1>1. /\ IsFiniteSet(bm) /\ IsFiniteSet(R) /\ IsFiniteSet(A) /\ IsFiniteSet(kept)
      /\ Cardinality(bm) \in Nat /\ Cardinality(R) \in Nat
      /\ Cardinality(A) \in Nat /\ Cardinality(kept) \in Nat
  BY ClearBits
<1>2. Cardinality(bm) = Cardinality(kept) + Cardinality(R)
  <2>1. bm = kept \cup R /\ kept \cap R = {}
    OBVIOUS
  <2>2. Cardinality(kept \cup R) = Cardinality(kept) + Cardinality(R)
    BY <1>1, <2>1, DisjointCount
  <2> QED
    BY <2>1, <2>2
<1>3. Cardinality(kept \cup A) = Cardinality(kept) + Cardinality(A)
  <2>1. kept \cap A = {}
    OBVIOUS
  <2> QED
    BY <1>1, <2>1, DisjointCount
<1>4. /\ Cardinality(Block \ bm) = TotalBlocks - Cardinality(bm)
      /\ Cardinality(Block \ (kept \cup A)) = TotalBlocks - Cardinality(kept \cup A)
  BY ClearBits
<1>5. TotalBlocks \in Nat
  BY GeometryAssumption DEF GeometryAssumption
<1> QED
  BY <1>1, <1>2, <1>3, <1>4, <1>5

\* A slot that changes changes the number of free slots by its own part.
LEMMA SlotCount ==
  ASSUME inode \in [InodeId -> Inode], NEW i \in InodeId, NEW new \in Inode,
         inode' = [inode EXCEPT ![i] = new]
  PROVE  /\ Cardinality(FreeSlots) \in Nat
         /\ Cardinality(FreeSlots') = Cardinality(FreeSlots)
              + (IF new.used THEN 0 ELSE 1) - (IF inode[i].used THEN 0 ELSE 1)
<1>1. IsFiniteSet(FreeSlots)
  BY Finite, FS_Subset DEF FreeSlots
<1>2. Cardinality(FreeSlots) \in Nat
  BY <1>1, FS_CardinalityType
<1>3. inode'[i] = new /\ \A j \in InodeId \ {i} : inode'[j] = inode[j]
  OBVIOUS
<1>4. new.used \in BOOLEAN /\ inode[i].used \in BOOLEAN
  BY DEF Inode
<1>5. CASE new.used = inode[i].used
  <2>1. FreeSlots' = FreeSlots
    BY <1>3, <1>5 DEF FreeSlots
  <2> QED
    BY <1>2, <1>5, <2>1
<1>6. CASE new.used /\ ~inode[i].used
  <2>1. FreeSlots' = FreeSlots \ {i} /\ i \in FreeSlots
    BY <1>3, <1>6 DEF FreeSlots
  <2>2. Cardinality(FreeSlots \ {i}) = Cardinality(FreeSlots) - 1
    BY <1>1, <2>1, FS_RemoveElement
  <2> QED
    BY <1>2, <1>6, <2>1, <2>2
<1>7. CASE ~new.used /\ inode[i].used
  <2>1. FreeSlots' = FreeSlots \cup {i} /\ i \notin FreeSlots
    BY <1>3, <1>7 DEF FreeSlots
  <2>2. Cardinality(FreeSlots \cup {i}) = Cardinality(FreeSlots) + 1
    BY <1>1, <2>1, FS_AddElement
  <2> QED
    BY <1>2, <1>7, <2>1, <2>2
<1> QED
  BY <1>2, <1>4, <1>5, <1>6, <1>7

-----------------------------------------------------------------------------
(* The inductive invariant: TypeOK, nothing only in memory, and a disk on  *)
(* which blocks have one owner, metadata is marked and the counts are      *)
(* right.  NoSharedBlocks needs MetadataMarked, or first fit could give    *)
(* away metadata; CountsAgree needs NoSharedBlocks, because a file counts  *)
(* as many blocks as it frees only when they are different ones; and the   *)
(* commands keep the disk so because they work from the copies in memory,  *)
(* which Durable says are those of the disk.                               *)

DiskSafe == Apart(inode, dbitmap) /\ MetadataMarked /\ CountsAgree

SafeInv == TypeOK /\ Durable /\ DiskSafe

\* What the commands have in common: on a formatted disk they rewrite one
\* slot, clear bits R that were its own and set bits A that were clear.
LEMMA SlotStep ==
  ASSUME TypeOK, DiskSafe, dsb.magic,
         NEW i \in InodeId, NEW new \in Inode, NEW R, NEW A,
         inode' = [inode EXCEPT ![i] = new],
         new.used => OneToOne(new.direct, DOMAIN new.direct),
         R \subseteq BlocksOf(inode[i]),
         A \subseteq DataBlock,
         A \cap (dbitmap \ R) = {},
         BlocksOf(new) \subseteq (BlocksOf(inode[i]) \ R) \cup A,
         dbitmap' = (dbitmap \ R) \cup A,
         dsb'.free_blocks = dsb.free_blocks + Cardinality(R) - Cardinality(A),
         dsb'.free_inodes = dsb.free_inodes
              + (IF new.used THEN 0 ELSE 1) - (IF inode[i].used THEN 0 ELSE 1)
  PROVE  DiskSafe'
<1>1. inode \in [InodeId -> Inode] /\ dbitmap \in SUBSET Block
  BY DEF TypeOK
<1>2. BlocksOf(inode[i]) \subseteq DataBlock \cap dbitmap
  BY DEF DiskSafe, Apart
<1>3. Apart(inode', dbitmap')
  <2>1. BlocksOf(new) \subseteq DataBlock
    BY <1>2
  <2>2. BlocksOf(new) \cap dbitmap \subseteq BlocksOf(inode[i])
    OBVIOUS
  <2>3. dbitmap \ BlocksOf(inode[i]) \subseteq dbitmap'
    OBVIOUS
  <2>4. BlocksOf(new) \subseteq dbitmap'
    BY <1>2
  <2>5. Apart(inode, dbitmap)
    BY DEF DiskSafe
  <2>6. Apart([inode EXCEPT ![i] = new], dbitmap')
    BY <1>1, <2>1, <2>2, <2>3, <2>4, <2>5, Reassign
  <2> QED
    BY <2>6
<1>4. MetadataMarked'
  BY <1>2 DEF DiskSafe, MetadataMarked, DataBlock
<1>5. CountsAgree'
  <2>1. R \in SUBSET dbitmap /\ A \in SUBSET Block
    BY <1>2 DEF DataBlock
  <2>2. Cardinality(Block \ ((dbitmap \ R) \cup A))
          = Cardinality(Block \ dbitmap) + Cardinality(R) - Cardinality(A)
    <3>1. R \in SUBSET dbitmap /\ A \in SUBSET Block /\ dbitmap \in SUBSET Block
          /\ A \cap (dbitmap \ R) = {}
      BY <1>1, <2>1
    <3> QED
      BY ONLY <3>1, BitmapCount
  <2>3. Cardinality(FreeSlots') = Cardinality(FreeSlots)
          + (IF new.used THEN 0 ELSE 1) - (IF inode[i].used THEN 0 ELSE 1)
    BY <1>1, SlotCount
  <2>4. /\ dsb.free_blocks = Cardinality(Block \ dbitmap)
        /\ dsb.free_inodes = Cardinality(FreeSlots)
    BY DEF DiskSafe, CountsAgree
  <2> QED
    BY <2>2, <2>3, <2>4 DEF CountsAgree
<1> QED
  BY <1>3, <1>4, <1>5 DEF DiskSafe

\* The same when no bit is set.
LEMMA SlotShrink ==
  ASSUME TypeOK, DiskSafe, dsb.magic,
         NEW i \in InodeId, NEW new \in Inode, NEW R,
         inode' = [inode EXCEPT ![i] = new],
         new.used => OneToOne(new.direct, DOMAIN new.direct),
         R \subseteq BlocksOf(inode[i]),
         BlocksOf(new) \subseteq BlocksOf(inode[i]) \ R,
         dbitmap' = dbitmap \ R,
         dsb'.free_blocks = dsb.free_blocks + Cardinality(R),
         dsb'.free_inodes = dsb.free_inodes
              + (IF new.used THEN 0 ELSE 1) - (IF inode[i].used THEN 0 ELSE 1)
  PROVE  DiskSafe'
<1>1. PICK A : A = {}
  OBVIOUS
<1>2. Cardinality(A) = 0
  BY <1>1, FS_EmptySet
<1>3. IsFiniteSet(R)
  <2>1. R \subseteq dbitmap /\ dbitmap \in SUBSET Block
    BY DEF DiskSafe, Apart, TypeOK
  <2> QED
    BY <2>1, Finite, FS_Subset
<1>4. dsb'.free_blocks = dsb.free_blocks + Cardinality(R) - Cardinality(A)
  <2>1. Cardinality(R) \in Nat /\ dsb.free_blocks \in Nat
    BY <1>3, FS_CardinalityType DEF TypeOK, Superblock
  <2> QED
    BY <1>2, <2>1
<1>5. /\ A \subseteq DataBlock
      /\ A \cap (dbitmap \ R) = {}
      /\ BlocksOf(new) \subseteq (BlocksOf(inode[i]) \ R) \cup A
      /\ dbitmap' = (dbitmap \ R) \cup A
  BY <1>1
<1> QED
  BY <1>4, <1>5, SlotStep

\* A list of pointers cut from b to a: what is cut off and what is kept.
Cut(f, a, b) == {f[k] : k \in a + 1 .. b}
Keep(f, a)   == [k \in 1 .. a |-> f[k]]

\* The pointers cut off are b - a blocks and none of them is kept.
LEMMA CutList ==
  ASSUME NEW f, NEW a \in Nat, NEW b \in Nat, a <= b,
         DOMAIN f = 1 .. b, OneToOne(f, 1 .. b)
  PROVE  /\ Cut(f, a, b) \subseteq Image(f)
         /\ Cardinality(Cut(f, a, b)) = b - a
         /\ OneToOne(Keep(f, a), DOMAIN Keep(f, a))
         /\ Image(Keep(f, a)) \subseteq Image(f) \ Cut(f, a, b)
<1> DEFINE R == {f[k] : k \in a + 1 .. b}
           d == [k \in 1 .. a |-> f[k]]
<1>1. a + 1 .. b \subseteq 1 .. b /\ 1 .. a \subseteq 1 .. b
  OBVIOUS
<1>2. R \subseteq Image(f)
  BY <1>1 DEF Image
<1>3. Cardinality(R) = b - a
  <2>1. a + 1 \in Int /\ b \in Int
    OBVIOUS
  <2>2. /\ IsFiniteSet(a + 1 .. b)
        /\ Cardinality(a + 1 .. b) = IF a + 1 > b THEN 0 ELSE b - (a + 1) + 1
    BY <2>1, FS_Interval
  <2>3. OneToOne(f, a + 1 .. b)
    BY <1>1 DEF OneToOne
  <2>4. Cardinality(R) = Cardinality(a + 1 .. b)
    BY <2>2, <2>3, ImageCount
  <2> HIDE DEF R
  <2> QED
    BY <2>2, <2>4
<1>4. OneToOne(d, DOMAIN d)
  BY <1>1 DEF OneToOne
<1>5. ASSUME NEW x \in 1 .. a PROVE d[x] \in Image(f) /\ d[x] \notin R
  <2>1. ASSUME NEW k \in a + 1 .. b PROVE f[x] # f[k]
    <3>1. x # k /\ x \in 1 .. b /\ k \in 1 .. b
      BY <1>1
    <3> QED
      BY <3>1 DEF OneToOne
  <2> QED
    BY <1>1, <2>1 DEF Image
<1>6. Image(d) \subseteq Image(f) \ R
  BY <1>5 DEF Image
<1> QED
  BY <1>2, <1>3, <1>4, <1>6 DEF Cut, Keep

\* The blocks of a file are as many as its size calls for.
LEMMA FileBlocks ==
  ASSUME TypeOK, DiskSafe, NEW i \in InodeId, inode[i].used
  PROVE  /\ BlocksOf(inode[i]) = Image(inode[i].direct)
         /\ Cardinality(Image(inode[i].direct)) = Blocks(inode[i].size)
         /\ OneToOne(inode[i].direct, 1 .. Blocks(inode[i].size))
<1>1. Blocks(inode[i].size) \in Nat /\ DOMAIN inode[i].direct = 1 .. Blocks(inode[i].size)
  BY SizeBlocks DEF TypeOK, Inode
<1>2. OneToOne(inode[i].direct, 1 .. Blocks(inode[i].size))
  BY <1>1 DEF DiskSafe, Apart
<1>3. /\ IsFiniteSet(1 .. Blocks(inode[i].size))
      /\ Cardinality(1 .. Blocks(inode[i].size)) = Blocks(inode[i].size)
  BY <1>1, FS_Interval
<1>4. Cardinality({inode[i].direct[x] : x \in 1 .. Blocks(inode[i].size)})
        = Blocks(inode[i].size)
  BY <1>2, <1>3, ImageCount
<1> QED
  BY <1>1, <1>2, <1>4 DEF BlocksOf, Image

\* Storing a content in slot i, for write, append and cp: ino is the inode
\* in the slot or, for cp, a new one without blocks.
LEMMA StoreSafe ==
  ASSUME TypeOK, DiskSafe, dsb.magic, bitmap = dbitmap,
         sb = dsb,
         NEW i \in InodeId, NEW ino \in Inode, NEW bytes \in Seq(Byte \cup {0}),
         NEW s \in Superblock,
         ino.used,
         Image(ino.direct) = BlocksOf(inode[i]),
         Cardinality(Image(ino.direct)) = Blocks(ino.size),
         s.free_blocks = dsb.free_blocks,
         s.free_inodes = dsb.free_inodes - (IF inode[i].used THEN 0 ELSE 1),
         ~FitsNot(Len(bytes)),
         Store(i, ino, bytes, s)
  PROVE  DiskSafe' /\ sb' = dsb' /\ bitmap' = dbitmap'
<1> DEFINE need == BlocksNeeded(Len(bytes))
           old  == Image(ino.direct)
           kept == Blocks(Len(bytes))
<1>1. sb.free_blocks \in Nat /\ dsb \in Superblock /\ inode[i] \in Inode
  BY DEF TypeOK, Superblock
<1>2. /\ Len(bytes) \in Size
      /\ need \in 1 .. MaxDirect
      /\ kept \in 0 .. need
  BY <1>1, AcceptedSize, BlocksType
<1>3. PICK pick \in FirstFit(need, (Block \ bitmap) \cup old) :
        /\ bitmap' = (bitmap \ old) \cup Image(pick)
        /\ dbitmap' = bitmap'
        /\ inode' = [inode EXCEPT ![i] =
                      [ino EXCEPT !.size = Len(bytes),
                                  !.direct = [k \in 1 .. kept |-> pick[k]]]]
        /\ sb' = [s EXCEPT !.free_blocks = @ + Blocks(ino.size) - need,
                           !.total_writes = Bump(@)]
        /\ dsb' = sb'
  BY DEF Store, SaveSb, SyncBitmap
<1> DEFINE d   == [k \in 1 .. kept |-> pick[k]]
           new == [ino EXCEPT !.size = Len(bytes), !.direct = d]
<1>4. /\ pick \in [1 .. need -> (Block \ bitmap) \cup old]
      /\ \A x, y \in 1 .. need : x < y => pick[x] < pick[y]
  BY <1>3 DEF FirstFit
<1>5. old \subseteq DataBlock \cap dbitmap
  BY DEF DiskSafe, Apart
<1>6. MetaBlock \subseteq dbitmap
  BY DEF DiskSafe, MetadataMarked
<1>7. Image(pick) \subseteq DataBlock
  BY <1>4, <1>5, <1>6 DEF Image, DataBlock
<1>8. OneToOne(pick, 1 .. need)
  <2> SUFFICES ASSUME NEW x \in 1 .. need, NEW y \in 1 .. need, x # y
               PROVE  pick[x] # pick[y]
    BY DEF OneToOne
  <2>1. x \in Nat /\ y \in Nat /\ (x < y \/ y < x)
    BY <1>2
  <2>2. pick[x] \in Int /\ pick[y] \in Int
    BY <1>4, <1>5 DEF Block, DataBlock
  <2> QED
    BY <1>4, <2>1, <2>2
<1>9. Cardinality(Image(pick)) = need
  <2>1. IsFiniteSet(1 .. need) /\ Cardinality(1 .. need) = need
    BY <1>2, FS_Interval
  <2>2. Image(pick) = {pick[x] : x \in 1 .. need}
    BY <1>4 DEF Image
  <2>3. Cardinality({pick[x] : x \in 1 .. need}) = need
    BY <1>8, <2>1, ImageCount
  <2> QED
    BY <2>2, <2>3
<1>10. d \in Direct
  <2>1. kept \in 0 .. MaxDirect
    BY <1>2, GeometryAssumption DEF GeometryAssumption
  <2>2. d \in [1 .. kept -> Block]
    BY <1>2, <1>4, <1>5 DEF DataBlock
  <2> QED
    BY <2>1, <2>2, DirectType
<1>11. /\ new \in Inode
       /\ new.used
       /\ new.direct = d
  BY <1>2, <1>10, InodeType DEF Inode
<1>12. /\ OneToOne(d, DOMAIN d)
       /\ Image(d) \subseteq Image(pick)
  BY <1>2, <1>4, <1>8 DEF OneToOne, Image
<1>13. inode' = [inode EXCEPT ![i] = new]
  BY <1>3
<1> HIDE DEF new, d
<1>14. BlocksOf(new) \subseteq Image(pick)
  BY <1>11, <1>12 DEF BlocksOf
<1>15. Image(pick) \cap (dbitmap \ old) = {}
  BY <1>4 DEF Image
<1>16. /\ dsb'.free_blocks = dsb.free_blocks + Cardinality(old) - Cardinality(Image(pick))
       /\ dsb'.free_inodes = s.free_inodes
  BY <1>3, <1>9 DEF Superblock
<1>17. dsb'.free_inodes = dsb.free_inodes
         + (IF new.used THEN 0 ELSE 1) - (IF inode[i].used THEN 0 ELSE 1)
  BY <1>1, <1>11, <1>16 DEF Superblock
<1>18. /\ new.used => OneToOne(new.direct, DOMAIN new.direct)
       /\ old \subseteq BlocksOf(inode[i])
       /\ BlocksOf(new) \subseteq (BlocksOf(inode[i]) \ old) \cup Image(pick)
       /\ dbitmap' = (dbitmap \ old) \cup Image(pick)
  BY <1>3, <1>11, <1>12, <1>14
<1> HIDE DEF old
<1>19. DiskSafe'
  BY <1>7, <1>11, <1>13, <1>15, <1>16, <1>17, <1>18, SlotStep
<1> QED
  BY <1>3, <1>19

\* A step that leaves the disk alone leaves it safe.
LEMMA SameDisk ==
  ASSUME DiskSafe, UNCHANGED <<dbitmap, inode>>,
         dsb'.magic = dsb.magic,
         dsb'.free_blocks = dsb.free_blocks, dsb'.free_inodes = dsb.free_inodes
  PROVE  DiskSafe'
BY DEF DiskSafe, Apart, MetadataMarked, CountsAgree, FreeSlots

\* A format leaves a safe disk, whether it succeeds or fails.
LEMMA FormatSafe ==
  ASSUME DiskSafe, NEW arg \in FormatArg, FormatDisk(arg, dsb, dbitmap)
  PROVE  DiskSafe'
<1>1. CASE arg = "bad_block"
  BY <1>1, SameDisk DEF FormatDisk
<1>2. CASE arg # "bad_block"
  <2>1. /\ dsb' = IF arg = "fine" THEN FreshSb ELSE ZeroSb
        /\ dbitmap' = IF arg = "fine" THEN MetaBlock ELSE {}
        /\ inode' = [i \in InodeId |-> ZeroInode]
    BY <1>2 DEF FormatDisk, FormatBitmap
  <2>2. /\ \A i \in InodeId : ~inode'[i].used
        /\ Apart(inode', dbitmap')
    BY <2>1 DEF Apart, BlocksOf, ZeroInode
  <2>3. CASE arg = "fine"
    <3>1. /\ dsb'.free_blocks = TotalBlocks - DataStart
          /\ dsb'.free_inodes = MaxInodes
      BY <2>1, <2>3 DEF FreshSb, ZeroSb
    <3>2. Cardinality(Block \ MetaBlock) = TotalBlocks - DataStart
      BY Finite, ClearBits
    <3>3. FreeSlots' = InodeId
      BY <2>2 DEF FreeSlots
    <3>4. MetadataMarked' /\ CountsAgree'
      BY <2>1, <2>3, <3>1, <3>2, <3>3, Finite DEF MetadataMarked, CountsAgree
    <3> QED
      BY <2>2, <3>4 DEF DiskSafe
  <2>4. CASE arg # "fine"
    <3>1. ~dsb'.magic
      BY <2>1, <2>4 DEF ZeroSb
    <3> QED
      BY <2>2, <3>1 DEF DiskSafe, MetadataMarked, CountsAgree
  <2> QED
    BY <2>3, <2>4
<1> QED
  BY <1>1, <1>2

\* A slot without blocks owns none, and neither does a free one.
LEMMA NoOwner ==
  /\ Image(<<>>) = {}
  /\ \A ino : ~ino.used => BlocksOf(ino) = {}
BY DEF Image, BlocksOf

\* Every step keeps SafeInv.
LEMMA SafeStep == SafeInv /\ [Next]_vars => SafeInv'
<1> SUFFICES ASSUME SafeInv, [Next]_vars PROVE Durable' /\ DiskSafe'
  BY TypeStep DEF SafeInv
<1>0. TypeOK /\ Durable /\ DiskSafe
  BY DEF SafeInv
<1>a. inode \in [InodeId -> Inode] /\ sb \in Superblock /\ dsb \in Superblock
  BY <1>0 DEF TypeOK
<1>b. \A n, i : up /\ Found(n, i) =>
        /\ i \in InodeId /\ inode[i].used
        /\ sb = dsb /\ dsb.magic /\ bitmap = dbitmap
        /\ BlocksOf(inode[i]) = Image(inode[i].direct)
        /\ Cardinality(Image(inode[i].direct)) = Blocks(inode[i].size)
        /\ OneToOne(inode[i].direct, 1 .. Blocks(inode[i].size))
        /\ DOMAIN inode[i].direct = 1 .. Blocks(inode[i].size)
  BY <1>0, FoundSlot, FileBlocks DEF Durable, TypeOK
<1>c. ASSUME NEW cmd, Refuse(cmd) PROVE Durable' /\ DiskSafe'
  BY <1>0, <1>c, SameDisk DEF Refuse, disk, Durable
<1>1. ASSUME NEW arg \in FormatArg, CliFormat(arg) PROVE Durable' /\ DiskSafe'
  BY <1>0, <1>1, FormatSafe DEF CliFormat, Durable
<1>2. ASSUME NEW arg \in FormatArg, ShellFormat(arg) PROVE Durable' /\ DiskSafe'
  <2>1. SyncedSb = dsb /\ SyncedBitmap = dbitmap
    BY <1>0, <1>2 DEF ShellFormat, Durable, SyncedSb, SyncedBitmap
  <2>2. DiskSafe'
    BY <1>0, <1>2, <2>1, FormatSafe DEF ShellFormat
  <2>3. Durable'
    BY <1>2 DEF ShellFormat, Durable
  <2> QED
    BY <2>2, <2>3
<1>3. CASE Mount
  BY <1>0, <1>3, SameDisk DEF Mount, disk, Durable
<1>4. CASE Unmount
  <2>1. SyncedSb = dsb /\ SyncedBitmap = dbitmap
    BY <1>0, <1>4 DEF Unmount, Durable, SyncedSb, SyncedBitmap
  <2> QED
    BY <1>0, <1>4, <2>1, SameDisk DEF Unmount, Exit, Durable
<1>5. CASE Kill
  BY <1>0, <1>5, SameDisk DEF Kill, Exit, disk, Durable
<1>6. ASSUME NEW n \in AnyName, Create(n) PROVE Durable' /\ DiskSafe'
  <2>1. CASE Refuse("create")
    BY <1>c, <2>1
  <2>2. ASSUME MayCreate(n), NEW i \in InodeId, IsFirst(i, FreeSlots),
               inode' = [inode EXCEPT ![i] = NewInode(n)],
               sb' = [sb EXCEPT !.free_inodes = @ - 1],
               dsb' = sb',
               UNCHANGED <<up, bitmap, dbitmap, data>>
        PROVE  Durable' /\ DiskSafe'
    <3>1. sb = dsb /\ (dsb.magic => bitmap = dbitmap)
      BY <1>0, <1>6 DEF Create, Durable
    <3>2. /\ NewInode(n) \in Inode /\ NewInode(n).used /\ NewInode(n).direct = <<>>
      BY <2>2, NewInodeType DEF MayCreate
    <3>3. ~inode[i].used
      BY <2>2 DEF IsFirst, FreeSlots
    <3>4. /\ dsb'.magic = dsb.magic
          /\ dsb'.free_blocks = dsb.free_blocks
          /\ dsb'.free_inodes = dsb.free_inodes - 1
      BY <1>a, <2>2, <3>1 DEF Superblock
    <3>5. /\ BlocksOf(NewInode(n)) = {} /\ BlocksOf(inode[i]) = {}
          /\ OneToOne(NewInode(n).direct, DOMAIN NewInode(n).direct)
      BY <3>2, <3>3, NoOwner DEF BlocksOf, OneToOne
    <3>6. DiskSafe'
      <4>1. CASE dsb.magic
        <5>1. dsb'.free_blocks = dsb.free_blocks + Cardinality({}) - Cardinality({})
          BY <1>a, <3>4, FS_EmptySet DEF Superblock
        <5>2. dsb'.free_inodes = dsb.free_inodes + (IF NewInode(n).used THEN 0 ELSE 1)
                - (IF inode[i].used THEN 0 ELSE 1)
          BY <1>a, <3>2, <3>3, <3>4 DEF Superblock
        <5>3. dbitmap' = (dbitmap \ {}) \cup {}
          BY <2>2
        <5> HIDE DEF NewInode
        <5> QED
          BY <1>0, <2>2, <3>2, <3>5, <4>1, <5>1, <5>2, <5>3, SlotStep
      <4>2. CASE ~dsb.magic
        <5>1. Apart(inode', dbitmap')
          BY <1>0, <1>a, <2>2, <3>2, <3>5, Reassign DEF DiskSafe
        <5> QED
          BY <3>4, <4>2, <5>1 DEF DiskSafe, MetadataMarked, CountsAgree
      <4> QED
        BY <4>1, <4>2
    <3> QED
      BY <2>2, <3>1, <3>4, <3>6 DEF Durable
  <2> QED
    BY <1>6, <2>1, <2>2 DEF Create, SaveSb
<1>7. ASSUME NEW n \in AnyName, Delete(n) PROVE Durable' /\ DiskSafe'
  <2>1. CASE Refuse("rm")
    BY <1>c, <2>1
  <2>2. ASSUME NEW i \in InodeId, Found(n, i),
               bitmap' = bitmap \ Image(inode[i].direct),
               dbitmap' = bitmap',
               inode' = [inode EXCEPT ![i] = ZeroInode],
               sb' = [sb EXCEPT !.free_blocks = @ + Blocks(inode[i].size),
                                !.free_inodes = @ + 1],
               dsb' = sb'
        PROVE  Durable' /\ DiskSafe'
    <3> DEFINE R == Image(inode[i].direct)
    <3>1. up
      BY <1>7 DEF Delete
    <3>2. /\ inode[i].used /\ sb = dsb /\ dsb.magic /\ bitmap = dbitmap
          /\ BlocksOf(inode[i]) = R /\ Cardinality(R) = Blocks(inode[i].size)
      BY <1>b, <2>2, <3>1
    <3>3. ZeroInode \in Inode /\ ~ZeroInode.used /\ BlocksOf(ZeroInode) = {}
      BY NewInodeType, NoOwner DEF ZeroInode
    <3>4. Cardinality(R) \in Nat
      BY <1>a, <3>2, SizeBlocks DEF Inode
    <3>5. /\ dsb'.free_blocks = dsb.free_blocks + Cardinality(R) - Cardinality({})
          /\ dsb'.free_inodes = dsb.free_inodes + (IF ZeroInode.used THEN 0 ELSE 1)
               - (IF inode[i].used THEN 0 ELSE 1)
      BY <1>a, <2>2, <3>2, <3>3, <3>4, FS_EmptySet DEF Superblock
    <3>6. dbitmap' = (dbitmap \ R) \cup {}
      BY <2>2, <3>2
    <3> HIDE DEF R
    <3>7. DiskSafe'
      BY <1>0, <2>2, <3>2, <3>3, <3>5, <3>6, SlotStep
    <3> QED
      BY <2>2, <3>7 DEF Durable
  <2> QED
    BY <1>7, <2>1, <2>2 DEF Delete, SaveSb, SyncBitmap
<1>8. ASSUME NEW i \in InodeId, NEW n, Found(n, i), up,
             NEW new \in Inode, new.used, new.direct = inode[i].direct,
             inode' = [inode EXCEPT ![i] = new],
             UNCHANGED <<up, sb, bitmap, dsb, dbitmap, data>>
      PROVE  Durable' /\ DiskSafe'
  <2>1. /\ inode[i].used /\ sb = dsb /\ dsb.magic /\ bitmap = dbitmap
        /\ OneToOne(new.direct, DOMAIN new.direct)
        /\ BlocksOf(new) = BlocksOf(inode[i])
    BY <1>b, <1>8 DEF BlocksOf
  <2>2. /\ dsb'.free_blocks = dsb.free_blocks + Cardinality({})
        /\ dsb'.free_inodes = dsb.free_inodes + (IF new.used THEN 0 ELSE 1)
             - (IF inode[i].used THEN 0 ELSE 1)
    BY <1>a, <1>8, <2>1, FS_EmptySet DEF Superblock
  <2>3. PICK R : R = {}
    OBVIOUS
  <2>4. /\ dbitmap' = dbitmap \ R
        /\ R \subseteq BlocksOf(inode[i])
        /\ BlocksOf(new) \subseteq BlocksOf(inode[i]) \ R
        /\ dsb'.free_blocks = dsb.free_blocks + Cardinality(R)
    BY <1>8, <2>1, <2>2, <2>3
  <2>5. DiskSafe'
    BY <1>0, <1>8, <2>1, <2>2, <2>4, SlotShrink
  <2> QED
    BY <1>0, <1>8, <2>5 DEF Durable
<1>9. ASSUME NEW old \in AnyName, NEW new \in AnyName, Rename(old, new)
      PROVE  Durable' /\ DiskSafe'
  <2>1. CASE Refuse("rename")
    BY <1>c, <2>1
  <2>2. ASSUME NEW i \in InodeId, Found(old, i), new \in Name,
               inode' = [inode EXCEPT ![i].name = new],
               UNCHANGED <<up, sb, bitmap, dsb, dbitmap, data>>
        PROVE  Durable' /\ DiskSafe'
    <3> DEFINE ino == [inode[i] EXCEPT !.name = new]
    <3>1. inode[i] \in Inode /\ inode[i].used /\ up
      BY <1>a, <1>9, <2>2, FoundSlot DEF Rename
    <3>2. ino \in Inode /\ ino.used /\ ino.direct = inode[i].direct
      BY <2>2, <3>1, InodeType DEF Inode
    <3>3. inode' = [inode EXCEPT ![i] = ino]
      BY <1>a, <2>2
    <3> HIDE DEF ino
    <3> QED
      BY <1>8, <2>2, <3>1, <3>2, <3>3
  <2> QED
    BY <1>9, <2>1, <2>2 DEF Rename
<1>10. ASSUME NEW n \in AnyName, NEW mode \in Mode, Chmod(n, mode)
       PROVE  Durable' /\ DiskSafe'
  <2>1. CASE Refuse("chmod")
    BY <1>c, <2>1
  <2>2. ASSUME NEW i \in InodeId, Found(n, i),
               inode' = [inode EXCEPT ![i].mode.perm = mode.perm],
               UNCHANGED <<up, sb, bitmap, dsb, dbitmap, data>>
        PROVE  Durable' /\ DiskSafe'
    <3> DEFINE ino == [inode[i] EXCEPT !.mode.perm = mode.perm]
    <3>1. inode[i] \in Inode /\ inode[i].used /\ up /\ mode.perm \in Perm
      BY <1>a, <1>10, <2>2, FoundSlot DEF Chmod, Mode
    <3>2. ino \in Inode /\ ino.used /\ ino.direct = inode[i].direct
      BY <3>1, InodeType DEF Inode
    <3>3. inode' = [inode EXCEPT ![i] = ino]
      BY <1>a, <2>2
    <3> HIDE DEF ino
    <3> QED
      BY <1>8, <2>2, <3>1, <3>2, <3>3
  <2> QED
    BY <1>10, <2>1, <2>2 DEF Chmod
<1>11. ASSUME NEW n \in AnyName, NEW size \in Size, Truncate(n, size)
       PROVE  Durable' /\ DiskSafe'
  <2>1. CASE Refuse("truncate")
    BY <1>c, <2>1
  <2>2. ASSUME NEW i \in InodeId, Found(n, i), size <= inode[i].size,
               bitmap' = bitmap \ {inode[i].direct[k] :
                            k \in Blocks(size) + 1 .. Blocks(inode[i].size)},
               inode' = [inode EXCEPT ![i].size = size,
                                      ![i].direct = [k \in 1 .. Blocks(size) |->
                                                       inode[i].direct[k]]],
               sb' = [sb EXCEPT !.free_blocks =
                        @ + Blocks(inode[i].size) - Blocks(size)],
               dbitmap' = bitmap',
               dsb' = sb'
        PROVE  Durable' /\ DiskSafe'
    <3> DEFINE list == inode[i].direct
               R    == {list[k] : k \in Blocks(size) + 1 .. Blocks(inode[i].size)}
               d    == [k \in 1 .. Blocks(size) |-> list[k]]
               ino  == [inode[i] EXCEPT !.size = size, !.direct = d]
    <3>1. up
      BY <1>11 DEF Truncate
    <3>2. /\ inode[i].used /\ sb = dsb /\ dsb.magic /\ bitmap = dbitmap
          /\ BlocksOf(inode[i]) = Image(list)
          /\ OneToOne(list, 1 .. Blocks(inode[i].size))
          /\ DOMAIN list = 1 .. Blocks(inode[i].size)
      BY <1>b, <2>2, <3>1
    <3>3. inode[i] \in Inode /\ inode[i].size \in Size
      BY <1>a DEF Inode
    <3>4. /\ size \in Nat /\ Blocks(size) \in 0 .. MaxDirect
          /\ inode[i].size \in Nat /\ Blocks(inode[i].size) \in 0 .. MaxDirect
      BY <3>3, SizeBlocks
    <3>5. Blocks(size) <= Blocks(inode[i].size)
      BY <2>2, <3>4, BlocksMonotone
    <3>6. /\ R \subseteq Image(list)
          /\ Cardinality(R) = Blocks(inode[i].size) - Blocks(size)
          /\ OneToOne(d, DOMAIN d)
          /\ Image(d) \subseteq Image(list) \ R
      <4>1. Blocks(size) \in Nat /\ Blocks(inode[i].size) \in Nat
        BY <3>4
      <4>2. R = Cut(list, Blocks(size), Blocks(inode[i].size)) /\ d = Keep(list, Blocks(size))
        BY DEF Cut, Keep
      <4> HIDE DEF R, d, list
      <4> QED
        BY <3>2, <3>5, <4>1, <4>2, CutList
    <3>7. d \in Direct
      <4>1. list \in [1 .. Blocks(inode[i].size) -> Block]
        BY <3>2, <3>3, <3>4, DirectType DEF Inode
      <4>2. d \in [1 .. Blocks(size) -> Block]
        BY <3>4, <3>5, <4>1
      <4> QED
        BY <3>4, <4>2, DirectType
    <3>8. ino \in Inode /\ ino.used /\ ino.direct = d
      BY <3>2, <3>3, <3>7, InodeType DEF Inode
    <3>9. inode' = [inode EXCEPT ![i] = ino]
      BY <1>a, <2>2
    <3>10. /\ dsb'.free_blocks = dsb.free_blocks + Cardinality(R)
           /\ dsb'.free_inodes = dsb.free_inodes + (IF ino.used THEN 0 ELSE 1)
                - (IF inode[i].used THEN 0 ELSE 1)
      <4>1. dsb.free_blocks \in Nat /\ dsb.free_inodes \in Nat
        BY <1>a DEF Superblock
      <4>2. /\ dsb'.free_blocks = dsb.free_blocks + Blocks(inode[i].size) - Blocks(size)
            /\ dsb'.free_inodes = dsb.free_inodes
        BY <1>a, <2>2, <3>2 DEF Superblock
      <4> QED
        BY <3>2, <3>4, <3>6, <3>8, <4>1, <4>2
    <3>11. dbitmap' = dbitmap \ R
      BY <2>2, <3>2
    <3> HIDE DEF R, d, ino
    <3>12. BlocksOf(ino) \subseteq BlocksOf(inode[i]) \ R
      BY <3>2, <3>6, <3>8 DEF BlocksOf
    <3>13. DiskSafe'
      BY <1>0, <3>2, <3>6, <3>8, <3>9, <3>10, <3>11, <3>12, SlotShrink
    <3> QED
      BY <2>2, <3>13 DEF Durable
  <2> QED
    BY <1>11, <2>1, <2>2 DEF Truncate, CutOff, SaveSb, SyncBitmap
<1>12. ASSUME NEW n \in AnyName, up, NEW i \in InodeId, Found(n, i),
              NEW bytes \in Seq(Byte \cup {0}), ~FitsNot(Len(bytes)),
              Store(i, inode[i], bytes, sb)
       PROVE  Durable' /\ DiskSafe'
  <2>1. /\ inode[i].used /\ sb = dsb /\ dsb.magic /\ bitmap = dbitmap
        /\ BlocksOf(inode[i]) = Image(inode[i].direct)
        /\ Cardinality(Image(inode[i].direct)) = Blocks(inode[i].size)
    BY <1>b, <1>12
  <2>2. sb.free_inodes = dsb.free_inodes - (IF inode[i].used THEN 0 ELSE 1)
    BY <1>a, <2>1 DEF Superblock
  <2>3. inode[i] \in Inode
    BY <1>a
  <2>4. DiskSafe' /\ sb' = dsb' /\ bitmap' = dbitmap'
    BY <1>0, <1>a, <1>12, <2>1, <2>2, <2>3, StoreSafe
  <2> QED
    BY <2>4 DEF Durable
<1>13. ASSUME NEW n \in AnyName, NEW bytes \in Payload, Write(n, bytes)
       PROVE  Durable' /\ DiskSafe'
  <2>1. CASE Refuse("write")
    BY <1>c, <2>1
  <2>2. ASSUME NEW i \in InodeId, Found(n, i), ~FitsNot(Len(bytes)),
               Store(i, inode[i], bytes, sb)
        PROVE  Durable' /\ DiskSafe'
    <3>1. bytes \in Seq(Byte \cup {0})
      BY BytesAssumption, BufferType DEF BytesAssumption
    <3> QED
      BY <1>12, <1>13, <2>2, <3>1 DEF Write
  <2> QED
    BY <1>13, <2>1, <2>2 DEF Write
<1>14. ASSUME NEW n \in AnyName, NEW bytes \in Payload, AppendTo(n, bytes)
       PROVE  Durable' /\ DiskSafe'
  <2>1. CASE Refuse("append")
    BY <1>c, <2>1
  <2>2. ASSUME NEW i \in InodeId, Found(n, i),
               ~FitsNot(Len(Content(inode[i]) \o bytes)),
               Store(i, inode[i], Content(inode[i]) \o bytes, sb)
        PROVE  Durable' /\ DiskSafe'
    <3>1. bytes \in Seq(Byte \cup {0})
      BY BytesAssumption, BufferType DEF BytesAssumption
    <3>2. Content(inode[i]) \in Seq(Byte \cup {0})
      BY <1>0, ContentType
    <3>3. Content(inode[i]) \o bytes \in Seq(Byte \cup {0})
      BY <3>1, <3>2
    <3> QED
      BY <1>12, <1>14, <2>2, <3>3 DEF AppendTo
  <2> QED
    BY <1>14, <2>1, <2>2 DEF AppendTo
<1>15. ASSUME NEW src \in AnyName, NEW dst \in AnyName, Copy(src, dst)
       PROVE  Durable' /\ DiskSafe'
  <2>1. CASE Refuse("cp")
    BY <1>c, <2>1
  <2> DEFINE New(i) == [NewInode(Stored(dst)) EXCEPT !.mode = inode[i].mode]
             S      == [sb EXCEPT !.free_inodes = @ - 1]
  <2>2. Stored(dst) \in Name
    BY NamesAssumption DEF NamesAssumption, Stored, AnyName
  <2>3. ASSUME NEW i \in InodeId
        PROVE  /\ New(i) \in Inode /\ New(i).used
               /\ New(i).direct = <<>> /\ New(i).size = 0
    <3>1. inode[i].mode \in Mode
      BY <1>a DEF Inode
    <3>2. /\ NewInode(Stored(dst)) \in Inode /\ NewInode(Stored(dst)).used
          /\ NewInode(Stored(dst)).direct = <<>>
          /\ NewInode(Stored(dst)).size = 0
      BY <2>2, NewInodeType
    <3>3. New(i) \in Inode
      BY <3>1, <3>2, InodeType
    <3>4. New(i).used /\ New(i).direct = <<>> /\ New(i).size = 0
      BY <3>2 DEF Inode
    <3> QED
      BY <3>3, <3>4
  <2> HIDE DEF New
  <2>4. ASSUME NEW i \in InodeId, Found(src, i), sb.free_inodes # 0
        PROVE  /\ sb = dsb /\ dsb.magic /\ bitmap = dbitmap
               /\ S \in Superblock
               /\ S.magic = dsb.magic
               /\ S.free_blocks = dsb.free_blocks
               /\ S.free_inodes = dsb.free_inodes - 1
    <3>1. sb = dsb /\ dsb.magic /\ bitmap = dbitmap
      BY <1>b, <1>15, <2>4 DEF Copy
    <3>2. sb \in Superblock /\ sb.free_inodes \in Nat /\ sb.free_inodes - 1 \in Nat
      BY <1>a, <2>4 DEF Superblock
    <3>3. S \in Superblock
      BY <3>2 DEF Superblock
    <3>4. /\ S.magic = sb.magic /\ S.free_blocks = sb.free_blocks
          /\ S.free_inodes = sb.free_inodes - 1
      BY <3>2 DEF Superblock
    <3> QED
      BY <3>1, <3>3, <3>4
  <2>5. ASSUME NEW i \in InodeId, NEW j \in InodeId, Found(src, i), sb.free_inodes # 0,
               IsFirst(j, FreeSlots),
               inode' = [inode EXCEPT ![j] = New(i)],
               sb' = S, dsb' = sb',
               UNCHANGED <<up, bitmap, dbitmap, data>>
        PROVE  Durable' /\ DiskSafe'
    <3>1. ~inode[j].used /\ BlocksOf(inode[j]) = {}
      BY <2>5, NoOwner DEF IsFirst, FreeSlots
    <3>2. PICK R : R = {}
      OBVIOUS
    <3>3. /\ New(i) \in Inode /\ New(i).used /\ BlocksOf(New(i)) = {}
          /\ OneToOne(New(i).direct, DOMAIN New(i).direct)
      BY <2>3, NoOwner DEF BlocksOf, OneToOne
    <3>4. /\ sb = dsb /\ dsb.magic /\ bitmap = dbitmap
          /\ S.free_blocks = dsb.free_blocks
          /\ S.free_inodes = dsb.free_inodes - 1
          /\ dsb.free_blocks \in Nat /\ dsb.free_inodes \in Nat
      BY <1>a, <2>4, <2>5 DEF Superblock
    <3>5. /\ dsb'.free_blocks = dsb.free_blocks + Cardinality(R)
          /\ dsb'.free_inodes = dsb.free_inodes + (IF New(i).used THEN 0 ELSE 1)
               - (IF inode[j].used THEN 0 ELSE 1)
      <4>1. Cardinality(R) = 0
        BY <3>2, FS_EmptySet
      <4> HIDE DEF S
      <4> QED
        BY <2>5, <3>1, <3>3, <3>4, <4>1
    <3>6. /\ dbitmap' = dbitmap \ R
          /\ R \subseteq BlocksOf(inode[j])
          /\ BlocksOf(New(i)) \subseteq BlocksOf(inode[j]) \ R
      BY <2>5, <3>1, <3>2, <3>3
    <3>7. DiskSafe'
      BY <1>0, <2>5, <3>3, <3>4, <3>5, <3>6, SlotShrink
    <3> QED
      BY <2>5, <3>4, <3>7 DEF Durable
  <2>6. ASSUME NEW i \in InodeId, NEW j \in InodeId, Found(src, i), sb.free_inodes # 0,
               IsFirst(j, FreeSlots),
               ~FitsNot(inode[i].size),
               Store(j, New(i), Content(inode[i]), S)
        PROVE  Durable' /\ DiskSafe'
    <3>1. ~inode[j].used /\ BlocksOf(inode[j]) = {}
      BY <2>6, NoOwner DEF IsFirst, FreeSlots
    <3>2. /\ New(i) \in Inode /\ New(i).used
          /\ Image(New(i).direct) = BlocksOf(inode[j])
          /\ Cardinality(Image(New(i).direct)) = Blocks(New(i).size)
      BY <2>3, <3>1, NoOwner, NoBlocks, FS_EmptySet
    <3>3. /\ Content(inode[i]) \in Seq(Byte \cup {0})
          /\ Len(Content(inode[i])) = inode[i].size
      BY <1>0, ContentType
    <3>4. /\ sb = dsb /\ dsb.magic /\ bitmap = dbitmap
          /\ S \in Superblock /\ S.free_blocks = dsb.free_blocks
          /\ S.free_inodes = dsb.free_inodes - (IF inode[j].used THEN 0 ELSE 1)
      BY <2>4, <2>6, <3>1
    <3> HIDE DEF S
    <3>5. DiskSafe' /\ sb' = dsb' /\ bitmap' = dbitmap'
      BY <1>0, <2>6, <3>2, <3>3, <3>4, StoreSafe
    <3> QED
      BY <3>5 DEF Durable
  <2> QED
    BY <1>15, <2>1, <2>5, <2>6 DEF Copy, New, SaveSb
<1>16. ASSUME NEW n \in AnyName, Read(n) PROVE Durable' /\ DiskSafe'
  <2>1. CASE Refuse("read")
    BY <1>c, <2>1
  <2>2. ASSUME NEW i \in InodeId, Found(n, i),
               sb' = [sb EXCEPT !.total_reads = Bump(@)],
               dsb' = sb',
               UNCHANGED <<up, bitmap, dbitmap, inode, data>>
        PROVE  Durable' /\ DiskSafe'
    <3>1. sb = dsb /\ bitmap = dbitmap
      BY <1>b, <1>16, <2>2 DEF Read
    <3>2. /\ dsb'.magic = dsb.magic /\ dsb'.free_blocks = dsb.free_blocks
          /\ dsb'.free_inodes = dsb.free_inodes
      BY <1>a, <2>2, <3>1 DEF Superblock
    <3> QED
      BY <1>0, <2>2, <3>1, <3>2, SameDisk DEF Durable
  <2> QED
    BY <1>16, <2>1, <2>2 DEF Read, SaveSb
<1>17. ASSUME NEW n \in AnyName, Stat(n) PROVE Durable' /\ DiskSafe'
  BY <1>0, <1>c, <1>17, SameDisk DEF Stat, disk, Durable
<1>18. CASE Fsck
  BY <1>0, <1>18, SameDisk DEF Fsck, disk, Durable
<1>19. CASE UNCHANGED vars
  BY <1>0, <1>19, SameDisk DEF vars, disk, Durable
<1>20. CASE Ls
  BY <1>0, <1>20, SameDisk DEF Ls, disk, Durable
<1>21. CASE Statfs
  BY <1>0, <1>21, SameDisk DEF Statfs, disk, Durable
<1> QED
  BY <1>1, <1>2, <1>3, <1>4, <1>5, <1>6, <1>7, <1>9, <1>10, <1>11, <1>13, <1>14,
     <1>15, <1>16, <1>17, <1>18, <1>19, <1>20, <1>21 DEF Next, Command

\* The initial disk has no superblock and no files.
LEMMA SafeInit == Init => SafeInv
<1> SUFFICES ASSUME Init PROVE SafeInv
  OBVIOUS
<1>1. TypeOK
  BY InitType
<1>2. ~up /\ ~dsb.magic /\ \A i \in InodeId : ~inode[i].used
  BY DEF Init, ZeroSb, ZeroInode
<1>3. Durable /\ DiskSafe
  BY <1>2 DEF Durable, DiskSafe, Apart, BlocksOf, MetadataMarked, CountsAgree
<1> QED
  BY <1>1, <1>3 DEF SafeInv

LEMMA SafeAlways == Spec => []SafeInv
BY SafeInit, SafeStep, PTL DEF Spec

-----------------------------------------------------------------------------
(* The theorems.                                                           *)

\* Killing the process between two commands loses nothing it knew.
THEOREM DurableCorrect == Spec => []Durable
<1>1. SafeInv => Durable
  BY DEF SafeInv
<1> QED
  BY <1>1, SafeAlways, PTL

\* No block ever has two owners and no block in use is ever free.
THEOREM NoSharedBlocksCorrect == Spec => []NoSharedBlocks
<1>1. SafeInv => NoSharedBlocks
  BY ApartMeans DEF SafeInv, DiskSafe, TypeOK
<1> QED
  BY <1>1, SafeAlways, PTL

\* No command ever frees a metadata block.
THEOREM MetadataMarkedCorrect == Spec => []MetadataMarked
<1>1. SafeInv => MetadataMarked
  BY DEF SafeInv, DiskSafe
<1> QED
  BY <1>1, SafeAlways, PTL

\* The free counters are always right.
THEOREM CountsAgreeCorrect == Spec => []CountsAgree
<1>1. SafeInv => CountsAgree
  BY DEF SafeInv, DiskSafe
<1> QED
  BY <1>1, SafeAlways, PTL
=============================================================================
