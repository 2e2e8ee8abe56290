-------------------------- MODULE WebVolumeProofs ---------------------------
(***************************************************************************)
(* The volume of the web page for every set of names, contents, sizes and  *)
(* block sizes: the invariants of WebVolume hold in every reachable state. *)
(* Before it the layout of a disk, which is sound for every size and block *)
(* size a format accepts; the C program computes the same where 32 bits    *)
(* are enough.                                                             *)
(***************************************************************************)
EXTENDS WebVolume, FiniteSetTheorems, TLAPS

-----------------------------------------------------------------------------
(* The layout.                                                             *)

\* Rounding up leaves room for everything, and never more than one too many.
LEMMA CeilDivBound ==
  ASSUME NEW a \in Nat, NEW b \in Nat \ {0}
  PROVE  /\ CeilDiv(a, b) \in Nat
         /\ a <= CeilDiv(a, b) * b
         /\ CeilDiv(a, b) <= a
         /\ a > 0 => CeilDiv(a, b) > 0
<1>1. (a + b - 1) \div b \in Int
  OBVIOUS
<1>2. ((a + b - 1) \div b) * b <= a + b - 1
  OBVIOUS
<1>3. a + b - 1 < ((a + b - 1) \div b) * b + b
  OBVIOUS
<1> DEFINE q == (a + b - 1) \div b
<1>4. q \in Int /\ q * b <= a + b - 1 /\ a + b - 1 < q * b + b
  BY <1>1, <1>2, <1>3
<1> HIDE DEF q
<1>5. a <= q * b
  BY <1>4
<1>6. q >= 0
  BY <1>4
<1>7. q <= a
  BY <1>4, <1>6
<1>8. a > 0 => q > 0
  BY <1>4, <1>5, <1>6
<1> QED
  BY <1>4, <1>5, <1>6, <1>7, <1>8 DEF q, CeilDiv

\* k whole units do not reach past the (k+1)-st.
LEMMA DivBound ==
  ASSUME NEW i \in Nat, NEW p \in Nat \ {0}, NEW k \in Nat, i < p * k
  PROVE  i \div p \in 0 .. k - 1
<1>1. i \div p \in Int /\ (i \div p) * p <= i /\ i < (i \div p) * p + p
  OBVIOUS
<1> DEFINE q == i \div p
<1>2. q \in Int /\ q * p <= i /\ i < q * p + p
  BY <1>1
<1> HIDE DEF q
<1>3. q >= 0
  BY <1>2
<1>4. q * p < k * p
  BY <1>2
<1>5. q < k
  BY <1>2, <1>3, <1>4
<1> QED
  BY <1>2, <1>3, <1>5 DEF q

\* No disk of less than nothing is accepted.
LEMMA AcceptableNumbers ==
  ASSUME NEW size \in Int, NEW block \in Int, Acceptable(size, block)
  PROVE  size \in Nat /\ block \in Nat \ {0}
<1> DEFINE total == size \div block
           map   == AtLeastOne(CeilDiv(total, block * 8))
           table == AtLeastOne(total \div 10)
<1>1. block \in Nat \ {0} /\ block * 8 \in Nat \ {0}
  BY LayoutAssumption DEF LayoutAssumption, Acceptable
<1>2. total \in Int /\ total * block <= size
  BY <1>1
<1>3. map \in Int /\ map >= 1 /\ table \in Int /\ table >= 1
  BY <1>1, <1>2 DEF AtLeastOne, CeilDiv
<1>4. 1 + map + table < total
  BY DEF Acceptable, Geometry
<1> HIDE DEF total, map, table
<1>5. total > 0
  BY <1>2, <1>3, <1>4
<1>6. total * block > 0
  BY <1>1, <1>2, <1>5
<1> QED
  BY <1>1, <1>2, <1>6

-----------------------------------------------------------------------------
\* On every disk a format accepts the parts follow one another and none is
\* empty, the bitmap has a bit for every block of the disk, and every inode
\* lies in the blocks of the inode table: no inode number the program uses
\* reaches into the data.
THEOREM LayoutSound ==
  ASSUME NEW size \in Nat, NEW block \in Nat, Acceptable(size, block),
         NEW geo, geo = Geometry(size \div block, block)
  PROVE  /\ 0 < geo.bitmapStart /\ geo.bitmapStart < geo.inodeStart
         /\ geo.inodeStart < geo.dataStart /\ geo.dataStart < geo.totalBlocks
         /\ geo.totalBlocks <= (geo.inodeStart - geo.bitmapStart) * (block * 8)
         /\ geo.maxInodes \in Nat \ {0}
         /\ \A i \in 0 .. geo.maxInodes - 1 :
              geo.inodeStart + i \div (block \div InodeSize) \in geo.inodeStart .. geo.dataStart - 1
<1> DEFINE total  == size \div block
           per    == block \div InodeSize
           bits   == CeilDiv(total, block * 8)
           map    == AtLeastOne(bits)
           table  == AtLeastOne(total \div 10)
<1>1. block \in Nat \ {0} /\ block >= InodeSize /\ InodeSize \in Nat \ {0}
  BY LayoutAssumption DEF LayoutAssumption, Acceptable
<1>2. total \in Nat
  BY <1>1
<1>3. per \in Nat \ {0}
  BY <1>1
<1>4. bits \in Nat /\ total <= bits * (block * 8)
  <2>1. block * 8 \in Nat \ {0}
    BY <1>1
  <2> HIDE DEF total
  <2> QED
    BY <1>2, <2>1, CeilDivBound
<1>5. map \in Nat \ {0} /\ bits <= map
  BY <1>4 DEF AtLeastOne
<1>6. bits * (block * 8) <= map * (block * 8)
  <2> HIDE DEF bits, map
  <2> QED
    BY <1>1, <1>4, <1>5
<1>7. table \in Nat \ {0}
  BY <1>2 DEF AtLeastOne
<1>8. geo = [bitmapStart |-> 1, inodeStart |-> 1 + map, dataStart |-> 1 + map + table,
             totalBlocks |-> total, maxInodes |-> per * table]
  BY DEF Geometry
<1>9. geo.dataStart < geo.totalBlocks
  BY <1>8 DEF Acceptable
<1> HIDE DEF total, per, bits, map, table
<1>10. total <= map * (block * 8)
  BY <1>1, <1>2, <1>4, <1>5, <1>6
<1>11. per * table \in Nat \ {0}
  BY <1>3, <1>7
<1>12. ASSUME NEW i \in 0 .. per * table - 1
       PROVE  i \div per \in 0 .. table - 1
  <2>1. i \in Nat /\ i < per * table
    BY <1>11
  <2> QED
    BY <1>3, <1>7, <2>1, DivBound
<1>13. ASSUME NEW i \in 0 .. per * table - 1
       PROVE  1 + map + i \div per \in 1 + map .. 1 + map + table - 1
  <2>1. i \div per \in Int /\ 0 <= i \div per /\ i \div per <= table - 1
    BY <1>7, <1>12
  <2> QED
    BY <1>5, <1>7, <2>1
<1>14. (1 + map) - 1 = map
  BY <1>5
<1> QED
  BY <1>5, <1>7, <1>8, <1>9, <1>10, <1>11, <1>13, <1>14 DEF per

\* Where no intermediate result leaves 32 bits, fs_format lays the disk out
\* as fsFormat of the page does, which computes with larger numbers.
THEOREM SameLayout ==
  ASSUME NEW total \in Nat \ {0}, NEW block \in Nat \ {0}, NoOverflow(total, block)
  PROVE  GeometryC(total, block) = Geometry(total, block)
<1> DEFINE bits  == CeilDiv(total, block * 8)
           table == InodeBlocksC(total)
<1>1. Word \in Nat \ {0} /\ InodeSize \in Nat \ {0}
  BY LayoutAssumption DEF LayoutAssumption
<1>2. \A n \in Nat : n < Word => n % Word = n
  BY <1>1
<1>3. total + block * 8 <= Word
  BY DEF NoOverflow
<1>4. BitsC(block) = block * 8
  <2>1. block * 8 \in Nat /\ block * 8 < Word
    BY <1>1, <1>3
  <2> QED
    BY <1>2, <2>1 DEF BitsC
<1>5. (total + block * 8 - 1) % Word = total + block * 8 - 1
  <2>1. total + block * 8 - 1 \in Nat /\ total + block * 8 - 1 < Word
    BY <1>1, <1>3
  <2> QED
    BY <1>2, <2>1
<1>6. BitmapBlocksC(total, block) = bits
  BY <1>4, <1>5 DEF BitmapBlocksC, CeilDiv
<1>7. bits \in Nat /\ bits > 0 /\ (bits - 1) * (block * 8) < total
  <2>1. block * 8 \in Nat \ {0}
    OBVIOUS
  <2>2. bits \in Nat /\ bits > 0
    BY <2>1, CeilDivBound
  <2>3. \A b \in Nat \ {0} : ((total + b - 1) \div b) * b <= total + b - 1
    OBVIOUS
  <2>4. bits * (block * 8) <= total + block * 8 - 1
    BY <2>1, <2>3 DEF CeilDiv
  <2> HIDE DEF bits
  <2>5. (bits - 1) * (block * 8) = bits * (block * 8) - block * 8
    BY <2>2
  <2>6. bits * (block * 8) \in Int
    BY <2>2
  <2> QED
    BY <2>2, <2>4, <2>5, <2>6
<1>8. AtLeastOne(bits) = bits
  BY <1>7 DEF AtLeastOne
<1>9. table = AtLeastOne(total \div 10) /\ table \in Nat /\ table * 10 <= total + 10
  BY DEF AtLeastOne, InodeBlocksC
<1>10. 1 + bits + table < Word
  <2> HIDE DEF bits, table
  <2>1. (bits - 1) * 8 <= (bits - 1) * (block * 8)
    BY <1>7
  <2>2. (bits - 1) * 8 < total
    <3>1. (bits - 1) * (block * 8) \in Int
      BY <1>7
    <3> QED
      BY <1>7, <2>1, <3>1
  <2>3. total + 8 <= Word
    BY <1>1, <1>3
  <2> QED
    BY <1>1, <1>7, <1>9, <2>2, <2>3
<1>11. (1 + bits) % Word = 1 + bits /\ (1 + bits + table) % Word = 1 + bits + table
  <2> HIDE DEF bits, table
  <2> QED
    BY <1>1, <1>2, <1>7, <1>9, <1>10
<1>12. ((block \div InodeSize) * table) % Word = (block \div InodeSize) * table
  <2>1. (block \div InodeSize) \in Nat
    BY <1>1
  <2>2. (block \div InodeSize) * table \in Nat
    <3> HIDE DEF table
    <3> QED
      BY <1>9, <2>1
  <2>3. (block \div InodeSize) * table < Word
    BY DEF NoOverflow
  <2> QED
    BY <1>2, <2>2, <2>3
<1> HIDE DEF table, bits
<1>13. Geometry(total, block) =
         [bitmapStart |-> 1, inodeStart |-> 1 + bits, dataStart |-> 1 + bits + table,
          totalBlocks |-> total, maxInodes |-> (block \div InodeSize) * table]
  BY <1>8, <1>9 DEF Geometry, bits
<1>14. GeometryC(total, block) =
         [bitmapStart |-> 1, inodeStart |-> (1 + bits) % Word,
          dataStart |-> (1 + bits + table) % Word, totalBlocks |-> total,
          maxInodes |-> ((block \div InodeSize) * table) % Word]
  BY <1>6 DEF GeometryC, table
<1> QED
  BY <1>11, <1>12, <1>13, <1>14

-----------------------------------------------------------------------------
(* The inductive invariant.                                                *)

VolumeType ==
  /\ formatted \in BOOLEAN
  /\ \/ superblock \in Superblock
     \/ /\ superblock = Blank(superblock.blockSize)
        /\ superblock.blockSize \in (Nat \ {0}) \cup {NaN}
  /\ nextInode \in Nat
  /\ DOMAIN files \subseteq 0 .. nextInode - 1
  /\ \A i \in DOMAIN files : files[i] \in File
  /\ usedDataBlocks \in Int

\* The parts of the disk follow one another.
Regions ==
  Counting => /\ superblock.bitmapStart = 1
              /\ 1 < superblock.inodeStart
              /\ superblock.inodeStart < superblock.dataStart

\* No file has more blocks than an inode can name.
Limited == \A i \in DOMAIN files : Len(files[i].blocks) <= MaxDirect

VolumeInv ==
  /\ VolumeType
  /\ Regions
  /\ Limited
  /\ CountsAgree
  /\ PointersInRange
  /\ NamesUnique
  /\ EnoughBlocks

LEMMA TypeParts == TypeOK <=> VolumeType /\ reply \in Reply
BY DEF TypeOK, VolumeType

-----------------------------------------------------------------------------
(* Counting block numbers.                                                 *)

Row(i, n)      == {i} \X (1 .. n)
PointersOf(fs) == UNION {{i} \X DOMAIN fs[i].blocks : i \in DOMAIN fs}

LEMMA RowCount ==
  ASSUME NEW i, NEW n \in Nat
  PROVE  IsFiniteSet(Row(i, n)) /\ Cardinality(Row(i, n)) = n
<1>1. IsFiniteSet({i}) /\ Cardinality({i}) = 1
  BY FS_Singleton
<1>2. IsFiniteSet(1 .. n) /\ Cardinality(1 .. n) = n
  BY FS_Interval
<1>3. IsFiniteSet({i} \X (1 .. n))
       /\ Cardinality({i} \X (1 .. n)) = Cardinality({i}) * Cardinality(1 .. n)
  <2> DEFINE S == {i}
             T == 1 .. n
  <2>1. IsFiniteSet(S) /\ IsFiniteSet(T)
    BY <1>1, <1>2
  <2> HIDE DEF S, T
  <2>2. IsFiniteSet(S \X T) /\ Cardinality(S \X T) = Cardinality(S) * Cardinality(T)
    BY <2>1, FS_Product
  <2> QED
    BY <2>2 DEF S, T
<1>4. Cardinality({i}) * Cardinality(1 .. n) = n
  BY <1>1, <1>2
<1> QED
  BY <1>3, <1>4 DEF Row

LEMMA DifferenceCount ==
  ASSUME NEW S, NEW T, IsFiniteSet(S), NEW n \in Nat, Cardinality(S \cap T) = n
  PROVE  IsFiniteSet(S \ T) /\ Cardinality(S \ T) = Cardinality(S) - n
BY FS_Difference

LEMMA DisjointCount ==
  ASSUME NEW S, NEW T, IsFiniteSet(S), IsFiniteSet(T), S \cap T = {}
  PROVE  Cardinality(S \cup T) = Cardinality(S) + Cardinality(T)
<1>1. Cardinality(S \cap T) = 0
  BY FS_EmptySet
<1>2. Cardinality(S) \in Nat /\ Cardinality(T) \in Nat
  BY FS_CardinalityType
<1>3. Cardinality(S \cup T) = Cardinality(S) + Cardinality(T) - Cardinality(S \cap T)
  BY FS_Union
<1> QED
  BY <1>1, <1>2, <1>3

\* The files of a volume have finitely many block numbers, those of one file
\* among them.
LEMMA PointersFinite ==
  ASSUME VolumeType, Limited
  PROVE  /\ IsFiniteSet(DOMAIN files)
         /\ Pointer = PointersOf(files)
         /\ IsFiniteSet(Pointer)
         /\ \A i \in DOMAIN files : Row(i, Len(files[i].blocks)) \subseteq Pointer
<1>1. IsFiniteSet(0 .. nextInode - 1)
  BY FS_Interval DEF VolumeType
<1>2. IsFiniteSet(1 .. MaxDirect)
  BY FS_Interval, WebAssumption DEF WebAssumption
<1>3. IsFiniteSet((0 .. nextInode - 1) \X (1 .. MaxDirect))
  BY <1>1, <1>2, FS_Product
<1>4. \A i \in DOMAIN files : DOMAIN files[i].blocks = 1 .. Len(files[i].blocks)
                              /\ Len(files[i].blocks) \in Nat
  BY DEF VolumeType, File
<1>5. Pointer \subseteq (0 .. nextInode - 1) \X (1 .. MaxDirect)
  <2>1. SUFFICES ASSUME NEW i \in DOMAIN files, NEW k \in DOMAIN files[i].blocks
                 PROVE  i \in 0 .. nextInode - 1 /\ k \in 1 .. MaxDirect
    BY DEF Pointer
  <2> QED
    BY <1>4, WebAssumption DEF WebAssumption, VolumeType, Limited
<1>6. IsFiniteSet(Pointer)
  BY <1>3, <1>5, FS_Subset
<1>7. IsFiniteSet(DOMAIN files)
  BY <1>1, FS_Subset DEF VolumeType
<1>8. \A i \in DOMAIN files : Row(i, Len(files[i].blocks)) \subseteq Pointer
  BY <1>4 DEF Pointer, Row
<1> QED
  BY <1>6, <1>7, <1>8 DEF Pointer, PointersOf

\* From files fs to files gs, file i, which had own blocks or is new, has need.
Changed(fs, gs, i, own, need) ==
  /\ IsFiniteSet(PointersOf(fs))
  /\ DOMAIN gs = DOMAIN fs \cup {i}
  /\ \A j \in DOMAIN fs \ {i} : gs[j].blocks = fs[j].blocks
  /\ i \in DOMAIN fs => DOMAIN fs[i].blocks = 1 .. own
  /\ i \notin DOMAIN fs => own = 0
  /\ DOMAIN gs[i].blocks = 1 .. need

\* The number of block numbers then changes by the difference.
LEMMA RowChange ==
  ASSUME NEW fs, NEW gs, NEW i, NEW own \in Nat, NEW need \in Nat,
         Changed(fs, gs, i, own, need)
  PROVE  Cardinality(PointersOf(gs)) = Cardinality(PointersOf(fs)) - own + need
<1> USE DEF Changed
<1> DEFINE P    == PointersOf(fs)
           rest == P \ Row(i, own)
<1>1. Row(i, own) \subseteq P
  <2>1. CASE i \in DOMAIN fs
    BY <2>1 DEF PointersOf, Row
  <2>2. CASE i \notin DOMAIN fs
    BY <2>2 DEF Row
  <2> QED
    BY <2>1, <2>2
<1>2. PointersOf(gs) = rest \cup Row(i, need)
  BY DEF PointersOf, Row
<1>3. rest \cap Row(i, need) = {}
  BY DEF PointersOf, Row
<1>4. Cardinality(P \cap Row(i, own)) = own
  <2>1. P \cap Row(i, own) = Row(i, own)
    BY <1>1
  <2> QED
    BY <2>1, RowCount
<1>5. IsFiniteSet(rest) /\ Cardinality(rest) = Cardinality(P) - own
  BY <1>4, DifferenceCount
<1>6. IsFiniteSet(Row(i, need)) /\ Cardinality(Row(i, need)) = need
  BY RowCount
<1>7. Cardinality(rest \cup Row(i, need)) = Cardinality(rest) + need
  <2> HIDE DEF rest
  <2> QED
    BY <1>3, <1>5, <1>6, DisjointCount
<1> QED
  BY <1>2, <1>5, <1>7

\* When a file goes, its block numbers go.
LEMMA RowGone ==
  ASSUME NEW fs, NEW i \in DOMAIN fs, NEW own \in Nat,
         IsFiniteSet(PointersOf(fs)),
         DOMAIN fs[i].blocks = 1 .. own
  PROVE  Cardinality(PointersOf([j \in DOMAIN fs \ {i} |-> fs[j]]))
           = Cardinality(PointersOf(fs)) - own
<1> DEFINE P == PointersOf(fs)
<1>1. PointersOf([j \in DOMAIN fs \ {i} |-> fs[j]]) = P \ Row(i, own)
  BY DEF PointersOf, Row
<1>2. P \cap Row(i, own) = Row(i, own)
  BY DEF PointersOf, Row
<1>3. Cardinality(P \cap Row(i, own)) = own
  BY <1>2, RowCount
<1>4. IsFiniteSet(P)
  OBVIOUS
<1> HIDE DEF P
<1>5. Cardinality(P \ Row(i, own)) = Cardinality(P) - own
  BY <1>3, <1>4, DifferenceCount
<1> QED
  BY <1>1, <1>5 DEF P

-----------------------------------------------------------------------------
(* What the formulas of the commands compute.                              *)

\* Numbers are told from NaN, and a superblock of NaN never changes.
LEMMA Counted ==
  ASSUME VolumeType
  PROVE  /\ Counting => superblock \in Superblock
         /\ ~Counting => superblock = Blank(superblock.blockSize)
         /\ superblock.blockSize # NaN => superblock.blockSize \in Nat \ {0}
BY WebAssumption DEF WebAssumption, VolumeType, Counting, Superblock, Blank

\* The loop of _doWrite runs as often as the content needs, and once for none.
LEMMA NeededType ==
  ASSUME VolumeType, NEW len \in Nat
  PROVE  /\ Needed(len) \in Nat
         /\ superblock.blockSize # NaN =>
              \/ Needed(len) = CeilDiv(len, superblock.blockSize)
              \/ len = 0 /\ Needed(len) = 1
<1>1. CASE superblock.blockSize = NaN
  BY <1>1 DEF Needed
<1>2. CASE superblock.blockSize # NaN
  <2> DEFINE bs == superblock.blockSize
  <2>1. bs \in Nat \ {0}
    BY <1>2, Counted
  <2> HIDE DEF bs
  <2>2. CeilDiv(len, bs) \in Nat /\ (len > 0 => CeilDiv(len, bs) > 0)
    BY <2>1, CeilDivBound
  <2>3. AtLeastOne(CeilDiv(len, bs)) \in Nat
        /\ \/ AtLeastOne(CeilDiv(len, bs)) = CeilDiv(len, bs)
           \/ len = 0 /\ AtLeastOne(CeilDiv(len, bs)) = 1
    BY <2>2 DEF AtLeastOne
  <2> QED
    BY <1>2, <2>3 DEF Needed, bs
<1> QED
  BY <1>1, <1>2

LEMMA NumbersType ==
  ASSUME VolumeType, NEW own \in Nat, NEW need \in Nat
  PROVE  /\ Numbers(own, need) \in Seq(Int \cup {NaN})
         /\ Len(Numbers(own, need)) = need
         /\ DOMAIN Numbers(own, need) = 1 .. need
         /\ Counting => \A k \in 1 .. need :
              Numbers(own, need)[k] = superblock.dataStart + usedDataBlocks - own + k - 1
<1>1. \A k \in 1 .. need : Numbers(own, need)[k] \in Int \cup {NaN}
  BY Counted DEF VolumeType, Superblock, Numbers
<1> QED
  BY <1>1 DEF Numbers

\* A file's blocks are counted in usedDataBlocks.
LEMMA OwnCounted ==
  ASSUME VolumeInv, NEW i \in DOMAIN files
  PROVE  Len(files[i].blocks) \in Nat /\ Len(files[i].blocks) <= usedDataBlocks
<1>1. Len(files[i].blocks) \in Nat
  BY DEF VolumeInv, VolumeType, File
<1>2. IsFiniteSet(Pointer) /\ Row(i, Len(files[i].blocks)) \subseteq Pointer
  BY PointersFinite DEF VolumeInv
<1>3. Cardinality(Row(i, Len(files[i].blocks))) <= Cardinality(Pointer)
  BY <1>2, FS_Subset
<1> QED
  BY <1>1, <1>3, RowCount DEF VolumeInv, CountsAgree

-----------------------------------------------------------------------------
(* Commands that leave the blocks alone.                                   *)

\* The invariant speaks of the volume only.
LEMMA SameInv ==
  ASSUME VolumeInv, UNCHANGED FS
  PROVE  VolumeInv'
BY DEF FS, VolumeInv, VolumeType, Regions, Limited, CountsAgree, PointersInRange, NamesUnique,
       EnoughBlocks, Counting, Blank, dataBlocks, Pointer, BlockAt, InDataRange

\* A file's name or bits may change as long as no name is held twice.
LEMMA TouchInv ==
  ASSUME VolumeInv, UNCHANGED <<formatted, superblock, nextInode, usedDataBlocks>>,
         NEW i \in DOMAIN files, NEW f \in File,
         f.content = files[i].content, f.blocks = files[i].blocks,
         \A j \in DOMAIN files \ {i} : files[j].name # f.name,
         files' = [files EXCEPT ![i] = f]
  PROVE  VolumeInv'
<1>1. DOMAIN files' = DOMAIN files
  OBVIOUS
<1>2. \A j \in DOMAIN files : /\ files'[j] \in File
                              /\ files'[j].content = files[j].content
                              /\ files'[j].blocks = files[j].blocks
  BY DEF VolumeInv, VolumeType
<1>3. Pointer' = Pointer
  BY <1>1, <1>2 DEF Pointer
<1>4. \A p \in Pointer : BlockAt(p)' = BlockAt(p)
  BY <1>2 DEF Pointer, BlockAt
<1>5. VolumeType'
  BY <1>1, <1>2 DEF VolumeInv, VolumeType, Blank
<1>6. Regions' /\ Limited'
  BY <1>1, <1>2 DEF VolumeInv, Regions, Limited, Counting
<1>7. CountsAgree'
  BY <1>1, <1>3 DEF VolumeInv, CountsAgree, Counting, dataBlocks
<1>8. PointersInRange'
  BY <1>3, <1>4 DEF VolumeInv, PointersInRange, Counting, InDataRange
<1>9. NamesUnique'
  BY <1>1 DEF VolumeInv, NamesUnique
<1>10. EnoughBlocks'
  BY <1>1, <1>2 DEF VolumeInv, EnoughBlocks
<1> QED
  BY <1>5, <1>6, <1>7, <1>8, <1>9, <1>10 DEF VolumeInv

\* A new file takes an inode and no block.
LEMMA AddInv ==
  ASSUME VolumeInv, ~NoInodeLeft, NEW n \in AnyName, NEW perm \in Perm, Holders(n) = {},
         UNCHANGED <<formatted, usedDataBlocks>>,
         nextInode' = nextInode + 1,
         files' = With(nextInode, NewFile(n, perm)),
         superblock' = [superblock EXCEPT !.freeInodes = Less(@, 1)]
  PROVE  VolumeInv'
<1> DEFINE i == nextInode
           f == NewFile(n, perm)
<1>1. /\ VolumeType /\ Regions /\ Limited /\ CountsAgree /\ PointersInRange
      /\ NamesUnique /\ EnoughBlocks
  BY DEF VolumeInv
<1>2. i \in Nat /\ i \notin DOMAIN files
  BY <1>1 DEF VolumeType
<1>3. f \in File /\ f.name = n /\ f.content = <<>> /\ f.blocks = <<>>
  BY DEF File, NewFile
<1>4. /\ DOMAIN files' = DOMAIN files \cup {i}
      /\ files'[i] = f
      /\ \A j \in DOMAIN files : files'[j] = files[j]
  BY <1>2 DEF With
<1>5. ASSUME Counting
      PROVE  /\ superblock \in Superblock
             /\ superblock' = [superblock EXCEPT !.freeInodes = @ - 1]
             /\ superblock' \in Superblock
  <2>1. superblock \in Superblock
    BY <1>1, <1>5, Counted
  <2>2. superblock.freeInodes - 1 \in Nat
    BY <1>5, <2>1 DEF NoInodeLeft, Superblock
  <2>3. superblock' = [superblock EXCEPT !.freeInodes = @ - 1]
    BY <1>5 DEF Less
  <2> QED
    BY <2>1, <2>2, <2>3 DEF Superblock
<1>6. ASSUME ~Counting
      PROVE  superblock' = superblock
  <2>1. superblock = Blank(superblock.blockSize)
    BY <1>1, <1>6, Counted
  <2> QED
    BY <1>6, <2>1 DEF Less, Blank
<1>7. /\ Counting' <=> Counting
      /\ superblock'.blockSize = superblock.blockSize
      /\ superblock'.dataStart = superblock.dataStart
      /\ superblock'.inodeStart = superblock.inodeStart
      /\ superblock'.bitmapStart = superblock.bitmapStart
      /\ superblock'.totalBlocks = superblock.totalBlocks
      /\ superblock'.maxInodes = superblock.maxInodes
      /\ superblock'.freeBlocks = superblock.freeBlocks
  <2>1. CASE Counting
    BY <1>5, <2>1 DEF Counting, Superblock
  <2>2. CASE ~Counting
    BY <1>6, <2>2 DEF Counting
  <2> QED
    BY <2>1, <2>2
<1> HIDE DEF f
<1>8. VolumeType'
  <2>1. superblock' \in Superblock \/ superblock' = superblock
    BY <1>5, <1>6
  <2>2. DOMAIN files' \subseteq 0 .. nextInode' - 1
    BY <1>1, <1>2, <1>4 DEF VolumeType
  <2>3. \A j \in DOMAIN files' : files'[j] \in File
    BY <1>1, <1>3, <1>4 DEF VolumeType
  <2> QED
    BY <1>1, <2>1, <2>2, <2>3 DEF VolumeType
<1>9. Limited'
  <2>1. Len(f.blocks) <= MaxDirect
    BY <1>3, WebAssumption DEF WebAssumption
  <2> QED
    BY <1>1, <1>4, <2>1 DEF Limited
<1>10. Pointer' = Pointer
  BY <1>3, <1>4 DEF Pointer
<1>11. \A p \in Pointer : BlockAt(p)' = BlockAt(p)
  BY <1>4 DEF Pointer, BlockAt
<1>12. Cardinality(DOMAIN files') = Cardinality(DOMAIN files) + 1
       /\ Cardinality(DOMAIN files) \in Nat
  <2>1. IsFiniteSet(DOMAIN files)
    BY <1>1, PointersFinite
  <2> QED
    BY <1>2, <1>4, <2>1, FS_AddElement, FS_CardinalityType
<1>13. CountsAgree'
  <2>1. usedDataBlocks' = Cardinality(Pointer')
    BY <1>1, <1>10 DEF CountsAgree
  <2>2. ASSUME Counting
        PROVE  superblock'.freeInodes = superblock'.maxInodes - Cardinality(DOMAIN files')
    <3>1. superblock'.freeInodes = superblock.freeInodes - 1
      BY <1>5, <2>2 DEF Superblock
    <3>2. superblock.freeInodes = superblock.maxInodes - Cardinality(DOMAIN files)
      BY <1>1, <2>2 DEF CountsAgree
    <3>3. superblock.maxInodes \in Nat
      BY <1>5, <2>2 DEF Superblock
    <3>4. superblock.maxInodes - Cardinality(DOMAIN files) - 1
            = superblock.maxInodes - (Cardinality(DOMAIN files) + 1)
      BY <1>12, <3>3
    <3> QED
      BY <1>7, <1>12, <3>1, <3>2, <3>4
  <2>3. Counting => superblock'.freeBlocks
                      = superblock'.totalBlocks - superblock'.dataStart - usedDataBlocks'
    BY <1>1, <1>7 DEF CountsAgree, dataBlocks
  <2> QED
    BY <1>7, <2>1, <2>2, <2>3 DEF CountsAgree, dataBlocks
<1>14. PointersInRange'
  BY <1>1, <1>7, <1>10, <1>11 DEF PointersInRange, InDataRange
<1>15. NamesUnique'
  BY <1>1, <1>3, <1>4 DEF NamesUnique, Holders
<1>16. EnoughBlocks'
  <2>1. SUFFICES ASSUME superblock.blockSize # NaN, NEW j \in DOMAIN files'
                 PROVE  LET len == Len(files'[j].content)
                        IN  \/ Len(files'[j].blocks) = CeilDiv(len, superblock.blockSize)
                            \/ len = 0 /\ Len(files'[j].blocks) = 1
    BY <1>7 DEF EnoughBlocks
  <2>2. CASE j = i
    <3>1. superblock.blockSize \in Nat \ {0}
      BY <1>1, <2>1, Counted
    <3>2. CeilDiv(0, superblock.blockSize) \in Nat /\ CeilDiv(0, superblock.blockSize) <= 0
      BY <3>1, CeilDivBound
    <3>3. CeilDiv(0, superblock.blockSize) = 0
      BY <3>2
    <3> QED
      BY <1>3, <1>4, <2>2, <3>3
  <2>3. CASE j # i
    BY <1>1, <1>4, <2>1, <2>3 DEF EnoughBlocks
  <2> QED
    BY <2>2, <2>3
<1>17. Regions'
  BY <1>1, <1>7 DEF Regions
<1> QED
  BY <1>8, <1>9, <1>13, <1>14, <1>15, <1>16, <1>17 DEF VolumeInv

\* A file that goes gives back its inode and its blocks.
LEMMA DeleteInv ==
  ASSUME VolumeInv, NEW n, Delete(n)
  PROVE  VolumeInv'
<1>1. CASE UNCHANGED FS
  BY <1>1, SameInv
<1>2. ASSUME NEW i \in DOMAIN files,
             usedDataBlocks' = usedDataBlocks - Len(files[i].blocks),
             superblock' = [superblock EXCEPT
                              !.freeBlocks = Less(@, -Len(files[i].blocks)),
                              !.freeInodes = Less(@, -1)],
             files' = [j \in DOMAIN files \ {i} |-> files[j]],
             UNCHANGED <<formatted, nextInode>>
      PROVE  VolumeInv'
  <2> DEFINE own == Len(files[i].blocks)
  <2>1. /\ VolumeType /\ Regions /\ Limited /\ CountsAgree /\ PointersInRange
        /\ NamesUnique /\ EnoughBlocks
    BY DEF VolumeInv
  <2>2. own \in Nat /\ own <= usedDataBlocks /\ DOMAIN files[i].blocks = 1 .. own
    BY <2>1, OwnCounted DEF VolumeType, File
  <2>3. /\ DOMAIN files' = DOMAIN files \ {i}
        /\ \A j \in DOMAIN files' : files'[j] = files[j]
    BY <1>2
  <2>4. /\ usedDataBlocks' = usedDataBlocks - own
        /\ superblock' = [superblock EXCEPT !.freeBlocks = Less(@, -own),
                                            !.freeInodes = Less(@, -1)]
    BY <1>2
  <2>5. /\ IsFiniteSet(DOMAIN files) /\ IsFiniteSet(Pointer) /\ Pointer = PointersOf(files)
    BY <2>1, PointersFinite
  <2>6. Cardinality(Pointer') = Cardinality(Pointer) - own
    <3>1. Pointer' = PointersOf([j \in DOMAIN files \ {i} |-> files[j]])
      BY <1>2 DEF Pointer, PointersOf
    <3> QED
      BY <2>2, <2>5, <3>1, RowGone
  <2>7. Pointer' \subseteq Pointer /\ \A p \in Pointer' : BlockAt(p)' = BlockAt(p)
    BY <2>3 DEF Pointer, BlockAt
  <2>8. Cardinality(DOMAIN files') = Cardinality(DOMAIN files) - 1
        /\ Cardinality(DOMAIN files) \in Nat
    BY <2>3, <2>5, FS_RemoveElement, FS_CardinalityType
  <2> HIDE DEF own
  <2>9. ASSUME Counting
        PROVE  /\ superblock \in Superblock /\ superblock' \in Superblock
               /\ superblock'.freeBlocks = superblock.freeBlocks + own
               /\ superblock'.freeInodes = superblock.freeInodes + 1
               /\ superblock'.blockSize = superblock.blockSize
               /\ superblock'.dataStart = superblock.dataStart
               /\ superblock'.inodeStart = superblock.inodeStart
               /\ superblock'.bitmapStart = superblock.bitmapStart
               /\ superblock'.totalBlocks = superblock.totalBlocks
               /\ superblock'.maxInodes = superblock.maxInodes
    <3>1. superblock \in Superblock
      BY <2>1, <2>9, Counted
    <3>2. /\ superblock.freeBlocks - (-own) = superblock.freeBlocks + own
          /\ superblock.freeInodes - (-1) = superblock.freeInodes + 1
          /\ superblock.freeBlocks + own \in Nat /\ superblock.freeInodes + 1 \in Nat
      BY <2>2, <3>1 DEF Superblock
    <3>3. superblock' = [superblock EXCEPT !.freeBlocks = superblock.freeBlocks + own,
                                           !.freeInodes = superblock.freeInodes + 1]
      BY <2>4, <2>9, <3>2 DEF Less
    <3> QED
      BY <3>1, <3>2, <3>3 DEF Superblock
  <2>10. ASSUME ~Counting
         PROVE  superblock' = superblock
    <3>1. superblock = Blank(superblock.blockSize)
      BY <2>1, <2>10, Counted
    <3> QED
      BY <2>4, <2>10, <3>1 DEF Less, Blank
  <2>11. Counting' <=> Counting
    <3>1. CASE Counting
      BY <2>9, <3>1, WebAssumption DEF Counting, Superblock, WebAssumption
    <3>2. CASE ~Counting
      BY <2>10, <3>2 DEF Counting
    <3> QED
      BY <3>1, <3>2
  <2>12. superblock'.blockSize = superblock.blockSize
    BY <2>9, <2>10
  <2>13. VolumeType'
    <3>1. superblock' \in Superblock \/ superblock' = superblock
      BY <2>9, <2>10
    <3>2. usedDataBlocks' \in Int
      BY <2>1, <2>2, <2>4 DEF VolumeType
    <3> QED
      BY <1>2, <2>1, <2>3, <3>1, <3>2 DEF VolumeType
  <2>14. Limited'
    BY <2>1, <2>3 DEF Limited
  <2>15. CountsAgree'
    <3>1. usedDataBlocks' = Cardinality(Pointer')
      BY <2>1, <2>4, <2>6 DEF CountsAgree
    <3>2. ASSUME Counting
          PROVE  /\ superblock'.freeInodes = superblock'.maxInodes - Cardinality(DOMAIN files')
                 /\ superblock'.freeBlocks
                      = superblock'.totalBlocks - superblock'.dataStart - usedDataBlocks'
      <4>1. /\ superblock.freeInodes = superblock.maxInodes - Cardinality(DOMAIN files)
            /\ superblock.freeBlocks
                 = superblock.totalBlocks - superblock.dataStart - usedDataBlocks
        BY <2>1, <3>2 DEF CountsAgree, dataBlocks
      <4>2. /\ superblock.maxInodes \in Nat /\ superblock.totalBlocks \in Nat
            /\ superblock.dataStart \in Nat /\ usedDataBlocks \in Int
        BY <2>1, <2>9, <3>2 DEF Superblock, VolumeType
      <4>3. superblock.maxInodes - Cardinality(DOMAIN files) + 1
              = superblock.maxInodes - (Cardinality(DOMAIN files) - 1)
        BY <2>8, <4>2
      <4>4. superblock.totalBlocks - superblock.dataStart - usedDataBlocks + own
              = superblock.totalBlocks - superblock.dataStart - (usedDataBlocks - own)
        BY <2>2, <4>2
      <4>5. superblock'.freeInodes = superblock'.maxInodes - Cardinality(DOMAIN files')
        BY <2>8, <2>9, <3>2, <4>1, <4>3
      <4>6. superblock'.freeBlocks
              = superblock'.totalBlocks - superblock'.dataStart - usedDataBlocks'
        BY <2>4, <2>9, <3>2, <4>1, <4>4
      <4> QED
        BY <4>5, <4>6
    <3> QED
      BY <2>11, <3>1, <3>2 DEF CountsAgree, dataBlocks
  <2>16. PointersInRange'
    BY <2>1, <2>7, <2>9, <2>11 DEF PointersInRange, InDataRange
  <2>17. NamesUnique'
    BY <2>1, <2>3 DEF NamesUnique
  <2>18. EnoughBlocks'
    BY <2>1, <2>3, <2>12 DEF EnoughBlocks
  <2>19. Regions'
    BY <2>1, <2>9, <2>11 DEF Regions
  <2> QED
    BY <2>13, <2>14, <2>15, <2>16, <2>17, <2>18, <2>19 DEF VolumeInv
<1> QED
  BY <1>1, <1>2 DEF Delete, Refuse

\* A volume without files, with the counters of a fresh one.
LEMMA EmptyInv ==
  ASSUME formatted' \in BOOLEAN, files' = NoFiles, nextInode' = 0, usedDataBlocks' = 0,
         \/ /\ superblock' = Blank(superblock'.blockSize)
            /\ superblock'.blockSize \in (Nat \ {0}) \cup {NaN}
         \/ /\ superblock' \in Superblock
            /\ superblock'.bitmapStart = 1
            /\ 1 < superblock'.inodeStart
            /\ superblock'.inodeStart < superblock'.dataStart
            /\ superblock'.freeInodes = superblock'.maxInodes
            /\ superblock'.freeBlocks = superblock'.totalBlocks - superblock'.dataStart
  PROVE  VolumeInv'
<1>1. DOMAIN files' = {}
  BY DEF NoFiles
<1>2. Pointer' = {}
  BY <1>1 DEF Pointer
<1>3. Cardinality(Pointer') = 0 /\ Cardinality(DOMAIN files') = 0
  BY <1>1, <1>2, FS_EmptySet
<1>4. VolumeType'
  BY <1>1 DEF VolumeType
<1>5. Counting' => superblock' \in Superblock
  BY <1>4, WebAssumption DEF Counting, Blank, WebAssumption
<1>6. Regions'
  BY <1>5 DEF Regions, Counting, Blank
<1>7. CountsAgree'
  <2>1. Counting' => /\ superblock'.freeInodes = superblock'.maxInodes
                     /\ superblock'.freeBlocks = superblock'.totalBlocks - superblock'.dataStart
    BY DEF Counting, Blank
  <2>2. Counting' => /\ superblock'.maxInodes - 0 = superblock'.maxInodes
                     /\ superblock'.totalBlocks - superblock'.dataStart - 0
                          = superblock'.totalBlocks - superblock'.dataStart
    BY <1>5 DEF Superblock
  <2> QED
    BY <1>3, <2>1, <2>2 DEF CountsAgree, dataBlocks
<1>8. Limited' /\ PointersInRange' /\ NamesUnique' /\ EnoughBlocks'
  BY <1>1, <1>2 DEF Limited, PointersInRange, NamesUnique, EnoughBlocks
<1> QED
  BY <1>4, <1>6, <1>7, <1>8 DEF VolumeInv

\* The k-th number made up for a content that fits the room is in the data.
LEMMA NumberBound ==
  ASSUME NEW start \in Nat, NEW total \in Nat, NEW free \in Nat, NEW used \in Int,
         NEW own \in Nat, NEW need \in Nat, NEW k \in Nat, 1 <= k, k <= need,
         free = total - start - used, need <= free + own, own <= used
  PROVE  start <= start + used - own + k - 1 /\ start + used - own + k - 1 < total
OBVIOUS

-----------------------------------------------------------------------------
(* _doWrite.                                                               *)

\* Storing a content that fits keeps the volume sound, for an old file and for
\* the new one cp has just made.
LEMMA StoreInv ==
  ASSUME VolumeInv, NEW i \in Nat, NEW f \in File, NEW text \in Seq(Char), NEW s,
         formatted' = formatted,
         \/ /\ i \in DOMAIN files /\ f.blocks = files[i].blocks
            /\ s = superblock /\ nextInode' = nextInode
         \/ /\ i = nextInode /\ f.blocks = <<>>
            /\ s = [superblock EXCEPT !.freeInodes = Less(@, 1)] /\ ~NoInodeLeft
            /\ nextInode' = nextInode + 1,
         \A j \in DOMAIN files \ {i} : files[j].name # f.name,
         ~FitsNot(Len(text), Len(f.blocks)),
         Store(i, f, text, s)
  PROVE  VolumeInv'
<1> DEFINE own  == Len(f.blocks)
           need == Needed(Len(text))
           g    == [f EXCEPT !.content = text, !.blocks = Numbers(own, need)]
           new  == IF i \in DOMAIN files THEN 0 ELSE 1
<1>1. /\ VolumeType /\ Regions /\ Limited /\ CountsAgree /\ PointersInRange
      /\ NamesUnique /\ EnoughBlocks
  BY DEF VolumeInv
<1>2. own \in Nat /\ need \in Nat /\ Len(text) \in Nat
  BY <1>1, NeededType DEF File
<1>3. /\ files' = [j \in DOMAIN files \cup {i} |-> IF j = i THEN g ELSE files[j]]
      /\ usedDataBlocks' = usedDataBlocks - own + need
      /\ superblock' = [s EXCEPT !.freeBlocks = Less(@, need - own)]
  BY DEF Store, With
<1>4. /\ Numbers(own, need) \in Seq(Int \cup {NaN})
      /\ Len(Numbers(own, need)) = need
      /\ DOMAIN Numbers(own, need) = 1 .. need
      /\ Counting => \A k \in 1 .. need :
           Numbers(own, need)[k] = superblock.dataStart + usedDataBlocks - own + k - 1
  BY <1>1, <1>2, NumbersType
<1>5. /\ g \in File /\ g.name = f.name /\ g.content = text
      /\ g.blocks = Numbers(own, need)
  BY <1>4 DEF File
<1>6. /\ need <= MaxDirect
      /\ Counting => need <= superblock.freeBlocks + own
  <2>1. ~(need > MaxDirect) /\ ~(Counting /\ need > superblock.freeBlocks + own)
    BY DEF FitsNot
  <2>2. MaxDirect \in Nat
    BY WebAssumption DEF WebAssumption
  <2>3. Counting => superblock.freeBlocks \in Nat
    BY <1>1, Counted DEF Superblock
  <2> HIDE DEF own, need
  <2> QED
    BY <1>2, <2>1, <2>2, <2>3
<1>7. i \notin DOMAIN files => i = nextInode /\ own = 0 /\ ~NoInodeLeft
  OBVIOUS
<1>8. i = nextInode => i \notin DOMAIN files
  BY <1>1 DEF VolumeType
<1>9. i \in DOMAIN files => own = Len(files[i].blocks) /\ DOMAIN files[i].blocks = 1 .. own
  BY <1>1, <1>8 DEF VolumeType, File
<1>10. own <= usedDataBlocks
  <2>1. CASE i \in DOMAIN files
    BY <1>9, <2>1, OwnCounted
  <2>2. CASE i \notin DOMAIN files
    <3>1. usedDataBlocks \in Nat
      BY <1>1, PointersFinite, FS_CardinalityType DEF CountsAgree
    <3> QED
      BY <1>7, <2>2, <3>1
  <2> QED
    BY <2>1, <2>2
<1>10a. /\ new \in {0, 1}
        /\ new = 0 => i \in DOMAIN files /\ s = superblock
        /\ new = 1 => /\ i \notin DOMAIN files /\ ~NoInodeLeft
                      /\ s = [superblock EXCEPT !.freeInodes = Less(@, 1)]
  BY <1>8
<1> HIDE DEF own, need, g, new
<1>11. ASSUME Counting
       PROVE  /\ superblock \in Superblock /\ superblock' \in Superblock
              /\ superblock'.freeInodes = superblock.freeInodes - new
              /\ superblock'.freeBlocks = superblock.freeBlocks - (need - own)
  <2>1. superblock \in Superblock
    BY <1>1, <1>11, Counted
  <2>2. superblock.freeBlocks - (need - own) \in Nat
    BY <1>2, <1>6, <1>11, <2>1 DEF Superblock
  <2>3. superblock' = [s EXCEPT !.freeBlocks = @ - (need - own)]
    BY <1>3, <1>11 DEF Less
  <2>4. CASE new = 0
    <3>1. superblock' = [superblock EXCEPT !.freeBlocks = @ - (need - own)]
      BY <1>10a, <2>3, <2>4
    <3>2. superblock.freeInodes - new = superblock.freeInodes
      BY <2>1, <2>4 DEF Superblock
    <3> QED
      BY <2>1, <2>2, <3>1, <3>2 DEF Superblock
  <2>5. CASE new = 1
    <3>1. superblock.freeInodes - 1 \in Nat
      BY <1>10a, <1>11, <2>1, <2>5 DEF NoInodeLeft, Superblock
    <3>2. s = [superblock EXCEPT !.freeInodes = @ - 1]
      BY <1>10a, <1>11, <2>5 DEF Less
    <3>3. s \in Superblock /\ s.freeInodes = superblock.freeInodes - 1
          /\ s.freeBlocks = superblock.freeBlocks
      BY <2>1, <3>1, <3>2 DEF Superblock
    <3> QED
      BY <2>1, <2>2, <2>3, <2>5, <3>3 DEF Superblock
  <2> QED
    BY <1>10a, <2>1, <2>4, <2>5
<1>12. ~Counting => superblock' = superblock
  <2> SUFFICES ASSUME ~Counting PROVE superblock' = superblock
    OBVIOUS
  <2>1. superblock = Blank(superblock.blockSize)
    BY <1>1, Counted
  <2>2. [superblock EXCEPT !.freeInodes = Less(@, 1)] = superblock
    BY <2>1 DEF Less, Blank
  <2>3. s = superblock
    BY <2>2
  <2> QED
    BY <1>3, <2>1, <2>3 DEF Less, Blank
<1>13. Counting' <=> Counting
  <2>1. CASE Counting
    BY <1>11, <2>1, WebAssumption DEF Counting, Superblock, WebAssumption
  <2>2. CASE ~Counting
    BY <1>12, <2>2 DEF Counting
  <2> QED
    BY <2>1, <2>2
<1>14. /\ superblock'.blockSize = superblock.blockSize
       /\ superblock'.dataStart = superblock.dataStart
       /\ superblock'.inodeStart = superblock.inodeStart
       /\ superblock'.bitmapStart = superblock.bitmapStart
       /\ superblock'.totalBlocks = superblock.totalBlocks
       /\ superblock'.maxInodes = superblock.maxInodes
  <2>1. CASE Counting
    <3>1. superblock \in Superblock
      BY <1>11, <2>1
    <3>2. superblock' = [s EXCEPT !.freeBlocks = @ - (need - own)]
      BY <1>3, <2>1 DEF Less
    <3>3. \/ s = superblock
          \/ s = [superblock EXCEPT !.freeInodes = @ - 1]
      BY <1>10a, <2>1 DEF Less
    <3> QED
      BY <3>1, <3>2, <3>3 DEF Superblock
  <2>2. CASE ~Counting
    BY <1>12, <2>2
  <2> QED
    BY <2>1, <2>2
<1>15. VolumeType'
  <2>1. nextInode' \in Nat /\ i < nextInode' /\ nextInode <= nextInode'
    BY <1>1 DEF VolumeType
  <2>2. DOMAIN files' \subseteq 0 .. nextInode' - 1
    BY <1>1, <1>3, <2>1 DEF VolumeType
  <2>3. \A j \in DOMAIN files' : files'[j] \in File
    BY <1>1, <1>3, <1>5 DEF VolumeType
  <2>4. usedDataBlocks' \in Int
    BY <1>1, <1>2, <1>3 DEF VolumeType
  <2>5. \/ superblock' \in Superblock
        \/ superblock' = superblock
    BY <1>11, <1>12 DEF Superblock
  <2> QED
    BY <1>1, <2>1, <2>2, <2>3, <2>4, <2>5 DEF VolumeType
<1>16. Limited'
  BY <1>1, <1>3, <1>4, <1>5, <1>6 DEF Limited
<1>17. Cardinality(Pointer') = Cardinality(Pointer) - own + need
  <2>1. Pointer = PointersOf(files) /\ IsFiniteSet(PointersOf(files))
    BY <1>1, PointersFinite
  <2>2. Pointer' = PointersOf(files')
    BY <1>15, <1>16, PointersFinite DEF Pointer, PointersOf
  <2>3. Changed(files, files', i, own, need)
    <3>1. DOMAIN files' = DOMAIN files \cup {i}
      BY <1>3
    <3>2. \A j \in DOMAIN files \ {i} : files'[j].blocks = files[j].blocks
      BY <1>3
    <3>3. DOMAIN files'[i].blocks = 1 .. need
      BY <1>3, <1>4, <1>5
    <3>4. /\ i \in DOMAIN files => DOMAIN files[i].blocks = 1 .. own
          /\ i \notin DOMAIN files => own = 0
      BY <1>7, <1>9
    <3> QED
      BY <2>1, <3>1, <3>2, <3>3, <3>4 DEF Changed
  <2>4. Cardinality(PointersOf(files')) = Cardinality(PointersOf(files)) - own + need
    BY <1>2, <2>3, RowChange
  <2> QED
    BY <2>1, <2>2, <2>4
<1>18. Cardinality(DOMAIN files') = Cardinality(DOMAIN files) + new
  <2>1. IsFiniteSet(DOMAIN files)
    BY <1>1, PointersFinite
  <2>2. Cardinality(DOMAIN files) \in Nat
    BY <2>1, FS_CardinalityType
  <2>3. DOMAIN files' = DOMAIN files \cup {i}
    BY <1>3
  <2>4. CASE new = 0
    <3>1. DOMAIN files' = DOMAIN files
      BY <1>10a, <2>3, <2>4
    <3>2. Cardinality(DOMAIN files') = Cardinality(DOMAIN files)
      BY <3>1
    <3> QED
      BY <2>2, <2>4, <3>2
  <2>5. CASE new = 1
    BY <1>10a, <2>1, <2>3, <2>5, FS_AddElement
  <2> QED
    BY <1>10a, <2>4, <2>5
<1>19. CountsAgree'
  <2>1. usedDataBlocks' = Cardinality(Pointer')
    BY <1>1, <1>3, <1>17 DEF CountsAgree
  <2>2. ASSUME Counting
        PROVE  /\ superblock'.freeInodes = superblock'.maxInodes - Cardinality(DOMAIN files')
               /\ superblock'.freeBlocks
                    = superblock'.totalBlocks - superblock'.dataStart - usedDataBlocks'
    <3>1. /\ superblock \in Superblock
          /\ superblock'.freeInodes = superblock.freeInodes - new
          /\ superblock'.freeBlocks = superblock.freeBlocks - (need - own)
      BY <1>11, <2>2
    <3>2. /\ superblock.freeInodes = superblock.maxInodes - Cardinality(DOMAIN files)
          /\ superblock.freeBlocks
               = superblock.totalBlocks - superblock.dataStart - usedDataBlocks
      BY <1>1, <2>2 DEF CountsAgree, dataBlocks
    <3>3. Cardinality(DOMAIN files) \in Nat /\ usedDataBlocks \in Int /\ new \in Nat
      BY <1>1, PointersFinite, FS_CardinalityType DEF VolumeType, new
    <3>4. /\ superblock.maxInodes \in Nat /\ superblock.totalBlocks \in Nat
          /\ superblock.dataStart \in Nat
      BY <3>1 DEF Superblock
    <3>5. superblock.maxInodes - Cardinality(DOMAIN files) - new
            = superblock.maxInodes - (Cardinality(DOMAIN files) + new)
      BY <3>3, <3>4
    <3>6. superblock'.freeInodes = superblock'.maxInodes - Cardinality(DOMAIN files')
      BY <1>14, <1>18, <3>1, <3>2, <3>5
    <3>7. superblock.totalBlocks - superblock.dataStart - usedDataBlocks - (need - own)
            = superblock.totalBlocks - superblock.dataStart - (usedDataBlocks - own + need)
      BY <1>2, <3>3, <3>4
    <3>8. superblock'.freeBlocks
            = superblock'.totalBlocks - superblock'.dataStart - usedDataBlocks'
      BY <1>3, <1>14, <3>1, <3>2, <3>7
    <3> QED
      BY <3>6, <3>8
  <2> QED
    BY <1>13, <2>1, <2>2 DEF CountsAgree, dataBlocks
<1>20. PointersInRange'
  <2>1. SUFFICES ASSUME Counting, NEW j \in DOMAIN files', NEW k \in DOMAIN files'[j].blocks
                 PROVE  /\ superblock.dataStart <= files'[j].blocks[k]
                        /\ files'[j].blocks[k] < superblock.totalBlocks
    BY <1>13, <1>14 DEF PointersInRange, Pointer, BlockAt, InDataRange
  <2>2. CASE j = i
    <3>1. k \in 1 .. need /\ files'[j].blocks[k]
                               = superblock.dataStart + usedDataBlocks - own + k - 1
      BY <1>3, <1>4, <1>5, <2>1, <2>2
    <3>2. superblock.freeBlocks = superblock.totalBlocks - superblock.dataStart - usedDataBlocks
      BY <1>1, <2>1 DEF CountsAgree, dataBlocks
    <3>3. superblock \in Superblock /\ need <= superblock.freeBlocks + own
      BY <1>6, <1>11, <2>1
    <3>4. /\ superblock.totalBlocks \in Nat /\ superblock.dataStart \in Nat
          /\ superblock.freeBlocks \in Nat /\ usedDataBlocks \in Int
      BY <1>1, <3>3 DEF Superblock, VolumeType
    <3> DEFINE start == superblock.dataStart
               total == superblock.totalBlocks
               free  == superblock.freeBlocks
               used  == usedDataBlocks
    <3>5. /\ own \in Nat /\ need \in Nat /\ k \in Nat /\ 1 <= k /\ k <= need
          /\ free = total - start - used /\ need <= free + own /\ own <= used
          /\ total \in Nat /\ start \in Nat /\ free \in Nat /\ used \in Int
      BY <1>2, <1>10, <3>1, <3>2, <3>3, <3>4
    <3> HIDE DEF start, total, free, used
    <3>6. start <= start + used - own + k - 1 /\ start + used - own + k - 1 < total
      BY <3>5, NumberBound
    <3> QED
      BY <3>1, <3>6 DEF start, total, used
  <2>3. CASE j # i
    <3>1. j \in DOMAIN files /\ files'[j] = files[j]
      BY <1>3, <2>3
    <3>2. <<j, k>> \in Pointer /\ BlockAt(<<j, k>>) = files[j].blocks[k]
      BY <2>1, <3>1 DEF Pointer, BlockAt
    <3> QED
      BY <1>1, <2>1, <3>1, <3>2 DEF PointersInRange, InDataRange
  <2> QED
    BY <2>2, <2>3
<1>21. NamesUnique'
  BY <1>1, <1>3, <1>5 DEF NamesUnique
<1>22. EnoughBlocks'
  <2>1. SUFFICES ASSUME superblock.blockSize # NaN, NEW j \in DOMAIN files'
                 PROVE  LET len == Len(files'[j].content)
                        IN  \/ Len(files'[j].blocks) = CeilDiv(len, superblock.blockSize)
                            \/ len = 0 /\ Len(files'[j].blocks) = 1
    BY <1>14 DEF EnoughBlocks
  <2>2. CASE j = i
    BY <1>1, <1>2, <1>3, <1>4, <1>5, <2>1, <2>2, NeededType DEF need
  <2>3. CASE j # i
    BY <1>1, <1>3, <2>1, <2>3 DEF EnoughBlocks
  <2> QED
    BY <2>2, <2>3
<1>23. Regions'
  BY <1>1, <1>13, <1>14 DEF Regions
<1> QED
  BY <1>15, <1>16, <1>19, <1>20, <1>21, <1>22, <1>23 DEF VolumeInv

\* A command that replaces a content by text keeps the volume sound.
LEMMA ReplaceInv ==
  ASSUME VolumeInv, NEW cmd, NEW n, NEW fit, NEW text,
         \A i \in DOMAIN files : text[i] \in Seq(Char),
         Replace(cmd, n, fit, text)
  PROVE  VolumeInv'
<1>1. CASE UNCHANGED FS
  BY <1>1, SameInv
<1>2. ASSUME NEW i \in DOMAIN files,
             ~FitsNot(Len(text[i]), Len(files[i].blocks)),
             Store(i, files[i], text[i], superblock),
             UNCHANGED <<formatted, nextInode>>
      PROVE  VolumeInv'
  <2>1. i \in Nat /\ files[i] \in File
    BY DEF VolumeInv, VolumeType
  <2>2. \A j \in DOMAIN files \ {i} : files[j].name # files[i].name
    BY DEF VolumeInv, NamesUnique
  <2> QED
    BY <1>2, <2>1, <2>2, StoreInv
<1> QED
  BY <1>1, <1>2 DEF Replace, Refuse

LEMMA CopyInv ==
  ASSUME VolumeInv, NEW src, NEW dst \in AnyName, Copy(src, dst)
  PROVE  VolumeInv'
<1>1. CASE UNCHANGED FS
  BY <1>1, SameInv
<1>2. ASSUME NEW i \in DOMAIN files, Holders(dst) = {}, ~NoInodeLeft,
             nextInode' = nextInode + 1, UNCHANGED formatted,
             \/ /\ files' = With(nextInode, NewFile(dst, files[i].perm))
                /\ superblock' = [superblock EXCEPT !.freeInodes = Less(@, 1)]
                /\ UNCHANGED usedDataBlocks
             \/ /\ ~FitsNot(Len(files[i].content), 0)
                /\ Store(nextInode, NewFile(dst, files[i].perm), files[i].content,
                         [superblock EXCEPT !.freeInodes = Less(@, 1)])
             \/ UNCHANGED <<superblock, files, usedDataBlocks>>
      PROVE  VolumeInv'
  <2> DEFINE f == NewFile(dst, files[i].perm)
             s == [superblock EXCEPT !.freeInodes = Less(@, 1)]
  <2>1. files[i] \in File
    BY DEF VolumeInv, VolumeType
  <2>2. files[i].perm \in Perm /\ files[i].content \in Seq(Char)
    BY <2>1 DEF File
  <2>3. CASE files' = With(nextInode, f) /\ superblock' = s /\ UNCHANGED usedDataBlocks
    BY <1>2, <2>2, <2>3, AddInv
  <2>4. CASE ~FitsNot(Len(files[i].content), 0) /\ Store(nextInode, f, files[i].content, s)
    <3>1. f \in File /\ f.blocks = <<>> /\ f.name = dst /\ Len(f.blocks) = 0
      BY <2>2 DEF NewFile, File
    <3>2. \A j \in DOMAIN files \ {nextInode} : files[j].name # f.name
      BY <1>2, <3>1 DEF Holders
    <3>3. nextInode \in Nat
      BY DEF VolumeInv, VolumeType
    <3>4. ~FitsNot(Len(files[i].content), Len(f.blocks))
      BY <2>4, <3>1
    <3> HIDE DEF f
    <3> QED
      BY <1>2, <2>2, <2>4, <3>1, <3>2, <3>3, <3>4, StoreInv DEF s
  <2>5. CASE UNCHANGED <<superblock, files, usedDataBlocks>>
    <3>1. VolumeType'
      BY <1>2, <2>5 DEF VolumeInv, VolumeType, Blank
    <3>2. /\ Regions' /\ Limited' /\ CountsAgree' /\ PointersInRange'
          /\ NamesUnique' /\ EnoughBlocks'
      BY <1>2, <2>5 DEF VolumeInv, Regions, Limited, CountsAgree, PointersInRange, NamesUnique,
                        EnoughBlocks, Counting, dataBlocks, Pointer, BlockAt, InDataRange
    <3> QED
      BY <3>1, <3>2 DEF VolumeInv
  <2> QED
    BY <1>2, <2>3, <2>4, <2>5
<1> QED
  BY <1>1, <1>2 DEF Copy, Refuse

\* A format lays out a volume that is sound, or leaves NaN in every counter.
LEMMA FormatInv ==
  ASSUME VolumeInv, NEW size \in Int \cup {NaN}, NEW block \in Int \cup {NaN},
         Format(size, block)
  PROVE  VolumeInv'
<1>1. CASE UNCHANGED FS
  BY <1>1, SameInv
<1>2. ASSUME ~MustRefuse(size, block), formatted' = TRUE,
             superblock' = NewSuperblock(size, block), files' = NoFiles,
             nextInode' = 0, usedDataBlocks' = 0
      PROVE  VolumeInv'
  <2>1. CASE size # NaN /\ block # NaN
    <3> DEFINE geo == Geometry(size \div block, block)
    <3>1. size \in Nat /\ block \in Nat /\ Acceptable(size, block)
      <4>1. size \in Int /\ block \in Int /\ Acceptable(size, block)
        BY <1>2, <2>1 DEF MustRefuse
      <4> QED
        BY <4>1, AcceptableNumbers
    <3>2. /\ 0 < geo.bitmapStart /\ geo.bitmapStart < geo.inodeStart
          /\ geo.inodeStart < geo.dataStart /\ geo.dataStart < geo.totalBlocks
          /\ geo.maxInodes \in Nat \ {0}
      BY <3>1, LayoutSound
    <3>3. /\ geo.bitmapStart = 1 /\ geo.inodeStart \in Int /\ geo.dataStart \in Int
          /\ geo.totalBlocks = size \div block /\ block \in Nat \ {0}
      <4>1. block \in Nat \ {0} /\ block * 8 \in Nat \ {0}
        BY <3>1, LayoutAssumption DEF LayoutAssumption, Acceptable
      <4>2. size \div block \in Int
        BY <3>1, <4>1
      <4>3. CeilDiv(size \div block, block * 8) \in Int
        BY <4>1, <4>2 DEF CeilDiv
      <4>4. AtLeastOne(CeilDiv(size \div block, block * 8)) \in Int
            /\ AtLeastOne((size \div block) \div 10) \in Int
        BY <4>2, <4>3 DEF AtLeastOne
      <4> QED
        BY <4>1, <4>4 DEF Geometry
    <3>4. size \div block \in Int
      BY <3>1, <3>3
    <3> HIDE DEF geo
    <3>5. superblock' = Numbered(block, geo, geo.totalBlocks - geo.dataStart)
      BY <1>2, <2>1 DEF NewSuperblock, geo
    <3>6. superblock' \in Superblock
      BY <3>2, <3>3, <3>4, <3>5 DEF Numbered, Superblock
    <3>7. /\ superblock'.bitmapStart = 1 /\ 1 < superblock'.inodeStart
          /\ superblock'.inodeStart < superblock'.dataStart
          /\ superblock'.freeInodes = superblock'.maxInodes
          /\ superblock'.freeBlocks = superblock'.totalBlocks - superblock'.dataStart
      BY <3>2, <3>3, <3>5 DEF Numbered
    <3> QED
      BY <1>2, <3>6, <3>7, EmptyInv
  <2>2. CASE ~(size # NaN /\ block # NaN)
    <3>1. superblock' = Blank(block)
      BY <1>2, <2>2 DEF NewSuperblock
    <3>2. block \in (Nat \ {0}) \cup {NaN}
      BY <1>2, WebAssumption, LayoutAssumption DEF WebAssumption, LayoutAssumption, MustRefuse
    <3>3. superblock'.blockSize = block
      BY <3>1 DEF Blank
    <3> QED
      BY <1>2, <3>1, <3>2, <3>3, EmptyInv
  <2> QED
    BY <2>1, <2>2
<1> QED
  BY <1>1, <1>2 DEF Format, Refuse

-----------------------------------------------------------------------------
(* The invariant holds.                                                    *)

LEMMA InitInv == Init => VolumeInv
<1> SUFFICES ASSUME Init PROVE VolumeInv
  OBVIOUS
<1>1. DOMAIN files = {} /\ superblock = Blank(NaN)
  BY DEF Init, NoFiles
<1>2. Pointer = {} /\ ~Counting
  BY <1>1 DEF Pointer, Counting, Blank
<1>3. Cardinality(Pointer) = 0
  BY <1>2, FS_EmptySet
<1>4. superblock.blockSize = NaN
  BY <1>1 DEF Blank
<1>5. VolumeType
  <2>1. superblock = Blank(superblock.blockSize) /\ superblock.blockSize \in (Nat \ {0}) \cup {NaN}
    BY <1>1, <1>4
  <2>2. formatted \in BOOLEAN
    BY DEF Init
  <2>3. nextInode \in Nat /\ usedDataBlocks \in Int
    BY DEF Init
  <2>4. /\ DOMAIN files \subseteq 0 .. nextInode - 1
        /\ \A i \in DOMAIN files : files[i] \in File
    BY <1>1
  <2> QED
    BY <2>1, <2>2, <2>3, <2>4 DEF VolumeType
<1> QED
  BY <1>1, <1>2, <1>3, <1>5
     DEF Init, VolumeInv, Regions, Limited, CountsAgree, PointersInRange, NamesUnique,
         EnoughBlocks

LEMMA KeptType ==
  ASSUME NEW len \in Nat, NEW cut \in Int \cup {NaN}
  PROVE  Kept(len, cut) \in 0 .. len
BY WebAssumption DEF WebAssumption, Kept

\* One file's name or bits.
LEMMA RenameInv ==
  ASSUME VolumeInv, NEW old, NEW new \in AnyName, Rename(old, new)
  PROVE  VolumeInv'
<1>1. CASE UNCHANGED FS
  BY <1>1, SameInv
<1>2. ASSUME NEW i \in DOMAIN files, Holders(new) = {},
             files' = [files EXCEPT ![i].name = new],
             UNCHANGED <<formatted, superblock, nextInode, usedDataBlocks>>
      PROVE  VolumeInv'
  <2> DEFINE f == [files[i] EXCEPT !.name = new]
  <2>1. files[i] \in File
    BY DEF VolumeInv, VolumeType
  <2>2. /\ f \in File /\ f.content = files[i].content /\ f.blocks = files[i].blocks
        /\ f.name = new
    BY <2>1 DEF File
  <2>3. files' = [files EXCEPT ![i] = f]
    BY <1>2
  <2>4. \A j \in DOMAIN files \ {i} : files[j].name # f.name
    BY <1>2, <2>2 DEF Holders
  <2> HIDE DEF f
  <2> QED
    BY <1>2, <2>2, <2>3, <2>4, TouchInv
<1> QED
  BY <1>1, <1>2 DEF Rename, Refuse

LEMMA ChmodInv ==
  ASSUME VolumeInv, NEW n, NEW perm \in Perm, Chmod(n, perm)
  PROVE  VolumeInv'
<1>1. CASE UNCHANGED FS
  BY <1>1, SameInv
<1>2. ASSUME NEW i \in DOMAIN files,
             files' = [files EXCEPT ![i].perm = perm],
             UNCHANGED <<formatted, superblock, nextInode, usedDataBlocks>>
      PROVE  VolumeInv'
  <2> DEFINE f == [files[i] EXCEPT !.perm = perm]
  <2>1. files[i] \in File
    BY DEF VolumeInv, VolumeType
  <2>2. /\ f \in File /\ f.content = files[i].content /\ f.blocks = files[i].blocks
        /\ f.name = files[i].name
    BY <2>1 DEF File
  <2>3. files' = [files EXCEPT ![i] = f]
    BY <1>2
  <2>4. \A j \in DOMAIN files \ {i} : files[j].name # f.name
    BY <2>2 DEF VolumeInv, NamesUnique
  <2> HIDE DEF f
  <2> QED
    BY <1>2, <2>2, <2>3, <2>4, TouchInv
<1> QED
  BY <1>1, <1>2 DEF Chmod, Refuse

LEMMA CreateInv ==
  ASSUME VolumeInv, NEW n \in AnyName, Create(n)
  PROVE  VolumeInv'
<1>1. CASE UNCHANGED FS
  BY <1>1, SameInv
<1>2. ASSUME ~MayNotCreate(n),
             nextInode' = nextInode + 1,
             files' = With(nextInode, NewFile(n, DefaultPerm)),
             superblock' = [superblock EXCEPT !.freeInodes = Less(@, 1)],
             UNCHANGED <<formatted, usedDataBlocks>>
      PROVE  VolumeInv'
  <2>1. ~NoInodeLeft /\ Holders(n) = {}
    BY <1>2 DEF MayNotCreate
  <2>2. DefaultPerm \in Perm
    BY WebAssumption DEF WebAssumption
  <2> QED
    BY <1>2, <2>1, <2>2, AddInv
<1> QED
  BY <1>1, <1>2 DEF Create, Refuse

\* The commands that store content.
LEMMA ContentType ==
  ASSUME VolumeInv, NEW i \in DOMAIN files
  PROVE  files[i].content \in Seq(Char) /\ Len(files[i].content) \in Nat
BY DEF VolumeInv, VolumeType, File

LEMMA WriteInv ==
  ASSUME VolumeInv, NEW n, NEW text \in Seq(Char), Write(n, text)
  PROVE  VolumeInv'
BY ReplaceInv DEF Write

LEMMA AppendInv ==
  ASSUME VolumeInv, NEW n, NEW text \in Seq(Char), AppendTo(n, text)
  PROVE  VolumeInv'
<1>1. \A i \in DOMAIN files : [j \in DOMAIN files |-> files[j].content \o text][i] \in Seq(Char)
  BY ContentType
<1> QED
  BY <1>1, ReplaceInv DEF AppendTo

LEMMA TruncateInv ==
  ASSUME VolumeInv, NEW n, NEW cut \in Int \cup {NaN}, Truncate(n, cut)
  PROVE  VolumeInv'
<1> DEFINE text == [i \in DOMAIN files |->
                      SubSeq(files[i].content, 1, Kept(Len(files[i].content), cut))]
<1>1. \A i \in DOMAIN files : text[i] \in Seq(Char)
  <2>1. SUFFICES ASSUME NEW i \in DOMAIN files
                 PROVE  SubSeq(files[i].content, 1, Kept(Len(files[i].content), cut))
                          \in Seq(Char)
    OBVIOUS
  <2>2. files[i].content \in Seq(Char) /\ Len(files[i].content) \in Nat
    BY ContentType
  <2>3. Kept(Len(files[i].content), cut) \in 0 .. Len(files[i].content)
    BY <2>2, KeptType
  <2> QED
    BY <2>2, <2>3
<1> HIDE DEF text
<1> QED
  BY <1>1, ReplaceInv DEF Truncate, text

\* Every command without a content of its own or a number.
LEMMA LookInv ==
  ASSUME VolumeInv, NEW n, Read(n) \/ Stat(n) \/ Ls \/ Statfs \/ Fsck
  PROVE  VolumeInv'
BY SameInv DEF Read, Stat, Ask, Ls, Statfs, Fsck, AskVolume, Refuse

LEMMA ResetInv ==
  ASSUME VolumeInv, Reset
  PROVE  VolumeInv'
<1>1. superblock'.blockSize = NaN
  BY DEF Reset, Blank
<1> QED
  BY <1>1, EmptyInv DEF Reset

LEMMA NextInv ==
  ASSUME VolumeInv, [Next]_vars
  PROVE  VolumeInv'
<1>1. CASE UNCHANGED vars
  BY <1>1, SameInv DEF vars, FS
<1>2. ASSUME NEW size \in SizeArg, NEW block \in BlockArg, Format(size, block)
      PROVE  VolumeInv'
  BY <1>2, FormatInv, WebAssumption DEF WebAssumption
<1>3. ASSUME NEW n \in AnyName, Create(n) \/ Delete(n) \/ Read(n) \/ Stat(n)
      PROVE  VolumeInv'
  BY <1>3, CreateInv, DeleteInv, LookInv
<1>4. ASSUME NEW n \in AnyName, NEW m \in AnyName, Rename(n, m) \/ Copy(n, m)
      PROVE  VolumeInv'
  BY <1>4, RenameInv, CopyInv
<1>5. ASSUME NEW n \in AnyName, NEW perm \in Perm, Chmod(n, perm)
      PROVE  VolumeInv'
  BY <1>5, ChmodInv
<1>6. ASSUME NEW n \in AnyName, NEW text \in Text, Write(n, text) \/ AppendTo(n, text)
      PROVE  VolumeInv'
  BY <1>6, WriteInv, AppendInv, WebAssumption DEF WebAssumption
<1>7. ASSUME NEW n \in AnyName, NEW cut \in CutArg, Truncate(n, cut)
      PROVE  VolumeInv'
  BY <1>7, TruncateInv, WebAssumption DEF WebAssumption
<1>8. CASE Ls \/ Statfs \/ Fsck
  BY <1>8, LookInv
<1>9. CASE Reset
  BY <1>9, ResetInv
<1> QED
  BY <1>1, <1>2, <1>3, <1>4, <1>5, <1>6, <1>7, <1>8, <1>9 DEF Next, Command

\* The inductive invariant: types, counters, pointers, names, blocks and the
\* map together survive every command on a volume of any size, and none of
\* them does alone.
THEOREM VolumeInvariant == Spec => []VolumeInv
<1>1. VolumeInv /\ [Next]_vars => VolumeInv'
  BY NextInv
<1> QED
  BY <1>1, InitInv, PTL DEF Spec

-----------------------------------------------------------------------------
(* What the commands answer.                                               *)

Answer == Char \cup Perm \cup Nat \cup {NaN}

LEMMA ReplyOk ==
  ASSUME NEW cmd \in CommandName, NEW out \in Seq(Answer), Ok(cmd, out)
  PROVE  reply' \in Reply
BY DEF Ok, Reply, Answer

LEMMA ReplyError ==
  ASSUME NEW cmd \in CommandName, Error(cmd)
  PROVE  reply' \in Reply
BY DEF Error, Reply

LEMMA NextReply ==
  ASSUME VolumeInv, reply \in Reply, [Next]_vars
  PROVE  reply' \in Reply
<1>0. <<>> \in Seq(Answer)
  OBVIOUS
<1>1. ASSUME NEW i \in DOMAIN files
      PROVE  files[i].content \in Seq(Answer) /\ Len(files[i].content) \in Nat
             /\ Len(files[i].blocks) \in Nat /\ files[i].perm \in Perm
  <2>1. files[i].content \in Seq(Char) /\ Len(files[i].blocks) \in Nat /\ files[i].perm \in Perm
    BY DEF VolumeInv, VolumeType, File
  <2>2. \A s \in Seq(Char) : s \in Seq(Answer) /\ Len(s) \in Nat
    BY DEF Answer
  <2> QED
    BY <2>1, <2>2
<1>2. ASSUME NEW cmd \in CommandName, NEW n, NEW answer, Ask(cmd, n, answer),
             \A i \in DOMAIN files : answer[i] \in Seq(Answer)
      PROVE  reply' \in Reply
  BY <1>2, ReplyOk, ReplyError DEF Ask, Refuse
<1>3. ASSUME NEW cmd \in CommandName, NEW answer \in Seq(Answer), AskVolume(cmd, answer)
      PROVE  reply' \in Reply
  BY <1>3, ReplyOk, ReplyError DEF AskVolume, Refuse
<1>4. ASSUME NEW cmd \in CommandName, NEW n, NEW fit, NEW text, Replace(cmd, n, fit, text)
      PROVE  reply' \in Reply
  BY <1>0, <1>4, ReplyOk, ReplyError DEF Replace, Refuse
<1>5. CASE UNCHANGED vars
  BY <1>5 DEF vars
<1>6. ASSUME NEW size \in SizeArg, NEW block \in BlockArg, Format(size, block)
      PROVE  reply' \in Reply
  BY <1>0, <1>6, ReplyOk, ReplyError DEF Format, Refuse, CommandName
<1>7. ASSUME NEW n \in AnyName, Create(n) \/ Delete(n)
      PROVE  reply' \in Reply
  BY <1>0, <1>7, ReplyOk, ReplyError DEF Create, Delete, Refuse, CommandName
<1>8. ASSUME NEW n \in AnyName, Read(n)
      PROVE  reply' \in Reply
  BY <1>1, <1>2, <1>8 DEF Read, CommandName
<1>9. ASSUME NEW n \in AnyName, Stat(n)
      PROVE  reply' \in Reply
  <2> DEFINE answer == [i \in DOMAIN files |-> <<Len(files[i].content),
                                                Len(files[i].blocks), files[i].perm>>]
  <2>1. \A i \in DOMAIN files : answer[i] \in Seq(Answer)
    BY <1>1 DEF Answer
  <2>2. Ask("stat", n, answer)
    BY <1>9 DEF Stat
  <2>3. "stat" \in CommandName
    BY DEF CommandName
  <2> HIDE DEF answer
  <2> QED
    BY <1>2, <2>1, <2>2, <2>3
<1>10. ASSUME NEW n \in AnyName, NEW m \in AnyName, Rename(n, m) \/ Copy(n, m)
       PROVE  reply' \in Reply
  BY <1>0, <1>10, ReplyOk, ReplyError DEF Rename, Copy, Refuse, CommandName
<1>11. ASSUME NEW n \in AnyName, NEW perm \in Perm, Chmod(n, perm)
       PROVE  reply' \in Reply
  BY <1>0, <1>11, ReplyOk, ReplyError DEF Chmod, Refuse, CommandName
<1>12. ASSUME NEW n \in AnyName, NEW text \in Text, Write(n, text) \/ AppendTo(n, text)
       PROVE  reply' \in Reply
  BY <1>4, <1>12 DEF Write, AppendTo, CommandName
<1>13. ASSUME NEW n \in AnyName, NEW cut \in CutArg, Truncate(n, cut)
       PROVE  reply' \in Reply
  BY <1>4, <1>13 DEF Truncate, CommandName
<1>14. CASE Ls
  <2>1. Cardinality(DOMAIN files) \in Nat
    BY PointersFinite, FS_CardinalityType DEF VolumeInv
  <2>2. <<Cardinality(DOMAIN files)>> \in Seq(Answer)
    BY <2>1 DEF Answer
  <2> QED
    BY <1>3, <1>14, <2>2 DEF Ls, CommandName
<1>15. CASE Statfs
  <2>1. superblock.freeBlocks \in Nat \cup {NaN} /\ superblock.freeInodes \in Nat \cup {NaN}
    <3>1. CASE Counting
      BY <3>1, Counted DEF VolumeInv, Superblock
    <3>2. CASE ~Counting
      BY <3>2, Counted DEF VolumeInv, Blank
    <3> QED
      BY <3>1, <3>2
  <2>2. <<superblock.freeBlocks, superblock.freeInodes>> \in Seq(Answer)
    BY <2>1 DEF Answer
  <2> QED
    BY <1>3, <1>15, <2>2 DEF Statfs, CommandName
<1>16. CASE Fsck
  BY <1>0, <1>16, ReplyOk, ReplyError DEF Fsck, Refuse, CommandName
<1>17. CASE Reset
  BY <1>17, ReplyError DEF Reset, CommandName
<1> QED
  BY <1>5, <1>6, <1>7, <1>8, <1>9, <1>10, <1>11, <1>12, <1>13, <1>14, <1>15, <1>16, <1>17
     DEF Next, Command

-----------------------------------------------------------------------------
(* The properties.                                                         *)

\* Every variable of the page's volume has its type: in particular the free
\* blocks and the free inodes of the superblock, which the commands add to and
\* take from by hand, never go below zero.
THEOREM TypeCorrect == Spec => []TypeOK
<1>1. Init => reply \in Reply
  BY <1>1 DEF Init, Reply, CommandName
<1>2. VolumeInv /\ reply \in Reply /\ [Next]_vars => (reply \in Reply)'
  BY NextReply
<1>3. VolumeInv /\ reply \in Reply => TypeOK
  BY TypeParts DEF VolumeInv
<1>4. Spec => [](reply \in Reply)
  BY <1>1, <1>2, VolumeInvariant, PTL DEF Spec
<1> QED
  BY <1>3, <1>4, VolumeInvariant, PTL

\* The counters of the superblock agree with the files after every command,
\* whatever the sizes, the names and the contents: the two counts of fsck
\* never fail.
THEOREM CountsRight == Spec => []CountsAgree
<1>1. VolumeInv => CountsAgree
  BY DEF VolumeInv
<1> QED
  BY <1>1, VolumeInvariant, PTL

\* The numbers _doWrite makes up for blocks are in the data region.
THEOREM PointersRight == Spec => []PointersInRange
<1>1. VolumeInv => PointersInRange
  BY DEF VolumeInv
<1> QED
  BY <1>1, VolumeInvariant, PTL

\* No two files get the same name, by create, rename or cp.
THEOREM NamesRight == Spec => []NamesUnique
<1>1. VolumeInv => NamesUnique
  BY DEF VolumeInv
<1> QED
  BY <1>1, VolumeInvariant, PTL

\* Write, append, truncate and cp give a file as many blocks as its content
\* needs.
THEOREM BlocksRight == Spec => []EnoughBlocks
<1>1. VolumeInv => EnoughBlocks
  BY DEF VolumeInv
<1> QED
  BY <1>1, VolumeInvariant, PTL

\* The multiples of r below a are those of the numbers below a / r rounded up.
LEMMA CeilDivMultiples ==
  ASSUME NEW a \in Nat, NEW r \in Nat \ {0}
  PROVE  /\ CeilDiv(a, r) \in Nat
         /\ a <= CeilDiv(a, r) * r /\ CeilDiv(a, r) * r < a + r
         /\ \A i \in Nat : i * r < a <=> i < CeilDiv(a, r)
<1> DEFINE q == CeilDiv(a, r)
<1>1. q \in Nat /\ a <= q * r
  BY CeilDivBound
<1>2. ((a + r - 1) \div r) * r <= a + r - 1
  OBVIOUS
<1>3. q * r < a + r
  <2>1. q * r <= a + r - 1
    BY <1>2 DEF CeilDiv
  <2>2. q * r \in Int
    BY <1>1
  <2> HIDE DEF q
  <2> QED
    BY <2>1, <2>2
<1> HIDE DEF q
<1>4. ASSUME NEW i \in Nat
      PROVE  i * r < a <=> i < q
  <2>1. CASE i < q
    <3>1. (i + 1) * r <= q * r
      BY <1>1, <2>1
    <3>2. (i + 1) * r = i * r + r /\ i * r \in Nat
      OBVIOUS
    <3> QED
      BY <1>1, <1>3, <2>1, <3>1, <3>2
  <2>2. CASE q <= i
    <3>1. q * r <= i * r
      BY <1>1, <2>2
    <3> QED
      BY <1>1, <2>2, <3>1
  <2> QED
    BY <1>1, <2>1, <2>2
<1> QED
  BY <1>1, <1>3, <1>4 DEF q

\* How many multiples of r there are from s on within u numbers, to less than
\* one: those of the numbers from s / r to (s + u) / r, both rounded up.
LEMMA MultiplesWithin ==
  ASSUME NEW s \in Nat, NEW u \in Nat, NEW r \in Nat \ {0}, NEW total \in Nat, s + u <= total,
         NEW S, S = {i \in 0 .. CeilDiv(total, r) - 1 : s <= i * r /\ i * r < s + u}
  PROVE  /\ Cardinality(S) \in Nat
         /\ u - r < Cardinality(S) * r /\ Cardinality(S) * r < u + r
<1> DEFINE a == CeilDiv(s, r)
           b == CeilDiv(s + u, r)
           c == CeilDiv(total, r)
<1>1. /\ a \in Nat /\ s <= a * r /\ a * r < s + r
      /\ \A i \in Nat : i * r < s <=> i < a
  BY CeilDivMultiples
<1>2. s + u \in Nat
  OBVIOUS
<1>3. /\ b \in Nat /\ s + u <= b * r /\ b * r < s + u + r
      /\ \A i \in Nat : i * r < s + u <=> i < b
  BY <1>2, CeilDivMultiples
<1>4. c \in Nat /\ \A i \in Nat : i * r < total <=> i < c
  BY CeilDivMultiples
<1>5. S = {i \in 0 .. c - 1 : s <= i * r /\ i * r < s + u}
  OBVIOUS
<1> HIDE DEF a, b, c
<1>6. S = a .. b - 1
  <2>1. ASSUME NEW i \in Nat
        PROVE  /\ i * r \in Nat
               /\ s <= i * r <=> a <= i
               /\ i * r < s + u <=> i < b
    BY <1>1, <1>3
  <2>2. ASSUME NEW i \in Nat, i < b
        PROVE  i < c
    BY <1>4, <2>1, <2>2
  <2>3. \A i : i \in S => i \in a .. b - 1
    BY <1>1, <1>3, <1>4, <1>5, <2>1
  <2>4. \A i : i \in a .. b - 1 => i \in S
    BY <1>1, <1>3, <1>4, <1>5, <2>1, <2>2
  <2> QED
    BY <2>3, <2>4
<1>7. a <= b
  <2> SUFFICES ASSUME b < a PROVE FALSE
    BY <1>1, <1>3
  <2>1. b * r < s
    BY <1>1, <1>3
  <2> QED
    BY <1>3, <2>1
<1>8. Cardinality(S) = b - a
  <2> DEFINE last == b - 1
  <2>1. last \in Int /\ b - a = IF a > last THEN 0 ELSE last - a + 1
    BY <1>1, <1>3, <1>7
  <2>2. Cardinality(a .. last) = IF a > last THEN 0 ELSE last - a + 1
    <3> HIDE DEF last
    <3> QED
      BY <1>1, <2>1, FS_Interval
  <2> QED
    BY <1>6, <2>1, <2>2
<1>9. (b - a) * r = b * r - a * r /\ a * r \in Nat /\ b * r \in Nat
  BY <1>1, <1>3
<1> DEFINE ar == a * r
           br == b * r
<1>10. u - r < br - ar /\ br - ar < u + r
  <2>1. ar \in Nat /\ br \in Nat /\ s <= ar /\ ar < s + r /\ s + u <= br /\ br < s + u + r
    BY <1>1, <1>3, <1>9
  <2> HIDE DEF ar, br
  <2> QED
    BY <2>1
<1> QED
  BY <1>1, <1>3, <1>7, <1>8, <1>9, <1>10

\* The map has a cell for at most DispMax blocks, draws data as data and
\* metadata as metadata, and as a sample of every ratio-th block shows the
\* number of used blocks to less than one cell, for disks and maps of any size.
THEOREM MapRight == Spec => []MapCounts
<1>1. ASSUME VolumeInv, Counting
      PROVE  /\ Cardinality(Cell) <= DispMax
             /\ \A i \in Cell :
                  Drawn(CellBlock(i)) \in {"used", "free"} <=> InDataRange(CellBlock(i))
             /\ Cardinality(Pointer) - ratio < Cardinality(UsedCells) * ratio
             /\ Cardinality(UsedCells) * ratio < Cardinality(Pointer) + ratio
  <2> DEFINE total == superblock.totalBlocks
             start == superblock.dataStart
             table == superblock.inodeStart
             used  == usedDataBlocks
  <2>1. superblock \in Superblock
    BY <1>1, Counted DEF VolumeInv
  <2>2. /\ total \in Nat /\ start \in Nat /\ table \in Nat
        /\ superblock.bitmapStart = 1 /\ 1 < table /\ table < start
    BY <1>1, <2>1 DEF Superblock, VolumeInv, Regions
  <2>3. used = Cardinality(Pointer) /\ used \in Nat
    BY <1>1, PointersFinite, FS_CardinalityType DEF VolumeInv, CountsAgree
  <2>4. superblock.freeBlocks = total - start - used /\ superblock.freeBlocks \in Nat
    BY <1>1, <2>1 DEF VolumeInv, CountsAgree, dataBlocks, Superblock
  <2>5. start + used <= total /\ total > 0
    <3> HIDE DEF total, start, used
    <3> QED
      BY <2>2, <2>3, <2>4
  <2>6. DispMax \in Nat \ {0}
    BY WebAssumption DEF WebAssumption
  <2>7. /\ ratio \in Nat \ {0}
        /\ total <= ratio * DispMax
    <3>1. CeilDiv(total, DispMax) \in Nat /\ total <= CeilDiv(total, DispMax) * DispMax
          /\ CeilDiv(total, DispMax) > 0
      BY <2>2, <2>5, <2>6, CeilDivBound
    <3> QED
      BY <3>1 DEF ratio
  <2> DEFINE cells == CeilDiv(total, ratio)
  <2>8. cells \in Nat /\ (\A i \in Nat : i * ratio < total <=> i < cells) /\ Cell = 0 .. cells - 1
    BY <2>2, <2>7, CeilDivMultiples DEF Cell
  <2>9. Cardinality(Cell) <= DispMax
    <3> HIDE DEF cells, total
    <3>1. cells <= DispMax
      <4> SUFFICES ASSUME DispMax < cells PROVE FALSE
        BY <2>6, <2>8
      <4>1. DispMax * ratio < total
        BY <2>6, <2>8
      <4> QED
        BY <2>2, <2>6, <2>7, <4>1
    <3>2. cells - 1 \in Int /\ cells = IF 0 > cells - 1 THEN 0 ELSE (cells - 1) - 0 + 1
      BY <2>8
    <3> DEFINE last == cells - 1
    <3>3. Cardinality(0 .. last) = IF 0 > last THEN 0 ELSE last - 0 + 1
      <4>1. last \in Int
        BY <3>2
      <4> HIDE DEF last
      <4> QED
        BY <4>1, FS_Interval
    <3> QED
      BY <2>8, <3>1, <3>2, <3>3
  <2>10. \A i \in Cell : i \in Nat /\ CellBlock(i) \in Nat /\ CellBlock(i) < total
                         /\ CellBlock(i) = i * ratio
    BY <2>7, <2>8 DEF CellBlock
  <2>11. ASSUME NEW b \in Nat
         PROVE  /\ b < start => Drawn(b) \in {"superblock", "bitmap", "inodes"}
                /\ start <= b => Drawn(b) = IF b - start < used THEN "used" ELSE "free"
    <3>1. CASE b = 0
      BY <2>2, <3>1 DEF Drawn
    <3>2. CASE b # 0 /\ b < table
      BY <2>2, <3>2 DEF Drawn
    <3>3. CASE b # 0 /\ table <= b /\ b < start
      BY <2>2, <3>3 DEF Drawn
    <3>4. CASE start <= b
      BY <2>2, <3>4 DEF Drawn
    <3> QED
      BY <2>2, <3>1, <3>2, <3>3, <3>4
  <2>12. \A i \in Cell : Drawn(CellBlock(i)) \in {"used", "free"} <=> InDataRange(CellBlock(i))
    BY <2>2, <2>10, <2>11 DEF InDataRange
  <2>13. UsedCells = {i \in 0 .. cells - 1 : start <= i * ratio /\ i * ratio < start + used}
    <3>1. ASSUME NEW i \in Cell
          PROVE  Drawn(CellBlock(i)) = "used"
                   <=> start <= i * ratio /\ i * ratio < start + used
      <4> DEFINE b == i * ratio
      <4>1. b \in Nat /\ CellBlock(i) = b
        BY <2>10
      <4> HIDE DEF b
      <4>2. Drawn(b) = "used" <=> start <= b /\ b - start < used
        BY <2>2, <2>11, <4>1
      <4>3. Drawn(b) = "used" <=> start <= b /\ b < start + used
        BY <2>2, <2>3, <4>1, <4>2
      <4> QED
        BY <4>1, <4>3 DEF b
    <3> QED
      BY <2>8, <3>1 DEF UsedCells
  <2>14. /\ used - ratio < Cardinality(UsedCells) * ratio
         /\ Cardinality(UsedCells) * ratio < used + ratio
    <3> DEFINE S == UsedCells
    <3>1. S = {i \in 0 .. CeilDiv(total, ratio) - 1 : start <= i * ratio /\ i * ratio < start + used}
      BY <2>13
    <3>2. start \in Nat /\ used \in Nat /\ total \in Nat /\ start + used <= total
      BY <2>2, <2>3, <2>5
    <3> HIDE DEF total, start, used, S, cells
    <3>3. used - ratio < Cardinality(S) * ratio /\ Cardinality(S) * ratio < used + ratio
      BY ONLY <2>7, <3>1, <3>2, MultiplesWithin
    <3> QED
      BY <3>3 DEF S
  <2> QED
    BY <2>3, <2>9, <2>12, <2>14
<1>2. VolumeInv => MapCounts
  BY <1>1 DEF MapCounts
<1> QED
  BY <1>2, VolumeInvariant, PTL
=============================================================================
