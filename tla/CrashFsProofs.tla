---------------------------- MODULE CrashFsProofs ----------------------------
(***************************************************************************)
(* What a kill inside a command leaves, for every volume.                  *)
(***************************************************************************)
EXTENDS CrashFs, MiniFsSafetyProofs, SequenceTheorems

-----------------------------------------------------------------------------
(* The disks a command leads through.                                      *)

\* The inode tables that can be on the disk, whatever was cut off before.
GoodTable ==
  {tab \in [InodeId -> Inode] :
     /\ \A i \in InodeId : DOMAIN tab[i].direct = 1 .. Blocks(tab[i].size)
     /\ \A i \in InodeId : BlocksOf(tab[i]) \subseteq DataBlock
     /\ \A i, j \in InodeId :
          /\ tab[i].used /\ tab[j].used
          /\ tab[i].name = tab[j].name /\ tab[i].name # ""
          => i = j}

GoodDisk == [sb: Superblock, bits: SUBSET Block, inode: GoodTable, data: [Block -> Chunk]]

\* A slot that inode_allocate took.
Taken == [ZeroInode EXCEPT !.used = TRUE]

\* The disks while blocks of B are freed.
Freeing(d, B) ==
  {e \in GoodDisk : /\ e.sb = d.sb /\ e.inode = d.inode /\ e.data = d.data
                    /\ d.bits \ B \subseteq e.bits
                    /\ e.bits \subseteq d.bits}

\* The disks while the picked blocks are marked and written.
Filling(d, pick, bytes) ==
  {e \in GoodDisk : /\ e.sb = d.sb /\ e.inode = d.inode
                    /\ d.bits \subseteq e.bits
                    /\ e.bits \subseteq d.bits \cup Image(pick)
                    /\ \A b \in Block :
                         \/ e.data[b] = d.data[b]
                         \/ \E x \in DOMAIN pick :
                              pick[x] = b /\ e.data[b] = ChunkOf(bytes, x)}

\* The disks at the end of a command.
Cleared(d, B)        == [d EXCEPT !.bits = @ \ B]
Named(d, i, ino, s)  == [Slot(d, i, ino) EXCEPT !.sb = s]
Stuffed(d, pick, bytes) ==
  [d EXCEPT !.bits = @ \cup Image(pick),
            !.data = [b \in Block |->
                        IF b \in Image(pick)
                        THEN ChunkOf(bytes, CHOOSE k \in DOMAIN pick : pick[k] = b)
                        ELSE d.data[b]]]

-----------------------------------------------------------------------------
(* Lists of disks.                                                         *)

LEMMA EmptyList ==
  ASSUME NEW S, NEW a \in Seq(S)
  PROVE  a = <<>> <=> Len(a) = 0
OBVIOUS

LEMMA EndIn ==
  ASSUME NEW S, NEW d \in S, NEW a \in Seq(S)
  PROVE  EndOf(d, a) \in S
BY DEF EndOf

LEMMA EndMore ==
  ASSUME NEW S, NEW d, NEW a \in Seq(S), NEW b \in Seq(S)
  PROVE  /\ a \o b \in Seq(S)
         /\ EndOf(d, a \o b) = EndOf(EndOf(d, a), b)
BY DEF EndOf

LEMMA EndTail ==
  ASSUME NEW S, NEW d, NEW a \in Seq(S), a # <<>>
  PROVE  /\ Head(a) \in S /\ Tail(a) \in Seq(S)
         /\ EndOf(Head(a), Tail(a)) = EndOf(d, a)
<1>1. /\ Len(a) \in Nat /\ Len(a) > 0
      /\ Head(a) = a[1] /\ Head(a) \in S
      /\ Tail(a) \in Seq(S) /\ Len(Tail(a)) = Len(a) - 1
      /\ \A k \in 1 .. Len(a) - 1 : Tail(a)[k] = a[k + 1]
  OBVIOUS
<1>a. Tail(a) = <<>> <=> Len(Tail(a)) = 0
  <2> DEFINE t == Tail(a)
  <2>1. t \in Seq(S)
    BY <1>1
  <2> HIDE DEF t
  <2>2. t = <<>> <=> Len(t) = 0
    BY <2>1, EmptyList
  <2> QED
    BY <2>2 DEF t
<1>2. CASE Len(a) = 1
  <2>1. Tail(a) = <<>>
    BY <1>1, <1>2, <1>a
  <2> QED
    BY <1>1, <1>2, <2>1 DEF EndOf
<1>3. CASE Len(a) > 1
  <2>1. Tail(a) # <<>>
    BY <1>1, <1>3, <1>a
  <2>2. Tail(a)[Len(a) - 1] = a[Len(a)]
    <3>1. Len(a) - 1 \in 1 .. Len(a) - 1 /\ (Len(a) - 1) + 1 = Len(a)
      BY <1>1, <1>3
    <3> QED
      BY <1>1, <3>1
  <2> QED
    BY <1>1, <2>1, <2>2 DEF EndOf
<1> QED
  BY <1>1, <1>2, <1>3

LEMMA SeqWider ==
  ASSUME NEW S, NEW T, S \subseteq T, NEW a \in Seq(S)
  PROVE  a \in Seq(T)
OBVIOUS

LEMMA FreedFacts ==
  ASSUME NEW d \in GoodDisk, NEW list \in Seq(Block)
  PROVE  /\ Freed(d, list) \in Seq(Freeing(d, Image(list)))
         /\ EndOf(d, Freed(d, list)) = Cleared(d, Image(list))
<1> DEFINE f == Freed(d, list)
<1>1. Len(list) \in Nat /\ DOMAIN list = 1 .. Len(list)
  OBVIOUS
<1>2. ASSUME NEW k \in 1 .. Len(list)
      PROVE  f[k] \in Freeing(d, Image(list))
  <2>1. f[k] = [d EXCEPT !.bits = @ \ {list[x] : x \in 1 .. k}]
    BY DEF Freed
  <2>2. {list[x] : x \in 1 .. k} \subseteq Image(list)
    BY <1>1 DEF Image
  <2> QED
    BY <2>1, <2>2 DEF Freeing, GoodDisk
<1>3. f = [k \in 1 .. Len(list) |-> f[k]]
  BY DEF Freed
<1> HIDE DEF f
<1>4. f \in Seq(Freeing(d, Image(list))) /\ Len(f) = Len(list)
  BY <1>1, <1>2, <1>3
<1>5. CASE Len(list) = 0
  <2>1. f = <<>> /\ Image(list) = {}
    BY <1>1, <1>4, <1>5 DEF Image
  <2>2. [d EXCEPT !.bits = @ \ {}] = d
    BY DEF GoodDisk
  <2> QED
    BY <1>4, <2>1, <2>2 DEF EndOf, Cleared, f
<1>6. CASE Len(list) > 0
  <2>1. f # <<>>
    BY <1>4, <1>6
  <2>2. f[Len(f)] = [d EXCEPT !.bits = @ \ {list[x] : x \in 1 .. Len(list)}]
    BY <1>1, <1>4, <1>6 DEF Freed, f
  <2> QED
    BY <1>1, <1>4, <2>1, <2>2 DEF EndOf, Cleared, Image, f
<1> QED
  BY <1>1, <1>4, <1>5, <1>6 DEF f

LEMMA FilledOver ==
  ASSUME NEW d \in GoodDisk, NEW n \in Nat, NEW pick \in [1 .. n -> Block],
         NEW bytes \in Seq(Byte \cup {0})
  PROVE  /\ Filled(d, pick, bytes) \in Seq(Filling(d, pick, bytes))
         /\ EndOf(d, Filled(d, pick, bytes)) = Stuffed(d, pick, bytes)
<1> DEFINE f == Filled(d, pick, bytes)
<1>1. Len(pick) = n /\ DOMAIN pick = 1 .. n
  OBVIOUS
<1>2. ASSUME NEW k \in 1 .. 2 * n
      PROVE  f[k] \in Filling(d, pick, bytes)
  <2> DEFINE T == {pick[x] : x \in 1 .. (k + 1) \div 2}
             g == [b \in Block |->
                           IF \E x \in 1 .. k \div 2 : pick[x] = b
                           THEN ChunkOf(bytes, CHOOSE x \in 1 .. k \div 2 : pick[x] = b)
                           ELSE d.data[b]]
  <2>1. f[k] = [d EXCEPT !.bits = @ \cup T, !.data = g]
    BY <1>1 DEF Filled
  <2>2. T \in SUBSET Image(pick)
    <3>1. (k + 1) \div 2 <= n /\ (k + 1) \div 2 \in Nat
      OBVIOUS
    <3> QED
      BY <1>1, <3>1 DEF Image
  <2>3. ASSUME NEW b \in Block
        PROVE  /\ g[b] \in Chunk
               /\ \/ g[b] = d.data[b]
                  \/ \E x \in DOMAIN pick : pick[x] = b /\ g[b] = ChunkOf(bytes, x)
    <3>1. k \div 2 <= n /\ k \div 2 \in Nat
      OBVIOUS
    <3>2. CASE \E x \in 1 .. k \div 2 : pick[x] = b
      <4>1. PICK y \in 1 .. k \div 2 : pick[y] = b /\ y = CHOOSE x \in 1 .. k \div 2 : pick[x] = b
        BY <3>2
      <4>2. g[b] = ChunkOf(bytes, y)
        BY <4>1
      <4>3. y \in DOMAIN pick /\ y \in Nat \ {0}
        BY <1>1, <3>1
      <4> QED
        BY <4>1, <4>2, <4>3, ChunkType
    <3>3. CASE ~\E x \in 1 .. k \div 2 : pick[x] = b
      <4>1. g[b] = d.data[b]
        BY <3>3
      <4> QED
        BY <4>1 DEF GoodDisk
    <3> QED
      BY <3>2, <3>3
  <2>4. g = [b \in Block |-> g[b]]
    OBVIOUS
  <2> HIDE DEF T, g
  <2>5. g \in [Block -> Chunk]
    BY <2>3, <2>4
  <2>6. [d EXCEPT !.bits = @ \cup T, !.data = g] \in GoodDisk
    <3>1. T \subseteq Block
      BY <1>1, <2>2 DEF Image
    <3> QED
      BY <2>5, <3>1 DEF GoodDisk
  <2>7. PICK e : e = [d EXCEPT !.bits = @ \cup T, !.data = g]
    OBVIOUS
  <2>8. /\ e \in GoodDisk
        /\ e.sb = d.sb /\ e.inode = d.inode /\ e.bits = d.bits \cup T /\ e.data = g
    BY <2>6, <2>7 DEF GoodDisk
  <2>9. d.bits \subseteq e.bits /\ e.bits \subseteq d.bits \cup Image(pick)
    BY ONLY <2>2, <2>8
  <2>10. e \in Filling(d, pick, bytes)
    BY <2>3, <2>8, <2>9 DEF Filling
  <2> QED
    BY <2>1, <2>7, <2>10
<1>3. f = [k \in 1 .. 2 * n |-> f[k]]
  BY <1>1 DEF Filled
<1> HIDE DEF f
<1>4. f \in Seq(Filling(d, pick, bytes)) /\ Len(f) = 2 * n
  BY <1>2, <1>3
<1>5. CASE n = 0
  <2>1. f = <<>> /\ Image(pick) = {}
    BY <1>1, <1>4, <1>5 DEF Image
  <2>2. d.data = [b \in Block |-> d.data[b]]
    BY DEF GoodDisk
  <2>3. [d EXCEPT !.bits = @ \cup {}, !.data = d.data] = d
    BY DEF GoodDisk
  <2> QED
    BY <1>4, <2>1, <2>2, <2>3 DEF EndOf, Stuffed, f
<1>6. CASE n > 0
  <2>1. f # <<>>
    BY <1>4, <1>6
  <2>2. (2 * n + 1) \div 2 = n /\ (2 * n) \div 2 = n /\ 2 * n \in 1 .. 2 * n
    BY <1>6
  <2>3. f[2 * n] = [d EXCEPT !.bits = @ \cup {pick[x] : x \in 1 .. n},
                       !.data = [b \in Block |->
                           IF \E x \in 1 .. n : pick[x] = b
                           THEN ChunkOf(bytes, CHOOSE x \in 1 .. n : pick[x] = b)
                           ELSE d.data[b]]]
    BY <1>1, <2>2 DEF Filled, f
  <2>4. \A b : b \in Image(pick) <=> \E x \in 1 .. n : pick[x] = b
    BY <1>1 DEF Image
  <2>5. \A b : (CHOOSE x \in DOMAIN pick : pick[x] = b) = (CHOOSE x \in 1 .. n : pick[x] = b)
    BY <1>1
  <2>6. Image(pick) = {pick[x] : x \in 1 .. n}
    BY <1>1 DEF Image
  <2>7. f[2 * n] = Stuffed(d, pick, bytes)
    BY <2>3, <2>4, <2>5, <2>6 DEF Stuffed
  <2> QED
    BY <1>4, <2>1, <2>7 DEF EndOf, f
<1> QED
  BY <1>5, <1>6

LEMMA FilledFacts ==
  ASSUME NEW d \in GoodDisk, NEW pick \in Seq(Block), NEW bytes \in Seq(Byte \cup {0})
  PROVE  /\ Filled(d, pick, bytes) \in Seq(Filling(d, pick, bytes))
         /\ EndOf(d, Filled(d, pick, bytes)) = Stuffed(d, pick, bytes)
<1>1. Len(pick) \in Nat /\ pick \in [1 .. Len(pick) -> Block]
  OBVIOUS
<1> QED
  BY <1>1, FilledOver

\* The rest of it.
LEMMA StuffedParts ==
  ASSUME NEW d \in GoodDisk, NEW pick, NEW bytes, NEW s, s = Stuffed(d, pick, bytes)
  PROVE  /\ s.sb = d.sb /\ s.inode = d.inode /\ s.bits = d.bits \cup Image(pick)
         /\ s = [sb |-> s.sb, bits |-> s.bits, inode |-> s.inode, data |-> s.data]
<1> DEFINE g == [b \in Block |->
                   IF b \in Image(pick)
                   THEN ChunkOf(bytes, CHOOSE k \in DOMAIN pick : pick[k] = b)
                   ELSE d.data[b]]
<1>1. s = [d EXCEPT !.bits = @ \cup Image(pick), !.data = g]
  BY DEF Stuffed
<1> HIDE DEF g
<1> QED
  BY <1>1 DEF GoodDisk

-----------------------------------------------------------------------------
(* The lists of the commands.                                              *)

LEMMA SavedFacts ==
  ASSUME NEW d, NEW i, NEW ino, NEW s, NEW x
  PROVE  /\ Saved(d, i, ino, s) \in Seq({Slot(d, i, ino), Named(d, i, ino, s)})
         /\ Saved(d, i, ino, s) # <<>>
         /\ EndOf(x, Saved(d, i, ino, s)) = Named(d, i, ino, s)
<1>1. Saved(d, i, ino, s) = <<Slot(d, i, ino), Named(d, i, ino, s)>>
  BY DEF Saved, Named
<1> DEFINE a == Slot(d, i, ino)
           b == Named(d, i, ino, s)
<1> HIDE DEF a, b
<1>2. <<a, b>> \in Seq({a, b}) /\ <<a, b>> # <<>> /\ Len(<<a, b>>) = 2 /\ <<a, b>>[2] = b
  OBVIOUS
<1> QED
  BY <1>1, <1>2 DEF a, b, EndOf

LEMMA MadeFacts ==
  ASSUME NEW d, NEW i, NEW ino, NEW s, NEW x
  PROVE  /\ Made(d, i, ino, s)
              \in Seq({Slot(d, i, Taken), Slot(d, i, ino), Named(d, i, ino, s)})
         /\ Made(d, i, ino, s) # <<>>
         /\ EndOf(x, Made(d, i, ino, s)) = Named(d, i, ino, s)
<1> DEFINE a == Slot(d, i, Taken)
           b == Slot(d, i, ino)
           c == Named(d, i, ino, s)
           S == {a, b, c}
           f == <<a>>
           w == Saved(d, i, ino, s)
<1>1. Made(d, i, ino, s) = f \o w
  BY DEF Made, Taken
<1>2. w \in Seq({b, c}) /\ EndOf(EndOf(x, f), w) = c /\ w # <<>>
  BY SavedFacts
<1> HIDE DEF a, b, c, w
<1>3. f \in Seq(S) /\ {b, c} \subseteq S
  OBVIOUS
<1> HIDE DEF f
<1>4. w \in Seq(S)
  BY <1>2, <1>3, SeqWider
<1> HIDE DEF S
<1>5. /\ f \o w \in Seq(S)
      /\ EndOf(x, f \o w) = EndOf(EndOf(x, f), w)
  BY <1>3, <1>4, EndMore
<1>6. f \o w # <<>>
  BY <1>2, <1>3, <1>4
<1> QED
  BY <1>1, <1>2, <1>5, <1>6 DEF a, b, c, S, f, w

LEMMA ClearedGood ==
  ASSUME NEW d \in GoodDisk, NEW B
  PROVE  Cleared(d, B) \in Freeing(d, B) /\ Cleared(d, B) \in GoodDisk
BY DEF Cleared, GoodDisk, Freeing

\* What the commands that free or write blocks lead through.
Dropped(d, list, i, ino, s) ==
  Freed(d, list) \o Saved(EndOf(d, Freed(d, list)), i, ino, s)

Refilled(d, list, pick, bytes) ==
  Freed(d, list) \o Filled(EndOf(d, Freed(d, list)), pick, bytes)

Rewritten(d, list, i, ino, pick, bytes, s) ==
  Freed(d, list) \o Written(EndOf(d, Freed(d, list)), i, ino, pick, bytes, s)

\* rm and truncate.
LEMMA FreedSaved ==
  ASSUME NEW d \in GoodDisk, NEW list \in Seq(Block), NEW i, NEW ino, NEW s,
         NEW c, c = Cleared(d, Image(list))
  PROVE  /\ Dropped(d, list, i, ino, s)
              \in Seq(Freeing(d, Image(list)) \cup {Slot(c, i, ino), Named(c, i, ino, s)})
         /\ Dropped(d, list, i, ino, s) # <<>>
         /\ EndOf(d, Dropped(d, list, i, ino, s)) = Named(c, i, ino, s)
<1> DEFINE all == Dropped(d, list, i, ino, s)
<1> DEFINE f == Freed(d, list)
           v == Saved(c, i, ino, s)
           A == Freeing(d, Image(list))
           B == {Slot(c, i, ino), Named(c, i, ino, s)}
           S == A \cup B
<1>1. f \in Seq(A) /\ EndOf(d, f) = c
  BY FreedFacts
<1>2. v \in Seq(B) /\ v # <<>> /\ EndOf(c, v) = Named(c, i, ino, s)
  BY SavedFacts
<1>3. all = f \o v
  BY <1>1 DEF Dropped
<1> HIDE DEF all, f, v, A, B
<1>4. f \in Seq(S) /\ v \in Seq(S)
  BY <1>1, <1>2, SeqWider
<1> HIDE DEF S
<1>5. all \in Seq(S) /\ EndOf(d, all) = EndOf(EndOf(d, f), v)
  BY <1>3, <1>4, EndMore
<1>6. all # <<>>
  BY <1>2, <1>3, <1>4
<1> QED
  BY <1>1, <1>2, <1>5, <1>6 DEF all, A, B, S

\* A write for which there are not enough blocks.
LEMMA FreedFilled ==
  ASSUME NEW d \in GoodDisk, NEW list \in Seq(Block),
         NEW pick \in Seq(Block), NEW bytes \in Seq(Byte \cup {0}),
         NEW c, c = Cleared(d, Image(list))
  PROVE  /\ Refilled(d, list, pick, bytes)
              \in Seq(Freeing(d, Image(list)) \cup Filling(c, pick, bytes))
         /\ EndOf(d, Refilled(d, list, pick, bytes)) = Stuffed(c, pick, bytes)
<1> DEFINE all == Refilled(d, list, pick, bytes)
<1> DEFINE f == Freed(d, list)
           v == Filled(c, pick, bytes)
           A == Freeing(d, Image(list))
           B == Filling(c, pick, bytes)
           S == A \cup B
<1>1. f \in Seq(A) /\ EndOf(d, f) = c
  BY FreedFacts
<1>2. v \in Seq(B) /\ EndOf(c, v) = Stuffed(c, pick, bytes)
  BY ClearedGood, FilledFacts
<1>3. all = f \o v
  BY <1>1 DEF Refilled
<1> HIDE DEF all, f, v, A, B
<1>4. f \in Seq(S) /\ v \in Seq(S)
  BY <1>1, <1>2, SeqWider
<1> HIDE DEF S
<1>5. all \in Seq(S) /\ EndOf(d, all) = EndOf(EndOf(d, f), v)
  BY <1>3, <1>4, EndMore
<1> QED
  BY <1>1, <1>2, <1>5 DEF all, A, B, S

\* A write that is done.
LEMMA FreedWritten ==
  ASSUME NEW d \in GoodDisk, NEW list \in Seq(Block),
         NEW pick \in Seq(Block), NEW bytes \in Seq(Byte \cup {0}),
         NEW i, NEW ino, NEW s
  PROVE  LET c == Cleared(d, Image(list))
             e == Stuffed(c, pick, bytes)
         IN  /\ Rewritten(d, list, i, ino, pick, bytes, s)
                  \in Seq(Freeing(d, Image(list)) \cup Filling(c, pick, bytes)
                            \cup {Slot(e, i, ino), Named(e, i, ino, s)})
             /\ Rewritten(d, list, i, ino, pick, bytes, s) # <<>>
             /\ EndOf(d, Rewritten(d, list, i, ino, pick, bytes, s)) = Named(e, i, ino, s)
<1> DEFINE c == Cleared(d, Image(list))
           e == Stuffed(c, pick, bytes)
<1>c. c = Cleared(d, Image(list)) /\ e = Stuffed(c, pick, bytes)
  OBVIOUS
<1> HIDE DEF c, e
<1> DEFINE all == Rewritten(d, list, i, ino, pick, bytes, s)
<1> DEFINE f == Freed(d, list)
           v == Filled(c, pick, bytes)
           w == Saved(e, i, ino, s)
           A == Freeing(d, Image(list))
           B == Filling(c, pick, bytes)
           C == {Slot(e, i, ino), Named(e, i, ino, s)}
           S == A \cup B \cup C
<1>1. f \in Seq(A) /\ EndOf(d, f) = c
  BY <1>c, FreedFacts
<1>2. v \in Seq(B) /\ EndOf(c, v) = e
  BY <1>c, ClearedGood, FilledFacts
<1>3. w \in Seq(C) /\ w # <<>> /\ EndOf(e, w) = Named(e, i, ino, s)
  BY SavedFacts
<1>4. all = f \o (v \o w)
  BY <1>c, <1>1, <1>2 DEF Written, Rewritten
<1> HIDE DEF all, f, v, w, A, B, C
<1>5. f \in Seq(S) /\ v \in Seq(S) /\ w \in Seq(S)
  BY <1>1, <1>2, <1>3, SeqWider
<1> HIDE DEF S
<1> DEFINE vw == v \o w
<1>6. vw \in Seq(S) /\ EndOf(c, vw) = EndOf(EndOf(c, v), w) /\ vw # <<>>
  <2>1. vw \in Seq(S) /\ EndOf(c, vw) = EndOf(EndOf(c, v), w)
    BY <1>5, EndMore
  <2>2. vw # <<>>
    BY <1>3, <1>5
  <2> QED
    BY <2>1, <2>2
<1> HIDE DEF vw
<1>7. f \o vw \in Seq(S) /\ EndOf(d, f \o vw) = EndOf(EndOf(d, f), vw)
  BY <1>5, <1>6, EndMore
<1>8. f \o vw # <<>>
  BY <1>5, <1>6
<1> QED
  BY <1>1, <1>2, <1>3, <1>4, <1>6, <1>7, <1>8 DEF all, vw, A, B, C, S, c, e

-----------------------------------------------------------------------------
(* However often commands are cut off.                                     *)

\* The disks that differ from d in no bit of the metadata.
Kin(d) == {e \in GoodDisk : e.bits \cap MetaBlock = d.bits \cap MetaBlock}

\* A write does not clear the bit of a metadata block, unless it leaves a
\* disk without a magic number.
MetaKept(d, e) == e.sb.magic /\ MetaBlock \subseteq d.bits => MetaBlock \subseteq e.bits

Chain(d, disks) ==
  \A k \in DOMAIN disks : MetaKept(IF k = 1 THEN d ELSE disks[k - 1], disks[k])

CrashType ==
  /\ up \in BOOLEAN /\ sb \in Superblock /\ bitmap \subseteq Block
  /\ OnDisk \in GoodDisk
  /\ todo \in Seq(GoodDisk)
  /\ job \in [about: SUBSET Name, was: GoodDisk, due: GoodDisk]
  /\ cuts \in Nat
  /\ up => sb.magic /\ bitmap = Due.bits

CrashInv == CrashType /\ Chain(OnDisk, todo)

\* The fields of a good disk.
LEMMA GoodParts ==
  ASSUME NEW d \in GoodDisk
  PROVE  /\ d.sb \in Superblock /\ d.bits \subseteq Block /\ d.inode \in GoodTable
         /\ d.data \in [Block -> Chunk]
         /\ d.inode \in [InodeId -> Inode]
BY DEF GoodDisk, GoodTable

LEMMA DiskParts ==
  /\ OnDisk.sb = dsb /\ OnDisk.bits = dbitmap /\ OnDisk.inode = inode /\ OnDisk.data = data
  /\ OnDisk'.sb = dsb' /\ OnDisk'.bits = dbitmap' /\ OnDisk'.inode = inode' /\ OnDisk'.data = data'
BY DEF OnDisk

\* A slot may get an inode that points at data blocks and has a new name.
LEMMA TableSlot ==
  ASSUME NEW tab \in GoodTable, NEW i \in InodeId, NEW ino \in Inode,
         DOMAIN ino.direct = 1 .. Blocks(ino.size),
         BlocksOf(ino) \subseteq DataBlock,
         ino.used /\ ino.name # "" =>
           \A j \in InodeId \ {i} : tab[j].used => tab[j].name # ino.name
  PROVE  [tab EXCEPT ![i] = ino] \in GoodTable
<1> DEFINE new == [tab EXCEPT ![i] = ino]
<1>1. /\ new \in [InodeId -> Inode] /\ new[i] = ino
      /\ \A j \in InodeId \ {i} : new[j] = tab[j]
  BY DEF GoodTable
<1> HIDE DEF new
<1>2. \A j \in InodeId : /\ DOMAIN new[j].direct = 1 .. Blocks(new[j].size)
                         /\ BlocksOf(new[j]) \subseteq DataBlock
  BY <1>1 DEF GoodTable
<1>3. ASSUME NEW j \in InodeId, NEW k \in InodeId, new[j].used, new[k].used,
             new[j].name = new[k].name, new[j].name # ""
      PROVE  j = k
  BY <1>1, <1>3 DEF GoodTable
<1> QED
  BY <1>1, <1>2, <1>3 DEF GoodTable, new

\* The last two disks of a command.
LEMMA EndsGood ==
  ASSUME NEW d \in GoodDisk, NEW i \in InodeId, NEW ino, NEW s \in Superblock,
         [d.inode EXCEPT ![i] = ino] \in GoodTable
  PROVE  /\ Slot(d, i, ino) \in Kin(d) /\ Named(d, i, ino, s) \in Kin(d)
         /\ Named(d, i, ino, s).bits = d.bits
BY DEF Slot, Named, Kin, GoodDisk

LEMMA KinTrans ==
  ASSUME NEW d \in GoodDisk, NEW e \in Kin(d)
  PROVE  d \in Kin(d) /\ e \in GoodDisk /\ Kin(e) = Kin(d)
BY DEF Kin

LEMMA FreeingKin ==
  ASSUME NEW d \in GoodDisk, NEW B, B \cap MetaBlock = {}
  PROVE  Freeing(d, B) \subseteq Kin(d) /\ Cleared(d, B) \in Kin(d)
<1>1. Freeing(d, B) \subseteq Kin(d)
  BY DEF Freeing, Kin
<1> QED
  BY <1>1, ClearedGood

LEMMA FillingKin ==
  ASSUME NEW d \in GoodDisk, NEW pick \in Seq(Block),
         NEW bytes \in Seq(Byte \cup {0}),
         Image(pick) \cap MetaBlock = {}
  PROVE  Filling(d, pick, bytes) \subseteq Kin(d) /\ Stuffed(d, pick, bytes) \in Kin(d)
<1>1. Filling(d, pick, bytes) \subseteq Kin(d)
  BY DEF Filling, Kin
<1>2. Stuffed(d, pick, bytes) \in Kin(d)
  <2>1. Filled(d, pick, bytes) \in Seq(Kin(d)) /\ d \in Kin(d)
    BY <1>1, FilledFacts, SeqWider DEF Kin
  <2> QED
    BY <2>1, FilledFacts, EndIn
<1> QED
  BY <1>1, <1>2

LEMMA ChainSame ==
  ASSUME NEW d, NEW disks \in Seq(Kin(d))
  PROVE  Chain(d, disks)
<1>1. DOMAIN disks = 1 .. Len(disks) /\ Len(disks) \in Nat
  OBVIOUS
<1> SUFFICES ASSUME NEW k \in 1 .. Len(disks)
             PROVE  MetaKept(IF k = 1 THEN d ELSE disks[k - 1], disks[k])
  BY <1>1 DEF Chain
<1>2. disks[k] \in Kin(d)
  BY <1>1
<1>3. CASE k = 1
  BY <1>2, <1>3 DEF MetaKept, Kin
<1>4. CASE k # 1
  <2>1. disks[k - 1] \in Kin(d)
    BY <1>1, <1>4
  <2> QED
    BY <1>2, <1>4, <2>1 DEF MetaKept, Kin
<1> QED
  BY <1>3, <1>4

\* What every command that starts does.
LEMMA StartMeans ==
  ASSUME NEW about, NEW disks, Start(about, disks)
  PROVE  /\ todo = <<>> /\ Due = OnDisk
         /\ OnDisk' = OnDisk /\ todo' = disks /\ cuts' = cuts
         /\ Due' = EndOf(OnDisk, disks)
         /\ job' = IF disks = <<>> THEN Rest(OnDisk)
                   ELSE [about |-> about, was |-> OnDisk, due |-> Due']
<1>1. OnDisk' = OnDisk
  BY DEF Start, OnDisk, disk
<1> QED
  BY <1>1 DEF Start, Still, Due, EndOf

LEMMA StartChain ==
  ASSUME CrashInv, NEW about \in SUBSET Name, NEW disks \in Seq(GoodDisk),
         Chain(OnDisk, disks),
         Start(about, disks),
         up' \in BOOLEAN, sb' \in Superblock, bitmap' \subseteq Block,
         up' => sb'.magic /\ bitmap' = Due'.bits
  PROVE  CrashInv'
<1>1. OnDisk \in GoodDisk
  BY DEF CrashInv, CrashType
<1>2. Due' \in GoodDisk
  BY <1>1, StartMeans, EndIn
<1>3. job' \in [about: SUBSET Name, was: GoodDisk, due: GoodDisk]
  BY <1>1, <1>2, StartMeans DEF Rest
<1>4. OnDisk' = OnDisk /\ todo' = disks /\ cuts' = cuts
  BY StartMeans
<1>5. Chain(OnDisk, todo)'
  BY <1>4 DEF Chain
<1> QED
  BY <1>1, <1>3, <1>4, <1>5 DEF CrashInv, CrashType

LEMMA StartGood ==
  ASSUME CrashInv, NEW about \in SUBSET Name, NEW disks \in Seq(Kin(OnDisk)),
         Start(about, disks),
         up' \in BOOLEAN, sb' \in Superblock, bitmap' \subseteq Block,
         up' => sb'.magic /\ bitmap' = Due'.bits
  PROVE  CrashInv'
<1>1. Kin(OnDisk) \subseteq GoodDisk
  BY DEF Kin
<1>2. disks \in Seq(GoodDisk)
  BY <1>1, SeqWider
<1>3. Chain(OnDisk, disks)
  BY ChainSame
<1> QED
  BY <1>2, <1>3, StartChain

-----------------------------------------------------------------------------
(* The commands keep the invariant.                                        *)

\* What the memory and the disk are when no command is under way.
LEMMA IdleFacts ==
  ASSUME CrashInv, Still
  PROVE  /\ OnDisk \in GoodDisk /\ OnDisk \in Kin(OnDisk) /\ Due = OnDisk
         /\ inode \in GoodTable /\ inode \in [InodeId -> Inode]
         /\ sb \in Superblock /\ bitmap \subseteq Block /\ up \in BOOLEAN
         /\ up => sb.magic /\ bitmap = dbitmap
<1>1. OnDisk \in GoodDisk /\ Due = OnDisk
  BY DEF CrashInv, CrashType, Due, EndOf, Still
<1> QED
  BY <1>1, GoodParts, DiskParts DEF CrashInv, CrashType, Kin

\* The pointers of an inode as a sequence of blocks.
LEMMA PointerList ==
  ASSUME NEW tab \in GoodTable, NEW i \in InodeId
  PROVE  /\ tab[i] \in Inode
         /\ tab[i].direct \in Seq(Block) /\ Len(tab[i].direct) = Blocks(tab[i].size)
         /\ tab[i].direct \in [1 .. Blocks(tab[i].size) -> Block]
         /\ tab[i].used => /\ Image(tab[i].direct) = BlocksOf(tab[i])
                           /\ Image(tab[i].direct) \cap MetaBlock = {}
         /\ tab[i].size \in Size /\ tab[i].size \in Nat
         /\ Blocks(tab[i].size) \in 0 .. MaxDirect
<1>1. /\ tab[i] \in Inode /\ DOMAIN tab[i].direct = 1 .. Blocks(tab[i].size)
      /\ BlocksOf(tab[i]) \subseteq DataBlock
  BY DEF GoodTable
<1>2. tab[i].size \in Size /\ tab[i].size \in Nat /\ Blocks(tab[i].size) \in 0 .. MaxDirect
  BY <1>1, SizeBlocks DEF Inode
<1>3. tab[i].direct \in [1 .. Blocks(tab[i].size) -> Block]
  BY <1>1, <1>2, DirectType DEF Inode
<1>4. tab[i].direct \in Seq(Block) /\ Len(tab[i].direct) = Blocks(tab[i].size)
  BY <1>2, <1>3
<1>5. tab[i].used => /\ Image(tab[i].direct) = BlocksOf(tab[i])
                     /\ Image(tab[i].direct) \cap MetaBlock = {}
  BY <1>1 DEF BlocksOf, DataBlock
<1> QED
  BY <1>1, <1>2, <1>3, <1>4, <1>5

\* The superblocks the commands make up.
LEMMA NextSb ==
  ASSUME NEW s \in Superblock, NEW x \in Nat, NEW y \in Nat
  PROVE  LET a == [s EXCEPT !.free_blocks = x]
             b == [s EXCEPT !.free_blocks = x, !.free_inodes = y]
             c == [s EXCEPT !.free_blocks = x, !.total_writes = Bump(@)]
         IN  /\ a \in Superblock /\ a.magic = s.magic
             /\ b \in Superblock /\ b.magic = s.magic
             /\ c \in Superblock /\ c.magic = s.magic
<1>1. \A k \in Nat : Bump(k) \in 0 .. StatWrap - 1
  BY GeometryAssumption DEF GeometryAssumption, Bump
<1>2. 0 .. StatWrap - 1 \subseteq Nat
  BY GeometryAssumption DEF GeometryAssumption
<1> QED
  BY <1>1, <1>2 DEF Superblock

\* A slot keeps its name.
LEMMA TableAgain ==
  ASSUME NEW tab \in GoodTable, NEW i \in InodeId, tab[i].used,
         NEW z \in Size, NEW list \in [1 .. Blocks(z) -> Block],
         Image(list) \cap MetaBlock = {},
         NEW ino, ino = [tab[i] EXCEPT !.size = z, !.direct = list]
  PROVE  [tab EXCEPT ![i] = ino] \in GoodTable
<1>1. tab[i] \in Inode
  BY PointerList
<1>2. Blocks(z) \in 0 .. MaxDirect /\ DOMAIN list = 1 .. Blocks(z)
  BY SizeBlocks
<1>3. list \in Direct
  BY <1>2, DirectType
<1>4. /\ ino \in Inode /\ ino.used /\ ino.name = tab[i].name
      /\ ino.size = z /\ ino.direct = list
  BY <1>1, <1>3, InodeType DEF Inode
<1>5. Image(list) \subseteq DataBlock
  <2>1. Image(list) \subseteq Block
    BY <1>2 DEF Image
  <2> QED
    BY <2>1 DEF DataBlock
<1>6. DOMAIN ino.direct = 1 .. Blocks(ino.size) /\ BlocksOf(ino) \subseteq DataBlock
  BY <1>2, <1>4, <1>5 DEF BlocksOf
<1>7. ino.used /\ ino.name # "" =>
        \A j \in InodeId \ {i} : tab[j].used => tab[j].name # ino.name
  BY <1>4 DEF GoodTable
<1> QED
  BY <1>4, <1>6, <1>7, TableSlot

LEMMA DeclineGood ==
  ASSUME CrashInv, NEW cmd, Decline(cmd)
  PROVE  CrashInv'
<1>1. Still /\ Start({}, <<>>) /\ up' = up /\ sb' = sb /\ bitmap' = bitmap
  BY DEF Decline, Start
<1>2. <<>> \in Seq(Kin(OnDisk)) /\ {} \in SUBSET Name
  OBVIOUS
<1>3. Due' = OnDisk
  BY <1>1, StartMeans DEF EndOf
<1>4. up' => sb'.magic /\ bitmap' = Due'.bits
  BY <1>1, <1>3, IdleFacts, DiskParts
<1> QED
  BY <1>1, <1>2, <1>4, IdleFacts, StartGood

LEMMA UnmountGood ==
  ASSUME CrashInv, StartUnmount
  PROVE  CrashInv'
<1> DEFINE d == [OnDisk EXCEPT !.bits = bitmap]
           e == [d EXCEPT !.sb = sb]
<1>1. Still /\ up /\ Start({}, <<d, e>>) /\ up' = FALSE /\ sb' = ZeroSb /\ bitmap' = {}
  BY DEF StartUnmount, Start, Exit
<1>2. bitmap = OnDisk.bits /\ OnDisk \in GoodDisk /\ sb \in Superblock
  BY <1>1, IdleFacts, DiskParts
<1>3. d \in Kin(OnDisk) /\ e \in Kin(OnDisk)
  BY <1>2, GoodParts DEF Kin, GoodDisk
<1> HIDE DEF d, e
<1>4. <<d, e>> \in Seq(Kin(OnDisk)) /\ {} \in SUBSET Name
  BY <1>3
<1> QED
  BY <1>1, <1>4, NewSbType, StartGood

LEMMA CreateGood ==
  ASSUME CrashInv, NEW n \in Name, StartCreate(n)
  PROVE  CrashInv'
<1>1. CASE Decline("create")
  BY <1>1, DeclineGood
<1>2. ASSUME up, MayCreate(n), sb' = [sb EXCEPT !.free_inodes = @ - 1],
             NEW i \in InodeId, IsFirst(i, FreeSlots),
             Start({n}, Made(OnDisk, i, NewInode(n), sb')),
             up' = up, bitmap' = bitmap
      PROVE  CrashInv'
  <2>1. Still
    BY <1>2 DEF Start
  <2>2. sb' \in Superblock /\ sb'.magic = sb.magic
    BY <1>2, <2>1, IdleFacts DEF MayCreate, Superblock
  <2>3. NewInode(n) \in Inode /\ NewInode(n).direct = <<>> /\ NewInode(n).size = 0
    BY NewInodeType
  <2>4. Taken \in Inode /\ Taken.direct = <<>> /\ Taken.size = 0 /\ Taken.name = ""
    BY NewInodeType DEF Taken, ZeroInode, Inode
  <2>5. Image(<<>>) = {} /\ DOMAIN <<>> = 1 .. Blocks(0)
    BY NoBlocks DEF Image
  <2>6. [inode EXCEPT ![i] = Taken] \in GoodTable
    <3>1. BlocksOf(Taken) \subseteq DataBlock /\ DOMAIN Taken.direct = 1 .. Blocks(Taken.size)
      BY <2>4, <2>5 DEF BlocksOf
    <3> QED
      BY <2>1, <2>4, <3>1, IdleFacts, TableSlot
  <2>7. [inode EXCEPT ![i] = NewInode(n)] \in GoodTable
    <3>1. /\ BlocksOf(NewInode(n)) \subseteq DataBlock
          /\ DOMAIN NewInode(n).direct = 1 .. Blocks(NewInode(n).size)
      BY <2>3, <2>5 DEF BlocksOf
    <3>2. \A j \in InodeId \ {i} : inode[j].used => inode[j].name # NewInode(n).name
      BY <1>2, <2>1, IdleFacts DEF MayCreate, Holders, NewInode, ZeroInode
    <3> QED
      BY <2>1, <2>3, <3>1, <3>2, IdleFacts, TableSlot
  <2>8. Slot(OnDisk, i, Taken) \in Kin(OnDisk)
    BY <1>2, <2>1, <2>2, <2>6, IdleFacts, EndsGood, DiskParts
  <2>9. /\ Slot(OnDisk, i, NewInode(n)) \in Kin(OnDisk)
        /\ Named(OnDisk, i, NewInode(n), sb') \in Kin(OnDisk)
        /\ Named(OnDisk, i, NewInode(n), sb').bits = OnDisk.bits
    BY <1>2, <2>1, <2>2, <2>7, IdleFacts, EndsGood, DiskParts
  <2> DEFINE all == Made(OnDisk, i, NewInode(n), sb')
             S   == {Slot(OnDisk, i, Taken), Slot(OnDisk, i, NewInode(n)),
                     Named(OnDisk, i, NewInode(n), sb')}
  <2>a. all \in Seq(S) /\ EndOf(OnDisk, all) = Named(OnDisk, i, NewInode(n), sb')
    BY MadeFacts
  <2>b. Start({n}, all)
    BY <1>2
  <2>10. all \in Seq(Kin(OnDisk))
    <3>1. S \subseteq Kin(OnDisk)
      BY <2>8, <2>9
    <3> HIDE DEF S, all
    <3> QED
      BY <2>a, <3>1, SeqWider
  <2> HIDE DEF all
  <2>11. Due' = Named(OnDisk, i, NewInode(n), sb')
    BY <2>a, <2>b, StartMeans
  <2>12. up' => sb'.magic /\ bitmap' = Due'.bits
    BY <1>2, <2>1, <2>2, <2>9, <2>11, IdleFacts, DiskParts
  <2> QED
    BY <1>2, <2>1, <2>2, <2>b, <2>10, <2>12, IdleFacts, StartGood
<1> QED
  BY <1>1, <1>2 DEF StartCreate

LEMMA DeleteGood ==
  ASSUME CrashInv, NEW n \in Name, StartDelete(n)
  PROVE  CrashInv'
<1>1. CASE Decline("rm")
  BY <1>1, DeclineGood
<1>2. ASSUME up, NEW i \in InodeId, Found(n, i),
             bitmap' = bitmap \ Image(inode[i].direct),
             sb' = [sb EXCEPT !.free_blocks = @ + Blocks(inode[i].size),
                              !.free_inodes = @ + 1],
             Start({n}, Freed(OnDisk, inode[i].direct)
                          \o Saved(EndOf(OnDisk, Freed(OnDisk, inode[i].direct)), i, ZeroInode, sb')),
             up' = up
      PROVE  CrashInv'
  <2> DEFINE list == inode[i].direct
             all  == Dropped(OnDisk, list, i, ZeroInode, sb')
             c    == Cleared(OnDisk, Image(list))
  <2>1. Still
    BY <1>2 DEF Start
  <2>2. /\ list \in Seq(Block) /\ Image(list) \cap MetaBlock = {}
        /\ Blocks(inode[i].size) \in Nat
    BY <1>2, <2>1, FoundSlot, IdleFacts, PointerList
  <2>3. sb' \in Superblock /\ sb'.magic = sb.magic
    <3>1. sb \in Superblock /\ sb.free_blocks \in Nat /\ sb.free_inodes \in Nat
      BY <2>1, IdleFacts DEF Superblock
    <3>2. /\ sb.free_blocks + Blocks(inode[i].size) \in Nat
          /\ sb.free_inodes + 1 \in Nat
      BY <2>2, <3>1
    <3> QED
      BY <1>2, <3>1, <3>2, NextSb
  <2>4. [inode EXCEPT ![i] = ZeroInode] \in GoodTable
    <3>0. ~ZeroInode.used /\ ZeroInode \in Inode
      BY NewInodeType DEF ZeroInode
    <3>1. /\ BlocksOf(ZeroInode) \subseteq DataBlock
          /\ DOMAIN ZeroInode.direct = 1 .. Blocks(ZeroInode.size)
      <4>1. 1 .. 0 = {} /\ DOMAIN <<>> = {}
        OBVIOUS
      <4> QED
        BY <3>0, <4>1, NewInodeType, NoBlocks DEF BlocksOf
    <3> QED
      BY <2>1, <3>0, <3>1, IdleFacts, TableSlot
  <2>5. Freeing(OnDisk, Image(list)) \subseteq Kin(OnDisk) /\ c \in Kin(OnDisk)
    BY <2>1, <2>2, IdleFacts, FreeingKin
  <2>6. c \in GoodDisk /\ Kin(c) = Kin(OnDisk) /\ c.inode = inode /\ c.bits = dbitmap \ Image(list)
    <3>1. c.inode = OnDisk.inode /\ c.bits = OnDisk.bits \ Image(list)
      BY <2>1, IdleFacts DEF Cleared, GoodDisk
    <3> QED
      BY <2>1, <2>5, <3>1, IdleFacts, KinTrans, DiskParts
  <2>7. /\ Slot(c, i, ZeroInode) \in Kin(OnDisk) /\ Named(c, i, ZeroInode, sb') \in Kin(OnDisk)
        /\ Named(c, i, ZeroInode, sb').bits = c.bits
    BY <1>2, <2>3, <2>4, <2>6, EndsGood
  <2>10. Start({n}, all)
    BY <1>2 DEF Dropped
  <2>8. /\ all \in Seq(Freeing(OnDisk, Image(list)) \cup {Slot(c, i, ZeroInode), Named(c, i, ZeroInode, sb')})
        /\ EndOf(OnDisk, all) = Named(c, i, ZeroInode, sb')
    <3>1. OnDisk \in GoodDisk /\ list \in Seq(Block)
      BY <2>1, <2>2, IdleFacts
    <3> HIDE DEF list
    <3> QED
      BY ONLY <3>1, FreedSaved
  <2> HIDE DEF all, c
  <2>a. all \in Seq(Kin(OnDisk))
    <3>1. Freeing(OnDisk, Image(list)) \cup {Slot(c, i, ZeroInode), Named(c, i, ZeroInode, sb')}
            \subseteq Kin(OnDisk)
      BY <2>5, <2>7
    <3> QED
      BY <2>8, <3>1, SeqWider
  <2>11. Due' = Named(c, i, ZeroInode, sb')
    BY <2>8, <2>10, StartMeans
  <2>12. up' => sb'.magic /\ bitmap' = Due'.bits
    BY <1>2, <2>1, <2>3, <2>6, <2>7, <2>11, IdleFacts
  <2>13. bitmap' \subseteq Block /\ up' \in BOOLEAN /\ {n} \in SUBSET Name
    BY <1>2, <2>1, IdleFacts
  <2> QED
    BY <2>3, <2>a, <2>10, <2>12, <2>13, StartGood
<1> QED
  BY <1>1, <1>2 DEF StartDelete

LEMMA RenameGood ==
  ASSUME CrashInv, NEW old \in Name, NEW new \in Name, StartRename(old, new)
  PROVE  CrashInv'
<1>1. CASE Decline("rename")
  BY <1>1, DeclineGood
<1>2. ASSUME up, NEW i \in InodeId, Found(old, i), Holders(new) = {},
             Start({old, new}, <<Slot(OnDisk, i, [inode[i] EXCEPT !.name = new])>>),
             up' = up, sb' = sb, bitmap' = bitmap
      PROVE  CrashInv'
  <2> DEFINE ino == [inode[i] EXCEPT !.name = new]
             d   == Slot(OnDisk, i, ino)
  <2>1. Still
    BY <1>2 DEF Start
  <2>2. /\ inode[i] \in Inode /\ inode[i].used
        /\ DOMAIN inode[i].direct = 1 .. Blocks(inode[i].size)
        /\ BlocksOf(inode[i]) \subseteq DataBlock
    BY <1>2, <2>1, FoundSlot, IdleFacts DEF GoodTable
  <2>3. /\ ino \in Inode /\ ino.used /\ ino.name = new
        /\ ino.direct = inode[i].direct /\ ino.size = inode[i].size
    BY <2>2, InodeType DEF Inode
  <2>4. BlocksOf(ino) \subseteq DataBlock /\ DOMAIN ino.direct = 1 .. Blocks(ino.size)
    BY <2>2, <2>3 DEF BlocksOf
  <2>5. \A j \in InodeId \ {i} : inode[j].used => inode[j].name # new
    BY <1>2, <2>1, IdleFacts DEF Holders
  <2> HIDE DEF ino
  <2>6. [inode EXCEPT ![i] = ino] \in GoodTable
    BY <2>1, <2>3, <2>4, <2>5, IdleFacts, TableSlot
  <2>7. d \in Kin(OnDisk) /\ d.bits = dbitmap
    <3>1. d \in Kin(OnDisk)
      BY <1>2, <2>1, <2>6, IdleFacts, EndsGood, DiskParts
    <3> QED
      BY <2>1, <3>1, IdleFacts, DiskParts DEF Slot, GoodDisk
  <2>8. Start({old, new}, <<d>>)
    BY <1>2 DEF ino
  <2> HIDE DEF d
  <2>9. <<d>> \in Seq(Kin(OnDisk)) /\ EndOf(OnDisk, <<d>>) = d
    BY <2>7 DEF EndOf
  <2>10. Due' = d
    BY <2>8, <2>9, StartMeans
  <2>11. up' => sb'.magic /\ bitmap' = Due'.bits
    BY <1>2, <2>1, <2>7, <2>10, IdleFacts
  <2>12. {old, new} \in SUBSET Name
    OBVIOUS
  <2> QED
    BY <1>2, <2>1, <2>8, <2>9, <2>11, <2>12, IdleFacts, StartGood
<1> QED
  BY <1>1, <1>2 DEF StartRename

\* A list cut in two.
LEMMA CutInTwo ==
  ASSUME NEW f \in Seq(Block), NEW a \in Nat, a <= Len(f)
  PROVE  LET list == SubSeq(f, a + 1, Len(f))
             kept == SubSeq(f, 1, a)
         IN  /\ list \in Seq(Block) /\ Len(list) = Len(f) - a
             /\ Image(list) = Cut(f, a, Len(f))
             /\ kept = Keep(f, a)
             /\ kept \in [1 .. a -> Block]
             /\ Image(list) \subseteq Image(f) /\ Image(kept) \subseteq Image(f)
<1> DEFINE list == SubSeq(f, a + 1, Len(f))
           kept == SubSeq(f, 1, a)
<1>1. Len(f) \in Nat /\ DOMAIN f = 1 .. Len(f)
  OBVIOUS
<1>2. /\ list \in Seq(Block) /\ Len(list) = Len(f) - a
      /\ DOMAIN list = 1 .. Len(f) - a
      /\ \A k \in 1 .. Len(f) - a : list[k] = f[a + k]
  <2>1. a + 1 \in 1 .. Len(f) + 1 /\ Len(f) \in (a + 1) - 1 .. Len(f)
    BY <1>1
  <2>2. /\ list \in Seq(Block)
        /\ Len(list) = Len(f) - (a + 1) + 1
        /\ \A k \in 1 .. Len(f) - (a + 1) + 1 : list[k] = f[(a + 1) + k - 1]
    BY <2>1, SubSeqProperties
  <2> HIDE DEF list
  <2>3. Len(f) - (a + 1) + 1 = Len(f) - a /\ \A k \in Int : (a + 1) + k - 1 = a + k
    BY <1>1
  <2>4. DOMAIN list = 1 .. Len(list)
    BY <2>2
  <2> QED
    BY <2>2, <2>3, <2>4
<1>3. kept \in [1 .. a -> Block] /\ DOMAIN kept = 1 .. a
      /\ \A k \in 1 .. a : kept[k] = f[k]
  <2>1. 1 \in 1 .. Len(f) + 1 /\ a \in 1 - 1 .. Len(f)
    BY <1>1
  <2>2. /\ kept \in Seq(Block)
        /\ Len(kept) = a - 1 + 1
        /\ \A k \in 1 .. a - 1 + 1 : kept[k] = f[1 + k - 1]
    BY <2>1, SubSeqProperties
  <2> HIDE DEF kept
  <2>3. a - 1 + 1 = a /\ \A k \in Int : 1 + k - 1 = k
    OBVIOUS
  <2>4. kept \in [1 .. Len(kept) -> Block] /\ DOMAIN kept = 1 .. Len(kept)
    BY <2>2
  <2> QED
    BY <2>2, <2>3, <2>4
<1> HIDE DEF list, kept
<1>4. Image(list) = Cut(f, a, Len(f))
  <2>1. ASSUME NEW x \in Image(list) PROVE x \in Cut(f, a, Len(f))
    <3>1. PICK k \in 1 .. Len(f) - a : x = list[k]
      BY <1>2, <2>1 DEF Image
    <3>2. a + k \in a + 1 .. Len(f) /\ x = f[a + k]
      BY <1>1, <1>2, <3>1
    <3> QED
      BY <3>2 DEF Cut
  <2>2. ASSUME NEW x \in Cut(f, a, Len(f)) PROVE x \in Image(list)
    <3>1. PICK k \in a + 1 .. Len(f) : x = f[k]
      BY <2>2 DEF Cut
    <3>2. k - a \in 1 .. Len(f) - a /\ a + (k - a) = k
      BY <1>1
    <3>3. x = list[k - a]
      BY <1>2, <3>1, <3>2
    <3> QED
      BY <1>2, <3>2, <3>3 DEF Image
  <2> QED
    BY <2>1, <2>2
<1>5. kept = Keep(f, a)
  BY <1>3 DEF Keep
<1>6. Cut(f, a, Len(f)) \subseteq Image(f) /\ Image(kept) \subseteq Image(f)
  BY <1>1, <1>3 DEF Cut, Image
<1> QED
  BY <1>2, <1>3, <1>4, <1>5, <1>6 DEF list, kept

LEMMA TruncateGood ==
  ASSUME CrashInv, NEW n \in Name, NEW size \in Size, StartTruncate(n, size)
  PROVE  CrashInv'
<1>1. CASE Decline("truncate")
  BY <1>1, DeclineGood
<1>2. ASSUME up, NEW i \in InodeId, Found(n, i), size <= inode[i].size,
             NEW list, list = SubSeq(inode[i].direct, Blocks(size) + 1, Blocks(inode[i].size)),
             NEW kept, kept = SubSeq(inode[i].direct, 1, Blocks(size)),
             NEW ino, ino = [inode[i] EXCEPT !.size = size, !.direct = kept],
             bitmap' = bitmap \ Image(list),
             sb' = [sb EXCEPT !.free_blocks = @ + Len(list)],
             Start({n}, Dropped(OnDisk, list, i, ino, sb')),
             up' = up
      PROVE  CrashInv'
  <2> DEFINE all  == Dropped(OnDisk, list, i, ino, sb')
             c    == Cleared(OnDisk, Image(list))
  <2>1. Still
    BY <1>2 DEF Start
  <2>2. /\ inode[i].used
        /\ inode[i].direct \in Seq(Block) /\ Len(inode[i].direct) = Blocks(inode[i].size)
        /\ Image(inode[i].direct) \cap MetaBlock = {}
        /\ inode[i].size \in Nat
    BY <1>2, <2>1, FoundSlot, IdleFacts, PointerList
  <2>3. Blocks(size) \in Nat /\ Blocks(size) <= Blocks(inode[i].size)
    BY <1>2, <2>2, SizeBlocks, BlocksMonotone
  <2>4. /\ list \in Seq(Block) /\ Len(list) \in Nat
        /\ kept \in [1 .. Blocks(size) -> Block]
        /\ Image(list) \cap MetaBlock = {} /\ Image(kept) \cap MetaBlock = {}
    <3>1. /\ list \in Seq(Block)
          /\ kept \in [1 .. Blocks(size) -> Block]
          /\ Image(list) \subseteq Image(inode[i].direct)
          /\ Image(kept) \subseteq Image(inode[i].direct)
      BY <1>2, <2>2, <2>3, CutInTwo
    <3> QED
      BY <2>2, <3>1
  <2>5. sb' \in Superblock /\ sb'.magic = sb.magic
    <3>1. sb \in Superblock /\ sb.free_blocks \in Nat
      BY <2>1, IdleFacts DEF Superblock
    <3>2. sb.free_blocks + Len(list) \in Nat
      BY <2>4, <3>1
    <3> QED
      BY <1>2, <3>1, <3>2, NextSb
  <2>6. [inode EXCEPT ![i] = ino] \in GoodTable
    BY <1>2, <2>1, <2>2, <2>4, IdleFacts, TableAgain
  <2>7. Freeing(OnDisk, Image(list)) \subseteq Kin(OnDisk) /\ c \in Kin(OnDisk)
    BY <2>1, <2>4, IdleFacts, FreeingKin
  <2>8. c \in GoodDisk /\ Kin(c) = Kin(OnDisk) /\ c.inode = inode /\ c.bits = dbitmap \ Image(list)
    <3>1. c.inode = OnDisk.inode /\ c.bits = OnDisk.bits \ Image(list)
      BY <2>1, IdleFacts DEF Cleared, GoodDisk
    <3> QED
      BY <2>1, <2>7, <3>1, IdleFacts, KinTrans, DiskParts
  <2>9. /\ Slot(c, i, ino) \in Kin(OnDisk) /\ Named(c, i, ino, sb') \in Kin(OnDisk)
        /\ Named(c, i, ino, sb').bits = c.bits
    <3>1. i \in InodeId
      BY <1>2, FoundSlot
    <3> HIDE DEF c
    <3> QED
      BY <2>5, <2>6, <2>8, <3>1, EndsGood
  <2>10. Start({n}, all)
    BY <1>2
  <2>11. /\ all \in Seq(Freeing(OnDisk, Image(list)) \cup {Slot(c, i, ino), Named(c, i, ino, sb')})
         /\ EndOf(OnDisk, all) = Named(c, i, ino, sb')
    <3>1. OnDisk \in GoodDisk /\ list \in Seq(Block)
      BY <2>1, <2>4, IdleFacts
    <3> QED
      BY ONLY <3>1, FreedSaved
  <2> HIDE DEF all, c
  <2>12. all \in Seq(Kin(OnDisk))
    <3>1. Freeing(OnDisk, Image(list)) \cup {Slot(c, i, ino), Named(c, i, ino, sb')}
            \subseteq Kin(OnDisk)
      BY <2>7, <2>9
    <3> QED
      BY <2>11, <3>1, SeqWider
  <2>13. Due' = Named(c, i, ino, sb')
    BY <2>10, <2>11, StartMeans
  <2>14. up' => sb'.magic /\ bitmap' = Due'.bits
    BY <1>2, <2>1, <2>5, <2>8, <2>9, <2>13, IdleFacts
  <2>15. bitmap' \subseteq Block /\ up' \in BOOLEAN /\ {n} \in SUBSET Name
    BY <1>2, <2>1, IdleFacts
  <2> QED
    BY <2>5, <2>10, <2>12, <2>14, <2>15, StartGood
<1> QED
  BY <1>1, <1>2 DEF StartTruncate, Dropped

\* The blocks a write may pick are no metadata.
LEMMA PickFacts ==
  ASSUME CrashInv, Still, MetadataKept, NEW i \in InodeId, inode[i].used,
         NEW need \in Nat,
         NEW clear, clear = ClearFor(inode[i]),
         NEW got, got = IF need <= Cardinality(clear) THEN need ELSE Cardinality(clear),
         NEW pick \in FirstFit(got, clear)
  PROVE  /\ got \in Nat /\ got <= need
         /\ pick \in [1 .. got -> Block] /\ pick \in [1 .. got -> clear]
         /\ pick \in Seq(Block) /\ Len(pick) = got
         /\ Image(pick) \subseteq clear /\ clear \subseteq Block
         /\ Image(pick) \cap MetaBlock = {}
<1>1. Image(inode[i].direct) \subseteq Block /\ Image(inode[i].direct) \cap MetaBlock = {}
  BY IdleFacts, PointerList, ImageType
<1>2. clear \subseteq Block /\ clear \cap MetaBlock = {}
  BY <1>1 DEF ClearFor, MetadataKept
<1>3. Cardinality(clear) \in Nat
  BY <1>2, Finite, FS_Subset, FS_CardinalityType
<1>4. got \in Nat /\ got <= need
  BY <1>3
<1>5. pick \in [1 .. got -> clear]
  BY DEF FirstFit
<1>6. pick \in [1 .. got -> Block] /\ Image(pick) \subseteq clear
  BY <1>2, <1>5 DEF Image
<1>7. pick \in Seq(Block) /\ Len(pick) = got
  BY <1>4, <1>6
<1> QED
  BY <1>2, <1>4, <1>5, <1>6, <1>7

\* The disk once the blocks of a write are filled.
LEMMA StuffedFacts ==
  ASSUME NEW d \in GoodDisk, NEW B, B \cap MetaBlock = {},
         NEW pick \in Seq(Block), Image(pick) \cap MetaBlock = {},
         NEW bytes \in Seq(Byte \cup {0}),
         NEW c, c = Cleared(d, B),
         NEW e, e = Stuffed(c, pick, bytes)
  PROVE  /\ Freeing(d, B) \subseteq Kin(d) /\ Filling(c, pick, bytes) \subseteq Kin(d)
         /\ c \in Kin(d) /\ e \in Kin(d) /\ Kin(e) = Kin(d)
         /\ e \in GoodDisk /\ e.inode = d.inode /\ e.sb = d.sb
         /\ e.bits = (d.bits \ B) \cup Image(pick)
<1>1. Freeing(d, B) \subseteq Kin(d) /\ c \in Kin(d)
  BY FreeingKin
<1>2. c \in GoodDisk /\ Kin(c) = Kin(d)
  BY <1>1, KinTrans
<1>3. Filling(c, pick, bytes) \subseteq Kin(d) /\ e \in Kin(d)
  BY <1>2, FillingKin
<1>4. e \in GoodDisk /\ Kin(e) = Kin(d)
  BY <1>3, KinTrans
<1>5. /\ c.inode = d.inode /\ c.sb = d.sb /\ c.bits = d.bits \ B
      /\ e.inode = c.inode /\ e.sb = c.sb /\ e.bits = c.bits \cup Image(pick)
  <2>1. /\ c.inode = d.inode /\ c.sb = d.sb /\ c.bits = d.bits \ B
    BY DEF Cleared, GoodDisk
  <2>2. /\ e.inode = c.inode /\ e.sb = c.sb /\ e.bits = c.bits \cup Image(pick)
    BY <1>2 DEF Stuffed, GoodDisk
  <2> QED
    BY <2>1, <2>2
<1> QED
  BY <1>1, <1>3, <1>4, <1>5

LEMMA WriteGood ==
  ASSUME CrashInv, NEW n \in Name, NEW bytes \in Payload, StartWrite(n, bytes)
  PROVE  CrashInv'
<1> DEFINE len  == Len(bytes)
           need == BlocksNeeded(Len(bytes))
<1>b. bytes \in Seq(Byte \cup {0}) /\ len \in Nat
  <2>1. bytes \in Seq(Byte)
    BY BytesAssumption DEF BytesAssumption
  <2> QED
    BY <2>1, BufferType
<1>1. CASE Decline("write")
  BY <1>1, DeclineGood
<1>2. ASSUME up, MetadataKept, NEW i \in InodeId, Found(n, i), ~FitsNot(Len(bytes)),
             NEW clear, clear = ClearFor(inode[i]),
             NEW got, got = IF need <= Cardinality(clear) THEN need ELSE Cardinality(clear),
             NEW pick \in FirstFit(got, clear),
             bitmap' = (bitmap \ Image(inode[i].direct)) \cup Image(pick),
             up' = up, Still,
             \/ /\ got = need
                /\ sb' = [sb EXCEPT !.free_blocks = @ + Blocks(inode[i].size) - need,
                                    !.total_writes = Bump(@)]
                /\ Start({n}, Rewritten(OnDisk, inode[i].direct, i,
                                [inode[i] EXCEPT !.size = Len(bytes),
                                          !.direct = SubSeq(pick, 1, Blocks(Len(bytes)))],
                                pick, bytes, sb'))
             \/ /\ got < need
                /\ sb' = [sb EXCEPT !.free_blocks = @ + Blocks(inode[i].size) - got]
                /\ Start({n}, Refilled(OnDisk, inode[i].direct, pick, bytes))
      PROVE  CrashInv'
  <2> DEFINE list == inode[i].direct
             c    == Cleared(OnDisk, Image(list))
             e    == Stuffed(c, pick, bytes)
             keep == SubSeq(pick, 1, Blocks(Len(bytes)))
             ino  == [inode[i] EXCEPT !.size = Len(bytes), !.direct = keep]
  <2>1. OnDisk \in GoodDisk /\ inode \in GoodTable /\ sb \in Superblock
        /\ sb.free_blocks \in Nat /\ bitmap = dbitmap /\ sb.magic
    BY <1>2, IdleFacts DEF Superblock
  <2>2. /\ inode[i].used /\ list \in Seq(Block) /\ Image(list) \cap MetaBlock = {}
        /\ Image(list) \subseteq Block /\ Blocks(inode[i].size) \in Nat
    BY <1>2, <2>1, FoundSlot, PointerList, ImageType
  <2>3. /\ len \in Size /\ need \in Nat /\ need <= sb.free_blocks
        /\ Blocks(len) <= need /\ Blocks(len) \in Nat
    BY <1>b, <1>2, <2>1, AcceptedSize, BlocksType
  <2>4. /\ got \in Nat /\ got <= need /\ pick \in [1 .. got -> Block]
        /\ pick \in Seq(Block) /\ Len(pick) = got
        /\ Image(pick) \cap MetaBlock = {} /\ Image(pick) \subseteq Block
    BY <1>2, <2>2, <2>3, PickFacts
  <2>5. /\ Freeing(OnDisk, Image(list)) \subseteq Kin(OnDisk)
        /\ Filling(c, pick, bytes) \subseteq Kin(OnDisk)
        /\ e \in Kin(OnDisk) /\ Kin(e) = Kin(OnDisk)
        /\ e \in GoodDisk /\ e.inode = inode
        /\ e.bits = (dbitmap \ Image(list)) \cup Image(pick)
    <3>1. /\ Freeing(OnDisk, Image(list)) \subseteq Kin(OnDisk)
          /\ Filling(c, pick, bytes) \subseteq Kin(OnDisk)
          /\ e \in Kin(OnDisk) /\ Kin(e) = Kin(OnDisk)
          /\ e \in GoodDisk /\ e.inode = OnDisk.inode
          /\ e.bits = (OnDisk.bits \ Image(list)) \cup Image(pick)
      <4> HIDE DEF list
      <4> QED
        BY ONLY <1>b, <2>1, <2>2, <2>4, StuffedFacts
    <3> HIDE DEF c, e
    <3> QED
      BY <3>1, DiskParts
  <2>6. bitmap' \subseteq Block /\ up' \in BOOLEAN /\ {n} \in SUBSET Name
    BY <1>2, <2>1, <2>2, <2>4, IdleFacts
  <2>7. CASE /\ got = need
             /\ sb' = [sb EXCEPT !.free_blocks = @ + Blocks(inode[i].size) - need,
                                 !.total_writes = Bump(@)]
             /\ Start({n}, Rewritten(OnDisk, list, i, ino, pick, bytes, sb'))
    <3> DEFINE all == Rewritten(OnDisk, list, i, ino, pick, bytes, sb')
    <3>1. sb' \in Superblock /\ sb'.magic = sb.magic
      <4>1. sb.free_blocks + Blocks(inode[i].size) - need \in Nat
        BY <2>1, <2>2, <2>3
      <4> QED
        BY <2>1, <2>7, <4>1, NextSb
    <3>2. [inode EXCEPT ![i] = ino] \in GoodTable
      <4>1. keep \in [1 .. Blocks(len) -> Block] /\ Image(keep) \cap MetaBlock = {}
        <5>1. keep \in [1 .. Blocks(len) -> Block] /\ Image(keep) \subseteq Image(pick)
          BY <2>3, <2>4, <2>7, CutInTwo
        <5> QED
          BY <2>4, <5>1
      <4> HIDE DEF keep
      <4> QED
        BY <2>1, <2>2, <2>3, <4>1, TableAgain
    <3> HIDE DEF ino
    <3>3. /\ Slot(e, i, ino) \in Kin(OnDisk) /\ Named(e, i, ino, sb') \in Kin(OnDisk)
          /\ Named(e, i, ino, sb').bits = e.bits
      <4> HIDE DEF e
      <4> QED
        BY <2>5, <3>1, <3>2, EndsGood
    <3>4. /\ all \in Seq(Freeing(OnDisk, Image(list)) \cup Filling(c, pick, bytes)
                           \cup {Slot(e, i, ino), Named(e, i, ino, sb')})
          /\ EndOf(OnDisk, all) = Named(e, i, ino, sb')
      <4> HIDE DEF list
      <4> QED
        BY ONLY <1>b, <2>1, <2>2, <2>4, FreedWritten
    <3>5. Start({n}, all)
      BY <2>7
    <3> HIDE DEF all, c, e
    <3>6. all \in Seq(Kin(OnDisk))
      <4>1. Freeing(OnDisk, Image(list)) \cup Filling(c, pick, bytes)
              \cup {Slot(e, i, ino), Named(e, i, ino, sb')} \subseteq Kin(OnDisk)
        BY <2>5, <3>3
      <4> QED
        BY <3>4, <4>1, SeqWider
    <3>7. Due' = Named(e, i, ino, sb')
      BY <3>4, <3>5, StartMeans
    <3>8. up' => sb'.magic /\ bitmap' = Due'.bits
      BY <1>2, <2>1, <2>5, <3>1, <3>3, <3>7
    <3> QED
      BY <2>6, <3>1, <3>5, <3>6, <3>8, StartGood
  <2>8. CASE /\ got < need
             /\ sb' = [sb EXCEPT !.free_blocks = @ + Blocks(inode[i].size) - got]
             /\ Start({n}, Refilled(OnDisk, list, pick, bytes))
    <3> DEFINE all == Refilled(OnDisk, list, pick, bytes)
    <3>1. sb' \in Superblock /\ sb'.magic = sb.magic
      <4>1. sb.free_blocks + Blocks(inode[i].size) - got \in Nat
        BY <2>1, <2>2, <2>3, <2>4
      <4> QED
        BY <2>1, <2>8, <4>1, NextSb
    <3>2. /\ all \in Seq(Freeing(OnDisk, Image(list)) \cup Filling(c, pick, bytes))
          /\ EndOf(OnDisk, all) = e
      <4> HIDE DEF list
      <4> QED
        BY ONLY <1>b, <2>1, <2>2, <2>4, FreedFilled
    <3>3. Start({n}, all)
      BY <2>8
    <3> HIDE DEF all, c, e
    <3>4. all \in Seq(Kin(OnDisk))
      <4>1. Freeing(OnDisk, Image(list)) \cup Filling(c, pick, bytes) \subseteq Kin(OnDisk)
        BY <2>5
      <4> QED
        BY <3>2, <4>1, SeqWider
    <3>5. Due' = e
      BY <3>2, <3>3, StartMeans
    <3>6. up' => sb'.magic /\ bitmap' = Due'.bits
      BY <1>2, <2>1, <2>5, <3>1, <3>5
    <3> QED
      BY <2>6, <3>1, <3>3, <3>4, <3>6, StartGood
  <2> QED
    BY <1>2, <2>7, <2>8
<1> QED
  BY <1>1, <1>2 DEF StartWrite, Start, Rewritten, Refilled

LEMMA BlankGood ==
  BlankDisk \in GoodDisk /\ ~BlankDisk.sb.magic /\ BlankDisk.bits = {}
<1>1. ZeroChunk \in Chunk
  BY DEF ZeroChunk, Chunk
<1>2. [i \in InodeId |-> ZeroInode] \in GoodTable
  <2>1. ~ZeroInode.used /\ ZeroInode \in Inode
    BY NewInodeType DEF ZeroInode
  <2>2. DOMAIN ZeroInode.direct = 1 .. Blocks(ZeroInode.size)
    <3>1. 1 .. 0 = {} /\ DOMAIN <<>> = {}
      OBVIOUS
    <3> QED
      BY <3>1, NewInodeType, NoBlocks
  <2> QED
    BY <2>1, <2>2 DEF GoodTable, BlocksOf
<1>3. [b \in Block |-> ZeroChunk] \in [Block -> Chunk]
  BY <1>1
<1> QED
  BY <1>2, <1>3, NewSbType DEF BlankDisk, GoodDisk, ZeroSb

\* The disks a format leads through.
LEMMA FormatFacts ==
  ASSUME NEW d \in GoodDisk, NEW arg \in FormatArg
  PROVE  FormatDisks(arg) \in Seq(GoodDisk) /\ Chain(d, FormatDisks(arg))
<1>1. BlankDisk \in GoodDisk /\ ~BlankDisk.sb.magic /\ BlankDisk.bits = {}
  BY BlankGood
<1>2. CASE arg = "bad_block"
  BY <1>2 DEF FormatDisks, Chain
<1>3. CASE arg = "too_small"
  <2>1. FormatDisks(arg) = <<BlankDisk>>
    BY <1>3 DEF FormatDisks
  <2> QED
    BY <1>1, <2>1 DEF Chain, MetaKept
<1>4. CASE arg = "fine"
  <2> DEFINE new  == [BlankDisk EXCEPT !.sb = FreshSb]
             mark == Marked(new)
             head == <<BlankDisk, new>>
             all  == head \o mark
  <2>1. DataStart \in Nat /\ DataStart > 0 /\ DataStart < TotalBlocks /\ TotalBlocks \in Nat
    BY GeometryAssumption DEF GeometryAssumption
  <2>2. new \in GoodDisk /\ new.bits = {}
    BY <1>1, NewSbType DEF GoodDisk
  <2>3. ASSUME NEW k \in 1 .. DataStart
        PROVE  mark[k] \in GoodDisk /\ mark[k].bits = 0 .. k - 1
    <3>1. mark[k] = [new EXCEPT !.bits = 0 .. k - 1]
      BY DEF Marked
    <3>2. 0 .. k - 1 \subseteq Block
      BY <2>1 DEF Block
    <3> HIDE DEF new
    <3> QED
      BY <2>2, <3>1, <3>2 DEF GoodDisk
  <2>4. mark = [k \in 1 .. DataStart |-> mark[k]]
    BY DEF Marked
  <2> HIDE DEF new, mark
  <2>5. mark \in Seq(GoodDisk) /\ Len(mark) = DataStart
    BY <2>1, <2>3, <2>4
  <2>6. head \in Seq(GoodDisk) /\ Len(head) = 2 /\ head[1] = BlankDisk /\ head[2] = new
    BY <1>1, <2>2
  <2> HIDE DEF head
  <2>7. /\ all \in Seq(GoodDisk) /\ DOMAIN all = 1 .. DataStart + 2
        /\ all[1] = BlankDisk /\ all[2] = new
        /\ \A k \in 3 .. DataStart + 2 : all[k] = mark[k - 2]
    <3>1. /\ Len(all) = Len(head) + Len(mark)
          /\ \A k \in 1 .. Len(head) + Len(mark) :
               all[k] = IF k <= Len(head) THEN head[k] ELSE mark[k - Len(head)]
      BY <2>5, <2>6, ConcatProperties
    <3>2. all \in Seq(GoodDisk)
      BY <2>5, <2>6, ConcatProperties
    <3> HIDE DEF all
    <3>3. DOMAIN all = 1 .. DataStart + 2
      BY <2>1, <2>5, <2>6, <3>1, <3>2
    <3> QED
      BY <2>1, <2>5, <2>6, <3>1, <3>2, <3>3
  <2> HIDE DEF all
  <2>8. ASSUME NEW k \in 1 .. DataStart + 2
        PROVE  MetaKept(IF k = 1 THEN d ELSE all[k - 1], all[k])
    <3>1. CASE k = 1
      BY <1>1, <2>7, <3>1 DEF MetaKept
    <3>2. CASE k \in 2 .. 3
      <4>1. all[k - 1].bits = {}
        BY <1>1, <2>2, <2>7, <3>2
      <4>2. ~(MetaBlock \subseteq {})
        BY <2>1 DEF MetaBlock
      <4> QED
        BY <3>2, <4>1, <4>2 DEF MetaKept
    <3>3. CASE k \in 4 .. DataStart + 2
      <4>1. /\ k - 2 \in 1 .. DataStart /\ k - 3 \in 1 .. DataStart
            /\ k - 1 \in 3 .. DataStart + 2
            /\ (k - 1) - 2 = k - 3
        BY <2>1, <3>3
      <4>2. all[k] = mark[k - 2] /\ all[k - 1] = mark[k - 3]
        BY <2>7, <3>3, <4>1
      <4>3. all[k].bits = 0 .. (k - 2) - 1 /\ all[k - 1].bits = 0 .. (k - 3) - 1
        BY <2>3, <4>1, <4>2
      <4>4. all[k - 1].bits \subseteq all[k].bits
        BY <4>3
      <4> QED
        BY <3>3, <4>4 DEF MetaKept
    <3> QED
      BY <2>1, <3>1, <3>2, <3>3
  <2>9. FormatDisks(arg) = all
    BY <1>4 DEF FormatDisks, all, head, mark, new
  <2> QED
    BY <2>7, <2>8, <2>9 DEF Chain
<1> QED
  BY <1>2, <1>3, <1>4 DEF FormatArg

LEMMA FormatGood ==
  ASSUME CrashInv, NEW arg \in FormatArg, StartFormat(arg)
  PROVE  CrashInv'
<1>1. /\ Still /\ Start(Name, FormatDisks(arg)) /\ Name \in SUBSET Name
      /\ ~up /\ up' = up /\ sb' = sb /\ bitmap' = bitmap
  BY DEF StartFormat, Start
<1>2. FormatDisks(arg) \in Seq(GoodDisk) /\ Chain(OnDisk, FormatDisks(arg))
  BY <1>1, IdleFacts, FormatFacts
<1> QED
  BY <1>1, <1>2, IdleFacts, StartChain

-----------------------------------------------------------------------------
(* The disk and the end of a process keep it.                              *)

\* What a write does to the writes that are left.
LEMMA DiskWriteFacts ==
  ASSUME CrashInv, DiskWrite
  PROVE  /\ OnDisk' = Head(todo) /\ todo' = Tail(todo)
         /\ OnDisk' \in GoodDisk /\ todo' \in Seq(GoodDisk)
         /\ Due' = Due
         /\ MetaKept(OnDisk, OnDisk')
         /\ todo # <<>> /\ 1 \in DOMAIN todo /\ todo[1] = OnDisk'
<1>1. OnDisk' = Head(todo) /\ todo' = Tail(todo) /\ todo # <<>>
  <2>1. todo \in Seq(GoodDisk) /\ todo # <<>>
    BY DEF CrashInv, CrashType, DiskWrite, Still
  <2>2. Head(todo) \in GoodDisk
    BY <2>1, EndTail
  <2> QED
    BY <2>1, <2>2 DEF DiskWrite, OnDisk, GoodDisk
<1>2. todo \in Seq(GoodDisk)
  BY DEF CrashInv, CrashType
<1>3. /\ OnDisk' \in GoodDisk /\ todo' \in Seq(GoodDisk)
      /\ EndOf(OnDisk', todo') = EndOf(OnDisk, todo)
  BY <1>1, <1>2, EndTail
<1>4. 1 \in DOMAIN todo /\ todo[1] = OnDisk'
  BY <1>1, <1>2
<1>5. MetaKept(OnDisk, OnDisk')
  BY <1>4 DEF CrashInv, Chain
<1>6. Due' = Due
  BY <1>3 DEF Due
<1> QED
  BY <1>1, <1>3, <1>4, <1>5, <1>6

LEMMA DiskWriteGood ==
  ASSUME CrashInv, DiskWrite
  PROVE  CrashInv'
<1>1. /\ OnDisk' = Head(todo) /\ todo' = Tail(todo)
      /\ OnDisk' \in GoodDisk /\ todo' \in Seq(GoodDisk)
      /\ Due' = Due /\ todo # <<>> /\ todo[1] = OnDisk' /\ todo \in Seq(GoodDisk)
  BY DiskWriteFacts DEF CrashInv, CrashType
<1>2. job' \in [about: SUBSET Name, was: GoodDisk, due: GoodDisk]
  BY <1>1 DEF DiskWrite, Rest, CrashInv, CrashType
<1>3. Chain(OnDisk, todo)'
  <2>1. Len(todo) \in Nat /\ DOMAIN todo = 1 .. Len(todo)
        /\ DOMAIN Tail(todo) = 1 .. Len(todo) - 1
        /\ \A k \in 1 .. Len(todo) - 1 : Tail(todo)[k] = todo[k + 1]
    BY <1>1
  <2> SUFFICES ASSUME NEW k \in 1 .. Len(todo) - 1
               PROVE  MetaKept(IF k = 1 THEN OnDisk' ELSE Tail(todo)[k - 1], Tail(todo)[k])
    BY <1>1, <2>1 DEF Chain
  <2>2. MetaKept(todo[k], todo[k + 1])
    <3>1. k + 1 \in DOMAIN todo /\ k + 1 # 1 /\ (k + 1) - 1 = k
      BY <2>1
    <3>2. MetaKept(IF k + 1 = 1 THEN OnDisk ELSE todo[(k + 1) - 1], todo[k + 1])
      BY <3>1 DEF CrashInv, Chain
    <3> QED
      BY <3>1, <3>2
  <2>3. Tail(todo)[k] = todo[k + 1]
    BY <2>1
  <2>4. CASE k = 1
    BY <1>1, <2>2, <2>3, <2>4
  <2>5. CASE k # 1
    <3>1. k - 1 \in 1 .. Len(todo) - 1 /\ (k - 1) + 1 = k
      BY <2>1, <2>5
    <3>2. Tail(todo)[k - 1] = todo[k]
      BY <2>1, <3>1
    <3> QED
      BY <2>2, <2>3, <2>5, <3>2
  <2> QED
    BY <2>4, <2>5
<1>4. up' = up /\ sb' = sb /\ bitmap' = bitmap /\ cuts' = cuts
  BY DEF DiskWrite
<1> QED
  BY <1>1, <1>2, <1>3, <1>4 DEF CrashInv, CrashType

LEMMA MountGood ==
  ASSUME CrashInv, StartMount
  PROVE  CrashInv'
<1>1. /\ Still /\ OnDisk' = OnDisk /\ todo' = todo /\ job' = job /\ cuts' = cuts
      /\ up' = TRUE /\ sb' = dsb /\ bitmap' = dbitmap /\ dsb.magic
  BY DEF StartMount, Mount, disk, OnDisk
<1>2. Due' = OnDisk
  BY <1>1, IdleFacts DEF Due
<1>3. dsb \in Superblock /\ dbitmap \subseteq Block
  BY <1>1, IdleFacts, GoodParts, DiskParts
<1>4. Chain(OnDisk, todo)'
  BY <1>1 DEF Chain, CrashInv
<1> QED
  BY <1>1, <1>2, <1>3, <1>4, DiskParts DEF CrashInv, CrashType

LEMMA KillGood ==
  ASSUME CrashInv, KillIdle \/ KillBusy
  PROVE  CrashInv'
<1>1. /\ OnDisk' = OnDisk /\ job' = job /\ (todo' = todo \/ todo' = <<>>)
      /\ up' = FALSE /\ sb' = ZeroSb /\ bitmap' = {}
      /\ cuts' \in Nat
  BY DEF KillIdle, KillBusy, Kill, Exit, disk, OnDisk, CrashInv, CrashType
<1>2. todo' \in Seq(GoodDisk) /\ Chain(OnDisk', todo')
  <2>1. todo \in Seq(GoodDisk) /\ <<>> \in Seq(GoodDisk) /\ DOMAIN <<>> = {}
    BY DEF CrashInv, CrashType
  <2>2. Chain(OnDisk, <<>>)
    BY <2>1 DEF Chain
  <2> QED
    BY <1>1, <2>1, <2>2 DEF CrashInv
<1>3. Chain(OnDisk, todo)'
  BY <1>2 DEF Chain
<1> QED
  BY <1>1, <1>2, <1>3, NewSbType DEF CrashInv, CrashType

\* Only DiskWrite changes the disk.
LEMMA OnlyWrites ==
  ASSUME CrashNext, ~DiskWrite
  PROVE  disk' = disk
<1>1. ASSUME NEW about, NEW disks, Start(about, disks) PROVE disk' = disk
  BY <1>1 DEF Start
<1>2. ASSUME NEW cmd, Decline(cmd) PROVE disk' = disk
  BY <1>1, <1>2 DEF Decline
<1>3. ASSUME NEW arg \in FormatArg, StartFormat(arg) PROVE disk' = disk
  BY <1>1, <1>3 DEF StartFormat
<1>4. ASSUME StartMount \/ KillIdle \/ KillBusy PROVE disk' = disk
  BY <1>4 DEF StartMount, Mount, KillIdle, Kill, KillBusy
<1>5. ASSUME StartUnmount PROVE disk' = disk
  BY <1>1, <1>5 DEF StartUnmount
<1>6. ASSUME NEW n \in Name, StartCreate(n) PROVE disk' = disk
  BY <1>1, <1>2, <1>6 DEF StartCreate
<1>7. ASSUME NEW n \in Name, StartDelete(n) PROVE disk' = disk
  BY <1>1, <1>2, <1>7 DEF StartDelete
<1>8. ASSUME NEW n \in Name, NEW m \in Name, StartRename(n, m) PROVE disk' = disk
  BY <1>1, <1>2, <1>8 DEF StartRename
<1>9. ASSUME NEW n \in Name, NEW size \in Size, StartTruncate(n, size) PROVE disk' = disk
  BY <1>1, <1>2, <1>9 DEF StartTruncate
<1>10. ASSUME NEW n \in Name, NEW bytes \in Payload, StartWrite(n, bytes) PROVE disk' = disk
  BY <1>1, <1>2, <1>10 DEF StartWrite
<1> QED
  BY <1>3, <1>4, <1>5, <1>6, <1>7, <1>8, <1>9, <1>10 DEF CrashNext

-----------------------------------------------------------------------------
(* The theorems.                                                           *)

LEMMA CrashStart == CrashInit => CrashInv
<1> SUFFICES ASSUME CrashInit PROVE CrashInv
  OBVIOUS
<1>1. OnDisk = BlankDisk
  BY DEF CrashInit, Init, OnDisk, BlankDisk
<1>2. OnDisk \in GoodDisk
  BY <1>1, BlankGood
<1>3. /\ up = FALSE /\ sb = ZeroSb /\ bitmap = {} /\ todo = <<>> /\ cuts = 0
      /\ job = Rest(OnDisk)
  BY DEF CrashInit, Init
<1>4. /\ todo \in Seq(GoodDisk) /\ Chain(OnDisk, todo)
      /\ job \in [about: SUBSET Name, was: GoodDisk, due: GoodDisk]
  <2>1. <<>> \in Seq(GoodDisk) /\ DOMAIN <<>> = {}
    OBVIOUS
  <2> QED
    BY <1>2, <1>3, <2>1 DEF Chain, Rest
<1> QED
  BY <1>2, <1>3, <1>4, NewSbType DEF CrashInv, CrashType

LEMMA CrashStep == CrashInv /\ [CrashNext]_crashVars => CrashInv'
<1> SUFFICES ASSUME CrashInv, [CrashNext]_crashVars PROVE CrashInv'
  OBVIOUS
<1>1. CASE UNCHANGED crashVars
  <2>1. /\ OnDisk' = OnDisk /\ todo' = todo /\ job' = job /\ cuts' = cuts
        /\ up' = up /\ sb' = sb /\ bitmap' = bitmap /\ Due' = Due
    BY <1>1 DEF crashVars, vars, disk, OnDisk, Due
  <2>2. Chain(OnDisk, todo)'
    BY <2>1 DEF Chain, CrashInv
  <2> QED
    BY <2>1, <2>2 DEF CrashInv, CrashType
<1> QED
  BY <1>1, FormatGood, MountGood, UnmountGood, CreateGood, DeleteGood, RenameGood,
     TruncateGood, WriteGood, DiskWriteGood, KillGood DEF CrashNext

\* The invariant, with the type of every variable, however often commands
\* are cut off.
THEOREM CrashSafe == CrashSpec => []CrashInv
BY CrashStart, CrashStep, PTL DEF CrashSpec

\* However often commands are cut off, no two files have the same name.
THEOREM NamesKept == CrashSpec => []NamedOnce
<1>1. CrashInv => NamedOnce
  <2> SUFFICES ASSUME CrashInv PROVE NamedOnce
    OBVIOUS
  <2>1. inode \in GoodTable
    BY GoodParts, DiskParts DEF CrashInv, CrashType
  <2> QED
    BY <2>1 DEF NamedOnce, UsedSlots, GoodTable
<1> QED
  BY <1>1, CrashSafe, PTL

\* Once a format is done the metadata blocks stay marked and no file points
\* at one, until the next format truncates the disk.
THEOREM MetadataStays == CrashSpec => MetadataSafe
<1>1. CrashInv /\ [CrashNext]_crashVars => [Sound /\ dsb'.magic => Sound']_crashVars
  <2> SUFFICES ASSUME CrashInv, CrashNext, Sound, dsb'.magic
               PROVE  Sound'
    BY DEF crashVars
  <2>1. CrashInv'
    BY CrashStep
  <2>2. inode' \in GoodTable
    BY <2>1, GoodParts, DiskParts DEF CrashInv, CrashType
  <2>3. (\A p \in Pointer : BlockAt(p) \in DataBlock)'
    BY <2>2 DEF Pointer, BlockAt, GoodTable, BlocksOf, Image
  <2>4. MetaBlock \subseteq dbitmap'
    <3>1. CASE DiskWrite
      BY <3>1, DiskWriteFacts, DiskParts DEF MetaKept, Sound
    <3>2. CASE ~DiskWrite
      BY <3>2, OnlyWrites DEF Sound, disk
    <3> QED
      BY <3>1, <3>2
  <2> QED
    BY <2>3, <2>4 DEF Sound
<1> QED
  BY <1>1, CrashSafe, PTL DEF CrashSpec, MetadataSafe
-----------------------------------------------------------------------------
(* Until a command is cut off the writes of a command add up to what       *)
(* MiniFs says it does.  The safety of MiniFs is needed for it: without    *)
(* CountsAgree create could find no slot and write run out of blocks.      *)

\* MiniFs, and what is proved of it, on the disk that is due.
V == INSTANCE MiniFsSafetyProofs WITH
  dsb <- Due.sb, dbitmap <- Due.bits, inode <- Due.inode, data <- Due.data

\* What the operators of MiniFs that do not look at the volume mean there.
LEMMA SameConstants ==
  /\ Volume!InodeId = InodeId /\ Volume!Block = Block /\ Volume!MetaBlock = MetaBlock
  /\ Volume!ZeroInode = ZeroInode /\ Volume!ZeroSb = ZeroSb /\ Volume!FreshSb = FreshSb
  /\ Volume!ZeroChunk = ZeroChunk
  /\ \A n : Volume!NewInode(n) = NewInode(n)
  /\ \A x : Volume!Blocks(x) = Blocks(x) /\ Volume!BlocksNeeded(x) = BlocksNeeded(x)
  /\ \A f : Volume!Image(f) = Image(f)
  /\ \A x : Volume!Bump(x) = Bump(x)
  /\ \A x, y : Volume!ChunkOf(x, y) = ChunkOf(x, y)
  /\ \A x, y : Volume!FirstFit(x, y) = FirstFit(x, y)
  /\ \A x, y : Volume!CutOff(x, y) = CutOff(x, y)
  /\ \A i, S : Volume!IsFirst(i, S) = IsFirst(i, S)
  /\ \A arg : Volume!FormatBitmap(arg) = FormatBitmap(arg)
<1>1. /\ Volume!InodeId = InodeId /\ Volume!Block = Block /\ Volume!MetaBlock = MetaBlock
  BY DEF Volume!InodeId, InodeId, Volume!Block, Block, Volume!MetaBlock, MetaBlock
<1>2. Volume!ZeroInode = ZeroInode /\ Volume!ZeroSb = ZeroSb /\ Volume!ZeroChunk = ZeroChunk
  BY DEF Volume!ZeroInode, ZeroInode, Volume!ZeroSb, ZeroSb, Volume!ZeroChunk, ZeroChunk
<1>3. Volume!FreshSb = FreshSb /\ \A n : Volume!NewInode(n) = NewInode(n)
  BY <1>2 DEF Volume!FreshSb, FreshSb, Volume!NewInode, NewInode
<1>4. \A x : Volume!Blocks(x) = Blocks(x) /\ Volume!BlocksNeeded(x) = BlocksNeeded(x)
  BY DEF Volume!Blocks, Blocks, Volume!BlocksNeeded, BlocksNeeded
<1>5. \A f : Volume!Image(f) = Image(f)
  BY DEF Volume!Image, Image
<1>6. \A x : Volume!Bump(x) = Bump(x)
  BY DEF Volume!Bump, Bump
<1>7. \A x, y : Volume!ChunkOf(x, y) = ChunkOf(x, y)
  BY Zenon DEF Volume!ChunkOf, ChunkOf
<1>8. \A x, y : Volume!FirstFit(x, y) = FirstFit(x, y)
  BY Zenon DEF Volume!FirstFit, FirstFit
<1>9. \A x, y : Volume!CutOff(x, y) = CutOff(x, y)
  BY <1>4 DEF Volume!CutOff, CutOff
<1>10. \A i, S : Volume!IsFirst(i, S) = IsFirst(i, S)
  BY Zenon DEF Volume!IsFirst, IsFirst
<1>11. \A arg : Volume!FormatBitmap(arg) = FormatBitmap(arg)
  BY <1>1 DEF Volume!FormatBitmap, FormatBitmap
<1> QED
  BY <1>1, <1>2, <1>3, <1>4, <1>5, <1>6, <1>7, <1>8, <1>9, <1>10, <1>11

\* When no command is under way MiniFs looks at the disk itself.
LEMMA SameLooks ==
  ASSUME Due = OnDisk
  PROVE  /\ Due.sb = dsb /\ Due.bits = dbitmap /\ Due.inode = inode /\ Due.data = data
         /\ \A n : Volume!Holders(n) = Holders(n)
         /\ Volume!FreeSlots = FreeSlots
         /\ \A n, i : Volume!Found(n, i) <=> Found(n, i)
         /\ \A x : Volume!FitsNot(x) <=> FitsNot(x)
         /\ \A n : Volume!MayCreate(n) <=> MayCreate(n)
<1>1. Due.sb = dsb /\ Due.bits = dbitmap /\ Due.inode = inode /\ Due.data = data
  BY DiskParts
<1>2. \A n : Volume!Holders(n) = Holders(n)
  BY <1>1, SameConstants DEF Volume!Holders, Holders
<1>3. Volume!FreeSlots = FreeSlots
  BY <1>1, SameConstants DEF Volume!FreeSlots, FreeSlots
<1>4. \A n, i : Volume!Found(n, i) <=> Found(n, i)
  BY <1>2, SameConstants DEF Volume!Found, Found, Volume!IsFirst, IsFirst
<1>5. \A x : Volume!FitsNot(x) <=> FitsNot(x)
  BY SameConstants DEF Volume!FitsNot, FitsNot
<1>6. \A n : Volume!MayCreate(n) <=> MayCreate(n)
  BY <1>2 DEF Volume!MayCreate, MayCreate
<1> QED
  BY <1>1, <1>2, <1>3, <1>4, <1>5, <1>6

\* Answers are the same.
LEMMA SameAnswers ==
  /\ \A cmd, out : Volume!Ok(cmd, out) <=> Ok(cmd, out)
  /\ \A cmd : Volume!Error(cmd) <=> Error(cmd)
  /\ \A arg : Volume!AnswerFormat(arg) <=> AnswerFormat(arg)
BY Zenon DEF Volume!Ok, Ok, Volume!Error, Error, Volume!AnswerFormat, AnswerFormat

\* What the safety of MiniFs says of the disk that is due.
DueSafe ==
  /\ up => sb = Due.sb
  /\ Apart(Due.inode, Due.bits)
  /\ Due.sb.magic => /\ Due.sb.free_blocks = Cardinality(Block \ Due.bits)
                     /\ Due.sb.free_inodes = Cardinality({i \in InodeId : ~Due.inode[i].used})

LEMMA SafeMeans ==
  ASSUME V!SafeInv
  PROVE  DueSafe
<1>1. V!Durable /\ V!Apart(Due.inode, Due.bits) /\ V!CountsAgree
  BY DEF V!SafeInv, V!DiskSafe
<1>2. /\ V!InodeId = InodeId /\ V!Block = Block /\ V!DataBlock = DataBlock
      /\ \A ino : V!BlocksOf(ino) = BlocksOf(ino)
      /\ \A f, S : V!OneToOne(f, S) <=> OneToOne(f, S)
  <2>1. V!InodeId = InodeId /\ V!Block = Block /\ V!DataBlock = DataBlock
    BY DEF V!InodeId, InodeId, V!Block, Block, V!DataBlock, DataBlock, V!MetaBlock, MetaBlock
  <2>2. \A ino : V!BlocksOf(ino) = BlocksOf(ino)
    BY DEF V!BlocksOf, BlocksOf, V!Image, Image
  <2>3. \A f, S : V!OneToOne(f, S) <=> OneToOne(f, S)
    BY Zenon DEF V!OneToOne, OneToOne
  <2> QED
    BY <2>1, <2>2, <2>3
<1>3. Apart(Due.inode, Due.bits)
  BY <1>1, <1>2 DEF V!Apart, Apart
<1>4. \A S : V!Cardinality(S) = Cardinality(S)
  BY Zenon DEF V!Cardinality, Cardinality
<1>5. V!FreeSlots = {i \in InodeId : ~Due.inode[i].used}
  BY <1>2 DEF V!FreeSlots
<1>6. up => sb = Due.sb
  BY <1>1 DEF V!Durable
<1>7. Due.sb.magic => /\ Due.sb.free_blocks = Cardinality(Block \ Due.bits)
                      /\ Due.sb.free_inodes = Cardinality({i \in InodeId : ~Due.inode[i].used})
  BY <1>1, <1>2, <1>4, <1>5 DEF V!CountsAgree
<1> QED
  BY <1>3, <1>6, <1>7 DEF DueSafe

-----------------------------------------------------------------------------
(* Command by command.                                                     *)

LEMMA DeclineIs ==
  ASSUME CrashInv, NEW cmd, Decline(cmd)
  PROVE  Volume!Refuse(cmd)
<1>1. Still /\ Start({}, <<>>) /\ up' = up /\ sb' = sb /\ bitmap' = bitmap /\ Error(cmd)
  BY DEF Decline, Start
<1>2. Due = OnDisk /\ Due' = OnDisk
  BY <1>1, StartMeans DEF EndOf
<1> QED
  BY <1>1, <1>2, SameAnswers DEF Volume!Refuse, Volume!disk

LEMMA MountIs ==
  ASSUME CrashInv, StartMount
  PROVE  Volume!Mount
<1>1. Still /\ OnDisk' = OnDisk /\ todo' = todo
  BY DEF StartMount, Mount, disk, OnDisk
<1>2. Due = OnDisk /\ Due' = Due
  BY <1>1, IdleFacts DEF Due
<1> QED
  BY <1>2, SameLooks DEF StartMount, Mount, Volume!Mount, Volume!disk

LEMMA KillIs ==
  ASSUME CrashInv, KillIdle
  PROVE  Volume!Kill
<1>1. OnDisk' = OnDisk /\ todo' = todo /\ up /\ Exit /\ reply' = reply
  BY DEF KillIdle, Kill, disk, OnDisk
<1>2. Due' = Due
  BY <1>1 DEF Due
<1>3. Volume!Exit
  BY <1>1, SameConstants DEF Exit, Volume!Exit
<1> QED
  BY <1>1, <1>2, <1>3 DEF Volume!Kill, Volume!disk

LEMMA UnmountIs ==
  ASSUME CrashInv, StartUnmount
  PROVE  Volume!Unmount
<1> DEFINE d == [OnDisk EXCEPT !.bits = bitmap]
           e == [d EXCEPT !.sb = sb]
<1>1. Still /\ up /\ Start({}, <<d, e>>) /\ Exit /\ reply' = reply
  BY DEF StartUnmount, Start
<1>2. OnDisk \in GoodDisk /\ sb.magic /\ Due = OnDisk
  BY <1>1, IdleFacts
<1>3. e.sb = sb /\ e.bits = bitmap /\ e.inode = inode /\ e.data = data
  BY <1>2, DiskParts DEF GoodDisk
<1>4. Due' = e
  BY <1>1, StartMeans DEF EndOf
<1>5. Volume!Exit
  BY <1>1, SameConstants DEF Exit, Volume!Exit
<1> HIDE DEF d, e
<1> QED
  BY <1>1, <1>2, <1>3, <1>4, <1>5, SameLooks
     DEF Volume!Unmount, Volume!SyncedSb, Volume!SyncedBitmap

LEMMA CreateIs ==
  ASSUME CrashInv, DueSafe, NEW n \in Name, StartCreate(n)
  PROVE  Volume!Create(n)
<1>0. up /\ Still
  BY DEF StartCreate, Decline, Start
<1>a. Due = OnDisk /\ OnDisk \in GoodDisk /\ sb \in Superblock
  BY <1>0, IdleFacts
<1>b. FreeSlots = {} => ~MayCreate(n)
  <2> SUFFICES ASSUME FreeSlots = {} PROVE sb.free_inodes = 0
    BY DEF MayCreate
  <2>1. sb = dsb /\ dsb.magic /\ {i \in InodeId : ~inode[i].used} = {}
    BY <1>0, <1>a, IdleFacts, SameLooks DEF DueSafe, FreeSlots
  <2> QED
    BY <1>a, <2>1, SameLooks, FS_EmptySet DEF DueSafe
<1>1. CASE ~MayCreate(n) /\ Decline("create")
  BY <1>0, <1>1, <1>a, DeclineIs, SameLooks DEF Volume!Create
<1>2. ASSUME MayCreate(n), sb' = [sb EXCEPT !.free_inodes = @ - 1],
             NEW i \in InodeId, IsFirst(i, FreeSlots),
             Start({n}, Made(OnDisk, i, NewInode(n), sb')),
             Ok("create", <<>>), up' = up, bitmap' = bitmap
      PROVE  Volume!Create(n)
  <2> DEFINE e == Named(OnDisk, i, NewInode(n), sb')
  <2>1. Due' = e
    <3> DEFINE all == Made(OnDisk, i, NewInode(n), sb')
    <3>1. EndOf(OnDisk, all) = e
      BY MadeFacts
    <3>2. Start({n}, all)
      BY <1>2
    <3> HIDE DEF all, e
    <3> QED
      BY <3>1, <3>2, StartMeans
  <2>2. /\ e.sb = sb' /\ e.bits = dbitmap /\ e.data = data
        /\ e.inode = [inode EXCEPT ![i] = NewInode(n)]
    BY <1>a, DiskParts DEF Named, Slot, GoodDisk
  <2> HIDE DEF e
  <2>3. /\ Volume!MayCreate(n) /\ i \in Volume!InodeId
        /\ Volume!IsFirst(i, Volume!FreeSlots)
        /\ Due'.inode = [Due.inode EXCEPT ![i] = Volume!NewInode(n)]
    BY <1>2, <1>a, <2>1, <2>2, SameLooks, SameConstants
  <2>4. /\ Volume!SaveSb /\ Volume!Ok("create", <<>>)
        /\ Due'.bits = Due.bits /\ Due'.data = Due.data
    BY <1>2, <1>a, <2>1, <2>2, SameLooks, SameAnswers DEF Volume!SaveSb
  <2> QED
    BY <1>0, <1>2, <2>3, <2>4 DEF Volume!Create
<1> QED
  BY <1>1, <1>2, <1>b DEF StartCreate

LEMMA DeleteIs ==
  ASSUME CrashInv, NEW n \in Name, StartDelete(n)
  PROVE  Volume!Delete(n)
<1>0. up /\ Still
  BY DEF StartDelete, Decline, Start
<1>a. Due = OnDisk /\ OnDisk \in GoodDisk /\ inode \in GoodTable /\ bitmap = dbitmap
  BY <1>0, IdleFacts
<1>1. CASE Holders(n) = {} /\ Decline("rm")
  BY <1>0, <1>1, <1>a, DeclineIs, SameLooks DEF Volume!Delete
<1>2. ASSUME NEW i \in InodeId, Found(n, i),
             NEW list, list = inode[i].direct,
             bitmap' = bitmap \ Image(list),
             sb' = [sb EXCEPT !.free_blocks = @ + Blocks(inode[i].size),
                              !.free_inodes = @ + 1],
             Start({n}, Dropped(OnDisk, list, i, ZeroInode, sb')),
             Ok("rm", <<>>), up' = up
      PROVE  Volume!Delete(n)
  <2> DEFINE c == Cleared(OnDisk, Image(list))
             e == Named(c, i, ZeroInode, sb')
  <2>1. Due' = e
    <3>1. list \in Seq(Block)
      BY <1>2, <1>a, PointerList
    <3> DEFINE all == Dropped(OnDisk, list, i, ZeroInode, sb')
    <3>2. /\ all \in Seq(Freeing(OnDisk, Image(list)) \cup {Slot(c, i, ZeroInode), e})
          /\ EndOf(OnDisk, all) = e
      <4>1. OnDisk \in GoodDisk
        BY <1>a
      <4> QED
        BY ONLY <3>1, <4>1, FreedSaved
    <3>3. Start({n}, all)
      BY <1>2
    <3> HIDE DEF all, e
    <3> QED
      BY <3>2, <3>3, StartMeans
  <2>2. /\ e.sb = sb' /\ e.bits = dbitmap \ Image(list) /\ e.data = data
        /\ e.inode = [inode EXCEPT ![i] = ZeroInode]
    BY <1>a, DiskParts DEF Named, Slot, Cleared, GoodDisk
  <2> HIDE DEF e
  <2>3. /\ Due'.inode = [Due.inode EXCEPT ![i] = Volume!ZeroInode]
        /\ bitmap' = bitmap \ Volume!Image(Due.inode[i].direct)
        /\ sb' = [sb EXCEPT !.free_blocks = @ + Volume!Blocks(Due.inode[i].size),
                            !.free_inodes = @ + 1]
        /\ i \in Volume!InodeId /\ Volume!Found(n, i)
    BY <1>2, <1>a, <2>1, <2>2, SameLooks, SameConstants
  <2>4. /\ Volume!SyncBitmap /\ Volume!SaveSb /\ Volume!Ok("rm", <<>>)
        /\ Due'.data = Due.data
    BY <1>2, <1>a, <2>1, <2>2, SameLooks, SameAnswers DEF Volume!SaveSb, Volume!SyncBitmap
  <2> QED
    BY <1>0, <1>2, <2>3, <2>4 DEF Volume!Delete
<1> QED
  BY <1>1, <1>2 DEF StartDelete, Dropped

LEMMA RenameIs ==
  ASSUME CrashInv, NEW old \in Name, NEW new \in Name, StartRename(old, new)
  PROVE  Volume!Rename(old, new)
<1>0. up /\ Still
  BY DEF StartRename, Decline, Start
<1>a. Due = OnDisk /\ OnDisk \in GoodDisk /\ inode \in [InodeId -> Inode]
  BY <1>0, IdleFacts
<1>1. CASE /\ new \in LongName \/ Holders(old) = {} \/ Holders(new) # {}
           /\ Decline("rename")
  BY <1>0, <1>1, <1>a, DeclineIs, SameLooks DEF Volume!Rename
<1>2. ASSUME NEW i \in InodeId, Found(old, i), Holders(new) = {},
             Start({old, new}, <<Slot(OnDisk, i, [inode[i] EXCEPT !.name = new])>>),
             Ok("rename", <<>>), up' = up, sb' = sb, bitmap' = bitmap
      PROVE  Volume!Rename(old, new)
  <2> DEFINE e == Slot(OnDisk, i, [inode[i] EXCEPT !.name = new])
  <2>1. Due' = e
    <3> HIDE DEF e
    <3>1. Start({old, new}, <<e>>)
      BY <1>2 DEF e
    <3> QED
      BY <3>1, StartMeans DEF EndOf
  <2>2. /\ e.sb = dsb /\ e.bits = dbitmap /\ e.data = data
        /\ e.inode = [inode EXCEPT ![i].name = new]
    BY <1>a, DiskParts DEF Slot, GoodDisk
  <2> HIDE DEF e
  <2>3. /\ Due'.inode = [Due.inode EXCEPT ![i].name = new]
        /\ i \in Volume!InodeId /\ Volume!Found(old, i) /\ Volume!Holders(new) = {}
        /\ Volume!Ok("rename", <<>>)
        /\ Due'.sb = Due.sb /\ Due'.bits = Due.bits /\ Due'.data = Due.data
    BY <1>2, <1>a, <2>1, <2>2, SameLooks, SameConstants, SameAnswers
  <2> QED
    BY <1>0, <1>2, <2>3 DEF Volume!Rename
<1> QED
  BY <1>1, <1>2 DEF StartRename

LEMMA TruncateIs ==
  ASSUME CrashInv, NEW n \in Name, NEW size \in Size, StartTruncate(n, size)
  PROVE  Volume!Truncate(n, size)
<1>0. up /\ Still
  BY DEF StartTruncate, Decline, Start
<1>a. Due = OnDisk /\ OnDisk \in GoodDisk /\ inode \in GoodTable /\ bitmap = dbitmap
      /\ sb \in Superblock
  BY <1>0, IdleFacts
<1>1. CASE Holders(n) = {} /\ Decline("truncate")
  BY <1>0, <1>1, <1>a, DeclineIs, SameLooks DEF Volume!Truncate
<1>2. CASE \E i \in InodeId : Found(n, i) /\ size > inode[i].size /\ Decline("truncate")
  <2>1. PICK i \in InodeId : Found(n, i) /\ size > inode[i].size /\ Decline("truncate")
    BY <1>2
  <2>2. Volume!Refuse("truncate")
    BY <2>1, DeclineIs
  <2>3. i \in Volume!InodeId /\ Volume!Found(n, i) /\ size > Due.inode[i].size
    BY <2>1, <1>a, SameLooks, SameConstants
  <2> QED
    BY <1>0, <2>2, <2>3 DEF Volume!Truncate
<1>3. ASSUME NEW i \in InodeId, Found(n, i), size <= inode[i].size,
             NEW list, list = SubSeq(inode[i].direct, Blocks(size) + 1, Blocks(inode[i].size)),
             NEW kept, kept = SubSeq(inode[i].direct, 1, Blocks(size)),
             NEW ino, ino = [inode[i] EXCEPT !.size = size, !.direct = kept],
             bitmap' = bitmap \ Image(list),
             sb' = [sb EXCEPT !.free_blocks = @ + Len(list)],
             Start({n}, Dropped(OnDisk, list, i, ino, sb')),
             Ok("truncate", <<>>), up' = up
      PROVE  Volume!Truncate(n, size)
  <2> DEFINE c == Cleared(OnDisk, Image(list))
             e == Named(c, i, ino, sb')
  <2>1. /\ inode[i].direct \in Seq(Block) /\ Len(inode[i].direct) = Blocks(inode[i].size)
        /\ inode[i].size \in Nat
        /\ Blocks(inode[i].size) \in Nat
    BY <1>a, PointerList, SizeBlocks
  <2>2. Blocks(size) \in Nat /\ Blocks(size) <= Blocks(inode[i].size)
    BY <1>3, <2>1, SizeBlocks, BlocksMonotone
  <2>3. /\ list \in Seq(Block) /\ Len(list) = Blocks(inode[i].size) - Blocks(size)
        /\ Image(list) = CutOff(inode[i], size)
        /\ kept = [k \in 1 .. Blocks(size) |-> inode[i].direct[k]]
    <3>1. /\ list \in Seq(Block) /\ Len(list) = Len(inode[i].direct) - Blocks(size)
          /\ Image(list) = Cut(inode[i].direct, Blocks(size), Len(inode[i].direct))
          /\ kept = Keep(inode[i].direct, Blocks(size))
      BY <1>3, <2>1, <2>2, CutInTwo
    <3> QED
      BY <2>1, <3>1 DEF Cut, CutOff, Keep
  <2>4. Due' = e
    <3> DEFINE all == Dropped(OnDisk, list, i, ino, sb')
    <3>1. /\ all \in Seq(Freeing(OnDisk, Image(list)) \cup {Slot(c, i, ino), e})
          /\ EndOf(OnDisk, all) = e
      <4>1. OnDisk \in GoodDisk
        BY <1>a
      <4> QED
        BY ONLY <2>3, <4>1, FreedSaved
    <3>2. Start({n}, all)
      BY <1>3
    <3> HIDE DEF all, e
    <3> QED
      BY <3>1, <3>2, StartMeans
  <2>5. /\ e.sb = sb' /\ e.bits = dbitmap \ Image(list) /\ e.data = data
        /\ e.inode = [inode EXCEPT ![i] = ino]
    BY <1>a, DiskParts DEF Named, Slot, Cleared, GoodDisk
  <2> HIDE DEF e
  <2>6. [inode EXCEPT ![i] = ino] = [inode EXCEPT ![i].size = size, ![i].direct = kept]
    <3>1. inode[i] \in Inode /\ inode \in [InodeId -> Inode]
      BY <1>a DEF GoodTable
    <3> QED
      BY <1>3, <3>1 DEF Inode
  <2>7. /\ i \in Volume!InodeId /\ Volume!Found(n, i) /\ size <= Due.inode[i].size
        /\ bitmap' = bitmap \ Volume!CutOff(Due.inode[i], size)
    BY <1>3, <1>a, <2>3, SameLooks, SameConstants
  <2>8. Due'.inode = [Due.inode EXCEPT
           ![i].size = size,
           ![i].direct = [k \in 1 .. Volume!Blocks(size) |-> Due.inode[i].direct[k]]]
    BY <1>a, <2>3, <2>4, <2>5, <2>6, SameLooks, SameConstants
  <2>9. sb' = [sb EXCEPT !.free_blocks =
                 @ + Volume!Blocks(Due.inode[i].size) - Volume!Blocks(size)]
    <3>1. sb.free_blocks + Len(list)
            = sb.free_blocks + Blocks(inode[i].size) - Blocks(size)
      <4>1. sb.free_blocks \in Nat
        BY <1>a DEF Superblock
      <4> QED
        BY <2>1, <2>2, <2>3, <4>1
    <3> QED
      BY <1>3, <1>a, <3>1, SameLooks, SameConstants
  <2>10. /\ Volume!SyncBitmap /\ Volume!SaveSb /\ Volume!Ok("truncate", <<>>)
         /\ Due'.data = Due.data
    BY <1>3, <1>a, <2>4, <2>5, SameLooks, SameAnswers DEF Volume!SaveSb, Volume!SyncBitmap
  <2> QED
    BY <1>0, <1>3, <2>7, <2>8, <2>9, <2>10 DEF Volume!Truncate
<1> QED
  BY <1>1, <1>2, <1>3 DEF StartTruncate, Dropped

LEMMA WriteIs ==
  ASSUME CrashInv, DueSafe, NEW n \in Name, NEW bytes \in Payload, StartWrite(n, bytes)
  PROVE  Volume!Write(n, bytes)
<1> DEFINE len  == Len(bytes)
           need == BlocksNeeded(Len(bytes))
<1>0. up /\ Still
  BY DEF StartWrite, Decline, Start
<1>a. /\ Due = OnDisk /\ OnDisk \in GoodDisk /\ inode \in GoodTable /\ bitmap = dbitmap
      /\ sb \in Superblock /\ sb.magic /\ sb = dsb
      /\ sb.free_blocks \in Nat /\ dbitmap \subseteq Block
  <2>1. /\ Due = OnDisk /\ OnDisk \in GoodDisk /\ inode \in GoodTable /\ bitmap = dbitmap
        /\ sb \in Superblock /\ sb.magic /\ bitmap \subseteq Block
    BY <1>0, IdleFacts
  <2>2. sb = dsb
    BY <1>0, <2>1, SameLooks DEF DueSafe
  <2> QED
    BY <2>1, <2>2 DEF Superblock
<1>b. bytes \in Seq(Byte \cup {0}) /\ len \in Nat
  <2>1. bytes \in Seq(Byte)
    BY BytesAssumption DEF BytesAssumption
  <2> QED
    BY <2>1, BufferType
<1>1. CASE /\ Holders(n) = {} \/ FitsNot(Len(bytes))
           /\ Decline("write")
  BY <1>0, <1>1, <1>a, DeclineIs, SameLooks DEF Volume!Write
<1>2. ASSUME MetadataKept, NEW i \in InodeId, Found(n, i), ~FitsNot(Len(bytes)),
             NEW clear, clear = ClearFor(inode[i]),
             NEW got, got = IF need <= Cardinality(clear) THEN need ELSE Cardinality(clear),
             NEW pick \in FirstFit(got, clear),
             bitmap' = (bitmap \ Image(inode[i].direct)) \cup Image(pick),
             up' = up,
             \/ /\ got = need
                /\ sb' = [sb EXCEPT !.free_blocks = @ + Blocks(inode[i].size) - need,
                                    !.total_writes = Bump(@)]
                /\ Start({n}, Rewritten(OnDisk, inode[i].direct, i,
                                [inode[i] EXCEPT !.size = Len(bytes),
                                          !.direct = SubSeq(pick, 1, Blocks(Len(bytes)))],
                                pick, bytes, sb'))
                /\ Ok("write", <<>>)
             \/ got < need
      PROVE  Volume!Write(n, bytes)
  <2> DEFINE list == inode[i].direct
             c    == Cleared(OnDisk, Image(list))
             s    == Stuffed(c, pick, bytes)
             keep == SubSeq(pick, 1, Blocks(Len(bytes)))
             ino  == [inode[i] EXCEPT !.size = Len(bytes), !.direct = keep]
             e    == Named(s, i, ino, sb')
  <2>1. /\ inode[i].used /\ list \in Seq(Block)
        /\ Image(list) \subseteq Block /\ Blocks(inode[i].size) \in Nat
    BY <1>2, <1>a, FoundSlot, PointerList, ImageType
  <2>2. /\ len \in Size /\ need \in Nat /\ need <= sb.free_blocks
        /\ Blocks(len) <= need /\ Blocks(len) \in Nat
    BY <1>b, <1>2, <1>a, AcceptedSize, BlocksType
  <2>3. /\ got \in Nat /\ pick \in [1 .. got -> Block]
        /\ pick \in Seq(Block) /\ Len(pick) = got
    BY <1>0, <1>2, <2>1, <2>2, PickFacts
  <2>4. got = need
    <3>1. sb.free_blocks = Cardinality(Block \ bitmap)
      BY <1>a, SameLooks DEF DueSafe
    <3>2. Block \ bitmap \subseteq clear /\ clear \subseteq Block
      BY <1>2, <2>1 DEF ClearFor
    <3>3. IsFiniteSet(clear) /\ Cardinality(clear) \in Nat
      BY <3>2, Finite, FS_Subset, FS_CardinalityType
    <3>4. Cardinality(Block \ bitmap) <= Cardinality(clear)
      BY <3>2, <3>3, FS_Subset
    <3> QED
      BY <1>2, <1>a, <2>2, <3>1, <3>3, <3>4
  <2>5. /\ sb' = [sb EXCEPT !.free_blocks = @ + Blocks(inode[i].size) - need,
                            !.total_writes = Bump(@)]
        /\ Start({n}, Rewritten(OnDisk, list, i, ino, pick, bytes, sb'))
        /\ Ok("write", <<>>)
    BY <1>2, <2>2, <2>4
  <2>6. keep = [k \in 1 .. Blocks(len) |-> pick[k]]
    <3>1. keep = Keep(pick, Blocks(len))
      BY <2>2, <2>3, <2>4, CutInTwo
    <3> QED
      BY <3>1 DEF Keep
  <2>7. Due' = e
    <3> HIDE DEF ino
    <3> DEFINE all == Rewritten(OnDisk, list, i, ino, pick, bytes, sb')
    <3>1. /\ all \in Seq(Freeing(OnDisk, Image(list)) \cup Filling(c, pick, bytes)
                           \cup {Slot(s, i, ino), Named(s, i, ino, sb')})
          /\ EndOf(OnDisk, all) = Named(s, i, ino, sb')
      <4>1. OnDisk \in GoodDisk /\ list \in Seq(Block)
            /\ pick \in Seq(Block) /\ bytes \in Seq(Byte \cup {0})
        BY <1>a, <1>b, <2>1, <2>3
      <4> HIDE DEF list
      <4> QED
        BY ONLY <4>1, FreedWritten
    <3>2. Start({n}, all)
      BY <2>5
    <3> HIDE DEF all, c, s
    <3> QED
      BY <3>1, <3>2, StartMeans
  <2>8. /\ e.sb = sb' /\ e.bits = (dbitmap \ Image(list)) \cup Image(pick)
        /\ e.inode = [inode EXCEPT ![i] = ino]
        /\ e.data = [b \in Block |->
                       IF b \in Image(pick)
                       THEN ChunkOf(bytes, CHOOSE k \in 1 .. need : pick[k] = b)
                       ELSE data[b]]
    <3>1. DOMAIN pick = 1 .. need
      BY <2>3, <2>4
    <3>2. /\ c.sb = OnDisk.sb /\ c.bits = dbitmap \ Image(list) /\ c.data = data
          /\ c.inode = inode /\ c \in GoodDisk
      BY <1>a, DiskParts DEF Cleared, GoodDisk
    <3> HIDE DEF c, ino
    <3>3. /\ s.bits = (dbitmap \ Image(list)) \cup Image(pick)
          /\ s.inode = inode /\ s = [sb |-> s.sb, bits |-> s.bits, inode |-> s.inode, data |-> s.data]
          /\ s.data = [b \in Block |->
                       IF b \in Image(pick)
                       THEN ChunkOf(bytes, CHOOSE k \in 1 .. need : pick[k] = b)
                       ELSE data[b]]
      <4>1. s.data = [b \in Block |->
                       IF b \in Image(pick)
                       THEN ChunkOf(bytes, CHOOSE k \in 1 .. need : pick[k] = b)
                       ELSE c.data[b]]
        <5>1. c \in GoodDisk /\ need \in Nat /\ pick \in [1 .. need -> Block]
          BY <2>2, <2>3, <2>4, <3>2
        <5>2. PICK m \in Nat, x \in GoodDisk : m = need /\ x = c
          BY <5>1
        <5> HIDE DEF need, c
        <5>3. m \in Nat /\ x \in GoodDisk /\ pick \in [1 .. m -> Block]
          BY <5>1, <5>2
        <5>4. Stuffed(x, pick, bytes).data = [b \in Block |->
                       IF b \in Image(pick)
                       THEN ChunkOf(bytes, CHOOSE k \in 1 .. m : pick[k] = b)
                       ELSE x.data[b]]
          <6>1. DOMAIN pick = 1 .. m
            BY <5>3
          <6>2. \A b : (CHOOSE k \in DOMAIN pick : pick[k] = b) = (CHOOSE k \in 1 .. m : pick[k] = b)
            BY <6>1
          <6> QED
            BY ONLY <5>3, <6>2 DEF Stuffed, GoodDisk
        <5> QED
          BY <5>2, <5>4, Zenon
      <4>2. /\ s.bits = c.bits \cup Image(pick) /\ s.inode = c.inode
            /\ s = [sb |-> s.sb, bits |-> s.bits, inode |-> s.inode, data |-> s.data]
        BY <3>2, StuffedParts
      <4> HIDE DEF s
      <4> QED
        BY <3>2, <4>1, <4>2
    <3> HIDE DEF s
    <3> QED
      BY <3>3 DEF Named, Slot
  <2> HIDE DEF e
  <2>9. [inode EXCEPT ![i] = ino]
          = [inode EXCEPT ![i] = [inode[i] EXCEPT !.size = Len(bytes), !.direct = keep]]
    OBVIOUS
  <2> HIDE DEF ino, keep
  <2>10. Volume!Store(i, Due.inode[i], bytes, sb)
    <3>1. clear = (Volume!Block \ bitmap) \cup Volume!Image(Due.inode[i].direct)
      BY <1>2, <1>a, SameLooks, SameConstants DEF ClearFor
    <3>2. pick \in Volume!FirstFit(Volume!BlocksNeeded(Len(bytes)), clear)
      BY <2>4, SameConstants
    <3>3. bitmap' = (bitmap \ Volume!Image(Due.inode[i].direct)) \cup Volume!Image(pick)
      BY <1>2, <1>a, SameLooks, SameConstants
    <3>4. Volume!SyncBitmap /\ Volume!SaveSb
      BY <1>2, <1>a, <2>7, <2>8 DEF Volume!SyncBitmap, Volume!SaveSb
    <3>5. Due'.data = [b \in Volume!Block |->
                         IF b \in Volume!Image(pick)
                         THEN Volume!ChunkOf(bytes,
                                CHOOSE k \in 1 .. Volume!BlocksNeeded(Len(bytes)) : pick[k] = b)
                         ELSE Due.data[b]]
      <4>1. /\ Volume!Block = Block /\ Volume!Image(pick) = Image(pick)
            /\ Volume!BlocksNeeded(Len(bytes)) = need /\ Due.data = data
        BY <1>a, SameLooks, SameConstants
      <4>2. \A k : Volume!ChunkOf(bytes, k) = ChunkOf(bytes, k)
        BY SameConstants
      <4>3. Due'.data = [b \in Block |->
                       IF b \in Image(pick)
                       THEN ChunkOf(bytes, CHOOSE k \in 1 .. need : pick[k] = b)
                       ELSE data[b]]
        BY <2>7, <2>8
      <4> HIDE DEF need
      <4> QED
        BY ONLY <4>1, <4>2, <4>3
    <3>6. Due'.inode = [Due.inode EXCEPT ![i] =
                          [Due.inode[i] EXCEPT !.size = Len(bytes),
                             !.direct = [k \in 1 .. Volume!Blocks(Len(bytes)) |-> pick[k]]]]
      BY <1>a, <2>6, <2>7, <2>8, <2>9, SameLooks, SameConstants
    <3>7. sb' = [sb EXCEPT !.free_blocks = @ + Volume!Blocks(Due.inode[i].size)
                                             - Volume!BlocksNeeded(Len(bytes)),
                           !.total_writes = Volume!Bump(@)]
      BY <1>a, <2>5, SameLooks, SameConstants
    <3> QED
      BY <3>1, <3>2, <3>3, <3>4, <3>5, <3>6, <3>7 DEF Volume!Store
  <2>11. /\ i \in Volume!InodeId /\ Volume!Found(n, i) /\ ~Volume!FitsNot(Len(bytes))
         /\ Volume!Ok("write", <<>>)
    BY <1>2, <1>a, <2>5, SameLooks, SameConstants, SameAnswers
  <2> QED
    BY <1>0, <1>2, <2>10, <2>11 DEF Volume!Write
<1> QED
  BY <1>1, <1>2 DEF StartWrite, Rewritten

LEMMA FormatIs ==
  ASSUME CrashInv, NEW arg \in FormatArg, StartFormat(arg)
  PROVE  Volume!CliFormat(arg)
<1>1. /\ Still /\ Start(Name, FormatDisks(arg)) /\ AnswerFormat(arg)
      /\ ~up /\ up' = up /\ sb' = sb /\ bitmap' = bitmap
  BY DEF StartFormat, Start
<1>2. Due = OnDisk /\ Due' = EndOf(OnDisk, FormatDisks(arg))
  BY <1>1, IdleFacts, StartMeans
<1>3. /\ BlankDisk.sb = ZeroSb /\ BlankDisk.bits = {}
      /\ BlankDisk.inode = [i \in InodeId |-> ZeroInode]
      /\ BlankDisk.data = [b \in Block |-> ZeroChunk]
  BY DEF BlankDisk
<1>4. Volume!FormatDisk(arg, Due.sb, Due.bits)
  <2>1. CASE arg = "bad_block"
    <3>1. Due' = Due
      BY <1>2, <2>1 DEF FormatDisks, EndOf
    <3> QED
      BY <2>1, <3>1 DEF Volume!FormatDisk
  <2>2. CASE arg = "too_small"
    <3>1. Due' = BlankDisk
      BY <1>2, <2>2 DEF FormatDisks, EndOf
    <3> QED
      BY <1>3, <2>2, <3>1, SameConstants DEF Volume!FormatDisk, FormatBitmap
  <2>3. CASE arg = "fine"
    <3> DEFINE new  == [BlankDisk EXCEPT !.sb = FreshSb]
               head == <<BlankDisk, new>>
               mark == Marked(new)
    <3>1. DataStart \in Nat /\ DataStart > 0
      BY GeometryAssumption DEF GeometryAssumption
    <3>2. /\ new.sb = FreshSb /\ new.bits = {}
          /\ new.inode = BlankDisk.inode /\ new.data = BlankDisk.data
          /\ new = [sb |-> new.sb, bits |-> new.bits, inode |-> new.inode, data |-> new.data]
      BY DEF BlankDisk
    <3> HIDE DEF new
    <3>3. mark = [k \in 1 .. DataStart |-> mark[k]] /\ mark[DataStart] = [new EXCEPT !.bits = MetaBlock]
      BY <3>1 DEF Marked, MetaBlock
    <3> HIDE DEF mark
    <3>4. mark \in Seq({mark[k] : k \in 1 .. DataStart}) /\ Len(mark) = DataStart
      BY <3>1, <3>3
    <3> DEFINE S == {mark[k] : k \in 1 .. DataStart} \cup {BlankDisk, new}
    <3>5. mark \in Seq(S) /\ head \in Seq(S)
      <4>1. mark \in Seq(S)
        BY <3>4, SeqWider
      <4> QED
        BY <4>1
    <3> HIDE DEF S, head
    <3>6. EndOf(OnDisk, head \o mark) = EndOf(EndOf(OnDisk, head), mark)
      BY <3>5, EndMore
    <3>7. EndOf(EndOf(OnDisk, head), mark) = [new EXCEPT !.bits = MetaBlock]
      <4>1. mark # <<>>
        BY <3>1, <3>4
      <4> QED
        BY <3>3, <3>4, <4>1 DEF EndOf
    <3>8. Due' = [new EXCEPT !.bits = MetaBlock]
      BY <1>2, <2>3, <3>6, <3>7 DEF FormatDisks, new, head, mark
    <3>9. /\ Due'.sb = FreshSb /\ Due'.bits = MetaBlock
          /\ Due'.inode = BlankDisk.inode /\ Due'.data = BlankDisk.data
      BY <3>2, <3>8
    <3> QED
      BY <1>3, <2>3, <3>9, SameConstants DEF Volume!FormatDisk, FormatBitmap
  <2> QED
    BY <2>1, <2>2, <2>3 DEF FormatArg
<1> QED
  BY <1>1, <1>4, SameAnswers DEF Volume!CliFormat

\* The steps of MiniFs under both names.
LEMMA SameSteps ==
  /\ Volume!Init => V!Init
  /\ \A arg : Volume!CliFormat(arg) => V!CliFormat(arg)
  /\ Volume!Mount => V!Mount
  /\ Volume!Unmount => V!Unmount
  /\ Volume!Kill => V!Kill
  /\ \A n : Volume!Create(n) => V!Create(n)
  /\ \A n : Volume!Delete(n) => V!Delete(n)
  /\ \A n, m : Volume!Rename(n, m) => V!Rename(n, m)
  /\ \A n, size : Volume!Truncate(n, size) => V!Truncate(n, size)
  /\ \A n, bytes : Volume!Write(n, bytes) => V!Write(n, bytes)
<1>1. Volume!Init => V!Init
  BY Zenon DEF Volume!Init, V!Init, Volume!ZeroSb, V!ZeroSb, Volume!InodeId, V!InodeId,
     Volume!ZeroInode, V!ZeroInode, Volume!Block, V!Block, Volume!ZeroChunk, V!ZeroChunk
<1>2. \A arg : Volume!CliFormat(arg) => V!CliFormat(arg)
  BY Zenon DEF Volume!CliFormat, V!CliFormat, Volume!FormatDisk, V!FormatDisk,
     Volume!AnswerFormat, V!AnswerFormat, Volume!Ok, V!Ok, Volume!Error, V!Error,
     Volume!FormatBitmap, V!FormatBitmap, Volume!MetaBlock, V!MetaBlock,
     Volume!FreshSb, V!FreshSb, Volume!ZeroSb, V!ZeroSb, Volume!InodeId, V!InodeId,
     Volume!ZeroInode, V!ZeroInode, Volume!Block, V!Block, Volume!ZeroChunk, V!ZeroChunk
<1>3. Volume!Mount => V!Mount
  BY Zenon DEF Volume!Mount, V!Mount, Volume!disk, V!disk
<1>4. Volume!Unmount => V!Unmount
  BY Zenon DEF Volume!Unmount, V!Unmount, Volume!SyncedSb, V!SyncedSb,
     Volume!SyncedBitmap, V!SyncedBitmap, Volume!Exit, V!Exit, Volume!ZeroSb, V!ZeroSb
<1>5. Volume!Kill => V!Kill
  BY Zenon DEF Volume!Kill, V!Kill, Volume!Exit, V!Exit, Volume!ZeroSb, V!ZeroSb,
     Volume!disk, V!disk
<1>6. \A n : Volume!Create(n) => V!Create(n)
  BY Zenon DEF Volume!Create, V!Create, Volume!MayCreate, V!MayCreate, Volume!Refuse, V!Refuse,
     Volume!Error, V!Error, Volume!Ok, V!Ok, Volume!disk, V!disk, Volume!Holders, V!Holders,
     Volume!InodeId, V!InodeId, Volume!IsFirst, V!IsFirst, Volume!FreeSlots, V!FreeSlots,
     Volume!NewInode, V!NewInode, Volume!ZeroInode, V!ZeroInode, Volume!SaveSb, V!SaveSb
<1>7. \A n : Volume!Delete(n) => V!Delete(n)
  BY Zenon DEF Volume!Delete, V!Delete, Volume!Refuse, V!Refuse,
     Volume!Error, V!Error, Volume!Ok, V!Ok, Volume!disk, V!disk, Volume!Holders, V!Holders,
     Volume!InodeId, V!InodeId, Volume!IsFirst, V!IsFirst, Volume!Found, V!Found,
     Volume!Image, V!Image, Volume!SyncBitmap, V!SyncBitmap, Volume!SaveSb, V!SaveSb,
     Volume!ZeroInode, V!ZeroInode, Volume!Blocks, V!Blocks
<1>8. \A n, m : Volume!Rename(n, m) => V!Rename(n, m)
  BY Zenon DEF Volume!Rename, V!Rename, Volume!Refuse, V!Refuse,
     Volume!Error, V!Error, Volume!Ok, V!Ok, Volume!disk, V!disk, Volume!Holders, V!Holders,
     Volume!InodeId, V!InodeId, Volume!IsFirst, V!IsFirst, Volume!Found, V!Found
<1>9. \A n, size : Volume!Truncate(n, size) => V!Truncate(n, size)
  BY Zenon DEF Volume!Truncate, V!Truncate, Volume!Refuse, V!Refuse,
     Volume!Error, V!Error, Volume!Ok, V!Ok, Volume!disk, V!disk, Volume!Holders, V!Holders,
     Volume!InodeId, V!InodeId, Volume!IsFirst, V!IsFirst, Volume!Found, V!Found,
     Volume!CutOff, V!CutOff, Volume!Blocks, V!Blocks,
     Volume!SyncBitmap, V!SyncBitmap, Volume!SaveSb, V!SaveSb
<1>10. \A n, bytes : Volume!Write(n, bytes) => V!Write(n, bytes)
  BY Zenon DEF Volume!Write, V!Write, Volume!Refuse, V!Refuse, Volume!Store, V!Store,
     Volume!Error, V!Error, Volume!Ok, V!Ok, Volume!disk, V!disk, Volume!Holders, V!Holders,
     Volume!InodeId, V!InodeId, Volume!IsFirst, V!IsFirst, Volume!Found, V!Found,
     Volume!FitsNot, V!FitsNot, Volume!BlocksNeeded, V!BlocksNeeded, Volume!Blocks, V!Blocks,
     Volume!Image, V!Image, Volume!FirstFit, V!FirstFit, Volume!Block, V!Block,
     Volume!ChunkOf, V!ChunkOf, Volume!Bump, V!Bump,
     Volume!SyncBitmap, V!SyncBitmap, Volume!SaveSb, V!SaveSb
<1> QED
  BY <1>1, <1>2, <1>3, <1>4, <1>5, <1>6, <1>7, <1>8, <1>9, <1>10

\* A step of MiniFs, under both names.
BothNext == Volume!Next /\ V!Next

LEMMA StepIs ==
  ASSUME CrashInv, DueSafe, CrashNext, cuts' = 0, cuts = 0
  PROVE  \/ BothNext
         \/ Due' = Due /\ up' = up /\ sb' = sb /\ bitmap' = bitmap /\ reply' = reply
<1>a. Name \subseteq Volume!AnyName /\ Name \subseteq V!AnyName
  BY DEF Volume!AnyName, V!AnyName
<1>b. Volume!FormatArg = FormatArg /\ V!FormatArg = FormatArg
  BY DEF Volume!FormatArg, FormatArg, V!FormatArg
<1>c. Volume!Size = Size /\ V!Size = Size
  BY DEF Volume!Size, V!Size, Size
<1>d. /\ \A n \in Name : Volume!Create(n) \/ Volume!Delete(n) => Volume!Command
      /\ \A n \in Name : V!Create(n) \/ V!Delete(n) => V!Command
      /\ \A n, m \in Name : Volume!Rename(n, m) => Volume!Command
      /\ \A n, m \in Name : V!Rename(n, m) => V!Command
      /\ \A n \in Name, size \in Size : Volume!Truncate(n, size) => Volume!Command
      /\ \A n \in Name, size \in Size : V!Truncate(n, size) => V!Command
      /\ \A n \in Name, bytes \in Payload : Volume!Write(n, bytes) => Volume!Command
      /\ \A n \in Name, bytes \in Payload : V!Write(n, bytes) => V!Command
  BY <1>a, <1>c DEF Volume!Command, V!Command
<1>1. ASSUME NEW arg \in FormatArg, StartFormat(arg) PROVE BothNext
  BY <1>1, <1>b, FormatIs, SameSteps DEF BothNext, Volume!Next, V!Next
<1>2. ASSUME StartMount PROVE BothNext
  BY <1>2, MountIs, SameSteps DEF BothNext, Volume!Next, V!Next
<1>3. ASSUME StartUnmount PROVE BothNext
  BY <1>3, UnmountIs, SameSteps DEF BothNext, Volume!Next, V!Next
<1>4. ASSUME KillIdle PROVE BothNext
  BY <1>4, KillIs, SameSteps DEF BothNext, Volume!Next, V!Next
<1>5. ASSUME NEW n \in Name, StartCreate(n) PROVE BothNext
  BY <1>5, <1>d, CreateIs, SameSteps DEF BothNext, Volume!Next, V!Next
<1>6. ASSUME NEW n \in Name, StartDelete(n) PROVE BothNext
  BY <1>6, <1>d, DeleteIs, SameSteps DEF BothNext, Volume!Next, V!Next
<1>7. ASSUME NEW n \in Name, NEW m \in Name, StartRename(n, m) PROVE BothNext
  BY <1>7, <1>d, RenameIs, SameSteps DEF BothNext, Volume!Next, V!Next
<1>8. ASSUME NEW n \in Name, NEW size \in Size, StartTruncate(n, size) PROVE BothNext
  BY <1>8, <1>d, TruncateIs, SameSteps DEF BothNext, Volume!Next, V!Next
<1>9. ASSUME NEW n \in Name, NEW bytes \in Payload, StartWrite(n, bytes) PROVE BothNext
  BY <1>9, <1>d, WriteIs, SameSteps DEF BothNext, Volume!Next, V!Next
<1>10. ASSUME DiskWrite
       PROVE  Due' = Due /\ up' = up /\ sb' = sb /\ bitmap' = bitmap /\ reply' = reply
  BY <1>10, DiskWriteFacts DEF DiskWrite
<1>11. ~KillBusy
  BY DEF KillBusy
<1> QED
  BY <1>1, <1>2, <1>3, <1>4, <1>5, <1>6, <1>7, <1>8, <1>9, <1>10, <1>11 DEF CrashNext

\* While nothing has been cut off the disk that is due is safe.
WholeInv == CrashInv /\ (cuts = 0 => V!SafeInv)

LEMMA CutsGrow ==
  ASSUME CrashInv, [CrashNext]_crashVars, cuts' = 0
  PROVE  cuts = 0
<1>1. CASE KillBusy
  BY <1>1 DEF KillBusy, CrashInv, CrashType
<1>2. CASE ~KillBusy
  <2>1. CASE UNCHANGED crashVars
    BY <2>1 DEF crashVars
  <2>2. CASE DiskWrite \/ StartMount \/ KillIdle
    BY <2>2 DEF DiskWrite, StartMount, KillIdle
  <2>3. ASSUME NEW about, NEW disks, Start(about, disks) PROVE cuts' = cuts
    BY <2>3 DEF Start
  <2>4. ASSUME NEW cmd, Decline(cmd) PROVE cuts' = cuts
    BY <2>3, <2>4 DEF Decline
  <2>5. ASSUME NEW arg \in FormatArg, StartFormat(arg) PROVE cuts' = cuts
    BY <2>3, <2>5 DEF StartFormat
  <2>6. ASSUME StartUnmount PROVE cuts' = cuts
    BY <2>3, <2>6 DEF StartUnmount
  <2>7. ASSUME NEW n \in Name, StartCreate(n) PROVE cuts' = cuts
    BY <2>3, <2>4, <2>7 DEF StartCreate
  <2>8. ASSUME NEW n \in Name, StartDelete(n) PROVE cuts' = cuts
    BY <2>3, <2>4, <2>8 DEF StartDelete
  <2>9. ASSUME NEW n \in Name, NEW m \in Name, StartRename(n, m) PROVE cuts' = cuts
    BY <2>3, <2>4, <2>9 DEF StartRename
  <2>10. ASSUME NEW n \in Name, NEW size \in Size, StartTruncate(n, size) PROVE cuts' = cuts
    BY <2>3, <2>4, <2>10 DEF StartTruncate
  <2>11. ASSUME NEW n \in Name, NEW bytes \in Payload, StartWrite(n, bytes) PROVE cuts' = cuts
    BY <2>3, <2>4, <2>11 DEF StartWrite
  <2> QED
    BY <1>2, <2>1, <2>2, <2>5, <2>6, <2>7, <2>8, <2>9, <2>10, <2>11 DEF CrashNext
<1> QED
  BY <1>1, <1>2

LEMMA WholeStep ==
  ASSUME WholeInv, [CrashNext]_crashVars
  PROVE  /\ WholeInv'
         /\ cuts' = 0 => [Volume!Next]_(Volume!vars)
<1>1. CrashInv'
  BY CrashStep DEF WholeInv
<1>2. ASSUME cuts' = 0
      PROVE  [Volume!Next]_(Volume!vars) /\ V!SafeInv'
  <2>1. cuts = 0 /\ CrashInv /\ V!SafeInv /\ DueSafe
    BY <1>2, CutsGrow, SafeMeans DEF WholeInv
  <2>2. \/ BothNext
        \/ Due' = Due /\ up' = up /\ sb' = sb /\ bitmap' = bitmap /\ reply' = reply
    <3>1. CASE UNCHANGED crashVars
      BY <3>1 DEF crashVars, vars, disk, Due, OnDisk
    <3>2. CASE CrashNext
      BY <1>2, <2>1, <3>2, StepIs
    <3> QED
      BY <3>1, <3>2
  <2>3. [Volume!Next]_(Volume!vars) /\ [V!Next]_(V!vars)
    <3>1. CASE BothNext
      BY <3>1 DEF BothNext
    <3>2. CASE Due' = Due /\ up' = up /\ sb' = sb /\ bitmap' = bitmap /\ reply' = reply
      BY <3>2 DEF Volume!vars, V!vars, Volume!disk, V!disk
    <3> QED
      BY <2>2, <3>1, <3>2
  <2>4. V!SafeInv'
    BY <2>1, <2>3, V!SafeStep, NamesAssumption, BytesAssumption, GeometryAssumption
  <2> QED
    BY <2>3, <2>4
<1> QED
  BY <1>1, <1>2 DEF WholeInv

LEMMA WholeStart ==
  ASSUME CrashInit
  PROVE  WholeInv /\ Volume!Init
<1>1. Due = OnDisk
  BY DEF CrashInit, Due, EndOf
<1>2. Volume!Init
  BY <1>1, SameLooks, SameConstants DEF CrashInit, Init, Volume!Init
<1>3. V!SafeInv
  BY <1>2, SameSteps, V!SafeInit, NamesAssumption, BytesAssumption, GeometryAssumption
<1> QED
  BY <1>2, <1>3, CrashStart DEF WholeInv

\* Until a command is cut off the volume behaves as MiniFs says.
THEOREM WritesAddUp == CrashSpec => ImplementsMiniFs
<1>1. CrashInit => WholeInv /\ Volume!Init
  BY WholeStart
<1>2. WholeInv /\ [CrashNext]_crashVars => WholeInv'
  BY WholeStep
<1>3. WholeInv /\ [CrashNext]_crashVars => [cuts' = 0 => [Volume!Next]_(Volume!vars)]_crashVars
  BY WholeStep
<1> QED
  BY <1>1, <1>2, <1>3, PTL DEF CrashSpec, ImplementsMiniFs
-----------------------------------------------------------------------------
(* The first command that is cut off.  Every disk a command leads through  *)
(* lies between the one before it and the one after it: so does the one a  *)
(* kill leaves.                                                            *)

\* The files the command is not about are as they were.
KeptIn(j, d) ==
  \A i \in Owners(j.was) :
    j.was.inode[i].name \notin j.about =>
      /\ d.inode[i] = j.was.inode[i]
      /\ \A b \in Image(d.inode[i].direct) : d.data[b] = j.was.data[b] /\ b \in d.bits

\* The file it is about holds chunks of its own, or zeroes.
OwnBytes(j, d) ==
  Cardinality(j.about) = 1 =>
    \A n \in j.about :
      ChunksOf(d, n) \subseteq ChunksOf(j.was, n) \cup ChunksOf(j.due, n) \cup Padding

\* The inode table is one of the two, or fsck counts a slot too many.
TableOf(j, d) ==
  \/ d.inode \in {j.was.inode, j.due.inode}
  \/ Cardinality(Owners(d)) # MaxInodes - d.sb.free_inodes

Between(j, d) == KeptIn(j, d) /\ OwnBytes(j, d) /\ TableOf(j, d)

Mid(j) == {d \in GoodDisk : Between(j, d)}

PartInv ==
  /\ WholeInv
  /\ OneInPart => Between(job, OnDisk)
  /\ cuts = 0 => /\ todo \in Seq(Mid(job))
                 /\ Still => job = Rest(OnDisk)
  /\ Still /\ up /\ job.about # {} => sb = dsb

\* A disk on which files do not share blocks lies between itself and any.
LEMMA SelfMid ==
  ASSUME NEW d \in GoodDisk, Apart(d.inode, d.bits), NEW j, j.was = d
  PROVE  d \in Mid(j)
<1>1. KeptIn(j, d)
  BY DEF KeptIn, Apart, Owners, BlocksOf, GoodDisk
<1> QED
  BY <1>1 DEF Mid, Between, OwnBytes, TableOf

\* Blocks of a file the command is about are freed.
LEMMA FreeMid ==
  ASSUME NEW d \in GoodDisk, Apart(d.inode, d.bits), NEW j, j.was = d,
         NEW i \in InodeId, d.inode[i].used, d.inode[i].name \in j.about,
         NEW B, B \subseteq Image(d.inode[i].direct)
  PROVE  Freeing(d, B) \subseteq Mid(j)
<1> SUFFICES ASSUME NEW e \in Freeing(d, B) PROVE e \in Mid(j)
  OBVIOUS
<1>1. e \in GoodDisk /\ e.inode = d.inode /\ e.data = d.data /\ d.bits \ B \subseteq e.bits
  BY DEF Freeing
<1>2. KeptIn(j, e)
  <2> SUFFICES ASSUME NEW k \in Owners(d), d.inode[k].name \notin j.about,
                      NEW b \in Image(d.inode[k].direct)
               PROVE  b \in e.bits
    BY <1>1 DEF KeptIn
  <2>1. k \in InodeId /\ k # i /\ d.inode[k].used
    BY DEF Owners
  <2>2. b \in d.bits /\ b \notin Image(d.inode[i].direct)
    BY <2>1 DEF Apart, BlocksOf
  <2> QED
    BY <1>1, <2>2
<1>3. \A n : ChunksOf(e, n) = ChunksOf(d, n)
  BY <1>1 DEF ChunksOf, Owners
<1> QED
  BY <1>1, <1>2, <1>3 DEF Mid, Between, OwnBytes, TableOf

\* Blocks that were clear, or its own, are filled.
LEMMA FillMid ==
  ASSUME NEW d \in GoodDisk, Apart(d.inode, d.bits), NEW j, j.was = d,
         NEW i \in InodeId, d.inode[i].used, NEW n, d.inode[i].name = n, j.about = {n},
         NEW B, B \subseteq Image(d.inode[i].direct),
         NEW pick, NEW bytes,
         Image(pick) \subseteq (Block \ d.bits) \cup Image(d.inode[i].direct),
         \A x \in DOMAIN pick : ChunkOf(bytes, x) \in ChunksOf(j.due, n) \cup Padding
  PROVE  Filling(Cleared(d, B), pick, bytes) \subseteq Mid(j)
<1> SUFFICES ASSUME NEW e \in Filling(Cleared(d, B), pick, bytes) PROVE e \in Mid(j)
  OBVIOUS
<1>1. /\ e \in GoodDisk /\ e.inode = d.inode /\ d.bits \ B \subseteq e.bits
      /\ \A b \in Block :
           \/ e.data[b] = d.data[b]
           \/ \E x \in DOMAIN pick : pick[x] = b /\ e.data[b] = ChunkOf(bytes, x)
  <2> DEFINE c == Cleared(d, B)
  <2>1. c.inode = d.inode /\ c.data = d.data /\ c.bits = d.bits \ B
    BY DEF Cleared, GoodDisk
  <2> HIDE DEF c
  <2>2. e \in Filling(c, pick, bytes)
    BY DEF c
  <2> QED
    BY <2>1, <2>2 DEF Filling
<1>2. \A k \in InodeId : Image(d.inode[k].direct) \subseteq Block
  BY ImageType DEF GoodDisk, GoodTable
<1>3. KeptIn(j, e)
  <2> SUFFICES ASSUME NEW k \in Owners(d), d.inode[k].name \notin j.about,
                      NEW b \in Image(d.inode[k].direct)
               PROVE  e.data[b] = d.data[b] /\ b \in e.bits
    BY <1>1 DEF KeptIn
  <2>1. k \in InodeId /\ k # i /\ d.inode[k].used
    BY DEF Owners
  <2>2. b \in Block /\ b \in d.bits /\ b \notin Image(d.inode[i].direct)
    BY <1>2, <2>1 DEF Apart, BlocksOf
  <2>3. \A x \in DOMAIN pick : pick[x] # b
    BY <2>2 DEF Image
  <2> QED
    BY <1>1, <2>2, <2>3
<1>4. ChunksOf(e, n) \subseteq ChunksOf(d, n) \cup ChunksOf(j.due, n) \cup Padding
  <2> SUFFICES ASSUME NEW k \in InodeId, d.inode[k].used, d.inode[k].name = n,
                      NEW b \in Image(d.inode[k].direct)
               PROVE  e.data[b] \in ChunksOf(d, n) \cup ChunksOf(j.due, n) \cup Padding
    BY <1>1 DEF ChunksOf, Owners
  <2>1. b \in Block
    BY <1>2
  <2>2. d.data[b] \in ChunksOf(d, n)
    BY DEF ChunksOf, Owners
  <2> QED
    BY <1>1, <2>1, <2>2
<1> QED
  BY <1>1, <1>3, <1>4 DEF Mid, Between, OwnBytes, TableOf

\* The slot of a file the command is about, or a free one, is rewritten.
LEMMA EndMid ==
  ASSUME NEW d \in GoodDisk, NEW i \in InodeId, NEW ino, NEW s,
         NEW j, KeptIn(j, d), j.due \in GoodDisk,
         i \in Owners(j.was) => j.was.inode[i].name \in j.about,
         j.due = Named(d, i, ino, s)
  PROVE  Slot(d, i, ino) \in Mid(j) /\ Named(d, i, ino, s) \in Mid(j)
<1> DEFINE a == Slot(d, i, ino)
           b == Named(d, i, ino, s)
           tab == [d.inode EXCEPT ![i] = ino]
<1>0. tab \in GoodTable
  <2>1. b \in GoodDisk /\ b.inode = tab
    BY DEF Slot, Named, GoodDisk
  <2> HIDE DEF b, tab
  <2> QED
    BY <2>1 DEF GoodDisk
<1>1. /\ a \in GoodDisk /\ b \in GoodDisk
      /\ a.inode = tab /\ b.inode = tab /\ a.data = d.data /\ b.data = d.data
      /\ a.bits = d.bits /\ b.bits = d.bits
  BY <1>0 DEF Slot, Named, GoodDisk
<1>2. \A k \in InodeId \ {i} : tab[k] = d.inode[k]
  BY DEF GoodDisk, GoodTable
<1> HIDE DEF a, b, tab
<1>3. \A k \in Owners(j.was) :
        j.was.inode[k].name \notin j.about => k # i
  OBVIOUS
<1>4. ASSUME NEW k \in Owners(j.was), j.was.inode[k].name \notin j.about
      PROVE  tab[k] = d.inode[k]
  <2>1. CASE k \in InodeId
    BY <1>2, <1>3, <1>4, <2>1
  <2>2. CASE k \notin InodeId
    BY <2>2 DEF Owners
  <2> QED
    BY <2>1, <2>2
<1>5. KeptIn(j, a) /\ KeptIn(j, b)
  BY <1>1, <1>4 DEF KeptIn
<1>6. \A n : ChunksOf(a, n) = ChunksOf(b, n)
  BY <1>1 DEF ChunksOf, Owners
<1>7. j.due = b
  BY DEF b
<1>8. TableOf(j, a) /\ TableOf(j, b)
  BY <1>1, <1>7 DEF TableOf
<1>9. OwnBytes(j, a) /\ OwnBytes(j, b)
  BY <1>6, <1>7 DEF OwnBytes
<1> QED
  BY <1>1, <1>5, <1>8, <1>9 DEF Mid, Between, b, a

\* A slot is taken that has no name yet.
LEMMA TakenMid ==
  ASSUME NEW d \in GoodDisk, Apart(d.inode, d.bits),
         d.sb.free_inodes = Cardinality({k \in InodeId : ~d.inode[k].used}),
         NEW i \in InodeId, ~d.inode[i].used,
         NEW n, \A k \in Owners(d) : d.inode[k].name # n,
         NEW j, j.was = d, j.about = {n},
         Slot(d, i, Taken) \in GoodDisk
  PROVE  Slot(d, i, Taken) \in Mid(j)
<1> DEFINE e == Slot(d, i, Taken)
           F == {k \in InodeId : ~d.inode[k].used}
           O == Owners(d)
<1>1. /\ e.inode = [d.inode EXCEPT ![i] = Taken] /\ e.data = d.data
      /\ e.bits = d.bits /\ e.sb = d.sb /\ d.inode \in [InodeId -> Inode]
  BY GoodParts DEF Slot, GoodDisk
<1>2. /\ \A k \in InodeId \ {i} : e.inode[k] = d.inode[k]
      /\ e.inode[i] = Taken /\ Taken.used /\ Taken.direct = <<>>
  BY <1>1 DEF Taken, ZeroInode
<1> HIDE DEF e
<1>3. KeptIn(j, d)
  BY SelfMid DEF Mid, Between
<1>4. KeptIn(j, e)
  <2>1. \A k \in Owners(d) : k \in InodeId \ {i}
    BY DEF Owners
  <2> QED
    BY <1>1, <1>2, <1>3, <2>1 DEF KeptIn
<1>5. ChunksOf(e, n) = {}
  <2>1. \A k \in Owners(e) : k # i => k \in Owners(d) /\ e.inode[k] = d.inode[k]
    BY <1>2 DEF Owners
  <2>2. \A k \in {x \in Owners(e) : e.inode[x].name = n} : k = i
    BY <2>1
  <2>3. Image(<<>>) = {}
    BY NoOwner
  <2>4. Image(Taken.direct) = {}
    BY <1>2, <2>3
  <2> QED
    BY <1>2, <2>2, <2>4 DEF ChunksOf
<1>6. Cardinality(Owners(e)) # MaxInodes - e.sb.free_inodes
  <2>1. Owners(e) = O \cup {i} /\ i \notin O
    BY <1>2 DEF Owners
  <2>2. /\ IsFiniteSet(O) /\ IsFiniteSet(F)
        /\ Cardinality(O) \in Nat /\ Cardinality(F) \in Nat
    <3>1. O \subseteq InodeId /\ F \subseteq InodeId
      BY DEF Owners
    <3> QED
      BY <3>1, Finite, FS_Subset, FS_CardinalityType
  <2>3. O \cup F = InodeId /\ O \cap F = {}
    BY DEF Owners
  <2>4. Cardinality(O) + Cardinality(F) = MaxInodes
    BY <2>2, <2>3, DisjointCount, Finite
  <2> HIDE DEF O, F
  <2>5. Cardinality(Owners(e)) = Cardinality(O) + 1
    <3>1. Cardinality(O \cup {i}) = IF i \in O THEN Cardinality(O) ELSE Cardinality(O) + 1
      BY ONLY <2>2, FS_AddElement
    <3>2. Cardinality(O \cup {i}) = Cardinality(O) + 1
      BY ONLY <2>1, <3>1
    <3> QED
      BY <2>1, <3>2
  <2>6. e.sb.free_inodes = Cardinality(F)
    BY <1>1 DEF F
  <2> QED
    BY <2>2, <2>4, <2>5, <2>6
<1>7. e \in GoodDisk
  BY DEF e
<1> QED
  BY <1>4, <1>5, <1>6, <1>7 DEF Mid, Between, OwnBytes, TableOf, e

-----------------------------------------------------------------------------
(* The lists of the commands lie between the two.                          *)

\* rm and truncate.
LEMMA DroppedMid ==
  ASSUME NEW d \in GoodDisk, Apart(d.inode, d.bits),
         NEW i \in InodeId, d.inode[i].used, NEW n, d.inode[i].name = n,
         NEW list \in Seq(Block), Image(list) \subseteq Image(d.inode[i].direct),
         NEW ino, NEW s,
         NEW j, j.was = d, j.about = {n}, j.due \in GoodDisk,
         j.due = EndOf(d, Dropped(d, list, i, ino, s))
  PROVE  Dropped(d, list, i, ino, s) \in Seq(Mid(j))
<1> DEFINE all == Dropped(d, list, i, ino, s)
           c == Cleared(d, Image(list))
           S == Freeing(d, Image(list)) \cup {Slot(c, i, ino), Named(c, i, ino, s)}
<1>1. all \in Seq(S) /\ EndOf(d, all) = Named(c, i, ino, s)
  BY FreedSaved
<1>2. c \in Freeing(d, Image(list)) /\ c \in GoodDisk
  BY ClearedGood
<1> HIDE DEF c
<1>3. Freeing(d, Image(list)) \subseteq Mid(j)
  BY FreeMid
<1>4. KeptIn(j, c)
  BY <1>2, <1>3 DEF Mid, Between
<1>5. j.due = Named(c, i, ino, s)
  BY <1>1
<1>6. Slot(c, i, ino) \in Mid(j) /\ Named(c, i, ino, s) \in Mid(j)
  BY <1>2, <1>4, <1>5, EndMid
<1>7. S \subseteq Mid(j)
  BY <1>3, <1>6
<1> HIDE DEF S, all
<1>8. all \in Seq(Mid(j))
  BY <1>1, <1>7, SeqWider
<1> QED
  BY <1>8 DEF all

\* What a block that was picked holds in the end.
LEMMA StuffedData ==
  ASSUME NEW d \in GoodDisk, NEW pick \in Seq(Block), NEW bytes,
         \A x, y \in DOMAIN pick : pick[x] = pick[y] => x = y,
         NEW x \in DOMAIN pick
  PROVE  Stuffed(d, pick, bytes).data[pick[x]] = ChunkOf(bytes, x)
<1>1. pick[x] \in Block /\ pick[x] \in Image(pick)
  BY DEF Image
<1>2. (CHOOSE k \in DOMAIN pick : pick[k] = pick[x]) = x
  OBVIOUS
<1>3. Stuffed(d, pick, bytes).data
        = [b \in Block |-> IF b \in Image(pick)
                           THEN ChunkOf(bytes, CHOOSE k \in DOMAIN pick : pick[k] = b)
                           ELSE d.data[b]]
  BY DEF Stuffed, GoodDisk
<1> QED
  BY <1>1, <1>2, <1>3

\* write.
LEMMA RewrittenMid ==
  ASSUME NEW d, d \in GoodDisk, Apart(d.inode, d.bits),
         NEW i \in InodeId, d.inode[i].used, NEW n, d.inode[i].name = n,
         NEW list, list \in Seq(Block), Image(list) \subseteq Image(d.inode[i].direct),
         NEW bytes, bytes \in Seq(Byte \cup {0}),
         NEW pick, pick \in Seq(Block),
         Image(pick) \subseteq (Block \ d.bits) \cup Image(d.inode[i].direct),
         \A x, y \in DOMAIN pick : pick[x] = pick[y] => x = y,
         NEW ino, ino.used, ino.name = n,
         \/ Image(pick) \subseteq Image(ino.direct)
         \/ \A x \in DOMAIN pick : ChunkOf(bytes, x) \in Padding,
         NEW s,
         NEW j, j.was = d, j.about = {n}, j.due \in GoodDisk,
         j.due = EndOf(d, Rewritten(d, list, i, ino, pick, bytes, s))
  PROVE  Rewritten(d, list, i, ino, pick, bytes, s) \in Seq(Mid(j))
<1> DEFINE all == Rewritten(d, list, i, ino, pick, bytes, s)
           c == Cleared(d, Image(list))
           e == Stuffed(c, pick, bytes)
           S == Freeing(d, Image(list)) \cup Filling(c, pick, bytes)
                  \cup {Slot(e, i, ino), Named(e, i, ino, s)}
<1>1. all \in Seq(S) /\ EndOf(d, all) = Named(e, i, ino, s)
  <2>1. d \in GoodDisk /\ list \in Seq(Block)
        /\ pick \in Seq(Block) /\ bytes \in Seq(Byte \cup {0})
    OBVIOUS
  <2>2. /\ all \in Seq(Freeing(d, Image(list)) \cup Filling(c, pick, bytes)
                         \cup {Slot(e, i, ino), Named(e, i, ino, s)})
        /\ all # <<>>
        /\ EndOf(d, all) = Named(e, i, ino, s)
    BY ONLY <2>1, FreedWritten
  <2> QED
    BY <2>2
<1>2. c \in Freeing(d, Image(list)) /\ c \in GoodDisk
  BY ClearedGood
<1>3. e \in Filling(c, pick, bytes) \cup {c}
  <2> HIDE DEF c
  <2>1. /\ Filled(c, pick, bytes) \in Seq(Filling(c, pick, bytes))
        /\ EndOf(c, Filled(c, pick, bytes)) = e
    BY <1>2, FilledFacts
  <2> HIDE DEF e
  <2>2. Filled(c, pick, bytes) \in Seq(Filling(c, pick, bytes) \cup {c})
    BY <2>1, SeqWider
  <2> QED
    BY <2>1, <2>2, EndIn
<1>4. e \in GoodDisk /\ e.inode = d.inode
  <2>1. c.inode = d.inode
    BY DEF Cleared, GoodDisk
  <2> HIDE DEF c, e
  <2> QED
    BY <1>2, <1>3, <2>1 DEF Filling
<1>5. ASSUME NEW x \in DOMAIN pick PROVE e.data[pick[x]] = ChunkOf(bytes, x)
  <2> HIDE DEF c
  <2> QED
    BY <1>2, StuffedData
<1>6. j.due = Named(e, i, ino, s)
  BY <1>1
<1>7. \A x \in DOMAIN pick : ChunkOf(bytes, x) \in ChunksOf(j.due, n) \cup Padding
  <2> HIDE DEF e
  <2>1. j.due.data = e.data /\ j.due.inode = [d.inode EXCEPT ![i] = ino]
    <3>1. e \in GoodDisk
      BY <1>4
    <3>2. /\ Named(e, i, ino, s).data = e.data /\ Named(e, i, ino, s).bits = e.bits
          /\ Named(e, i, ino, s).inode = [e.inode EXCEPT ![i] = ino]
          /\ Named(e, i, ino, s).sb = s
      BY <3>1 DEF Named, Slot, GoodDisk
    <3> QED
      BY <1>4, <1>6, <3>2
  <2>2. j.due.inode[i] = ino
    BY <2>1, GoodParts
  <2>3. i \in {k \in Owners(j.due) : j.due.inode[k].name = n}
    BY <2>2 DEF Owners
  <2> SUFFICES ASSUME Image(pick) \subseteq Image(ino.direct), NEW x \in DOMAIN pick
               PROVE  ChunkOf(bytes, x) \in ChunksOf(j.due, n)
    OBVIOUS
  <2>4. pick[x] \in Image(j.due.inode[i].direct) /\ j.due.data[pick[x]] = ChunkOf(bytes, x)
    <3>1. pick[x] \in Image(pick)
      BY DEF Image
    <3> QED
      BY <1>5, <2>1, <2>2, <3>1
  <2> QED
    BY <2>3, <2>4 DEF ChunksOf
<1>8. Freeing(d, Image(list)) \subseteq Mid(j)
  BY FreeMid
<1>9. Filling(c, pick, bytes) \subseteq Mid(j)
  BY <1>7, FillMid
<1> HIDE DEF c, e
<1>10. KeptIn(j, e)
  BY <1>2, <1>3, <1>8, <1>9 DEF Mid, Between
<1>11. Slot(e, i, ino) \in Mid(j) /\ Named(e, i, ino, s) \in Mid(j)
  BY <1>4, <1>6, <1>10, EndMid
<1>12. S \subseteq Mid(j)
  BY <1>8, <1>9, <1>11
<1> HIDE DEF S, all
<1>13. all \in Seq(Mid(j))
  BY <1>1, <1>12, SeqWider
<1> QED
  BY <1>13 DEF all

-----------------------------------------------------------------------------
(* Command by command.                                                     *)

JobOf(about, disks) == [about |-> about, was |-> OnDisk, due |-> EndOf(OnDisk, disks)]

\* A command starts, and while the volume is safe every disk it leads
\* through lies between the one before it and the one after it.
Parted ==
  \E about \in SUBSET Name : \E disks :
    Start(about, disks) /\ (DueSafe => disks \in Seq(Mid(JobOf(about, disks))))

LEMMA DueGood ==
  ASSUME CrashInv', NEW about, NEW disks, Start(about, disks)
  PROVE  JobOf(about, disks).due \in GoodDisk
<1>1. OnDisk' \in GoodDisk /\ todo' \in Seq(GoodDisk)
  BY DEF CrashInv, CrashType
<1>2. Due' \in GoodDisk
  BY <1>1, EndIn DEF Due
<1> QED
  BY <1>2, StartMeans DEF JobOf

LEMMA JobParts ==
  ASSUME NEW about, NEW disks
  PROVE  /\ JobOf(about, disks).was = OnDisk
         /\ JobOf(about, disks).about = about
         /\ JobOf(about, disks).due = EndOf(OnDisk, disks)
BY DEF JobOf

LEMMA DeclineParts ==
  ASSUME NEW cmd, Decline(cmd)
  PROVE  Parted
<1>1. Start({}, <<>>)
  BY DEF Decline
<1>2. <<>> \in Seq(Mid(JobOf({}, <<>>))) /\ {} \in SUBSET Name
  OBVIOUS
<1> QED
  BY <1>1, <1>2 DEF Parted

LEMMA CreateParts ==
  ASSUME CrashInv, NEW n \in Name, StartCreate(n)
  PROVE  Parted
<1>1. CASE Decline("create")
  BY <1>1, DeclineParts
<1>2. ASSUME up, MayCreate(n), NEW i \in InodeId, IsFirst(i, FreeSlots),
             Start({n}, Made(OnDisk, i, NewInode(n), sb'))
      PROVE  Parted
  <2> DEFINE all == Made(OnDisk, i, NewInode(n), sb')
             j   == JobOf({n}, all)
             S   == {Slot(OnDisk, i, Taken), Slot(OnDisk, i, NewInode(n)),
                     Named(OnDisk, i, NewInode(n), sb')}
  <2>1. Still /\ Start({n}, all)
    BY <1>2 DEF Start
  <2>2. all \in Seq(S) /\ EndOf(OnDisk, all) = Named(OnDisk, i, NewInode(n), sb')
    BY MadeFacts
  <2> HIDE DEF all
  <2>3. j.was = OnDisk /\ j.about = {n} /\ j.due = Named(OnDisk, i, NewInode(n), sb')
    BY <2>2, JobParts
  <2>4. j.due \in GoodDisk
    BY <2>1, CreateGood, DueGood
  <2> HIDE DEF j
  <2>5. ~inode[i].used /\ \A k \in Owners(OnDisk) : OnDisk.inode[k].name # n
    BY <1>2, <2>1, IdleFacts, DiskParts DEF IsFirst, FreeSlots, MayCreate, Holders, Owners
  <2>6. Slot(OnDisk, i, Taken) \in GoodDisk
    <3>1. Taken \in Inode /\ Taken.direct = <<>> /\ Taken.size = 0 /\ Taken.name = ""
      BY NewInodeType DEF Taken, ZeroInode, Inode
    <3>2. Image(<<>>) = {} /\ DOMAIN <<>> = 1 .. Blocks(0)
      BY NoBlocks DEF Image
    <3>3. BlocksOf(Taken) \subseteq DataBlock /\ DOMAIN Taken.direct = 1 .. Blocks(Taken.size)
      BY <3>1, <3>2 DEF BlocksOf
    <3>4. [inode EXCEPT ![i] = Taken] \in GoodTable
      BY <2>1, <3>1, <3>3, IdleFacts, TableSlot
    <3> QED
      BY <2>1, <3>4, IdleFacts, DiskParts DEF Slot, GoodDisk
  <2>7. ASSUME DueSafe PROVE all \in Seq(Mid(j))
    <3>1. OnDisk \in GoodDisk /\ Due = OnDisk
      BY <2>1, IdleFacts
    <3>2. /\ Apart(OnDisk.inode, OnDisk.bits)
          /\ OnDisk.sb.free_inodes = Cardinality({k \in InodeId : ~OnDisk.inode[k].used})
      BY <1>2, <2>1, <2>7, <3>1, IdleFacts DEF DueSafe
    <3>3. ~OnDisk.inode[i].used
      BY <2>5, DiskParts
    <3>4. Slot(OnDisk, i, Taken) \in Mid(j)
      BY <2>3, <2>5, <2>6, <3>1, <3>2, <3>3, TakenMid
    <3>5. KeptIn(j, OnDisk)
      BY <2>3, <3>1, <3>2, SelfMid DEF Mid, Between
    <3>6. /\ Slot(OnDisk, i, NewInode(n)) \in Mid(j)
          /\ Named(OnDisk, i, NewInode(n), sb') \in Mid(j)
      BY <2>3, <2>4, <3>1, <3>3, <3>5, EndMid DEF Owners
    <3>7. S \subseteq Mid(j)
      BY <3>4, <3>6
    <3> HIDE DEF S
    <3> QED
      BY <2>2, <3>7, SeqWider
  <2>8. {n} \in SUBSET Name
    OBVIOUS
  <2> QED
    BY <2>1, <2>7, <2>8 DEF Parted, j
<1> QED
  BY <1>1, <1>2 DEF StartCreate

LEMMA DeleteParts ==
  ASSUME CrashInv, NEW n \in Name, StartDelete(n)
  PROVE  Parted
<1>1. CASE Decline("rm")
  BY <1>1, DeclineParts
<1>2. ASSUME NEW i \in InodeId, Found(n, i),
             Start({n}, Dropped(OnDisk, inode[i].direct, i, ZeroInode, sb'))
      PROVE  Parted
  <2> DEFINE list == inode[i].direct
             all == Dropped(OnDisk, list, i, ZeroInode, sb')
             j   == JobOf({n}, all)
  <2>1. Still /\ Start({n}, all)
    BY <1>2 DEF Start
  <2>2. OnDisk \in GoodDisk /\ Due = OnDisk
    BY <2>1, IdleFacts
  <2>3. /\ OnDisk.inode[i].used /\ OnDisk.inode[i].name = n
        /\ list \in Seq(Block) /\ Image(list) \subseteq Image(OnDisk.inode[i].direct)
    BY <1>2, <2>1, FoundSlot, IdleFacts, PointerList, DiskParts
  <2> HIDE DEF all
  <2>4. j.was = OnDisk /\ j.about = {n} /\ j.due = EndOf(OnDisk, all)
    BY JobParts
  <2>5. j.due \in GoodDisk
    BY <2>1, DeleteGood, DueGood
  <2> HIDE DEF j, list
  <2>6. ASSUME DueSafe PROVE all \in Seq(Mid(j))
    <3>1. Apart(OnDisk.inode, OnDisk.bits)
      BY <2>2, <2>6 DEF DueSafe
    <3> QED
      BY <2>2, <2>3, <2>4, <2>5, <3>1, DroppedMid DEF all
  <2>7. {n} \in SUBSET Name
    OBVIOUS
  <2> QED
    BY <2>1, <2>6, <2>7 DEF Parted, j
<1> QED
  BY <1>1, <1>2 DEF StartDelete, Dropped

LEMMA TruncateParts ==
  ASSUME CrashInv, NEW n \in Name, NEW size \in Size, StartTruncate(n, size)
  PROVE  Parted
<1>1. CASE Decline("truncate")
  BY <1>1, DeclineParts
<1>2. ASSUME NEW i \in InodeId, Found(n, i), size <= inode[i].size,
             NEW list, list = SubSeq(inode[i].direct, Blocks(size) + 1, Blocks(inode[i].size)),
             NEW ino, Start({n}, Dropped(OnDisk, list, i, ino, sb'))
      PROVE  Parted
  <2> DEFINE all == Dropped(OnDisk, list, i, ino, sb')
             j   == JobOf({n}, all)
  <2>1. Still /\ Start({n}, all)
    BY <1>2 DEF Start
  <2>2. OnDisk \in GoodDisk /\ Due = OnDisk
    BY <2>1, IdleFacts
  <2>3. /\ OnDisk.inode[i].used /\ OnDisk.inode[i].name = n
        /\ inode[i].direct \in Seq(Block) /\ Len(inode[i].direct) = Blocks(inode[i].size)
        /\ inode[i].size \in Nat
    BY <1>2, <2>1, FoundSlot, IdleFacts, PointerList, DiskParts
  <2>4. list \in Seq(Block) /\ Image(list) \subseteq Image(OnDisk.inode[i].direct)
    <3>1. Blocks(size) \in Nat /\ Blocks(size) <= Blocks(inode[i].size)
      BY <1>2, <2>3, SizeBlocks, BlocksMonotone
    <3> QED
      BY <1>2, <2>3, <3>1, CutInTwo, DiskParts
  <2> HIDE DEF all
  <2>5. j.was = OnDisk /\ j.about = {n} /\ j.due = EndOf(OnDisk, all)
    BY JobParts
  <2>6. j.due \in GoodDisk
    BY <2>1, TruncateGood, DueGood
  <2> HIDE DEF j
  <2>7. ASSUME DueSafe PROVE all \in Seq(Mid(j))
    <3>1. Apart(OnDisk.inode, OnDisk.bits)
      BY <2>2, <2>7 DEF DueSafe
    <3> QED
      BY <2>2, <2>3, <2>4, <2>5, <2>6, <3>1, DroppedMid DEF all
  <2>8. {n} \in SUBSET Name
    OBVIOUS
  <2> QED
    BY <2>1, <2>7, <2>8 DEF Parted, j
<1> QED
  BY <1>1, <1>2 DEF StartTruncate, Dropped

LEMMA RenameParts ==
  ASSUME CrashInv, NEW old \in Name, NEW new \in Name, StartRename(old, new)
  PROVE  Parted
<1>1. CASE Decline("rename")
  BY <1>1, DeclineParts
<1>2. ASSUME NEW i \in InodeId, Found(old, i), NEW ino,
             Start({old, new}, <<Slot(OnDisk, i, ino)>>)
      PROVE  Parted
  <2> DEFINE d   == Slot(OnDisk, i, ino)
             all == <<d>>
             j   == JobOf({old, new}, all)
  <2>1. Still /\ Start({old, new}, all)
    BY <1>2 DEF Start
  <2>2. OnDisk \in GoodDisk /\ Due = OnDisk /\ OnDisk.sb \in Superblock
    BY <2>1, IdleFacts, GoodParts
  <2>3. OnDisk.inode[i].name = old
    BY <1>2, <2>1, FoundSlot, IdleFacts, DiskParts
  <2>4. d = Named(OnDisk, i, ino, OnDisk.sb)
    BY <2>2 DEF Named, Slot, GoodDisk
  <2> HIDE DEF d
  <2>5. EndOf(OnDisk, all) = d
    BY DEF EndOf
  <2>a. ASSUME NEW T, d \in T PROVE all \in Seq(T)
    BY <2>a
  <2> HIDE DEF all
  <2>6. j.was = OnDisk /\ j.about = {old, new} /\ j.due = d
    BY <2>5, JobParts
  <2>7. j.due \in GoodDisk
    BY <2>1, RenameGood, DueGood
  <2> HIDE DEF j
  <2>8. ASSUME DueSafe PROVE all \in Seq(Mid(j))
    <3>1. Apart(OnDisk.inode, OnDisk.bits)
      BY <2>2, <2>8 DEF DueSafe
    <3>2. KeptIn(j, OnDisk)
      BY <2>2, <2>6, <3>1, SelfMid DEF Mid, Between
    <3>3. Named(OnDisk, i, ino, OnDisk.sb) \in Mid(j)
      BY <2>2, <2>3, <2>4, <2>6, <2>7, <3>2, EndMid
    <3> QED
      BY <2>4, <2>a, <3>3
  <2>9. {old, new} \in SUBSET Name
    OBVIOUS
  <2> QED
    BY <2>1, <2>8, <2>9 DEF Parted, j
<1> QED
  BY <1>1, <1>2 DEF StartRename

\* While the volume is safe a write that is accepted gets all its blocks.
LEMMA EnoughClear ==
  ASSUME CrashInv, Still, up, DueSafe, NEW i \in InodeId, NEW need \in Nat,
         need <= sb.free_blocks
  PROVE  need <= Cardinality(ClearFor(inode[i]))
<1> DEFINE clear == ClearFor(inode[i])
<1>1. /\ Due = OnDisk /\ inode \in GoodTable /\ bitmap = dbitmap
      /\ sb.magic /\ sb = dsb /\ sb.free_blocks \in Nat
  <2>1. /\ Due = OnDisk /\ inode \in GoodTable /\ bitmap = dbitmap
        /\ sb \in Superblock /\ sb.magic
    BY IdleFacts
  <2>2. sb = dsb
    BY <2>1, SameLooks DEF DueSafe
  <2> QED
    BY <2>1, <2>2 DEF Superblock
<1>2. sb.free_blocks = Cardinality(Block \ bitmap)
  BY <1>1, SameLooks DEF DueSafe
<1>3. Block \ bitmap \subseteq clear /\ clear \subseteq Block
  BY <1>1, PointerList, ImageType DEF ClearFor
<1> HIDE DEF clear
<1>4. IsFiniteSet(clear) /\ Cardinality(clear) \in Nat
  BY <1>3, Finite, FS_Subset, FS_CardinalityType
<1>5. Cardinality(Block \ bitmap) <= Cardinality(clear)
  BY <1>3, <1>4, FS_Subset
<1>6. need <= Cardinality(clear)
  BY <1>1, <1>2, <1>4, <1>5
<1> QED
  BY <1>6 DEF clear

\* A write of nothing writes zeroes.
LEMMA NoBytes ==
  ASSUME NEW x \in Nat \ {0}
  PROVE  ChunkOf(<<>>, x) = ZeroChunk
<1>1. ASSUME NEW j \in 1 .. BlockSize PROVE ~((x - 1) * BlockSize + j <= Len(<<>>))
  <2>1. BlockSize \in Nat /\ x - 1 \in Nat
    BY GeometryAssumption DEF GeometryAssumption
  <2> DEFINE m == (x - 1) * BlockSize
  <2>2. m \in Nat
    BY <2>1
  <2> HIDE DEF m
  <2>3. ~(m + j <= 0) /\ Len(<<>>) = 0
    BY <2>1, <2>2
  <2> QED
    BY <2>3 DEF m
<1> QED
  BY <1>1 DEF ChunkOf, ZeroChunk

LEMMA WriteParts ==
  ASSUME CrashInv, NEW n \in Name, NEW bytes \in Payload, StartWrite(n, bytes)
  PROVE  Parted
<1> DEFINE need == BlocksNeeded(Len(bytes))
<1>b. bytes \in Seq(Byte \cup {0}) /\ Len(bytes) \in Nat /\ (bytes # <<>> => Len(bytes) > 0)
  <2>1. bytes \in Seq(Byte)
    BY BytesAssumption DEF BytesAssumption
  <2> QED
    BY <2>1, BufferType
<1>1. CASE Decline("write")
  BY <1>1, DeclineParts
<1>2. ASSUME up, MetadataKept, NEW i \in InodeId, Found(n, i), ~FitsNot(Len(bytes)),
             NEW clear, clear = ClearFor(inode[i]),
             NEW got, got = IF need <= Cardinality(clear) THEN need ELSE Cardinality(clear),
             NEW pick, pick \in FirstFit(got, clear),
             \/ /\ got = need
                /\ Start({n}, Rewritten(OnDisk, inode[i].direct, i,
                                [inode[i] EXCEPT !.size = Len(bytes),
                                          !.direct = SubSeq(pick, 1, Blocks(Len(bytes)))],
                                pick, bytes, sb'))
             \/ /\ got < need
                /\ Start({n}, Refilled(OnDisk, inode[i].direct, pick, bytes))
      PROVE  Parted
  <2> DEFINE list == inode[i].direct
             ino  == [inode[i] EXCEPT !.size = Len(bytes),
                                      !.direct = SubSeq(pick, 1, Blocks(Len(bytes)))]
  <2>0. PICK all : /\ Start({n}, all)
                   /\ \/ got = need /\ all = Rewritten(OnDisk, list, i, ino, pick, bytes, sb')
                      \/ got < need
    BY <1>2
  <2>a. /\ list = inode[i].direct
        /\ ino = [inode[i] EXCEPT !.size = Len(bytes),
                                  !.direct = SubSeq(pick, 1, Blocks(Len(bytes)))]
    OBVIOUS
  <2> HIDE DEF list, ino
  <2> DEFINE j == JobOf({n}, all)
  <2>1. Still
    BY <2>0 DEF Start
  <2>2. /\ OnDisk \in GoodDisk /\ Due = OnDisk /\ bitmap = dbitmap /\ inode \in GoodTable
        /\ sb \in Superblock /\ sb.free_blocks \in Nat
    BY <1>2, <2>1, IdleFacts DEF Superblock
  <2>3. /\ OnDisk.inode[i].used /\ OnDisk.inode[i].name = n
        /\ inode[i] \in Inode /\ inode[i].used
        /\ list \in Seq(Block) /\ Image(list) \subseteq Image(OnDisk.inode[i].direct)
    BY <1>2, <2>a, <2>1, <2>2, FoundSlot, PointerList, DiskParts
  <2>4. /\ Len(bytes) \in Size /\ need \in Nat /\ need <= sb.free_blocks
        /\ Blocks(Len(bytes)) <= need /\ Blocks(Len(bytes)) \in Nat
    BY <1>b, <1>2, <2>2, AcceptedSize, BlocksType
  <2>5. /\ got \in Nat /\ pick \in [1 .. got -> Block] /\ pick \in Seq(Block)
        /\ Len(pick) = got /\ DOMAIN pick = 1 .. got
        /\ Image(pick) \subseteq (Block \ OnDisk.bits) \cup Image(OnDisk.inode[i].direct)
    <3>0. /\ CrashInv /\ Still /\ MetadataKept /\ i \in InodeId /\ inode[i].used /\ need \in Nat
          /\ clear = ClearFor(inode[i]) /\ pick \in FirstFit(got, clear)
          /\ got = IF need <= Cardinality(clear) THEN need ELSE Cardinality(clear)
      BY <1>2, <2>1, <2>3, <2>4
    <3> HIDE DEF need
    <3>1. /\ got \in Nat /\ got <= need
          /\ pick \in [1 .. got -> Block] /\ pick \in [1 .. got -> clear]
          /\ pick \in Seq(Block) /\ Len(pick) = got
          /\ Image(pick) \subseteq clear /\ clear \subseteq Block
          /\ Image(pick) \cap MetaBlock = {}
      BY ONLY <3>0, PickFacts
    <3>2. clear = (Block \ OnDisk.bits) \cup Image(OnDisk.inode[i].direct)
      BY <1>2, <2>2, DiskParts DEF ClearFor
    <3> QED
      BY <3>1, <3>2
  <2>6. \A x, y \in DOMAIN pick : pick[x] = pick[y] => x = y
    <3>1. \A x, y \in 1 .. got : x < y => pick[x] < pick[y]
      BY <1>2 DEF FirstFit
    <3>2. \A x \in 1 .. got : pick[x] \in Int
      BY <2>5, GeometryAssumption DEF GeometryAssumption, Block
    <3> SUFFICES ASSUME NEW x \in 1 .. got, NEW y \in 1 .. got, pick[x] = pick[y], x # y
                 PROVE  FALSE
      BY <2>5
    <3>3. x < y \/ y < x
      BY <2>5, <1>2
    <3> QED
      BY <3>1, <3>2, <3>3
  <2>7. j.was = OnDisk /\ j.about = {n} /\ j.due = EndOf(OnDisk, all)
    BY JobParts
  <2>8. j.due \in GoodDisk
    BY <2>0, WriteGood, DueGood
  <2> HIDE DEF j
  <2>9. ASSUME DueSafe PROVE all \in Seq(Mid(j))
    <3>1. Apart(OnDisk.inode, OnDisk.bits)
      BY <2>2, <2>9 DEF DueSafe
    <3>2. got = need
      BY <1>2, <2>1, <2>4, <2>9, EnoughClear
    <3>3. all = Rewritten(OnDisk, list, i, ino, pick, bytes, sb')
      BY <2>0, <2>4, <3>2
    <3>4. ino.used /\ ino.name = n /\ ino.direct = SubSeq(pick, 1, Blocks(Len(bytes)))
      BY <2>a, <2>3, DiskParts DEF Inode
    <3>5. \/ Image(pick) \subseteq Image(ino.direct)
          \/ \A x \in DOMAIN pick : ChunkOf(bytes, x) \in Padding
      <4>1. CASE bytes = <<>>
        BY <2>5, <4>1, NoBytes DEF Padding
      <4>2. CASE bytes # <<>>
        <5>1. Blocks(Len(bytes)) = need
          BY <4>2, <1>b, BlocksType DEF BlocksNeeded
        <5>2. ino.direct = Keep(pick, Len(pick))
          BY <2>4, <2>5, <3>2, <3>4, <5>1, CutInTwo
        <5>3. ino.direct = pick
          BY <2>5, <5>2 DEF Keep
        <5> QED
          BY <5>3
      <4> QED
        BY <4>1, <4>2
    <3> HIDE DEF need
    <3>6. Rewritten(OnDisk, list, i, ino, pick, bytes, sb') \in Seq(Mid(j))
      BY <1>b, <2>2, <2>3, <2>5, <2>6, <2>7, <2>8, <3>1, <3>3, <3>4, <3>5, RewrittenMid
    <3> QED
      BY <3>3, <3>6
  <2>10. {n} \in SUBSET Name
    OBVIOUS
  <2> QED
    BY <2>0, <2>9, <2>10 DEF Parted, j
<1> QED
  BY <1>1, <1>2 DEF StartWrite, Rewritten, Refilled

LEMMA UnmountParts ==
  ASSUME CrashInv, StartUnmount
  PROVE  Parted
<1> DEFINE d == [OnDisk EXCEPT !.bits = bitmap]
           e == [d EXCEPT !.sb = sb]
           all == <<d, e>>
           j == JobOf({}, all)
<1>1. Still /\ up /\ Start({}, all)
  BY DEF StartUnmount, Start
<1>2. OnDisk \in GoodDisk /\ Due = OnDisk /\ bitmap = OnDisk.bits /\ sb \in Superblock
  BY <1>1, IdleFacts, DiskParts
<1>3. d = OnDisk
  BY <1>2 DEF GoodDisk
<1>4. e \in GoodDisk /\ e.inode = OnDisk.inode /\ e.data = OnDisk.data /\ e.bits = OnDisk.bits
  BY <1>2, <1>3 DEF GoodDisk
<1> HIDE DEF d, e
<1>5. ASSUME NEW T, d \in T, e \in T PROVE all \in Seq(T)
  BY <1>5
<1>6. j.was = OnDisk
  BY JobParts
<1> HIDE DEF all, j
<1>7. ASSUME DueSafe PROVE all \in Seq(Mid(j))
  <2>1. Apart(OnDisk.inode, OnDisk.bits)
    BY <1>2, <1>7 DEF DueSafe
  <2>2. OnDisk \in Mid(j)
    BY <1>2, <1>6, <2>1, SelfMid
  <2>3. KeptIn(j, e) /\ TableOf(j, e)
    BY <1>4, <1>6, <2>2 DEF Mid, Between, KeptIn, TableOf
  <2>4. \A n : ChunksOf(e, n) = ChunksOf(OnDisk, n)
    BY <1>4 DEF ChunksOf, Owners
  <2>5. e \in Mid(j)
    BY <1>4, <1>6, <2>3, <2>4 DEF Mid, Between, OwnBytes
  <2> QED
    BY <1>3, <1>5, <2>2, <2>5
<1>8. {} \in SUBSET Name
  OBVIOUS
<1> QED
  BY <1>1, <1>7, <1>8 DEF Parted, j

\* Every disk of a format has an empty inode table.
LEMMA FormatTable ==
  ASSUME NEW arg \in FormatArg
  PROVE  /\ FormatDisks(arg) \in Seq({e \in GoodDisk : e.inode = BlankDisk.inode})
         /\ FormatDisks(arg) # <<>> =>
              EndOf(OnDisk, FormatDisks(arg)) \in {e \in GoodDisk : e.inode = BlankDisk.inode}
<1> DEFINE S == {e \in GoodDisk : e.inode = BlankDisk.inode}
<1>1. BlankDisk \in S
  BY BlankGood
<1>2. FormatDisks(arg) \in Seq(S)
  <2>1. CASE arg = "bad_block"
    BY <2>1 DEF FormatDisks
  <2>2. CASE arg = "too_small"
    <3>1. FormatDisks(arg) = <<BlankDisk>>
      BY <2>2 DEF FormatDisks
    <3> HIDE DEF S
    <3> QED
      BY <1>1, <3>1
  <2>3. CASE arg = "fine"
    <3> DEFINE new  == [BlankDisk EXCEPT !.sb = FreshSb]
               mark == Marked(new)
               head == <<BlankDisk, new>>
    <3>1. DataStart \in Nat /\ DataStart < TotalBlocks /\ TotalBlocks \in Nat
      BY GeometryAssumption DEF GeometryAssumption
    <3>2. new \in S
      BY <1>1, NewSbType DEF GoodDisk
    <3>3. ASSUME NEW k \in 1 .. DataStart PROVE mark[k] \in S
      <4>1. mark[k] = [new EXCEPT !.bits = 0 .. k - 1]
        BY DEF Marked
      <4>2. 0 .. k - 1 \subseteq Block
        BY <3>1 DEF Block
      <4> HIDE DEF new
      <4> QED
        BY <3>2, <4>1, <4>2 DEF GoodDisk
    <3>4. mark = [k \in 1 .. DataStart |-> mark[k]]
      BY DEF Marked
    <3> HIDE DEF new, mark, S
    <3>5. mark \in Seq(S)
      BY <3>1, <3>3, <3>4
    <3>6. head \in Seq(S)
      BY <1>1, <3>2
    <3> HIDE DEF head
    <3>7. head \o mark \in Seq(S)
      BY <3>5, <3>6, EndMore
    <3> QED
      BY <2>3, <3>7 DEF FormatDisks, head, mark, new
  <2> QED
    BY <2>1, <2>2, <2>3 DEF FormatArg
<1> HIDE DEF S
<1>3. FormatDisks(arg) # <<>> => EndOf(OnDisk, FormatDisks(arg)) \in S
  <2> DEFINE f == FormatDisks(arg)
  <2> HIDE DEF f
  <2>1. f \in Seq(S)
    BY <1>2 DEF f
  <2>2. f # <<>> => f[Len(f)] \in S
    BY <2>1
  <2> QED
    BY <2>2 DEF EndOf, f
<1> QED
  BY <1>2, <1>3 DEF S

LEMMA FormatParts ==
  ASSUME CrashInv, NEW arg \in FormatArg, StartFormat(arg)
  PROVE  Parted
<1> DEFINE all == FormatDisks(arg)
           j   == JobOf(Name, all)
           S   == {e \in GoodDisk : e.inode = BlankDisk.inode}
<1>1. Start(Name, all) /\ Name \in SUBSET Name /\ Still
  BY DEF StartFormat, Start
<1>2. OnDisk \in GoodDisk
  BY <1>1, IdleFacts
<1>3. all \in Seq(S) /\ (all # <<>> => EndOf(OnDisk, all) \in S)
  BY FormatTable
<1> HIDE DEF all
<1>4. j.was = OnDisk /\ j.about = Name /\ j.due = EndOf(OnDisk, all)
  BY JobParts
<1> HIDE DEF j
<1>5. ASSUME all # <<>>, NEW e \in S PROVE e \in Mid(j)
  <2>1. \A k \in Owners(OnDisk) : OnDisk.inode[k].name \in Name
    BY <1>2, GoodParts DEF Owners, Inode
  <2>2. KeptIn(j, e)
    BY <1>4, <2>1 DEF KeptIn
  <2>3. TableOf(j, e)
    BY <1>3, <1>4, <1>5 DEF TableOf
  <2>4. Owners(e) = {}
    <3>1. \A i \in InodeId : e.inode[i] = ZeroInode
      BY DEF BlankDisk
    <3>2. ~ZeroInode.used
      BY DEF ZeroInode
    <3> QED
      BY <3>1, <3>2 DEF Owners
  <2>5. \A n : ChunksOf(e, n) = {}
    BY <2>4 DEF ChunksOf
  <2> QED
    BY <2>2, <2>3, <2>5 DEF Mid, Between, OwnBytes
<1>6. all \in Seq(Mid(j))
  <2>1. CASE all = <<>>
    BY <2>1
  <2>2. CASE all # <<>>
    <3>1. S \subseteq Mid(j)
      BY <1>5, <2>2
    <3> HIDE DEF S
    <3> QED
      BY <1>3, <3>1, SeqWider
  <2> QED
    BY <2>1, <2>2
<1> QED
  BY <1>1, <1>6 DEF Parted, j

-----------------------------------------------------------------------------
(* PartInv is an invariant.                                                *)

LEMMA Primes ==
  /\ Between(job, OnDisk)' <=> Between(job', OnDisk')
  /\ Mid(job)' = Mid(job')
  /\ Rest(OnDisk)' = Rest(OnDisk')
  /\ OneInPart' <=> cuts' = 0 \/ (cuts' = 1 /\ todo' = <<>> /\ job'.about # {})
  /\ Still' <=> todo' = <<>>
BY DEF Between, KeptIn, OwnBytes, TableOf, Mid, Rest, OneInPart, Still

LEMMA RestMid ==
  ASSUME NEW d \in GoodDisk, Apart(d.inode, d.bits)
  PROVE  Rest(d).about = {} /\ d \in Mid(Rest(d)) /\ Between(Rest(d), d)
<1>1. Rest(d).was = d /\ Rest(d).about = {}
  BY DEF Rest
<1> QED
  BY <1>1, SelfMid DEF Mid

\* When a command starts.
LEMMA PartStart ==
  ASSUME PartInv, WholeInv', Parted
  PROVE  PartInv'
<1>1. PICK about, disks :
        /\ about \in SUBSET Name
        /\ Start(about, disks) /\ (DueSafe => disks \in Seq(Mid(JobOf(about, disks))))
  BY DEF Parted
<1>2. CrashInv /\ Still
  BY <1>1 DEF PartInv, WholeInv, Start
<1>3. OnDisk \in GoodDisk /\ Due = OnDisk
  BY <1>2, IdleFacts
<1>4. /\ OnDisk' = OnDisk /\ todo' = disks /\ cuts' = cuts
      /\ job' = IF disks = <<>> THEN Rest(OnDisk) ELSE JobOf(about, disks)
  BY <1>1, StartMeans DEF JobOf
<1>5. cuts = 0 => DueSafe
  BY SafeMeans DEF PartInv, WholeInv
<1>6. cuts = 0 => Apart(OnDisk.inode, OnDisk.bits)
  BY <1>3, <1>5 DEF DueSafe
<1>7. CASE disks = <<>>
  <2>1. job' = Rest(OnDisk) /\ job'.about = {}
    BY <1>4, <1>7 DEF Rest
  <2>2. OneInPart' => Between(job', OnDisk')
    BY <1>3, <1>4, <1>6, <2>1, RestMid, Primes
  <2>3. todo' \in Seq(Mid(job')) /\ job' = Rest(OnDisk')
    BY <1>4, <1>7, <2>1
  <2> QED
    BY <2>1, <2>2, <2>3, Primes DEF PartInv
<1>8. CASE disks # <<>>
  <2>1. job' = JobOf(about, disks) /\ ~Still'
    BY <1>4, <1>8, Primes
  <2>2. OneInPart' => Between(job', OnDisk')
    <3> SUFFICES ASSUME OneInPart' PROVE Between(job', OnDisk')
      OBVIOUS
    <3>1. cuts = 0
      BY <1>4, <1>8, Primes
    <3>2. job'.was = OnDisk
      BY <2>1, JobParts
    <3>3. OnDisk \in Mid(job')
      BY <1>3, <1>6, <3>1, <3>2, SelfMid
    <3> QED
      BY <1>4, <3>3 DEF Mid
  <2>3. cuts' = 0 => todo' \in Seq(Mid(job'))
    BY <1>1, <1>4, <1>5, <2>1
  <2> QED
    BY <2>1, <2>2, <2>3, Primes DEF PartInv
<1> QED
  BY <1>7, <1>8

\* When one of its writes is made.
LEMMA PartWrite ==
  ASSUME PartInv, WholeInv', DiskWrite
  PROVE  PartInv'
<1>1. CrashInv /\ todo # <<>> /\ cuts \in Nat
  BY DEF PartInv, WholeInv, CrashInv, CrashType, DiskWrite, Still
<1>2. /\ OnDisk' = Head(todo) /\ todo' = Tail(todo) /\ OnDisk' \in GoodDisk
      /\ Due' = Due /\ cuts' = cuts
      /\ job' = IF todo' = <<>> THEN Rest(OnDisk') ELSE job
  BY <1>1, DiskWriteFacts DEF DiskWrite
<1>3. CASE todo' = <<>>
  <2>1. job' = Rest(OnDisk') /\ Due' = OnDisk' /\ job'.about = {}
    BY <1>2, <1>3 DEF Rest, Due, EndOf
  <2>2. cuts = 0 => Apart(OnDisk'.inode, OnDisk'.bits)
    <3>1. cuts = 0 => DueSafe
      BY SafeMeans DEF PartInv, WholeInv
    <3> QED
      BY <1>2, <2>1, <3>1 DEF DueSafe
  <2>3. OneInPart' => Between(job', OnDisk')
    BY <1>2, <2>1, <2>2, RestMid, Primes
  <2>4. todo' \in Seq(Mid(job'))
    BY <1>3
  <2> QED
    BY <2>1, <2>3, <2>4, Primes DEF PartInv
<1>4. CASE todo' # <<>>
  <2>1. job' = job /\ ~Still'
    BY <1>2, <1>4, Primes
  <2>2. cuts = 0 => OnDisk' \in Mid(job) /\ todo' \in Seq(Mid(job))
    <3>1. cuts = 0 => todo \in Seq(Mid(job))
      BY DEF PartInv
    <3> QED
      BY <1>1, <1>2, <3>1, EndTail
  <2>3. OneInPart' => Between(job', OnDisk')
    BY <1>2, <1>4, <2>1, <2>2, Primes DEF Mid
  <2> QED
    BY <1>2, <2>1, <2>2, <2>3, Primes DEF PartInv
<1> QED
  BY <1>3, <1>4

\* When the process is killed in it.
LEMMA PartCut ==
  ASSUME PartInv, WholeInv', KillBusy
  PROVE  PartInv'
<1>1. /\ OnDisk' = OnDisk /\ todo' = <<>> /\ job' = job /\ cuts' = cuts + 1
      /\ up' = FALSE /\ cuts \in Nat
  BY DEF KillBusy, Exit, disk, OnDisk, PartInv, WholeInv, CrashInv, CrashType
<1>2. OneInPart' => Between(job', OnDisk')
  <2> SUFFICES ASSUME OneInPart' PROVE Between(job, OnDisk)
    BY <1>1
  <2>1. cuts = 0
    BY <1>1, Primes
  <2> QED
    BY <2>1 DEF PartInv, OneInPart
<1>3. cuts' # 0
  BY <1>1
<1> QED
  BY <1>1, <1>2, <1>3, Primes DEF PartInv

\* When none is under way.
LEMMA PartIdle ==
  ASSUME PartInv, WholeInv', StartMount \/ KillIdle \/ UNCHANGED crashVars
  PROVE  PartInv'
<1>1. /\ OnDisk' = OnDisk /\ todo' = todo /\ job' = job /\ cuts' = cuts
      /\ \/ up' = TRUE /\ sb' = dsb'
         \/ up' = FALSE
         \/ up' = up /\ sb' = sb /\ dsb' = dsb
  BY DEF StartMount, Mount, KillIdle, Kill, Exit, crashVars, vars, disk, OnDisk
<1>2. OneInPart' <=> OneInPart
  BY <1>1, Primes DEF OneInPart, Still
<1>3. OneInPart' => Between(job', OnDisk')
  BY <1>1, <1>2 DEF PartInv
<1>4. cuts' = 0 => todo' \in Seq(Mid(job')) /\ (todo' = <<>> => job' = Rest(OnDisk'))
  BY <1>1 DEF PartInv, Still
<1>5. todo' = <<>> /\ up' /\ job'.about # {} => sb' = dsb'
  BY <1>1 DEF PartInv, Still
<1> QED
  BY <1>3, <1>4, <1>5, Primes DEF PartInv

LEMMA StartsParted ==
  ASSUME CrashInv, CrashNext, ~DiskWrite, ~StartMount, ~KillIdle, ~KillBusy
  PROVE  Parted
BY FormatParts, UnmountParts, CreateParts, DeleteParts, RenameParts, TruncateParts,
   WriteParts DEF CrashNext

LEMMA PartStep == PartInv /\ [CrashNext]_crashVars => PartInv'
<1> SUFFICES ASSUME PartInv, [CrashNext]_crashVars PROVE PartInv'
  OBVIOUS
<1>1. WholeInv' /\ CrashInv
  BY WholeStep DEF PartInv, WholeInv
<1>2. CASE StartMount \/ KillIdle \/ UNCHANGED crashVars
  BY <1>1, <1>2, PartIdle
<1>3. CASE DiskWrite
  BY <1>1, <1>3, PartWrite
<1>4. CASE KillBusy
  BY <1>1, <1>4, PartCut
<1>5. CASE CrashNext /\ ~DiskWrite /\ ~StartMount /\ ~KillIdle /\ ~KillBusy
  BY <1>1, <1>5, StartsParted, PartStart
<1> QED
  BY <1>2, <1>3, <1>4, <1>5

LEMMA PartInit == CrashInit => PartInv
<1> SUFFICES ASSUME CrashInit PROVE PartInv
  OBVIOUS
<1>1. WholeInv /\ todo = <<>> /\ job = Rest(OnDisk) /\ cuts = 0 /\ ~up
  BY WholeStart DEF CrashInit, Init
<1>2. OnDisk \in GoodDisk /\ Due = OnDisk
  BY <1>1, IdleFacts DEF WholeInv, Still
<1>3. Apart(OnDisk.inode, OnDisk.bits)
  BY <1>1, <1>2, SafeMeans DEF WholeInv, DueSafe
<1>4. Between(job, OnDisk) /\ todo \in Seq(Mid(job))
  BY <1>1, <1>2, <1>3, RestMid
<1> QED
  BY <1>1, <1>4 DEF PartInv

LEMMA PartAlways == CrashSpec => []PartInv
BY PartInit, PartStep, PTL DEF CrashSpec

\* Killing a process in a command harms no file the command is not about.
THEOREM OthersSafe == CrashSpec => []OthersKept
<1>1. PartInv => OthersKept
  BY DEF PartInv, Between, KeptIn, OthersKept, OnDisk
<1> QED
  BY <1>1, PartAlways, PTL

\* A file whose command was cut off holds no bytes of another file.
THEOREM BytesKept == CrashSpec => []NoForeignBytes
<1>1. PartInv => NoForeignBytes
  BY DEF PartInv, Between, OwnBytes, NoForeignBytes
<1> QED
  BY <1>1, PartAlways, PTL

\* If fsck calls the disk clean that the first cut left, the inode table is
\* the one before the command or the one after it.
THEOREM CleanWhole == CrashSpec => []CleanMeansWhole
<1>1. PartInv => CleanMeansWhole
  <2> SUFFICES ASSUME PartInv, up, OneInPart, Still, FsckFindsNothing
               PROVE  inode \in {job.was.inode, job.due.inode}
    BY DEF CleanMeansWhole
  <2>1. CASE job.about = {}
    <3>1. job = Rest(OnDisk)
      BY <2>1 DEF PartInv, OneInPart
    <3> QED
      BY <3>1 DEF Rest, OnDisk
  <2>2. CASE job.about # {}
    <3>1. sb = dsb /\ TableOf(job, OnDisk)
      BY <2>2 DEF PartInv, Between
    <3>2. Owners(OnDisk) = UsedSlots
      BY DEF Owners, UsedSlots, OnDisk
    <3>3. Cardinality(Owners(OnDisk)) = MaxInodes - OnDisk.sb.free_inodes
      BY <3>1, <3>2, DiskParts DEF FsckFindsNothing
    <3> QED
      BY <3>1, <3>3, DiskParts DEF TableOf
  <2> QED
    BY <2>1, <2>2
<1> QED
  BY <1>1, PartAlways, PTL
=============================================================================
