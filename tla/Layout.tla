------------------------------- MODULE Layout -------------------------------
(***************************************************************************)
(* Where a format puts the parts of a disk: superblock, bitmap, inode      *)
(* table and data, in this order.  fs_format computes it in 32 bits and    *)
(* fsFormat of the web page in the numbers of JavaScript.                  *)
(***************************************************************************)
EXTENDS Integers

CONSTANTS
  InodeSize, \* sizeof(Inode), 144
  Word       \* the range of an uint32_t, 2^32

ASSUME LayoutAssumption ==
  /\ InodeSize \in Nat \ {0}
  /\ Word \in Nat \ {0}

AtLeastOne(n) == IF n < 1 THEN 1 ELSE n
CeilDiv(a, b) == (a + b - 1) \div b

\* The layout of a disk of that many blocks, which are of that many bytes.
Geometry(total, block) ==
  LET bitmapBlocks == AtLeastOne(CeilDiv(total, block * 8))
      inodeBlocks  == AtLeastOne(total \div 10)
  IN  [bitmapStart |-> 1,
       inodeStart  |-> 1 + bitmapBlocks,
       dataStart   |-> 1 + bitmapBlocks + inodeBlocks,
       totalBlocks |-> total,
       maxInodes   |-> (block \div InodeSize) * inodeBlocks]

\* A format goes on when an inode fits a block and a data block is left.
Acceptable(size, block) ==
  /\ block >= InodeSize
  /\ Geometry(size \div block, block).dataStart < size \div block

-----------------------------------------------------------------------------
(* The same in fs_format.                                                  *)

\* The number of bits of a block, as the multiplication leaves it.
BitsC(block) == (block * 8) % Word

BitmapBlocksC(total, block) == ((total + BitsC(block) - 1) % Word) \div BitsC(block)

InodeBlocksC(total) == IF total \div 10 = 0 THEN 1 ELSE total \div 10

GeometryC(total, block) ==
  LET bitmapBlocks == BitmapBlocksC(total, block)
      inodeBlocks  == InodeBlocksC(total)
  IN  [bitmapStart |-> 1,
       inodeStart  |-> (1 + bitmapBlocks) % Word,
       dataStart   |-> (1 + bitmapBlocks + inodeBlocks) % Word,
       totalBlocks |-> total,
       maxInodes   |-> ((block \div InodeSize) * inodeBlocks) % Word]

\* No intermediate result of the computation above leaves its range.
NoOverflow(total, block) ==
  /\ total + block * 8 <= Word
  /\ 2 + total <= Word
  /\ (block \div InodeSize) * InodeBlocksC(total) < Word
=============================================================================
