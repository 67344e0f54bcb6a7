-------------------------------- MODULE Sha1 --------------------------------
(***************************************************************************)
(* How sha1.c cuts a message into blocks and pads it, as Hash of nhbackup.h*)
(* uses it.  The compression of a block is ideal: a digest is the sequence *)
(* of the blocks that went into it.                                        *)
(***************************************************************************)
EXTENDS Octets, SequencesExt

CONSTANTS
    BlockSize,  \* 64 octets, the last of which hold the length
    WordMod     \* 2^32: values of Length_Low and of Length_High

\* A word of the length is one element of a block.
LengthSize == 2

ASSUME Sha1Assumption ==
    /\ BlockSize \in Nat /\ BlockSize > LengthSize
    /\ WordMod \in Nat \ {0} /\ WordMod % 8 = 0

\* SHA1Reset, which leaves in the block what was in memory.
SHA1Reset(junk) ==
    [block |-> [i \in 1 .. BlockSize |-> junk], index |-> 0, low |-> 0, high |-> 0,
     digest |-> <<>>, corrupted |-> FALSE]

SHA1ProcessMessageBlock(c) == [c EXCEPT !.digest = Append(@, c.block), !.index = 0]

PutOctet(c, b) == [c EXCEPT !.block[c.index + 1] = b, !.index = @ + 1]

\* Length_Low += 8, with a carry; a second one is too much.
AddLength(c) ==
    LET low == (c.low + 8) % WordMod
        high == IF low = 0 THEN (c.high + 1) % WordMod ELSE c.high
    IN [c EXCEPT !.low = low, !.high = high, !.corrupted = low = 0 /\ high = 0]

InputOctet(c, b) ==
    LET d == AddLength(PutOctet(c, b)) IN
    IF c.corrupted THEN c
    ELSE IF d.index = BlockSize THEN SHA1ProcessMessageBlock(d)
    ELSE d

SHA1Input(c, s) == FoldLeft(InputOctet, c, s)

ZerosTo(c, n) ==
    [c EXCEPT !.block = [i \in 1 .. BlockSize |->
                            IF i \in c.index + 1 .. n THEN 0 ELSE c.block[i]],
              !.index = n]

\* Mutant: a message that ends where the length begins gets no block more.
NoRoomLate(c) == c.index > BlockSize - LengthSize

\* "too small to hold the initial padding bits and length"
NoRoom(c) == c.index > BlockSize - LengthSize - 1

SHA1PadMessage(c) ==
    LET one == PutOctet(c, 128)
        filled == IF NoRoom(c) THEN SHA1ProcessMessageBlock(ZerosTo(one, BlockSize))
                               ELSE one
        padded == ZerosTo(filled, BlockSize - LengthSize)
    IN SHA1ProcessMessageBlock(
          [padded EXCEPT !.block[BlockSize - 1] = c.high, !.block[BlockSize] = c.low])

SHA1Result(c) == SHA1PadMessage(c).digest

----------------------------------------------------------------------------
\* The padded message of FIPS 180, and its blocks.
Padded(s) ==
    LET zeros == CHOOSE n \in 0 .. BlockSize - 1 :
                    (Len(s) + 1 + n + LengthSize) % BlockSize = 0
        bits == 8 * Len(s)
    IN s \o <<128>> \o [i \in 1 .. zeros |-> 0] \o <<bits \div WordMod, bits % WordMod>>

BlocksOf(s) ==
    [k \in 1 .. Len(s) \div BlockSize |->
        SubSeq(s, (k - 1) * BlockSize + 1, k * BlockSize)]
=============================================================================
