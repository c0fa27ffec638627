----------------------------- MODULE BlockFifo -----------------------------
(***************************************************************************)
(* The arithmetic of BlockFifo<Type, len> of api/fifo.h on its two         *)
(* indices: which contiguous part of the ring each side may work on, for   *)
(* example by DMA.                                                         *)
(***************************************************************************)
EXTENDS Naturals, Sequences

CONSTANT FifoLen   \* the template parameter len

ASSUME BlockFifoAssumption == FifoLen \in Nat /\ FifoLen >= 2

Index == 0 .. FifoLen - 1

advanceIndex(index) == IF index < FifoLen - 1 THEN index + 1 ELSE 0

(* The loop subtracts len until the index is inside the ring.              *)
advanceIndexEx(index, advanceSize) == (index + advanceSize) % FifoLen

(* maxLen of getBufferToWrite and of getBufferToRead, from readX, writeX.  *)
blockToWriteFull(r, w) == IF r > w THEN r - w - 1 ELSE FifoLen - w

blockToWrite(r, w) ==
    IF r = advanceIndex(w) THEN 0
    ELSE IF r > w THEN r - w - 1
    ELSE IF r = 0 THEN FifoLen - w - 1 ELSE FifoLen - w

blockToRead(r, w) == IF r <= w THEN w - r ELSE FifoLen - r

(* The elements from index from up to, and without, index to.              *)
elements(ring, from, to) ==
    [k \in 1 .. (to + FifoLen - from) % FifoLen |-> ring[(from + k - 1) % FifoLen]]
=============================================================================
