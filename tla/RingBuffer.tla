------------------------------ MODULE RingBuffer ------------------------------
(***************************************************************************)
(* misc/hev-ring-buffer.c: the counters of a ring buffer and the memory    *)
(* its operations hand out.  A byte written stays in the buffer when it    *)
(* has been read, until it is released: rda_size bytes can still be read,  *)
(* use_size bytes are not released.                                        *)
(* An address is a number below max_size.                                  *)
(***************************************************************************)
EXTENDS Integers, Sequences

CONSTANT max_size  \* bytes of data

ASSUME RingAssumption == max_size \in Nat \ {0}

Addresses == 0 .. max_size - 1

RingBuffers ==
  [rp : Addresses, wp : Addresses, rda_size : 0 .. max_size, use_size : 0 .. max_size]

(* Allocated with zeros. *)
EmptyRing == [rp |-> 0, wp |-> 0, rda_size |-> 0, use_size |-> 0]

Lesser(m, n) == IF m <= n THEN m ELSE n

(***************************************************************************)
(* The vector of a readv, or the chunks to write: size bytes from pos on,  *)
(* in two pieces when they pass the end of the data.  The piece that is    *)
(* not needed has length 0.                                                *)
(***************************************************************************)
Iovec(pos, size) ==
  LET upper_size == Lesser(size, max_size - pos)
  IN  << [base |-> pos, len |-> upper_size], [base |-> 0, len |-> size - upper_size] >>

(* The addresses of a piece, and of a whole vector, in order. *)
PieceCells(piece) == [i \in 1 .. piece.len |-> piece.base + i - 1]

IovCells(iov) == PieceCells(iov[1]) \o PieceCells(iov[2])

IovSize(iov) == iov[1].len + iov[2].len

reading(b) == Iovec(b.rp, b.rda_size)

(* Mutant: the whole buffer is free but for what has not been read. *)
writing_OverUnreleased(b) == Iovec(b.wp, max_size - b.rda_size)

writing(b) == Iovec(b.wp, max_size - b.use_size)

read_finish(b, size) ==
  [b EXCEPT !.rp = (@ + size) % max_size, !.rda_size = @ - size]

(* Mutant: the positions are reset when nothing is left to read. *)
read_release_WhenRead(b, size) ==
  IF b.rda_size = 0
  THEN [b EXCEPT !.use_size = @ - size, !.rp = 0, !.wp = 0]
  ELSE [b EXCEPT !.use_size = @ - size]

read_release(b, size) ==
  IF b.use_size = size
  THEN [b EXCEPT !.use_size = 0, !.rp = 0, !.wp = 0]
  ELSE [b EXCEPT !.use_size = @ - size]

write_finish(b, size) ==
  [b EXCEPT !.wp = (@ + size) % max_size,
            !.use_size = @ + size, !.rda_size = @ + size]

=============================================================================
