--------------------------- MODULE TcpSpliceProofs ---------------------------
(***************************************************************************)
(* Theorems about TcpSplice, for every size of the ring buffer and of the  *)
(* window.  Three layers: the arithmetic of the ring buffer's addresses;   *)
(* SafeInv, an inductive invariant from which the memory lwIP refers to is *)
(* intact and the window is exact; and the numbering of the bytes, from    *)
(* which the session implements ByteRelay.                                 *)
(***************************************************************************)
EXTENDS TcpSplice, SequenceTheorems, TLAPS

USE RingAssumption

(* The address i places behind p. *)
Behind(p, i) == (p + i) % max_size

(* An address is reached with at most one turn round the data. *)
LEMMA BehindIs ==
  \A p \in Addresses, i \in 0 .. max_size :
    /\ Behind(p, i) \in Addresses
    /\ Behind(p, i) = IF p + i < max_size THEN p + i ELSE p + i - max_size
<1> SUFFICES ASSUME NEW p \in Addresses, NEW i \in 0 .. max_size
             PROVE  /\ Behind(p, i) \in Addresses
                    /\ Behind(p, i) = IF p + i < max_size THEN p + i ELSE p + i - max_size
  OBVIOUS
<1>1. CASE p + i < max_size
  BY <1>1 DEF Behind, Addresses
<1>2. CASE p + i >= max_size
  BY <1>2 DEF Behind, Addresses
<1>3. QED
  BY <1>1, <1>2 DEF Addresses

(* Fewer places than there are addresses do not lead back. *)
LEMMA BehindDiffers ==
  ASSUME NEW p \in Addresses, NEW i \in 0 .. max_size - 1, NEW j \in 0 .. max_size - 1,
         Behind(p, i) = Behind(p, j)
  PROVE  i = j
<1>1. i \in 0 .. max_size /\ j \in 0 .. max_size
  OBVIOUS
<1>2. /\ Behind(p, i) = IF p + i < max_size THEN p + i ELSE p + i - max_size
      /\ Behind(p, j) = IF p + j < max_size THEN p + j ELSE p + j - max_size
  BY <1>1, BehindIs
<1>3. (IF p + i < max_size THEN p + i ELSE p + i - max_size)
        = (IF p + j < max_size THEN p + j ELSE p + j - max_size)
  BY <1>2
<1>4. QED
  BY <1>3 DEF Addresses

(* A vector of size bytes from p on covers the next size addresses, in order. *)
LEMMA CellsOfIovec ==
  ASSUME NEW p \in Addresses, NEW size \in 0 .. max_size
  PROVE  /\ IovSize(Iovec(p, size)) = size
         /\ IovCells(Iovec(p, size)) \in Seq(Addresses)
         /\ Len(IovCells(Iovec(p, size))) = size
         /\ \A i \in 1 .. size : IovCells(Iovec(p, size))[i] = Behind(p, i - 1)
         /\ \A c \in {1, 2} : /\ PieceCells(Iovec(p, size)[c]) \in Seq(Addresses)
                             /\ Len(PieceCells(Iovec(p, size)[c])) <= size
         /\ \A i \in 1 .. Len(PieceCells(Iovec(p, size)[1])) :
              PieceCells(Iovec(p, size)[1])[i] = Behind(p, i - 1)
<1> DEFINE upper == Lesser(size, max_size - p)
           s1 == [i \in 1 .. upper |-> p + i - 1]
           s2 == [i \in 1 .. size - upper |-> 0 + i - 1]
<1>1. /\ upper \in 0 .. size /\ upper <= max_size - p
      /\ upper = size \/ upper = max_size - p
  BY DEF Lesser, Addresses
<1>2. s1 \in Seq(Addresses) /\ Len(s1) = upper /\ \A i \in 1 .. upper : s1[i] = p + i - 1
  <2>1. \A i \in 1 .. upper : p + i - 1 \in Addresses
    BY <1>1 DEF Addresses
  <2> HIDE DEF upper
  <2>2. QED
    BY <1>1, <2>1
<1>3. s2 \in Seq(Addresses) /\ Len(s2) = size - upper /\ \A i \in 1 .. size - upper : s2[i] = i - 1
  <2>1. \A i \in 1 .. size - upper : 0 + i - 1 \in Addresses /\ 0 + i - 1 = i - 1
    BY <1>1 DEF Addresses
  <2> HIDE DEF upper
  <2>2. QED
    BY <1>1, <2>1
<1>4. /\ IovCells(Iovec(p, size)) = s1 \o s2
      /\ IovSize(Iovec(p, size)) = upper + (size - upper)
      /\ PieceCells(Iovec(p, size)[1]) = s1 /\ PieceCells(Iovec(p, size)[2]) = s2
  BY DEF IovCells, IovSize, PieceCells, Iovec
<1> HIDE DEF s1, s2, upper
<1>5. /\ s1 \o s2 \in Seq(Addresses) /\ Len(s1 \o s2) = size
      /\ \A i \in 1 .. size : (s1 \o s2)[i] = IF i <= upper THEN p + i - 1 ELSE i - upper - 1
  <2>1. /\ s1 \o s2 \in Seq(Addresses)
        /\ Len(s1 \o s2) = upper + (size - upper)
        /\ \A i \in 1 .. upper + (size - upper) :
             (s1 \o s2)[i] = IF i <= upper THEN s1[i] ELSE s2[i - upper]
    <3>1. s1 \in Seq(Addresses) /\ s2 \in Seq(Addresses)
      BY <1>2, <1>3
    <3>2. Len(s1) = upper /\ Len(s2) = size - upper
      BY <1>2, <1>3
    <3>3. QED
      BY ONLY <3>1, <3>2, ConcatProperties
  <2>2. upper \in Int /\ upper + (size - upper) = size
    BY <1>1
  <2>3. ASSUME NEW i \in 1 .. size, i <= upper PROVE s1[i] = p + i - 1
    BY <1>2, <2>3
  <2>4. ASSUME NEW i \in 1 .. size, ~(i <= upper) PROVE s2[i - upper] = i - upper - 1
    <3>1. i - upper \in 1 .. size - upper
      BY <2>2, <2>4
    <3>2. QED
      BY <1>3, <3>1
  <2>5. QED
    BY <2>1, <2>2, <2>3, <2>4
<1>6. ASSUME NEW i \in 1 .. size PROVE (s1 \o s2)[i] = Behind(p, i - 1)
  <2>1. i - 1 \in 0 .. max_size
    OBVIOUS
  <2>2. Behind(p, i - 1) = IF p + (i - 1) < max_size THEN p + (i - 1) ELSE p + (i - 1) - max_size
    BY <2>1, BehindIs
  <2>3. CASE i <= upper
    <3>1. (s1 \o s2)[i] = p + i - 1
      BY <1>5, <2>3
    <3>2. p + (i - 1) < max_size /\ p + (i - 1) = p + i - 1
      BY <1>1, <2>3 DEF Addresses
    <3>3. QED
      BY <2>2, <3>1, <3>2
  <2>4. CASE i > upper
    <3>1. upper = max_size - p /\ p + (i - 1) >= max_size
      BY <1>1, <2>4 DEF Addresses
    <3>2. (s1 \o s2)[i] = i - upper - 1
      BY <1>5, <2>4, <1>1
    <3>3. i - upper - 1 = p + (i - 1) - max_size
      BY <3>1 DEF Addresses
    <3>4. QED
      BY <2>2, <3>1, <3>2, <3>3 DEF Addresses
  <2>5. i <= upper \/ i > upper
    BY <1>1
  <2>6. QED
    BY ONLY <2>3, <2>4, <2>5
<1>7. upper + (size - upper) = size
  BY <1>1
<1>8. ASSUME NEW i \in 1 .. upper PROVE s1[i] = Behind(p, i - 1)
  <2>1. i \in 1 .. size /\ i <= upper
    BY <1>1
  <2>2. (s1 \o s2)[i] = Behind(p, i - 1) /\ (s1 \o s2)[i] = p + i - 1
    BY <1>5, <1>6, <2>1
  <2>3. QED
    BY <1>2, <2>2
<1>9. Len(s1) <= size /\ Len(s2) <= size
  BY <1>1, <1>2, <1>3
<1>10. QED
  BY <1>2, <1>3, <1>4, <1>5, <1>6, <1>7, <1>8, <1>9

(* Going on from an address already reached. *)
LEMMA BehindAdds ==
  ASSUME NEW p \in Addresses, NEW i \in 0 .. max_size, NEW j \in 0 .. max_size,
         i + j <= max_size
  PROVE  Behind(Behind(p, i), j) = Behind(p, i + j)
<1>1. i + j \in 0 .. max_size
  OBVIOUS
<1> DEFINE q == Behind(p, i)
<1>2. /\ q \in Addresses
      /\ q = IF p + i < max_size THEN p + i ELSE p + i - max_size
      /\ Behind(p, i + j) = IF p + (i + j) < max_size THEN p + (i + j) ELSE p + (i + j) - max_size
  BY <1>1, BehindIs
<1> HIDE DEF q
<1>3. Behind(q, j) = IF q + j < max_size THEN q + j ELSE q + j - max_size
  BY <1>2, BehindIs
<1>4. (IF q + j < max_size THEN q + j ELSE q + j - max_size)
        = IF p + (i + j) < max_size THEN p + (i + j) ELSE p + (i + j) - max_size
  <2>1. CASE p + i < max_size
    BY <1>2, <2>1 DEF Addresses
  <2>2. CASE p + i >= max_size
    BY <1>2, <2>2 DEF Addresses
  <2>3. QED
    BY <2>1, <2>2 DEF Addresses
<1>5. QED
  BY <1>2, <1>3, <1>4 DEF q

(* Zero places. *)
LEMMA BehindNone ==
  ASSUME NEW p \in Addresses
  PROVE  Behind(p, 0) = p
<1>1. 0 \in 0 .. max_size
  OBVIOUS
<1>2. Behind(p, 0) = IF p + 0 < max_size THEN p + 0 ELSE p + 0 - max_size
  BY <1>1, BehindIs
<1>3. QED
  BY <1>2 DEF Addresses

-----------------------------------------------------------------------------
(***************************************************************************)
(* What is not acknowledged has not been released.  While the download     *)
(* goes on these are the same bytes, nothing is left to read, and they lie *)
(* in order just before wp.                                                *)
(***************************************************************************)
Contiguous ==
  \A k \in acked + 1 .. Len(refs) : Behind(refs[k].cell, Len(refs) - k + 1) = buffer.wp

BufferInv ==
  /\ Len(refs) - acked <= buffer.use_size
  /\ res_b >= 0 => /\ buffer.use_size = Len(refs) - acked
                   /\ buffer.rda_size = 0 /\ buffer.rp = buffer.wp
                   /\ Contiguous

SafeInv == TypeOK /\ BufferInv /\ UnackedIntact /\ WindowCoversQueue

(* The bounds are numbers, whatever Refusals is. *)
LEMMA Bounds == Wnd \in Nat \ {0} /\ MaxUp \in Nat /\ MaxDown \in Nat
  BY SpliceAssumption

USE Bounds

(* SubSeq inside a sequence. *)
LEMMA PartOf ==
  ASSUME NEW S, NEW s \in Seq(S), NEW m \in 1 .. Len(s) + 1, NEW n \in m - 1 .. Len(s)
  PROVE  /\ SubSeq(s, m, n) \in Seq(S)
         /\ Len(SubSeq(s, m, n)) = n - m + 1
         /\ \A i \in 1 .. n - m + 1 : SubSeq(s, m, n)[i] = s[m + i - 1]
<1>1. m \in Int /\ n \in Int /\ \A i \in m .. n : s[i] \in S
  OBVIOUS
<1>2. /\ SubSeq(s, m, n) \in Seq(S)
      /\ Len(SubSeq(s, m, n)) = IF m <= n THEN n - m + 1 ELSE 0
      /\ \A i \in 1 .. n - m + 1 : SubSeq(s, m, n)[i] = s[m + i - 1]
  BY <1>1, SubSeqProperties
<1>3. (IF m <= n THEN n - m + 1 ELSE 0) = n - m + 1
  OBVIOUS
<1>4. QED
  BY <1>2, <1>3

LEMMA SafeInit == Init => SafeInv
<1> SUFFICES ASSUME Init PROVE SafeInv
  OBVIOUS
<1> USE DEF Init
<1>1. TypeOK
  <2>1. buffer \in RingBuffers /\ data \in [Addresses -> 0 .. MaxDown]
    BY SpliceAssumption DEF EmptyRing, RingBuffers, Addresses
  <2>2. wnd \in 0 .. Wnd /\ devSent \in 0 .. MaxUp
    BY SpliceAssumption
  <2>3. srvSent \in 0 .. MaxDown /\ taken \in 0 .. srvSent
    BY SpliceAssumption
  <2>4. acked \in 0 .. Len(toDev) /\ Len(toDev) <= Len(refs)
    OBVIOUS
  <2>5. /\ queue \in Seq(1 .. MaxUp) /\ toSrv \in Seq(1 .. MaxUp)
        /\ toDev \in Seq(0 .. MaxDown)
        /\ refs \in Seq(References)
    OBVIOUS
  <2>6. /\ at \in Stages /\ event \in BOOLEAN /\ expired \in BOOLEAN /\ broken \in BOOLEAN
        /\ pcb \in BOOLEAN /\ pcb_eof \in BOOLEAN /\ devEof \in BOOLEAN
        /\ srvClosed \in BOOLEAN /\ srvReset \in BOOLEAN
        /\ wrShut \in BOOLEAN /\ full \in BOOLEAN
        /\ res_f \in {-1, 0, 1} /\ res_b \in {-1, 0, 1}
        /\ fin \in {"no", "active", "passive"}
    BY DEF Stages
  <2>7. QED
    BY ONLY <2>1, <2>2, <2>3, <2>4, <2>5, <2>6 DEF TypeOK
<1>2. BufferInv
  BY DEF BufferInv, Contiguous, EmptyRing
<1>3. UnackedIntact /\ WindowCoversQueue
  BY SpliceAssumption DEF UnackedIntact, WindowCoversQueue
<1>4. QED
  BY <1>1, <1>2, <1>3 DEF SafeInv

(* The steps that leave the download alone. *)
LEMMA SafeUpload ==
  ASSUME SafeInv, UNCHANGED <<res_b, buffer, data, refs, acked, toDev>>,
         pcb' => pcb,
         at' \in Stages,
         event' \in BOOLEAN /\ expired' \in BOOLEAN /\ broken' \in BOOLEAN,
         pcb' \in BOOLEAN /\ pcb_eof' \in BOOLEAN /\ devEof' \in BOOLEAN,
         srvClosed' \in BOOLEAN /\ srvReset' \in BOOLEAN,
         wrShut' \in BOOLEAN /\ full' \in BOOLEAN,
         res_f' \in {-1, 0, 1},
         queue' \in Seq(1 .. MaxUp) /\ toSrv' \in Seq(1 .. MaxUp), wnd' \in 0 .. Wnd,
         devSent' \in 0 .. MaxUp,
         fin' \in {"no", "active", "passive"},
         srvSent' \in 0 .. MaxDown /\ taken' \in 0 .. srvSent',
         WindowCoversQueue'
  PROVE  SafeInv'
<1>1. TypeOK'
  BY DEF SafeInv, TypeOK
<1>2. BufferInv'
  BY DEF SafeInv, BufferInv, Contiguous
<1>3. UnackedIntact'
  BY DEF SafeInv, UnackedIntact
<1>4. QED
  BY <1>1, <1>2, <1>3 DEF SafeInv

(* What writev takes is what the window gains. *)
LEMMA SafeSpliceF == SafeInv /\ SpliceF => SafeInv'
<1> SUFFICES ASSUME SafeInv, SpliceF PROVE SafeInv'
  OBVIOUS
<1>1. TypeOK /\ WindowCoversQueue /\ pcb' = pcb
  BY DEF SafeInv, SpliceF
<1>2. /\ wrShut' \in BOOLEAN /\ full' \in BOOLEAN /\ res_f' \in {-1, 0, 1}
      /\ queue' \in Seq(1 .. MaxUp) /\ toSrv' \in Seq(1 .. MaxUp) /\ wnd' \in 0 .. Wnd
      /\ WindowCoversQueue'
  <2>1. ASSUME NEW n \in 1 .. Wnd, WriteQueue(n)
        PROVE  /\ wrShut' \in BOOLEAN /\ full' \in BOOLEAN /\ res_f' \in {-1, 0, 1}
               /\ queue' \in Seq(1 .. MaxUp) /\ toSrv' \in Seq(1 .. MaxUp)
               /\ wnd' \in 0 .. Wnd /\ WindowCoversQueue'
    <3>1. n \in 1 .. Len(queue) /\ queue \in Seq(1 .. MaxUp) /\ toSrv \in Seq(1 .. MaxUp)
      BY <1>1, <2>1 DEF TypeOK, WriteQueue
    <3>2. SubSeq(queue, 1, n) \in Seq(1 .. MaxUp)
      <4>1. 1 \in 1 .. Len(queue) + 1 /\ n \in 1 - 1 .. Len(queue)
        BY <3>1
      <4>2. QED
        BY <3>1, <4>1, PartOf
    <3>3. /\ SubSeq(queue, n + 1, Len(queue)) \in Seq(1 .. MaxUp)
          /\ Len(SubSeq(queue, n + 1, Len(queue))) = Len(queue) - n
      <4>1. n + 1 \in 1 .. Len(queue) + 1 /\ Len(queue) \in (n + 1) - 1 .. Len(queue)
        BY <3>1
      <4>2. /\ SubSeq(queue, n + 1, Len(queue)) \in Seq(1 .. MaxUp)
            /\ Len(SubSeq(queue, n + 1, Len(queue))) = Len(queue) - (n + 1) + 1
        BY <3>1, <4>1, PartOf
      <4>3. QED
        BY <3>1, <4>2
    <3>4. queue' \in Seq(1 .. MaxUp) /\ Len(queue') = Len(queue) - n
      BY <2>1, <3>3 DEF WriteQueue
    <3>8. toSrv' \in Seq(1 .. MaxUp)
      BY <2>1, <3>1, <3>2, ConcatProperties DEF WriteQueue
    <3>9. ASSUME pcb PROVE wnd' \in 0 .. Wnd /\ wnd' + Len(queue') = Wnd
      <4>1. wnd' = wnd + n /\ wnd + Len(queue) = Wnd /\ wnd \in 0 .. Wnd /\ Len(queue) \in Nat
        BY <1>1, <2>1, <3>1, <3>9 DEF TypeOK, WindowCoversQueue, WriteQueue
      <4>2. wnd' + Len(queue') = (wnd + n) + (Len(queue) - n)
        BY <3>4, <4>1
      <4>3. (wnd + n) + (Len(queue) - n) = wnd + Len(queue) /\ wnd + n \in 0 .. wnd + Len(queue)
        BY <3>1, <4>1
      <4>4. QED
        BY <4>1, <4>2, <4>3
    <3>10. ASSUME ~pcb PROVE wnd' \in 0 .. Wnd
      BY <1>1, <2>1, <3>10 DEF TypeOK, WriteQueue
    <3>5. wnd' \in 0 .. Wnd /\ WindowCoversQueue'
      BY <1>1, <3>9, <3>10 DEF WindowCoversQueue
    <3>6. wrShut' \in BOOLEAN /\ full' \in BOOLEAN /\ res_f' \in {-1, 0, 1}
      BY <1>1, <2>1 DEF TypeOK, WriteQueue
    <3>7. QED
      BY <3>4, <3>5, <3>6, <3>8
  <2>2. ASSUME SkipF \/ WriteBlocked \/ WriteFails \/ NothingQueued
        PROVE  /\ wrShut' \in BOOLEAN /\ full' \in BOOLEAN /\ res_f' \in {-1, 0, 1}
               /\ queue' \in Seq(1 .. MaxUp) /\ toSrv' \in Seq(1 .. MaxUp)
               /\ wnd' \in 0 .. Wnd /\ WindowCoversQueue'
    <3>1. /\ full' \in BOOLEAN /\ res_f' \in {-1, 0, 1} /\ UNCHANGED <<queue, toSrv, wnd>>
      BY <1>1, <2>2 DEF TypeOK, SkipF, WriteBlocked, WriteFails, NothingQueued
    <3>2. wrShut' = wrShut \/ wrShut' = (wrShut \/ pcb_eof)
      BY <2>2 DEF SkipF, WriteBlocked, WriteFails, NothingQueued
    <3>3. wrShut' \in BOOLEAN
      BY <1>1, <3>2 DEF TypeOK
    <3>4. QED
      BY <1>1, <3>1, <3>3 DEF TypeOK, WindowCoversQueue
  <2>3. (\E n \in 1 .. Wnd : WriteQueue(n)) \/ SkipF \/ WriteBlocked \/ WriteFails \/ NothingQueued
    BY DEF SpliceF
  <2>4. QED
    BY <2>1, <2>2, <2>3
<1>3. QED
  BY <1>1, <1>2, SafeUpload DEF TypeOK, Stages, SpliceF, downVars, deviceVars, serverVars

(* A byte inside the window, taken from it. *)
LEMMA SafeReceive == SafeInv /\ Receive => SafeInv'
<1> SUFFICES ASSUME SafeInv, Receive PROVE SafeInv'
  OBVIOUS
<1>1. TypeOK /\ WindowCoversQueue
  BY DEF SafeInv
<1>2. devSent' \in 1 .. MaxUp /\ wnd' \in 0 .. Wnd
  BY <1>1 DEF Receive, TypeOK
<1>3. queue' \in Seq(1 .. MaxUp) /\ Len(queue') = Len(queue) + 1
  BY <1>1, <1>2 DEF Receive, TypeOK
<1>4. WindowCoversQueue'
  <2>1. wnd' = wnd - 1 /\ wnd + Len(queue) = Wnd /\ wnd \in 0 .. Wnd /\ Len(queue) \in Nat
    BY <1>1 DEF Receive, TypeOK, WindowCoversQueue
  <2>2. QED
    BY <1>3, <2>1 DEF WindowCoversQueue
<1>5. at' \in Stages
  BY <1>1 DEF Receive, TypeOK, Woken, Stages
<1>6. QED
  BY <1>1, <1>2, <1>3, <1>4, <1>5, SafeUpload DEF Receive, TypeOK, downVars, deviceVars, serverVars

(* The steps that do not touch the queues of the two directions. *)
LEMMA SafeControl ==
  ASSUME SafeInv, UNCHANGED <<res_b, queue, wnd, devSent, buffer, data, refs, acked, toDev>>,
         pcb' => pcb,
         at' \in Stages,
         event' \in BOOLEAN /\ expired' \in BOOLEAN /\ broken' \in BOOLEAN,
         pcb' \in BOOLEAN /\ pcb_eof' \in BOOLEAN /\ devEof' \in BOOLEAN,
         srvClosed' \in BOOLEAN /\ srvReset' \in BOOLEAN,
         wrShut' \in BOOLEAN /\ full' \in BOOLEAN,
         res_f' \in {-1, 0, 1}, toSrv' \in Seq(1 .. MaxUp),
         fin' \in {"no", "active", "passive"},
         srvSent' \in 0 .. MaxDown /\ taken' \in 0 .. srvSent'
  PROVE  SafeInv'
<1>1. WindowCoversQueue'
  BY DEF SafeInv, WindowCoversQueue
<1>2. QED
  BY <1>1, SafeUpload DEF SafeInv, TypeOK

ControlSteps ==
  \/ Connected \/ Leave \/ ConnectFails \/ Timeout \/ Poll \/ Terminate
  \/ ReceiveEof \/ Aborted \/ Closed
  \/ TransmitFin \/ ServerSends \/ ServerCloses \/ ServerResets \/ ServerReads

(* A task that is woken does not wait. *)
LEMMA WokenStage ==
  ASSUME NEW stage \in Stages
  PROVE  Woken(stage) \in Stages /\ Woken(stage) \notin {"wait", "drain"}
  BY DEF Woken, Stages

LEMMA SafeControlSteps == SafeInv /\ ControlSteps => SafeInv'
<1> SUFFICES ASSUME SafeInv, ControlSteps PROVE SafeInv'
  OBVIOUS
<1> USE DEF taskVars, upVars, downVars, deviceVars, serverVars
<1>1. TypeOK /\ Woken(at) \in Stages
  BY WokenStage DEF SafeInv, TypeOK
<1>2. CASE Connected
  <2>1. at' \in Stages
    BY <1>2 DEF Connected, Stages
  <2>2. expired' \in BOOLEAN
    BY <1>2 DEF Connected
  <2>3. QED
    BY <1>1, <1>2, <2>1, <2>2, SafeControl DEF Connected, TypeOK
<1>3. CASE Leave
  <2>1. at' \in Stages
    BY <1>3 DEF Leave, Stages
  <2>2. QED
    BY <1>1, <1>3, <2>1, SafeControl DEF Leave, TypeOK
<1>4. CASE ConnectFails
  BY <1>1, <1>4, SafeControl DEF ConnectFails, TypeOK, Stages
<1>5. CASE Timeout
  <2>1. at' \in Stages
    BY <1>5 DEF Timeout, Stages
  <2>2. QED
    BY <1>1, <1>5, <2>1, SafeControl DEF Timeout, TypeOK
<1>6. CASE Poll
  <2>1. at' \in Stages
    BY <1>1, <1>6 DEF Poll
  <2>2. event' \in BOOLEAN
    BY <1>6 DEF Poll
  <2>3. QED
    BY <1>1, <1>6, <2>1, <2>2, SafeControl DEF Poll, TypeOK
<1>7. CASE Terminate
  <2>1. at' \in Stages
    BY <1>1, <1>7 DEF Terminate
  <2>2. expired' \in BOOLEAN /\ broken' \in BOOLEAN
    BY <1>7 DEF Terminate
  <2>3. QED
    BY <1>1, <1>7, <2>1, <2>2, SafeControl DEF Terminate, TypeOK
<1>8. CASE ReceiveEof
  BY <1>1, <1>8, SafeControl DEF ReceiveEof, TypeOK
<1>9. CASE Aborted
  BY <1>1, <1>9, SafeControl DEF Aborted, PcbGone, TypeOK
<1>10. CASE Closed
  BY <1>1, <1>10, SafeControl DEF Closed, PcbGone, TypeOK
<1>11. CASE TransmitFin
  BY <1>1, <1>11, SafeControl DEF TransmitFin, TypeOK
<1>12. CASE ServerSends
  BY <1>1, <1>12, SafeControl DEF ServerSends, TypeOK
<1>13. CASE ServerCloses
  BY <1>1, <1>13, SafeControl DEF ServerCloses, TypeOK
<1>14. CASE ServerResets
  BY <1>1, <1>14, SafeControl DEF ServerResets, TypeOK
<1>15. CASE ServerReads
  BY <1>1, <1>15, SafeControl DEF ServerReads, TypeOK
<1>16. QED
  BY <1>2, <1>3, <1>4, <1>5, <1>6, <1>7, <1>8, <1>9, <1>10, <1>11, <1>12, <1>13, <1>14,
     <1>15 DEF ControlSteps

LEMMA SafeDestruct == SafeInv /\ Destruct => SafeInv'
<1> SUFFICES ASSUME SafeInv, Destruct PROVE SafeInv'
  OBVIOUS
<1>1. TypeOK /\ pcb' = FALSE /\ queue' = << >>
  BY DEF SafeInv, Destruct
<1>2. queue' \in Seq(1 .. MaxUp)
  BY <1>1
<1>4. WindowCoversQueue' /\ at' \in Stages /\ pcb' \in BOOLEAN
  BY <1>1 DEF WindowCoversQueue, Destruct, Stages
<1>3. QED
  BY <1>1, <1>2, <1>4, SafeUpload
  DEF Destruct, TypeOK, taskVars, downVars, deviceVars, serverVars

LEMMA SafeTransmit == SafeInv /\ Transmit => SafeInv'
<1> SUFFICES ASSUME SafeInv, Transmit PROVE SafeInv'
  OBVIOUS
<1> USE DEF Transmit, taskVars, upVars, downVars, deviceVars, serverVars
<1>1. TypeOK
  BY DEF SafeInv
<1>2. refs[Len(toDev) + 1] \in References
  <2>1. /\ toDev \in Seq(0 .. MaxDown) /\ Len(toDev) < Len(refs)
        /\ refs \in Seq(References)
    BY <1>1 DEF TypeOK
  <2>2. Len(toDev) + 1 \in 1 .. Len(refs)
    BY <2>1
  <2>3. \A k \in 1 .. Len(refs) : refs[k] \in References
    BY <2>1
  <2>4. QED
    BY <2>2, <2>3
<1>3. data[refs[Len(toDev) + 1].cell] \in 0 .. MaxDown
  BY <1>1, <1>2 DEF TypeOK, References
<1>4. /\ toDev' \in Seq(0 .. MaxDown) /\ Len(toDev') = Len(toDev) + 1
  BY <1>1, <1>3, AppendProperties DEF TypeOK
<1>5. Len(toDev') <= Len(refs) /\ acked \in 0 .. Len(toDev')
  BY <1>1, <1>4 DEF TypeOK
<1>6. TypeOK'
  BY <1>1, <1>4, <1>5 DEF TypeOK
<1>7. BufferInv' /\ UnackedIntact' /\ WindowCoversQueue'
  BY DEF SafeInv, BufferInv, Contiguous, UnackedIntact, WindowCoversQueue
<1>8. QED
  BY <1>6, <1>7 DEF SafeInv

(* A release takes nothing from what can be read, and resets only an empty buffer. *)
LEMMA ReleaseGives ==
  ASSUME NEW b \in RingBuffers, NEW n \in 1 .. max_size, n <= b.use_size
  PROVE  /\ read_release(b, n) \in RingBuffers
         /\ read_release(b, n).use_size = b.use_size - n
         /\ read_release(b, n).rda_size = b.rda_size
         /\ b.rp = b.wp => read_release(b, n).rp = read_release(b, n).wp
         /\ read_release(b, n).wp = b.wp \/ read_release(b, n).use_size = 0
<1>1. b.use_size \in 0 .. max_size /\ 0 \in Addresses
  BY DEF RingBuffers, Addresses
<1>2. CASE b.use_size = n
  <2>1. b.use_size - n = 0
    BY <1>1, <1>2
  <2>2. read_release(b, n) = [rp |-> 0, wp |-> 0, rda_size |-> b.rda_size, use_size |-> 0]
    BY <1>2 DEF read_release, RingBuffers
  <2>3. b.rda_size \in 0 .. max_size
    BY DEF RingBuffers
  <2>4. QED
    BY <1>1, <2>1, <2>2, <2>3 DEF RingBuffers
<1>3. CASE b.use_size # n
  <2>1. b.use_size - n \in 0 .. max_size
    BY <1>1
  <2>2. QED
    BY <1>3, <2>1 DEF read_release, RingBuffers
<1>4. QED
  BY <1>2, <1>3

(* What the device acknowledges has not been released before. *)
LEMMA SafeSent ==
  ASSUME SafeInv, NEW n \in 1 .. max_size, Sent(n)
  PROVE  SafeInv'
<1> USE DEF Sent, upVars, deviceVars, serverVars
<1>1. TypeOK /\ acked' = acked + n /\ acked' \in 0 .. Len(toDev)
  BY DEF SafeInv, TypeOK
<1>2. /\ buffer \in RingBuffers /\ n <= buffer.use_size
      /\ acked + n <= Len(refs)
  <2>1. /\ buffer \in RingBuffers /\ acked \in Nat /\ Len(refs) \in Nat /\ Len(toDev) \in Nat
        /\ Len(toDev) <= Len(refs)
    BY <1>1 DEF TypeOK
  <2>2. Len(refs) - acked <= buffer.use_size
    BY DEF SafeInv, BufferInv
  <2>3. /\ buffer \in RingBuffers /\ acked \in Nat /\ Len(refs) \in Nat /\ Len(toDev) \in Nat
        /\ acked + n <= Len(toDev) /\ Len(toDev) <= Len(refs)
        /\ Len(refs) - acked <= buffer.use_size
    BY <2>1, <2>2
  <2>4. buffer.use_size \in Nat
    BY <2>3 DEF RingBuffers
  <2>5. QED
    BY <2>3, <2>4
<1>3. /\ buffer' \in RingBuffers
      /\ buffer'.use_size = buffer.use_size - n
      /\ buffer'.rda_size = buffer.rda_size
      /\ buffer.rp = buffer.wp => buffer'.rp = buffer'.wp
      /\ buffer'.wp = buffer.wp \/ buffer'.use_size = 0
  BY <1>2, ReleaseGives
<1>4. TypeOK'
  BY <1>1, <1>3, WokenStage DEF TypeOK
<1>5. BufferInv'
  <2>1. Len(refs') - acked' <= buffer'.use_size
    BY <1>1, <1>2, <1>3 DEF SafeInv, BufferInv, TypeOK, RingBuffers
  <2>2. ASSUME res_b >= 0
        PROVE  /\ buffer'.use_size = Len(refs') - acked'
               /\ buffer'.rda_size = 0 /\ buffer'.rp = buffer'.wp
    BY <1>1, <1>2, <1>3, <2>2 DEF SafeInv, BufferInv, TypeOK, RingBuffers
  <2>3. ASSUME res_b >= 0 PROVE Contiguous'
    <3>1. Contiguous
      BY <2>3 DEF SafeInv, BufferInv
    <3>2. CASE buffer'.wp = buffer.wp
      BY <1>1, <3>1, <3>2 DEF Contiguous, TypeOK
    <3>3. CASE buffer'.use_size = 0
      BY <1>1, <2>2, <2>3, <3>3 DEF Contiguous, TypeOK
    <3>4. QED
      BY <1>3, <3>2, <3>3
  <2>4. QED
    BY <2>1, <2>2, <2>3 DEF BufferInv
<1>6. UnackedIntact' /\ WindowCoversQueue'
  BY <1>1 DEF SafeInv, UnackedIntact, WindowCoversQueue, TypeOK
<1>7. QED
  BY <1>4, <1>5, <1>6 DEF SafeInv

(* What lwIP keeps of the next m bytes from p on. *)
LEMMA EnqueuedIs ==
  ASSUME NEW p \in Addresses, NEW m \in 0 .. max_size, NEW o,
         NEW mem \in [Addresses -> 0 .. MaxDown]
  PROVE  LET new == Enqueued(o, Iovec(p, m), mem)
         IN  /\ new \in Seq(References) /\ Len(new) <= m
             /\ \A k \in 1 .. Len(new) : new[k].byte = mem[new[k].cell]
             /\ o # "first" => \A k \in 1 .. Len(new) : new[k].cell = Behind(p, k - 1)
             /\ o \in {"none", "output"} => Len(new) = m
<1> DEFINE cells == Accepted(o, Iovec(p, m))
           new == Enqueued(o, Iovec(p, m), mem)
<1>1. /\ cells \in Seq(Addresses) /\ Len(cells) <= m
      /\ o # "first" => \A k \in 1 .. Len(cells) : cells[k] = Behind(p, k - 1)
      /\ o \in {"none", "output"} => Len(cells) = m
  <2>1. CASE o \in {"none", "output"}
    <3>1. cells = IovCells(Iovec(p, m)) /\ Len(IovCells(Iovec(p, m))) = m
      BY <2>1, CellsOfIovec DEF Accepted
    <3>2. /\ IovCells(Iovec(p, m)) \in Seq(Addresses)
          /\ \A k \in 1 .. m : IovCells(Iovec(p, m))[k] = Behind(p, k - 1)
      BY CellsOfIovec
    <3> HIDE DEF cells
    <3>3. QED
      BY <3>1, <3>2
  <2>2. CASE o = "second"
    BY <2>2, CellsOfIovec DEF Accepted
  <2>3. CASE o = "first"
    BY <2>3, CellsOfIovec DEF Accepted
  <2>4. CASE o \notin {"none", "output", "second", "first"}
    BY <2>4 DEF Accepted
  <2>5. QED
    BY <2>1, <2>2, <2>3, <2>4
<1>2. new = [k \in 1 .. Len(cells) |-> [cell |-> cells[k], byte |-> mem[cells[k]]]]
  BY DEF Enqueued
<1> HIDE DEF cells, new
<1>3. \A k \in 1 .. Len(cells) : cells[k] \in Addresses /\ mem[cells[k]] \in 0 .. MaxDown
  BY <1>1
<1>4. \A k \in 1 .. Len(cells) : [cell |-> cells[k], byte |-> mem[cells[k]]] \in References
  BY <1>3 DEF References
<1>5. /\ new \in Seq(References) /\ Len(new) = Len(cells)
      /\ \A k \in 1 .. Len(cells) : new[k] = [cell |-> cells[k], byte |-> mem[cells[k]]]
  BY <1>1, <1>2, <1>4
<1>6. ASSUME NEW k \in 1 .. Len(new)
      PROVE  new[k].cell = cells[k] /\ new[k].byte = mem[new[k].cell]
  <2>1. new[k] = [cell |-> cells[k], byte |-> mem[cells[k]]]
    BY <1>5
  <2>2. new[k].cell = cells[k] /\ new[k].byte = mem[cells[k]]
    BY <2>1
  <2>3. QED
    BY <2>2
<1>7. /\ new \in Seq(References) /\ Len(new) <= m
      /\ \A k \in 1 .. Len(new) : new[k].byte = mem[new[k].cell]
      /\ o # "first" => \A k \in 1 .. Len(new) : new[k].cell = Behind(p, k - 1)
      /\ o \in {"none", "output"} => Len(new) = m
  BY <1>1, <1>5, <1>6
<1>8. QED
  BY <1>7 DEF new

(* What of the memory a slice writes. *)
LEMMA FilledIs ==
  ASSUME TypeOK, NEW n \in 0 .. max_size, n <= max_size - buffer.use_size,
         taken + n <= MaxDown
  PROVE  /\ Filled(n) \in [Addresses -> 0 .. MaxDown]
         /\ \A a \in Addresses :
              (\A i \in 1 .. n : Behind(buffer.wp, i - 1) # a) => Filled(n)[a] = data[a]
         /\ \A i \in 1 .. n : Filled(n)[Behind(buffer.wp, i - 1)] = taken + i
<1> DEFINE free == max_size - buffer.use_size
           cells == IovCells(writing(buffer))
<1>1. /\ buffer.wp \in Addresses /\ free \in 0 .. max_size /\ taken \in Nat
      /\ data \in [Addresses -> 0 .. MaxDown]
  BY DEF TypeOK, RingBuffers
<1>2. \A i \in 1 .. n : cells[i] = Behind(buffer.wp, i - 1)
  <2>1. \A i \in 1 .. free : cells[i] = Behind(buffer.wp, i - 1)
    BY <1>1, CellsOfIovec DEF writing
  <2>2. QED
    BY <1>1, <2>1
<1>3. Filled(n) = [a \in Addresses |->
                     IF \E i \in 1 .. n : cells[i] = a
                     THEN taken + CHOOSE i \in 1 .. n : cells[i] = a
                     ELSE data[a]]
  BY DEF Filled
<1> HIDE DEF cells, free
<1>4. ASSUME NEW a \in Addresses, \E i \in 1 .. n : cells[i] = a
      PROVE  \E i \in 1 .. n : cells[i] = a /\ Filled(n)[a] = taken + i
  <2>1. PICK i \in 1 .. n : i = CHOOSE j \in 1 .. n : cells[j] = a
    BY <1>4
  <2>2. cells[i] = a
    BY <1>4, <2>1
  <2>3. QED
    BY <1>3, <1>4, <2>1, <2>2
<1>5. ASSUME NEW a \in Addresses, ~\E i \in 1 .. n : cells[i] = a
      PROVE  Filled(n)[a] = data[a]
  BY <1>3, <1>5
<1>6. Filled(n) \in [Addresses -> 0 .. MaxDown]
  <2>1. ASSUME NEW a \in Addresses PROVE Filled(n)[a] \in 0 .. MaxDown
    <3>1. CASE \E i \in 1 .. n : cells[i] = a
      BY <1>1, <1>4, <3>1
    <3>2. CASE ~\E i \in 1 .. n : cells[i] = a
      BY <1>1, <1>5, <3>2
    <3>3. QED
      BY <3>1, <3>2
  <2>2. QED
    BY <1>3, <2>1
<1>7. ASSUME NEW a \in Addresses, \A i \in 1 .. n : Behind(buffer.wp, i - 1) # a
      PROVE  Filled(n)[a] = data[a]
  BY <1>2, <1>5, <1>7
<1>8. ASSUME NEW i \in 1 .. n PROVE Filled(n)[Behind(buffer.wp, i - 1)] = taken + i
  <2>1. i - 1 \in 0 .. max_size - 1 /\ i - 1 \in 0 .. max_size
    OBVIOUS
  <2>2. Behind(buffer.wp, i - 1) \in Addresses
    BY <1>1, <2>1, BehindIs
  <2>3. PICK j \in 1 .. n : /\ cells[j] = Behind(buffer.wp, i - 1)
                            /\ Filled(n)[Behind(buffer.wp, i - 1)] = taken + j
    BY <1>2, <1>4, <2>2
  <2>4. Behind(buffer.wp, j - 1) = Behind(buffer.wp, i - 1) /\ j - 1 \in 0 .. max_size - 1
    BY <1>2, <2>3
  <2>5. j - 1 = i - 1
    BY <1>1, <2>1, <2>4, BehindDiffers
  <2>6. QED
    BY <2>3, <2>5
<1>9. QED
  BY <1>6, <1>7, <1>8

(* readv reads no more than there is room for, nor than has been sent. *)
LEMMA ReadFits ==
  ASSUME TypeOK, NEW n \in 0 .. max_size, NEW r, ReadSocket(n, r)
  PROVE  n <= max_size - buffer.use_size /\ taken + n \in taken .. srvSent
<1>1. buffer.wp \in Addresses /\ buffer.use_size \in 0 .. max_size
  BY DEF TypeOK, RingBuffers
<1>2. taken \in Nat /\ srvSent \in Nat /\ taken <= srvSent
  BY DEF TypeOK
<1>3. max_size - buffer.use_size \in 0 .. max_size
  BY <1>1
<1>4. IovSize(writing(buffer)) = max_size - buffer.use_size
  BY <1>1, <1>3, CellsOfIovec DEF writing
<1>5. n = 0 \/ n \in 1 .. Lesser(srvSent - taken, max_size - buffer.use_size)
  BY <1>4 DEF ReadSocket
<1>6. QED
  BY <1>1, <1>2, <1>3, <1>5 DEF Lesser

(* The buffer after a slice that has read n bytes into it and passed them on. *)
LEMMA SliceBuffer ==
  ASSUME NEW buf \in RingBuffers, NEW n \in 0 .. max_size, n <= max_size - buf.use_size,
         buf.rda_size = 0, buf.rp = buf.wp
  PROVE  /\ write_finish(buf, n) \in RingBuffers
         /\ write_finish(buf, n).use_size = buf.use_size + n
         /\ reading(write_finish(buf, n)) = Iovec(buf.wp, n)
         /\ IovSize(reading(write_finish(buf, n))) = n
         /\ read_finish(write_finish(buf, n), n)
              = [rp |-> Behind(buf.wp, n), wp |-> Behind(buf.wp, n),
                 rda_size |-> 0, use_size |-> buf.use_size + n]
         /\ read_finish(write_finish(buf, n), n) \in RingBuffers
<1> DEFINE b == write_finish(buf, n)
           q == Behind(buf.wp, n)
<1>1. buf.wp \in Addresses /\ buf.use_size \in Nat /\ q \in Addresses
  BY BehindIs DEF RingBuffers
<1>2. /\ buf.use_size + n \in 0 .. max_size /\ n - n = 0 /\ buf.rda_size + n = n
      /\ (buf.wp + n) % max_size = q
  BY <1>1 DEF Behind
<1>3. b = [rp |-> buf.wp, wp |-> q, rda_size |-> n, use_size |-> buf.use_size + n]
  <2> HIDE DEF q
  <2>1. b = [rp |-> buf.rp, wp |-> (buf.wp + n) % max_size,
             rda_size |-> buf.rda_size + n, use_size |-> buf.use_size + n]
    <3>1. b = [buf EXCEPT !.wp = (buf.wp + n) % max_size,
                          !.use_size = buf.use_size + n, !.rda_size = buf.rda_size + n]
      BY DEF write_finish
    <3>2. b \in [rp : {b.rp}, wp : {b.wp}, rda_size : {b.rda_size}, use_size : {b.use_size}]
      BY <3>1 DEF RingBuffers
    <3>3. /\ b.rp = buf.rp /\ b.wp = (buf.wp + n) % max_size
          /\ b.use_size = buf.use_size + n /\ b.rda_size = buf.rda_size + n
      BY <3>1 DEF RingBuffers
    <3> HIDE DEF b
    <3>4. b = [rp |-> b.rp, wp |-> b.wp, rda_size |-> b.rda_size, use_size |-> b.use_size]
      BY <3>2
    <3>5. QED
      BY <3>3, <3>4
  <2>2. QED
    BY <1>2, <2>1
<1>4. read_finish(b, n) = [rp |-> q, wp |-> q, rda_size |-> 0, use_size |-> buf.use_size + n]
  <2> HIDE DEF q, b
  <2>1. read_finish(b, n) = [b EXCEPT !.rp = (buf.wp + n) % max_size, !.rda_size = n - n]
    BY <1>3 DEF read_finish
  <2>2. QED
    BY <1>2, <1>3, <2>1
<1> HIDE DEF b, q
<1>5. b \in RingBuffers /\ read_finish(b, n) \in RingBuffers
  BY <1>1, <1>2, <1>3, <1>4 DEF RingBuffers
<1>6. reading(b) = Iovec(buf.wp, n)
  BY <1>3 DEF reading
<1>7. IovSize(Iovec(buf.wp, n)) = n
  BY <1>1, CellsOfIovec
<1>8. b.use_size = buf.use_size + n
  BY <1>3
<1>9. QED
  BY <1>4, <1>5, <1>6, <1>7, <1>8 DEF b, q

(* What a slice of the download does: n bytes read, new given to lwIP. *)
SliceEffect(n, new) ==
  /\ n \in 0 .. max_size /\ n <= max_size - buffer.use_size /\ taken + n \in taken .. srvSent
  /\ data' = Filled(n) /\ taken' = taken + n
  /\ new \in Seq(References) /\ Len(new) <= n
  /\ refs' = refs \o new
  /\ \A k \in 1 .. Len(new) : new[k].byte = data'[new[k].cell]
  /\ "first" \notin Refusals => \A k \in 1 .. Len(new) : new[k].cell = Behind(buffer.wp, k - 1)
  /\ buffer' \in RingBuffers /\ buffer'.use_size = buffer.use_size + n
  /\ res_b' >= 0 =>
       /\ Len(new) = n /\ \A k \in 1 .. n : new[k].cell = Behind(buffer.wp, k - 1)
       /\ buffer'.rda_size = 0
       /\ buffer'.rp = Behind(buffer.wp, n) /\ buffer'.wp = Behind(buffer.wp, n)

(* tcp_splice_b, as far as the memory is concerned. *)
LEMMA SliceHasEffect ==
  ASSUME SafeInv, SpliceB, res_b >= 0
  PROVE  \E n, new : SliceEffect(n, new)
<1>1. TypeOK /\ BufferInv /\ buffer \in RingBuffers /\ buffer.wp \in Addresses
  BY DEF SafeInv, TypeOK, RingBuffers
<1>2. buffer.rda_size = 0 /\ buffer.rp = buffer.wp
  BY <1>1 DEF BufferInv
<1>3. PICK n \in 0 .. max_size, r \in {-1, 0, 1} :
        /\ ReadSocket(n, r)
        /\ data' = Filled(n) /\ taken' = taken + n
        /\ LET b == write_finish(buffer, n)
           IN  PassData(b, Filled(n)) \/ PassEof(b, r) \/ NoPcb(b)
  <2>1. ~SkipB
    BY <1>1 DEF SkipB, TypeOK
  <2>2. QED
    BY <2>1 DEF SpliceB
<1> DEFINE b == write_finish(buffer, n)
<1>4. n <= max_size - buffer.use_size /\ taken + n \in taken .. srvSent
  BY <1>1, <1>3, ReadFits
<1>5. Filled(n) \in [Addresses -> 0 .. MaxDown]
  BY <1>1, <1>4, FilledIs DEF TypeOK
<1>6. /\ b \in RingBuffers /\ b.use_size = buffer.use_size + n
      /\ reading(b) = Iovec(buffer.wp, n) /\ IovSize(reading(b)) = n
      /\ read_finish(b, n) = [rp |-> Behind(buffer.wp, n), wp |-> Behind(buffer.wp, n),
                              rda_size |-> 0, use_size |-> buffer.use_size + n]
      /\ read_finish(b, n) \in RingBuffers
  BY <1>1, <1>2, <1>4, SliceBuffer
<1>7. /\ << >> \in Seq(References) /\ Len(<< >>) = 0 /\ refs \o << >> = refs
  BY <1>1, ConcatEmptySeq DEF TypeOK
<1> HIDE DEF b
<1>8. CASE PassData(b, Filled(n))
  <2>1. PICK o \in {"none"} \cup Refusals :
          /\ refs' = refs \o Enqueued(o, Iovec(buffer.wp, n), Filled(n))
          /\ res_b' = IF o = "none" THEN 1 ELSE -1
          /\ buffer' = read_finish(b, n)
    BY <1>6, <1>8 DEF PassData
  <2> DEFINE new == Enqueued(o, Iovec(buffer.wp, n), Filled(n))
  <2>2. /\ new \in Seq(References) /\ Len(new) <= n
        /\ \A k \in 1 .. Len(new) : new[k].byte = Filled(n)[new[k].cell]
        /\ o # "first" => \A k \in 1 .. Len(new) : new[k].cell = Behind(buffer.wp, k - 1)
        /\ o \in {"none", "output"} => Len(new) = n
    BY <1>1, <1>5, EnqueuedIs
  <2> HIDE DEF new
  <2>3. /\ buffer'.use_size = buffer.use_size + n /\ buffer'.rda_size = 0
        /\ buffer'.rp = Behind(buffer.wp, n) /\ buffer'.wp = Behind(buffer.wp, n)
        /\ buffer' \in RingBuffers
    BY <1>6, <2>1
  <2>4. res_b' >= 0 => o = "none"
    BY <2>1
  <2>5. "first" \notin Refusals => o # "first"
    OBVIOUS
  <2>6. SliceEffect(n, new)
    BY <1>3, <1>4, <2>1, <2>2, <2>3, <2>4, <2>5 DEF SliceEffect, new
  <2>7. QED
    BY <2>6
<1>9. CASE PassEof(b, r)
  <2>1. n = 0 /\ buffer' = b /\ refs' = refs
    BY <1>6, <1>9 DEF PassEof
  <2>2. Behind(buffer.wp, n) = buffer.wp
    BY <1>1, <2>1, BehindNone
  <2>3. b.rda_size = 0 /\ b.rp = buffer.wp /\ b.wp = Behind(buffer.wp, n)
    BY <1>1, <1>2, <2>1 DEF b, write_finish, RingBuffers, Behind
  <2>4. SliceEffect(n, << >>)
    BY <1>3, <1>4, <1>6, <1>7, <2>1, <2>2, <2>3 DEF SliceEffect
  <2>5. QED
    BY <2>4
<1>10. CASE NoPcb(b)
  <2>1. buffer' = b /\ refs' = refs /\ res_b' = -1
    BY <1>10 DEF NoPcb
  <2>2. SliceEffect(n, << >>)
    BY <1>3, <1>4, <1>6, <1>7, <2>1 DEF SliceEffect
  <2>3. QED
    BY <2>2
<1>11. QED
  BY <1>3, <1>8, <1>9, <1>10 DEF b

(* A slice writes none of the memory that is not acknowledged. *)
LEMMA SliceSpares ==
  ASSUME SafeInv, res_b >= 0, NEW n, NEW new, SliceEffect(n, new),
         NEW k \in acked + 1 .. Len(refs)
  PROVE  data'[refs[k].cell] = data[refs[k].cell]
<1> DEFINE d == Len(refs) - k + 1
           cell == refs[k].cell
<1>1. /\ TypeOK /\ buffer.wp \in Addresses /\ buffer.use_size \in 0 .. max_size
      /\ buffer.use_size = Len(refs) - acked
      /\ acked \in Nat /\ Len(refs) \in Nat
  BY DEF SafeInv, BufferInv, TypeOK, RingBuffers
<1>2. k \in 1 .. Len(refs) /\ d \in 1 .. buffer.use_size
  BY <1>1
<1>3. cell \in Addresses
  <2>1. \A j \in 1 .. Len(refs) : refs[j] \in References
    BY <1>1 DEF TypeOK
  <2>2. QED
    BY <1>2, <2>1 DEF References
<1>4. Behind(cell, d) = buffer.wp
  BY DEF SafeInv, BufferInv, Contiguous
<1>5. n \in 0 .. max_size /\ n <= max_size - buffer.use_size /\ data' = Filled(n)
      /\ taken + n <= MaxDown
  <2>1. taken + n \in taken .. srvSent /\ taken \in Nat /\ srvSent \in 0 .. MaxDown
    BY <1>1 DEF SliceEffect, TypeOK
  <2>2. QED
    BY <2>1 DEF SliceEffect
<1> HIDE DEF d, cell
<1>6. ASSUME NEW i \in 1 .. n, Behind(buffer.wp, i - 1) = cell PROVE FALSE
  <2>1. /\ d \in 0 .. max_size /\ i - 1 \in 0 .. max_size /\ d + (i - 1) <= max_size
        /\ d + (i - 1) \in 0 .. max_size - 1 /\ 0 \in 0 .. max_size - 1
        /\ d + (i - 1) # 0
    BY <1>1, <1>2, <1>5
  <2>2. Behind(cell, d + (i - 1)) = cell
    BY <1>3, <1>4, <1>6, <2>1, BehindAdds
  <2>3. Behind(cell, 0) = Behind(cell, d + (i - 1))
    BY <1>3, <2>2, BehindNone
  <2>4. QED
    BY <1>3, <2>1, <2>3, BehindDiffers
<1>7. data'[cell] = data[cell]
  BY <1>1, <1>3, <1>5, <1>6, FilledIs
<1>8. QED
  BY <1>7 DEF cell

(* The slice keeps every part of the invariant. *)
LEMMA SafeSlice ==
  ASSUME SafeInv, SpliceB, res_b >= 0
  PROVE  SafeInv'
<1> USE DEF upVars, deviceVars, serverVars
<1>1. PICK n, new : SliceEffect(n, new)
  BY SliceHasEffect
<1>2. /\ TypeOK /\ buffer.wp \in Addresses /\ buffer.use_size \in 0 .. max_size
      /\ buffer.use_size = Len(refs) - acked
      /\ acked \in Nat /\ Len(refs) \in Nat
  BY DEF SafeInv, BufferInv, TypeOK, RingBuffers
<1>3. /\ n \in 0 .. max_size /\ n <= max_size - buffer.use_size
      /\ taken + n <= MaxDown /\ taken' \in 0 .. srvSent
  <2>1. taken + n \in taken .. srvSent /\ taken \in Nat /\ srvSent \in 0 .. MaxDown
    BY <1>1, <1>2 DEF SliceEffect, TypeOK
  <2>2. QED
    BY <1>1, <2>1 DEF SliceEffect
<1>4. /\ UNCHANGED <<acked, pcb, toDev, devEof, srvSent, srvClosed, srvReset, queue, wnd>>
      /\ UNCHANGED <<event, expired, res_f, pcb_eof, devSent, toSrv, wrShut, full>>
  BY DEF SpliceB
<1>5. /\ refs' \in Seq(References) /\ Len(refs') = Len(refs) + Len(new)
      /\ Len(new) \in 0 .. n
      /\ \A k \in 1 .. Len(refs) : refs'[k] = refs[k]
      /\ \A k \in 1 .. Len(new) : refs'[Len(refs) + k] = new[k]
  <2>1. new \in Seq(References) /\ refs \in Seq(References) /\ refs' = refs \o new
    BY <1>1, <1>2 DEF SliceEffect, TypeOK
  <2>2. /\ refs' \in Seq(References) /\ Len(refs') = Len(refs) + Len(new)
        /\ \A k \in 1 .. Len(refs) + Len(new) :
             refs'[k] = IF k <= Len(refs) THEN refs[k] ELSE new[k - Len(refs)]
    BY <2>1, ConcatProperties
  <2>3. Len(new) \in 0 .. n
    BY <1>1, <1>3, <2>1 DEF SliceEffect
  <2>4. ASSUME NEW k \in 1 .. Len(new) PROVE refs'[Len(refs) + k] = new[k]
    <3>1. /\ Len(refs) + k \in 1 .. Len(refs) + Len(new)
          /\ ~(Len(refs) + k <= Len(refs)) /\ (Len(refs) + k) - Len(refs) = k
      BY <1>2
    <3>2. QED
      BY <2>2, <3>1
  <2>5. QED
    BY <1>2, <2>2, <2>3, <2>4
<1>6. TypeOK'
  <2>1. at' \in Stages /\ res_b' \in {-1, 0, 1} /\ fin' \in {"no", "active", "passive"}
    BY <1>2 DEF SpliceB, AfterSlice, Stages, SkipB, PassData, PassEof, NoPcb, TypeOK
  <2>2. broken' \in BOOLEAN
    BY <1>2 DEF SpliceB, SkipB, PassData, PassEof, NoPcb, TypeOK
  <2>3. data' \in [Addresses -> 0 .. MaxDown]
    BY <1>1, <1>2, <1>3, FilledIs DEF SliceEffect
  <2>4. Len(toDev) <= Len(refs')
    BY <1>2, <1>3, <1>5 DEF TypeOK
  <2>5. buffer' \in RingBuffers
    BY <1>1 DEF SliceEffect
  <2>6. QED
    BY <1>2, <1>3, <1>4, <1>5, <2>1, <2>2, <2>3, <2>4, <2>5 DEF TypeOK
<1>7. BufferInv'
  <2>1. Len(refs') - acked' <= buffer'.use_size
    BY <1>1, <1>2, <1>3, <1>4, <1>5 DEF SliceEffect
  <2>2. ASSUME res_b' >= 0
        PROVE  /\ buffer'.use_size = Len(refs') - acked'
               /\ buffer'.rda_size = 0 /\ buffer'.rp = buffer'.wp
    <3>1. /\ Len(new) = n /\ buffer'.use_size = buffer.use_size + n
          /\ buffer'.rda_size = 0 /\ buffer'.rp = buffer'.wp
      BY <1>1, <2>2 DEF SliceEffect
    <3>2. Len(refs') - acked' = (Len(refs) - acked) + n
      BY <1>2, <1>3, <1>4, <1>5, <3>1
    <3>3. QED
      BY <1>2, <3>1, <3>2
  <2>3. ASSUME res_b' >= 0, NEW k \in acked + 1 .. Len(refs')
        PROVE  Behind(refs'[k].cell, Len(refs') - k + 1) = buffer'.wp
    <3>1. Len(new) = n /\ Len(refs') = Len(refs) + n /\ buffer'.wp = Behind(buffer.wp, n)
      BY <1>1, <1>5, <2>3 DEF SliceEffect
    <3>2. CASE k <= Len(refs)
      <4> DEFINE d == Len(refs) - k + 1
      <4>1. /\ d \in 0 .. max_size /\ d + n <= max_size /\ n \in 0 .. max_size
            /\ Len(refs') - k + 1 = d + n
            /\ k \in 1 .. Len(refs) /\ k \in acked + 1 .. Len(refs)
        BY <1>2, <1>3, <2>3, <3>1, <3>2
      <4>2. refs[k].cell \in Addresses
        <5>1. \A j \in 1 .. Len(refs) : refs[j] \in References
          BY <1>2 DEF TypeOK
        <5>2. QED
          BY <4>1, <5>1 DEF References
      <4>3. Behind(refs[k].cell, d) = buffer.wp
        BY <4>1 DEF SafeInv, BufferInv, Contiguous
      <4> HIDE DEF d
      <4>4. Behind(refs[k].cell, d + n) = Behind(buffer.wp, n)
        BY <4>1, <4>2, <4>3, BehindAdds
      <4>5. refs'[k] = refs[k]
        BY <1>5, <4>1
      <4>6. QED
        BY <3>1, <4>1, <4>4, <4>5
    <3>3. CASE k > Len(refs)
      <4> DEFINE j == k - Len(refs)
      <4>1. /\ j \in 1 .. n /\ j - 1 \in 0 .. max_size /\ n - j + 1 \in 0 .. max_size
            /\ (j - 1) + (n - j + 1) <= max_size /\ (j - 1) + (n - j + 1) = n
            /\ Len(refs') - k + 1 = n - j + 1 /\ Len(refs) + j = k
        BY <1>2, <1>3, <2>3, <3>1, <3>3
      <4> HIDE DEF j
      <4>2. refs'[k].cell = Behind(buffer.wp, j - 1)
        BY <1>1, <1>5, <2>3, <3>1, <4>1 DEF SliceEffect
      <4>3. Behind(Behind(buffer.wp, j - 1), n - j + 1) = Behind(buffer.wp, (j - 1) + (n - j + 1))
        BY <1>2, <4>1, BehindAdds
      <4>4. QED
        BY <3>1, <4>1, <4>2, <4>3
    <3>4. k <= Len(refs) \/ k > Len(refs)
      BY <1>2, <2>3
    <3>5. QED
      BY ONLY <3>2, <3>3, <3>4
  <2>4. QED
    BY <1>4, <2>1, <2>2, <2>3 DEF BufferInv, Contiguous
<1>8. UnackedIntact'
  <2>1. ASSUME pcb, NEW k \in acked + 1 .. Len(refs')
        PROVE  data'[refs'[k].cell] = refs'[k].byte
    <3>1. CASE k <= Len(refs)
      <4>1. k \in acked + 1 .. Len(refs) /\ refs'[k] = refs[k]
        BY <1>2, <1>5, <2>1, <3>1
      <4>2. data'[refs[k].cell] = data[refs[k].cell]
        BY <1>1, <4>1, SliceSpares
      <4>3. data[refs[k].cell] = refs[k].byte
        BY <2>1, <4>1 DEF SafeInv, UnackedIntact
      <4>4. QED
        BY <4>1, <4>2, <4>3
    <3>2. CASE k > Len(refs)
      <4> DEFINE j == k - Len(refs)
      <4>1. j \in 1 .. Len(new) /\ Len(refs) + j = k
        BY <1>2, <1>5, <2>1, <3>2
      <4> HIDE DEF j
      <4>2. refs'[k] = new[j] /\ new[j].byte = data'[new[j].cell]
        BY <1>1, <1>5, <4>1 DEF SliceEffect
      <4>3. QED
        BY <4>2
    <3>3. k <= Len(refs) \/ k > Len(refs)
      BY <1>2, <2>1
    <3>4. QED
      BY ONLY <3>1, <3>2, <3>3
  <2>2. QED
    BY <1>4, <2>1 DEF UnackedIntact
<1>9. WindowCoversQueue'
  BY <1>4 DEF SafeInv, WindowCoversQueue
<1>10. QED
  BY <1>6, <1>7, <1>8, <1>9 DEF SafeInv

LEMMA SafeSpliceB == SafeInv /\ SpliceB => SafeInv'
<1> SUFFICES ASSUME SafeInv, SpliceB PROVE SafeInv'
  OBVIOUS
<1>1. TypeOK
  BY DEF SafeInv
<1>2. CASE res_b >= 0
  BY <1>2, SafeSlice
<1>3. CASE ~(res_b >= 0)
  <2>1. SkipB
    BY <1>3 DEF SpliceB
  <2>2. at' \in Stages
    BY <1>1 DEF SpliceB, AfterSlice, Stages
  <2>3. /\ UNCHANGED <<res_b, queue, wnd, devSent, buffer, data, refs, acked, toDev>>
        /\ UNCHANGED <<event, expired, broken, pcb, pcb_eof, devEof, srvClosed, srvReset>>
        /\ UNCHANGED <<wrShut, full, res_f, toSrv, fin, srvSent, taken>>
    BY <2>1 DEF SpliceB, SkipB, upVars, deviceVars, serverVars
  <2>4. QED
    BY <1>1, <2>2, <2>3, SafeControl DEF TypeOK
<1>4. QED
  BY <1>2, <1>3

(* The invariant is inductive. *)
LEMMA SafeStep == SafeInv /\ [Next]_vars => SafeInv'
<1> SUFFICES ASSUME SafeInv, [Next]_vars PROVE SafeInv'
  OBVIOUS
<1>1. CASE ControlSteps
  BY <1>1, SafeControlSteps
<1>2. CASE SpliceF
  BY <1>2, SafeSpliceF
<1>3. CASE SpliceB
  BY <1>3, SafeSpliceB
<1>4. CASE Destruct
  BY <1>4, SafeDestruct
<1>5. CASE Receive
  BY <1>5, SafeReceive
<1>6. CASE Transmit
  BY <1>6, SafeTransmit
<1>7. CASE \E n \in 1 .. max_size : Sent(n)
  BY <1>7, SafeSent
<1>8. CASE UNCHANGED vars
  <2>1. TypeOK
    BY DEF SafeInv
  <2>2. /\ UNCHANGED <<res_b, queue, wnd, devSent, buffer, data, refs, acked, toDev>>
        /\ UNCHANGED <<at, event, expired, broken, pcb, pcb_eof, devEof, srvClosed, srvReset>>
        /\ UNCHANGED <<wrShut, full, res_f, toSrv, fin, srvSent, taken>>
    BY <1>8 DEF vars, taskVars, upVars, downVars, deviceVars, serverVars
  <2>3. QED
    BY <2>1, <2>2, SafeControl DEF TypeOK
<1>9. QED
  BY <1>1, <1>2, <1>3, <1>4, <1>5, <1>6, <1>7, <1>8
  DEF Next, SessionStep, LwipStep, PeerStep, ControlSteps

(* The inductive invariant holds in every state. *)
THEOREM SpliceSafe == Spec => []SafeInv
<1>1. QED
  BY SafeInit, SafeStep, PTL DEF Spec

(* The counters of the ring buffer stay in range. *)
THEOREM SpliceTypes == Spec => []TypeOK
<1>1. SafeInv => TypeOK
  BY DEF SafeInv
<1>2. QED
  BY SpliceSafe, <1>1, PTL

(* tcp_splice_b never overwrites memory that lwIP may still send. *)
THEOREM SpliceUnackedIntact == Spec => []UnackedIntact
<1>1. SafeInv => UnackedIntact
  BY DEF SafeInv
<1>2. QED
  BY SpliceSafe, <1>1, PTL

(* The window and the queue always make up TCP_WND_MAX. *)
THEOREM SpliceWindow == Spec => []WindowCoversQueue
<1>1. SafeInv => WindowCoversQueue
  BY DEF SafeInv
<1>2. QED
  BY SpliceSafe, <1>1, PTL

-----------------------------------------------------------------------------
(***************************************************************************)
(* Wake-ups.  tcp_splice_f has looked at the queue before tcp_splice_b     *)
(* looks at the socket; nothing but an event can change it between.        *)
(***************************************************************************)
WaitInv ==
  /\ WaitsOnlyIdle
  /\ at = "b" /\ ~event /\ res_f = 0 => IdleUp

(* A step that leaves the task running, or wakes it, or only leaves an event. *)
LEMMA WaitAwake ==
  ASSUME at' \notin {"b", "wait", "drain"}
  PROVE  WaitInv'
  BY DEF WaitInv, WaitsOnlyIdle

LEMMA WaitEvent ==
  ASSUME WaitInv, event', UNCHANGED <<at, expired, pcb, buffer>>
  PROVE  WaitInv'
  BY DEF WaitInv, WaitsOnlyIdle

(* A task that has nothing to write found the queue empty or the socket full. *)
LEMMA WaitSpliceF == TypeOK /\ WaitInv /\ SpliceF => WaitInv'
<1> SUFFICES ASSUME TypeOK, SpliceF PROVE WaitInv'
  OBVIOUS
<1>1. at' = "b" /\ UNCHANGED <<event, pcb_eof, srvReset>>
  BY DEF SpliceF, serverVars
<1>2. ASSUME ~event', res_f' = 0 PROVE IdleUp'
  <2>1. WriteBlocked \/ NothingQueued
    BY <1>2 DEF SpliceF, SkipF, WriteQueue, WriteFails
  <2>2. CASE WriteBlocked
    BY <1>1, <2>2 DEF WriteBlocked, IdleUp
  <2>3. CASE NothingQueued
    BY <1>1, <1>2, <2>3 DEF NothingQueued, IdleUp
  <2>4. QED
    BY <2>1, <2>2, <2>3
<1>3. QED
  BY <1>1, <1>2 DEF WaitInv, WaitsOnlyIdle

(* A task that goes on to wait has found both directions idle. *)
LEMMA WaitSpliceB == TypeOK /\ WaitInv /\ SpliceB => WaitInv'
<1> SUFFICES ASSUME TypeOK, WaitInv, SpliceB PROVE WaitInv'
  OBVIOUS
<1>1. /\ at = "b" /\ at' = AfterSlice
      /\ UNCHANGED <<event, expired, res_f, pcb, pcb_eof, queue, full>>
      /\ UNCHANGED <<srvSent, srvClosed, srvReset>>
  BY DEF SpliceB, upVars, serverVars
<1>2. at' \notin {"b", "drain"} /\ (at' = "wait" => ~expired)
  BY <1>1 DEF AfterSlice
<1>3. ASSUME res_b' = 0 PROVE IdleDown'
  <2>1. PICK n \in 0 .. max_size, r \in {-1, 0, 1} :
          /\ ReadSocket(n, r) /\ taken' = taken + n
          /\ LET b == write_finish(buffer, n)
             IN  PassData(b, Filled(n)) \/ PassEof(b, r) \/ NoPcb(b)
    <3>1. ~SkipB
      BY <1>3 DEF SkipB
    <3>2. QED
      BY <3>1 DEF SpliceB
  <2>2. pcb /\ r = 0
    BY <1>3, <2>1 DEF PassData, PassEof, NoPcb
  <2>3. ~srvReset /\ srvSent = taken /\ n = 0 /\ ~srvClosed
    BY <2>1, <2>2 DEF ReadSocket
  <2>4. taken' = taken
    BY <2>1, <2>3 DEF TypeOK
  <2>5. QED
    BY <1>1, <2>2, <2>3, <2>4 DEF IdleDown
<1>4. ASSUME ~event', res_f' = 0 PROVE IdleUp'
  BY <1>1, <1>4 DEF WaitInv, IdleUp
<1>5. QED
  BY <1>1, <1>2, <1>3, <1>4 DEF WaitInv, WaitsOnlyIdle

LEMMA WaitStep == TypeOK /\ WaitInv /\ [Next]_vars => WaitInv'
<1> SUFFICES ASSUME TypeOK, WaitInv, [Next]_vars PROVE WaitInv'
  OBVIOUS
<1> USE DEF taskVars, upVars, downVars, deviceVars, serverVars
<1>1. Woken(at) \notin {"wait", "drain"} /\ (at # "b" => Woken(at) # "b")
  BY DEF Woken
<1>2. CASE Connected \/ ConnectFails \/ Timeout \/ Destruct
  BY <1>2, WaitAwake DEF Connected, ConnectFails, Timeout, Destruct
<1>3. CASE Poll \/ Terminate \/ ReceiveEof \/ Receive
  BY <1>1, <1>3, WaitAwake DEF Poll, Terminate, ReceiveEof, Receive, Running
<1>4. CASE Aborted \/ Closed \/ \E n \in 1 .. max_size : Sent(n)
  BY <1>1, <1>4, WaitAwake DEF Aborted, Closed, PcbGone, Sent, Running
<1>5. CASE Leave
  <2>1. /\ at' \in {"drain", "returning"} /\ UNCHANGED <<expired, pcb, buffer>>
        /\ at' = "drain" => pcb /\ buffer.use_size # 0 /\ ~expired
    BY <1>5 DEF Leave
  <2>2. at' = "drain" => buffer.use_size > 0
    BY <2>1 DEF TypeOK, RingBuffers
  <2>3. QED
    BY <2>1, <2>2 DEF WaitInv, WaitsOnlyIdle
<1>6. CASE ServerSends \/ ServerCloses \/ ServerResets \/ ServerReads
  BY <1>6, WaitEvent DEF ServerSends, ServerCloses, ServerResets, ServerReads
<1>7. CASE SpliceF
  BY <1>7, WaitSpliceF
<1>8. CASE SpliceB
  BY <1>8, WaitSpliceB
<1>9. CASE Transmit \/ TransmitFin \/ UNCHANGED vars
  BY <1>9 DEF Transmit, TransmitFin, vars, WaitInv, WaitsOnlyIdle, IdleUp, IdleDown
<1>10. QED
  BY <1>2, <1>3, <1>4, <1>5, <1>6, <1>7, <1>8, <1>9
  DEF Next, SessionStep, LwipStep, PeerStep

(* A task that waits is never left behind by an event, a callback or an    *)
(* acknowledgement that came between two of its yields.                    *)
THEOREM SpliceWaits == Spec => []WaitsOnlyIdle
<1>1. Init => WaitInv
  BY DEF Init, WaitInv, WaitsOnlyIdle
<1>2. SafeInv => TypeOK
  BY DEF SafeInv
<1>3. WaitInv => WaitsOnlyIdle
  BY DEF WaitInv
<1>4. QED
  BY SpliceSafe, WaitStep, <1>1, <1>2, <1>3, PTL DEF Spec

-----------------------------------------------------------------------------
(***************************************************************************)
(* The two streams, byte by byte, as long as lwIP never refuses the first  *)
(* of two chunks and takes the second.                                     *)
(***************************************************************************)
Numbered(s) == \A i \in 1 .. Len(s) : s[i] = i

UpStream ==
  /\ Numbered(toSrv) /\ Len(toSrv) <= devSent
  /\ at = "ended" => ~pcb
  /\ at # "ended" => /\ Len(toSrv) + Len(queue) = devSent
                     /\ \A i \in 1 .. Len(queue) : queue[i] = Len(toSrv) + i
  /\ wrShut => res_f < 0

LEMMA UpUnchanged ==
  ASSUME UpStream, UNCHANGED <<toSrv, queue, devSent, wrShut, res_f>>, pcb' => pcb,
         at = "ended" <=> at' = "ended"
  PROVE  UpStream'
  BY DEF UpStream, Numbered

(* What is written is the head of the queue. *)
LEMMA UpWriteQueue ==
  ASSUME TypeOK, UpStream, at # "ended", NEW n \in 1 .. Wnd, WriteQueue(n), devSent' = devSent,
         res_f >= 0
  PROVE  (at' # "ended" => UpStream') /\ Len(toSrv') = Len(toSrv) + n /\ Len(toSrv') <= devSent
<1>1. /\ toSrv \in Seq(1 .. MaxUp) /\ queue \in Seq(1 .. MaxUp) /\ devSent \in Nat
      /\ Len(toSrv) \in Nat /\ Len(queue) \in Nat
  BY DEF TypeOK
<1>2. /\ n \in 1 .. Len(queue) /\ toSrv' = toSrv \o SubSeq(queue, 1, n)
      /\ queue' = SubSeq(queue, n + 1, Len(queue)) /\ wrShut' = wrShut
  BY <1>1 DEF WriteQueue
<1>3. /\ Numbered(toSrv) /\ Len(toSrv) + Len(queue) = devSent /\ ~wrShut
      /\ \A i \in 1 .. Len(queue) : queue[i] = Len(toSrv) + i
  BY DEF UpStream, TypeOK
<1>4. /\ SubSeq(queue, 1, n) \in Seq(1 .. MaxUp) /\ Len(SubSeq(queue, 1, n)) = n
      /\ \A i \in 1 .. n : SubSeq(queue, 1, n)[i] = queue[i]
  <2>1. 1 \in 1 .. Len(queue) + 1 /\ n \in 1 - 1 .. Len(queue)
    BY <1>1, <1>2
  <2>2. /\ SubSeq(queue, 1, n) \in Seq(1 .. MaxUp) /\ Len(SubSeq(queue, 1, n)) = n - 1 + 1
        /\ \A i \in 1 .. n - 1 + 1 : SubSeq(queue, 1, n)[i] = queue[1 + i - 1]
    BY <1>1, <2>1, PartOf
  <2>3. QED
    BY <2>2
<1>5. /\ Len(queue') = Len(queue) - n
      /\ \A i \in 1 .. Len(queue) - n : queue'[i] = queue[n + i]
  <2>1. n + 1 \in 1 .. Len(queue) + 1 /\ Len(queue) \in (n + 1) - 1 .. Len(queue)
    BY <1>1, <1>2
  <2>2. /\ Len(queue') = Len(queue) - (n + 1) + 1
        /\ \A i \in 1 .. Len(queue) - (n + 1) + 1 : queue'[i] = queue[(n + 1) + i - 1]
    BY <1>1, <1>2, <2>1, PartOf
  <2>3. Len(queue) - (n + 1) + 1 = Len(queue) - n
    BY <1>1
  <2>4. ASSUME NEW i \in 1 .. Len(queue) - n PROVE queue'[i] = queue[n + i]
    <3>1. i \in 1 .. Len(queue) - (n + 1) + 1 /\ (n + 1) + i - 1 = n + i
      BY <1>1
    <3>2. QED
      BY <2>2, <3>1
  <2>5. QED
    BY <2>2, <2>3, <2>4
<1>6. /\ Len(toSrv') = Len(toSrv) + n
      /\ \A i \in 1 .. Len(toSrv) + n :
           toSrv'[i] = IF i <= Len(toSrv) THEN toSrv[i] ELSE SubSeq(queue, 1, n)[i - Len(toSrv)]
  <2>1. /\ Len(toSrv') = Len(toSrv) + Len(SubSeq(queue, 1, n))
        /\ \A i \in 1 .. Len(toSrv) + Len(SubSeq(queue, 1, n)) :
             toSrv'[i] = IF i <= Len(toSrv) THEN toSrv[i] ELSE SubSeq(queue, 1, n)[i - Len(toSrv)]
    BY <1>1, <1>2, <1>4, ConcatProperties
  <2>2. QED
    BY <1>4, <2>1
<1>7. ASSUME NEW i \in 1 .. Len(toSrv') PROVE toSrv'[i] = i
  <2>1. CASE i <= Len(toSrv)
    BY <1>1, <1>3, <1>6, <2>1 DEF Numbered
  <2>2. CASE i > Len(toSrv)
    <3>1. /\ i - Len(toSrv) \in 1 .. n /\ i - Len(toSrv) \in 1 .. Len(queue)
          /\ i \in 1 .. Len(toSrv) + n /\ ~(i <= Len(toSrv))
      BY <1>1, <1>2, <1>6, <2>2
    <3>2. toSrv'[i] = queue[i - Len(toSrv)]
      BY <1>4, <1>6, <3>1
    <3>3. queue[i - Len(toSrv)] = Len(toSrv) + (i - Len(toSrv))
      BY <1>3, <3>1
    <3>4. QED
      BY <1>1, <3>2, <3>3
  <2>3. i <= Len(toSrv) \/ i > Len(toSrv)
    BY <1>1
  <2>4. QED
    BY ONLY <2>1, <2>2, <2>3
<1>8. ASSUME NEW i \in 1 .. Len(queue') PROVE queue'[i] = Len(toSrv') + i
  <2>1. i \in 1 .. Len(queue) - n /\ n + i \in 1 .. Len(queue)
    BY <1>1, <1>2, <1>5
  <2>2. queue'[i] = Len(toSrv) + (n + i)
    BY <1>3, <1>5, <2>1
  <2>3. QED
    BY <1>1, <1>6, <2>2
<1>9. Len(toSrv') + Len(queue') = devSent /\ Len(toSrv') <= devSent
  <2>1. /\ (Len(toSrv) + n) + (Len(queue) - n) = Len(toSrv) + Len(queue)
        /\ Len(toSrv) + n <= Len(toSrv) + Len(queue)
    BY <1>1, <1>2
  <2>2. QED
    BY <1>3, <1>5, <1>6, <2>1
<1>10. QED
  BY <1>2, <1>3, <1>6, <1>7, <1>8, <1>9 DEF UpStream, Numbered

(* A byte received is the next one behind the queue. *)
LEMMA UpReceive == TypeOK /\ UpStream /\ Receive => UpStream'
<1> SUFFICES ASSUME TypeOK, UpStream, Receive PROVE UpStream'
  OBVIOUS
<1>8. at # "ended" /\ at' # "ended"
  BY DEF UpStream, Receive, Woken
<1>1. /\ queue \in Seq(1 .. MaxUp) /\ devSent \in Nat /\ Len(toSrv) \in Nat /\ Len(queue) \in Nat
      /\ devSent + 1 \in 1 .. MaxUp
  BY DEF TypeOK, Receive
<1>2. /\ devSent' = devSent + 1 /\ queue' = Append(queue, devSent + 1)
      /\ UNCHANGED <<toSrv, wrShut, res_f>>
  BY DEF Receive
<1>3. /\ Len(queue') = Len(queue) + 1 /\ queue'[Len(queue) + 1] = devSent + 1
      /\ \A i \in 1 .. Len(queue) : queue'[i] = queue[i]
  BY <1>1, <1>2, AppendProperties
<1>4. /\ Len(toSrv) + Len(queue) = devSent
      /\ \A i \in 1 .. Len(queue) : queue[i] = Len(toSrv) + i
  BY <1>8 DEF UpStream
<1>5. Len(toSrv') + Len(queue') = devSent' /\ Len(toSrv') <= devSent'
  BY <1>1, <1>2, <1>3, <1>4
<1>6. ASSUME NEW i \in 1 .. Len(queue') PROVE queue'[i] = Len(toSrv') + i
  <2>1. CASE i \in 1 .. Len(queue)
    BY <1>2, <1>3, <1>4, <2>1
  <2>2. CASE i = Len(queue) + 1
    <3>1. devSent + 1 = Len(toSrv) + (Len(queue) + 1)
      BY <1>1, <1>4
    <3>2. queue'[i] = devSent + 1 /\ Len(toSrv') = Len(toSrv)
      BY <1>2, <1>3, <2>2
    <3>3. QED
      BY <2>2, <3>1, <3>2
  <2>3. i \in 1 .. Len(queue) \/ i = Len(queue) + 1
    BY <1>1, <1>3
  <2>4. QED
    BY ONLY <2>1, <2>2, <2>3
<1>7. QED
  BY <1>2, <1>5, <1>6, <1>8 DEF UpStream, Numbered

LEMMA UpStep == SafeInv /\ UpStream /\ [Next]_vars => UpStream'
<1> SUFFICES ASSUME SafeInv, UpStream, [Next]_vars PROVE UpStream'
  OBVIOUS
<1>1. TypeOK
  BY DEF SafeInv
<1> USE DEF taskVars, upVars, downVars, deviceVars, serverVars
<1>2. CASE SpliceF
  <2>1. at = "yield" /\ at' = "b" /\ UNCHANGED <<devSent, pcb_eof>>
    BY <1>2 DEF SpliceF
  <2>2. CASE SkipF \/ (res_f >= 0 /\ (WriteBlocked \/ WriteFails \/ NothingQueued))
    <3>1. UNCHANGED <<toSrv, queue>>
      BY <2>2 DEF SkipF, WriteBlocked, WriteFails, NothingQueued
    <3>2. CASE SkipF
      BY <2>1, <3>1, <3>2 DEF UpStream, Numbered, SkipF
    <3>3. CASE res_f >= 0 /\ (WriteBlocked \/ WriteFails \/ NothingQueued)
      <4>1. ~wrShut
        BY <1>1, <3>3 DEF UpStream, TypeOK
      <4>2. wrShut' => res_f' < 0
        <5>1. CASE WriteBlocked \/ WriteFails
          BY <4>1, <5>1 DEF WriteBlocked, WriteFails
        <5>2. CASE NothingQueued
          BY <1>1, <4>1, <5>2 DEF NothingQueued, TypeOK
        <5>3. QED
          BY <3>3, <5>1, <5>2
      <4>3. /\ Numbered(toSrv)' /\ Len(toSrv') <= devSent'
            /\ Len(toSrv') + Len(queue') = devSent'
            /\ \A i \in 1 .. Len(queue') : queue'[i] = Len(toSrv') + i
        BY <2>1, <3>1 DEF UpStream, Numbered
      <4>4. QED
        BY <2>1, <4>2, <4>3 DEF UpStream
    <3>4. QED
      BY <2>2, <3>2, <3>3
  <2>3. CASE res_f >= 0 /\ \E n \in 1 .. Wnd : WriteQueue(n)
    BY <1>1, <2>1, <2>3, UpWriteQueue
  <2>4. QED
    BY <1>2, <2>2, <2>3 DEF SpliceF
<1>3. CASE Receive
  BY <1>1, <1>3, UpReceive
<1>4. CASE Destruct
  BY <1>4 DEF Destruct, UpStream, Numbered
<1>11. CASE SpliceB
  BY <1>11, UpUnchanged DEF SpliceB, AfterSlice
<1>5. CASE Connected \/ ConnectFails \/ Leave \/ Timeout
  BY <1>5, UpUnchanged DEF Connected, ConnectFails, Leave, Timeout
<1>6. CASE Poll \/ Terminate \/ ReceiveEof
  BY <1>6, UpUnchanged DEF Poll, Terminate, ReceiveEof, Woken
<1>7. CASE Aborted \/ Closed \/ \E n \in 1 .. max_size : Sent(n)
  BY <1>7, UpUnchanged DEF Aborted, Closed, PcbGone, Sent, Woken
<1>8. CASE Transmit \/ TransmitFin \/ ServerSends \/ ServerCloses \/ ServerResets \/ ServerReads
  BY <1>8, UpUnchanged
     DEF Transmit, TransmitFin, ServerSends, ServerCloses, ServerResets, ServerReads
<1>9. CASE UNCHANGED vars
  BY <1>9, UpUnchanged DEF vars
<1>10. QED
  BY <1>2, <1>3, <1>4, <1>5, <1>6, <1>7, <1>8, <1>9, <1>11
  DEF Next, SessionStep, LwipStep, PeerStep

DownStream ==
  /\ Numbered(toDev)
  /\ \A k \in 1 .. Len(refs) : refs[k].byte = k
  /\ Len(refs) <= taken
  /\ res_b >= 0 => taken = Len(refs) /\ fin = "no"
  /\ fin # "no" /\ ~broken => srvClosed /\ Len(refs) = srvSent
  /\ devEof => fin # "no" /\ Len(toDev) = Len(refs)
  /\ srvReset => broken

LEMMA DownUnchanged ==
  ASSUME DownStream, UNCHANGED <<toDev, refs, taken, res_b, fin, devEof, srvReset>>,
         UNCHANGED <<srvSent, srvClosed>>, broken => broken'
  PROVE  DownStream'
  BY DEF DownStream, Numbered

(* How a slice ends the download. *)
SliceEnds ==
  /\ broken => broken'
  /\ fin' # "no" => /\ res_b' < 0 /\ UNCHANGED <<refs, taken>>
                    /\ srvReset \/ (srvClosed /\ taken = srvSent)
                    /\ fin' = "passive" => pcb_eof
  /\ res_b' < 0 /\ ~broken' /\ pcb => fin' # "no"

(* The download ends with a refusal, a lost connection, or behind the last byte. *)
LEMMA SliceHasEnd ==
  ASSUME TypeOK, SpliceB, res_b >= 0, fin = "no"
  PROVE  SliceEnds
<1>1. PICK n \in 0 .. max_size, r \in {-1, 0, 1} :
        /\ ReadSocket(n, r) /\ taken' = taken + n
        /\ LET b == write_finish(buffer, n)
           IN  PassData(b, Filled(n)) \/ PassEof(b, r) \/ NoPcb(b)
  <2>1. ~SkipB
    BY DEF SkipB, TypeOK
  <2>2. QED
    BY <2>1 DEF SpliceB
<1>2. PICK b : PassData(b, Filled(n)) \/ PassEof(b, r) \/ NoPcb(b)
  BY <1>1
<1>3. CASE PassData(b, Filled(n))
  <2>1. PICK o \in {"none"} \cup Refusals :
          /\ res_b' = IF o = "none" THEN 1 ELSE -1
          /\ broken' = (broken \/ o # "none")
    BY <1>3 DEF PassData
  <2>2. fin' = "no"
    BY <1>3 DEF PassData
  <2>3. (broken => broken') /\ (o # "none" => broken')
    BY <2>1, Zenon
  <2>4. res_b' < 0 => o # "none"
    BY <2>1
  <2>5. QED
    BY <2>2, <2>3, <2>4 DEF SliceEnds
<1>4. CASE PassEof(b, r)
  <2>1. /\ UNCHANGED <<refs, broken>> /\ res_b' = r /\ pcb
        /\ fin' = IF r < 0 THEN IF pcb_eof THEN "passive" ELSE "active" ELSE "no"
    BY <1>4 DEF PassEof
  <2>2. CASE r = -1
    <3>1. (srvReset \/ (srvClosed /\ taken = srvSent)) /\ n = 0
      <4>1. \/ ~srvReset /\ srvSent = taken /\ n = 0 /\ r = IF srvClosed THEN -1 ELSE 0
            \/ srvReset /\ n = 0 /\ r = -1
        BY <1>1, <2>2 DEF ReadSocket
      <4>2. CASE srvReset /\ n = 0
        BY <4>2
      <4>3. CASE srvSent = taken /\ n = 0 /\ r = IF srvClosed THEN -1 ELSE 0
        BY <2>2, <4>3
      <4>4. QED
        BY <4>1, <4>2, <4>3
    <3>2. taken' = taken
      BY <1>1, <3>1 DEF TypeOK
    <3>3. QED
      BY <2>1, <2>2, <3>1, <3>2 DEF SliceEnds
  <2>3. CASE r \in {0, 1}
    BY <2>1, <2>3 DEF SliceEnds
  <2>4. QED
    BY <2>2, <2>3
<1>5. CASE NoPcb(b)
  BY <1>5 DEF NoPcb, SliceEnds
<1>6. QED
  BY <1>2, <1>3, <1>4, <1>5

(* What lwIP is given are the next bytes of the server. *)
LEMMA DownSlice ==
  ASSUME "first" \notin Refusals, SafeInv, DownStream, SpliceB, res_b >= 0
  PROVE  DownStream'
<1>1. PICK n, new : SliceEffect(n, new)
  BY SliceHasEffect
<1>2. TypeOK /\ taken = Len(refs) /\ fin = "no" /\ ~devEof
  BY DEF SafeInv, DownStream, TypeOK
<1>3. SliceEnds
  BY <1>2, SliceHasEnd
<1>4. UNCHANGED <<toDev, devEof, srvSent, srvClosed, srvReset>>
  BY DEF SpliceB, deviceVars, serverVars
<1>5. /\ new \in Seq(References) /\ refs \in Seq(References) /\ refs' = refs \o new
      /\ Len(new) \in Nat /\ Len(refs) \in Nat /\ n \in Nat /\ Len(new) <= n
      /\ taken' = taken + n /\ data' = Filled(n)
  BY <1>1, <1>2 DEF SliceEffect, TypeOK
<1>6. /\ Len(refs') = Len(refs) + Len(new)
      /\ \A k \in 1 .. Len(refs) + Len(new) :
           refs'[k] = IF k <= Len(refs) THEN refs[k] ELSE new[k - Len(refs)]
  BY <1>5, ConcatProperties
<1>7. \A k \in 1 .. Len(new) : new[k].byte = taken + k
  <2>1. /\ n \in 0 .. max_size /\ n <= max_size - buffer.use_size /\ taken + n <= MaxDown
    BY <1>1, <1>2 DEF SliceEffect, TypeOK
  <2>2. \A k \in 1 .. n : data'[Behind(buffer.wp, k - 1)] = taken + k
    BY <1>2, <1>5, <2>1, FilledIs
  <2>3. \A k \in 1 .. Len(new) : /\ new[k].byte = data'[new[k].cell]
                                 /\ new[k].cell = Behind(buffer.wp, k - 1)
    BY <1>1 DEF SliceEffect
  <2>4. \A k \in 1 .. Len(new) : k \in 1 .. n
    BY <1>5
  <2>5. QED
    BY <2>2, <2>3, <2>4
<1>8. ASSUME NEW k \in 1 .. Len(refs') PROVE refs'[k].byte = k
  <2>1. CASE k <= Len(refs)
    <3>1. k \in 1 .. Len(refs) /\ refs'[k] = refs[k]
      BY <1>5, <1>6, <2>1
    <3>2. QED
      BY <3>1 DEF DownStream
  <2>2. CASE k > Len(refs)
    <3>1. k - Len(refs) \in 1 .. Len(new) /\ refs'[k] = new[k - Len(refs)]
      BY <1>5, <1>6, <2>2
    <3>2. refs'[k].byte = Len(refs) + (k - Len(refs))
      BY <1>2, <1>7, <3>1
    <3>3. QED
      BY <1>5, <3>2
  <2>3. k <= Len(refs) \/ k > Len(refs)
    BY <1>5
  <2>4. QED
    BY ONLY <2>1, <2>2, <2>3
<1>9. Len(refs') <= taken'
  <2>1. Len(refs) + Len(new) <= Len(refs) + n
    BY <1>5
  <2>2. QED
    BY <1>2, <1>5, <1>6, <2>1
<1>10. res_b' >= 0 => taken' = Len(refs') /\ fin' = "no"
  <2>1. ASSUME res_b' >= 0 PROVE Len(new) = n
    BY <1>1, <2>1 DEF SliceEffect
  <2>2. res_b' \in {-1, 0, 1}
    BY <1>2, SafeSpliceB DEF SafeInv, TypeOK
  <2>3. QED
    BY <1>2, <1>3, <1>5, <1>6, <2>1, <2>2 DEF SliceEnds
<1>11. fin' # "no" /\ ~broken' => srvClosed' /\ Len(refs') = srvSent'
  <2>1. ~broken' => ~srvReset
    BY <1>3 DEF SliceEnds, DownStream
  <2>2. QED
    BY <1>2, <1>3, <1>4, <2>1 DEF SliceEnds
<1>12. srvReset' => broken'
  BY <1>3, <1>4 DEF SliceEnds, DownStream
<1>13. Numbered(toDev)' /\ ~devEof'
  BY <1>2, <1>4 DEF DownStream, Numbered
<1>14. QED
  BY <1>8, <1>9, <1>10, <1>11, <1>12, <1>13 DEF DownStream

(* What Transmit sends is the next byte. *)
LEMMA TransmitNext ==
  ASSUME SafeInv, DownStream, Transmit
  PROVE  /\ Len(toDev') = Len(toDev) + 1 /\ Numbered(toDev') /\ ~devEof
         /\ Len(toDev') <= Len(refs)
<1>1. /\ TypeOK /\ Len(toDev) \in Nat /\ Len(refs) \in Nat /\ Len(toDev) < Len(refs)
      /\ acked \in 0 .. Len(toDev)
  BY DEF SafeInv, TypeOK, Transmit
<1> DEFINE k == Len(toDev) + 1
<1>2. k \in acked + 1 .. Len(refs) /\ k \in 1 .. Len(refs)
  BY <1>1
<1>3. data[refs[k].cell] = k
  BY <1>2 DEF SafeInv, UnackedIntact, DownStream, Transmit
<1>4. toDev' = Append(toDev, k) /\ toDev \in Seq(Int)
  BY <1>1, <1>3 DEF Transmit, TypeOK
<1>5. /\ Len(toDev') = k /\ toDev'[k] = k
      /\ \A i \in 1 .. Len(toDev) : toDev'[i] = toDev[i]
  BY <1>1, <1>4, AppendProperties
<1>6. ASSUME NEW i \in 1 .. k PROVE toDev'[i] = i
  <2>1. CASE i = k
    BY <1>5, <2>1
  <2>2. CASE i \in 1 .. Len(toDev)
    BY <1>5, <2>2 DEF DownStream, Numbered
  <2>3. QED
    BY <1>1, <2>1, <2>2
<1>7. ~devEof
  BY <1>1 DEF DownStream
<1>8. QED
  BY <1>1, <1>5, <1>6, <1>7 DEF Numbered

LEMMA DownStep ==
  ASSUME "first" \notin Refusals, SafeInv, DownStream, [Next]_vars
  PROVE  DownStream'
<1>1. TypeOK
  BY DEF SafeInv
<1> USE DEF taskVars, upVars, downVars, deviceVars, serverVars
<1>2. CASE SpliceB
  <2>1. CASE res_b >= 0
    BY <1>2, <2>1, DownSlice
  <2>2. CASE ~(res_b >= 0)
    <3>1. SkipB
      BY <1>2, <2>2 DEF SpliceB
    <3>2. QED
      BY <1>2, <3>1, DownUnchanged DEF SpliceB, SkipB
  <2>3. QED
    BY <2>1, <2>2
<1>3. CASE Transmit
  <2>1. UNCHANGED <<refs, taken, res_b, fin, devEof, srvReset, srvSent, srvClosed, broken>>
    BY <1>3 DEF Transmit
  <2>2. Numbered(toDev)' /\ ~devEof
    BY <1>3, TransmitNext DEF Numbered
  <2>3. QED
    BY <2>1, <2>2 DEF DownStream
<1>4. CASE TransmitFin
  BY <1>4 DEF TransmitFin, DownStream, Numbered
<1>5. CASE ServerSends \/ ServerCloses \/ ServerResets
  <2>1. UNCHANGED <<toDev, refs, taken, res_b, fin, devEof>>
    BY <1>5 DEF ServerSends, ServerCloses, ServerResets
  <2>2. /\ fin # "no" /\ ~broken' => srvClosed' /\ srvSent' = srvSent /\ ~broken
        /\ srvReset' => broken'
    BY <1>5 DEF ServerSends, ServerCloses, ServerResets, DownStream
  <2>3. QED
    BY <2>1, <2>2 DEF DownStream, Numbered
<1>6. CASE SpliceF \/ Connected \/ ConnectFails \/ Leave \/ Timeout \/ Destruct
  BY <1>6, DownUnchanged DEF SpliceF, Connected, ConnectFails, Leave, Timeout, Destruct
<1>7. CASE Poll \/ Terminate \/ ReceiveEof \/ Receive
  BY <1>7, DownUnchanged DEF Poll, Terminate, ReceiveEof, Receive
<1>8. CASE Aborted \/ Closed \/ ServerReads \/ \E n \in 1 .. max_size : Sent(n)
  BY <1>8, DownUnchanged DEF Aborted, Closed, PcbGone, Sent, ServerReads
<1>9. CASE UNCHANGED vars
  BY <1>9, DownUnchanged DEF vars
<1>10. QED
  BY <1>2, <1>3, <1>4, <1>5, <1>6, <1>7, <1>8, <1>9
  DEF Next, SessionStep, LwipStep, PeerStep

(* How far a session has ended, unless a connection broke. *)
Orderly ==
  /\ expired => ~pcb
  /\ ~pcb => fin = "passive" /\ devEof
  /\ res_f < 0 => pcb_eof
  /\ res_b < 0 /\ pcb => fin # "no"
  /\ at \in {"leaving", "drain", "drained"} => ~pcb \/ (res_f < 0 /\ res_b < 0)
  /\ at = "returning" => pcb_eof /\ srvClosed /\ Len(toDev) = srvSent

Ending ==
  /\ fin = "passive" => pcb_eof
  /\ at = "connecting" => res_f >= 0 /\ res_b >= 0
  /\ ~broken /\ at # "ended" => Orderly

EndInv == UpStream /\ DownStream /\ Ending

LEMMA EndingBroken ==
  ASSUME Ending, broken', at' # "connecting" \/ UNCHANGED <<at, res_f, res_b>>,
         fin' = fin, pcb_eof => pcb_eof'
  PROVE  Ending'
  BY DEF Ending

LEMMA EndingUnchanged ==
  ASSUME Ending, UNCHANGED <<fin, pcb_eof, res_f, res_b, broken, expired, pcb, devEof>>,
         UNCHANGED <<srvClosed, srvSent, toDev>>,
         at' = at \/ at' = Woken(at)
  PROVE  Ending'
  BY DEF Ending, Orderly, Woken

(* The two directions are complete when the task returns. *)
LEMMA LeaveComplete ==
  ASSUME SafeInv, DownStream, Ending, ~broken, at \in {"leaving", "drained"},
         ~(pcb /\ buffer.use_size # 0 /\ ~expired)
  PROVE  pcb_eof /\ srvClosed /\ Len(toDev) = srvSent
<1>1. /\ Orderly /\ Len(toDev) \in Nat /\ Len(refs) \in Nat /\ Len(toDev) <= Len(refs)
      /\ acked \in 0 .. Len(toDev) /\ Len(refs) - acked <= buffer.use_size
  BY DEF Ending, SafeInv, TypeOK, BufferInv
<1>2. CASE ~pcb
  BY <1>1, <1>2 DEF Orderly, DownStream, Ending
<1>3. CASE pcb
  <2>1. buffer.use_size = 0 /\ res_f < 0 /\ res_b < 0
    BY <1>1, <1>3 DEF Orderly
  <2>2. Len(toDev) = Len(refs)
    BY <1>1, <2>1
  <2>3. QED
    BY <1>1, <1>3, <2>1, <2>2 DEF Orderly, DownStream
<1>4. QED
  BY <1>2, <1>3

LEMMA EndingSpliceB ==
  ASSUME SafeInv, DownStream, Ending, SpliceB
  PROVE  Ending'
<1>1. /\ at = "b" /\ at' \in {"yield", "wait", "leaving"}
      /\ UNCHANGED <<expired, res_f, pcb, pcb_eof, devEof, toDev, srvSent, srvClosed>>
      /\ at' = "leaving" => (res_f < 0 /\ res_b' < 0) \/ expired
      /\ TypeOK
  <2>1. TypeOK /\ res_b' \in {-1, 0, 1} /\ res_f \in {-1, 0, 1}
    BY SafeSpliceB DEF SafeInv, TypeOK
  <2>2. at = "b" /\ at' = AfterSlice
        /\ UNCHANGED <<expired, res_f, pcb, pcb_eof, devEof, toDev, srvSent, srvClosed>>
    BY DEF SpliceB, upVars, deviceVars, serverVars
  <2>3. QED
    BY <2>1, <2>2 DEF AfterSlice
<1>2. /\ broken => broken'
      /\ res_b' < 0 /\ ~broken' /\ pcb => fin' # "no"
      /\ fin' # fin => res_b >= 0 /\ (fin' = "passive" => pcb_eof)
      /\ ~pcb => fin' = fin
  <2>1. CASE res_b >= 0
    <3>1. fin = "no" /\ SliceEnds
      BY <1>1, <2>1, SliceHasEnd DEF DownStream
    <3>2. ~pcb => fin' = fin
      BY <2>1, <1>1 DEF SpliceB, SkipB, PassData, PassEof, NoPcb, TypeOK
    <3>3. QED
      BY <2>1, <3>1, <3>2 DEF SliceEnds
  <2>2. CASE ~(res_b >= 0)
    <3>1. SkipB
      BY <2>2 DEF SpliceB
    <3>2. QED
      BY <1>1, <2>2, <3>1 DEF SkipB, Ending, Orderly, TypeOK
  <2>3. QED
    BY <2>1, <2>2
<1>3. fin' = "passive" => pcb_eof'
  BY <1>1, <1>2 DEF Ending
<1>4. ASSUME ~broken' PROVE Orderly'
  BY <1>1, <1>2, <1>4 DEF Ending, Orderly
<1>5. QED
  BY <1>1, <1>3, <1>4 DEF Ending

LEMMA EndingStep ==
  ASSUME SafeInv, UpStream, DownStream, Ending, [Next]_vars
  PROVE  Ending'
<1>1. TypeOK
  BY DEF SafeInv
<1> USE DEF taskVars, upVars, downVars, deviceVars, serverVars
<1>2. CASE SpliceB
  BY <1>2, EndingSpliceB
<1>3. CASE SpliceF
  <2>1. /\ at = "yield" /\ at' = "b"
        /\ UNCHANGED <<fin, pcb_eof, res_b, broken, expired, pcb, devEof>>
        /\ UNCHANGED <<srvClosed, srvSent, toDev>>
    BY <1>3 DEF SpliceF
  <2>2. res_f' < 0 => broken \/ pcb_eof
    <3>1. CASE SkipF
      BY <2>1, <3>1 DEF SkipF, Ending, Orderly
    <3>2. CASE WriteBlocked \/ NothingQueued \/ \E n \in 1 .. Wnd : WriteQueue(n)
      BY <3>2 DEF WriteBlocked, NothingQueued, WriteQueue
    <3>3. CASE WriteFails
      BY <3>3 DEF WriteFails, DownStream
    <3>4. QED
      BY <1>3, <3>1, <3>2, <3>3 DEF SpliceF
  <2>3. QED
    BY <2>1, <2>2 DEF Ending, Orderly
<1>4. CASE Connected
  <2>1. CASE broken
    BY <1>4, <2>1 DEF Connected, Ending
  <2>2. CASE ~broken
    <3>1. pcb
      BY <1>4, <2>2 DEF Connected, Ending, Orderly, DownStream
    <3>2. QED
      BY <1>4, <2>2, <3>1 DEF Connected, Ending, Orderly
  <2>3. QED
    BY <2>1, <2>2
<1>5. CASE Leave
  <2>1. /\ at' \in {"drain", "returning"}
        /\ UNCHANGED <<fin, pcb_eof, res_f, res_b, broken, expired, pcb, devEof>>
        /\ UNCHANGED <<srvClosed, srvSent, toDev>>
        /\ at \in {"leaving", "drained"}
        /\ at' = "returning" => ~(pcb /\ buffer.use_size # 0 /\ ~expired)
    BY <1>5 DEF Leave
  <2>2. ~broken /\ at' = "returning" => pcb_eof /\ srvClosed /\ Len(toDev) = srvSent
    BY <2>1, LeaveComplete
  <2>3. QED
    BY <2>1, <2>2 DEF Ending, Orderly
<1>6. CASE ConnectFails \/ Timeout \/ Terminate \/ Aborted \/ ServerResets
  <2>1. broken' /\ fin' = fin /\ pcb_eof' = pcb_eof
    BY <1>6 DEF ConnectFails, Timeout, Terminate, Aborted, PcbGone, ServerResets
  <2>2. at' # "connecting" \/ UNCHANGED <<at, res_f, res_b>>
    BY <1>6 DEF ConnectFails, Timeout, Terminate, Aborted, PcbGone, ServerResets, Woken
  <2>3. QED
    BY <2>1, <2>2, EndingBroken
<1>7. CASE Destruct
  BY <1>7 DEF Destruct, Ending
<1>8. CASE Closed
  <2>1. /\ ~pcb' /\ fin = "passive" /\ devEof /\ at' = Woken(at)
        /\ UNCHANGED <<fin, pcb_eof, res_f, res_b, broken, devEof, srvClosed, srvSent, toDev>>
    BY <1>8 DEF Closed, PcbGone
  <2>2. QED
    BY <2>1 DEF Ending, Orderly, Woken
<1>9. CASE ReceiveEof
  <2>1. /\ pcb_eof' /\ at' = Woken(at)
        /\ UNCHANGED <<fin, res_f, res_b, broken, expired, pcb, devEof, srvClosed, srvSent, toDev>>
    BY <1>9 DEF ReceiveEof
  <2>2. QED
    BY <2>1 DEF Ending, Orderly, Woken
<1>10. CASE Transmit
  <2>1. /\ UNCHANGED <<at, fin, pcb_eof, res_f, res_b, broken, expired, pcb, devEof,
                       srvClosed, srvSent>>
        /\ ~(Len(toDev) = srvSent)
    <3>1. /\ Len(toDev) \in Nat /\ Len(refs) \in Nat /\ taken \in Nat /\ srvSent \in Nat
          /\ Len(toDev) < Len(refs) /\ Len(refs) <= taken /\ taken <= srvSent
      BY <1>1, <1>10 DEF TypeOK, DownStream, Transmit
    <3>2. QED
      BY <1>10, <3>1 DEF Transmit
  <2>2. QED
    BY <2>1 DEF Ending, Orderly
<1>11. CASE TransmitFin
  BY <1>11 DEF TransmitFin, Ending, Orderly
<1>12. CASE ServerSends \/ ServerCloses
  BY <1>12 DEF ServerSends, ServerCloses, Ending, Orderly
<1>13. CASE Poll \/ Receive \/ ServerReads \/ \E n \in 1 .. max_size : Sent(n)
  BY <1>13, EndingUnchanged DEF Poll, Receive, ServerReads, Sent
<1>14. CASE UNCHANGED vars
  BY <1>14, EndingUnchanged DEF vars
<1>15. QED
  BY <1>2, <1>3, <1>4, <1>5, <1>6, <1>7, <1>8, <1>9, <1>10, <1>11, <1>12, <1>13, <1>14
  DEF Next, SessionStep, LwipStep, PeerStep

-----------------------------------------------------------------------------
(***************************************************************************)
(* Every step of the session is a step of ByteRelay, or none.              *)
(***************************************************************************)
LEMMA UptoIs ==
  ASSUME NEW n \in Nat
  PROVE  Upto(n) \in Seq(Int) /\ Len(Upto(n)) = n /\ Numbered(Upto(n))
  BY DEF Upto, Numbered

LEMMA NumberedUpto ==
  ASSUME NEW s \in Seq(Int), Numbered(s)
  PROVE  s = Upto(Len(s))
<1>1. /\ Len(s) \in Nat /\ Upto(Len(s)) \in Seq(Int) /\ Len(Upto(Len(s))) = Len(s)
      /\ \A i \in 1 .. Len(s) : s[i] = Upto(Len(s))[i]
  BY UptoIs DEF Numbered
<1>2. QED
  BY <1>1, SeqEqual

(* Numbered sequences are prefixes of one another. *)
LEMMA NumberedPrefix ==
  ASSUME NEW s \in Seq(Int), NEW t \in Seq(Int), Numbered(s), Numbered(t), Len(s) <= Len(t)
  PROVE  /\ Relay!IsPrefix(s, t)
         /\ Len(s) < Len(t) => Relay!IsStrictPrefix(s, t)
<1>1. Len(s) \in Nat /\ Len(t) \in Nat
  OBVIOUS
<1>2. 1 \in 1 .. Len(s) + 1 /\ Len(s) \in 1 - 1 .. Len(s) /\ 1 \in 1 .. Len(t) + 1
      /\ Len(s) \in 1 - 1 .. Len(t)
  BY <1>1
<1>3. /\ SubSeq(s, 1, Len(s)) \in Seq(Int) /\ Len(SubSeq(s, 1, Len(s))) = Len(s) - 1 + 1
      /\ \A i \in 1 .. Len(s) - 1 + 1 : SubSeq(s, 1, Len(s))[i] = s[1 + i - 1]
  BY <1>2, PartOf
<1>4. /\ SubSeq(t, 1, Len(s)) \in Seq(Int) /\ Len(SubSeq(t, 1, Len(s))) = Len(s) - 1 + 1
      /\ \A i \in 1 .. Len(s) - 1 + 1 : SubSeq(t, 1, Len(s))[i] = t[1 + i - 1]
  BY <1>2, PartOf
<1>5. ASSUME NEW i \in 1 .. Len(s)
      PROVE  SubSeq(s, 1, Len(s))[i] = SubSeq(t, 1, Len(s))[i]
  <2>1. i \in 1 .. Len(s) - 1 + 1 /\ 1 + i - 1 = i /\ i \in 1 .. Len(t)
    BY <1>1
  <2>2. QED
    BY <1>3, <1>4, <2>1 DEF Numbered
<1>6. Len(s) - 1 + 1 = Len(s)
  BY <1>1
<1>7. SubSeq(s, 1, Len(s)) = SubSeq(t, 1, Len(s))
  BY <1>3, <1>4, <1>5, <1>6, SeqEqual
<1>8. Len(s) < Len(t) => s # t
  BY <1>1
<1>9. QED
  BY <1>7, <1>8 DEF Relay!IsPrefix, Relay!IsStrictPrefix

LEMMA StreamsInit == Init => Relay!Init
<1> SUFFICES ASSUME Init PROVE Relay!Init
  OBVIOUS
<1>1. Upto(0) = << >>
  BY DEF Upto
<1>2. QED
  BY <1>1 DEF Init, Relay!Init, Pair

(* What the two ends cannot see. *)
LEMMA RelayStutters ==
  ASSUME UNCHANGED <<devSent, srvSent, pcb_eof, srvClosed, toSrv, toDev, wrShut, devEof, broken>>,
         at' = "ended" <=> at = "ended"
  PROVE  UNCHANGED Relay!vars
  BY DEF Relay!vars, Pair

LEMMA PairAt ==
  ASSUME NEW u, NEW v
  PROVE  /\ Pair(u, v)["up"] = u /\ Pair(u, v)["down"] = v
         /\ \A o \in {"up", "down"} \ {"up"} : Pair(u, v)[o] = v
         /\ \A o \in {"up", "down"} \ {"down"} : Pair(u, v)[o] = u
  BY DEF Pair

(* The steps of the session, one by one, as steps of the relay. *)
LEMMA ReceiveSends == SafeInv /\ EndInv /\ Receive => Relay!Send("up")
<1> SUFFICES ASSUME SafeInv, EndInv, Receive PROVE Relay!Send("up")
  OBVIOUS
<1>1. /\ devSent \in Nat /\ devSent' = devSent + 1 /\ ~pcb_eof
      /\ UNCHANGED <<pcb_eof, toSrv, wrShut, srvSent, srvClosed, toDev, devEof, broken>>
  BY DEF SafeInv, TypeOK, Receive, deviceVars, serverVars
<1>2. at # "ended" /\ at' # "ended"
  BY DEF EndInv, UpStream, Receive, Woken
<1>3. Relay!IsStrictPrefix(Upto(devSent), Upto(devSent'))
  <2>1. devSent' \in Nat /\ devSent < devSent' /\ devSent <= devSent'
    BY <1>1
  <2>2. QED
    BY <1>1, <2>1, UptoIs, NumberedPrefix
<1>4. QED
  BY <1>1, <1>2, <1>3, PairAt DEF Relay!Send

LEMMA ServerSendsSends == SafeInv /\ EndInv /\ ServerSends => Relay!Send("down")
<1> SUFFICES ASSUME SafeInv, EndInv, ServerSends PROVE Relay!Send("down")
  OBVIOUS
<1>1. /\ srvSent \in Nat /\ srvSent' = srvSent + 1 /\ ~srvClosed
      /\ UNCHANGED <<at, pcb_eof, toSrv, wrShut, devSent, srvClosed, toDev, devEof, broken>>
  BY DEF SafeInv, TypeOK, ServerSends, upVars, deviceVars
<1>2. Relay!IsStrictPrefix(Upto(srvSent), Upto(srvSent'))
  <2>1. srvSent' \in Nat /\ srvSent < srvSent' /\ srvSent <= srvSent'
    BY <1>1
  <2>2. QED
    BY <1>1, <2>1, UptoIs, NumberedPrefix
<1>3. QED
  BY <1>1, <1>2, PairAt DEF Relay!Send

LEMMA ClosesClose ==
  /\ ReceiveEof => Relay!Close("up")
  /\ ServerCloses => Relay!Close("down")
<1>1. ASSUME ReceiveEof PROVE Relay!Close("up")
  <2>1. /\ pcb_eof' = TRUE /\ (at' = "ended" <=> at = "ended")
        /\ UNCHANGED <<toSrv, wrShut, devSent, srvSent, srvClosed, toDev, devEof, broken>>
    BY <1>1 DEF ReceiveEof, Woken, deviceVars, serverVars
  <2>2. QED
    BY <2>1 DEF Relay!Close, Pair
<1>2. ASSUME ServerCloses PROVE Relay!Close("down")
  <2>1. /\ srvClosed' = TRUE
        /\ UNCHANGED <<at, pcb_eof, toSrv, wrShut, devSent, srvSent, toDev, devEof, broken>>
    BY <1>2 DEF ServerCloses, upVars, deviceVars
  <2>2. QED
    BY <2>1 DEF Relay!Close, Pair
<1>3. QED
  BY <1>1, <1>2

LEMMA BreaksBreak ==
  ConnectFails \/ Timeout \/ Terminate \/ Aborted \/ ServerResets => Relay!Break
<1> SUFFICES ASSUME ConnectFails \/ Timeout \/ Terminate \/ Aborted \/ ServerResets
             PROVE  Relay!Break
  OBVIOUS
<1> USE DEF upVars, downVars, deviceVars, serverVars
<1>1. broken' = TRUE
  BY DEF ConnectFails, Timeout, Terminate, Aborted, ServerResets
<1>2. UNCHANGED <<devSent, srvSent, pcb_eof, srvClosed, toSrv, toDev, wrShut, devEof>>
  BY DEF ConnectFails, Timeout, Terminate, Aborted, PcbGone, ServerResets
<1>3. at' = "ended" <=> at = "ended"
  BY DEF ConnectFails, Timeout, Terminate, Aborted, PcbGone, ServerResets, Woken
<1>4. QED
  BY <1>1, <1>2, <1>3 DEF Relay!Break, Pair

LEMMA SliceBreaks == SafeInv /\ SpliceB => Relay!Break \/ UNCHANGED Relay!vars
<1> SUFFICES ASSUME SafeInv, SpliceB PROVE Relay!Break \/ UNCHANGED Relay!vars
  OBVIOUS
<1>1. /\ UNCHANGED <<devSent, srvSent, pcb_eof, srvClosed, toSrv, toDev, wrShut, devEof>>
      /\ at = "b" /\ at' # "ended"
  BY DEF SpliceB, AfterSlice, upVars, deviceVars, serverVars
<1>2. broken' \in BOOLEAN /\ (broken => broken') /\ broken \in BOOLEAN
  <2>1. broken' \in BOOLEAN /\ broken \in BOOLEAN
    BY SafeSpliceB DEF SafeInv, TypeOK
  <2>2. broken => broken'
    <3>1. CASE SkipB
      BY <3>1 DEF SkipB
    <3>2. CASE \E b, mem, r : PassData(b, mem) \/ PassEof(b, r) \/ NoPcb(b)
      <4>1. broken' = broken \/ \E o : broken' = (broken \/ o # "none")
        BY <3>2 DEF PassData, PassEof, NoPcb
      <4>2. QED
        BY <4>1, Zenon
    <3>3. QED
      BY <3>1, <3>2 DEF SpliceB
  <2>3. QED
    BY <2>1, <2>2
<1>3. CASE broken' = broken
  BY <1>1, <1>3, RelayStutters
<1>4. CASE broken' = TRUE
  BY <1>1, <1>4 DEF Relay!Break, Pair
<1>5. QED
  BY <1>2, <1>3, <1>4

LEMMA SliceDelivers ==
  ASSUME SafeInv, EndInv, SpliceF
  PROVE  Relay!Deliver("up") \/ Relay!DeliverEof("up") \/ UNCHANGED Relay!vars
<1>1. /\ UNCHANGED <<devSent, srvSent, pcb_eof, srvClosed, toDev, devEof, broken>>
      /\ at = "yield" /\ at' = "b" /\ TypeOK /\ UpStream
  BY DEF SpliceF, deviceVars, serverVars, SafeInv, EndInv
<1>2. ASSUME NEW n \in 1 .. Wnd, res_f >= 0, WriteQueue(n) PROVE Relay!Deliver("up")
  <2>1. /\ Len(toSrv') = Len(toSrv) + n /\ Len(toSrv') <= devSent /\ Numbered(toSrv')
        /\ Numbered(toSrv) /\ ~wrShut /\ wrShut' = wrShut
    <3>1. ~wrShut
      BY <1>1, <1>2 DEF UpStream, TypeOK
    <3>2. UpStream' /\ Len(toSrv') = Len(toSrv) + n /\ Len(toSrv') <= devSent
      BY <1>1, <1>2, UpWriteQueue
    <3>3. Numbered(toSrv) /\ Numbered(toSrv')
      BY <1>1, <3>2 DEF UpStream, Numbered
    <3>4. wrShut' = wrShut
      BY <1>2 DEF WriteQueue
    <3>5. QED
      BY <3>1, <3>2, <3>3, <3>4
  <2>2. toSrv \in Seq(Int) /\ toSrv' \in Seq(Int)
    <3>1. TypeOK /\ TypeOK'
      BY SafeSpliceF DEF SafeInv
    <3>2. toSrv \in Seq(1 .. MaxUp) /\ toSrv' \in Seq(1 .. MaxUp)
      BY <3>1 DEF TypeOK
    <3>3. QED
      BY <3>2, Bounds
  <2>3. Relay!IsStrictPrefix(toSrv, toSrv')
    BY <2>1, <2>2, NumberedPrefix
  <2>4. Relay!IsPrefix(toSrv', Upto(devSent))
    <3>1. devSent \in Nat
      BY <1>1 DEF TypeOK
    <3>2. QED
      BY <2>1, <2>2, <3>1, UptoIs, NumberedPrefix
  <2>5. QED
    BY <1>1, <2>1, <2>3, <2>4, PairAt DEF Relay!Deliver
<1>3. CASE SkipF \/ WriteBlocked \/ WriteFails
  <2>1. UNCHANGED <<toSrv, wrShut>>
    BY <1>3 DEF SkipF, WriteBlocked, WriteFails
  <2>2. QED
    BY <1>1, <2>1, RelayStutters
<1>4. CASE NothingQueued /\ ~pcb_eof
  <2>1. UNCHANGED <<toSrv, wrShut>>
    BY <1>1, <1>4 DEF NothingQueued, TypeOK
  <2>2. QED
    BY <1>1, <2>1, RelayStutters
<1>5. CASE NothingQueued /\ pcb_eof
  <2>1. toSrv' = toSrv /\ wrShut' = TRUE /\ Len(queue) = 0
    BY <1>5 DEF NothingQueued
  <2>2. Len(toSrv) = devSent /\ Numbered(toSrv) /\ toSrv \in Seq(Int)
    BY <1>1, <2>1 DEF UpStream, TypeOK
  <2>3. toSrv = Upto(devSent)
    BY <2>2, NumberedUpto
  <2>4. QED
    BY <1>1, <1>5, <2>1, <2>3 DEF Relay!DeliverEof, Relay!Complete, Pair
<1>6. QED
  BY <1>2, <1>3, <1>4, <1>5 DEF SpliceF

LEMMA TransmitDelivers ==
  /\ SafeInv /\ EndInv /\ Transmit => Relay!Deliver("down")
  /\ SafeInv /\ EndInv /\ TransmitFin => Relay!DeliverEof("down")
<1>1. ASSUME SafeInv, EndInv, Transmit PROVE Relay!Deliver("down")
  <2>1. /\ UNCHANGED <<at, devSent, srvSent, pcb_eof, srvClosed, toSrv, wrShut, devEof, broken>>
        /\ TypeOK /\ DownStream
    BY <1>1 DEF Transmit, taskVars, upVars, serverVars, SafeInv, EndInv
  <2>2. /\ Len(toDev') = Len(toDev) + 1 /\ Numbered(toDev') /\ ~devEof
        /\ Len(toDev') <= Len(refs)
    BY <1>1, <2>1, TransmitNext
  <2>3. /\ toDev \in Seq(Int) /\ toDev' \in Seq(Int) /\ srvSent \in Nat
        /\ Len(refs) <= taken /\ taken <= srvSent /\ taken \in Nat /\ Numbered(toDev)
        /\ Len(refs) \in Nat
    <3>1. TypeOK'
      BY <1>1, SafeTransmit DEF SafeInv
    <3>2. toDev \in Seq(0 .. MaxDown) /\ toDev' \in Seq(0 .. MaxDown)
      BY <2>1, <3>1 DEF TypeOK
    <3>3. QED
      BY <2>1, <3>2 DEF TypeOK, DownStream
  <2>4. Relay!IsStrictPrefix(toDev, toDev')
    BY <2>2, <2>3, NumberedPrefix
  <2>5. Relay!IsPrefix(toDev', Upto(srvSent))
    <3>1. Len(toDev') <= srvSent
      BY <2>2, <2>3
    <3>2. QED
      BY <2>2, <2>3, <3>1, UptoIs, NumberedPrefix
  <2>6. QED
    BY <2>1, <2>2, <2>4, <2>5, PairAt DEF Relay!Deliver
<1>2. ASSUME SafeInv, EndInv, TransmitFin PROVE Relay!DeliverEof("down")
  <2>1. /\ UNCHANGED <<at, devSent, srvSent, pcb_eof, srvClosed, toSrv, wrShut, toDev, broken>>
        /\ TypeOK /\ DownStream /\ devEof' = TRUE /\ fin # "no" /\ Len(toDev) = Len(refs)
    BY <1>2 DEF TransmitFin, taskVars, upVars, serverVars, SafeInv, EndInv
  <2>2. ~broken => srvClosed /\ toDev = Upto(srvSent)
    <3>1. toDev \in Seq(Int) /\ Numbered(toDev)
      BY <2>1 DEF TypeOK, DownStream
    <3>2. toDev = Upto(Len(toDev))
      BY <3>1, NumberedUpto
    <3>3. QED
      BY <2>1, <3>2 DEF DownStream
  <2>3. QED
    BY <2>1, <2>2 DEF Relay!DeliverEof, Relay!Complete, Pair
<1>3. QED
  BY <1>1, <1>2

LEMMA DestructFinishes == SafeInv /\ EndInv /\ Destruct => Relay!Finish
<1> SUFFICES ASSUME SafeInv, EndInv, Destruct PROVE Relay!Finish
  OBVIOUS
<1>1. /\ UNCHANGED <<devSent, srvSent, pcb_eof, srvClosed, toSrv, wrShut, toDev, devEof, broken>>
      /\ at = "returning" /\ at' = "ended" /\ TypeOK /\ DownStream /\ Ending
  BY DEF Destruct, downVars, deviceVars, serverVars, SafeInv, EndInv
<1>2. ~broken => pcb_eof /\ srvClosed /\ toDev = Upto(srvSent)
  <2>1. toDev \in Seq(Int) /\ Numbered(toDev)
    BY <1>1 DEF TypeOK, DownStream
  <2>2. toDev = Upto(Len(toDev))
    BY <2>1, NumberedUpto
  <2>3. QED
    BY <1>1, <2>2 DEF Ending, Orderly
<1>3. QED
  BY <1>1, <1>2 DEF Relay!Finish, Relay!Complete, Pair

LEMMA StreamsStep == SafeInv /\ EndInv /\ [Next]_vars => Relay!Next \/ UNCHANGED Relay!vars
<1> SUFFICES ASSUME SafeInv, EndInv, [Next]_vars PROVE Relay!Next \/ UNCHANGED Relay!vars
  OBVIOUS
<1> USE DEF taskVars, upVars, downVars, deviceVars, serverVars
<1>1. CASE Receive \/ ServerSends \/ ReceiveEof \/ ServerCloses
  BY <1>1, ReceiveSends, ServerSendsSends, ClosesClose DEF Relay!Next
<1>2. CASE ConnectFails \/ Timeout \/ Terminate \/ Aborted \/ ServerResets
  BY <1>2, BreaksBreak DEF Relay!Next
<1>3. CASE SpliceB
  BY <1>3, SliceBreaks DEF Relay!Next
<1>4. CASE SpliceF
  BY <1>4, SliceDelivers DEF Relay!Next
<1>5. CASE Transmit \/ TransmitFin
  BY <1>5, TransmitDelivers DEF Relay!Next
<1>6. CASE Destruct
  BY <1>6, DestructFinishes DEF Relay!Next
<1>7. CASE Connected \/ Leave \/ Poll \/ Closed \/ ServerReads \/ \E n \in 1 .. max_size : Sent(n)
  <2>1. UNCHANGED <<devSent, srvSent, pcb_eof, srvClosed, toSrv, toDev, wrShut, devEof, broken>>
    BY <1>7 DEF Connected, Leave, Poll, Closed, PcbGone, ServerReads, Sent
  <2>2. at' = "ended" <=> at = "ended"
    BY <1>7 DEF Connected, Leave, Poll, Closed, PcbGone, ServerReads, Sent, Woken
  <2>3. QED
    BY <2>1, <2>2, RelayStutters
<1>8. CASE UNCHANGED vars
  BY <1>8, RelayStutters DEF vars
<1>9. QED
  BY <1>1, <1>2, <1>3, <1>4, <1>5, <1>6, <1>7, <1>8
  DEF Next, SessionStep, LwipStep, PeerStep

LEMMA EndInit == Init => EndInv
<1> SUFFICES ASSUME Init PROVE EndInv
  OBVIOUS
<1>1. UpStream /\ DownStream
  BY DEF Init, UpStream, DownStream, Numbered
<1>2. Ending
  BY DEF Init, Ending, Orderly
<1>3. QED
  BY <1>1, <1>2 DEF EndInv

(***************************************************************************)
(* Bytes arrive in order and none is lost, an end of stream is passed on   *)
(* behind the last byte, and a session whose connections hold ends only    *)
(* when both ends have closed and the device has everything, provided that *)
(* lwIP never refuses the first of two chunks and takes the second.        *)
(***************************************************************************)
THEOREM SpliceRelays ==
  ASSUME "first" \notin Refusals
  PROVE  Spec => KeepsStreams
<1>1. SafeInv /\ EndInv /\ [Next]_vars => EndInv'
  BY UpStep, DownStep, EndingStep DEF EndInv
<1>2. Spec => []EndInv
  BY SpliceSafe, EndInit, <1>1, PTL DEF Spec
<1>3. SafeInv /\ EndInv /\ [Next]_vars => [Relay!Next]_(Relay!vars)
  BY StreamsStep
<1>4. QED
  BY SpliceSafe, StreamsInit, <1>2, <1>3, PTL DEF Spec, KeepsStreams, Relay!Spec
=============================================================================
