------------------------- MODULE UdpAssociationProofs -------------------------
(***************************************************************************)
(* The safety invariants of UdpAssociation, for any set of peers.          *)
(***************************************************************************)
EXTENDS UdpAssociation, TLAPS

(* A new association is inside the invariant. *)
LEMMA InitInv == Init => UInv
BY AssociationAssumption
DEF Init, UInv, TypeOK, StreamHasReader, OneCloser, ClosedIfClosing, OpensOnce,
    Goroutines, InClose, Closing

(* A step of Close, by whichever goroutine, keeps the invariant: the test  *)
(* of closed under the mutex is what makes the closer the only one.        *)
LEMMA CloseKeeps ==
  ASSUME UInv, NEW g \in Goroutines, CloseStep(g)
  PROVE  UInv'
<1> USE DEF UInv, TypeOK, StreamHasReader, OneCloser, ClosedIfClosing, OpensOnce,
            Goroutines, InClose, Closing, Goto, AfterClose, fields, sockets
<1>1. CASE CloseLocks(g)
  <2>1. CASE closed
    BY <1>1, <2>1 DEF CloseLocks
  <2>2. CASE ~closed
    <3>1. TypeOK'
      <4>1. stream \in BOOLEAN /\ found \in [Goroutines -> BOOLEAN]
        OBVIOUS
      <4>2. found' = [found EXCEPT ![g] = stream]
        BY <1>1, <2>2 DEF CloseLocks
      <4>3. found' \in [Goroutines -> BOOLEAN]
        BY ONLY <4>1, <4>2, Zenon
      <4>4. pc' \in [Goroutines -> {"none", "reading", "returning", "send", "open",
                                    "store", "spawn", "write", "exited"} \cup InClose]
        BY <1>1, <2>2 DEF CloseLocks
      <4>5. pc' = [pc EXCEPT ![g] = "closeStream"]
        BY <1>1, <2>2 DEF CloseLocks
      <4>6. \A h \in Goroutines : pc'[h] = pc[h] \/ pc'[h] \in InClose
        BY <4>5
      <4>7. UNCHANGED <<receiving, clientUDPAddr, udpOpen, tcpOpen, smux>>
        BY <1>1, <2>2 DEF CloseLocks
      <4>8. closed' \in BOOLEAN /\ stream' \in BOOLEAN
        BY <1>1, <2>2 DEF CloseLocks
      <4> QED
        BY <4>3, <4>4, <4>6, <4>7, <4>8
    <3>2. StreamHasReader'
      BY <1>1, <2>2 DEF CloseLocks
    <3>3. OneCloser'
      BY <1>1, <2>2 DEF CloseLocks
    <3>4. ClosedIfClosing' /\ OpensOnce'
      BY <1>1, <2>2 DEF CloseLocks
    <3> QED
      BY <3>1, <3>2, <3>3, <3>4
  <2> QED
    BY <2>1, <2>2
<1>2. CASE CloseStream(g)
  <2>1. TypeOK'
    BY <1>2 DEF CloseStream
  <2>2. StreamHasReader'
    BY <1>2 DEF CloseStream
  <2>3. OneCloser'
    BY <1>2 DEF CloseStream
  <2>4. ClosedIfClosing' /\ OpensOnce'
    BY <1>2 DEF CloseStream
  <2> QED
    BY <2>1, <2>2, <2>3, <2>4
<1>3. CASE CloseUdp(g)
  <2>1. TypeOK'
    BY <1>3 DEF CloseUdp
  <2>2. StreamHasReader'
    BY <1>3 DEF CloseUdp
  <2>3. OneCloser'
    BY <1>3 DEF CloseUdp
  <2>4. ClosedIfClosing' /\ OpensOnce'
    BY <1>3 DEF CloseUdp
  <2> QED
    BY <2>1, <2>2, <2>3, <2>4
<1>4. CASE CloseTcp(g)
  <2>1. TypeOK'
    BY <1>4 DEF CloseTcp
  <2>2. StreamHasReader'
    BY <1>4 DEF CloseTcp
  <2>3. OneCloser'
    BY <1>4 DEF CloseTcp
  <2>4. ClosedIfClosing' /\ OpensOnce'
    BY <1>4 DEF CloseTcp
  <2> QED
    BY <2>1, <2>2, <2>3, <2>4
<1> QED
  BY <1>1, <1>2, <1>3, <1>4 DEF CloseStep

(* So does a step of the goroutine that watches the connection. *)
LEMMA ControlKeeps ==
  ASSUME UInv, ControlReadFails \/ ControlReturns
  PROVE  UInv'
<1> USE DEF UInv, TypeOK, StreamHasReader, OneCloser, ClosedIfClosing, OpensOnce,
            Goroutines, InClose, Closing, Goto, fields, sockets
<1>1. CASE ControlReadFails
  BY <1>1 DEF ControlReadFails
<1>2. CASE ControlReturns
  BY <1>2 DEF ControlReturns
<1> QED
  BY <1>1, <1>2

(* So does a step of the loop: receiving keeps it from a second stream. *)
LEMMA LoopKeeps ==
  ASSUME UInv, LoopEnds \/ SendStep \/ \E a \in Peers : Receive(a)
  PROVE  UInv'
<1> USE DEF UInv, TypeOK, StreamHasReader, OneCloser, ClosedIfClosing, OpensOnce,
            Goroutines, InClose, Closing, Goto, fields, sockets
<1>1. CASE LoopEnds
  BY <1>1 DEF LoopEnds
<1>2. ASSUME NEW a \in Peers, Receive(a)
      PROVE  UInv'
  <2>1. CASE UNCHANGED pc
    BY <1>2, <2>1, AssociationAssumption DEF Receive
  <2>2. CASE Goto("loop", "send")
    BY <1>2, <2>2, AssociationAssumption DEF Receive
  <2> QED
    BY <1>2, <2>1, <2>2 DEF Receive
<1>3. CASE SendLocks
  <2>1. CASE closed
    BY <1>3, <2>1 DEF SendLocks
  <2>2. CASE ~closed /\ receiving
    BY <1>3, <2>2 DEF SendLocks
  <2>3. CASE ~closed /\ ~receiving
    BY <1>3, <2>3 DEF SendLocks
  <2> QED
    BY <2>1, <2>2, <2>3
<1>4. CASE OpenFails
  BY <1>4 DEF OpenFails
<1>5. CASE OpenSucceeds
  BY <1>5 DEF OpenSucceeds
<1>6. CASE StoreStream
  BY <1>6 DEF StoreStream
<1>7. CASE SpawnReplies
  BY <1>7 DEF SpawnReplies
<1>8. CASE WriteChunk
  BY <1>8 DEF WriteChunk
<1> QED
  BY <1>1, <1>2, <1>3, <1>4, <1>5, <1>6, <1>7, <1>8 DEF SendStep

(* So does the end of the stream and what its reader does then. *)
LEMMA ReplyKeeps ==
  ASSUME UInv, ReplyFails \/ StreamEnds
  PROVE  UInv'
<1> USE DEF UInv, TypeOK, StreamHasReader, OneCloser, ClosedIfClosing, OpensOnce,
            Goroutines, InClose, Closing, Goto, fields, sockets
<1>1. CASE ReplyFails
  BY <1>1 DEF ReplyFails
<1>2. CASE StreamEnds
  BY <1>2 DEF StreamEnds
<1> QED
  BY <1>1, <1>2

LEMMA StepKeeps == UInv /\ [Next]_vars => UInv'
<1> SUFFICES ASSUME UInv, [Next]_vars PROVE UInv'
  OBVIOUS
<1>1. CASE \E g \in Goroutines : CloseStep(g)
  BY <1>1, CloseKeeps
<1>2. CASE ControlReadFails \/ ControlReturns
  BY <1>2, ControlKeeps
<1>3. CASE LoopEnds \/ SendStep \/ \E a \in Peers : Receive(a)
  BY <1>3, LoopKeeps
<1>4. CASE ReplyFails \/ StreamEnds
  BY <1>4, ReplyKeeps
<1>5. CASE UNCHANGED vars
  BY <1>5 DEF vars, fields, sockets, UInv, TypeOK, StreamHasReader, OneCloser,
              ClosedIfClosing, OpensOnce
<1> QED
  BY <1>1, <1>2, <1>3, <1>4, <1>5 DEF Next

(* The association never leaves its inductive invariant. *)
THEOREM AssociationInvariant == Spec => []UInv
<1> QED
  BY InitInv, StepKeeps, PTL DEF Spec

(* Every variable keeps its type, and a stream is only asked for once the  *)
(* client's address is known.                                              *)
THEOREM AssociationTypeCorrect == Spec => []TypeOK
<1>1. UInv => TypeOK
  BY DEF UInv
<1> QED
  BY <1>1, AssociationInvariant, PTL

(* An open stream has a reader or is about to get one. *)
THEOREM StreamIsWatched == Spec => []StreamHasReader
<1>1. UInv => StreamHasReader
  BY DEF UInv
<1> QED
  BY <1>1, AssociationInvariant, PTL

(* However many goroutines fail together, one at a time is past the test   *)
(* of closed in Close, and nothing is closed before the association is.    *)
THEOREM ClosedOnce == Spec => []OneCloser
<1>1. UInv => OneCloser
  BY DEF UInv
<1> QED
  BY <1>1, AssociationInvariant, PTL
=============================================================================
