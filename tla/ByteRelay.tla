------------------------------- MODULE ByteRelay -------------------------------
(***************************************************************************)
(* What a TCP session promises to its two ends: in each direction the      *)
(* bytes arrive in the order they were sent, the end of a stream is passed *)
(* on only behind its last byte, and the session is over only when both    *)
(* ends have closed and the assured directions are complete, unless one of *)
(* the connections broke.                                                  *)
(***************************************************************************)
EXTENDS SequencesExt

CONSTANTS
  Directions,
  Assured     \* directions in which a closed stream arrives to its end

VARIABLES
  sent,    \* the bytes an end has sent, for each direction
  closed,  \* it will send no more
  got,     \* the bytes the other end has got
  eof,     \* it has been told that there are no more
  broken,  \* a connection failed or the session ran out of time
  over     \* the session has ended

vars == <<sent, closed, got, eof, broken, over>>

Init ==
  /\ sent = [d \in Directions |-> << >>]
  /\ closed = [d \in Directions |-> FALSE]
  /\ got = [d \in Directions |-> << >>]
  /\ eof = [d \in Directions |-> FALSE]
  /\ broken = FALSE
  /\ over = FALSE

Send(d) ==
  /\ ~closed[d]
  /\ IsStrictPrefix(sent[d], sent'[d])
  /\ \A o \in Directions \ {d} : sent'[o] = sent[o]
  /\ UNCHANGED <<closed, got, eof, broken, over>>

Close(d) ==
  /\ closed' = [closed EXCEPT ![d] = TRUE]
  /\ UNCHANGED <<sent, got, eof, broken, over>>

Complete(d) == closed[d] /\ got[d] = sent[d]

(* More of what was sent arrives. *)
Deliver(d) ==
  /\ ~eof[d]
  /\ IsStrictPrefix(got[d], got'[d])
  /\ IsPrefix(got'[d], sent[d])
  /\ \A o \in Directions \ {d} : got'[o] = got[o]
  /\ UNCHANGED <<sent, closed, eof, broken, over>>

DeliverEof(d) ==
  /\ Complete(d) \/ broken
  /\ eof' = [eof EXCEPT ![d] = TRUE]
  /\ UNCHANGED <<sent, closed, got, broken, over>>

Break ==
  /\ broken' = TRUE
  /\ UNCHANGED <<sent, closed, got, eof, over>>

Finish ==
  /\ broken \/ /\ \A d \in Directions : closed[d]
               /\ \A d \in Assured : Complete(d)
  /\ over' = TRUE
  /\ UNCHANGED <<sent, closed, got, eof, broken>>

Next ==
  \/ \E d \in Directions : Send(d) \/ Close(d) \/ Deliver(d) \/ DeliverEof(d)
  \/ Break
  \/ Finish

Spec == Init /\ [][Next]_vars
=============================================================================
