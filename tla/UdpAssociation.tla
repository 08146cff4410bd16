---------------------------- MODULE UdpAssociation ----------------------------
(***************************************************************************)
(* A SOCKS5 UDP association of xtunnel.go: type UDPAssociation and its     *)
(* three goroutines.  "control" runs handleSOCKS5UDP and watches the TCP   *)
(* connection, "loop" relays the client's datagrams and opens the stream   *)
(* for the first of them, "replies" reads the stream.  Each of them may    *)
(* call Close, and a section under the mutex of the association is one     *)
(* action.  The destinations of datagrams are left out, and the pool is    *)
(* not nil here (see SocksCore).                                           *)
(***************************************************************************)
EXTENDS Integers

CONSTANTS
  Peers,  \* UDP addresses that send to the association's socket
  None    \* no address

ASSUME AssociationAssumption == None \notin Peers

VARIABLES
  closed,         \* the fields of UDPAssociation
  receiving,
  stream,         \* is it set
  clientUDPAddr,
  udpOpen,        \* udpListener has not been closed
  tcpOpen,        \* tcpConn has not been closed
  smux,           \* the stream itself: "none", "open", "closed", "ended"
  pc,             \* where a goroutine is
  found           \* local stream of Close: whether there is one to close

fields == <<closed, receiving, stream, clientUDPAddr>>
sockets == <<udpOpen, tcpOpen>>
vars == <<fields, sockets, smux, pc, found>>

Goroutines == {"control", "loop", "replies"}

InClose == {"close", "closeStream", "closeUdp", "closeTcp"}

Goto(g, step) == pc' = [pc EXCEPT ![g] = step]

-----------------------------------------------------------------------------
(* Close, by any goroutine.                                                *)

AfterClose(g) ==
  CASE g = "control" -> "returning"
    [] g = "loop"    -> "reading"
    [] g = "replies" -> "exited"

(* Mutant: a second caller closes everything again. *)
CloseLocks_Again(g) ==
  /\ pc[g] = "close"
  /\ Goto(g, "closeStream")
  /\ closed' = TRUE
  /\ stream' = FALSE
  /\ found' = [found EXCEPT ![g] = stream]
  /\ UNCHANGED <<receiving, clientUDPAddr, sockets, smux>>

(* Mutant: the field is set to nil before it is read. *)
CloseLocks_NilFirst(g) ==
  /\ pc[g] = "close"
  /\ IF closed
     THEN Goto(g, AfterClose(g)) /\ UNCHANGED <<closed, stream, found>>
     ELSE /\ Goto(g, "closeStream")
          /\ closed' = TRUE
          /\ stream' = FALSE
          /\ found' = [found EXCEPT ![g] = FALSE]
  /\ UNCHANGED <<receiving, clientUDPAddr, sockets, smux>>

CloseLocks(g) ==
  /\ pc[g] = "close"
  /\ IF closed
     THEN Goto(g, AfterClose(g)) /\ UNCHANGED <<closed, stream, found>>
     ELSE /\ Goto(g, "closeStream")
          /\ closed' = TRUE
          /\ stream' = FALSE
          /\ found' = [found EXCEPT ![g] = stream]
  /\ UNCHANGED <<receiving, clientUDPAddr, sockets, smux>>

CloseStream(g) ==
  /\ pc[g] = "closeStream"
  /\ smux' = IF found[g] /\ smux = "open" THEN "closed" ELSE smux
  /\ Goto(g, "closeUdp")
  /\ UNCHANGED <<fields, sockets, found>>

CloseUdp(g) ==
  /\ pc[g] = "closeUdp"
  /\ udpOpen' = FALSE
  /\ Goto(g, "closeTcp")
  /\ UNCHANGED <<fields, tcpOpen, smux, found>>

(* Mutant: the connection is left to the client to close. *)
CloseTcp_Not(g) ==
  /\ pc[g] = "closeTcp"
  /\ Goto(g, AfterClose(g))
  /\ UNCHANGED <<fields, sockets, smux, found>>

CloseTcp(g) ==
  /\ pc[g] = "closeTcp"
  /\ tcpOpen' = FALSE
  /\ Goto(g, AfterClose(g))
  /\ UNCHANGED <<fields, udpOpen, smux, found>>

CloseStep(g) == CloseLocks(g) \/ CloseStream(g) \/ CloseUdp(g) \/ CloseTcp(g)

-----------------------------------------------------------------------------
(* handleSOCKS5UDP.                                                        *)

(* The client closes the connection, or Close has. *)
ControlReadFails ==
  /\ pc["control"] = "reading"
  /\ Goto("control", "close")
  /\ UNCHANGED <<fields, sockets, smux, found>>

(* The deferred calls, of handleSOCKS5 too. *)
ControlReturns ==
  /\ pc["control"] = "returning"
  /\ udpOpen' = FALSE
  /\ tcpOpen' = FALSE
  /\ Goto("control", "exited")
  /\ UNCHANGED <<fields, smux, found>>

-----------------------------------------------------------------------------
(* loop and send.                                                          *)

LoopEnds ==
  /\ pc["loop"] = "reading"
  /\ ~udpOpen
  /\ Goto("loop", "exited")
  /\ UNCHANGED <<fields, sockets, smux, found>>

(* Mutant: the sender is not remembered. *)
Receive_Forgets(a) ==
  /\ pc["loop"] = "reading"
  /\ udpOpen
  /\ clientUDPAddr \in {None, a}
  /\ UNCHANGED pc \/ Goto("loop", "send")
  /\ UNCHANGED <<fields, sockets, smux, found>>

(* The first sender is the client; others are not heard.  Datagrams that   *)
(* are malformed or filtered only make their sender the client.            *)
Receive(a) ==
  /\ pc["loop"] = "reading"
  /\ udpOpen
  /\ clientUDPAddr \in {None, a}
  /\ clientUDPAddr' = a
  /\ UNCHANGED pc \/ Goto("loop", "send")
  /\ UNCHANGED <<closed, receiving, stream, sockets, smux, found>>

(* The section of send under the mutex. *)
SendLocks ==
  /\ pc["loop"] = "send"
  /\ IF closed
     THEN Goto("loop", "reading") /\ UNCHANGED receiving
     ELSE /\ Goto("loop", IF receiving THEN "write" ELSE "open")
          /\ receiving' = TRUE
  /\ UNCHANGED <<closed, stream, clientUDPAddr, sockets, smux, found>>

OpenFails ==
  /\ pc["loop"] = "open"
  /\ Goto("loop", "close")
  /\ UNCHANGED <<fields, sockets, smux, found>>

OpenSucceeds ==
  /\ pc["loop"] = "open"
  /\ smux' = "open"
  /\ Goto("loop", "store")
  /\ UNCHANGED <<fields, sockets, found>>

(* Under the mutex again, without a look at closed. *)
StoreStream ==
  /\ pc["loop"] = "store"
  /\ stream' = TRUE
  /\ Goto("loop", "spawn")
  /\ UNCHANGED <<closed, receiving, clientUDPAddr, sockets, smux, found>>

(* Mutant: the reader is left for the next datagram to start. *)
SpawnReplies_Not ==
  /\ pc["loop"] = "spawn"
  /\ Goto("loop", "write")
  /\ UNCHANGED <<fields, sockets, smux, found>>

SpawnReplies ==
  /\ pc["loop"] = "spawn"
  /\ pc' = [pc EXCEPT !["loop"] = "write", !["replies"] = "reading"]
  /\ UNCHANGED <<fields, sockets, smux, found>>

(* writeChunk fails on a stream that is over. *)
WriteChunk ==
  /\ pc["loop"] = "write"
  /\ Goto("loop", IF smux = "open" THEN "reading" ELSE "close")
  /\ UNCHANGED <<fields, sockets, smux, found>>

-----------------------------------------------------------------------------
(* The reader of the stream; the other end of it.                          *)

(* Mutant: the reader ends and leaves the association open. *)
ReplyFails_NoClose ==
  /\ pc["replies"] = "reading"
  /\ smux # "open"
  /\ Goto("replies", "exited")
  /\ UNCHANGED <<fields, sockets, smux, found>>

ReplyFails ==
  /\ pc["replies"] = "reading"
  /\ smux # "open"
  /\ Goto("replies", "close")
  /\ UNCHANGED <<fields, sockets, smux, found>>

(* The server ends the stream, or its channel dies. *)
StreamEnds ==
  /\ smux = "open"
  /\ smux' = "ended"
  /\ UNCHANGED <<fields, sockets, pc, found>>

-----------------------------------------------------------------------------

Init ==
  /\ closed = FALSE
  /\ receiving = FALSE
  /\ stream = FALSE
  /\ clientUDPAddr = None
  /\ udpOpen = TRUE
  /\ tcpOpen = TRUE
  /\ smux = "none"
  /\ pc = [g \in Goroutines |-> IF g = "replies" THEN "none" ELSE "reading"]
  /\ found = [g \in Goroutines |-> FALSE]

SendStep ==
  SendLocks \/ OpenFails \/ OpenSucceeds \/ StoreStream \/ SpawnReplies \/ WriteChunk

Next ==
  \/ \E g \in Goroutines : CloseStep(g)
  \/ ControlReadFails
  \/ ControlReturns
  \/ LoopEnds
  \/ \E a \in Peers : Receive(a)
  \/ SendStep
  \/ ReplyFails
  \/ StreamEnds

Spec == Init /\ [][Next]_vars

(* Goroutines run.  A read fails in the end once its socket has been       *)
(* closed; neither the client nor the server owes anything.                *)
Fairness ==
  /\ \A g \in Goroutines : WF_vars(CloseStep(g))
  /\ WF_vars(~tcpOpen /\ ControlReadFails)
  /\ WF_vars(ControlReturns)
  /\ WF_vars(LoopEnds)
  /\ WF_vars(SendStep)
  /\ WF_vars(ReplyFails)

FairSpec == Spec /\ Fairness

-----------------------------------------------------------------------------

(* Types; and replies always have a client to go to.                       *)
TypeOK ==
  /\ closed \in BOOLEAN
  /\ receiving \in BOOLEAN
  /\ stream \in BOOLEAN
  /\ clientUDPAddr \in Peers \cup {None}
  /\ udpOpen \in BOOLEAN
  /\ tcpOpen \in BOOLEAN
  /\ smux \in {"none", "open", "closed", "ended"}
  /\ pc["control"] \in {"reading", "returning", "exited"} \cup InClose
  /\ pc["loop"] \in {"reading", "send", "open", "store", "spawn", "write", "exited"}
                    \cup InClose
  /\ pc["replies"] \in {"none", "reading", "exited"} \cup InClose
  /\ pc \in [Goroutines -> {"none", "reading", "returning", "send", "open", "store",
                            "spawn", "write", "exited"} \cup InClose]
  /\ found \in [Goroutines -> BOOLEAN]
  /\ receiving => clientUDPAddr # None

(* An open stream is never out of every goroutine's sight: the loop is     *)
(* about to hand it to its reader, or the reader waits on it.  So a Close  *)
(* by the server always finds somebody to take the association down.       *)
StreamHasReader ==
  smux = "open" => pc["replies"] = "reading" \/ pc["loop"] \in {"store", "spawn"}

(* However many goroutines fail together, one at a time is past the test   *)
(* of closed in Close; and nothing is closed before that test.  (Not       *)
(* closed once: the deferred closes of handleUDPAssociate and handleSOCKS5 *)
(* close both sockets again after it, which does nothing more.)            *)
Closing == InClose \ {"close"}

OneCloser ==
  /\ \A g, h \in Goroutines : pc[g] \in Closing /\ pc[h] \in Closing => g = h
  /\ ~closed => udpOpen /\ tcpOpen /\ smux # "closed"

(* What makes them inductive. *)
ClosedIfClosing ==
  /\ \A g \in Goroutines : pc[g] \in Closing => closed
  /\ pc["control"] \in {"returning", "exited"} => closed

(* The loop opens one stream at most, for a known client and before there  *)
(* is a reader.                                                            *)
OpensOnce ==
  /\ pc["loop"] = "send" => clientUDPAddr # None
  /\ pc["loop"] \in {"open", "store", "spawn"} => receiving /\ pc["replies"] = "none"
  /\ pc["loop"] = "open" => smux = "none"
  /\ ~receiving => smux = "none" /\ pc["replies"] = "none"

UInv == TypeOK /\ StreamHasReader /\ OneCloser /\ ClosedIfClosing /\ OpensOnce

(* Once Close has been called, whoever calls it, the goroutines of the     *)
(* client's side end and the two sockets are closed.                       *)
AssociationEnds ==
  closed ~> [](/\ pc["control"] = "exited" /\ pc["loop"] = "exited"
               /\ ~udpOpen /\ ~tcpOpen)

(* Close closes the stream and so ends its reader, unless the loop was     *)
(* opening it: send stores a stream that Close no longer sees.             *)
StreamReleased ==
  closed ~> smux # "open" \/ stream

(* When the server ends the stream the association is closed, so that the  *)
(* client learns of it from its TCP connection.                            *)
StreamEndCloses == smux = "ended" ~> closed
=============================================================================
