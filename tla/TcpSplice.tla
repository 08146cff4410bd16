------------------------------- MODULE TcpSplice -------------------------------
(***************************************************************************)
(* One TCP session of hev-socks5-tunnel, hev-socks5-session-tcp.c: a task  *)
(* that copies between the lwIP connection of the device and the socket of *)
(* the SOCKS5 server.                                                      *)
(*                                                                         *)
(* Up: lwIP hands segments to tcp_recv_handler, which appends them to      *)
(* queue; tcp_splice_f writes the queue to the socket and opens the        *)
(* receive window again.  Down: tcp_splice_b reads the socket into a ring  *)
(* buffer and passes its memory to tcp_write, which keeps pointers to it:  *)
(* the memory may be used again only when tcp_sent_handler has been told   *)
(* that the device acknowledged it.                                        *)
(*                                                                         *)
(* Tasks are cooperative: callbacks of lwIP run in other tasks, when the   *)
(* session has yielded.  The server, the device and the kernel's sockets   *)
(* act at any time.  Bytes are numbered in the order they are sent.        *)
(***************************************************************************)
EXTENDS RingBuffer, SequencesExt

CONSTANTS
  Wnd,       \* TCP_WND_MAX, the receive window of lwIP
  MaxUp,     \* bound: bytes the device sends
  MaxDown,   \* bound: bytes the server sends
  Refusals   \* how tcp_write and tcp_output may fail, besides "none"

Outcomes == {"none", "output", "second", "both", "first"}

ASSUME SpliceAssumption ==
  /\ Wnd \in Nat \ {0}
  /\ MaxUp \in Nat /\ MaxDown \in Nat
  /\ Refusals \subseteq Outcomes \ {"none"}

VARIABLES
  at,        \* where the task is
  event,     \* epoll has an event of the socket for the task
  expired,   \* its timeout is 0
  res_f, res_b,
  pcb,       \* self->pcb is not NULL
  pcb_eof, queue,
  wnd,       \* pcb->rcv_wnd
  buffer,
  data,      \* the bytes in the memory of buffer
  refs,      \* what lwIP has been given to send: the address, and the byte there
  acked,     \* how many of refs the device has acknowledged
  fin,       \* tcp_shutdown: not called, or called before or after the device's FIN
  devSent, toDev, devEof,
  srvSent, taken, srvClosed, srvReset,
  toSrv, wrShut,
  full,      \* the socket has no room: writev answers EAGAIN
  broken     \* a connection failed, or the session gave up

taskVars == <<at, event, expired, res_f, res_b>>
upVars == <<pcb_eof, queue, wnd, devSent, toSrv, wrShut, full>>
downVars == <<buffer, data, refs, acked, fin, taken>>
deviceVars == <<toDev, devEof>>
serverVars == <<srvSent, srvClosed, srvReset>>
vars == <<taskVars, pcb, upVars, downVars, deviceVars, serverVars, broken>>

Upto(n) == [i \in 1 .. n |-> i]

References == [cell : Addresses, byte : 0 .. MaxDown]

Stages == {"connecting", "yield", "b", "wait", "leaving", "drain", "drained",
           "returning", "ended"}

(* Between two yields: no callback of lwIP can run. *)
Running == at \in {"b", "leaving", "returning"}

Woken(stage) == CASE stage = "wait" -> "yield" [] stage = "drain" -> "drained"
                  [] OTHER -> stage

Init ==
  /\ at = "connecting" /\ event = FALSE /\ expired = FALSE /\ res_f = 1 /\ res_b = 1
  /\ pcb = TRUE /\ pcb_eof = FALSE /\ queue = << >> /\ wnd = Wnd
  /\ buffer = EmptyRing /\ data = [a \in Addresses |-> 0]
  /\ refs = << >> /\ acked = 0 /\ fin = "no" /\ taken = 0
  /\ devSent = 0 /\ toDev = << >> /\ devEof = FALSE
  /\ srvSent = 0 /\ srvClosed = FALSE /\ srvReset = FALSE
  /\ toSrv = << >> /\ full = FALSE /\ wrShut = FALSE
  /\ broken = FALSE

(***************************************************************************)
(* The session's task.                                                     *)
(***************************************************************************)

(* Connected and past the handshake, which set the timeout of their own. *)
Connected ==
  /\ at = "connecting"
  /\ at' = IF pcb THEN "yield" ELSE "returning"
  /\ expired' = FALSE
  /\ UNCHANGED <<event, res_f, res_b, pcb, upVars, downVars, deviceVars, serverVars, broken>>

ConnectFails ==
  /\ at = "connecting"
  /\ at' = "returning"
  /\ broken' = TRUE
  /\ UNCHANGED <<event, expired, res_f, res_b, pcb, upVars, downVars, deviceVars, serverVars>>

(* Mutant: the window is opened by what was queued. *)
WriteQueue_ReopensAll(n) ==
  /\ queue # << >> /\ ~srvReset
  /\ ~full /\ n <= Len(queue)
  /\ toSrv' = toSrv \o SubSeq(queue, 1, n)
  /\ queue' = SubSeq(queue, n + 1, Len(queue))
  /\ wnd' = IF pcb THEN wnd + Len(queue) ELSE wnd
  /\ full' \in BOOLEAN /\ (n < Len(queue) => full')
  /\ res_f' = 1
  /\ UNCHANGED wrShut

(* tcp_splice_f: what writev takes of the queue is room in the window. *)
WriteQueue(n) ==
  /\ queue # << >> /\ ~srvReset
  /\ ~full /\ n <= Len(queue)
  /\ toSrv' = toSrv \o SubSeq(queue, 1, n)
  /\ queue' = SubSeq(queue, n + 1, Len(queue))
  /\ wnd' = IF pcb THEN wnd + n ELSE wnd
  /\ full' \in BOOLEAN /\ (n < Len(queue) => full')
  /\ res_f' = 1
  /\ UNCHANGED wrShut

WriteBlocked ==
  /\ queue # << >> /\ ~srvReset
  /\ full
  /\ res_f' = 0
  /\ UNCHANGED <<queue, wnd, toSrv, wrShut, full>>

WriteFails ==
  /\ queue # << >> /\ srvReset
  /\ res_f' = -1
  /\ UNCHANGED <<queue, wnd, toSrv, wrShut, full>>

NothingQueued ==
  /\ queue = << >>
  /\ res_f' = IF pcb_eof THEN -1 ELSE 0
  /\ wrShut' = (wrShut \/ pcb_eof)
  /\ UNCHANGED <<queue, wnd, toSrv, full>>

SkipF ==
  /\ res_f < 0
  /\ UNCHANGED <<res_f, queue, wnd, toSrv, wrShut, full>>

SpliceF ==
  /\ at = "yield"
  /\ \/ SkipF
     \/ /\ res_f >= 0
        /\ \/ \E n \in 1 .. Wnd : WriteQueue(n)
           \/ WriteBlocked \/ WriteFails \/ NothingQueued
  /\ at' = "b"
  /\ UNCHANGED <<event, expired, res_b, pcb, pcb_eof, devSent, downVars, deviceVars, serverVars, broken>>

(***************************************************************************)
(* tcp_splice_b: readv into the free memory of the buffer returns n bytes, *)
(* or sets res to r.                                                       *)
(***************************************************************************)
ReadSocket(n, r) ==
  \/ IovSize(writing(buffer)) = 0 /\ n = 0 /\ r = 1
  \/ /\ IovSize(writing(buffer)) > 0
     /\ \/ ~srvReset /\ n \in 1 .. Lesser(srvSent - taken, IovSize(writing(buffer))) /\ r = 1
        \/ ~srvReset /\ srvSent = taken /\ n = 0 /\ r = IF srvClosed THEN -1 ELSE 0
        \/ srvReset /\ n = 0 /\ r = -1

(* The memory when the next n bytes have been read into it. *)
Filled(n) ==
  LET cells == IovCells(writing(buffer))
  IN  [a \in Addresses |->
         IF \E i \in 1 .. n : cells[i] = a
         THEN taken + CHOOSE i \in 1 .. n : cells[i] = a
         ELSE data[a]]

(* What of the chunks lwIP keeps, with the bytes that are there. *)
Accepted(o, chunks) ==
  CASE o \in {"none", "output"} -> IovCells(chunks)
    [] o = "second" -> PieceCells(chunks[1])
    [] o = "first" -> PieceCells(chunks[2])
    [] OTHER -> << >>

Enqueued(o, chunks, mem) ==
  [k \in 1 .. Len(Accepted(o, chunks)) |->
     [cell |-> Accepted(o, chunks)[k], byte |-> mem[Accepted(o, chunks)[k]]]]

(* Both chunks are given up as read, whether lwIP took them or not. *)
PassData(b, mem) ==
  /\ pcb /\ IovSize(reading(b)) > 0
  /\ \E o \in {"none"} \cup Refusals :
       /\ o \in {"first", "second"} => reading(b)[2].len > 0
       /\ refs' = refs \o Enqueued(o, reading(b), mem)
       /\ res_b' = IF o = "none" THEN 1 ELSE -1
       /\ broken' = (broken \/ o # "none")
  /\ buffer' = read_finish(b, IovSize(reading(b)))
  /\ UNCHANGED fin

PassEof(b, r) ==
  /\ pcb /\ IovSize(reading(b)) = 0
  /\ res_b' = r
  /\ fin' = IF r < 0 THEN IF pcb_eof THEN "passive" ELSE "active" ELSE fin
  /\ buffer' = b
  /\ UNCHANGED <<refs, broken>>

NoPcb(b) ==
  /\ ~pcb
  /\ res_b' = -1
  /\ buffer' = b
  /\ UNCHANGED <<refs, broken, fin>>

SkipB ==
  /\ res_b < 0
  /\ UNCHANGED <<res_b, buffer, data, refs, taken, fin, broken>>

(* Mutant: the loop ends with the first direction that does. *)
AfterSlice_Either ==
  IF res_f < 0 \/ res_b' < 0 THEN "leaving"
  ELSE IF res_f > 0 \/ res_b' > 0 THEN "yield"
  ELSE IF ~expired THEN "wait" ELSE "leaving"

(* Where the loop of hev_socks5_session_tcp_splice goes after the two. *)
AfterSlice ==
  IF res_f > 0 \/ res_b' > 0 THEN "yield"
  ELSE IF (res_f = 0 \/ res_b' = 0) /\ ~expired THEN "wait" ELSE "leaving"

SpliceB ==
  /\ at = "b"
  /\ \/ SkipB
     \/ /\ res_b >= 0
        /\ \E n \in 0 .. max_size, r \in {-1, 0, 1} :
             /\ ReadSocket(n, r)
             /\ data' = Filled(n)
             /\ taken' = taken + n
             /\ LET b == write_finish(buffer, n)
                IN  PassData(b, Filled(n)) \/ PassEof(b, r) \/ NoPcb(b)
  /\ at' = AfterSlice
  /\ UNCHANGED <<event, expired, res_f, pcb, upVars, acked, deviceVars, serverVars>>

(* What lwIP has taken is in the buffer, which is the task's stack: *)
(* wait until it has been acknowledged.                             *)
Leave ==
  /\ at \in {"leaving", "drained"}
  /\ at' = IF pcb /\ buffer.use_size # 0 /\ ~expired THEN "drain" ELSE "returning"
  /\ UNCHANGED <<event, expired, res_f, res_b, pcb, upVars, downVars, deviceVars, serverVars, broken>>

Timeout ==
  /\ at \in {"wait", "drain"}
  /\ at' = IF at = "wait" THEN "leaving" ELSE "returning"
  /\ broken' = TRUE
  /\ UNCHANGED <<event, expired, res_f, res_b, pcb, upVars, downVars, deviceVars, serverVars>>

(* hev_socks5_session_tcp_destruct: an open pcb is aborted. *)
Destruct ==
  /\ at = "returning"
  /\ at' = "ended"
  /\ pcb' = FALSE /\ queue' = << >>
  /\ UNCHANGED <<event, expired, res_f, res_b, pcb_eof, wnd, devSent, toSrv, wrShut, full, downVars, deviceVars, serverVars, broken>>

(* The reactor wakes the task. *)
Poll ==
  /\ event /\ ~Running
  /\ event' = FALSE
  /\ at' = Woken(at)
  /\ UNCHANGED <<expired, res_f, res_b, pcb, upVars, downVars, deviceVars, serverVars, broken>>

(* hev_socks5_session_terminate: the limit on sessions, or the tunnel stops. *)
Terminate ==
  /\ ~Running /\ at # "ended"
  /\ expired' = TRUE /\ broken' = TRUE
  /\ at' = Woken(at)
  /\ UNCHANGED <<event, res_f, res_b, pcb, upVars, downVars, deviceVars, serverVars>>

(***************************************************************************)
(* Callbacks of lwIP.                                                      *)
(***************************************************************************)

(* Mutant: the task is not woken. *)
Receive_NoWakeup ==
  /\ pcb /\ ~Running /\ ~pcb_eof
  /\ devSent < MaxUp /\ wnd > 0
  /\ devSent' = devSent + 1
  /\ queue' = Append(queue, devSent')
  /\ wnd' = wnd - 1
  /\ UNCHANGED <<at, event, expired, res_f, res_b, pcb, pcb_eof, toSrv, wrShut, full, downVars, deviceVars, serverVars, broken>>

(* tcp_recv_handler: the device's next byte is inside the window.  The *)
(* session does not refuse it.                                         *)
Receive ==
  /\ pcb /\ ~Running /\ ~pcb_eof
  /\ devSent < MaxUp /\ wnd > 0
  /\ queue = << >> \/ Len(queue) <= Wnd
  /\ devSent' = devSent + 1
  /\ queue' = Append(queue, devSent')
  /\ wnd' = wnd - 1
  /\ at' = Woken(at)
  /\ UNCHANGED <<event, expired, res_f, res_b, pcb, pcb_eof, toSrv, wrShut, full, downVars, deviceVars, serverVars, broken>>

ReceiveEof ==
  /\ pcb /\ ~Running /\ ~pcb_eof
  /\ pcb_eof' = TRUE
  /\ at' = Woken(at)
  /\ UNCHANGED <<event, expired, res_f, res_b, pcb, queue, wnd, devSent, toSrv, wrShut, full, downVars, deviceVars, serverVars, broken>>

(* tcp_sent_handler: the device acknowledges n bytes. *)
Sent(n) ==
  /\ pcb /\ ~Running
  /\ acked + n <= Len(toDev)
  /\ acked' = acked + n
  /\ buffer' = read_release(buffer, n)
  /\ at' = Woken(at)
  /\ UNCHANGED <<event, expired, res_f, res_b, pcb, upVars, data, refs, fin, taken, deviceVars, serverVars, broken>>

(* tcp_err_handler. *)
PcbGone ==
  /\ pcb' = FALSE /\ expired' = TRUE
  /\ at' = Woken(at)
  /\ UNCHANGED <<event, res_f, res_b, upVars, downVars, deviceVars, serverVars>>

(* The connection was reset, or lwIP gave it up. *)
Aborted == pcb /\ ~Running /\ PcbGone /\ broken' = TRUE

(* Its last acknowledgement after both sides have closed, the device first: *)
(* lwIP reports ERR_CLSD, whatever is left of queue.  (With the device last *)
(* the pcb goes to TIME_WAIT, which tcp_slowtmr ends after two minutes      *)
(* without a callback: the session of a server that stays blocked for so    *)
(* long keeps a pointer to freed memory.  Here that pcb stays.)             *)
Closed == pcb /\ ~Running /\ fin = "passive" /\ devEof /\ PcbGone /\ UNCHANGED broken

(***************************************************************************)
(* The device and the server.  A segment carries what is in the memory it  *)
(* refers to when it is sent, or sent again.                               *)
(***************************************************************************)
Transmit ==
  /\ pcb /\ Len(toDev) < Len(refs)
  /\ toDev' = Append(toDev, data[refs[Len(toDev) + 1].cell])
  /\ UNCHANGED <<taskVars, pcb, upVars, downVars, devEof, serverVars, broken>>

TransmitFin ==
  /\ pcb /\ fin # "no" /\ Len(toDev) = Len(refs)
  /\ devEof' = TRUE
  /\ UNCHANGED <<taskVars, pcb, upVars, downVars, toDev, serverVars, broken>>

Connection == at \notin {"connecting", "ended"}

ServerSends ==
  /\ Connection /\ ~srvClosed /\ ~srvReset /\ srvSent < MaxDown
  /\ srvSent' = srvSent + 1
  /\ event' = TRUE
  /\ UNCHANGED <<at, expired, res_f, res_b, pcb, upVars, downVars, deviceVars, srvClosed, srvReset, broken>>

ServerCloses ==
  /\ Connection /\ ~srvClosed /\ ~srvReset
  /\ srvClosed' = TRUE
  /\ event' = TRUE
  /\ UNCHANGED <<at, expired, res_f, res_b, pcb, upVars, downVars, deviceVars, srvSent, srvReset, broken>>

ServerResets ==
  /\ Connection /\ ~srvReset
  /\ srvReset' = TRUE /\ broken' = TRUE
  /\ event' = TRUE
  /\ UNCHANGED <<at, expired, res_f, res_b, pcb, upVars, downVars, deviceVars, srvSent, srvClosed>>

(* The socket tells of room when it had none. *)
ServerReads ==
  /\ Connection /\ ~srvReset /\ full
  /\ full' = FALSE
  /\ event' = TRUE
  /\ UNCHANGED <<at, expired, res_f, res_b, pcb, pcb_eof, queue, wnd, devSent, toSrv, wrShut, downVars, deviceVars, serverVars, broken>>

SessionStep ==
  \/ Connected \/ SpliceF \/ SpliceB \/ Leave \/ Destruct
  \/ ConnectFails \/ Timeout \/ Poll \/ Terminate

LwipStep ==
  \/ Receive \/ ReceiveEof \/ Aborted \/ Closed
  \/ \E n \in 1 .. max_size : Sent(n)

PeerStep ==
  \/ Transmit \/ TransmitFin
  \/ ServerSends \/ ServerCloses \/ ServerResets \/ ServerReads

Next == SessionStep \/ LwipStep \/ PeerStep

Spec == Init /\ [][Next]_vars

-----------------------------------------------------------------------------
(* Types; the ring buffer's counters stay in range. *)
TypeOK ==
  /\ at \in Stages
  /\ event \in BOOLEAN /\ expired \in BOOLEAN /\ broken \in BOOLEAN
  /\ pcb \in BOOLEAN /\ pcb_eof \in BOOLEAN /\ devEof \in BOOLEAN
  /\ srvClosed \in BOOLEAN /\ srvReset \in BOOLEAN
  /\ wrShut \in BOOLEAN /\ full \in BOOLEAN
  /\ res_f \in {-1, 0, 1} /\ res_b \in {-1, 0, 1}
  /\ queue \in Seq(1 .. MaxUp) /\ toSrv \in Seq(1 .. MaxUp)
  /\ wnd \in 0 .. Wnd
  /\ buffer \in RingBuffers
  /\ data \in [Addresses -> 0 .. MaxDown]
  /\ refs \in Seq(References)
  /\ toDev \in Seq(0 .. MaxDown) /\ Len(toDev) <= Len(refs)
  /\ acked \in 0 .. Len(toDev)
  /\ fin \in {"no", "active", "passive"}
  /\ devSent \in 0 .. MaxUp
  /\ srvSent \in 0 .. MaxDown /\ taken \in 0 .. srvSent

(* Memory that lwIP refers to is not written before the device has         *)
(* acknowledged it, so that a segment that is sent again is the same: the  *)
(* contract of tcp_write without TCP_WRITE_FLAG_COPY.                      *)
UnackedIntact ==
  pcb => \A k \in acked + 1 .. Len(refs) : data[refs[k].cell] = refs[k].byte

(* The window is opened again by what leaves the queue, no more and no     *)
(* less: the queue never exceeds the window (its tot_len has 16 bits, and  *)
(* tcp_recv_handler refuses nothing), and no part of the window is lost.   *)
WindowCoversQueue == pcb => wnd + Len(queue) = Wnd

(***************************************************************************)
(* No wake-up is lost: a task that waits without an event to come has      *)
(* nothing to do.  Callbacks that come between two yields would be missed, *)
(* and epoll, edge triggered, tells of a change once.                      *)
(***************************************************************************)
IdleUp == IF queue = << >> THEN ~pcb_eof ELSE full /\ ~srvReset

IdleDown == pcb /\ taken = srvSent /\ ~srvClosed /\ ~srvReset

WaitsOnlyIdle ==
  /\ at \in {"wait", "drain"} => ~expired
  /\ at = "wait" /\ ~event => (res_f = 0 => IdleUp) /\ (res_b = 0 => IdleDown)
  /\ at = "drain" => pcb /\ buffer.use_size > 0

(***************************************************************************)
(* The session is a byte relay.  The end of the upload may be lost if the  *)
(* device closes first and has the end of the download: see Closed.        *)
(***************************************************************************)
Pair(up, down) == [d \in {"up", "down"} |-> IF d = "up" THEN up ELSE down]

Relay == INSTANCE ByteRelay WITH
  Directions <- {"up", "down"},
  Assured <- {"down"},
  sent <- Pair(Upto(devSent), Upto(srvSent)),
  closed <- Pair(pcb_eof, srvClosed),
  got <- Pair(toSrv, toDev),
  eof <- Pair(wrShut, devEof),
  over <- at = "ended"

(* Refinement of ByteRelay: what tcp_splice_f and tcp_splice_b promise. *)
KeepsStreams == Relay!Spec

=============================================================================
