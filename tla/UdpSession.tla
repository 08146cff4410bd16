------------------------------ MODULE UdpSession ------------------------------
(***************************************************************************)
(* One UDP session of hev-socks5-tunnel, hev-socks5-session-udp.c, and the *)
(* mapped DNS it shares with the device's queries and other sessions.      *)
(*                                                                         *)
(* lwIP hands the datagrams of one socket of the device, whatever they are *)
(* addressed to, to udp_recv_handler, which looks the address up and       *)
(* queues a frame.  The session's task sends frames to the SOCKS5 server   *)
(* with sendmmsg and passes the datagrams of the server on to lwIP.  The   *)
(* server is told of the session by a TCP connection, the control          *)
(* connection, and ends it by closing that (udp-in-udp, the mode of the    *)
(* app).  Tasks are cooperative: only where the task yields, sendmmsg      *)
(* without room included, do callbacks of lwIP and queries run.            *)
(***************************************************************************)
EXTENDS MappedDns

CONSTANTS
  Prefixes,    \* the values of ip & mask
  Net,         \* that of a mapped address
  IPs,         \* bound: addresses the device sends to, by ip & mask and ip & ~mask
  Pool,        \* UDP_POOL_SIZE
  Num,         \* udp-copy-buffer-nums: datagrams in one system call
  MaxInbox     \* bound: datagrams of the server that are to be read

ASSUME UdpAssumption ==
  /\ Net \in Prefixes
  /\ IPs \subseteq [prefix : Prefixes, host : 0 .. Hosts - 1]
  /\ IPs \cap Names = {}
  /\ Pool \in Nat /\ Num \in Nat \ {0}
  /\ MaxInbox \in Nat

VARIABLES
  at,        \* where the task is
  event,     \* epoll has an event of a socket for the task
  expired,   \* its timeout is 0
  res_f, res_b,
  frames,    \* frame_list, the destinations
  batch,     \* how many frames sendmmsg has been given
  flight,    \* how many of them it has sent
  full,      \* the socket has refused a datagram and has no room yet
  sticky,    \* self->addr is set: replies come from a mapped address
  control,   \* the control connection is open
  inbox,     \* datagrams of the server: whether the header has an IP address
  due        \* history: what queued datagrams are meant for, until they are sent

dnsVars == <<list, records, idx, use, since>>
taskVars == <<at, event, expired, res_f, res_b>>
upVars == <<frames, batch, flight, full, sticky, due>>
downVars == <<control, inbox>>
allVars == <<dnsVars, taskVars, upVars, downVars>>

Lesser(m, n) == IF m <= n THEN m ELSE n

Destinations == Names \cup IPs

(* Between two yields: no callback of lwIP can run. *)
Running == at \in {"b", "leaving"}

Woken(stage) == CASE stage = "wait" -> "yield" [] stage = "sendWait" -> "send"
                  [] OTHER -> stage

(***************************************************************************)
(* udp_recv_handler.                                                       *)
(***************************************************************************)

(* hev_socks5_addr_from_lwip: the name in the record of ip & ~mask.        *)
(* Neither it nor hev_mapped_dns_lookup compares ip & mask with the        *)
(* network.  An IPv6 address is not looked up, like one beyond the records. *)
Resolves(ip) == ip.host < Max /\ records[ip.host] # NoName

Resolved(ip) == IF Resolves(ip) THEN records[ip.host] ELSE ip

ResolveAddress(ip) ==
  IF Resolves(ip)
  THEN Lookup(ip.host) /\ sticky' = TRUE
  ELSE UNCHANGED <<dnsVars, sticky>>

(* What the device means by an address: one of the mapped network is the   *)
(* name whose node has it, if any has, and any other is itself.            *)
Meant(ip) ==
  IF ip.prefix = Net /\ \E n \in Names : idx[n] = ip.host
  THEN CHOOSE n \in Names : idx[n] = ip.host
  ELSE ip

(* Mutant: the task is not woken. *)
Datagram_NoWakeup(ip) ==
  /\ ~Running /\ at # "ended"
  /\ Len(frames) <= Pool
  /\ frames' = Append(frames, Resolved(ip))
  /\ due' = Append(due, Meant(ip))
  /\ ResolveAddress(ip)
  /\ UNCHANGED <<taskVars, batch, flight, full, downVars>>

(* One that finds more than Pool frames is dropped. *)
Datagram(ip) ==
  /\ ~Running /\ at # "ended"
  /\ Len(frames) <= Pool
  /\ frames' = Append(frames, Resolved(ip))
  /\ due' = Append(due, Meant(ip))
  /\ ResolveAddress(ip)
  /\ at' = Woken(at)
  /\ UNCHANGED <<event, expired, res_f, res_b, batch, flight, full, downVars>>

(***************************************************************************)
(* The task: hev_socks5_session_udp_splice.                                *)
(***************************************************************************)
Connected ==
  /\ at = "connecting"
  /\ at' = "yield"
  /\ expired' = FALSE
  /\ UNCHANGED <<dnsVars, event, res_f, res_b, upVars, downVars>>

ConnectFails ==
  /\ at = "connecting"
  /\ at' = "leaving"
  /\ UNCHANGED <<dnsVars, event, expired, res_f, res_b, upVars, downVars>>

(* fwd_f has nothing to send, or has failed before. *)
NothingToSend ==
  /\ at = "yield"
  /\ res_f < 0 \/ frames = << >>
  /\ res_f' = Lesser(res_f, 0)
  /\ at' = "b"
  /\ UNCHANGED <<dnsVars, event, expired, res_b, upVars, downVars>>

(* Mutant: all that has been taken is freed, sent or not. *)
FreeSent_All(n) ==
  /\ frames' = IF n = 0 THEN frames ELSE SubSeq(frames, batch + 1, Len(frames))
  /\ res_f' = IF n = 0 THEN -1 ELSE 1
  /\ flight' = 0 /\ batch' = 0
  /\ at' = "b"

(* sendmmsg has returned n, or an error for 0. *)
FreeSent(n) ==
  /\ frames' = SubSeq(frames, n + 1, Len(frames))
  /\ res_f' = IF n = 0 THEN -1 ELSE 1
  /\ flight' = 0 /\ batch' = 0
  /\ at' = "b"

(* hev_socks5_session_udp_fwd_f: sendmmsg of the first frames, or of what  *)
(* is left of them after a wait.  The socket takes n, and then all are     *)
(* sent, the next one is refused, or there is no room: task_io_yielder     *)
(* looks at the control connection and waits.                              *)
SendFrames(n) ==
  LET taken == IF at = "yield" THEN Lesser(Len(frames), Num) ELSE batch
  IN  /\ at = "send" \/ (at = "yield" /\ res_f >= 0 /\ frames # << >>)
      /\ flight + n <= taken
      /\ full => n = 0
      /\ due' = SubSeq(due, n + 1, Len(due))
      /\ \/ /\ flight + n < taken => ~full
            /\ FreeSent(flight + n)
            /\ UNCHANGED <<full, expired>>
         \/ /\ flight + n < taken
            /\ full' = TRUE
            /\ IF control
               THEN /\ flight' = flight + n /\ batch' = taken
                    /\ at' = IF expired THEN "sendOver" ELSE "sendWait"
                    /\ res_f' = 0    \* no result yet
                    /\ UNCHANGED <<frames, expired>>
               ELSE FreeSent(flight + n) /\ expired' = TRUE
      /\ UNCHANGED <<dnsVars, event, res_b, sticky, downVars>>

(* The time of the wait in sendmmsg is over. *)
SendTimesOut ==
  /\ at \in {"sendWait", "sendOver"}
  /\ FreeSent(flight)
  /\ UNCHANGED <<dnsVars, event, expired, res_b, full, sticky, due, downVars>>

(* hev_socks5_session_udp_fwd_b: of the datagrams recvmmsg returns the     *)
(* first n get to lwIP, and the next, if any, cannot.  Without a mapped    *)
(* address to come from, a datagram needs one of its own.                  *)
PassReplies(n) ==
  LET got == Lesser(Len(inbox), Num)
  IN  /\ res_b >= 0 /\ inbox # << >> /\ n <= got
      /\ ~sticky => \A i \in 1 .. n : inbox[i]
      /\ inbox' = SubSeq(inbox, got + 1, Len(inbox))
      /\ res_b' = IF n = got THEN 1 ELSE -1

NoReply ==
  /\ res_b < 0 \/ inbox = << >>
  /\ res_b' = Lesser(res_b, 0)
  /\ UNCHANGED inbox

(* The socket reports an error. *)
ReceiveFails == res_b >= 0 /\ res_b' = -1 /\ UNCHANGED inbox

(* Mutant: the control connection is not looked at. *)
AfterSlice_NoControl ==
  IF res_f > 0 \/ res_b' > 0 THEN "yield"
  ELSE IF (res_f = 0 \/ res_b' = 0) /\ ~expired THEN "wait" ELSE "leaving"

(* The end of the loop: task_io_yielder looks at the control connection    *)
(* before it yields, and only a wait looks at the timeout.                 *)
AfterSlice ==
  IF ~control THEN "leaving"
  ELSE IF res_f > 0 \/ res_b' > 0 THEN "yield"
  ELSE IF (res_f = 0 \/ res_b' = 0) /\ ~expired THEN "wait" ELSE "leaving"

SpliceB ==
  /\ at = "b"
  /\ NoReply \/ ReceiveFails \/ \E n \in 0 .. Num : PassReplies(n)
  /\ at' = AfterSlice
  /\ UNCHANGED <<dnsVars, event, expired, res_f, upVars, control>>

Timeout ==
  /\ at = "wait"
  /\ at' = "leaving"
  /\ UNCHANGED <<dnsVars, event, expired, res_f, res_b, upVars, downVars>>

(* hev_socks5_session_udp_destruct. *)
Destruct ==
  /\ at = "leaving"
  /\ at' = "ended"
  /\ frames' = << >> /\ due' = << >>
  /\ UNCHANGED <<dnsVars, event, expired, res_f, res_b, batch, flight, full, sticky, downVars>>

(* The reactor wakes the task. *)
Poll ==
  /\ event /\ ~Running
  /\ event' = FALSE
  /\ at' = Woken(at)
  /\ UNCHANGED <<dnsVars, expired, res_f, res_b, upVars, downVars>>

(* hev_socks5_session_terminate. *)
Terminate ==
  /\ ~Running /\ at # "ended"
  /\ expired' = TRUE
  /\ at' = Woken(at)
  /\ UNCHANGED <<dnsVars, event, res_f, res_b, upVars, downVars>>

(***************************************************************************)
(* The SOCKS5 server, the socket, and the others that use the mapped DNS.  *)
(***************************************************************************)
Associated == at \notin {"connecting", "ended"}

ServerReplies(hasAddress) ==
  /\ Associated /\ control /\ Len(inbox) < MaxInbox
  /\ inbox' = Append(inbox, hasAddress)
  /\ event' = TRUE
  /\ UNCHANGED <<dnsVars, at, expired, res_f, res_b, upVars, control>>

ServerCloses ==
  /\ Associated /\ control
  /\ control' = FALSE
  /\ event' = TRUE
  /\ UNCHANGED <<dnsVars, at, expired, res_f, res_b, upVars, inbox>>

SocketDrains ==
  /\ Associated /\ full
  /\ full' = FALSE
  /\ event' = TRUE
  /\ UNCHANGED <<dnsVars, at, expired, res_f, res_b, frames, batch, flight, sticky, due, downVars>>

DnsUsed == ~Running /\ at # "ended" /\ Next /\ UNCHANGED <<taskVars, upVars, downVars>>

SessionInit ==
  /\ Init
  /\ at = "connecting" /\ event = FALSE /\ expired = FALSE /\ res_f = 1 /\ res_b = 1
  /\ frames = << >> /\ batch = 0 /\ flight = 0 /\ full = FALSE /\ sticky = FALSE
  /\ control = TRUE /\ inbox = << >> /\ due = << >>

TaskStep ==
  \/ Connected \/ ConnectFails
  \/ NothingToSend \/ SpliceB \/ Destruct
  \/ \E n \in 0 .. Num : SendFrames(n)
  \/ at = "sendOver" /\ SendTimesOut

SessionNext ==
  \/ TaskStep \/ Poll
  \/ at = "sendWait" /\ SendTimesOut
  \/ Timeout \/ Terminate
  \/ \E ip \in IPs : Datagram(ip)
  \/ \E hasAddress \in BOOLEAN : ServerReplies(hasAddress)
  \/ ServerCloses \/ SocketDrains
  \/ DnsUsed

SessionSpec == SessionInit /\ [][SessionNext]_allVars

(* The scheduler runs a ready task, and the reactor passes events on.  No  *)
(* fairness of timeouts, of the server or of the device.                   *)
FairSession == SessionSpec /\ WF_allVars(TaskStep) /\ WF_allVars(Poll)

-----------------------------------------------------------------------------
(* Types; the queue has one frame more than UDP_POOL_SIZE at most. *)
SessionTypeOK ==
  /\ TypeOK
  /\ at \in {"connecting", "yield", "send", "sendWait", "sendOver", "b", "wait", "leaving", "ended"}
  /\ event \in BOOLEAN /\ expired \in BOOLEAN /\ full \in BOOLEAN /\ control \in BOOLEAN
  /\ res_f \in {-1, 0, 1} /\ res_b \in {-1, 0, 1}
  /\ frames \in Seq(Destinations) /\ Len(frames) <= Pool + 1
  /\ batch \in 0 .. Num /\ batch <= Len(frames)
  /\ flight \in 0 .. batch
  /\ sticky \in BOOLEAN
  /\ inbox \in Seq(BOOLEAN) /\ Len(inbox) <= MaxInbox
  /\ due \in Seq(Destinations)

(* An address outside the mapped network whose low bits are those of a     *)
(* record.                                                                 *)
Aliased(d) == d \in IPs /\ d.prefix # Net /\ d.host < Max

(* A frame for f serves a datagram that was meant for d. *)
Reaches(f, d) == f = d \/ (Aliased(d) /\ f \in Names)

(***************************************************************************)
(* A datagram that is not dropped on arrival goes where it was meant to go *)
(* when it came, though the address may have been given to another name    *)
(* since; in order, once, and none is lost before the session ends.  The   *)
(* handler appends to the list that fwd_f has its batch in, and sendmmsg   *)
(* may send a part of it.                                                  *)
(*                                                                         *)
(* The documents speak of a "Mapped IP network base" and "mask"            *)
(* (conf/main.yml), but hev_mapped_dns_lookup takes any address for one of *)
(* the network: a datagram to an aliased address may go to the name whose  *)
(* record it hits.  This, and nothing else, is what the property excepts.  *)
(***************************************************************************)
SendsAsMeant ==
  at # "ended" =>
    /\ Len(due) = Len(frames) - flight
    /\ \A i \in 1 .. Len(due) : Reaches(frames[flight + i], due[i])

(* No wake-up is lost: a task that waits without an event to come has no   *)
(* frame to send, no datagram to read, and a control connection.           *)
WaitsOnlyIdle ==
  /\ at = "wait" /\ ~event =>
       /\ control
       /\ res_f = 0 => frames = << >>
       /\ res_b = 0 => inbox = << >>
  /\ at = "sendWait" /\ ~event => full /\ control

(* When the server ends the association the session ends, whatever it is   *)
(* doing, and without waiting for its timeout.                             *)
ControlEndEnds == ~control ~> at = "ended"
=============================================================================
