------------------------------ MODULE SocksCore ------------------------------
(***************************************************************************)
(* The life cycle of the SOCKS5 core of xtunnel.go: StartSocksProxy and    *)
(* StopSocksProxy, called by any thread of the host process, and the       *)
(* goroutines of the accepted SOCKS5 connections, which read the global    *)
(* echPool without taking serviceMu.                                       *)
(*                                                                         *)
(* The n-th pool NewECHPool makes is the number n, and the listener the    *)
(* same StartSocksProxy opens has that number too; 0 stands for nil.  What *)
(* a pool does inside is the subject of EchPool.                           *)
(***************************************************************************)
EXTENDS Integers, FiniteSets

CONSTANTS
  Callers,   \* threads that call StartSocksProxy and StopSocksProxy
  Profiles,  \* the nodes: server address, token, DNS, ECH domain, IP strategy
  Valid,     \* those whose address passes the checks of StartSocksProxy
  Conns,     \* goroutines that serve a SOCKS5 connection
  MaxPools,  \* bound: pools made
  None       \* no caller, no profile

ASSUME CoreAssumption ==
  /\ Valid \subseteq Profiles
  /\ None \notin Callers \cup Profiles
  /\ MaxPools \in Nat \ {0}

VARIABLES
  serviceMu,     \* the caller that holds the mutex
  proxyListener, \* the global listener
  echPool,       \* the global pool
  config,        \* whose token, dnsServer, ... the globals hold
  pools,         \* how many pools have been made
  profileOf,     \* the node a pool was made for
  live,          \* the pools Close has not been called on
  sockets,       \* the listening sockets that are open
  call,          \* the progress of each caller
  conn,          \* the progress of each SOCKS5 connection
  panicked       \* a goroutine has dereferenced nil

coreVars == <<serviceMu, proxyListener, echPool, config, pools, profileOf,
              live, sockets, call, conn, panicked>>

PoolIds == 1 .. MaxPools

\* A caller: its operation's next step, the node it starts, and the pool
\* and listener it has made or is about to close.
Returned == {"idle", "started", "refused", "failed", "stopped"}
Locked == {"resolving", "listening", "closingListener", "closingPool"}
NotCalling == [at |-> "idle", profile |-> None, pool |-> 0, listener |-> 0]

\* A connection: in the SOCKS5 handshake, an association that has relayed
\* nothing yet, or relaying through a pool.
Unused == [st |-> "unused", pool |-> 0]

CoreInit ==
  /\ serviceMu = None
  /\ proxyListener = 0
  /\ echPool = 0
  /\ config = None
  /\ pools = 0
  /\ profileOf = [n \in PoolIds |-> None]
  /\ live = {}
  /\ sockets = {}
  /\ call = [c \in Callers |-> NotCalling]
  /\ conn = [h \in Conns |-> Unused]
  /\ panicked = FALSE

Goto(c, step) == call' = [call EXCEPT ![c].at = step]

-----------------------------------------------------------------------------
(* StartSocksProxy.                                                        *)

CallStart(c, p) ==
  /\ call[c].at \in Returned
  /\ pools < MaxPools
  /\ call' = [call EXCEPT ![c] =
                [at |-> IF p \in Valid THEN "start" ELSE "failed", profile |-> p,
                 pool |-> 0, listener |-> 0]]
  /\ UNCHANGED <<serviceMu, proxyListener, echPool, config, pools, profileOf,
                 live, sockets, conn, panicked>>

(* The mutex; refused if a listener or a pool is there; the globals. *)
StartLocks(c) ==
  /\ call[c].at = "start"
  /\ serviceMu = None
  /\ IF proxyListener # 0 \/ echPool # 0
     THEN Goto(c, "refused") /\ UNCHANGED <<serviceMu, config>>
     ELSE /\ Goto(c, "resolving")
          /\ serviceMu' = c
          /\ config' = call[c].profile
  /\ UNCHANGED <<proxyListener, echPool, pools, profileOf, live, sockets, conn,
                 panicked>>

(* The ECH list has come, 15 seconds have passed, or none is needed: the   *)
(* pool is made, published and started.                                    *)
EchSettled(c) ==
  /\ call[c].at = "resolving"
  /\ pools < MaxPools
  /\ LET n == pools + 1
     IN /\ pools' = n
        /\ profileOf' = [profileOf EXCEPT ![n] = call[c].profile]
        /\ live' = live \cup {n}
        /\ echPool' = n
        /\ call' = [call EXCEPT ![c] = [@ EXCEPT !.at = "listening", !.pool = n]]
  /\ UNCHANGED <<serviceMu, proxyListener, config, sockets, conn, panicked>>

(* One address can be listened on once. *)
ListenSucceeds(c) ==
  /\ call[c].at = "listening"
  /\ sockets = {}
  /\ sockets' = {call[c].pool}
  /\ proxyListener' = call[c].pool
  /\ serviceMu' = None
  /\ Goto(c, "started")
  /\ UNCHANGED <<echPool, config, pools, profileOf, live, conn, panicked>>

(* Mutant: the pool is forgotten and not closed. *)
ListenFails_LeavesPool(c) ==
  /\ call[c].at = "listening"
  /\ echPool' = 0
  /\ serviceMu' = None
  /\ Goto(c, "failed")
  /\ UNCHANGED <<proxyListener, config, pools, profileOf, live, sockets, conn,
                 panicked>>

(* Mutant: the error path returns without unlocking. *)
ListenFails_KeepsMutex(c) ==
  /\ call[c].at = "listening"
  /\ live' = live \ {echPool}
  /\ echPool' = 0
  /\ Goto(c, "failed")
  /\ UNCHANGED <<serviceMu, proxyListener, config, pools, profileOf, sockets, conn,
                 panicked>>

(* The port is taken, by another application for instance. *)
ListenFails(c) ==
  /\ call[c].at = "listening"
  /\ live' = live \ {echPool}
  /\ echPool' = 0
  /\ serviceMu' = None
  /\ Goto(c, "failed")
  /\ UNCHANGED <<proxyListener, config, pools, profileOf, sockets, conn, panicked>>

-----------------------------------------------------------------------------
(* StopSocksProxy.                                                         *)

CallStop(c) ==
  /\ call[c].at \in Returned
  /\ call' = [call EXCEPT ![c] = [NotCalling EXCEPT !.at = "stop"]]
  /\ UNCHANGED <<serviceMu, proxyListener, echPool, config, pools, profileOf,
                 live, sockets, conn, panicked>>

(* Mutant: the global pool is closed and not set to nil. *)
StopLocks_KeepsPool(c) ==
  /\ call[c].at = "stop"
  /\ serviceMu = None
  /\ serviceMu' = c
  /\ call' = [call EXCEPT ![c].at = "closingListener",
                          ![c].listener = proxyListener, ![c].pool = echPool]
  /\ proxyListener' = 0
  /\ UNCHANGED <<echPool, config, pools, profileOf, live, sockets, conn, panicked>>

(* The globals are nil from here on, the listener is still open. *)
StopLocks(c) ==
  /\ call[c].at = "stop"
  /\ serviceMu = None
  /\ serviceMu' = c
  /\ call' = [call EXCEPT ![c] = [@ EXCEPT !.at = "closingListener",
                                          !.listener = proxyListener, !.pool = echPool]]
  /\ proxyListener' = 0
  /\ echPool' = 0
  /\ UNCHANGED <<config, pools, profileOf, live, sockets, conn, panicked>>

(* Mutant: the listener is left to the garbage collector. *)
StopClosesListener_Not(c) ==
  /\ call[c].at = "closingListener"
  /\ Goto(c, "closingPool")
  /\ UNCHANGED <<serviceMu, proxyListener, echPool, config, pools, profileOf,
                 live, sockets, conn, panicked>>

StopClosesListener(c) ==
  /\ call[c].at = "closingListener"
  /\ sockets' = sockets \ {call[c].listener}
  /\ Goto(c, "closingPool")
  /\ UNCHANGED <<serviceMu, proxyListener, echPool, config, pools, profileOf,
                 live, conn, panicked>>

(* Mutant: the pool is left to the garbage collector. *)
StopClosesPool_Not(c) ==
  /\ call[c].at = "closingPool"
  /\ serviceMu' = None
  /\ Goto(c, "stopped")
  /\ UNCHANGED <<proxyListener, echPool, config, pools, profileOf, live, sockets,
                 conn, panicked>>

StopClosesPool(c) ==
  /\ call[c].at = "closingPool"
  /\ live' = live \ {call[c].pool}
  /\ serviceMu' = None
  /\ Goto(c, "stopped")
  /\ UNCHANGED <<proxyListener, echPool, config, pools, profileOf, sockets, conn,
                 panicked>>

-----------------------------------------------------------------------------
(* The SOCKS5 connections.                                                 *)

ConnGoto(h, state) == conn' = [conn EXCEPT ![h] = state]

CoreUnchangedByConn ==
  UNCHANGED <<serviceMu, proxyListener, echPool, config, pools, profileOf, live,
              sockets, call>>

Accept(h) ==
  /\ conn[h] = Unused
  /\ sockets # {}
  /\ ConnGoto(h, [st |-> "handshake", pool |-> 0])
  /\ UNCHANGED panicked /\ CoreUnchangedByConn

(* A method call on p: a nil pool is dereferenced, a closed one has no     *)
(* session to offer, a live one may have none either.                      *)
OpenThrough(h, p) ==
  IF p = 0
  THEN panicked' = TRUE /\ UNCHANGED conn
  ELSE /\ \/ p \in live /\ ConnGoto(h, [st |-> "relay", pool |-> p])
          \/ ConnGoto(h, Unused)
       /\ UNCHANGED panicked

(* CONNECT: the global is read once the success reply is written. *)
Connect(h) ==
  /\ conn[h].st = "handshake"
  /\ OpenThrough(h, echPool)
  /\ CoreUnchangedByConn

(* UDP ASSOCIATE keeps the pool it finds for its first datagram. *)
Associate(h) ==
  /\ conn[h].st = "handshake"
  /\ ConnGoto(h, [st |-> "associated", pool |-> echPool])
  /\ UNCHANGED panicked /\ CoreUnchangedByConn

FirstDatagram(h) ==
  /\ conn[h].st = "associated"
  /\ OpenThrough(h, conn[h].pool)
  /\ CoreUnchangedByConn

(* The handshake times out, the client leaves, or the relay breaks. *)
ConnEnds(h) ==
  /\ conn[h] # Unused
  /\ ConnGoto(h, Unused)
  /\ UNCHANGED panicked /\ CoreUnchangedByConn

-----------------------------------------------------------------------------

CallStep(c) ==
  \/ StartLocks(c) \/ EchSettled(c) \/ ListenSucceeds(c) \/ ListenFails(c)
  \/ StopLocks(c) \/ StopClosesListener(c) \/ StopClosesPool(c)

ConnStep(h) ==
  \/ Accept(h) \/ Connect(h) \/ Associate(h) \/ FirstDatagram(h) \/ ConnEnds(h)

(* The whole process goes down with a goroutine that panics. *)
CoreStep ==
  /\ ~panicked
  /\ \/ \E c \in Callers : CallStep(c)
     \/ \E h \in Conns : ConnStep(h)

Calls ==
  /\ ~panicked
  /\ \E c \in Callers : CallStop(c) \/ \E p \in Profiles : CallStart(c, p)

CoreNext == CoreStep \/ Calls

CoreSpec == CoreInit /\ [][CoreNext]_coreVars

-----------------------------------------------------------------------------

CallRecords ==
  [at : Returned \cup Locked \cup {"start", "stop"}, profile : Profiles \cup {None},
   pool : 0 .. MaxPools, listener : 0 .. MaxPools]

CallTypeOK ==
  /\ call \in [Callers -> CallRecords]
  /\ \A c \in Callers : call[c].at \in {"start", "resolving"} => call[c].profile \in Valid

(* Types; and the globals are never those of a node StartSocksProxy has to *)
(* turn down for its address.                                              *)
CoreTypeOK ==
  /\ serviceMu \in Callers \cup {None}
  /\ pools \in 0 .. MaxPools
  /\ proxyListener \in 0 .. pools
  /\ echPool \in 0 .. pools
  /\ config \in Valid \cup {None}
  /\ profileOf \in [PoolIds -> Profiles \cup {None}]
  /\ live \subseteq 1 .. pools
  /\ sockets \subseteq 1 .. pools
  /\ CallTypeOK
  /\ conn \in [Conns -> [st : {"unused", "handshake", "associated", "relay"},
                         pool : 0 .. MaxPools]]
  /\ panicked \in BOOLEAN

(* A pool that has not been closed, and a socket that has not, is the      *)
(* global one or is held by the StopSocksProxy that is about to close it.  *)
(* No order of starts, failures and stops leaves websockets to a server    *)
(* that nobody can stop any more.                                          *)
NoOrphan ==
  /\ \A n \in live : n = echPool \/ \E c \in Callers :
       call[c].at \in {"closingListener", "closingPool"} /\ call[c].pool = n
  /\ \A n \in sockets : n = proxyListener \/ \E c \in Callers :
       call[c].at = "closingListener" /\ call[c].listener = n

(* While a pool is live the globals its dials read, the token among them,  *)
(* are those of its own node: dialWebSocketWithECH reads them without a    *)
(* lock and long after the pool was made.                                  *)
ConfigOfLivePool == \A n \in live : config = profileOf[n]

(* The port is never found taken by the listener of an earlier start:      *)
(* StopSocksProxy returns only after it has closed its socket.             *)
PortIsFree ==
  \A c \in Callers : call[c].at = "listening" => sockets = {}

(* What makes them inductive. *)
MutexHeld ==
  \A c \in Callers : call[c].at \in Locked <=> serviceMu = c

Paired ==
  /\ proxyListener # 0 => proxyListener = echPool
  /\ echPool # 0 => \/ proxyListener = echPool
                    \/ \E c \in Callers : call[c].at = "listening"
  /\ \A c \in Callers :
       /\ call[c].at = "resolving" =>
            proxyListener = 0 /\ echPool = 0 /\ config = call[c].profile
       /\ call[c].at = "listening" =>
            proxyListener = 0 /\ echPool = call[c].pool /\ echPool # 0
       /\ call[c].at \in {"closingListener", "closingPool"} =>
            proxyListener = 0 /\ echPool = 0

CoreInv == CoreTypeOK /\ MutexHeld /\ Paired /\ NoOrphan /\ ConfigOfLivePool

(* The core implements OneNode: a pool runs from NewECHPool to Close.      *)
One == INSTANCE OneNode WITH
  Runs    <- PoolIds \X Valid,
  running <- {<<n, profileOf[n]>> : n \in live},
  serving <- sockets # {}

RunsOneNode == One!Spec

(* What makes it one: the global pool has not been closed.                 *)
GlobalIsLive == echPool # 0 => echPool \in live
=============================================================================
