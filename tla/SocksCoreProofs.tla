--------------------------- MODULE SocksCoreProofs ---------------------------
(* Starts and stops of the SOCKS5 core never strand a pool or a socket and *)
(* never mix the settings of two nodes, for any number of callers, nodes,  *)
(* connections and restarts.                                               *)
EXTENDS SocksCore, TLAPS

USE CoreAssumption

LEMMA CoreInitInv == CoreInit => CoreInv
<1> SUFFICES ASSUME CoreInit PROVE CoreInv
  OBVIOUS
<1>1. /\ call \in [Callers -> CallRecords]
      /\ \A c \in Callers : call[c].at = "idle"
  BY DEF CoreInit, NotCalling, Returned, CallRecords
<1>2. conn \in [Conns -> [st : {"unused", "handshake", "associated", "relay"},
                         pool : 0 .. MaxPools]]
  BY DEF CoreInit, Unused
<1>3. CoreTypeOK
  <2>1. CallTypeOK
    BY <1>1 DEF CallTypeOK, CallRecords
  <2>2. profileOf \in [PoolIds -> Profiles \cup {None}]
    BY DEF CoreInit
  <2>3. /\ pools = 0 /\ proxyListener = 0 /\ echPool = 0
        /\ live = {} /\ sockets = {} /\ panicked = FALSE
        /\ serviceMu = None /\ config = None
    BY DEF CoreInit
  <2>4. pools \in 0 .. MaxPools /\ proxyListener \in 0 .. pools /\ echPool \in 0 .. pools
    BY <2>3
  <2>5. live \subseteq 1 .. pools /\ sockets \subseteq 1 .. pools
    BY <2>3
  <2>6. QED
    BY <1>2, <2>1, <2>2, <2>3, <2>4, <2>5, Zenon DEF CoreTypeOK
<1>4. MutexHeld /\ Paired
  <2>1. MutexHeld
    BY <1>1 DEF CoreInit, MutexHeld, Locked
  <2>2. Paired
    BY <1>1 DEF CoreInit, Paired
  <2>3. QED
    BY <2>1, <2>2
<1>5. NoOrphan /\ ConfigOfLivePool
  BY DEF CoreInit, NoOrphan, ConfigOfLivePool
<1>6. QED
  BY <1>3, <1>4, <1>5 DEF CoreInv

(* A caller's record is replaced by another one.                           *)
LEMMA NewRecord ==
  ASSUME CoreInv, NEW c \in Callers, NEW r \in CallRecords,
         call' = [call EXCEPT ![c] = r],
         r.at \in {"start", "resolving"} => r.profile \in Valid
  PROVE  CallTypeOK'
BY DEF CoreInv, CoreTypeOK, CallTypeOK, CallRecords

(* One caller at a time is in a section that needs the mutex, and nothing  *)
(* is left live or open behind the globals once they are nil.              *)
LEMMA Alone ==
  ASSUME CoreInv, NEW c \in Callers, call[c].at \in Locked
  PROVE  /\ serviceMu = c
         /\ \A d \in Callers : call[d].at \in Locked => d = c
BY DEF CoreInv, MutexHeld

LEMMA NothingLeft ==
  ASSUME CoreInv,
         \A c \in Callers : call[c].at \notin {"closingListener", "closingPool"},
         echPool = 0, proxyListener = 0
  PROVE  live = {} /\ sockets = {}
BY DEF CoreInv, NoOrphan, CoreTypeOK

(* A call that begins holds nothing.                                       *)
LEMMA CallStartKeeps ==
  ASSUME CoreInv, NEW c \in Callers, NEW p \in Profiles \cup {None}, CallStart(c, p)
  PROVE  CoreInv'
<1> USE DEF CallStart, Goto, NotCalling, Returned, Locked
<1>1. CoreTypeOK'
  <2>1. CallTypeOK'
    <3> DEFINE r == [at |-> IF p \in Valid THEN "start" ELSE "failed", profile |-> p,
                     pool |-> 0, listener |-> 0]
    <3>1. r \in CallRecords /\ (r.at \in {"start", "resolving"} => r.profile \in Valid)
      <4>1. CASE p \in Valid
        BY <4>1 DEF CallRecords
      <4>2. CASE p \notin Valid
        BY <4>2 DEF CallRecords
      <4>3. QED
        BY <4>1, <4>2
    <3>2. call' = [call EXCEPT ![c] = r]
      OBVIOUS
    <3>3. QED
      BY <3>1, <3>2, NewRecord
  <2>2. QED
    BY <2>1 DEF CoreInv, CoreTypeOK, PoolIds
<1>2. MutexHeld'
  BY Alone DEF CoreInv, CoreTypeOK, CallTypeOK, CallRecords, MutexHeld
<1>3. Paired'
  BY Alone DEF CoreInv, CoreTypeOK, CallTypeOK, CallRecords, MutexHeld, Paired
<1>4. NoOrphan'
  BY Alone DEF CoreInv, CoreTypeOK, CallTypeOK, CallRecords, MutexHeld, Paired, NoOrphan
<1>5. ConfigOfLivePool'
  BY Alone, NothingLeft DEF CoreInv, CoreTypeOK, CallTypeOK, CallRecords, MutexHeld, Paired, ConfigOfLivePool, PoolIds
<1>6. QED
  BY <1>1, <1>2, <1>3, <1>4, <1>5 DEF CoreInv

(* The settings change only when no pool is live.                          *)
LEMMA StartLocksKeeps ==
  ASSUME CoreInv, NEW c \in Callers, StartLocks(c)
  PROVE  CoreInv'
<1> USE DEF StartLocks, Goto, NotCalling, Returned, Locked
<1>1. CoreTypeOK'
  <2>1. CallTypeOK'
    BY DEF CoreInv, CoreTypeOK, CallTypeOK, CallRecords
  <2>2. QED
    BY <2>1 DEF CoreInv, CoreTypeOK, CallTypeOK, CallRecords, PoolIds
<1>2. MutexHeld'
  BY Alone DEF CoreInv, CoreTypeOK, CallTypeOK, CallRecords, MutexHeld
<1>3. Paired'
  <2>1. CASE proxyListener # 0 \/ echPool # 0
    BY <2>1 DEF CoreInv, CoreTypeOK, CallTypeOK, CallRecords, MutexHeld, Paired
  <2>2. CASE proxyListener = 0 /\ echPool = 0
    <3>1. call' = [call EXCEPT ![c].at = "resolving"] /\ config' = call[c].profile
      BY <2>2
    <3>2. QED
      BY <2>2, <3>1 DEF CoreInv, CoreTypeOK, CallTypeOK, CallRecords, MutexHeld, Paired
  <2>3. QED
    BY <2>1, <2>2
<1>4. NoOrphan'
  BY Alone DEF CoreInv, CoreTypeOK, CallTypeOK, CallRecords, MutexHeld, Paired, NoOrphan
<1>5. ConfigOfLivePool'
  BY Alone, NothingLeft DEF CoreInv, CoreTypeOK, CallTypeOK, CallRecords, MutexHeld, Paired, ConfigOfLivePool, PoolIds
<1>6. QED
  BY <1>1, <1>2, <1>3, <1>4, <1>5 DEF CoreInv

(* The new pool is the only live one.                                      *)
LEMMA EchSettledKeeps ==
  ASSUME CoreInv, NEW c \in Callers, EchSettled(c)
  PROVE  CoreInv'
<1> USE DEF EchSettled, Goto, NotCalling, Returned, Locked
<1>1. CoreTypeOK'
  <2>1. CallTypeOK'
    <3> DEFINE r == [call[c] EXCEPT !.at = "listening", !.pool = pools + 1]
    <3>1. call[c] \in CallRecords /\ pools + 1 \in 0 .. MaxPools
      BY DEF CoreInv, CoreTypeOK, CallTypeOK, CallRecords
    <3>2. r \in CallRecords /\ r.at = "listening"
      BY <3>1 DEF CallRecords
    <3>3. call' = [call EXCEPT ![c] = r]
      OBVIOUS
    <3>4. QED
      BY <3>2, <3>3, NewRecord
  <2>2. /\ pools \in Nat /\ pools' = pools + 1 /\ pools + 1 \in 1 .. MaxPools
        /\ echPool' = pools + 1
    BY DEF CoreInv, CoreTypeOK
  <2>3. live' \subseteq 1 .. pools' /\ sockets' \subseteq 1 .. pools'
    BY <2>2 DEF CoreInv, CoreTypeOK
  <2>4. profileOf' \in [PoolIds -> Profiles \cup {None}]
    BY DEF CoreInv, CoreTypeOK, CallTypeOK, CallRecords
  <2>5. QED
    BY <2>1, <2>2, <2>3, <2>4 DEF CoreInv, CoreTypeOK
<1>2. MutexHeld'
  BY Alone DEF CoreInv, CoreTypeOK, CallTypeOK, CallRecords, MutexHeld
<1>3. Paired'
  BY Alone DEF CoreInv, CoreTypeOK, CallTypeOK, CallRecords, MutexHeld, Paired
<1>4. NoOrphan'
  BY Alone DEF CoreInv, CoreTypeOK, CallTypeOK, CallRecords, MutexHeld, Paired, NoOrphan
<1>5. ConfigOfLivePool'
  BY Alone, NothingLeft DEF CoreInv, CoreTypeOK, CallTypeOK, CallRecords, MutexHeld, Paired, ConfigOfLivePool, PoolIds
<1>6. QED
  BY <1>1, <1>2, <1>3, <1>4, <1>5 DEF CoreInv

(* The new socket is the only open one.                                    *)
LEMMA ListenSucceedsKeeps ==
  ASSUME CoreInv, NEW c \in Callers, ListenSucceeds(c)
  PROVE  CoreInv'
<1> USE DEF ListenSucceeds, Goto, NotCalling, Returned, Locked
<1>1. CoreTypeOK'
  <2>1. CallTypeOK'
    BY DEF CoreInv, CoreTypeOK, CallTypeOK, CallRecords
  <2>2. QED
    BY <2>1 DEF CoreInv, CoreTypeOK, Paired, PoolIds
<1>2. MutexHeld'
  BY Alone DEF CoreInv, CoreTypeOK, CallTypeOK, CallRecords, MutexHeld
<1>3. Paired'
  BY Alone DEF CoreInv, CoreTypeOK, CallTypeOK, CallRecords, MutexHeld, Paired
<1>4. NoOrphan'
  BY Alone DEF CoreInv, CoreTypeOK, CallTypeOK, CallRecords, MutexHeld, Paired, NoOrphan
<1>5. ConfigOfLivePool'
  BY Alone, NothingLeft DEF CoreInv, CoreTypeOK, CallTypeOK, CallRecords, MutexHeld, Paired, ConfigOfLivePool, PoolIds
<1>6. QED
  BY <1>1, <1>2, <1>3, <1>4, <1>5 DEF CoreInv

(* The pool of a start that fails is closed.                               *)
LEMMA ListenFailsKeeps ==
  ASSUME CoreInv, NEW c \in Callers, ListenFails(c)
  PROVE  CoreInv'
<1> USE DEF ListenFails, Goto, NotCalling, Returned, Locked
<1>1. CoreTypeOK'
  <2>1. CallTypeOK'
    BY DEF CoreInv, CoreTypeOK, CallTypeOK, CallRecords
  <2>2. QED
    BY <2>1 DEF CoreInv, CoreTypeOK, PoolIds
<1>2. MutexHeld'
  BY Alone DEF CoreInv, CoreTypeOK, CallTypeOK, CallRecords, MutexHeld
<1>3. Paired'
  BY Alone DEF CoreInv, CoreTypeOK, CallTypeOK, CallRecords, MutexHeld, Paired
<1>4. NoOrphan'
  BY Alone DEF CoreInv, CoreTypeOK, CallTypeOK, CallRecords, MutexHeld, Paired, NoOrphan
<1>5. ConfigOfLivePool'
  BY Alone, NothingLeft DEF CoreInv, CoreTypeOK, CallTypeOK, CallRecords, MutexHeld, Paired, ConfigOfLivePool, PoolIds
<1>6. QED
  BY <1>1, <1>2, <1>3, <1>4, <1>5 DEF CoreInv

(* A stop that has not locked yet holds nothing.                           *)
LEMMA CallStopKeeps ==
  ASSUME CoreInv, NEW c \in Callers, CallStop(c)
  PROVE  CoreInv'
<1> USE DEF CallStop, Goto, NotCalling, Returned, Locked
<1>1. CoreTypeOK'
  BY DEF CoreInv, CoreTypeOK, CallTypeOK, CallRecords, PoolIds
<1>2. MutexHeld'
  BY Alone DEF CoreInv, CoreTypeOK, CallTypeOK, CallRecords, MutexHeld
<1>3. Paired'
  BY Alone DEF CoreInv, CoreTypeOK, CallTypeOK, CallRecords, MutexHeld, Paired
<1>4. NoOrphan'
  BY Alone DEF CoreInv, CoreTypeOK, CallTypeOK, CallRecords, MutexHeld, Paired, NoOrphan
<1>5. ConfigOfLivePool'
  BY Alone, NothingLeft DEF CoreInv, CoreTypeOK, CallTypeOK, CallRecords, MutexHeld, Paired, ConfigOfLivePool, PoolIds
<1>6. QED
  BY <1>1, <1>2, <1>3, <1>4, <1>5 DEF CoreInv

(* What the globals lose the stop holds.                                   *)
LEMMA StopLocksKeeps ==
  ASSUME CoreInv, NEW c \in Callers, StopLocks(c)
  PROVE  CoreInv'
<1> USE DEF StopLocks, Goto, NotCalling, Returned, Locked
<1>1. CoreTypeOK'
  <2>1. CallTypeOK'
    <3> DEFINE r == [call[c] EXCEPT !.at = "closingListener",
                                    !.listener = proxyListener, !.pool = echPool]
    <3>1. /\ call[c] \in CallRecords
          /\ echPool \in 0 .. MaxPools /\ proxyListener \in 0 .. MaxPools
      BY DEF CoreInv, CoreTypeOK, CallTypeOK, CallRecords
    <3>2. r \in CallRecords /\ r.at = "closingListener"
      BY <3>1 DEF CallRecords
    <3>3. call' = [call EXCEPT ![c] = r]
      OBVIOUS
    <3>4. QED
      BY <3>2, <3>3, NewRecord
  <2>2. QED
    BY <2>1 DEF CoreInv, CoreTypeOK, PoolIds
<1>2. MutexHeld'
  BY Alone DEF CoreInv, CoreTypeOK, CallTypeOK, CallRecords, MutexHeld
<1>3. Paired'
  BY Alone DEF CoreInv, CoreTypeOK, CallTypeOK, CallRecords, MutexHeld, Paired
<1>4. NoOrphan'
  BY Alone DEF CoreInv, CoreTypeOK, CallTypeOK, CallRecords, MutexHeld, Paired, NoOrphan
<1>5. ConfigOfLivePool'
  BY Alone, NothingLeft DEF CoreInv, CoreTypeOK, CallTypeOK, CallRecords, MutexHeld, Paired, ConfigOfLivePool, PoolIds
<1>6. QED
  BY <1>1, <1>2, <1>3, <1>4, <1>5 DEF CoreInv

(* The socket goes first,                                                  *)
LEMMA StopClosesListenerKeeps ==
  ASSUME CoreInv, NEW c \in Callers, StopClosesListener(c)
  PROVE  CoreInv'
<1> USE DEF StopClosesListener, Goto, NotCalling, Returned, Locked
<1>1. CoreTypeOK'
  <2>1. CallTypeOK'
    <3> DEFINE r == [call[c] EXCEPT !.at = "closingPool"]
    <3>1. r \in CallRecords /\ r.at = "closingPool"
      BY DEF CoreInv, CoreTypeOK, CallTypeOK, CallRecords
    <3>2. call' = [call EXCEPT ![c] = r]
      OBVIOUS
    <3>3. QED
      BY <3>1, <3>2, NewRecord
  <2>2. QED
    BY <2>1 DEF CoreInv, CoreTypeOK, PoolIds
<1>2. MutexHeld'
  BY Alone DEF CoreInv, CoreTypeOK, CallTypeOK, CallRecords, MutexHeld
<1>3. Paired'
  BY Alone DEF CoreInv, CoreTypeOK, CallTypeOK, CallRecords, MutexHeld, Paired
<1>4. NoOrphan'
  BY Alone DEF CoreInv, CoreTypeOK, CallTypeOK, CallRecords, MutexHeld, Paired, NoOrphan
<1>5. ConfigOfLivePool'
  BY Alone, NothingLeft DEF CoreInv, CoreTypeOK, CallTypeOK, CallRecords, MutexHeld, Paired, ConfigOfLivePool, PoolIds
<1>6. QED
  BY <1>1, <1>2, <1>3, <1>4, <1>5 DEF CoreInv

(* then the pool.                                                          *)
LEMMA StopClosesPoolKeeps ==
  ASSUME CoreInv, NEW c \in Callers, StopClosesPool(c)
  PROVE  CoreInv'
<1> USE DEF StopClosesPool, Goto, NotCalling, Returned, Locked
<1>1. CoreTypeOK'
  <2>1. CallTypeOK'
    <3> DEFINE r == [call[c] EXCEPT !.at = "stopped"]
    <3>1. r \in CallRecords /\ r.at = "stopped"
      BY DEF CoreInv, CoreTypeOK, CallTypeOK, CallRecords
    <3>2. call' = [call EXCEPT ![c] = r]
      OBVIOUS
    <3>3. QED
      BY <3>1, <3>2, NewRecord
  <2>2. QED
    BY <2>1 DEF CoreInv, CoreTypeOK, PoolIds
<1>2. MutexHeld'
  BY Alone DEF CoreInv, CoreTypeOK, CallTypeOK, CallRecords, MutexHeld
<1>3. Paired'
  BY Alone DEF CoreInv, CoreTypeOK, CallTypeOK, CallRecords, MutexHeld, Paired
<1>4. NoOrphan'
  BY Alone DEF CoreInv, CoreTypeOK, CallTypeOK, CallRecords, MutexHeld, Paired, NoOrphan
<1>5. ConfigOfLivePool'
  BY Alone, NothingLeft DEF CoreInv, CoreTypeOK, CallTypeOK, CallRecords, MutexHeld, Paired, ConfigOfLivePool, PoolIds
<1>6. QED
  BY <1>1, <1>2, <1>3, <1>4, <1>5 DEF CoreInv

(* A connection changes none of what the invariant is about.               *)
LEMMA ConnKeeps ==
  ASSUME CoreInv, NEW h \in Conns, ConnStep(h)
  PROVE  CoreInv'
<1>1. CoreUnchangedByConn
  BY DEF ConnStep, Accept, Connect, Associate, FirstDatagram, ConnEnds
<1>2. panicked' \in BOOLEAN
  BY DEF ConnStep, Accept, Connect, Associate, FirstDatagram, ConnEnds, OpenThrough,
         CoreInv, CoreTypeOK
<1> DEFINE States == [st : {"unused", "handshake", "associated", "relay"}, pool : 0 .. MaxPools]
<1>3. conn' \in [Conns -> States]
  <2>1. conn \in [Conns -> States] /\ Unused \in States
    BY DEF CoreInv, CoreTypeOK, Unused
  <2>2. echPool \in 0 .. MaxPools /\ conn[h].pool \in 0 .. MaxPools
    BY <2>1 DEF CoreInv, CoreTypeOK
  <2>3. \A r \in States : ConnGoto(h, r) => conn' \in [Conns -> States]
    BY <2>1 DEF ConnGoto
  <2>4. \A q \in 0 .. MaxPools : OpenThrough(h, q) => conn' \in [Conns -> States]
    <3> SUFFICES ASSUME NEW q \in 0 .. MaxPools, OpenThrough(h, q)
                 PROVE  conn' \in [Conns -> States]
      OBVIOUS
    <3>1. [st |-> "relay", pool |-> q] \in States
      OBVIOUS
    <3>2. QED
      BY <2>1, <2>3, <3>1 DEF OpenThrough
  <2>5. CASE Accept(h)
    <3>1. [st |-> "handshake", pool |-> 0] \in States
      OBVIOUS
    <3>2. QED
      BY <2>3, <2>5, <3>1 DEF Accept
  <2>6. CASE Connect(h)
    BY <2>2, <2>4, <2>6 DEF Connect
  <2>7. CASE Associate(h)
    <3>1. [st |-> "associated", pool |-> echPool] \in States
      BY <2>2
    <3>2. QED
      BY <2>3, <2>7, <3>1 DEF Associate
  <2>8. CASE FirstDatagram(h)
    BY <2>2, <2>4, <2>8 DEF FirstDatagram
  <2>9. CASE ConnEnds(h)
    BY <2>1, <2>3, <2>9 DEF ConnEnds
  <2>10. QED
    BY <2>5, <2>6, <2>7, <2>8, <2>9 DEF ConnStep
<1>4. CoreTypeOK'
  BY <1>1, <1>2, <1>3 DEF CoreUnchangedByConn, CoreInv, CoreTypeOK, CallTypeOK
<1>5. MutexHeld' /\ Paired' /\ NoOrphan' /\ ConfigOfLivePool'
  BY <1>1 DEF CoreUnchangedByConn, CoreInv, MutexHeld, Paired, NoOrphan, ConfigOfLivePool
<1>6. QED
  BY <1>4, <1>5 DEF CoreInv

LEMMA CoreStepKeeps == CoreInv /\ [CoreNext]_coreVars => CoreInv'
<1> SUFFICES ASSUME CoreInv, [CoreNext]_coreVars PROVE CoreInv'
  OBVIOUS
<1>1. ASSUME NEW c \in Callers, CallStep(c) PROVE CoreInv'
  BY <1>1, StartLocksKeeps, EchSettledKeeps, ListenSucceedsKeeps, ListenFailsKeeps,
     StopLocksKeeps, StopClosesListenerKeeps, StopClosesPoolKeeps DEF CallStep
<1>2. ASSUME NEW h \in Conns, ConnStep(h) PROVE CoreInv'
  BY <1>2, ConnKeeps
<1>3. ASSUME NEW c \in Callers, CallStop(c) PROVE CoreInv'
  BY <1>3, CallStopKeeps
<1>4. ASSUME NEW c \in Callers, NEW p \in Profiles, CallStart(c, p) PROVE CoreInv'
  BY <1>4, CallStartKeeps
<1>5. CASE UNCHANGED coreVars
  BY <1>5 DEF coreVars, CoreInv, CoreTypeOK, CallTypeOK, MutexHeld, Paired, NoOrphan,
              ConfigOfLivePool
<1>6. QED
  BY <1>1, <1>2, <1>3, <1>4, <1>5 DEF CoreNext, CoreStep, Calls

(* The inductive invariant of StartSocksProxy and StopSocksProxy.          *)
THEOREM CoreInvariant == CoreSpec => []CoreInv
BY CoreInitInv, CoreStepKeeps, PTL DEF CoreSpec

(* Every variable of the core keeps its type, and the globals are never    *)
(* those of a node with an address StartSocksProxy turns down.             *)
THEOREM CoreTypeCorrect == CoreSpec => []CoreTypeOK
<1>1. CoreInv => CoreTypeOK
  BY DEF CoreInv
<1>2. QED
  BY <1>1, CoreInvariant, PTL

(* A pool or a socket that has not been closed can still be: it is the     *)
(* global one, or the stop that took it from there has still to close it.  *)
THEOREM NothingOrphaned == CoreSpec => []NoOrphan
<1>1. CoreInv => NoOrphan
  BY DEF CoreInv
<1>2. QED
  BY <1>1, CoreInvariant, PTL

(* While a pool is live the unlocked globals its dials read are those of   *)
(* its own node.                                                           *)
THEOREM LivePoolReadsItsConfig == CoreSpec => []ConfigOfLivePool
<1>1. CoreInv => ConfigOfLivePool
  BY DEF CoreInv
<1>2. QED
  BY <1>1, CoreInvariant, PTL

(* A start that comes to listen finds no socket of an earlier one.         *)
LEMMA NoSocketLeft == CoreInv => PortIsFree
<1> SUFFICES ASSUME CoreInv, NEW c \in Callers, call[c].at = "listening"
             PROVE  sockets = {}
  BY DEF PortIsFree
<1>1. \A d \in Callers : call[d].at # "closingListener"
  BY Alone DEF Locked
<1>2. proxyListener = 0
  BY DEF CoreInv, Paired
<1>3. QED
  BY <1>1, <1>2 DEF CoreInv, NoOrphan, CoreTypeOK

(* The port the core listens on is free of its own sockets.                *)
THEOREM ListensOnFreePort == CoreSpec => []PortIsFree
BY NoSocketLeft, CoreInvariant, PTL

-----------------------------------------------------------------------------
(* One node at a time.                                                     *)

LEMMA GlobalStaysLive ==
  ASSUME CoreInv, GlobalIsLive, [CoreNext]_coreVars
  PROVE  GlobalIsLive'
<1>1. ASSUME NEW c \in Callers, CallStep(c) PROVE GlobalIsLive'
  <2>1. CASE StopClosesPool(c)
    <3>1. echPool = 0
      BY <2>1 DEF StopClosesPool, CoreInv, Paired
    <3>2. QED
      BY <2>1, <3>1 DEF StopClosesPool, GlobalIsLive
  <2>2. CASE ~StopClosesPool(c)
    BY <1>1, <2>2 DEF CallStep, StartLocks, EchSettled, ListenSucceeds, ListenFails, StopLocks,
                     StopClosesListener, GlobalIsLive
  <2>3. QED
    BY <2>1, <2>2
<1>2. CASE UNCHANGED <<echPool, live>>
  BY <1>2 DEF GlobalIsLive
<1>3. QED
  BY <1>1, <1>2 DEF CoreNext, CoreStep, Calls, CallStart, CallStop, ConnStep, Accept, Connect,
                    Associate, FirstDatagram, ConnEnds, CoreUnchangedByConn, coreVars

(* What is open while the mutex is held.                                   *)
LEMMA OpenUnderMutex ==
  ASSUME CoreInv, NEW c \in Callers
  PROVE  /\ call[c].at = "resolving" => live = {} /\ sockets = {}
         /\ call[c].at = "listening" => live \subseteq {echPool} /\ sockets = {}
         /\ call[c].at = "closingListener" =>
              live \subseteq {call[c].pool} /\ sockets \subseteq {call[c].listener}
         /\ call[c].at = "closingPool" => live \subseteq {call[c].pool} /\ sockets = {}
<1> SUFFICES ASSUME call[c].at \in Locked
             PROVE  /\ call[c].at = "resolving" => live = {} /\ sockets = {}
                    /\ call[c].at = "listening" => live \subseteq {echPool} /\ sockets = {}
                    /\ call[c].at = "closingListener" =>
                         live \subseteq {call[c].pool} /\ sockets \subseteq {call[c].listener}
                    /\ call[c].at = "closingPool" =>
                         live \subseteq {call[c].pool} /\ sockets = {}
  BY DEF Locked
<1>1. \A d \in Callers : call[d].at \in Locked => d = c
  BY Alone
<1>2. proxyListener = 0 /\ (call[c].at # "listening" => echPool = 0)
  BY DEF CoreInv, Paired, Locked
<1>3. live \subseteq Nat \ {0} /\ sockets \subseteq Nat \ {0}
  BY DEF CoreInv, CoreTypeOK
<1>4. /\ \A n \in live : n # echPool =>
           call[c].at \in {"closingListener", "closingPool"} /\ call[c].pool = n
      /\ \A n \in sockets : call[c].at = "closingListener" /\ call[c].listener = n
  <2>1. NoOrphan
    BY DEF CoreInv
  <2>2. \A d \in Callers : call[d].at \in {"closingListener", "closingPool"} => d = c
    BY <1>1 DEF Locked
  <2>3. \A n \in sockets : n # proxyListener
    BY <1>2, <1>3
  <2>4. QED
    BY <2>1, <2>2, <2>3 DEF NoOrphan
<1>5. QED
  BY <1>2, <1>3, <1>4

(* Steps that neither make nor close a pool or a socket.                   *)
LEMMA OneStays ==
  ASSUME UNCHANGED <<live, profileOf, sockets>>
  PROVE  UNCHANGED One!vars
BY DEF One!vars

LEMMA CallStepOfOne ==
  ASSUME CoreInv, GlobalIsLive, NEW c \in Callers, CallStep(c)
  PROVE  [One!Next]_(One!vars)
<1>1. /\ pools \in Nat /\ live \subseteq 1 .. pools /\ pools <= MaxPools
      /\ profileOf \in [PoolIds -> Profiles \cup {None}]
  BY DEF CoreInv, CoreTypeOK
<1>2. CASE EchSettled(c)
  <2>1. live = {} /\ sockets = {} /\ call[c].profile \in Valid
    BY <1>2, OpenUnderMutex DEF EchSettled, CoreInv, CoreTypeOK, CallTypeOK
  <2>2. pools + 1 \in PoolIds
    BY <1>1, <1>2 DEF EchSettled, PoolIds
  <2>3. PICK r \in PoolIds \X Valid : r = <<pools + 1, call[c].profile>>
    BY <2>1, <2>2
  <2>4. live' = {pools + 1} /\ profileOf'[pools + 1] = call[c].profile /\ UNCHANGED sockets
    BY <1>1, <1>2, <2>1, <2>2 DEF EchSettled
  <2>5. {<<n, profileOf'[n]>> : n \in live'} = {r}
    BY <2>3, <2>4
  <2>6. One!Run(r)
    BY <2>1, <2>4, <2>5 DEF One!Run
  <2>7. QED
    BY <2>6 DEF One!Next
<1>3. CASE ListenSucceeds(c)
  <2>1. echPool \in live /\ sockets = {} /\ sockets' # {} /\ UNCHANGED <<live, profileOf>>
    BY <1>3 DEF ListenSucceeds, CoreInv, Paired, GlobalIsLive
  <2>2. One!Serve
    BY <2>1 DEF One!Serve
  <2>3. QED
    BY <2>2 DEF One!Next
<1>4. CASE ListenFails(c)
  <2>1. /\ echPool \in live /\ live \subseteq {echPool} /\ sockets = {}
        /\ live' = live \ {echPool} /\ UNCHANGED sockets
    BY <1>4, OpenUnderMutex DEF ListenFails, CoreInv, Paired, GlobalIsLive
  <2>2. live' = {}
    BY <2>1
  <2>3. One!Leave
    BY <2>1, <2>2 DEF One!Leave
  <2>4. QED
    BY <2>3 DEF One!Next
<1>5. CASE StopClosesListener(c)
  <2>1. sockets \subseteq {call[c].listener} /\ sockets' = {} /\ UNCHANGED <<live, profileOf>>
    BY <1>5, OpenUnderMutex DEF StopClosesListener
  <2>2. CASE sockets = {}
    BY <2>1, <2>2, OneStays
  <2>3. CASE sockets # {}
    BY <2>1, <2>3 DEF One!Next, One!Withdraw
  <2>4. QED
    BY <2>2, <2>3
<1>6. CASE StopClosesPool(c)
  <2>1. /\ live \subseteq {call[c].pool} /\ live' = {} /\ sockets = {}
        /\ UNCHANGED <<profileOf, sockets>>
    BY <1>6, OpenUnderMutex DEF StopClosesPool
  <2>2. CASE live = {}
    BY <2>1, <2>2, OneStays
  <2>3. CASE live # {}
    BY <2>1, <2>3 DEF One!Next, One!Leave
  <2>4. QED
    BY <2>2, <2>3
<1>7. CASE StartLocks(c) \/ StopLocks(c)
  BY <1>7, OneStays DEF StartLocks, StopLocks
<1>8. QED
  BY <1>2, <1>3, <1>4, <1>5, <1>6, <1>7 DEF CallStep

LEMMA OneInit == CoreInit => GlobalIsLive /\ One!Init
BY DEF CoreInit, GlobalIsLive, One!Init

(* Any calls of any threads, in any order, run one node at a time, and the *)
(* port is open only while one runs.                                       *)
THEOREM CoreRunsOneNode == CoreSpec => RunsOneNode
<1>1. CoreInv /\ GlobalIsLive /\ [CoreNext]_coreVars => GlobalIsLive'
  BY GlobalStaysLive
<1>2. CoreInv /\ GlobalIsLive /\ [CoreNext]_coreVars => [One!Next]_(One!vars)
  <2> SUFFICES ASSUME CoreInv, GlobalIsLive, [CoreNext]_coreVars PROVE [One!Next]_(One!vars)
    OBVIOUS
  <2>1. ASSUME NEW c \in Callers, CallStep(c) PROVE [One!Next]_(One!vars)
    BY <2>1, CallStepOfOne
  <2>2. CASE UNCHANGED <<live, profileOf, sockets>>
    BY <2>2, OneStays
  <2>3. QED
    BY <2>1, <2>2 DEF CoreNext, CoreStep, Calls, CallStart, CallStop, ConnStep, Accept, Connect,
                      Associate, FirstDatagram, ConnEnds, CoreUnchangedByConn, coreVars
<1>3. QED
  BY OneInit, <1>1, <1>2, CoreInvariant, PTL DEF CoreSpec, RunsOneNode, One!Spec
=============================================================================
