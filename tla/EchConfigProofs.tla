---------------------------- MODULE EchConfigProofs ----------------------------
(***************************************************************************)
(* Queries for ECH records of several nodes at once leave the core as      *)
(* SocksCore has it, never overlap in refreshECH, and are for the node of  *)
(* the live pool from when there is one, for any number of callers, nodes  *)
(* and restarts.                                                           *)
(***************************************************************************)
EXTENDS EchConfig, SocksCoreProofs

USE CoreAssumption, EchAssumption

ChannelRecords ==
  [at : {"none", "top", "dial", "handshake", "refresh", "asked", "connected", "exited"},
   record : Profiles \cup {None}, try : 0 .. Retries]

(* The part of the invariant about the record, refreshMu and the           *)
(* goroutines of ECH.                                                      *)
QueryInv ==
  /\ echList \in Answering \cup {None}
  /\ refreshMu \in 0 .. pools
  /\ loader \in [PoolIds -> Profiles \cup {None}]
  /\ channel \in [PoolIds -> ChannelRecords]
  /\ \A n \in PoolIds : channel[n].at = "asked" <=> refreshMu = n
  /\ ChannelOfPool
  /\ TryLeft

LEMMA EchInvParts == EchInv <=> CoreInv /\ ~panicked /\ QueryInv
BY DEF EchInv, EchTypeOK, QueryInv, ChannelRecords, CoreInv

LEMMA EchInitInv == EchInit => EchInv
<1> SUFFICES ASSUME EchInit PROVE EchInv
  OBVIOUS
<1>1. CoreInv
  BY CoreInitInv DEF EchInit
<1>2. pools = 0 /\ ~panicked
  BY DEF EchInit, CoreInit
<1>3. \A n \in PoolIds : n > 0 /\ channel[n] = NoChannel /\ NoChannel \in ChannelRecords
  BY DEF EchInit, NoChannel, ChannelRecords, PoolIds
<1>4. QueryInv
  BY <1>2, <1>3 DEF EchInit, QueryInv, ChannelOfPool, TryLeft, NoChannel, ChannelRecords
<1>5. QED
  BY <1>1, <1>2, <1>4, EchInvParts

-----------------------------------------------------------------------------
(* The core goes its own way.                                              *)

LEMMA EchStepsLeaveCore ==
  ASSUME NEW n \in PoolIds, LoaderStep(n) \/ ChannelStep(n) \/ Disconnects(n)
  PROVE  UNCHANGED coreVars
BY DEF LoaderStep, LoaderAnswered, LoaderNotAnswered, ChannelStep, ChannelTop, ChannelDials,
       HandshakeAnswered, HandshakeSucceeds, HandshakeRefused, HandshakeFails, LockRefresh,
       NoRefresh, ChannelAnswered, ChannelNotAnswered, Disconnects

LEMMA CoreCallsKeepPanicked ==
  ASSUME NEW c \in Callers, SpawnLoader(c) \/ SpawnChannel(c) \/ OtherCallStep(c)
  PROVE  UNCHANGED panicked
BY DEF SpawnLoader, SpawnChannel, OtherCallStep, StartLocks, EchSettled, ListenSucceeds,
       ListenFails, StopLocks, StopClosesListener, StopClosesPool, CallStop, CallStart

LEMMA StepOfCore ==
  ASSUME ~panicked, [EchNext]_allVars
  PROVE  [CoreNext]_coreVars /\ ~panicked'
<1>1. ASSUME NEW c \in Callers, SpawnLoader(c) \/ SpawnChannel(c) \/ OtherCallStep(c)
      PROVE  [CoreNext]_coreVars /\ ~panicked'
  <2>1. \/ CallStep(c)
        \/ CallStop(c)
        \/ \E p \in Profiles : CallStart(c, p)
    BY <1>1 DEF SpawnLoader, SpawnChannel, OtherCallStep, CallStep
  <2>2. CoreNext
    BY <2>1 DEF CoreNext, CoreStep, Calls
  <2>3. QED
    BY <1>1, <2>2, CoreCallsKeepPanicked
<1>2. ASSUME NEW n \in PoolIds, LoaderStep(n) \/ ChannelStep(n) \/ Disconnects(n)
      PROVE  [CoreNext]_coreVars /\ ~panicked'
  BY <1>2, EchStepsLeaveCore DEF coreVars
<1>3. CASE UNCHANGED allVars
  BY <1>3 DEF allVars, coreVars
<1>4. QED
  BY <1>1, <1>2, <1>3 DEF EchNext

-----------------------------------------------------------------------------
(* The steps of the core that start a loader or a channel, and the others. *)

LEMMA SpawnLoaderKeeps ==
  ASSUME EchInv, NEW c \in Callers, SpawnLoader(c), CoreInv'
  PROVE  QueryInv'
<1>1. QueryInv /\ CoreInv
  BY EchInvParts
<1>2. UNCHANGED <<pools, echList, refreshMu, channel>>
  BY DEF SpawnLoader, StartLocks
<1>3. loader' \in [PoolIds -> Profiles \cup {None}]
  <2>1. config' \in Profiles \cup {None}
    BY DEF CoreInv, CoreTypeOK
  <2>2. QED
    BY <1>1, <2>1 DEF SpawnLoader, QueryInv
<1>4. QED
  BY <1>1, <1>2, <1>3 DEF QueryInv, ChannelOfPool, TryLeft

(* The channel of a new pool.                                              *)
LEMMA SpawnChannelKeeps ==
  ASSUME EchInv, NEW c \in Callers, SpawnChannel(c)
  PROVE  QueryInv'
<1>1. QueryInv /\ CoreInv
  BY EchInvParts
<1>2. /\ pools \in Nat /\ pools' = pools + 1 /\ pools + 1 \in PoolIds
      /\ UNCHANGED <<echList, refreshMu, loader>>
      /\ channel' = [channel EXCEPT ![pools + 1].at = "top"]
  BY <1>1 DEF SpawnChannel, EchSettled, ChannelGoes, CoreInv, CoreTypeOK, PoolIds
<1>3. channel[pools + 1].at = "none"
  BY <1>1, <1>2 DEF QueryInv, ChannelOfPool
<1>4. channel' \in [PoolIds -> ChannelRecords]
  BY <1>1, <1>2 DEF QueryInv, ChannelRecords
<1>5. /\ \A n \in PoolIds : n # pools + 1 => channel'[n] = channel[n]
      /\ channel'[pools + 1].at = "top"
  BY <1>1, <1>2 DEF QueryInv, ChannelRecords
<1>6. refreshMu' \in 0 .. pools'
  BY <1>1, <1>2 DEF QueryInv
<1>7. \A n \in PoolIds : channel'[n].at = "asked" <=> refreshMu' = n
  BY <1>1, <1>2, <1>3, <1>5 DEF QueryInv
<1>8. ChannelOfPool'
  BY <1>1, <1>2, <1>5 DEF QueryInv, ChannelOfPool, PoolIds
<1>9. TryLeft'
  BY <1>1, <1>5 DEF QueryInv, TryLeft
<1>10. QED
  BY <1>1, <1>2, <1>4, <1>6, <1>7, <1>8, <1>9 DEF QueryInv

LEMMA OtherCallKeeps ==
  ASSUME EchInv, NEW c \in Callers, OtherCallStep(c)
  PROVE  QueryInv'
<1>1. UNCHANGED <<pools, echList, refreshMu, loader, channel>>
  BY DEF OtherCallStep, echVars, ListenSucceeds, ListenFails, StopLocks, StopClosesListener,
         StopClosesPool, CallStop, CallStart
<1>2. QED
  BY <1>1, EchInvParts DEF QueryInv, ChannelOfPool, TryLeft

-----------------------------------------------------------------------------
(* The goroutines of ECH.                                                  *)

LEMMA LoaderKeeps ==
  ASSUME EchInv, NEW n \in PoolIds, LoaderStep(n)
  PROVE  QueryInv'
<1>1. QueryInv /\ CoreInv /\ UNCHANGED <<pools, refreshMu, channel>>
  BY EchInvParts, EchStepsLeaveCore
     DEF coreVars, LoaderStep, LoaderAnswered, LoaderNotAnswered
<1>2. echList' \in Answering \cup {None} /\ loader' \in [PoolIds -> Profiles \cup {None}]
  <2>1. config \in Profiles \cup {None}
    BY <1>1 DEF CoreInv, CoreTypeOK
  <2>2. QED
    BY <1>1, <2>1 DEF LoaderStep, LoaderAnswered, LoaderNotAnswered, QueryInv
<1>3. QED
  BY <1>1, <1>2 DEF QueryInv, ChannelOfPool, TryLeft

(* A channel step that is neither in nor about to enter refreshECH.        *)
LEMMA ChannelMoves ==
  ASSUME EchInv, NEW n \in PoolIds,
         channel' \in [PoolIds -> ChannelRecords],
         \A m \in PoolIds : m # n => channel'[m] = channel[m],
         channel[n].at \notin {"none", "asked"}, channel'[n].at \notin {"none", "asked"},
         channel'[n].at = "refresh" => channel'[n].try < Retries,
         UNCHANGED <<pools, echList, refreshMu, loader>>
  PROVE  QueryInv'
<1>1. QueryInv
  BY EchInvParts
<1>2. \A m \in PoolIds : channel'[m].at = "asked" <=> refreshMu' = m
  BY <1>1 DEF QueryInv
<1>3. ChannelOfPool' /\ TryLeft'
  BY <1>1 DEF QueryInv, ChannelOfPool, TryLeft
<1>4. QED
  BY <1>1, <1>2, <1>3 DEF QueryInv

LEMMA ChannelTopKeeps ==
  ASSUME EchInv, NEW n \in PoolIds, ChannelTop(n)
  PROVE  QueryInv'
<1>1. QueryInv
  BY EchInvParts
<1>2. channel \in [PoolIds -> ChannelRecords] /\ UNCHANGED <<pools, echList, refreshMu, loader>>
  BY <1>1 DEF ChannelTop, coreVars, QueryInv
<1>3. channel' \in [PoolIds -> ChannelRecords]
  <2>1. CASE n \in live
    <3>1. channel' = [channel EXCEPT ![n].at = "dial", ![n].try = 1]
      BY <2>1 DEF ChannelTop
    <3>2. [channel[n] EXCEPT !.at = "dial", !.try = 1] \in ChannelRecords
      <4>1. channel[n] \in ChannelRecords /\ 1 \in 0 .. Retries
        BY <1>2
      <4>2. QED
        BY <4>1 DEF ChannelRecords
    <3>3. QED
      BY <1>2, <3>1, <3>2
  <2>2. CASE n \notin live
    BY <1>2, <2>2 DEF ChannelTop, ChannelRecords
  <2>3. QED
    BY <2>1, <2>2
<1>4. /\ \A m \in PoolIds : m # n => channel'[m] = channel[m]
      /\ channel[n].at \notin {"none", "asked"} /\ channel'[n].at \notin {"none", "asked"}
      /\ channel'[n].at = "refresh" => channel'[n].try < Retries
  BY <1>2 DEF ChannelTop, ChannelRecords
<1>5. QED
  BY <1>2, <1>3, <1>4, ChannelMoves

LEMMA ChannelDialsKeeps ==
  ASSUME EchInv, NEW n \in PoolIds, ChannelDials(n)
  PROVE  QueryInv'
<1>1. QueryInv
  BY EchInvParts
<1>2. channel \in [PoolIds -> ChannelRecords] /\ UNCHANGED <<pools, echList, refreshMu, loader>>
  BY <1>1 DEF ChannelDials, coreVars, QueryInv
<1>3. channel' \in [PoolIds -> ChannelRecords]
  <2>1. CASE Fallback
    BY <1>2, <2>1 DEF ChannelDials, ChannelRecords
  <2>2. CASE ~Fallback /\ echList # None
    <3>1. /\ channel' = [channel EXCEPT ![n].at = "handshake", ![n].record = echList]
          /\ echList \in Profiles
      BY <1>1, <2>2 DEF ChannelDials, QueryInv
    <3>2. [channel[n] EXCEPT !.at = "handshake", !.record = echList] \in ChannelRecords
      BY <1>2, <3>1 DEF ChannelRecords
    <3>3. QED
      BY <1>2, <3>1, <3>2
  <2>3. CASE ~Fallback /\ echList = None
    BY <1>2, <2>3 DEF ChannelDials, ChannelRecords, Refused
  <2>4. QED
    BY <2>1, <2>2, <2>3
<1>4. /\ \A m \in PoolIds : m # n => channel'[m] = channel[m]
      /\ channel[n].at \notin {"none", "asked"} /\ channel'[n].at \notin {"none", "asked"}
      /\ channel'[n].at = "refresh" => channel'[n].try < Retries
  BY <1>2 DEF ChannelDials, ChannelRecords, Refused
<1>5. QED
  BY <1>2, <1>3, <1>4, ChannelMoves

LEMMA HandshakeSucceedsKeeps ==
  ASSUME EchInv, NEW n \in PoolIds, HandshakeSucceeds(n)
  PROVE  QueryInv'
<1>1. QueryInv
  BY EchInvParts
<1>2. channel \in [PoolIds -> ChannelRecords] /\ UNCHANGED <<pools, echList, refreshMu, loader>>
  BY <1>1 DEF HandshakeSucceeds, coreVars, QueryInv
<1>3. channel' \in [PoolIds -> ChannelRecords]
  BY <1>2 DEF HandshakeSucceeds, ChannelRecords
<1>4. /\ \A m \in PoolIds : m # n => channel'[m] = channel[m]
      /\ channel[n].at \notin {"none", "asked"} /\ channel'[n].at \notin {"none", "asked"}
      /\ channel'[n].at = "refresh" => channel'[n].try < Retries
  BY <1>2 DEF HandshakeSucceeds, ChannelRecords
<1>5. QED
  BY <1>2, <1>3, <1>4, ChannelMoves

LEMMA HandshakeRefusedKeeps ==
  ASSUME EchInv, NEW n \in PoolIds, HandshakeRefused(n)
  PROVE  QueryInv'
<1>1. QueryInv
  BY EchInvParts
<1>2. channel \in [PoolIds -> ChannelRecords] /\ UNCHANGED <<pools, echList, refreshMu, loader>>
  BY <1>1 DEF HandshakeRefused, coreVars, QueryInv
<1>3. channel' \in [PoolIds -> ChannelRecords]
  BY <1>1, <1>2 DEF HandshakeRefused, ChannelRecords, Refused
<1>4. /\ \A m \in PoolIds : m # n => channel'[m] = channel[m]
      /\ channel[n].at \notin {"none", "asked"} /\ channel'[n].at \notin {"none", "asked"}
      /\ channel'[n].at = "refresh" => channel'[n].try < Retries
  BY <1>2 DEF HandshakeRefused, ChannelRecords, Refused
<1>5. QED
  BY <1>2, <1>3, <1>4, ChannelMoves

LEMMA HandshakeFailsKeeps ==
  ASSUME EchInv, NEW n \in PoolIds, HandshakeFails(n)
  PROVE  QueryInv'
<1>1. QueryInv
  BY EchInvParts
<1>2. channel \in [PoolIds -> ChannelRecords] /\ UNCHANGED <<pools, echList, refreshMu, loader>>
  BY <1>1 DEF HandshakeFails, coreVars, QueryInv
<1>3. channel' \in [PoolIds -> ChannelRecords]
  BY <1>1, <1>2 DEF HandshakeFails, ChannelRecords
<1>4. /\ \A m \in PoolIds : m # n => channel'[m] = channel[m]
      /\ channel[n].at \notin {"none", "asked"} /\ channel'[n].at \notin {"none", "asked"}
      /\ channel'[n].at = "refresh" => channel'[n].try < Retries
  BY <1>2 DEF HandshakeFails, ChannelRecords
<1>5. QED
  BY <1>2, <1>3, <1>4, ChannelMoves

LEMMA NoRefreshKeeps ==
  ASSUME EchInv, NEW n \in PoolIds, NoRefresh(n)
  PROVE  QueryInv'
<1>1. QueryInv
  BY EchInvParts
<1>2. channel \in [PoolIds -> ChannelRecords] /\ UNCHANGED <<pools, echList, refreshMu, loader>>
  BY <1>1 DEF NoRefresh, coreVars, QueryInv
<1>3. channel' \in [PoolIds -> ChannelRecords]
  BY <1>1, <1>2 DEF NoRefresh, ChannelRecords, TryLeft, QueryInv
<1>4. /\ \A m \in PoolIds : m # n => channel'[m] = channel[m]
      /\ channel[n].at \notin {"none", "asked"} /\ channel'[n].at \notin {"none", "asked"}
      /\ channel'[n].at = "refresh" => channel'[n].try < Retries
  BY <1>2 DEF NoRefresh, ChannelRecords
<1>5. QED
  BY <1>2, <1>3, <1>4, ChannelMoves

LEMMA DisconnectsKeeps ==
  ASSUME EchInv, NEW n \in PoolIds, Disconnects(n)
  PROVE  QueryInv'
<1>1. QueryInv
  BY EchInvParts
<1>2. channel \in [PoolIds -> ChannelRecords] /\ UNCHANGED <<pools, echList, refreshMu, loader>>
  BY <1>1 DEF Disconnects, coreVars, QueryInv
<1>3. channel' \in [PoolIds -> ChannelRecords]
  BY <1>1, <1>2 DEF Disconnects, ChannelRecords, ChannelGoes
<1>4. /\ \A m \in PoolIds : m # n => channel'[m] = channel[m]
      /\ channel[n].at \notin {"none", "asked"} /\ channel'[n].at \notin {"none", "asked"}
      /\ channel'[n].at = "refresh" => channel'[n].try < Retries
  BY <1>2 DEF Disconnects, ChannelRecords, ChannelGoes
<1>5. QED
  BY <1>2, <1>3, <1>4, ChannelMoves

(* Into refreshECH, round its loop, and out of it.                         *)
LEMMA LockRefreshKeeps ==
  ASSUME EchInv, NEW n \in PoolIds, LockRefresh(n)
  PROVE  QueryInv'
<1>1. QueryInv /\ CoreInv /\ channel[n] \in ChannelRecords /\ n \in Nat \ {0}
  BY EchInvParts DEF QueryInv, PoolIds
<1>2. UNCHANGED <<pools, echList, loader>> /\ refreshMu = 0 /\ refreshMu' = n
  BY DEF LockRefresh, coreVars
<1>3. n <= pools /\ pools \in Nat
  BY <1>1 DEF QueryInv, ChannelOfPool, LockRefresh, CoreInv, CoreTypeOK, PoolIds
<1>4. channel' \in [PoolIds -> ChannelRecords]
  BY <1>1 DEF LockRefresh, QueryInv, ChannelRecords, CoreInv, CoreTypeOK
<1>5. /\ \A m \in PoolIds : m # n => channel'[m] = channel[m]
      /\ channel'[n].at = "asked" /\ channel'[n].try = channel[n].try
  BY <1>1 DEF LockRefresh, QueryInv, ChannelRecords
<1>6. \A m \in PoolIds : channel'[m].at = "asked" <=> refreshMu' = m
  <2>1. \A m \in PoolIds : channel[m].at # "asked"
    BY <1>1, <1>2 DEF QueryInv, PoolIds
  <2>2. QED
    BY <1>2, <1>5, <2>1
<1>7. ChannelOfPool' /\ TryLeft'
  BY <1>1, <1>2, <1>3, <1>5 DEF LockRefresh, QueryInv, ChannelOfPool, TryLeft
<1>8. refreshMu' \in 0 .. pools'
  BY <1>1, <1>2, <1>3
<1>9. QED
  BY <1>1, <1>2, <1>4, <1>6, <1>7, <1>8 DEF QueryInv

LEMMA ChannelNotAnsweredKeeps ==
  ASSUME EchInv, NEW n \in PoolIds, ChannelNotAnswered(n)
  PROVE  QueryInv'
<1>1. QueryInv /\ CoreInv /\ channel[n] \in ChannelRecords
  BY EchInvParts DEF QueryInv
<1>2. UNCHANGED <<pools, echList, refreshMu, loader>>
  BY DEF ChannelNotAnswered, coreVars
<1>3. channel' \in [PoolIds -> ChannelRecords]
  BY <1>1 DEF ChannelNotAnswered, QueryInv, ChannelRecords, CoreInv, CoreTypeOK
<1>4. \A m \in PoolIds : channel'[m].at = channel[m].at /\ channel'[m].try = channel[m].try
  BY <1>1 DEF ChannelNotAnswered, QueryInv, ChannelRecords
<1>5. QED
  BY <1>1, <1>2, <1>3, <1>4 DEF QueryInv, ChannelOfPool, TryLeft

LEMMA ChannelAnsweredKeeps ==
  ASSUME EchInv, NEW n \in PoolIds, ChannelAnswered(n)
  PROVE  QueryInv'
<1>1. QueryInv /\ CoreInv /\ channel[n] \in ChannelRecords /\ n \in Nat \ {0}
  BY EchInvParts DEF QueryInv, PoolIds
<1>2. UNCHANGED <<pools, loader>> /\ refreshMu = n /\ refreshMu' = 0
  BY <1>1 DEF ChannelAnswered, QueryInv, coreVars
<1>3. echList' \in Answering \cup {None}
  BY DEF ChannelAnswered
<1>4. channel[n].try < Retries
  BY <1>1 DEF ChannelAnswered, QueryInv, TryLeft
<1>5. channel' \in [PoolIds -> ChannelRecords]
  <2>1. [at |-> "dial", record |-> None, try |-> channel[n].try + 1] \in ChannelRecords
    BY <1>1, <1>4 DEF ChannelRecords
  <2>2. QED
    BY <1>1, <2>1 DEF ChannelAnswered, QueryInv
<1>6. /\ \A m \in PoolIds : m # n => channel'[m] = channel[m]
      /\ channel'[n].at = "dial"
  BY <1>1 DEF ChannelAnswered, QueryInv
<1>7. \A m \in PoolIds : channel'[m].at = "asked" <=> refreshMu' = m
  <2>1. \A m \in PoolIds : m # n => channel[m].at # "asked"
    BY <1>1, <1>2 DEF QueryInv
  <2>2. QED
    BY <1>2, <1>6, <2>1 DEF PoolIds
<1>8. ChannelOfPool' /\ TryLeft'
  BY <1>1, <1>2, <1>6 DEF ChannelAnswered, QueryInv, ChannelOfPool, TryLeft
<1>9. refreshMu' \in 0 .. pools'
  BY <1>1, <1>2 DEF CoreInv, CoreTypeOK
<1>10. QED
  BY <1>1, <1>2, <1>3, <1>5, <1>7, <1>8, <1>9 DEF QueryInv

-----------------------------------------------------------------------------

LEMMA EchStepInv == EchInv /\ [EchNext]_allVars => EchInv'
<1> SUFFICES ASSUME EchInv, [EchNext]_allVars PROVE EchInv'
  OBVIOUS
<1>1. CoreInv /\ ~panicked /\ QueryInv
  BY EchInvParts
<1>2. CoreInv' /\ ~panicked'
  BY <1>1, StepOfCore, CoreStepKeeps
<1>3. QueryInv'
  <2>1. ASSUME NEW c \in Callers, SpawnLoader(c) \/ SpawnChannel(c) \/ OtherCallStep(c)
        PROVE  QueryInv'
    BY <1>2, <2>1, SpawnLoaderKeeps, SpawnChannelKeeps, OtherCallKeeps
  <2>2. ASSUME NEW n \in PoolIds, LoaderStep(n) PROVE QueryInv'
    BY <2>2, LoaderKeeps
  <2>3. ASSUME NEW n \in PoolIds, ChannelStep(n) \/ Disconnects(n) PROVE QueryInv'
    BY <2>3, ChannelTopKeeps, ChannelDialsKeeps, HandshakeSucceedsKeeps,
       HandshakeRefusedKeeps, HandshakeFailsKeeps, LockRefreshKeeps, NoRefreshKeeps,
       ChannelAnsweredKeeps, ChannelNotAnsweredKeeps, DisconnectsKeeps
       DEF ChannelStep, HandshakeAnswered
  <2>4. CASE UNCHANGED allVars
    BY <1>1, <2>4 DEF allVars, coreVars, echVars, QueryInv, ChannelOfPool, TryLeft
  <2>5. QED
    BY <2>1, <2>2, <2>3, <2>4 DEF EchNext
<1>4. EchInv <=> CoreInv /\ ~panicked /\ QueryInv
  BY EchInvParts
<1>5. QED
  BY <1>2, <1>3 DEF EchInv, EchTypeOK, QueryInv, ChannelRecords, CoreInv

(* The inductive invariant of the ECH record and its goroutines.           *)
THEOREM EchInvariant == EchSpec => []EchInv
BY EchInitInv, EchStepInv, PTL DEF EchSpec

(* Every variable keeps its type; at most one channel of all pools, closed *)
(* ones included, is inside refreshECH.                                    *)
THEOREM EchTypeCorrect == EchSpec => []EchTypeOK
<1>1. EchInv => EchTypeOK
  BY DEF EchInv
<1>2. QED
  BY <1>1, EchInvariant, PTL

(* The goroutines of ECH do nothing that SocksCore does not allow: all     *)
(* that is proved of the core holds with them.                             *)
THEOREM EchKeepsCore == EchSpec => CoreSpec
<1>1. EchInit => CoreInit
  BY DEF EchInit
<1>2. EchInv /\ [EchNext]_allVars => [CoreNext]_coreVars
  BY EchInvParts, StepOfCore
<1>3. QED
  BY <1>1, <1>2, EchInvariant, PTL DEF EchSpec, CoreSpec

(* Among them the promise to run one node at a time.                       *)
THEOREM EchRunsOneNode == EchSpec => RunsOneNode
BY EchKeepsCore, CoreRunsOneNode

(* A query begun while a pool is live is for the node of that pool.        *)
LEMMA AsksLive ==
  ASSUME EchInv, [EchNext]_allVars, NEW n \in live, NEW m \in PoolIds
  PROVE  /\ loader'[m] # loader[m] => loader'[m] \in {None, profileOf[n]}
         /\ channel'[m] # channel[m] /\ channel'[m].at = "asked" =>
              channel'[m].record = profileOf[n]
<1> DEFINE Asks == /\ loader'[m] # loader[m] => loader'[m] \in {None, profileOf[n]}
                   /\ channel'[m] # channel[m] /\ channel'[m].at = "asked" =>
                        channel'[m].record = profileOf[n]
<1>1. CoreInv /\ QueryInv /\ config = profileOf[n]
  BY EchInvParts DEF CoreInv, ConfigOfLivePool
<1>2. /\ loader \in [PoolIds -> Profiles \cup {None}]
      /\ channel \in [PoolIds -> ChannelRecords]
  BY <1>1 DEF QueryInv
<1>3. ASSUME NEW c \in Callers, SpawnLoader(c) PROVE Asks
  <2>1. UNCHANGED channel
    BY <1>3 DEF SpawnLoader
  <2>2. CASE call'[c].at # "resolving"
    BY <1>3, <2>1, <2>2 DEF SpawnLoader
  <2>3. CASE call'[c].at = "resolving"
    <3>1. echPool = 0 /\ proxyListener = 0 /\ serviceMu = None
      BY <1>1, <1>3, <2>3 DEF SpawnLoader, StartLocks, Goto, CoreInv, CoreTypeOK,
                             CallTypeOK, CallRecords
    <3>2. \A d \in Callers : call[d].at \notin {"closingListener", "closingPool"}
      BY <1>1, <3>1 DEF CoreInv, MutexHeld, Locked
    <3>3. QED
      BY <1>1, <3>1, <3>2, NothingLeft
  <2>4. QED
    BY <2>2, <2>3
<1>4. ASSUME NEW c \in Callers, SpawnChannel(c) PROVE Asks
  BY <1>2, <1>4 DEF SpawnChannel, ChannelGoes, ChannelRecords
<1>5. ASSUME NEW c \in Callers, OtherCallStep(c) PROVE Asks
  BY <1>5 DEF OtherCallStep, echVars
<1>6. ASSUME NEW k \in PoolIds, LoaderStep(k) PROVE Asks
  BY <1>1, <1>2, <1>6 DEF LoaderStep, LoaderAnswered, LoaderNotAnswered
<1>7. ASSUME NEW k \in PoolIds, ChannelStep(k) \/ Disconnects(k) PROVE Asks
  <2>1. UNCHANGED loader
    BY <1>7 DEF ChannelStep, ChannelTop, ChannelDials, HandshakeAnswered, HandshakeSucceeds,
                HandshakeRefused, HandshakeFails, LockRefresh, NoRefresh, ChannelAnswered,
                ChannelNotAnswered, Disconnects
  <2>2. CASE LockRefresh(k) \/ ChannelNotAnswered(k)
    BY <1>1, <1>2, <2>1, <2>2 DEF LockRefresh, ChannelNotAnswered, ChannelRecords
  <2>3. CASE ~(LockRefresh(k) \/ ChannelNotAnswered(k))
    <3>1. /\ \A j \in PoolIds : j # k => channel'[j] = channel[j]
          /\ channel'[k].at # "asked"
      BY <1>2, <1>7, <2>3
         DEF ChannelStep, ChannelTop, ChannelDials, HandshakeAnswered, HandshakeSucceeds,
             HandshakeRefused, HandshakeFails, NoRefresh, ChannelAnswered, Disconnects,
             ChannelGoes, Refused, ChannelRecords
    <3>2. QED
      BY <2>1, <3>1
  <2>4. QED
    BY <2>2, <2>3
<1>8. CASE UNCHANGED allVars
  BY <1>8 DEF allVars, echVars
<1>9. QED
  BY <1>3, <1>4, <1>5, <1>6, <1>7, <1>8 DEF EchNext

(* So no record is fetched for another node than the one that runs,        *)
(* whichever goroutine asks and however long ago it was started.           *)
THEOREM EchAsksForLiveNode == EchSpec => AsksForLiveNode
<1>1. EchInv /\ [EchNext]_allVars =>
        [\A n \in live, m \in PoolIds :
           /\ loader'[m] # loader[m] => loader'[m] \in {None, profileOf[n]}
           /\ channel'[m] # channel[m] /\ channel'[m].at = "asked" =>
                channel'[m].record = profileOf[n]]_allVars
  BY AsksLive
<1>2. QED
  BY <1>1, EchInvariant, PTL DEF EchSpec, AsksForLiveNode
=============================================================================
