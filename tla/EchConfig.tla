------------------------------- MODULE EchConfig -------------------------------
(***************************************************************************)
(* The ECH record of xtunnel.go, echList, across starts and stops of the   *)
(* core: prepareECH asks the DNS server of the node the globals hold, in a *)
(* loop, for StartSocksProxy and for the channels of any pool whose dial   *)
(* was refused.  Neither loop ends with the start or the pool it runs for, *)
(* so that a query for the last node may be answered when the next one     *)
(* runs.                                                                   *)
(*                                                                         *)
(* A record is the node whose domain it is of.  A pool has one channel     *)
(* here, as channels meet in refreshMu only, and what a channel does with  *)
(* its session is in EchPool.                                              *)
(***************************************************************************)
EXTENDS SocksCore

CONSTANTS
  Plain,      \* nodes with fallback or insecure set: TLS without ECH
  Answering,  \* nodes whose DNS server has the record and answers, in the end
  Retries     \* how often dialWebSocketWithECH tries: 3

ASSUME EchAssumption ==
  /\ Plain \subseteq Profiles /\ Answering \subseteq Profiles
  /\ Retries \in Nat \ {0}

VARIABLES
  echList,    \* whose record it is, or None
  refreshMu,  \* the pool whose channel holds the mutex, or 0
  loader,     \* the goroutine of StartSocksProxy, by the pool that is started
  channel     \* the goroutine of the pool's channel

echVars == <<echList, refreshMu, loader, channel>>
allVars == <<coreVars, echVars>>

Fallback == config \in Plain

\* A loader: the node it has asked for, or None.  A channel: "top" of
\* dialAndServe, "dial" and "handshake" of dialWebSocketWithECH, "refresh" of
\* refreshECH and "asked" of prepareECH; "record" is what it has asked for, or
\* dials with.
NoChannel == [at |-> "none", record |-> None, try |-> 0]

EchInit ==
  /\ CoreInit
  /\ echList = None
  /\ refreshMu = 0
  /\ loader = [n \in PoolIds |-> None]
  /\ channel = [n \in PoolIds |-> NoChannel]

ChannelGoes(n, stage) == channel' = [channel EXCEPT ![n].at = stage]

-----------------------------------------------------------------------------
(* The core starts a loader with the mutex held, and a channel with the    *)
(* pool.                                                                   *)

SpawnLoader(c) ==
  /\ StartLocks(c)
  /\ loader' = IF call'[c].at = "resolving" /\ config' \notin Plain
               THEN [loader EXCEPT ![pools + 1] = config']
               ELSE loader
  /\ UNCHANGED <<echList, refreshMu, channel>>

SpawnChannel(c) ==
  /\ EchSettled(c)
  /\ ChannelGoes(pools', "top")
  /\ UNCHANGED <<echList, refreshMu, loader>>

OtherCallStep(c) ==
  /\ \/ ListenSucceeds(c) \/ ListenFails(c)
     \/ StopLocks(c) \/ StopClosesListener(c) \/ StopClosesPool(c)
     \/ CallStop(c)
     \/ \E p \in Profiles : CallStart(c, p)
  /\ UNCHANGED echVars

-----------------------------------------------------------------------------
(* prepareECH, of a loader and of a channel that holds refreshMu.  "record" *)
(* is the node whose domain it has asked for; when there is no answer it   *)
(* asks for the domain of the globals as they are by then.                 *)

LoaderAnswered(n) ==
  /\ loader[n] \in Answering
  /\ echList' = loader[n]
  /\ loader' = [loader EXCEPT ![n] = None]
  /\ UNCHANGED <<coreVars, refreshMu, channel>>

LoaderNotAnswered(n) ==
  /\ loader[n] # None
  /\ loader' = [loader EXCEPT ![n] = config]
  /\ UNCHANGED <<coreVars, echList, refreshMu, channel>>

(* The record, the mutex and the next try. *)
ChannelAnswered(n) ==
  /\ channel[n].at = "asked" /\ channel[n].record \in Answering
  /\ echList' = channel[n].record
  /\ refreshMu' = 0
  /\ channel' = [channel EXCEPT ![n] = [at |-> "dial", record |-> None, try |-> @.try + 1]]
  /\ UNCHANGED <<coreVars, loader>>

(* Mutant: the loop keeps the domain and the server it began with. *)
ChannelNotAnswered_KeepsDomain(n) ==
  /\ channel[n].at = "asked"
  /\ UNCHANGED allVars

ChannelNotAnswered(n) ==
  /\ channel[n].at = "asked"
  /\ channel' = [channel EXCEPT ![n].record = config]
  /\ UNCHANGED <<coreVars, echList, refreshMu, loader>>

-----------------------------------------------------------------------------
(* dialAndServe and dialWebSocketWithECH.                                  *)

(* Mutant: the context is not looked at. *)
ChannelTop_Always(n) ==
  /\ channel[n].at = "top"
  /\ channel' = [channel EXCEPT ![n].at = "dial", ![n].try = 1]
  /\ UNCHANGED <<coreVars, echList, refreshMu, loader>>

(* The context of the pool, then the first try. *)
ChannelTop(n) ==
  /\ channel[n].at = "top"
  /\ channel' = IF n \in live
                THEN [channel EXCEPT ![n].at = "dial", ![n].try = 1]
                ELSE [channel EXCEPT ![n].at = "exited"]
  /\ UNCHANGED <<coreVars, echList, refreshMu, loader>>

(* After a failure on ECH, unless it was the last try. *)
Refused(n) == IF channel[n].try < Retries THEN "refresh" ELSE "top"

(* buildUnifiedTLSConfig: no record is needed, or there is one, or not. *)
ChannelDials(n) ==
  /\ channel[n].at = "dial"
  /\ channel' =
       IF Fallback THEN [channel EXCEPT ![n].at = "handshake", ![n].record = None]
       ELSE IF echList # None THEN [channel EXCEPT ![n].at = "handshake", ![n].record = echList]
       ELSE [channel EXCEPT ![n].at = Refused(n)]
  /\ UNCHANGED <<coreVars, echList, refreshMu, loader>>

(* The server knows its own record, and takes TLS without any. *)
HandshakeSucceeds(n) ==
  /\ channel[n].at = "handshake"
  /\ channel[n].record \in {None, profileOf[n]}
  /\ channel' = [channel EXCEPT ![n] = [at |-> "connected", record |-> None, try |-> 0]]
  /\ UNCHANGED <<coreVars, echList, refreshMu, loader>>

HandshakeRefused(n) ==
  /\ channel[n].at = "handshake"
  /\ channel[n].record \notin {None, profileOf[n]}
  /\ channel' = [channel EXCEPT ![n].at = IF Fallback THEN "top" ELSE Refused(n), ![n].record = None]
  /\ UNCHANGED <<coreVars, echList, refreshMu, loader>>

(* The network fails, the token is refused: dialAndServe tries again. *)
HandshakeFails(n) ==
  /\ channel[n].at = "handshake"
  /\ channel' = [channel EXCEPT ![n].at = "top", ![n].record = None]
  /\ UNCHANGED <<coreVars, echList, refreshMu, loader>>

(* Mutant: refreshes are not kept apart. *)
LockRefresh_Not(n) ==
  /\ channel[n].at = "refresh"
  /\ refreshMu' = n
  /\ channel' = [channel EXCEPT ![n].at = "asked", ![n].record = config]
  /\ UNCHANGED <<coreVars, echList, loader>>

(* refreshECH. *)
LockRefresh(n) ==
  /\ channel[n].at = "refresh" /\ ~Fallback
  /\ refreshMu = 0
  /\ refreshMu' = n
  /\ channel' = [channel EXCEPT ![n].at = "asked", ![n].record = config]
  /\ UNCHANGED <<coreVars, echList, loader>>

NoRefresh(n) ==
  /\ channel[n].at = "refresh" /\ Fallback
  /\ channel' = [channel EXCEPT ![n].at = "dial", ![n].try = @ + 1]
  /\ UNCHANGED <<coreVars, echList, refreshMu, loader>>

(* The connection breaks, or the pool is closed. *)
Disconnects(n) ==
  /\ channel[n].at = "connected"
  /\ ChannelGoes(n, "top")
  /\ UNCHANGED <<coreVars, echList, refreshMu, loader>>

-----------------------------------------------------------------------------

LoaderStep(n) == LoaderAnswered(n) \/ LoaderNotAnswered(n)

HandshakeAnswered(n) == HandshakeSucceeds(n) \/ HandshakeRefused(n)

ChannelStep(n) ==
  \/ ChannelTop(n) \/ ChannelDials(n) \/ HandshakeAnswered(n) \/ HandshakeFails(n)
  \/ LockRefresh(n) \/ NoRefresh(n) \/ ChannelAnswered(n) \/ ChannelNotAnswered(n)
  \/ n \notin live /\ Disconnects(n)

EchNext ==
  \/ \E c \in Callers : SpawnLoader(c) \/ SpawnChannel(c) \/ OtherCallStep(c)
  \/ \E n \in PoolIds : LoaderStep(n) \/ ChannelStep(n) \/ (n \in live /\ Disconnects(n))

(* Goroutines run, and a connection of a closed pool ends.  To ask the     *)
(* same server again is a stutter, so that one of Answering does answer in *)
(* the end; a dial of a live pool reaches its server in the end.  Nothing  *)
(* is assumed of the callers.                                              *)
EchFairness ==
  /\ \A n \in PoolIds : WF_allVars(LoaderStep(n)) /\ WF_allVars(ChannelStep(n))
  /\ SF_allVars(\E n \in live : HandshakeAnswered(n))

EchSpec == EchInit /\ [][EchNext]_allVars /\ EchFairness

-----------------------------------------------------------------------------
(* Types; and at most one channel of all pools is inside refreshECH. *)
EchTypeOK ==
  /\ CoreTypeOK
  /\ echList \in Answering \cup {None}
  /\ refreshMu \in 0 .. pools
  /\ loader \in [PoolIds -> Profiles \cup {None}]
  /\ channel \in [PoolIds -> [at : {"none", "top", "dial", "handshake", "refresh", "asked",
                                    "connected", "exited"},
                              record : Profiles \cup {None}, try : 0 .. Retries]]
  /\ \A n \in PoolIds : channel[n].at = "asked" <=> refreshMu = n

(* What makes them inductive: a channel comes with its pool, one that      *)
(* refreshes has a try left, and without connections nothing panics.       *)
ChannelOfPool == \A n \in PoolIds : channel[n].at = "none" <=> n > pools

TryLeft == \A n \in PoolIds : channel[n].at \in {"refresh", "asked"} => channel[n].try < Retries

EchInv == CoreInv /\ ~panicked /\ EchTypeOK /\ ChannelOfPool /\ TryLeft

(* From when a pool is live every query that is begun is for its node,     *)
(* whoever begins it: the loader of a start before, the channel of a pool  *)
(* that has been closed, or its own.  The globals prepareECH reads are not *)
(* those of a start to come.                                               *)
AsksForLiveNode ==
  [][\A n \in live, m \in PoolIds :
       /\ loader'[m] # loader[m] => loader'[m] \in {None, profileOf[n]}
       /\ channel'[m] # channel[m] /\ channel'[m].at = "asked" =>
            channel'[m].record = profileOf[n]]_allVars

(* A late answer for the node before, or a loop that hangs on a node that  *)
(* does not answer, does not keep the next node from connecting: its       *)
(* dials are refused until echList is its own again, and whoever is in the *)
(* loop asks for the node of the globals the next time.                    *)
EchHeals ==
  \A n \in PoolIds :
    n \in live /\ profileOf[n] \in Answering \cup Plain
      ~> channel[n].at = "connected" \/ n \notin live

(* The goroutines of a pool that has been closed end, if the node that is  *)
(* current from then on answers: they may be in prepareECH, which does not *)
(* look at the context, or wait for it.                                    *)
ClosedChannelsExit ==
  \A n \in PoolIds :
    <>[](pools >= n /\ n \notin live /\ config \in Answering) => <>(channel[n].at = "exited")
=============================================================================
