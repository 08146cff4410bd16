------------------------------- MODULE EchPool -------------------------------
(***************************************************************************)
(* The websocket channel pool of xtunnel.go (type ECHPool).                *)
(*                                                                         *)
(* Every channel has a goroutine, dialAndServe, that dials, publishes a    *)
(* smux session in its slot of smuxConns, spawns a goroutine that probes   *)
(* the RTT of that session, and tears the session down when it dies or     *)
(* when the pool is closed.  Close runs in the goroutine of the caller of  *)
(* StopSocksProxy; openBestStream runs in the goroutines of the SOCKS5     *)
(* clients.  An action is a stretch of one goroutine between two points    *)
(* where another may run; a section under wsConnsMu is one action.         *)
(*                                                                         *)
(* The k-th session a channel dials is the number k; 0 stands for nil.     *)
(***************************************************************************)
EXTENDS Integers, FiniteSets

CONSTANTS
  Channels,      \* indices of smuxConns
  Clients,       \* goroutines that call openBestStream
  MaxDials,      \* bound: successful dials of one channel
  Retries,       \* attempts of one dialWebSocketWithECH call (3 in the code)
  UseEch,        \* the scheme is wss and fallback is off
  RTTs,          \* round trips a probe may measure
  ProbeTimeout,  \* cfg.RTTProbeTimeout
  TieWindow,     \* the 10 ms of openBestStream
  NoChannel      \* no holder of refreshMu

ASSUME PoolAssumption ==
  /\ MaxDials \in Nat \ {0}
  /\ Retries \in Nat \ {0}
  /\ UseEch \in BOOLEAN
  /\ ProbeTimeout \in Nat \ {0}
  /\ RTTs \subseteq 1 .. ProbeTimeout
  /\ TieWindow \in Nat
  /\ NoChannel \notin Channels

VARIABLES
  closing,   \* progress of Close: "running", "cancelled", "closed"
  slot,      \* smuxConns
  rtt,       \* channelRTT, with the session the value was measured on
  pc,        \* where the goroutine of a channel is
  sess,      \* its local sess: the latest session it dialled
  tries,     \* the loop counter of dialWebSocketWithECH
  refreshMu, \* the channel that holds refreshMu
  state,     \* of each session: "none", "open", "broken", "closed"
  probe,     \* the goroutine probing a session: "none", "tick", "probing", "done"
  client     \* the progress of each openBestStream caller

vars == <<closing, slot, rtt, pc, sess, tries, refreshMu, state, probe, client>>

Sessions == 1 .. MaxDials

Unmeasured == [ns |-> 0, of |-> 0]

Idle == [st |-> "idle"]

\* Points where dialAndServe may be interrupted.
Steps == {"loop", "dialing", "wantRefresh", "refreshing", "retryWait",
          "publish", "probeOnce", "spawn", "select", "drainExit", "drain",
          "teardown", "exited"}

-----------------------------------------------------------------------------

(* ctx.Done() is readable. *)
Cancelled == closing # "running"

IsClosed(i, k) == state[i][k] = "closed"

(* wsNet.Dead() is readable: a read or write failed, or Close was called. *)
IsDead(i, k) == state[i][k] \in {"broken", "closed"}

(* sess.Close() closes the websocket too, which signals wsNet dead. *)
SessionClosed(i, k) == [state EXCEPT ![i][k] = "closed"]

Goto(i, step) == pc' = [pc EXCEPT ![i] = step]

-----------------------------------------------------------------------------
(* dialAndServe, up to the published session.                              *)

CheckContext(i) ==
  /\ pc[i] = "loop"
  /\ Goto(i, IF Cancelled THEN "exited" ELSE "dialing")
  /\ tries' = [tries EXCEPT ![i] = 1]
  /\ UNCHANGED <<closing, slot, rtt, sess, refreshMu, state, probe, client>>

(* The dial, and smux.Client on the connection it returns. *)
DialSucceeds(i) ==
  /\ pc[i] = "dialing"
  /\ sess[i] < MaxDials
  /\ sess' = [sess EXCEPT ![i] = @ + 1]
  /\ state' = [state EXCEPT ![i][sess[i] + 1] = "open"]
  /\ Goto(i, "publish")
  /\ UNCHANGED <<closing, slot, rtt, tries, refreshMu, probe, client>>

(* A refused or unauthorised dial, or smux.Client failing. *)
DialFails(i) ==
  /\ pc[i] = "dialing"
  /\ Goto(i, "retryWait")
  /\ UNCHANGED <<closing, slot, rtt, sess, tries, refreshMu, state, probe, client>>

(* Mutant: the refresh is made after the last attempt as well. *)
DialFailsOnEch_Always(i) ==
  /\ pc[i] = "dialing"
  /\ UseEch
  /\ Goto(i, "wantRefresh")
  /\ UNCHANGED <<closing, slot, rtt, sess, tries, refreshMu, state, probe, client>>

(* No ECH list is loaded, or the handshake failed on ECH: refreshECH runs  *)
(* before the next attempt.                                                *)
DialFailsOnEch(i) ==
  /\ pc[i] = "dialing"
  /\ UseEch
  /\ tries[i] < Retries
  /\ Goto(i, "wantRefresh")
  /\ UNCHANGED <<closing, slot, rtt, sess, tries, refreshMu, state, probe, client>>

LockRefresh(i) ==
  /\ pc[i] = "wantRefresh"
  /\ refreshMu = NoChannel
  /\ refreshMu' = i
  /\ Goto(i, "refreshing")
  /\ UNCHANGED <<closing, slot, rtt, sess, tries, state, probe, client>>

(* prepareECH retries for ever, and never looks at ctx: it returns only    *)
(* when the DNS server answers with an ECH record.                         *)
EchLoaded(i) ==
  /\ pc[i] = "refreshing"
  /\ refreshMu' = NoChannel
  /\ tries' = [tries EXCEPT ![i] = @ + 1]
  /\ Goto(i, "dialing")
  /\ UNCHANGED <<closing, slot, rtt, sess, state, probe, client>>

(* The select on ctx.Done() and a timer, after a failure or a teardown. *)
RetryWaitEnds(i) ==
  /\ pc[i] = "retryWait"
  /\ \/ Goto(i, "loop")
     \/ Cancelled /\ Goto(i, "exited")
  /\ UNCHANGED <<closing, slot, rtt, sess, tries, refreshMu, state, probe, client>>

-----------------------------------------------------------------------------
(* dialAndServe, from the published session on.                            *)

(* The slot is written whether or not Close has already emptied it.  The   *)
(* call of probeChannelRTTOnce that follows fails at once on a session     *)
(* that is closed.                                                         *)
Publish(i) ==
  /\ pc[i] = "publish"
  /\ slot' = [slot EXCEPT ![i] = sess[i]]
  /\ rtt' = [rtt EXCEPT ![i] = Unmeasured]
  /\ Goto(i, IF IsClosed(i, sess[i]) THEN "spawn" ELSE "probeOnce")
  /\ UNCHANGED <<closing, sess, tries, refreshMu, state, probe, client>>

(* The ack may have arrived before the session was lost, so the store      *)
(* happens whatever the session is now.                                    *)
ProbeOnceReturns(i) ==
  /\ pc[i] = "probeOnce"
  /\ \/ \E ns \in RTTs : rtt' = [rtt EXCEPT ![i] = [ns |-> ns, of |-> sess[i]]]
     \/ UNCHANGED rtt
  /\ Goto(i, "spawn")
  /\ UNCHANGED <<closing, slot, sess, tries, refreshMu, state, probe, client>>

SpawnProbe(i) ==
  /\ pc[i] = "spawn"
  /\ probe' = [probe EXCEPT ![i][sess[i]] = "tick"]
  /\ Goto(i, "select")
  /\ UNCHANGED <<closing, slot, rtt, sess, tries, refreshMu, state, client>>

(* Mutant: the cancelled case returns at once. *)
SelectCancelled_JustReturns(i) ==
  /\ pc[i] = "select"
  /\ Cancelled
  /\ Goto(i, "exited")
  /\ UNCHANGED <<closing, slot, rtt, sess, tries, refreshMu, state, probe, client>>

(* Mutant: the cancelled case leaves the session to Close. *)
SelectCancelled_NoClose(i) ==
  /\ pc[i] = "select"
  /\ Cancelled
  /\ Goto(i, "drainExit")
  /\ UNCHANGED <<closing, slot, rtt, sess, tries, refreshMu, state, probe, client>>

SelectCancelled(i) ==
  /\ pc[i] = "select"
  /\ Cancelled
  /\ state' = SessionClosed(i, sess[i])
  /\ Goto(i, "drainExit")
  /\ UNCHANGED <<closing, slot, rtt, sess, tries, refreshMu, probe, client>>

(* Mutant: the dead case waits for the probe without closing the session. *)
SelectDead_NoClose(i) ==
  /\ pc[i] = "select"
  /\ IsDead(i, sess[i])
  /\ Goto(i, "drain")
  /\ UNCHANGED <<closing, slot, rtt, sess, tries, refreshMu, state, probe, client>>

SelectDead(i) ==
  /\ pc[i] = "select"
  /\ IsDead(i, sess[i])
  /\ state' = SessionClosed(i, sess[i])
  /\ Goto(i, "drain")
  /\ UNCHANGED <<closing, slot, rtt, sess, tries, refreshMu, probe, client>>

SelectProbeDone(i) ==
  /\ pc[i] = "select"
  /\ probe[i][sess[i]] = "done"
  /\ Goto(i, "teardown")
  /\ UNCHANGED <<closing, slot, rtt, sess, tries, refreshMu, state, probe, client>>

(* Mutant: nobody waits for the probe of the session to end. *)
DrainProbe_NoWait(i) ==
  /\ pc[i] \in {"drain", "drainExit"}
  /\ Goto(i, IF pc[i] = "drain" THEN "teardown" ELSE "exited")
  /\ UNCHANGED <<closing, slot, rtt, sess, tries, refreshMu, state, probe, client>>

(* The two receives from done that follow a Close of the session. *)
DrainProbe(i) ==
  /\ pc[i] \in {"drain", "drainExit"}
  /\ probe[i][sess[i]] = "done"
  /\ Goto(i, IF pc[i] = "drain" THEN "teardown" ELSE "exited")
  /\ UNCHANGED <<closing, slot, rtt, sess, tries, refreshMu, state, probe, client>>

Teardown(i) ==
  /\ pc[i] = "teardown"
  /\ state' = SessionClosed(i, sess[i])
  /\ slot' = [slot EXCEPT ![i] = 0]
  /\ rtt' = [rtt EXCEPT ![i] = Unmeasured]
  /\ Goto(i, "retryWait")
  /\ UNCHANGED <<closing, sess, tries, refreshMu, probe, client>>

-----------------------------------------------------------------------------
(* probeChannelRTT of the k-th session of channel i.                       *)

(* Mutant: a failed probe never looks at whether the session is closed. *)
ProbeFailed_KeepsTicking(i, k) ==
  /\ rtt' = [rtt EXCEPT ![i] = [ns |-> ProbeTimeout, of |-> k]]
  /\ probe' = [probe EXCEPT ![i][k] = "tick"]

ProbeFailed(i, k) ==
  /\ rtt' = [rtt EXCEPT ![i] = [ns |-> ProbeTimeout, of |-> k]]
  /\ probe' = [probe EXCEPT ![i][k] = IF IsClosed(i, k) THEN "done" ELSE "tick"]

(* A tick: OpenStream fails at once on a closed session. *)
ProbeStarts(i, k) ==
  /\ probe[i][k] = "tick"
  /\ IF IsClosed(i, k)
     THEN ProbeFailed(i, k)
     ELSE probe' = [probe EXCEPT ![i][k] = "probing"] /\ UNCHANGED rtt
  /\ UNCHANGED <<closing, slot, pc, sess, tries, refreshMu, state, client>>

(* The deadline of the stream bounds the wait for the ack. *)
ProbeReturns(i, k) ==
  /\ probe[i][k] = "probing"
  /\ \/ \E ns \in RTTs : /\ rtt' = [rtt EXCEPT ![i] = [ns |-> ns, of |-> k]]
                         /\ probe' = [probe EXCEPT ![i][k] = "tick"]
     \/ ProbeFailed(i, k)
  /\ UNCHANGED <<closing, slot, pc, sess, tries, refreshMu, state, client>>

-----------------------------------------------------------------------------
(* Close, called once (closeOnce).                                         *)

Cancel ==
  /\ closing = "running"
  /\ closing' = "cancelled"
  /\ UNCHANGED <<slot, rtt, pc, sess, tries, refreshMu, state, probe, client>>

CloseSlots ==
  /\ closing = "cancelled"
  /\ closing' = "closed"
  /\ state' = [i \in Channels |->
                [k \in Sessions |-> IF k = slot[i] THEN "closed" ELSE state[i][k]]]
  /\ slot' = [i \in Channels |-> 0]
  /\ rtt' = [i \in Channels |-> Unmeasured]
  /\ UNCHANGED <<pc, sess, tries, refreshMu, probe, client>>

-----------------------------------------------------------------------------
(* openBestStream, on whatever pool the caller still refers to.            *)

Candidates == {i \in Channels : slot[i] # 0 /\ ~IsClosed(i, slot[i])}

Rated(i) == IF rtt[i].ns <= 0 THEN ProbeTimeout ELSE rtt[i].ns

Near == {i \in Candidates : \A j \in Candidates : Rated(i) <= Rated(j) + TieWindow}

(* Under the read lock: the candidates; then one of those close to the     *)
(* best, which one depending on selectCounter.  Without a candidate the    *)
(* call fails and the caller stays idle.                                   *)
PickChannel(c) ==
  /\ client[c] = Idle
  /\ \E i \in Near : client' = [client EXCEPT ![c] = [st |-> "picked", ch |-> i]]
  /\ UNCHANGED <<closing, slot, rtt, pc, sess, tries, refreshMu, state, probe>>

(* Under a second read lock: the slot may hold another session by now, or  *)
(* none.  OpenStream may still fail on a broken session.                   *)
OpenStream(c) ==
  /\ client[c].st = "picked"
  /\ LET i == client[c].ch
         k == slot[i]
         opened == [client EXCEPT ![c] = [st |-> "open", ch |-> i, of |-> k]]
         failed == [client EXCEPT ![c] = Idle]
     IN IF k = 0 THEN client' = failed
        ELSE \/ ~IsClosed(i, k) /\ client' = opened
             \/ IsDead(i, k) /\ client' = failed
  /\ UNCHANGED <<closing, slot, rtt, pc, sess, tries, refreshMu, state, probe>>

(* The relayed connection ends by itself, or its session is closed and     *)
(* every stream of it fails.                                               *)
StreamEnds(c) ==
  /\ client[c].st = "open"
  /\ client' = [client EXCEPT ![c] = Idle]
  /\ UNCHANGED <<closing, slot, rtt, pc, sess, tries, refreshMu, state, probe>>

-----------------------------------------------------------------------------
(* The network.                                                            *)

(* A read or a write of the websocket fails: wsNet signals dead. *)
ConnectionBreaks(i, k) ==
  /\ state[i][k] = "open"
  /\ state' = [state EXCEPT ![i][k] = "broken"]
  /\ UNCHANGED <<closing, slot, rtt, pc, sess, tries, refreshMu, probe, client>>

(* smux closes a session whose peer has been silent for too long. *)
KeepAliveTimeout(i, k) ==
  /\ state[i][k] \in {"open", "broken"}
  /\ state' = SessionClosed(i, k)
  /\ UNCHANGED <<closing, slot, rtt, pc, sess, tries, refreshMu, probe, client>>

-----------------------------------------------------------------------------

Init ==
  /\ closing = "running"
  /\ slot = [i \in Channels |-> 0]
  /\ rtt = [i \in Channels |-> Unmeasured]
  /\ pc = [i \in Channels |-> "loop"]
  /\ sess = [i \in Channels |-> 0]
  /\ tries = [i \in Channels |-> 1]
  /\ refreshMu = NoChannel
  /\ state = [i \in Channels |-> [k \in Sessions |-> "none"]]
  /\ probe = [i \in Channels |-> [k \in Sessions |-> "none"]]
  /\ client = [c \in Clients |-> Idle]

DialReturns(i) == DialSucceeds(i) \/ DialFails(i) \/ DialFailsOnEch(i)

(* The steps of dialAndServe that are its own to take. *)
ChannelStep(i) ==
  \/ CheckContext(i)
  \/ DialReturns(i)
  \/ LockRefresh(i)
  \/ RetryWaitEnds(i)
  \/ Publish(i)
  \/ ProbeOnceReturns(i)
  \/ SpawnProbe(i)
  \/ SelectCancelled(i)
  \/ SelectDead(i)
  \/ SelectProbeDone(i)
  \/ DrainProbe(i)
  \/ Teardown(i)

ProbeStep(i, k) == ProbeStarts(i, k) \/ ProbeReturns(i, k)

ClientStep(c) == PickChannel(c) \/ OpenStream(c) \/ StreamEnds(c)

Next ==
  \/ \E i \in Channels : ChannelStep(i) \/ EchLoaded(i)
  \/ \E i \in Channels, k \in Sessions :
       ProbeStep(i, k) \/ ConnectionBreaks(i, k) \/ KeepAliveTimeout(i, k)
  \/ Cancel
  \/ CloseSlots
  \/ \E c \in Clients : ClientStep(c)

Spec == Init /\ [][Next]_vars

(* Goroutines are scheduled fairly, a dial and a probe return because they *)
(* have deadlines, and Close goes on once it has started.  Nothing obliges *)
(* a DNS server to answer, a network to break or a user to stop the pool;  *)
(* a stream has to end only when its session is closed.                    *)
Fairness ==
  /\ \A i \in Channels : WF_vars(ChannelStep(i))
  /\ \A i \in Channels, k \in Sessions : WF_vars(ProbeStep(i, k))
  /\ WF_vars(CloseSlots)
  /\ \A c \in Clients : /\ WF_vars(OpenStream(c))
                        /\ WF_vars(StreamEnds(c) /\ IsClosed(client[c].ch, client[c].of))

FairSpec == Spec /\ Fairness

-----------------------------------------------------------------------------

ClientStates ==
  {Idle} \cup [st : {"picked"}, ch : Channels]
         \cup [st : {"open"}, ch : Channels, of : Sessions]

(* Every variable has the type its Go counterpart has, and a refresh is    *)
(* only ever made when dialWebSocketWithECH has an attempt left.           *)
TypeOK ==
  /\ closing \in {"running", "cancelled", "closed"}
  /\ slot \in [Channels -> 0 .. MaxDials]
  /\ rtt \in [Channels -> [ns : 0 .. ProbeTimeout, of : 0 .. MaxDials]]
  /\ pc \in [Channels -> Steps]
  /\ sess \in [Channels -> 0 .. MaxDials]
  /\ tries \in [Channels -> 1 .. Retries]
  /\ \A i \in Channels : pc[i] \in {"wantRefresh", "refreshing"} => tries[i] < Retries
  /\ refreshMu \in Channels \cup {NoChannel}
  /\ state \in [Channels -> [Sessions -> {"none", "open", "broken", "closed"}]]
  /\ probe \in [Channels -> [Sessions -> {"none", "tick", "probing", "done"}]]
  /\ client \in [Clients -> ClientStates]

(* The RTT openBestStream reads for a channel was measured on the session  *)
(* that is in the slot: the probe of a session the channel has replaced    *)
(* never rates the new one.  It is what the receives from done in          *)
(* dialAndServe are for.                                                   *)
RttOfPublishedSession ==
  \A i \in Channels : slot[i] # 0 /\ rtt[i].ns # 0 => rtt[i].of = slot[i]

(* Points of dialAndServe at which the goroutine answers for its session. *)
Serving == {"publish", "probeOnce", "spawn", "select", "drainExit", "drain", "teardown"}

(* A session that is not closed is the latest one of a goroutine that has  *)
(* still to close it: no interleaving of dial, death, probe and Close      *)
(* strands an open websocket.                                              *)
OpenSessionHasOwner ==
  \A i \in Channels, k \in Sessions :
    state[i][k] \in {"open", "broken"} => k = sess[i] /\ pc[i] \in Serving

(* What makes the two invariants above inductive: a slot holds nothing but *)
(* the latest session of its goroutine, and the probe of a session runs    *)
(* only while the goroutine waits for it.                                  *)
Waiting == {"select", "drainExit", "drain"}

SlotIsLatest ==
  \A i \in Channels : slot[i] # 0 =>
    /\ slot[i] = sess[i]
    /\ pc[i] \in {"probeOnce", "spawn", "teardown", "exited"} \cup Waiting

ProbeIsAwaited ==
  \A i \in Channels, k \in Sessions :
    probe[i][k] \in {"tick", "probing"} => k = sess[i] /\ pc[i] \in Waiting

ServingHasSession == \A i \in Channels : pc[i] \in Serving => sess[i] # 0

DrainedIsClosed ==
  \A i \in Channels : pc[i] \in {"drainExit", "drain"} => IsClosed(i, sess[i])

IInv ==
  /\ TypeOK
  /\ RttOfPublishedSession
  /\ OpenSessionHasOwner
  /\ SlotIsLatest
  /\ ProbeIsAwaited
  /\ ServingHasSession
  /\ DrainedIsClosed

(* Once the pool is cancelled it comes to hold no open session and no open *)
(* stream for good, also when a dial was under way and publishes its       *)
(* session after Close has emptied the slots.                              *)
ReleasedAfterClose ==
  Cancelled ~> [](/\ \A i \in Channels, k \in Sessions : state[i][k] \in {"none", "closed"}
                  /\ \A c \in Clients : client[c].st # "open")

(* Once the pool is cancelled every channel goroutine ends, except one     *)
(* that waits for an ECH record: refreshECH does not look at the context.  *)
ChannelsExitAfterClose ==
  Cancelled ~> [](\A i \in Channels : pc[i] \in {"exited", "wantRefresh", "refreshing"})

(* A published session whose websocket has died leaves its slot, so that   *)
(* openBestStream stops offering it, unless the pool is being closed.      *)
DeadSessionRetired ==
  \A i \in Channels, k \in Sessions :
    slot[i] = k /\ state[i][k] = "broken" ~> slot[i] # k \/ Cancelled
=============================================================================
