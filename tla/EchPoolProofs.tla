---------------------------- MODULE EchPoolProofs ----------------------------
(* Safety of the channel pool, for every number of channels, of callers    *)
(* and of reconnections.                                                   *)
EXTENDS EchPool, TLAPS

USE PoolAssumption

(* The pool starts well typed. *)
LEMMA InitType == Init => TypeOK
<1> SUFFICES ASSUME Init PROVE TypeOK
  OBVIOUS
<1>1. client \in [Clients -> ClientStates]
  BY DEF Init, ClientStates
<1>2. /\ rtt \in [Channels -> [ns : 0 .. ProbeTimeout, of : 0 .. MaxDials]]
      /\ tries \in [Channels -> 1 .. Retries]
  BY DEF Init, Unmeasured
<1>3. /\ state \in [Channels -> [Sessions -> {"none", "open", "broken", "closed"}]]
      /\ probe \in [Channels -> [Sessions -> {"none", "tick", "probing", "done"}]]
  BY DEF Init
<1>4. QED
  BY <1>1, <1>2, <1>3 DEF Init, TypeOK, Steps

(* Every step keeps the types: the channel goroutine's, *)
LEMMA ChannelType ==
  ASSUME TypeOK, NEW i \in Channels, ChannelStep(i) \/ EchLoaded(i)
  PROVE  TypeOK'
<1> USE DEF TypeOK, Steps, Goto
<1>1. CASE CheckContext(i)
  BY <1>1 DEF CheckContext
<1>2. CASE DialSucceeds(i)
  <2>1. sess[i] \in 0 .. MaxDials /\ sess[i] + 1 \in 1 .. MaxDials
    BY <1>2 DEF DialSucceeds
  <2>2. sess' \in [Channels -> 0 .. MaxDials] /\ pc' \in [Channels -> Steps]
    BY <1>2, <2>1 DEF DialSucceeds
  <2>3. state' \in [Channels -> [Sessions -> {"none", "open", "broken", "closed"}]]
    BY <1>2, <2>1 DEF DialSucceeds, Sessions
  <2>4. QED
    BY <1>2, <2>2, <2>3 DEF DialSucceeds
<1>3. CASE DialFails(i)
  BY <1>3 DEF DialFails
<1>4. CASE DialFailsOnEch(i)
  BY <1>4 DEF DialFailsOnEch
<1>5. CASE LockRefresh(i)
  BY <1>5 DEF LockRefresh
<1>6. CASE EchLoaded(i)
  BY <1>6 DEF EchLoaded
<1>7. CASE RetryWaitEnds(i)
  BY <1>7 DEF RetryWaitEnds
<1>8. CASE Publish(i)
  BY <1>8 DEF Publish, Unmeasured, IsClosed
<1>9. CASE ProbeOnceReturns(i)
  <2>1. rtt' \in [Channels -> [ns : 0 .. ProbeTimeout, of : 0 .. MaxDials]]
    <3>1. CASE UNCHANGED rtt
      BY <3>1
    <3>2. ASSUME NEW ns \in RTTs, rtt' = [rtt EXCEPT ![i] = [ns |-> ns, of |-> sess[i]]]
          PROVE  rtt' \in [Channels -> [ns : 0 .. ProbeTimeout, of : 0 .. MaxDials]]
      <4>1. ns \in 0 .. ProbeTimeout
        OBVIOUS
      <4>2. QED
        BY <3>2, <4>1
    <3>3. QED
      BY <1>9, <3>1, <3>2 DEF ProbeOnceReturns
  <2>2. QED
    BY <1>9, <2>1 DEF ProbeOnceReturns
<1>10. CASE SpawnProbe(i)
  BY <1>10 DEF SpawnProbe
<1>11. CASE SelectCancelled(i)
  BY <1>11 DEF SelectCancelled, SessionClosed
<1>12. CASE SelectDead(i)
  BY <1>12 DEF SelectDead, SessionClosed
<1>13. CASE SelectProbeDone(i)
  BY <1>13 DEF SelectProbeDone
<1>14. CASE DrainProbe(i)
  BY <1>14 DEF DrainProbe
<1>15. CASE Teardown(i)
  <2>1. rtt' \in [Channels -> [ns : 0 .. ProbeTimeout, of : 0 .. MaxDials]]
    BY <1>15 DEF Teardown, Unmeasured
  <2>2. state' \in [Channels -> [Sessions -> {"none", "open", "broken", "closed"}]]
    BY <1>15 DEF Teardown, SessionClosed
  <2>3. QED
    BY <1>15, <2>1, <2>2 DEF Teardown
<1>16. QED
  BY <1>1, <1>2, <1>3, <1>4, <1>5, <1>6, <1>7, <1>8, <1>9, <1>10, <1>11, <1>12, <1>13,
     <1>14, <1>15
  DEF ChannelStep, DialReturns

(* the probes', *)
LEMMA ProbeType ==
  ASSUME TypeOK, NEW i \in Channels, NEW k \in Sessions, ProbeStep(i, k)
  PROVE  TypeOK'
<1> USE DEF TypeOK
<1>1. CASE ProbeFailed(i, k) /\ UNCHANGED <<closing, slot, pc, sess, tries, refreshMu, state, client>>
  <2>1. [ns |-> ProbeTimeout, of |-> k] \in [ns : 0 .. ProbeTimeout, of : 0 .. MaxDials]
    BY DEF Sessions
  <2>2. QED
    BY <1>1, <2>1 DEF ProbeFailed
<1>2. CASE ProbeStarts(i, k)
  <2>1. CASE IsClosed(i, k)
    BY <1>1, <1>2, <2>1 DEF ProbeStarts
  <2>2. CASE ~IsClosed(i, k)
    <3>1. /\ probe' = [probe EXCEPT ![i][k] = "probing"]
          /\ UNCHANGED <<closing, slot, rtt, pc, sess, tries, refreshMu, state, client>>
      BY <1>2, <2>2 DEF ProbeStarts
    <3>2. QED
      BY <3>1
  <2>3. QED
    BY <2>1, <2>2
<1>3. CASE ProbeReturns(i, k)
  <2>1. ASSUME NEW ns \in RTTs, rtt' = [rtt EXCEPT ![i] = [ns |-> ns, of |-> k]]
        PROVE  rtt' \in [Channels -> [ns : 0 .. ProbeTimeout, of : 0 .. MaxDials]]
    <3>1. [ns |-> ns, of |-> k] \in [ns : 0 .. ProbeTimeout, of : 0 .. MaxDials]
      BY DEF Sessions
    <3>2. QED
      BY <2>1, <3>1
  <2>2. CASE ProbeFailed(i, k)
    BY <1>1, <1>3, <2>2 DEF ProbeReturns
  <2>3. CASE ~ProbeFailed(i, k)
    <3>1. PICK ns \in RTTs :
            /\ rtt' = [rtt EXCEPT ![i] = [ns |-> ns, of |-> k]]
            /\ probe' = [probe EXCEPT ![i][k] = "tick"]
            /\ UNCHANGED <<closing, slot, pc, sess, tries, refreshMu, state, client>>
      BY <1>3, <2>3 DEF ProbeReturns
    <3>2. QED
      BY <2>1, <3>1
  <2>4. QED
    BY <2>2, <2>3
<1>4. QED
  BY <1>2, <1>3 DEF ProbeStep

(* the callers', *)
LEMMA ClientType ==
  ASSUME TypeOK, NEW c \in Clients, ClientStep(c)
  PROVE  TypeOK'
<1> USE DEF TypeOK
<1>1. client' \in [Clients -> ClientStates]
  <2>1. CASE PickChannel(c)
    BY <2>1 DEF PickChannel, ClientStates, Near, Candidates
  <2>2. CASE OpenStream(c)
    <3>1. client[c].ch \in Channels
      <4>1. client[c] \in ClientStates /\ client[c].st = "picked"
        BY <2>2 DEF OpenStream
      <4>2. client[c] # Idle
        BY <4>1 DEF Idle
      <4>3. QED
        BY <4>1, <4>2 DEF ClientStates
    <3>2. DEFINE i == client[c].ch
    <3>3. slot[i] = 0 \/ slot[i] \in Sessions
      BY <3>1 DEF Sessions
    <3>4. slot[i] \in Sessions => [st |-> "open", ch |-> i, of |-> slot[i]] \in ClientStates
      BY <3>1 DEF ClientStates
    <3>5. Idle \in ClientStates
      BY DEF ClientStates
    <3>6. QED
      BY <2>2, <3>3, <3>4, <3>5 DEF OpenStream
  <2>3. CASE StreamEnds(c)
    BY <2>3 DEF StreamEnds, ClientStates
  <2>4. QED
    BY <2>1, <2>2, <2>3 DEF ClientStep
<1>2. QED
  BY <1>1 DEF ClientStep, PickChannel, OpenStream, StreamEnds

(* and those of Close and of the network. *)
LEMMA EnvironmentType ==
  ASSUME TypeOK,
         \/ Cancel \/ CloseSlots
         \/ \E i \in Channels, k \in Sessions : ConnectionBreaks(i, k) \/ KeepAliveTimeout(i, k)
  PROVE  TypeOK'
<1> USE DEF TypeOK
<1>1. CASE Cancel
  BY <1>1 DEF Cancel
<1>2. CASE CloseSlots
  BY <1>2 DEF CloseSlots, Unmeasured
<1>3. ASSUME NEW i \in Channels, NEW k \in Sessions, ConnectionBreaks(i, k)
      PROVE  TypeOK'
  BY <1>3 DEF ConnectionBreaks
<1>4. ASSUME NEW i \in Channels, NEW k \in Sessions, KeepAliveTimeout(i, k)
      PROVE  TypeOK'
  BY <1>4 DEF KeepAliveTimeout, SessionClosed
<1>5. QED
  BY <1>1, <1>2, <1>3, <1>4

(* The variables of the pool keep their types. *)
THEOREM TypeCorrect == Spec => []TypeOK
<1>1. TypeOK /\ [Next]_vars => TypeOK'
  <2> SUFFICES ASSUME TypeOK, [Next]_vars PROVE TypeOK'
    OBVIOUS
  <2>1. CASE UNCHANGED vars
    BY <2>1 DEF TypeOK, vars
  <2>2. QED
    BY <2>1, ChannelType, ProbeType, ClientType, EnvironmentType DEF Next
<1>2. QED
  BY <1>1, InitType, PTL DEF Spec

-----------------------------------------------------------------------------
(* The inductive invariant: its parts other than the types. *)

Ownership ==
  /\ RttOfPublishedSession
  /\ OpenSessionHasOwner
  /\ SlotIsLatest
  /\ ProbeIsAwaited
  /\ ServingHasSession
  /\ DrainedIsClosed

(* The steps of dialAndServe that deal with no session. *)
LEMMA UnservedStep ==
  ASSUME TypeOK, Ownership, NEW i \in Channels, NEW step \in Steps \ Serving,
         pc[i] \in Steps \ (Serving \cup {"exited"}),
         Goto(i, step), UNCHANGED <<slot, rtt, sess, state, probe>>
  PROVE  Ownership'
<1> USE DEF TypeOK, Ownership, Goto
<1>1. RttOfPublishedSession'
  BY DEF RttOfPublishedSession
<1>2. OpenSessionHasOwner'
  BY DEF OpenSessionHasOwner
<1>3. SlotIsLatest'
  BY DEF SlotIsLatest, Steps, Serving, Waiting
<1>4. ProbeIsAwaited'
  BY DEF ProbeIsAwaited, Steps, Serving, Waiting
<1>5. ServingHasSession'
  BY DEF ServingHasSession
<1>6. DrainedIsClosed'
  BY DEF DrainedIsClosed, IsClosed, Steps, Serving
<1>7. QED
  BY <1>1, <1>2, <1>3, <1>4, <1>5, <1>6

(* What dialAndServe does with its session, its slot and its probe. *)
LEMMA ChannelInv ==
  ASSUME TypeOK, Ownership, NEW i \in Channels, ChannelStep(i) \/ EchLoaded(i)
  PROVE  Ownership'
<1> USE DEF TypeOK, Ownership, Goto
<1>1. ASSUME \/ CheckContext(i) \/ DialFails(i) \/ DialFailsOnEch(i) \/ LockRefresh(i)
             \/ EchLoaded(i) \/ RetryWaitEnds(i)
      PROVE  Ownership'
  <2>1. \E step \in Steps \ Serving : Goto(i, step)
    BY <1>1 DEF CheckContext, DialFails, DialFailsOnEch, LockRefresh, EchLoaded,
                RetryWaitEnds, Steps, Serving
  <2>2. /\ pc[i] \in Steps \ (Serving \cup {"exited"})
        /\ UNCHANGED <<slot, rtt, sess, state, probe>>
    BY <1>1 DEF CheckContext, DialFails, DialFailsOnEch, LockRefresh, EchLoaded,
                RetryWaitEnds, Steps, Serving
  <2>3. QED
    BY <2>1, <2>2, UnservedStep
<1>2. CASE DialSucceeds(i)
  <2> USE <1>2 DEF DialSucceeds, Sessions, Serving, Waiting, ServingHasSession
  <2>1. RttOfPublishedSession'
    BY DEF RttOfPublishedSession, SlotIsLatest
  <2>2. OpenSessionHasOwner'
    BY DEF OpenSessionHasOwner, DrainedIsClosed, IsClosed
  <2>3. SlotIsLatest'
    BY DEF SlotIsLatest
  <2>4. ProbeIsAwaited'
    BY DEF ProbeIsAwaited
  <2>5. ServingHasSession'
    OBVIOUS
  <2>6. DrainedIsClosed'
    BY DEF DrainedIsClosed, IsClosed, OpenSessionHasOwner
  <2>7. QED
    BY <2>1, <2>2, <2>3, <2>4, <2>5, <2>6
<1>3. CASE Publish(i)
  <2> USE <1>3 DEF Publish, Sessions, Serving, Waiting, ServingHasSession
  <2>1. RttOfPublishedSession'
    BY DEF RttOfPublishedSession, SlotIsLatest, Unmeasured
  <2>2. OpenSessionHasOwner'
    <3>1. UNCHANGED <<state, sess>>
      OBVIOUS
    <3>2. PICK step \in Serving : pc' = [pc EXCEPT ![i] = step]
      BY ONLY <1>3 DEF Publish, Goto, Serving
    <3>3. \A j \in Channels : pc[j] \in Serving => pc'[j] \in Serving
      BY ONLY <3>2, TypeOK DEF TypeOK
    <3>4. QED
      BY ONLY <3>1, <3>3, OpenSessionHasOwner DEF OpenSessionHasOwner
  <2>3. SlotIsLatest'
    BY DEF SlotIsLatest
  <2>4. ProbeIsAwaited'
    BY DEF ProbeIsAwaited
  <2>5. ServingHasSession'
    OBVIOUS
  <2>6. DrainedIsClosed'
    BY DEF DrainedIsClosed, IsClosed, OpenSessionHasOwner
  <2>7. QED
    BY <2>1, <2>2, <2>3, <2>4, <2>5, <2>6
<1>4. CASE ProbeOnceReturns(i)
  <2> USE <1>4 DEF ProbeOnceReturns, Sessions, Serving, Waiting, ServingHasSession
  <2>1. RttOfPublishedSession'
    <3>1. sess[i] = slot[i] \/ slot[i] = 0
      BY DEF SlotIsLatest
    <3>2. ASSUME NEW ns \in RTTs, rtt' = [rtt EXCEPT ![i] = [ns |-> ns, of |-> sess[i]]]
          PROVE  RttOfPublishedSession'
      BY <3>1, <3>2 DEF RttOfPublishedSession
    <3>3. QED
      BY <3>2 DEF RttOfPublishedSession
  <2>2. OpenSessionHasOwner'
    <3>1. UNCHANGED <<state, sess>>
      OBVIOUS
    <3>2. PICK step \in Serving : pc' = [pc EXCEPT ![i] = step]
      BY ONLY <1>4 DEF ProbeOnceReturns, Goto, Serving
    <3>3. \A j \in Channels : pc[j] \in Serving => pc'[j] \in Serving
      BY ONLY <3>2, TypeOK DEF TypeOK
    <3>4. QED
      BY ONLY <3>1, <3>3, OpenSessionHasOwner DEF OpenSessionHasOwner
  <2>3. SlotIsLatest'
    BY DEF SlotIsLatest
  <2>4. ProbeIsAwaited'
    BY DEF ProbeIsAwaited
  <2>5. ServingHasSession'
    OBVIOUS
  <2>6. DrainedIsClosed'
    BY DEF DrainedIsClosed, IsClosed, OpenSessionHasOwner
  <2>7. QED
    BY <2>1, <2>2, <2>3, <2>4, <2>5, <2>6
<1>5. CASE SpawnProbe(i)
  <2> USE <1>5 DEF SpawnProbe, Sessions, Serving, Waiting, ServingHasSession
  <2>1. RttOfPublishedSession'
    BY DEF RttOfPublishedSession, SlotIsLatest
  <2>2. OpenSessionHasOwner'
    BY DEF OpenSessionHasOwner, DrainedIsClosed, IsClosed
  <2>3. SlotIsLatest'
    BY DEF SlotIsLatest
  <2>4. ProbeIsAwaited'
    BY DEF ProbeIsAwaited
  <2>5. ServingHasSession'
    OBVIOUS
  <2>6. DrainedIsClosed'
    BY DEF DrainedIsClosed, IsClosed, OpenSessionHasOwner
  <2>7. QED
    BY <2>1, <2>2, <2>3, <2>4, <2>5, <2>6
<1>6. CASE SelectCancelled(i)
  <2> USE <1>6 DEF SelectCancelled, SessionClosed, Sessions, Serving, Waiting, ServingHasSession
  <2>1. RttOfPublishedSession'
    BY DEF RttOfPublishedSession, SlotIsLatest
  <2>2. OpenSessionHasOwner'
    BY DEF OpenSessionHasOwner, DrainedIsClosed, IsClosed
  <2>3. SlotIsLatest'
    BY DEF SlotIsLatest
  <2>4. ProbeIsAwaited'
    BY DEF ProbeIsAwaited
  <2>5. ServingHasSession'
    OBVIOUS
  <2>6. DrainedIsClosed'
    BY DEF DrainedIsClosed, IsClosed, OpenSessionHasOwner
  <2>7. QED
    BY <2>1, <2>2, <2>3, <2>4, <2>5, <2>6
<1>7. CASE SelectDead(i)
  <2> USE <1>7 DEF SelectDead, SessionClosed, Sessions, Serving, Waiting, ServingHasSession
  <2>1. RttOfPublishedSession'
    BY DEF RttOfPublishedSession, SlotIsLatest
  <2>2. OpenSessionHasOwner'
    BY DEF OpenSessionHasOwner, DrainedIsClosed, IsClosed
  <2>3. SlotIsLatest'
    BY DEF SlotIsLatest
  <2>4. ProbeIsAwaited'
    BY DEF ProbeIsAwaited
  <2>5. ServingHasSession'
    OBVIOUS
  <2>6. DrainedIsClosed'
    BY DEF DrainedIsClosed, IsClosed, OpenSessionHasOwner
  <2>7. QED
    BY <2>1, <2>2, <2>3, <2>4, <2>5, <2>6
<1>8. CASE SelectProbeDone(i)
  BY <1>8 DEF SelectProbeDone, RttOfPublishedSession, OpenSessionHasOwner,
     SlotIsLatest, ProbeIsAwaited, ServingHasSession, DrainedIsClosed, IsClosed,
     Serving, Waiting, Sessions
<1>9. CASE DrainProbe(i)
  <2> USE <1>9 DEF DrainProbe, Sessions, Serving, Waiting, ServingHasSession
  <2>1. RttOfPublishedSession'
    BY DEF RttOfPublishedSession, SlotIsLatest
  <2>2. OpenSessionHasOwner'
    BY DEF OpenSessionHasOwner, DrainedIsClosed, IsClosed
  <2>3. SlotIsLatest'
    BY DEF SlotIsLatest
  <2>4. ProbeIsAwaited'
    BY DEF ProbeIsAwaited
  <2>5. ServingHasSession'
    OBVIOUS
  <2>6. DrainedIsClosed'
    BY DEF DrainedIsClosed, IsClosed, OpenSessionHasOwner
  <2>7. QED
    BY <2>1, <2>2, <2>3, <2>4, <2>5, <2>6
<1>10. CASE Teardown(i)
  BY <1>10 DEF Teardown, SessionClosed, Unmeasured, RttOfPublishedSession, OpenSessionHasOwner,
     SlotIsLatest, ProbeIsAwaited, ServingHasSession, DrainedIsClosed, IsClosed,
     Serving, Waiting, Sessions
<1>11. QED
  BY <1>1, <1>2, <1>3, <1>4, <1>5, <1>6, <1>7, <1>8, <1>9, <1>10 DEF ChannelStep, DialReturns

(* What the probe of a session does. *)
LEMMA ProbeInv ==
  ASSUME TypeOK, Ownership, NEW i \in Channels, NEW k \in Sessions, ProbeStep(i, k)
  PROVE  Ownership'
<1>1. /\ slot[i] # 0 => k = slot[i]
      /\ k = sess[i] /\ pc[i] \in Waiting
  BY DEF ProbeStep, ProbeStarts, ProbeReturns, Ownership, ProbeIsAwaited, SlotIsLatest
<1>2. UNCHANGED <<slot, pc, sess, state>>
  BY DEF ProbeStep, ProbeStarts, ProbeReturns
<1>3. \E st : probe' = [probe EXCEPT ![i][k] = st]
  BY Zenon DEF ProbeStep, ProbeStarts, ProbeReturns, ProbeFailed
<1>4. rtt' = rtt \/ \E ns : rtt' = [rtt EXCEPT ![i] = [ns |-> ns, of |-> k]]
  <2>1. CASE ProbeFailed(i, k)
    BY <2>1, Zenon DEF ProbeFailed
  <2>2. CASE ~ProbeFailed(i, k) /\ ProbeStarts(i, k)
    BY <2>2 DEF ProbeStarts
  <2>3. CASE ~ProbeFailed(i, k) /\ ProbeReturns(i, k)
    BY <2>3, Zenon DEF ProbeReturns
  <2>4. QED
    BY <2>1, <2>2, <2>3 DEF ProbeStep
<1>5. RttOfPublishedSession'
  <2>1. CASE rtt' = rtt
    BY <1>2, <2>1 DEF Ownership, RttOfPublishedSession
  <2>2. ASSUME NEW ns, rtt' = [rtt EXCEPT ![i] = [ns |-> ns, of |-> k]]
        PROVE  RttOfPublishedSession'
    <3>1. \A j \in Channels : rtt'[j] = IF j = i THEN [ns |-> ns, of |-> k] ELSE rtt[j]
      BY <2>2 DEF TypeOK
    <3>2. QED
      BY <1>1, <1>2, <3>1 DEF Ownership, RttOfPublishedSession
  <2>3. QED
    BY <1>4, <2>1, <2>2
<1>6. ProbeIsAwaited'
  BY <1>1, <1>2, <1>3 DEF Ownership, ProbeIsAwaited, TypeOK
<1>7. QED
  BY <1>2, <1>5, <1>6 DEF Ownership, OpenSessionHasOwner, SlotIsLatest, ServingHasSession,
                          DrainedIsClosed, IsClosed

(* What Close, the network and the callers of openBestStream do. *)
LEMMA OtherInv ==
  ASSUME TypeOK, Ownership,
         \/ Cancel \/ CloseSlots
         \/ \E i \in Channels, k \in Sessions : ConnectionBreaks(i, k) \/ KeepAliveTimeout(i, k)
         \/ \E c \in Clients : ClientStep(c)
  PROVE  Ownership'
<1> USE DEF TypeOK, Ownership, RttOfPublishedSession, OpenSessionHasOwner, SlotIsLatest,
            ProbeIsAwaited, ServingHasSession, DrainedIsClosed, IsClosed
<1>1. CASE Cancel
  BY <1>1 DEF Cancel
<1>2. CASE CloseSlots
  BY <1>2 DEF CloseSlots, Unmeasured, Sessions, Serving
<1>3. ASSUME NEW i \in Channels, NEW k \in Sessions, ConnectionBreaks(i, k)
      PROVE  Ownership'
  BY <1>3 DEF ConnectionBreaks
<1>4. ASSUME NEW i \in Channels, NEW k \in Sessions, KeepAliveTimeout(i, k)
      PROVE  Ownership'
  BY <1>4 DEF KeepAliveTimeout, SessionClosed
<1>5. ASSUME NEW c \in Clients, ClientStep(c)
      PROVE  Ownership'
  BY <1>5 DEF ClientStep, PickChannel, OpenStream, StreamEnds
<1>6. QED
  BY <1>1, <1>2, <1>3, <1>4, <1>5

(* The inductive invariant holds of every reachable state. *)
THEOREM PoolInvariant == Spec => []IInv
<1>1. Init => Ownership
  BY DEF Init, Ownership, RttOfPublishedSession, OpenSessionHasOwner, SlotIsLatest,
         ProbeIsAwaited, ServingHasSession, DrainedIsClosed, Serving
<1>2. TypeOK /\ Ownership /\ [Next]_vars => Ownership'
  <2> SUFFICES ASSUME TypeOK, Ownership, [Next]_vars PROVE Ownership'
    OBVIOUS
  <2>1. CASE UNCHANGED vars
    BY <2>1 DEF vars, Ownership, RttOfPublishedSession, OpenSessionHasOwner, SlotIsLatest,
                ProbeIsAwaited, ServingHasSession, DrainedIsClosed, IsClosed
  <2>2. QED
    BY <2>1, ChannelInv, ProbeInv, OtherInv DEF Next
<1>3. TypeOK /\ Ownership => IInv
  BY DEF Ownership, IInv
<1>4. QED
  BY <1>1, <1>2, <1>3, TypeCorrect, PTL DEF Spec

(* The RTT that openBestStream reads belongs to the session in the slot. *)
THEOREM RttIsCurrent == Spec => []RttOfPublishedSession
<1>1. IInv => RttOfPublishedSession
  BY DEF IInv
<1>2. QED
  BY <1>1, PoolInvariant, PTL

(* No open session is without a goroutine that will close it. *)
THEOREM NoStrandedSession == Spec => []OpenSessionHasOwner
<1>1. IInv => OpenSessionHasOwner
  BY DEF IInv
<1>2. QED
  BY <1>1, PoolInvariant, PTL
=============================================================================
