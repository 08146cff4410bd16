------------------------- MODULE TProxyServiceProofs -------------------------
(***************************************************************************)
(* The service calls the core so that no start is refused and the latest   *)
(* switch wins, for any number of requests, nodes, connections and         *)
(* crashes.  ServiceInv adds to CoreInv whose call is in which phase: one  *)
(* lemma per action shows that it keeps each part.  SelectionInv, which    *)
(* ties the intents, requests and pools to the selected node, is inductive *)
(* beside it where the optimizer does not run.                             *)
(***************************************************************************)
EXTENDS TProxyService, SocksCoreProofs

USE ServiceAssumption

(* A step of the service that calls nothing.                               *)
LEMMA CoreStays == CoreInv /\ UNCHANGED coreVars => CoreInv'
BY CoreStepKeeps

(* The callers are the threads of the switches, the main thread and the    *)
(* binder thread.                                                          *)
LEMMA Names == /\ MainThread \in Callers /\ MainThread \notin Switches
               /\ BinderThread \in Callers /\ BinderThread \notin Switches
               /\ MainThread # BinderThread
               /\ Switches \subseteq Callers /\ Switches \subseteq Nat \ {0}
               /\ \A t \in Switches : t # MainThread /\ t # BinderThread
BY DEF Switches

(* While the latest request is past the lock, the one call under way is    *)
(* its own.                                                                *)
LEMMA OnlyLatestMoves ==
  ASSUME ServiceInv, NEW c \in Callers, call[c].at \notin Returned,
         seq # 0, main = "idle", revoker = "idle", sw[seq].at # "queued"
  PROVE  c = seq /\ sw[seq].at \in {"starting", "stopping"}
<1>1. seq \in Switches
  BY DEF ServiceInv, TypeOK, Switches
<1>2. c # MainThread /\ c # BinderThread
  BY DEF ServiceInv, MainCall, BinderCall
<1>3. c \in Switches
  BY <1>2 DEF Switches
<1>4. sw[c].at \in {"stopping", "starting"}
  BY <1>3 DEF ServiceInv, SwitchCalls, Holding, Returned
<1>5. switchLock = c
  BY <1>3, <1>4 DEF ServiceInv, LockHeld, Holding
<1>6. c = seq
  BY <1>3, <1>5, Names DEF ServiceInv, OvertakerWaits
<1>7. QED
  BY <1>4, <1>6

-----------------------------------------------------------------------------
(* The steps of StartSocksProxy and StopSocksProxy under the service.      *)

(* Not refused: the stop that came before has cleared both globals.        *)
LEMMA StartLocksServes ==
  ASSUME ServiceInv, NEW c \in Callers, StartLocks(c), ServiceUnchanged
  PROVE  ServiceInv'
<1>1. CoreInv'
  BY StartLocksKeeps DEF ServiceInv
<1> USE Names DEF StartLocks, Goto, ServiceUnchanged, uiVars, prefVars, vpnVars, switchVars
<1>2. TypeOK'
  BY <1>1 DEF ServiceInv, TypeOK, CoreInv
<1>3. call \in [Callers -> CallRecords] /\ call[c] \in CallRecords
  BY DEF ServiceInv, CoreInv, CoreTypeOK, CallTypeOK
<1>4. LockHeld' /\ ThreadsOfSeq' /\ StartsAlone' /\ OvertakerWaits'
  BY DEF ServiceInv, LockHeld, ThreadsOfSeq, StartsAlone, OvertakerWaits
<1>5. MainCall' /\ BinderCall'
  BY <1>3 DEF ServiceInv, MainCall, BinderCall, CallRecords, StartPhases, StopPhases, Returned,
     NilBeforeStart, Nil
<1>6. SwitchCalls'
  BY <1>3 DEF ServiceInv, SwitchCalls, CallRecords, StartPhases, StopPhases,
     Returned, Holding, NilBeforeStart, Nil
<1>7. NilBeforeStart'
  BY <1>3 DEF ServiceInv, NilBeforeStart, Nil, CallRecords
<1>8. LatestRuns'
  <2> SUFFICES ASSUME seq # 0, main = "idle", revoker = "idle",
                      \/ sw[seq].at \in {"waiting", "done"}
                      \/ sw[seq].at = "starting" /\ call'[seq].at = "started"
               PROVE  FALSE
    BY DEF LatestRuns
  <2>1. c = seq /\ sw[seq].at \in {"starting", "stopping"}
    BY OnlyLatestMoves DEF Returned
  <2>2. call'[c].at # "started"
    BY <1>3 DEF CallRecords
  <2>3. QED
    BY <2>1, <2>2
<1>9. ListensForLive'
  <2>1. \A d \in Callers : call'[d].at = "listening" => call'[d] = call[d]
    BY <1>3 DEF CallRecords
  <2>2. QED
    BY <2>1 DEF ServiceInv, ListensForLive
<1>10. QED
  BY <1>1, <1>2, <1>4, <1>5, <1>6, <1>7, <1>8, <1>9 DEF ServiceInv

(* Only one start is under way, so nobody else counts on the globals to be *)
(* nil.                                                                    *)
LEMMA EchSettledServes ==
  ASSUME ServiceInv, NEW c \in Callers, EchSettled(c), ServiceUnchanged
  PROVE  ServiceInv'
<1>1. CoreInv'
  BY EchSettledKeeps DEF ServiceInv
<1> USE Names DEF EchSettled, Goto, ServiceUnchanged, uiVars, prefVars, vpnVars, switchVars
<1>2. TypeOK'
  BY <1>1 DEF ServiceInv, TypeOK, CoreInv
<1>3. call \in [Callers -> CallRecords] /\ call[c] \in CallRecords
  BY DEF ServiceInv, CoreInv, CoreTypeOK, CallTypeOK
<1>4. LockHeld' /\ ThreadsOfSeq' /\ StartsAlone' /\ OvertakerWaits'
  BY DEF ServiceInv, LockHeld, ThreadsOfSeq, StartsAlone, OvertakerWaits
<1>5. MainCall' /\ BinderCall'
  BY <1>3 DEF ServiceInv, MainCall, BinderCall, CallRecords, StartPhases, StopPhases, Returned
<1>6. SwitchCalls'
  BY <1>3 DEF ServiceInv, SwitchCalls, CallRecords, StartPhases, StopPhases,
     Returned
<1>7. NilBeforeStart'
  <2>1. \A d \in Callers : d # c => call'[d] = call[d]
    BY <1>3
  <2>2. call'[c].at = "listening"
    BY <1>3 DEF CallRecords
  <2>3. CASE c = MainThread
    <3>1. main = "starting" /\ seq = 0
      BY <2>3, Names DEF ServiceInv, TypeOK, MainCall, BinderCall, StartsAlone, StopPhases, Returned
    <3>2. \A t \in Switches : sw[t].at = "none"
      BY <3>1 DEF ServiceInv, ThreadsOfSeq
    <3>3. QED
      BY <2>2, <2>3, <3>1, <3>2 DEF ServiceInv, StartsAlone, NilBeforeStart
  <2>4. CASE c = BinderThread
    BY <2>4 DEF ServiceInv, TypeOK, BinderCall, StopPhases, Returned
  <2>5. CASE c \in Switches
    <3>1. sw[c].at = "starting" /\ switchLock = c
      BY <2>5 DEF ServiceInv, SwitchCalls, LockHeld, Holding, StopPhases, Returned
    <3>2. seq # 0
      BY <2>5, <3>1 DEF ServiceInv, ThreadsOfSeq, TypeOK
    <3>3. main # "starting" /\ tunFd
      BY <3>2 DEF ServiceInv, StartsAlone, TypeOK
    <3>4. \A t \in Switches : sw[t].at \in Holding => t = c
      BY <3>1 DEF ServiceInv, LockHeld
    <3>5. QED
      BY <2>2, <3>1, <3>3, <3>4 DEF NilBeforeStart, Holding
  <2>6. QED
    BY <2>3, <2>4, <2>5 DEF Switches
<1>8. LatestRuns'
  <2> SUFFICES ASSUME seq # 0, main = "idle", revoker = "idle",
                      \/ sw[seq].at \in {"waiting", "done"}
                      \/ sw[seq].at = "starting" /\ call'[seq].at = "started"
               PROVE  FALSE
    BY DEF LatestRuns
  <2>1. c = seq /\ sw[seq].at \in {"starting", "stopping"}
    BY OnlyLatestMoves DEF Returned
  <2>2. call'[c].at # "started"
    BY <1>3 DEF CallRecords
  <2>3. QED
    BY <2>1, <2>2
<1>9. ListensForLive'
  <2>1. \A d \in Callers \ {c} : call[d].at # "listening" /\ call'[d] = call[d]
    BY <1>3, Alone DEF ServiceInv, Locked
  <2>2. /\ call'[c].pool = pools + 1 /\ call'[c].profile = call[c].profile
        /\ live' = live \cup {pools + 1}
    BY <1>3 DEF CallRecords
  <2>3. pools + 1 \in PoolIds
    BY CoreAssumption DEF ServiceInv, CoreInv, CoreTypeOK, PoolIds
  <2>4. profileOf'[pools + 1] = call[c].profile
    BY <2>3 DEF ServiceInv, CoreInv, CoreTypeOK
  <2>5. QED
    BY <2>1, <2>2, <2>4 DEF ListensForLive
<1>10. QED
  BY <1>1, <1>2, <1>4, <1>5, <1>6, <1>7, <1>8, <1>9 DEF ServiceInv

(* The switch that listens is the latest one, and its pool is live.        *)
LEMMA ListenSucceedsServes ==
  ASSUME ServiceInv, NEW c \in Callers, ListenSucceeds(c), ServiceUnchanged
  PROVE  ServiceInv'
<1>1. CoreInv'
  BY ListenSucceedsKeeps DEF ServiceInv
<1> USE Names DEF ListenSucceeds, Goto, ServiceUnchanged, uiVars, prefVars, vpnVars, switchVars
<1>2. TypeOK'
  BY <1>1 DEF ServiceInv, TypeOK, CoreInv
<1>3. call \in [Callers -> CallRecords] /\ call[c] \in CallRecords
  BY DEF ServiceInv, CoreInv, CoreTypeOK, CallTypeOK
<1>4. LockHeld' /\ ThreadsOfSeq' /\ StartsAlone' /\ OvertakerWaits'
  BY DEF ServiceInv, LockHeld, ThreadsOfSeq, StartsAlone, OvertakerWaits
<1>5. MainCall' /\ BinderCall'
  BY <1>3 DEF ServiceInv, MainCall, BinderCall, CallRecords, StartPhases, StopPhases, Returned
<1>6. SwitchCalls'
  BY <1>3 DEF ServiceInv, SwitchCalls, CallRecords, StartPhases, StopPhases,
     Returned
<1>7. NilBeforeStart'
  BY <1>3 DEF ServiceInv, NilBeforeStart, Nil, CallRecords, CoreInv, Paired
<1>8. LatestRuns'
  <2> SUFFICES ASSUME seq # 0, main = "idle", revoker = "idle",
                      \/ sw[seq].at \in {"waiting", "done"}
                      \/ sw[seq].at = "starting" /\ call'[seq].at = "started"
               PROVE  /\ echPool # 0
                      /\ profileOf[echPool] = sw[seq].profile
                      /\ echPool \in live
                      /\ {call[c].pool} = {echPool}
    BY DEF LatestRuns
  <2>1. c = seq /\ sw[seq].at = "starting"
    BY OnlyLatestMoves DEF Returned
  <2>2. echPool = call[c].pool /\ echPool # 0
    BY DEF ServiceInv, CoreInv, Paired
  <2>3. echPool \in live /\ profileOf[echPool] = call[c].profile
    BY <2>2 DEF ServiceInv, ListensForLive
  <2>4. c \in Switches
    BY <2>1 DEF ServiceInv, TypeOK, Switches
  <2>5. call[c].profile = sw[c].profile
    BY <2>1, <2>4 DEF ServiceInv, SwitchCalls
  <2>6. QED
    BY <2>1, <2>2, <2>3, <2>5
<1>9. ListensForLive'
  BY <1>3 DEF ServiceInv, ListensForLive
<1>10. QED
  BY <1>1, <1>2, <1>4, <1>5, <1>6, <1>7, <1>8, <1>9 DEF ServiceInv

(* The globals are nil again.                                              *)
LEMMA ListenFailsServes ==
  ASSUME ServiceInv, NEW c \in Callers, ListenFails(c), ServiceUnchanged
  PROVE  ServiceInv'
<1>1. CoreInv'
  BY ListenFailsKeeps DEF ServiceInv
<1> USE Names DEF ListenFails, Goto, ServiceUnchanged, uiVars, prefVars, vpnVars, switchVars
<1>2. TypeOK'
  BY <1>1 DEF ServiceInv, TypeOK, CoreInv
<1>3. call \in [Callers -> CallRecords] /\ call[c] \in CallRecords
  BY DEF ServiceInv, CoreInv, CoreTypeOK, CallTypeOK
<1>4. LockHeld' /\ ThreadsOfSeq' /\ StartsAlone' /\ OvertakerWaits'
  BY DEF ServiceInv, LockHeld, ThreadsOfSeq, StartsAlone, OvertakerWaits
<1>5. MainCall' /\ BinderCall'
  BY <1>3 DEF ServiceInv, MainCall, BinderCall, CallRecords, StartPhases, StopPhases, Returned
<1>6. SwitchCalls'
  BY <1>3 DEF ServiceInv, SwitchCalls, CallRecords, StartPhases, StopPhases,
     Returned
<1>7. NilBeforeStart'
  BY <1>3 DEF ServiceInv, NilBeforeStart, Nil, CallRecords, CoreInv, Paired
<1>8. LatestRuns'
  <2> SUFFICES ASSUME seq # 0, main = "idle", revoker = "idle",
                      \/ sw[seq].at \in {"waiting", "done"}
                      \/ sw[seq].at = "starting" /\ call'[seq].at = "started"
               PROVE  FALSE
    BY DEF LatestRuns
  <2>1. c = seq /\ sw[seq].at \in {"starting", "stopping"}
    BY OnlyLatestMoves DEF Returned
  <2>2. call'[c].at # "started"
    BY <1>3 DEF CallRecords
  <2>3. QED
    BY <2>1, <2>2
<1>9. ListensForLive'
  BY <1>3, Alone DEF ServiceInv, ListensForLive, CallRecords, Locked
<1>10. QED
  BY <1>1, <1>2, <1>4, <1>5, <1>6, <1>7, <1>8, <1>9 DEF ServiceInv

(* A stop is never that of a request whose node is running.                *)
LEMMA StopLocksServes ==
  ASSUME ServiceInv, NEW c \in Callers, StopLocks(c), ServiceUnchanged
  PROVE  ServiceInv'
<1>1. CoreInv'
  BY StopLocksKeeps DEF ServiceInv
<1> USE Names DEF StopLocks, Goto, ServiceUnchanged, uiVars, prefVars, vpnVars, switchVars
<1>2. TypeOK'
  BY <1>1 DEF ServiceInv, TypeOK, CoreInv
<1>3. call \in [Callers -> CallRecords] /\ call[c] \in CallRecords
  BY DEF ServiceInv, CoreInv, CoreTypeOK, CallTypeOK
<1>4. LockHeld' /\ ThreadsOfSeq' /\ StartsAlone' /\ OvertakerWaits'
  BY DEF ServiceInv, LockHeld, ThreadsOfSeq, StartsAlone, OvertakerWaits
<1>5. MainCall' /\ BinderCall'
  BY <1>3 DEF ServiceInv, MainCall, BinderCall, CallRecords, StartPhases, StopPhases, Returned
<1>6. SwitchCalls'
  BY <1>3 DEF ServiceInv, SwitchCalls, CallRecords, StartPhases, StopPhases,
     Returned
<1>7. NilBeforeStart'
  BY <1>3 DEF ServiceInv, NilBeforeStart, Nil
<1>8. LatestRuns'
  <2> SUFFICES ASSUME seq # 0, main = "idle", revoker = "idle",
                      \/ sw[seq].at \in {"waiting", "done"}
                      \/ sw[seq].at = "starting" /\ call'[seq].at = "started"
               PROVE  FALSE
    BY DEF LatestRuns
  <2>1. c = seq /\ sw[seq].at \in {"starting", "stopping"}
    BY OnlyLatestMoves DEF Returned
  <2>2. call'[c].at # "started"
    BY <1>3 DEF CallRecords
  <2>3. QED
    BY <2>1, <2>2
<1>9. ListensForLive'
  BY <1>3 DEF ServiceInv, ListensForLive
<1>10. QED
  BY <1>1, <1>2, <1>4, <1>5, <1>6, <1>7, <1>8, <1>9 DEF ServiceInv

(* The globals stay nil,                                                   *)
LEMMA StopClosesListenerServes ==
  ASSUME ServiceInv, NEW c \in Callers, StopClosesListener(c), ServiceUnchanged
  PROVE  ServiceInv'
<1>1. CoreInv'
  BY StopClosesListenerKeeps DEF ServiceInv
<1> USE Names DEF StopClosesListener, Goto, ServiceUnchanged, uiVars, prefVars, vpnVars, switchVars
<1>2. TypeOK'
  BY <1>1 DEF ServiceInv, TypeOK, CoreInv
<1>3. call \in [Callers -> CallRecords] /\ call[c] \in CallRecords
  BY DEF ServiceInv, CoreInv, CoreTypeOK, CallTypeOK
<1>4. LockHeld' /\ ThreadsOfSeq' /\ StartsAlone' /\ OvertakerWaits'
  BY DEF ServiceInv, LockHeld, ThreadsOfSeq, StartsAlone, OvertakerWaits
<1>5. MainCall' /\ BinderCall'
  BY <1>3 DEF ServiceInv, MainCall, BinderCall, CallRecords, StartPhases, StopPhases, Returned
<1>6. SwitchCalls'
  BY <1>3 DEF ServiceInv, SwitchCalls, CallRecords, StartPhases, StopPhases,
     Returned
<1>7. NilBeforeStart'
  BY <1>3 DEF ServiceInv, NilBeforeStart, Nil
<1>8. LatestRuns'
  <2> SUFFICES ASSUME seq # 0, main = "idle", revoker = "idle",
                      \/ sw[seq].at \in {"waiting", "done"}
                      \/ sw[seq].at = "starting" /\ call'[seq].at = "started"
               PROVE  FALSE
    BY DEF LatestRuns
  <2>1. c = seq /\ sw[seq].at \in {"starting", "stopping"}
    BY OnlyLatestMoves DEF Returned
  <2>2. call'[c].at # "started"
    BY <1>3 DEF CallRecords
  <2>3. QED
    BY <2>1, <2>2
<1>9. ListensForLive'
  BY <1>3 DEF ServiceInv, ListensForLive
<1>10. QED
  BY <1>1, <1>2, <1>4, <1>5, <1>6, <1>7, <1>8, <1>9 DEF ServiceInv

(* also for the start that follows.                                        *)
LEMMA StopClosesPoolServes ==
  ASSUME ServiceInv, NEW c \in Callers, StopClosesPool(c), ServiceUnchanged
  PROVE  ServiceInv'
<1>1. CoreInv'
  BY StopClosesPoolKeeps DEF ServiceInv
<1> USE Names DEF StopClosesPool, Goto, ServiceUnchanged, uiVars, prefVars, vpnVars, switchVars
<1>2. TypeOK'
  BY <1>1 DEF ServiceInv, TypeOK, CoreInv
<1>3. call \in [Callers -> CallRecords] /\ call[c] \in CallRecords
  BY DEF ServiceInv, CoreInv, CoreTypeOK, CallTypeOK
<1>4. LockHeld' /\ ThreadsOfSeq' /\ StartsAlone' /\ OvertakerWaits'
  BY DEF ServiceInv, LockHeld, ThreadsOfSeq, StartsAlone, OvertakerWaits
<1>5. MainCall' /\ BinderCall'
  BY <1>3 DEF ServiceInv, MainCall, BinderCall, CallRecords, StartPhases, StopPhases, Returned
<1>6. SwitchCalls'
  BY <1>3 DEF ServiceInv, SwitchCalls, CallRecords, StartPhases, StopPhases,
     Returned
<1>7. NilBeforeStart'
  BY <1>3 DEF ServiceInv, NilBeforeStart, Nil, CallRecords, CoreInv, Paired
<1>8. LatestRuns'
  <2> SUFFICES ASSUME seq # 0, main = "idle", revoker = "idle",
                      \/ sw[seq].at \in {"waiting", "done"}
                      \/ sw[seq].at = "starting" /\ call'[seq].at = "started"
               PROVE  FALSE
    BY DEF LatestRuns
  <2>1. c = seq /\ sw[seq].at \in {"starting", "stopping"}
    BY OnlyLatestMoves DEF Returned
  <2>2. call'[c].at # "started"
    BY <1>3 DEF CallRecords
  <2>3. QED
    BY <2>1, <2>2
<1>9. ListensForLive'
  BY <1>3, Alone DEF ServiceInv, ListensForLive, CallRecords, Locked
<1>10. QED
  BY <1>1, <1>2, <1>4, <1>5, <1>6, <1>7, <1>8, <1>9 DEF ServiceInv

-----------------------------------------------------------------------------
(* The inbox.                                                              *)
LEMMA SendKeepsInbox ==
  ASSUME TypeOK, NEW act \in {"CONNECT", "SWITCH", "DISCONNECT"},
         NEW p \in Profiles \cup {None}, Send(act, p)
  PROVE  inbox' \in Seq(Intents)
<1>1. Intent(act, p) \in Intents
  BY DEF Intent, Intents
<1>2. inbox \in Seq(Intents)
  BY DEF TypeOK, Intents
<1>3. QED
  BY <1>1, <1>2 DEF Send

LEMMA DeliversTypes ==
  ASSUME TypeOK, NEW act, Delivers(act)
  PROVE  /\ inbox' \in Seq(Intents)
         /\ proc' = "up" /\ restarting' = FALSE
         /\ act # "RESTART" => Head(inbox) \in Intents
<1>1. inbox \in Seq(Intents)
  BY DEF TypeOK, Intents
<1>2. inbox # <<>> => Head(inbox) \in Intents /\ Tail(inbox) \in Seq(Intents)
  BY <1>1
<1>3. QED
  BY <1>1, <1>2 DEF Delivers

(* The user interface and a delivery that starts nothing.                  *)
LEMMA NothingStarts ==
  ASSUME ServiceInv, TypeOK', UNCHANGED <<coreVars, main, revoker, tunFd, switchVars>>
  PROVE  ServiceInv'
<1>1. CoreInv'
  BY CoreStays DEF ServiceInv
<1>2. /\ UNCHANGED <<main, revoker, tunFd, switchLock, seq, sw>>
      /\ UNCHANGED <<call, live, profileOf, echPool, proxyListener, sockets>>
  BY DEF coreVars, switchVars
<1>3. ListensForLive' /\ LockHeld' /\ ThreadsOfSeq' /\ StartsAlone'
  BY <1>2 DEF ServiceInv, ListensForLive, LockHeld, ThreadsOfSeq, StartsAlone
<1>4. MainCall' /\ BinderCall' /\ SwitchCalls' /\ NilBeforeStart' /\ OvertakerWaits' /\ LatestRuns'
  BY <1>2 DEF ServiceInv, MainCall, BinderCall, SwitchCalls, NilBeforeStart, Nil, OvertakerWaits,
              LatestRuns
<1>5. QED
  BY <1>1, <1>3, <1>4 DEF ServiceInv

(* The user interface and the optimizer only send.                         *)
LEMMA UserServes == ServiceInv /\ UserStep => ServiceInv'
<1> SUFFICES ASSUME ServiceInv, UserStep PROVE ServiceInv'
  OBVIOUS
<1> DEFINE Runs == [at : {"asleep", "probing", "applying"}, profile : Profiles \cup {None}]
             UiTypes == /\ selected \in Profiles /\ ui \in Maps /\ stored \in Maps
                        /\ reverted \in BOOLEAN
                        /\ inbox \in Seq(Intents) /\ optimizer \in Runs
<1>1. TypeOK /\ UiTypes
  BY DEF ServiceInv, TypeOK, Intents
<1>2. UNCHANGED <<coreVars, loaded, vpnVars, switchVars>>
  BY DEF UserStep, SelectProfile, ToggleConnection, CommitSetting, Reload, OnCreate,
         ApplySettings, PermissionGranted, OptimizerStarts, OptimizerReadsEnable,
         OptimizerSends, OptimizerChangesNothing, prefVars
<1>3. UiTypes'
  <2>1. ASSUME NEW p \in Profiles, SelectProfile(p) PROVE UiTypes'
    <3>1. [ui EXCEPT !.profile = p] \in Maps /\ reverted' \in BOOLEAN
      BY <1>1, <2>1 DEF Maps, SelectProfile
    <3>2. ui' \in Maps /\ stored' \in Maps
      BY <1>1, <2>1, <3>1 DEF SelectProfile, Commit
    <3>3. inbox' \in Seq(Intents)
      BY <1>1, <2>1, SendKeepsInbox DEF SelectProfile
    <3>4. QED
      BY <1>1, <2>1, <3>1, <3>2, <3>3 DEF SelectProfile
  <2>2. CASE ToggleConnection
    <3>1. [ui EXCEPT !.enable = ~ui.enable] \in Maps
      BY <1>1 DEF Maps
    <3>2. ui' \in Maps /\ stored' \in Maps
      BY <1>1, <2>2, <3>1 DEF ToggleConnection, Commit
    <3>3. inbox' \in Seq(Intents)
      <4>1. CASE ui.enable
        BY <1>1, <2>2, <4>1, SendKeepsInbox DEF ToggleConnection
      <4>2. CASE ~ui.enable
        BY <1>1, <2>2, <4>2, SendKeepsInbox DEF ToggleConnection
      <4>3. QED
        BY <4>1, <4>2
    <3>4. QED
      BY <1>1, <2>2, <3>2, <3>3 DEF ToggleConnection
  <2>3. CASE CommitSetting \/ Reload \/ OnCreate
    BY <1>1, <2>3 DEF CommitSetting, Reload, OnCreate, Maps
  <2>4. CASE ApplySettings
    BY <1>1, <2>4, SendKeepsInbox DEF ApplySettings
  <2>5. CASE PermissionGranted
    BY <1>1, <2>5, SendKeepsInbox DEF PermissionGranted, prefVars
  <2>6. CASE OptimizerStarts
    BY <1>1, <2>6 DEF OptimizerStarts, Maps
  <2>7. CASE OptimizerReadsEnable
    BY <1>1, <2>7 DEF OptimizerReadsEnable, Asleep
  <2>8. CASE OptimizerSends
    BY <1>1, <2>8, SendKeepsInbox DEF OptimizerSends, Asleep, prefVars
  <2>9. CASE OptimizerChangesNothing
    BY <1>1, <2>9 DEF OptimizerChangesNothing, Asleep, prefVars
  <2>10. QED
    BY <2>1, <2>2, <2>3, <2>4, <2>5, <2>6, <2>7, <2>8, <2>9 DEF UserStep
<1>4. TypeOK'
  <2>1. CoreTypeOK'
    BY <1>2, CoreStays DEF ServiceInv, CoreInv
  <2>2. UNCHANGED <<loaded, proc, restarting, main, revoker, tunFd, hev, seq, switchLock, sw>>
    BY <1>2 DEF vpnVars, switchVars
  <2>3. QED
    BY <1>3, <2>1, <2>2 DEF ServiceInv, TypeOK, Intents
<1>5. UNCHANGED <<coreVars, main, revoker, tunFd, switchVars>>
  BY <1>2 DEF vpnVars
<1>6. QED
  BY <1>4, <1>5, NothingStarts

(* A CONNECT to a running service, and a start that gets no device.        *)
LEMMA DeliveryStartsNothing ==
  ServiceInv /\ (OnConnectRunning \/ EstablishFails) => ServiceInv'
<1> SUFFICES ASSUME ServiceInv, OnConnectRunning \/ EstablishFails PROVE ServiceInv'
  OBVIOUS
<1>1. \E act : Delivers(act)
  BY DEF OnConnectRunning, EstablishFails, Starts
<1>2. inbox' \in Seq(Intents) /\ proc' = "up" /\ restarting' = FALSE
  BY <1>1, DeliversTypes DEF ServiceInv
<1>3. UNCHANGED <<coreVars, prefVars, optimizer, main, revoker, tunFd, hev, switchVars>>
  BY DEF OnConnectRunning, EstablishFails
<1>4. CoreTypeOK'
  BY <1>3, CoreStays DEF ServiceInv, CoreInv
<1>5. TypeOK'
  BY <1>2, <1>3, <1>4 DEF ServiceInv, TypeOK, Intents, switchVars, prefVars
<1>6. QED
  BY <1>3, <1>5, NothingStarts

-----------------------------------------------------------------------------
(* The main thread and the threads of the switches.                        *)

(* From here on the process only ends.                                     *)
LEMMA OnDisconnectServes ==
  ASSUME ServiceInv, OnDisconnect
  PROVE  ServiceInv'
<1>1. CoreInv'
  BY CallStopKeeps, Names DEF ServiceInv, OnDisconnect
<1>2. TypeOK'
  <2>1. PICK act : Delivers(act) /\ act # "RESTART"
    BY DEF OnDisconnect
  <2>2. inbox' \in Seq(Intents) /\ proc' = "up" /\ restarting' = FALSE /\ Head(inbox) \in Intents
    BY <2>1, DeliversTypes DEF ServiceInv
  <2>3. CoreTypeOK'
    BY <1>1 DEF CoreInv
  <2>4. QED
    BY <2>2, <2>3 DEF ServiceInv, TypeOK, Intents, OnDisconnect, Delivers, switchVars, prefVars
<1>3. call \in [Callers -> CallRecords] /\ call' \in [Callers -> CallRecords]
  BY <1>1 DEF ServiceInv, CoreInv, CoreTypeOK, CallTypeOK
<1>4. /\ seq \in 0 .. MaxSwitches /\ switchLock \in 0 .. MaxSwitches
      /\ sw \in [Switches -> SwitchRecords]
  BY DEF ServiceInv, TypeOK, SwitchRecords
<1> USE Names DEF OnDisconnect, CallStop, NotCalling, coreVars, uiVars, prefVars, vpnVars, switchVars
<1>5. LockHeld' /\ ThreadsOfSeq' /\ OvertakerWaits'
  BY DEF ServiceInv, LockHeld, ThreadsOfSeq, OvertakerWaits
<1>6. StartsAlone'
  BY DEF ServiceInv, StartsAlone
<1>7. MainCall' /\ BinderCall'
  BY <1>3 DEF ServiceInv, MainCall, BinderCall, CallRecords, StartPhases, StopPhases
<1>8. SwitchCalls'
  BY DEF ServiceInv, SwitchCalls
<1>9. NilBeforeStart'
  BY DEF ServiceInv, NilBeforeStart, Nil
<1>10. LatestRuns'
  BY DEF ServiceInv, LatestRuns
<1>11. ListensForLive'
  BY DEF ServiceInv, ListensForLive
<1>12. QED
  BY <1>1, <1>2, <1>5, <1>6, <1>7, <1>8, <1>9, <1>10, <1>11 DEF ServiceInv

LEMMA OnRevokeServes ==
  ASSUME ServiceInv, OnRevoke
  PROVE  ServiceInv'
<1>1. CoreInv'
  BY CallStopKeeps, Names DEF ServiceInv, OnRevoke
<1>2. TypeOK'
  BY <1>1 DEF ServiceInv, TypeOK, CoreInv, OnRevoke, uiVars, prefVars, vpnVars, switchVars
<1>3. call \in [Callers -> CallRecords] /\ call' \in [Callers -> CallRecords]
  BY <1>1 DEF ServiceInv, CoreInv, CoreTypeOK, CallTypeOK
<1>4. /\ seq \in 0 .. MaxSwitches /\ switchLock \in 0 .. MaxSwitches
      /\ sw \in [Switches -> SwitchRecords]
  BY DEF ServiceInv, TypeOK, SwitchRecords
<1> USE Names DEF OnRevoke, CallStop, NotCalling, coreVars, uiVars, prefVars, vpnVars, switchVars
<1>5. LockHeld' /\ ThreadsOfSeq' /\ OvertakerWaits'
  BY DEF ServiceInv, LockHeld, ThreadsOfSeq, OvertakerWaits
<1>6. StartsAlone'
  BY DEF ServiceInv, StartsAlone
<1>7. MainCall' /\ BinderCall'
  BY <1>3 DEF ServiceInv, MainCall, BinderCall, CallRecords, StartPhases, StopPhases
<1>8. SwitchCalls'
  BY DEF ServiceInv, SwitchCalls
<1>9. NilBeforeStart'
  BY DEF ServiceInv, NilBeforeStart, Nil
<1>10. LatestRuns'
  BY DEF ServiceInv, LatestRuns
<1>11. ListensForLive'
  BY DEF ServiceInv, ListensForLive
<1>12. QED
  BY <1>1, <1>2, <1>5, <1>6, <1>7, <1>8, <1>9, <1>10, <1>11 DEF ServiceInv

(* The new request is the latest; whoever has the lock has not it.         *)
LEMMA OnSwitchServes ==
  ASSUME ServiceInv, OnSwitch
  PROVE  ServiceInv'
<1>1. CoreInv'
  BY CoreStays DEF ServiceInv, OnSwitch
<1>2. TypeOK'
  <2>1. PICK act : Delivers(act) /\ act # "RESTART"
    BY DEF OnSwitch
  <2>2. inbox' \in Seq(Intents) /\ proc' = "up" /\ restarting' = FALSE /\ Head(inbox) \in Intents
    BY <2>1, DeliversTypes DEF ServiceInv
  <2>3. CoreTypeOK'
    BY <1>1 DEF CoreInv
  <2>4. seq' \in 0 .. MaxSwitches
    BY DEF ServiceInv, TypeOK, OnSwitch
  <2>5. sw' \in [Switches -> SwitchRecords]
    <3>1. Head(inbox).profile \in Profiles \cup {None}
      BY <2>2 DEF Intents
    <3>2. [at |-> "queued", profile |-> Head(inbox).profile] \in
            SwitchRecords
      BY <3>1 DEF SwitchRecords, Active
    <3>3. QED
      BY <3>2 DEF ServiceInv, TypeOK, OnSwitch
  <2>6. UNCHANGED <<prefVars, optimizer, main, revoker, tunFd, hev, switchLock>>
    BY DEF OnSwitch
  <2>7. QED
    BY <2>2, <2>3, <2>4, <2>5, <2>6 DEF ServiceInv, TypeOK, Intents, prefVars
<1>3. call \in [Callers -> CallRecords] /\ call' \in [Callers -> CallRecords]
  BY <1>1 DEF ServiceInv, CoreInv, CoreTypeOK, CallTypeOK
<1>4. /\ seq \in 0 .. MaxSwitches /\ switchLock \in 0 .. MaxSwitches
      /\ sw \in [Switches -> SwitchRecords]
  BY DEF ServiceInv, TypeOK, SwitchRecords
<1> USE Names DEF OnSwitch, Switches, coreVars, uiVars, prefVars, vpnVars, switchVars
<1>5. MainCall' /\ BinderCall' /\ ListensForLive'
  BY DEF ServiceInv, MainCall, BinderCall, ListensForLive
<1>6. LockHeld'
  BY <1>4 DEF ServiceInv, LockHeld, Holding, SwitchRecords, ThreadsOfSeq
<1>7. ThreadsOfSeq'
  BY <1>4 DEF ServiceInv, ThreadsOfSeq, SwitchRecords
<1>8. StartsAlone'
  BY <1>4 DEF ServiceInv, StartsAlone, Delivers
<1>9. SwitchCalls'
  BY <1>3, <1>4 DEF ServiceInv, SwitchCalls, Holding, SwitchRecords, CallRecords,
     StartPhases, StopPhases, Returned, ThreadsOfSeq
<1>10. NilBeforeStart'
  BY DEF ServiceInv, NilBeforeStart, Nil
<1>11. OvertakerWaits'
  BY <1>4 DEF ServiceInv, OvertakerWaits
<1>12. LatestRuns'
  BY <1>4 DEF ServiceInv, LatestRuns
<1>13. QED
  BY <1>1, <1>2, <1>5, <1>6, <1>7, <1>8, <1>9, <1>10, <1>11, <1>12 DEF ServiceInv

(* The device without anything behind it.                                  *)
LEMMA WriteConfFailsServes ==
  ASSUME ServiceInv, WriteConfFails
  PROVE  ServiceInv'
<1>1. CoreInv'
  BY CoreStays DEF ServiceInv, WriteConfFails
<1>2. TypeOK'
  <2>1. PICK act : Delivers(act)
    BY DEF WriteConfFails, Starts
  <2>2. inbox' \in Seq(Intents) /\ proc' = "up" /\ restarting' = FALSE
    BY <2>1, DeliversTypes DEF ServiceInv
  <2>3. CoreTypeOK'
    BY <1>1 DEF CoreInv
  <2>4. QED
    BY <2>2, <2>3 DEF ServiceInv, TypeOK, Intents, WriteConfFails, switchVars, prefVars, Starts, Delivers
<1>3. call \in [Callers -> CallRecords] /\ call' \in [Callers -> CallRecords]
  BY <1>1 DEF ServiceInv, CoreInv, CoreTypeOK, CallTypeOK
<1>4. /\ seq \in 0 .. MaxSwitches /\ switchLock \in 0 .. MaxSwitches
      /\ sw \in [Switches -> SwitchRecords]
  BY DEF ServiceInv, TypeOK, SwitchRecords
<1> USE Names DEF WriteConfFails, Starts, coreVars, uiVars, prefVars, vpnVars, switchVars
<1>5. LockHeld' /\ ThreadsOfSeq' /\ MainCall' /\ BinderCall' /\ SwitchCalls' /\ OvertakerWaits' /\
      LatestRuns' /\ ListensForLive'
  BY DEF ServiceInv, LockHeld, ThreadsOfSeq, MainCall, BinderCall, SwitchCalls, OvertakerWaits,
     LatestRuns, ListensForLive
<1>6. StartsAlone'
  BY DEF ServiceInv, StartsAlone
<1>7. NilBeforeStart'
  BY DEF ServiceInv, NilBeforeStart, Nil
<1>8. QED
  BY <1>1, <1>2, <1>5, <1>6, <1>7 DEF ServiceInv

(* Before the device there were no switches, and the globals are nil.      *)
LEMMA StartServiceServes ==
  ASSUME ServiceInv, StartService
  PROVE  ServiceInv'
<1>1. CoreInv'
  BY CallStartKeeps, Names DEF ServiceInv, TypeOK, StartService, Maps
<1>2. TypeOK'
  <2>1. PICK act : Delivers(act)
    BY DEF StartService, Starts
  <2>2. inbox' \in Seq(Intents) /\ proc' = "up" /\ restarting' = FALSE
    BY <2>1, DeliversTypes DEF ServiceInv
  <2>3. CoreTypeOK'
    BY <1>1 DEF CoreInv
  <2>4. QED
    BY <2>2, <2>3 DEF ServiceInv, TypeOK, Intents, StartService, switchVars, vpnVars, Starts
<1>3. call \in [Callers -> CallRecords] /\ call' \in [Callers -> CallRecords]
  BY <1>1 DEF ServiceInv, CoreInv, CoreTypeOK, CallTypeOK
<1>4. /\ seq \in 0 .. MaxSwitches /\ switchLock \in 0 .. MaxSwitches
      /\ sw \in [Switches -> SwitchRecords]
  BY DEF ServiceInv, TypeOK, SwitchRecords
<1> USE Names DEF StartService, Starts, CallStart, coreVars, uiVars, prefVars, vpnVars, switchVars
<1>5. LockHeld' /\ ThreadsOfSeq' /\ OvertakerWaits'
  BY DEF ServiceInv, LockHeld, ThreadsOfSeq, OvertakerWaits
<1>6. StartsAlone'
  BY DEF ServiceInv, StartsAlone
<1>7. MainCall' /\ BinderCall'
  BY <1>3 DEF ServiceInv, MainCall, BinderCall, CallRecords, StartPhases, StopPhases
<1>8. SwitchCalls'
  BY DEF ServiceInv, SwitchCalls
<1>9. NilBeforeStart'
  BY DEF ServiceInv, NilBeforeStart, Nil
<1>10. LatestRuns'
  BY DEF ServiceInv, LatestRuns
<1>11. ListensForLive'
  BY DEF ServiceInv, ListensForLive
<1>12. QED
  BY <1>1, <1>2, <1>5, <1>6, <1>7, <1>8, <1>9, <1>10, <1>11 DEF ServiceInv

LEMMA MainStartedServes ==
  ASSUME ServiceInv, MainStarted
  PROVE  ServiceInv'
<1>1. CoreInv'
  BY CoreStays DEF ServiceInv, MainStarted
<1>2. TypeOK'
  <2>1. stored' \in Maps /\ reverted' \in BOOLEAN
    BY DEF ServiceInv, TypeOK, Maps, MainStarted
  <2>2. QED
    BY <1>1, <2>1 DEF ServiceInv, TypeOK, CoreInv, MainStarted, switchVars
<1>3. call \in [Callers -> CallRecords] /\ call' \in [Callers -> CallRecords]
  BY <1>1 DEF ServiceInv, CoreInv, CoreTypeOK, CallTypeOK
<1>4. /\ seq \in 0 .. MaxSwitches /\ switchLock \in 0 .. MaxSwitches
      /\ sw \in [Switches -> SwitchRecords]
  BY DEF ServiceInv, TypeOK, SwitchRecords
<1> USE Names DEF MainStarted, coreVars, uiVars, prefVars, vpnVars, switchVars
<1>5. LockHeld' /\ ThreadsOfSeq' /\ SwitchCalls' /\ OvertakerWaits' /\
      ListensForLive'
  BY DEF ServiceInv, LockHeld, ThreadsOfSeq, SwitchCalls, OvertakerWaits,
     ListensForLive
<1>6. StartsAlone'
  BY DEF ServiceInv, StartsAlone
<1>7. MainCall' /\ BinderCall'
  BY <1>3 DEF ServiceInv, MainCall, BinderCall, CallRecords, StartPhases, StopPhases, Returned
<1>8. NilBeforeStart'
  BY DEF ServiceInv, NilBeforeStart, Nil
<1>9. LatestRuns'
  BY <1>4, <1>3 DEF ServiceInv, LatestRuns, MainCall, BinderCall, StartsAlone
<1>10. QED
  BY <1>1, <1>2, <1>5, <1>6, <1>7, <1>8, <1>9 DEF ServiceInv

(* A start that failed has left the globals nil.                           *)
LEMMA MainStartFailsServes ==
  ASSUME ServiceInv, MainStartFails
  PROVE  ServiceInv'
<1>1. CoreInv'
  BY CoreStays DEF ServiceInv, MainStartFails
<1>2. TypeOK'
  BY <1>1 DEF ServiceInv, TypeOK, CoreInv, MainStartFails, uiVars, prefVars, vpnVars, switchVars
<1>3. call \in [Callers -> CallRecords] /\ call' \in [Callers -> CallRecords]
  BY <1>1 DEF ServiceInv, CoreInv, CoreTypeOK, CallTypeOK
<1>4. /\ seq \in 0 .. MaxSwitches /\ switchLock \in 0 .. MaxSwitches
      /\ sw \in [Switches -> SwitchRecords]
  BY DEF ServiceInv, TypeOK, SwitchRecords
<1> USE Names DEF MainStartFails, coreVars, uiVars, prefVars, vpnVars, switchVars
<1>5. LockHeld' /\ ThreadsOfSeq' /\ SwitchCalls' /\ OvertakerWaits' /\
      ListensForLive'
  BY DEF ServiceInv, LockHeld, ThreadsOfSeq, SwitchCalls, OvertakerWaits,
     ListensForLive
<1>6. StartsAlone'
  BY DEF ServiceInv, StartsAlone
<1>7. MainCall' /\ BinderCall'
  BY <1>3 DEF ServiceInv, MainCall, BinderCall, CallRecords, StartPhases, StopPhases, Returned
<1>8. NilBeforeStart'
  BY <1>4, <1>3 DEF ServiceInv, NilBeforeStart, Nil, CallRecords, ThreadsOfSeq,
     StartsAlone, SwitchRecords, SwitchCalls, MainCall, BinderCall, LockHeld, Holding, StartPhases,
     StopPhases, Returned
<1>9. LatestRuns'
  BY <1>4, <1>3 DEF ServiceInv, LatestRuns, MainCall, BinderCall, StartsAlone
<1>10. QED
  BY <1>1, <1>2, <1>5, <1>6, <1>7, <1>8, <1>9 DEF ServiceInv

(* A request that has been overtaken takes no lock.                        *)
LEMMA SwitchEntersServes ==
  ASSUME ServiceInv, NEW t \in Switches, SwitchEnters(t)
  PROVE  ServiceInv'
<1>1. CoreInv'
  BY CallStopKeeps, CoreStays, Names DEF ServiceInv, SwitchEnters
<1>2. TypeOK'
  <2>1. /\ sw \in [Switches -> SwitchRecords]
        /\ switchLock \in 0 .. MaxSwitches /\ t \in 0 .. MaxSwitches
    BY DEF ServiceInv, TypeOK, Switches
  <2>2. sw' \in [Switches -> SwitchRecords]
    BY <2>1 DEF SwitchEnters, SwitchGoto, SwitchRecords, Active
  <2>3. switchLock' \in 0 .. MaxSwitches
    BY <2>1 DEF SwitchEnters
  <2>4. UNCHANGED <<uiVars, vpnVars, seq>>
    BY DEF SwitchEnters
  <2>5. QED
    BY <1>1, <2>2, <2>3, <2>4 DEF ServiceInv, TypeOK, CoreInv, uiVars, prefVars, vpnVars
<1>3. call \in [Callers -> CallRecords] /\ call' \in [Callers -> CallRecords]
  BY <1>1 DEF ServiceInv, CoreInv, CoreTypeOK, CallTypeOK
<1>4. /\ seq \in 0 .. MaxSwitches /\ switchLock \in 0 .. MaxSwitches
      /\ sw \in [Switches -> SwitchRecords]
  BY DEF ServiceInv, TypeOK, SwitchRecords
<1> USE Names DEF SwitchEnters, SwitchGoto, CallStop, NotCalling, coreVars, uiVars, prefVars, vpnVars, switchVars
<1>5. StartsAlone'
  BY DEF ServiceInv, StartsAlone
<1>6. LockHeld'
  BY <1>4 DEF ServiceInv, LockHeld, Holding, SwitchRecords
<1>7. ThreadsOfSeq'
  BY <1>4 DEF ServiceInv, ThreadsOfSeq, SwitchRecords
<1>8. MainCall' /\ BinderCall'
  BY <1>3 DEF ServiceInv, MainCall, BinderCall, CallRecords
<1>9. SwitchCalls'
  BY <1>3, <1>4 DEF ServiceInv, SwitchCalls, Holding, SwitchRecords, CallRecords,
     StartPhases, StopPhases
<1>10. NilBeforeStart'
  BY <1>4, <1>3 DEF ServiceInv, NilBeforeStart, Nil, CallRecords, ThreadsOfSeq,
     StartsAlone, SwitchRecords
<1>11. OvertakerWaits'
  BY DEF ServiceInv, OvertakerWaits
<1>12. LatestRuns'
  <2>1. CASE t # seq /\ seq # 0
    <3>1. /\ sw'[seq] = sw[seq]
          /\ UNCHANGED <<call, echPool, profileOf, live, sockets, main, seq>>
      BY <2>1, <1>4 DEF Switches
    <3>2. QED
      BY <3>1 DEF ServiceInv, LatestRuns
  <2>2. CASE t = seq
    <3>1. sw'[seq].at \in {"stopping", "starting"} /\ call'[seq].at # "started" /\ seq' = seq
      BY <2>2, <1>3, <1>4 DEF ServiceInv, CoreInv, CoreTypeOK, CallTypeOK, CallRecords, SwitchRecords
    <3>2. QED
      BY <3>1 DEF LatestRuns
  <2>3. CASE seq = 0
    BY <2>3 DEF LatestRuns
  <2>4. QED
    BY <2>1, <2>2, <2>3
<1>13. ListensForLive'
  BY <1>3 DEF ServiceInv, ListensForLive, CallRecords
<1>14. QED
  BY <1>1, <1>2, <1>5, <1>6, <1>7, <1>8, <1>9, <1>10, <1>11, <1>12, <1>13 DEF ServiceInv

LEMMA SwitchSleepsServes ==
  ASSUME ServiceInv, NEW t \in Switches, SwitchSleeps(t)
  PROVE  ServiceInv'
<1>1. CoreInv'
  BY CoreStays DEF ServiceInv, SwitchSleeps
<1>2. TypeOK'
  <2>1. /\ sw \in [Switches -> SwitchRecords]
        /\ switchLock \in 0 .. MaxSwitches /\ t \in 0 .. MaxSwitches
    BY DEF ServiceInv, TypeOK, Switches
  <2>2. sw' \in [Switches -> SwitchRecords]
    BY <2>1 DEF SwitchSleeps, SwitchGoto, SwitchRecords, Active
  <2>3. switchLock' \in 0 .. MaxSwitches
    BY <2>1 DEF SwitchSleeps
  <2>4. UNCHANGED <<uiVars, vpnVars, seq>>
    BY DEF SwitchSleeps
  <2>5. QED
    BY <1>1, <2>2, <2>3, <2>4 DEF ServiceInv, TypeOK, CoreInv, uiVars, prefVars, vpnVars
<1>3. call \in [Callers -> CallRecords] /\ call' \in [Callers -> CallRecords]
  BY <1>1 DEF ServiceInv, CoreInv, CoreTypeOK, CallTypeOK
<1>4. /\ seq \in 0 .. MaxSwitches /\ switchLock \in 0 .. MaxSwitches
      /\ sw \in [Switches -> SwitchRecords]
  BY DEF ServiceInv, TypeOK, SwitchRecords
<1> USE Names DEF SwitchSleeps, SwitchGoto, coreVars, uiVars, prefVars, vpnVars, switchVars
<1>5. StartsAlone' /\ MainCall' /\ BinderCall' /\ ListensForLive'
  BY DEF ServiceInv, StartsAlone, MainCall, BinderCall, ListensForLive
<1>6. LockHeld'
  BY DEF ServiceInv, LockHeld, Holding
<1>7. ThreadsOfSeq'
  BY DEF ServiceInv, ThreadsOfSeq
<1>8. SwitchCalls'
  BY <1>3, <1>4 DEF ServiceInv, SwitchCalls, Holding
<1>9. NilBeforeStart'
  BY DEF ServiceInv, NilBeforeStart, Nil
<1>10. OvertakerWaits'
  BY DEF ServiceInv, OvertakerWaits
<1>11. LatestRuns'
  BY DEF ServiceInv, LatestRuns
<1>12. QED
  BY <1>1, <1>2, <1>5, <1>6, <1>7, <1>8, <1>9, <1>10, <1>11 DEF ServiceInv

(* The globals are nil since the stop.                                     *)
LEMMA SwitchStartsServes ==
  ASSUME ServiceInv, NEW t \in Switches, SwitchStarts(t)
  PROVE  ServiceInv'
<1>1. CoreInv'
  BY CallStartKeeps, CoreStays, Names DEF ServiceInv, TypeOK, SwitchRecords, SwitchStarts
<1>2. TypeOK'
  <2>1. /\ sw \in [Switches -> SwitchRecords]
        /\ switchLock \in 0 .. MaxSwitches /\ t \in 0 .. MaxSwitches
    BY DEF ServiceInv, TypeOK, Switches
  <2>2. sw' \in [Switches -> SwitchRecords]
    BY <2>1 DEF SwitchStarts, SwitchGoto, SwitchRecords, Active
  <2>3. switchLock' \in 0 .. MaxSwitches
    BY <2>1 DEF SwitchStarts
  <2>4. UNCHANGED <<uiVars, vpnVars, seq>>
    BY DEF SwitchStarts
  <2>5. QED
    BY <1>1, <2>2, <2>3, <2>4 DEF ServiceInv, TypeOK, CoreInv, uiVars, prefVars, vpnVars
<1>3. call \in [Callers -> CallRecords] /\ call' \in [Callers -> CallRecords]
  BY <1>1 DEF ServiceInv, CoreInv, CoreTypeOK, CallTypeOK
<1>4. /\ seq \in 0 .. MaxSwitches /\ switchLock \in 0 .. MaxSwitches
      /\ sw \in [Switches -> SwitchRecords]
  BY DEF ServiceInv, TypeOK, SwitchRecords
<1> USE Names DEF SwitchStarts, SwitchGoto, CallStart, coreVars, uiVars, prefVars, vpnVars, switchVars
<1>5. StartsAlone'
  BY DEF ServiceInv, StartsAlone
<1>6. LockHeld'
  BY <1>4 DEF ServiceInv, LockHeld, Holding, SwitchRecords
<1>7. ThreadsOfSeq'
  BY <1>4 DEF ServiceInv, ThreadsOfSeq, SwitchRecords
<1>8. MainCall' /\ BinderCall'
  BY <1>3 DEF ServiceInv, MainCall, BinderCall, CallRecords
<1>9. SwitchCalls'
  <2>1. sw[t].at = "sleeping" /\ call[t].at = "stopped"
    BY DEF ServiceInv, SwitchCalls
  <2>2. ASSUME NEW k \in Switches, k # t PROVE sw'[k] = sw[k] /\ call'[k] = call[k]
    BY <1>3, <1>4, <2>2
  <2>3. CASE t # seq
    BY <1>4, <2>1, <2>2, <2>3 DEF ServiceInv, SwitchCalls, Holding, SwitchRecords, Returned
  <2>4. CASE t = seq
    <3>1. /\ sw'[t].at = "starting" /\ sw'[t].profile = sw[t].profile
          /\ call'[t].at \in {"start", "failed"} /\ call'[t].profile = sw[t].profile
      BY <1>3, <1>4, <2>4 DEF SwitchRecords
    <3>2. QED
      BY <2>2, <3>1 DEF ServiceInv, SwitchCalls, Holding, StartPhases
  <2>5. QED
    BY <2>3, <2>4
<1>10. NilBeforeStart'
  BY DEF ServiceInv, NilBeforeStart, Nil
<1>11. OvertakerWaits'
  BY DEF ServiceInv, OvertakerWaits
<1>12. LatestRuns'
  <2>1. CASE t # seq /\ seq # 0
    <3>1. /\ sw'[seq] = sw[seq]
          /\ UNCHANGED <<call, echPool, profileOf, live, sockets, main, seq>>
      BY <2>1, <1>4 DEF Switches
    <3>2. QED
      BY <3>1 DEF ServiceInv, LatestRuns
  <2>2. CASE t = seq
    <3>1. sw'[seq].at \in {"stopping", "starting"} /\ call'[seq].at # "started" /\ seq' = seq
      BY <2>2, <1>3, <1>4 DEF ServiceInv, CoreInv, CoreTypeOK, CallTypeOK, CallRecords, SwitchRecords
    <3>2. QED
      BY <3>1 DEF LatestRuns
  <2>3. CASE seq = 0
    BY <2>3 DEF LatestRuns
  <2>4. QED
    BY <2>1, <2>2, <2>3
<1>13. ListensForLive'
  BY <1>3 DEF ServiceInv, ListensForLive, CallRecords
<1>14. QED
  BY <1>1, <1>2, <1>5, <1>6, <1>7, <1>8, <1>9, <1>10, <1>11, <1>12, <1>13 DEF ServiceInv

(* What ran when the start returned still runs.                            *)
LEMMA SwitchStartedServes ==
  ASSUME ServiceInv, NEW t \in Switches, SwitchStarted(t)
  PROVE  ServiceInv'
<1>1. CoreInv'
  BY CoreStays DEF ServiceInv, SwitchStarted
<1>2. TypeOK'
  <2>1. /\ sw \in [Switches -> SwitchRecords]
        /\ switchLock \in 0 .. MaxSwitches /\ t \in 0 .. MaxSwitches
    BY DEF ServiceInv, TypeOK, Switches
  <2>2. sw' \in [Switches -> SwitchRecords]
    BY <2>1 DEF SwitchStarted, SwitchGoto, SwitchRecords, Active
  <2>3. switchLock' \in 0 .. MaxSwitches
    BY <2>1 DEF SwitchStarted
  <2>4. UNCHANGED <<uiVars, vpnVars, seq>>
    BY DEF SwitchStarted
  <2>5. QED
    BY <1>1, <2>2, <2>3, <2>4 DEF ServiceInv, TypeOK, CoreInv, uiVars, prefVars, vpnVars
<1>3. call \in [Callers -> CallRecords] /\ call' \in [Callers -> CallRecords]
  BY <1>1 DEF ServiceInv, CoreInv, CoreTypeOK, CallTypeOK
<1>4. /\ seq \in 0 .. MaxSwitches /\ switchLock \in 0 .. MaxSwitches
      /\ sw \in [Switches -> SwitchRecords]
  BY DEF ServiceInv, TypeOK, SwitchRecords
<1> USE Names DEF SwitchStarted, SwitchGoto, coreVars, uiVars, prefVars, vpnVars, switchVars
<1>5. StartsAlone' /\ MainCall' /\ BinderCall' /\ ListensForLive'
  BY DEF ServiceInv, StartsAlone, MainCall, BinderCall, ListensForLive
<1>6. LockHeld'
  BY DEF ServiceInv, LockHeld, Holding
<1>7. ThreadsOfSeq'
  BY DEF ServiceInv, ThreadsOfSeq
<1>8. SwitchCalls'
  BY <1>3, <1>4 DEF ServiceInv, SwitchCalls, Holding
<1>9. NilBeforeStart'
  BY DEF ServiceInv, NilBeforeStart, Nil
<1>10. OvertakerWaits'
  BY DEF ServiceInv, OvertakerWaits
<1>11. LatestRuns'
  BY DEF ServiceInv, LatestRuns
<1>12. QED
  BY <1>1, <1>2, <1>5, <1>6, <1>7, <1>8, <1>9, <1>10, <1>11 DEF ServiceInv

LEMMA SwitchFailsServes ==
  ASSUME ServiceInv, NEW t \in Switches, SwitchFails(t)
  PROVE  ServiceInv'
<1>1. CoreInv'
  BY CoreStays DEF ServiceInv, SwitchFails
<1>2. TypeOK'
  <2>1. /\ sw \in [Switches -> SwitchRecords]
        /\ switchLock \in 0 .. MaxSwitches /\ t \in 0 .. MaxSwitches
    BY DEF ServiceInv, TypeOK, Switches
  <2>2. sw' \in [Switches -> SwitchRecords]
    BY <2>1 DEF SwitchFails, SwitchGoto, SwitchRecords, Active
  <2>3. switchLock' \in 0 .. MaxSwitches
    BY <2>1 DEF SwitchFails
  <2>4. UNCHANGED <<uiVars, vpnVars, seq>>
    BY DEF SwitchFails
  <2>5. QED
    BY <1>1, <2>2, <2>3, <2>4 DEF ServiceInv, TypeOK, CoreInv, uiVars, prefVars, vpnVars
<1>3. call \in [Callers -> CallRecords] /\ call' \in [Callers -> CallRecords]
  BY <1>1 DEF ServiceInv, CoreInv, CoreTypeOK, CallTypeOK
<1>4. /\ seq \in 0 .. MaxSwitches /\ switchLock \in 0 .. MaxSwitches
      /\ sw \in [Switches -> SwitchRecords]
  BY DEF ServiceInv, TypeOK, SwitchRecords
<1> USE Names DEF SwitchFails, SwitchGoto, coreVars, uiVars, prefVars, vpnVars, switchVars
<1>5. StartsAlone' /\ MainCall' /\ BinderCall' /\ ListensForLive'
  BY DEF ServiceInv, StartsAlone, MainCall, BinderCall, ListensForLive
<1>6. LockHeld'
  BY <1>4 DEF ServiceInv, LockHeld, Holding, SwitchRecords
<1>7. ThreadsOfSeq'
  BY DEF ServiceInv, ThreadsOfSeq
<1>8. SwitchCalls'
  BY <1>3, <1>4 DEF ServiceInv, SwitchCalls, Holding, SwitchRecords, CallRecords,
     StartPhases, StopPhases, Returned
<1>9. NilBeforeStart'
  BY DEF ServiceInv, NilBeforeStart, Nil
<1>10. OvertakerWaits'
  BY DEF ServiceInv, OvertakerWaits
<1>11. LatestRuns'
  BY DEF ServiceInv, LatestRuns
<1>12. QED
  BY <1>1, <1>2, <1>5, <1>6, <1>7, <1>8, <1>9, <1>10, <1>11 DEF ServiceInv

LEMMA SwitchReadyServes ==
  ASSUME ServiceInv, NEW t \in Switches, SwitchReady(t)
  PROVE  ServiceInv'
<1>1. CoreInv'
  BY CoreStays DEF ServiceInv, SwitchReady
<1>2. TypeOK'
  <2>1. /\ sw \in [Switches -> SwitchRecords]
        /\ switchLock \in 0 .. MaxSwitches /\ t \in 0 .. MaxSwitches
    BY DEF ServiceInv, TypeOK, Switches
  <2>2. sw' \in [Switches -> SwitchRecords]
    BY <2>1 DEF SwitchReady, SwitchGoto, SwitchRecords, Active
  <2>3. switchLock' \in 0 .. MaxSwitches
    BY <2>1 DEF SwitchReady
  <2>4. UNCHANGED <<uiVars, vpnVars, seq>>
    BY DEF SwitchReady
  <2>5. QED
    BY <1>1, <2>2, <2>3, <2>4 DEF ServiceInv, TypeOK, CoreInv, uiVars, prefVars, vpnVars
<1>3. call \in [Callers -> CallRecords] /\ call' \in [Callers -> CallRecords]
  BY <1>1 DEF ServiceInv, CoreInv, CoreTypeOK, CallTypeOK
<1>4. /\ seq \in 0 .. MaxSwitches /\ switchLock \in 0 .. MaxSwitches
      /\ sw \in [Switches -> SwitchRecords]
  BY DEF ServiceInv, TypeOK, SwitchRecords
<1> USE Names DEF SwitchReady, SwitchGoto, coreVars, uiVars, prefVars, vpnVars, switchVars
<1>5. StartsAlone' /\ MainCall' /\ BinderCall' /\ ListensForLive'
  BY DEF ServiceInv, StartsAlone, MainCall, BinderCall, ListensForLive
<1>6. LockHeld'
  BY <1>4 DEF ServiceInv, LockHeld, Holding, SwitchRecords
<1>7. ThreadsOfSeq'
  BY DEF ServiceInv, ThreadsOfSeq
<1>8. SwitchCalls'
  BY <1>3, <1>4 DEF ServiceInv, SwitchCalls, Holding, SwitchRecords, CallRecords,
     StartPhases, StopPhases, Returned
<1>9. NilBeforeStart'
  BY DEF ServiceInv, NilBeforeStart, Nil
<1>10. OvertakerWaits'
  BY DEF ServiceInv, OvertakerWaits
<1>11. LatestRuns'
  BY DEF ServiceInv, LatestRuns
<1>12. QED
  BY <1>1, <1>2, <1>5, <1>6, <1>7, <1>8, <1>9, <1>10, <1>11 DEF ServiceInv

-----------------------------------------------------------------------------

(* A process begins with the core as it is at first.                       *)
LEMMA FreshCore == CoreInit' => CoreInv'
BY CoreInitInv, PTL

(* What a process keeps over its end is the inbox and the preferences.     *)
LEMMA ProcessEndServes ==
  ASSUME ServiceInv, ProcessEnds, UNCHANGED <<selected, ui, stored, reverted, optimizer>>,
         inbox' \in Seq(Intents), restarting' \in BOOLEAN
  PROVE  ServiceInv'
<1>1. CoreInit'
  BY DEF ProcessEnds, CoreInit
<1>2. CoreInv'
  BY <1>1, FreshCore
<1> USE Names DEF ProcessEnds, NotCalling, NoSwitch
<1>3. /\ \A c \in Callers : call'[c].at = "idle"
      /\ \A t \in Switches : sw'[t].at = "none"
  OBVIOUS
<1>4. TypeOK'
  <2>1. sw' \in [Switches -> SwitchRecords]
    BY DEF SwitchRecords
  <2>2. /\ proc' = "down" /\ main' = "idle" /\ revoker' = "idle"
        /\ tunFd' = FALSE /\ hev' = FALSE /\ loaded' = NotLoaded
        /\ seq' = 0 /\ switchLock' = 0
    OBVIOUS
  <2>3. seq' \in 0 .. MaxSwitches /\ switchLock' \in 0 .. MaxSwitches
    BY <2>2
  <2>4. CoreTypeOK'
    BY <1>2 DEF CoreInv
  <2>5. QED
    BY <2>1, <2>2, <2>3, <2>4, Zenon DEF ServiceInv, TypeOK, Intents
<1>5. ListensForLive' /\ LockHeld' /\ ThreadsOfSeq' /\ StartsAlone'
  BY <1>3 DEF ListensForLive, LockHeld, Holding, ThreadsOfSeq, StartsAlone
<1>6. MainCall' /\ BinderCall' /\ SwitchCalls' /\ NilBeforeStart' /\ OvertakerWaits' /\ LatestRuns'
  BY <1>3 DEF MainCall, BinderCall, SwitchCalls, Holding, Returned, NilBeforeStart, Nil,
              OvertakerWaits, LatestRuns
<1>7. QED
  BY <1>2, <1>4, <1>5, <1>6 DEF ServiceInv

LEMMA ExitServes == ServiceInv /\ Exit => ServiceInv'
<1> SUFFICES ASSUME ServiceInv, Exit PROVE ServiceInv'
  OBVIOUS
<1>1. inbox' \in Seq(Intents) /\ restarting' \in BOOLEAN
  BY DEF ServiceInv, TypeOK, Intents, Exit, uiVars, prefVars
<1>2. ProcessEnds /\ UNCHANGED <<selected, ui, stored, reverted, optimizer>>
  BY DEF Exit, uiVars, prefVars
<1>3. QED
  BY <1>1, <1>2, ProcessEndServes

LEMMA RevokeExitServes == ServiceInv /\ RevokeExit => ServiceInv'
<1> SUFFICES ASSUME ServiceInv, RevokeExit PROVE ServiceInv'
  OBVIOUS
<1>1. inbox' \in Seq(Intents) /\ restarting' \in BOOLEAN
  BY DEF ServiceInv, TypeOK, Intents, RevokeExit
<1>2. ProcessEnds /\ UNCHANGED <<selected, ui, stored, reverted, optimizer>>
  BY DEF RevokeExit
<1>3. QED
  BY <1>1, <1>2, ProcessEndServes

LEMMA CrashServes == ServiceInv /\ Crash => ServiceInv'
<1> SUFFICES ASSUME ServiceInv, Crash PROVE ServiceInv'
  OBVIOUS
<1>1. inbox' \in Seq(Intents)
  <2>1. <<Intent("DISCONNECT", None)>> \in Seq(Intents) /\ inbox \in Seq(Intents)
    BY DEF ServiceInv, TypeOK, Intents, Intent
  <2>2. <<Intent("DISCONNECT", None)>> \o inbox \in Seq(Intents)
    BY <2>1
  <2>3. QED
    BY <2>1, <2>2 DEF Crash
<1>2. ProcessEnds /\ UNCHANGED <<selected, ui, stored, reverted, optimizer>> /\ restarting' = TRUE
  BY DEF Crash
<1>3. QED
  BY <1>1, <1>2, ProcessEndServes

(* Connections and pools under the service.                                *)
LEMMA ConnServes ==
  ASSUME ServiceInv, NEW h \in Conns, ConnStep(h), ServiceUnchanged
  PROVE  ServiceInv'
<1>1. CoreInv'
  BY ConnKeeps DEF ServiceInv
<1>2. CoreUnchangedByConn
  BY DEF ConnStep, Accept, Connect, Associate, FirstDatagram, ConnEnds
<1> USE <1>2 DEF CoreUnchangedByConn, ServiceUnchanged, uiVars, prefVars, vpnVars, switchVars
<1>3. TypeOK'
  BY <1>1 DEF ServiceInv, TypeOK, CoreInv
<1>4. ListensForLive' /\ LockHeld' /\ ThreadsOfSeq' /\ StartsAlone'
  BY DEF ServiceInv, ListensForLive, LockHeld, ThreadsOfSeq, StartsAlone
<1>5. MainCall' /\ BinderCall' /\ SwitchCalls' /\ NilBeforeStart' /\ OvertakerWaits' /\ LatestRuns'
  BY DEF ServiceInv, MainCall, BinderCall, SwitchCalls, NilBeforeStart, Nil, OvertakerWaits,
         LatestRuns
<1>6. QED
  BY <1>1, <1>3, <1>4, <1>5 DEF ServiceInv

LEMMA ServiceInitInv == Init => ServiceInv
<1> SUFFICES ASSUME Init PROVE ServiceInv
  OBVIOUS
<1>1. CoreInv
  BY CoreInitInv DEF Init
<1> USE Names DEF Init, CoreInit, NotCalling, NoSwitch
<1>2. /\ \A c \in Callers : call[c].at = "idle"
      /\ \A t \in Switches : sw[t].at = "none"
  OBVIOUS
<1>3. TypeOK
  <2>1. sw \in [Switches -> SwitchRecords]
    BY DEF SwitchRecords
  <2>2. seq \in 0 .. MaxSwitches /\ switchLock \in 0 .. MaxSwitches
    OBVIOUS
  <2>3. inbox \in Seq(Intents)
    OBVIOUS
  <2>4. optimizer \in [at : {"asleep", "probing", "applying"}, profile : Profiles \cup {None}]
    BY DEF Asleep
  <2>5. selected \in Profiles /\ ui \in Maps /\ stored \in Maps /\ loaded = NotLoaded
    BY CoreAssumption DEF Maps
  <2>6. CoreTypeOK
    BY <1>1 DEF CoreInv
  <2>7. QED
    BY <2>1, <2>2, <2>3, <2>4, <2>5, <2>6, Zenon DEF TypeOK, Intents
<1>4. ListensForLive /\ LockHeld /\ ThreadsOfSeq /\ StartsAlone
  BY <1>2 DEF ListensForLive, LockHeld, Holding, ThreadsOfSeq, StartsAlone
<1>5. MainCall /\ BinderCall /\ SwitchCalls /\ NilBeforeStart /\ OvertakerWaits /\ LatestRuns
  BY <1>2 DEF MainCall, BinderCall, SwitchCalls, Holding, Returned, NilBeforeStart, Nil,
              OvertakerWaits, LatestRuns
<1>6. QED
  BY <1>1, <1>3, <1>4, <1>5 DEF ServiceInv

LEMMA ServiceStepInv == ServiceInv /\ [Next]_vars => ServiceInv'
<1> SUFFICES ASSUME ServiceInv, [Next]_vars PROVE ServiceInv'
  OBVIOUS
<1>1. CASE UserStep
  BY <1>1, UserServes
<1>2. CASE OnRevoke \/ RevokeExit
  BY <1>2, OnRevokeServes, RevokeExitServes
<1>3. CASE MainStep
  BY <1>3, OnDisconnectServes, OnSwitchServes, DeliveryStartsNothing, WriteConfFailsServes,
     StartServiceServes, MainStartedServes, MainStartFailsServes, ExitServes
     DEF MainStep, OnStartCommand
<1>4. CASE Crash
  BY <1>4, CrashServes
<1>5. ASSUME NEW t \in Switches, SwitchStep(t) PROVE ServiceInv'
  BY <1>5, SwitchEntersServes, SwitchSleepsServes, SwitchStartsServes, SwitchStartedServes,
     SwitchFailsServes, SwitchReadyServes DEF SwitchStep
<1>6. CASE CoreStep /\ ServiceUnchanged
  <2>1. ASSUME NEW c \in Callers, CallStep(c) PROVE ServiceInv'
    BY <1>6, <2>1, StartLocksServes, EchSettledServes, ListenSucceedsServes,
       ListenFailsServes, StopLocksServes, StopClosesListenerServes, StopClosesPoolServes
       DEF CallStep
  <2>2. ASSUME NEW h \in Conns, ConnStep(h) PROVE ServiceInv'
    BY <1>6, <2>2, ConnServes
  <2>3. QED
    BY <1>6, <2>1, <2>2 DEF CoreStep
<1>7. CASE UNCHANGED vars
  <2>1. UNCHANGED <<coreVars, uiVars, vpnVars, switchVars>>
    BY <1>7 DEF vars
  <2>2. UNCHANGED <<coreVars, main, revoker, tunFd, switchVars>>
    BY <2>1 DEF vpnVars
  <2>3. TypeOK'
    <3>1. CoreTypeOK'
      BY <2>1, CoreStays DEF ServiceInv, CoreInv
    <3>2. QED
      BY <2>1, <3>1 DEF ServiceInv, TypeOK, uiVars, prefVars, vpnVars, switchVars
  <2>4. QED
    BY <2>2, <2>3, NothingStarts
<1>8. QED
  BY <1>1, <1>2, <1>3, <1>4, <1>5, <1>6, <1>7 DEF Next

(* The inductive invariant of the service on top of the core.              *)
THEOREM ServiceInvariant == Spec => []ServiceInv
BY ServiceInitInv, ServiceStepInv, PTL DEF Spec

(* Every variable of the service keeps its type; hev-socks5-tunnel never   *)
(* outlives the device it reads from.                                      *)
THEOREM ServiceTypes == Spec => []TypeOK
<1>1. ServiceInv => TypeOK
  BY DEF ServiceInv
<1>2. QED
  BY <1>1, ServiceInvariant, PTL

(* Once the latest switch request has been carried out its node runs and   *)
(* listens, whatever order the threads of the requests got the lock in.    *)
THEOREM LatestSwitchRuns == Spec => []LatestSwitchWins
<1>1. ServiceInv => LatestSwitchWins
  BY DEF ServiceInv, LatestRuns, LatestSwitchWins
<1>2. QED
  BY <1>1, ServiceInvariant, PTL

(* No start of the service finds the core of an earlier one still up.      *)
THEOREM StartsAreNotRefused == Spec => []StartNotRefused
<1>1. ServiceInv => StartNotRefused
  <2> SUFFICES ASSUME ServiceInv, NEW c \in Callers PROVE call[c].at # "refused"
    BY DEF StartNotRefused
  <2>1. CASE c = MainThread
    BY <2>1 DEF ServiceInv, TypeOK, MainCall, BinderCall, StartPhases, StopPhases
  <2>2. CASE c = BinderThread
    BY <2>2 DEF ServiceInv, TypeOK, BinderCall, StopPhases
  <2>3. CASE c \in Switches
    BY <2>3 DEF ServiceInv, SwitchCalls, Holding, StartPhases, StopPhases
  <2>4. QED
    BY <2>1, <2>2, <2>3 DEF Switches
<1>2. QED
  BY <1>1, ServiceInvariant, PTL

(* The service calls the core as the core's invariant asks: no pool or     *)
(* socket is orphaned, no pool reads the settings of another node, and the *)
(* port of a start is free.                                                *)
THEOREM ServiceKeepsCore == Spec => [](NoOrphan /\ ConfigOfLivePool /\ PortIsFree)
<1>1. ServiceInv => NoOrphan /\ ConfigOfLivePool /\ PortIsFree
  BY NoSocketLeft DEF ServiceInv, CoreInv
<1>2. QED
  BY <1>1, ServiceInvariant, PTL

-----------------------------------------------------------------------------
(* The core keeps its promise under the service.                           *)

LEMMA ServiceStepOfOne ==
  ASSUME ServiceInv, GlobalIsLive, [Next]_vars
  PROVE  GlobalIsLive' /\ [One!Next \/ One!ProcessEnds]_(One!vars)
<1>1. CASE UNCHANGED <<echPool, live, profileOf, sockets>>
  BY <1>1, OneStays DEF GlobalIsLive
<1>2. CASE ProcessEnds
  <2>1. live' = {} /\ sockets' = {} /\ echPool' = 0
    BY <1>2 DEF ProcessEnds
  <2>2. One!ProcessEnds
    BY <2>1 DEF One!ProcessEnds
  <2>3. QED
    BY <2>1, <2>2 DEF GlobalIsLive
<1>3. ASSUME NEW c \in Callers, CallStep(c), ~panicked
      PROVE  GlobalIsLive' /\ [One!Next \/ One!ProcessEnds]_(One!vars)
  <2>1. CoreNext /\ CoreInv
    BY <1>3 DEF CoreNext, CoreStep, ServiceInv
  <2>2. GlobalIsLive'
    BY <2>1, GlobalStaysLive
  <2>3. [One!Next]_(One!vars)
    BY <1>3, <2>1, CallStepOfOne
  <2>4. QED
    BY <2>2, <2>3
<1>4. ASSUME NEW h \in Conns, ConnStep(h) PROVE UNCHANGED <<echPool, live, profileOf, sockets>>
  BY <1>4 DEF ConnStep, Accept, Connect, Associate, FirstDatagram, ConnEnds, CoreUnchangedByConn
<1>5. CASE UserStep \/ OnRevoke \/ OnStartCommand \/ MainStarted \/ MainStartFails
  <2>1. UNCHANGED <<echPool, live, profileOf, sockets>>
    BY <1>5 DEF UserStep, SelectProfile, ToggleConnection, CommitSetting, Reload, OnCreate,
       ApplySettings, PermissionGranted,
       OptimizerStarts, OptimizerReadsEnable, OptimizerSends, OptimizerChangesNothing,
       OnRevoke, OnStartCommand, OnDisconnect, OnSwitch, OnConnectRunning, EstablishFails,
       WriteConfFails, StartService, MainStarted, MainStartFails, CallStop, CallStart, coreVars
  <2>2. QED
    BY <1>1, <2>1
<1>6. ASSUME NEW t \in Switches, SwitchStep(t)
      PROVE  UNCHANGED <<echPool, live, profileOf, sockets>>
  BY <1>6 DEF SwitchStep, SwitchEnters, SwitchSleeps, SwitchStarts, SwitchStarted, SwitchFails,
              SwitchReady, CallStop, CallStart, coreVars
<1>7. CASE UNCHANGED vars
  BY <1>1, <1>7 DEF vars, coreVars
<1>8. CASE CoreStep
  BY <1>1, <1>3, <1>4, <1>8 DEF CoreStep
<1>9. QED
  BY <1>1, <1>2, <1>5, <1>6, <1>7, <1>8 DEF Next, MainStep, Exit, RevokeExit, Crash

(* Starts, switches, stops, failures and crashes of the service, in any    *)
(* order, run one node at a time; the port is open only while one runs.    *)
THEOREM ServiceRunsOneNode == Spec => HostsOneNode
<1>1. Init => GlobalIsLive /\ One!Init
  BY OneInit DEF Init
<1>2. ServiceInv /\ GlobalIsLive /\ [Next]_vars => GlobalIsLive'
  BY ServiceStepOfOne
<1>3. ServiceInv /\ GlobalIsLive /\ [Next]_vars => [One!Next \/ One!ProcessEnds]_(One!vars)
  BY ServiceStepOfOne
<1>4. QED
  BY <1>1, <1>2, <1>3, ServiceInvariant, PTL DEF Spec, HostsOneNode, One!HostedSpec

-----------------------------------------------------------------------------
(* Where the optimizer does not run, the node that serves the device is    *)
(* the selected one.                                                       *)

(* An intent sent by MainActivity.                                         *)
LEMMA SendSelects ==
  ASSUME ServiceInv, SelectionInv, NEW act, NEW p, Send(act, p),
         SelectionStored',
         act = "SWITCH" => p = selected',
         act # "SWITCH" => UNCHANGED <<selected, reverted>>,
         act # "DISCONNECT" => ui'.enable,
         UNCHANGED <<coreVars, optimizer, vpnVars, switchVars>>
  PROVE  SelectionInv'
<1> USE DEF vpnVars, switchVars, coreVars
<1>1. inbox \in Seq(Intents)
  BY DEF ServiceInv, TypeOK
<1> DEFINE n == Len(inbox)
<1>2. /\ n \in Nat /\ DOMAIN inbox = 1 .. n
      /\ Len(inbox') = n + 1 /\ DOMAIN inbox' = 1 .. n + 1 /\ inbox' # <<>>
      /\ inbox'[n + 1].act = act /\ inbox'[n + 1].profile = p
      /\ \A k \in 1 .. n : inbox'[k] = inbox[k]
  BY <1>1 DEF Send, Intent
<1> HIDE DEF n
<1>3. LastSwitchSelected'
  <2> SUFFICES ASSUME ~reverted', NEW k \in 1 .. n + 1, inbox'[k].act = "SWITCH",
                      \A j \in 1 .. n + 1 : j > k => inbox'[j].act = "CONNECT"
               PROVE  inbox'[k].profile = selected'
    BY <1>2 DEF LastSwitchSelected
  <2>1. CASE k = n + 1
    BY <1>2, <2>1
  <2>2. CASE k \in 1 .. n
    <3>1. act = "CONNECT"
      BY <1>2, <2>2
    <3>2. inbox[k].act = "SWITCH" /\ \A j \in 1 .. n : j > k => inbox[j].act = "CONNECT"
      BY <1>2, <2>2
    <3>3. inbox[k].profile = selected
      BY <1>2, <2>2, <3>2 DEF SelectionInv, LastSwitchSelected
    <3>4. QED
      BY <1>2, <2>2, <3>1, <3>3
  <2>3. QED
    BY <1>2, <2>1, <2>2
<1>4. DisabledStops'
  BY <1>2 DEF DisabledStops, n
<1>5. ServesSelected'
  <2> SUFFICES ASSUME \A k \in 1 .. n + 1 : inbox'[k].act = "CONNECT" PROVE ServesSelected'
    BY <1>2 DEF ServesSelected
  <2>1. act = "CONNECT" /\ \A k \in 1 .. n : inbox[k].act = "CONNECT"
    BY <1>2
  <2>2. QED
    BY <1>2, <2>1 DEF SelectionInv, ServesSelected
<1>6. RestartsFromNothing' /\ QuietBeforeListening' /\ MainStartRuns' /\ LatestFailed'
  BY DEF SelectionInv, RestartsFromNothing, QuietBeforeListening, MainStartRuns, LatestFailed, Nil
<1>7. QED
  BY <1>3, <1>4, <1>5, <1>6 DEF SelectionInv

(* The maps change while the service is off or about to be.                *)
LEMMA SelectsUnused ==
  ASSUME ServiceInv, SelectionInv, ~ui.enable, ~ui'.enable, SelectionStored',
         UNCHANGED <<coreVars, inbox, optimizer, vpnVars, switchVars>>
  PROVE  SelectionInv'
<1> USE DEF vpnVars, switchVars, coreVars
<1>1. inbox \in Seq(Intents)
  BY DEF ServiceInv, TypeOK
<1>2. /\ Len(inbox) \in Nat /\ DOMAIN inbox = 1 .. Len(inbox)
      /\ inbox # <<>> => Len(inbox) \in DOMAIN inbox
  BY <1>1
<1>3. \/ inbox # <<>> /\ inbox[Len(inbox)].act = "DISCONNECT"
      \/ inbox = <<>> /\ (main = "stopping" \/ ~tunFd)
  BY DEF SelectionInv, DisabledStops
<1>4. LastSwitchSelected'
  <2>1. \A k \in DOMAIN inbox : k = Len(inbox) \/ Len(inbox) > k
    BY <1>2
  <2>2. QED
    BY <1>2, <1>3, <2>1 DEF LastSwitchSelected
<1>5. ServesSelected'
  BY <1>2, <1>3 DEF ServesSelected
<1>6. /\ RestartsFromNothing' /\ QuietBeforeListening' /\ MainStartRuns' /\ LatestFailed'
      /\ DisabledStops'
  BY DEF SelectionInv, RestartsFromNothing, QuietBeforeListening, MainStartRuns, LatestFailed,
         Nil, DisabledStops
<1>7. QED
  BY <1>4, <1>5, <1>6 DEF SelectionInv

(* The maps change, the selected node does not; reading the file again can *)
(* only turn the switch on.                                                *)
LEMMA MapsSelect ==
  ASSUME ServiceInv, SelectionInv, SelectionStored', ui.enable => ui'.enable,
         ~reverted => selected' = selected,
         UNCHANGED <<coreVars, reverted, inbox, optimizer, vpnVars, switchVars>>
  PROVE  SelectionInv'
<1> USE DEF vpnVars, switchVars, coreVars
<1>1. /\ RestartsFromNothing' /\ QuietBeforeListening' /\ MainStartRuns' /\ LatestFailed'
      /\ DisabledStops'
  BY DEF SelectionInv, RestartsFromNothing, QuietBeforeListening, MainStartRuns, LatestFailed,
         Nil, DisabledStops
<1>2. LastSwitchSelected' /\ ServesSelected'
  BY DEF SelectionInv, LastSwitchSelected, ServesSelected
<1>3. QED
  BY <1>1, <1>2 DEF SelectionInv

LEMMA UserSelects ==
  ASSUME ~Optimizing, ServiceInv, SelectionInv, UserStep
  PROVE  SelectionInv'
<1>1. /\ ui \in Maps /\ stored \in Maps /\ reverted \in BOOLEAN
      /\ SelectionStored
  BY DEF ServiceInv, TypeOK, SelectionInv
<1>2. ASSUME NEW p \in Profiles, SelectProfile(p) PROVE SelectionInv'
  <2>1. /\ ui'.enable = ui.enable /\ ui'.profile = p /\ selected' = p
        /\ ui.profile # p => stored' = ui'
        /\ ui.profile = p => stored' = stored
        /\ reverted' = (reverted /\ stored'.profile # p)
    <3> DEFINE map == [ui EXCEPT !.profile = p]
    <3>1. map.enable = ui.enable /\ map.profile = p /\ (ui.profile = p => map = ui)
      BY <1>1 DEF Maps
    <3>2. QED
      BY <1>2, <3>1 DEF SelectProfile, Commit
  <2>2. p # selected
    BY <1>2 DEF SelectProfile
  <2>3. SelectionStored'
    <3>1. CASE ui.profile # p
      BY <1>1, <2>1, <3>1 DEF SelectionStored
    <3>2. CASE ui.profile = p
      BY <1>1, <2>1, <2>2, <3>2 DEF SelectionStored
    <3>3. QED
      BY <3>1, <3>2
  <2>4. CASE ui.enable
    BY <1>2, <2>1, <2>3, <2>4, SendSelects DEF SelectProfile
  <2>5. CASE ~ui.enable
    BY <1>2, <2>1, <2>3, <2>5, SelectsUnused DEF SelectProfile
  <2>6. QED
    BY <2>4, <2>5
<1>3. CASE ToggleConnection
  <2>1. /\ ui'.enable = ~ui.enable /\ ui'.profile = ui.profile /\ stored' = ui'
        /\ UNCHANGED <<selected, reverted>>
    <3> DEFINE map == [ui EXCEPT !.enable = ~ui.enable]
    <3>1. map.enable = ~ui.enable /\ map.profile = ui.profile
      BY <1>1 DEF Maps
    <3>2. map # ui
      BY <1>1, <3>1 DEF Maps
    <3>3. QED
      BY <1>3, <3>1, <3>2 DEF ToggleConnection, Commit
  <2>2. SelectionStored'
    BY <1>1, <2>1 DEF SelectionStored
  <2>3. CASE ui.enable
    BY <1>3, <2>1, <2>2, <2>3, SendSelects DEF ToggleConnection
  <2>4. CASE ~ui.enable
    BY <1>3, <2>1, <2>2, <2>4, SendSelects DEF ToggleConnection
  <2>5. QED
    BY <2>3, <2>4
<1>4. CASE CommitSetting \/ Reload \/ OnCreate
  <2>1. SelectionStored' /\ (ui.enable => ui'.enable) /\ (~reverted => selected' = selected)
    BY <1>1, <1>4 DEF CommitSetting, Reload, OnCreate, SelectionStored
  <2>2. UNCHANGED <<coreVars, reverted, inbox, optimizer, vpnVars, switchVars>>
    BY <1>4 DEF CommitSetting, Reload, OnCreate
  <2>3. QED
    BY <2>1, <2>2, MapsSelect
<1>5. CASE ApplySettings
  <2>1. SelectionStored'
    BY <1>1, <1>5 DEF ApplySettings, SelectionStored
  <2>2. QED
    BY <1>5, <2>1, SendSelects DEF ApplySettings
<1>6. CASE PermissionGranted
  <2>1. UNCHANGED <<selected, ui, stored, reverted>>
    BY <1>6 DEF PermissionGranted, prefVars
  <2>2. SelectionStored'
    BY <1>1, <2>1 DEF SelectionStored
  <2>3. QED
    BY <1>6, <2>1, <2>2, SendSelects DEF PermissionGranted
<1>7. optimizer.at = "asleep"
  BY DEF SelectionInv, Asleep
<1>8. QED
  BY <1>2, <1>3, <1>4, <1>5, <1>6, <1>7
     DEF UserStep, OptimizerStarts, OptimizerReadsEnable, OptimizerSends, OptimizerChangesNothing

LEMMA TailElements ==
  ASSUME NEW S, NEW s \in Seq(S), s # <<>>
  PROVE  /\ Len(s) \in Nat \ {0} /\ DOMAIN s = 1 .. Len(s) /\ Head(s) = s[1]
         /\ Len(Tail(s)) = Len(s) - 1 /\ DOMAIN Tail(s) = 1 .. Len(s) - 1
         /\ \A k \in 1 .. Len(s) - 1 : Tail(s)[k] = s[k + 1]
         /\ (Len(s) = 1) <=> (Tail(s) = <<>>)
<1>1. Len(s) \in Nat \ {0} /\ DOMAIN s = 1 .. Len(s) /\ Head(s) = s[1]
  OBVIOUS
<1>2. Tail(s) \in Seq(S) /\ Len(Tail(s)) = Len(s) - 1
  OBVIOUS
<1>3. \A k \in 1 .. Len(s) - 1 : Tail(s)[k] = s[k + 1]
  OBVIOUS
<1>4. \A r \in Seq(S) : DOMAIN r = 1 .. Len(r) /\ (Len(r) = 0 <=> r = <<>>)
  OBVIOUS
<1>5. Len(s) = 1 <=> Len(Tail(s)) = 0
  BY <1>1, <1>2
<1>6. DOMAIN Tail(s) = 1 .. Len(s) - 1 /\ (Len(Tail(s)) = 0 <=> Tail(s) = <<>>)
  BY <1>2, <1>4, Zenon
<1>7. QED
  BY <1>1, <1>2, <1>3, <1>5, <1>6, Zenon

(* Android delivers the head of the inbox, or the null intent of a restart.*)
LEMMA DeliverySelects ==
  ASSUME ServiceInv, SelectionInv, NEW act, Delivers(act),
         UNCHANGED <<selected, ui, stored, reverted>>
  PROVE  /\ LastSwitchSelected'
         /\ ~restarting'
         /\ ~ui.enable => \/ inbox' # <<>> /\ inbox'[Len(inbox')].act = "DISCONNECT"
                          \/ inbox' = <<>> /\ act = "DISCONNECT"
         /\ (\A k \in DOMAIN inbox' : inbox'[k].act = "CONNECT") =>
              /\ act = "CONNECT" => \A k \in DOMAIN inbox : inbox[k].act = "CONNECT"
              /\ act = "SWITCH" /\ ~reverted => Head(inbox).profile = selected
<1>1. CASE inbox = <<>>
  <2>1. restarting /\ act = "RESTART" /\ inbox' = inbox /\ main = "idle" /\ ~restarting'
    BY <1>1 DEF Delivers
  <2>2. ui.enable
    BY <1>1, <2>1 DEF SelectionInv, DisabledStops
  <2>3. QED
    BY <2>1, <2>2 DEF SelectionInv, LastSwitchSelected
<1>2. CASE inbox # <<>>
  <2>1. /\ act = Head(inbox).act /\ inbox' = Tail(inbox) /\ inbox \in Seq(Intents)
        /\ ~restarting'
    BY <1>2 DEF Delivers, ServiceInv, TypeOK
  <2> DEFINE n == Len(inbox)
  <2>2. /\ n \in Nat \ {0} /\ DOMAIN inbox = 1 .. n /\ Head(inbox) = inbox[1]
        /\ Len(inbox') = n - 1 /\ DOMAIN inbox' = 1 .. n - 1
        /\ \A k \in 1 .. n - 1 : inbox'[k] = inbox[k + 1]
        /\ (n = 1) <=> (inbox' = <<>>)
    BY <1>2, <2>1, TailElements, Zenon
  <2>3. ~ui.enable => inbox[n].act = "DISCONNECT"
    BY <1>2 DEF SelectionInv, DisabledStops
  <2> HIDE DEF n
  <2>4. LastSwitchSelected'
    <3> SUFFICES ASSUME ~reverted, NEW k \in 1 .. n - 1, inbox'[k].act = "SWITCH",
                        \A j \in 1 .. n - 1 : j > k => inbox'[j].act = "CONNECT"
                 PROVE  inbox'[k].profile = selected
      BY <2>2 DEF LastSwitchSelected
    <3>1. k + 1 \in 1 .. n /\ inbox[k + 1].act = "SWITCH"
      BY <2>2
    <3>2. ASSUME NEW j \in 1 .. n, j > k + 1 PROVE inbox[j].act = "CONNECT"
      <4>1. j - 1 \in 1 .. n - 1 /\ j - 1 > k /\ (j - 1) + 1 = j
        BY <2>2, <3>2
      <4>2. inbox'[j - 1].act = "CONNECT" /\ inbox'[j - 1] = inbox[(j - 1) + 1]
        BY <2>2, <4>1
      <4>3. QED
        BY <4>1, <4>2
    <3>3. inbox[k + 1].profile = selected
      BY <2>2, <3>1, <3>2 DEF SelectionInv, LastSwitchSelected
    <3>4. QED
      BY <2>2, <3>3
  <2>5. ~ui.enable => \/ inbox' # <<>> /\ inbox'[Len(inbox')].act = "DISCONNECT"
                      \/ inbox' = <<>> /\ act = "DISCONNECT"
    <3>1. CASE n = 1
      BY <2>1, <2>2, <2>3, <3>1
    <3>2. CASE n # 1
      <4>1. n - 1 \in 1 .. n - 1 /\ (n - 1) + 1 = n
        BY <2>2, <3>2
      <4>2. inbox'[n - 1] = inbox[n]
        BY <2>2, <4>1
      <4>3. QED
        BY <2>2, <2>3, <3>2, <4>2
    <3>3. QED
      BY <3>1, <3>2
  <2>6. ASSUME \A k \in DOMAIN inbox' : inbox'[k].act = "CONNECT"
        PROVE  /\ act = "CONNECT" => \A k \in DOMAIN inbox : inbox[k].act = "CONNECT"
               /\ act = "SWITCH" /\ ~reverted => Head(inbox).profile = selected
    <3>1. ASSUME NEW k \in 1 .. n, k > 1 PROVE inbox[k].act = "CONNECT"
      <4>1. k - 1 \in 1 .. n - 1 /\ (k - 1) + 1 = k
        BY <2>2, <3>1
      <4>2. inbox'[k - 1].act = "CONNECT" /\ inbox'[k - 1] = inbox[(k - 1) + 1]
        BY <2>2, <2>6, <4>1
      <4>3. QED
        BY <4>1, <4>2
    <3>2. 1 \in 1 .. n /\ \A k \in 1 .. n : k = 1 \/ k > 1
      BY <2>2
    <3>3. QED
      BY <2>1, <2>2, <3>1, <3>2 DEF SelectionInv, LastSwitchSelected
  <2>7. QED
    BY <2>1, <2>4, <2>5, <2>6
<1>3. QED
  BY <1>1, <1>2

LEMMA OnDisconnectSelects ==
  ASSUME ServiceInv, SelectionInv, OnDisconnect
  PROVE  SelectionInv'
<1>1. /\ Delivers("DISCONNECT") /\ main = "idle" /\ main' = "stopping"
      /\ UNCHANGED <<selected, ui, stored, reverted, optimizer, revoker, tunFd, seq, sw>>
      /\ UNCHANGED <<echPool, proxyListener, profileOf, sockets, conn, panicked>>
  BY DEF OnDisconnect, Delivers, CallStop, switchVars, prefVars
<1>2. /\ SelectionStored' /\ LastSwitchSelected' /\ DisabledStops'
      /\ RestartsFromNothing'
  BY <1>1, DeliverySelects DEF SelectionInv, SelectionStored, DisabledStops, RestartsFromNothing
<1>3. QuietBeforeListening' /\ MainStartRuns' /\ LatestFailed' /\ ServesSelected'
  BY <1>1 DEF SelectionInv, QuietBeforeListening, MainStartRuns, LatestFailed, Nil,
              ServesSelected
<1>4. QED
  BY <1>1, <1>2, <1>3 DEF SelectionInv

LEMMA OnRevokeSelects ==
  ASSUME ServiceInv, SelectionInv, OnRevoke
  PROVE  SelectionInv'
<1>1. /\ revoker' = "stopping" /\ tunFd
      /\ UNCHANGED <<selected, ui, stored, reverted, inbox, optimizer>>
      /\ UNCHANGED <<restarting, main, tunFd, seq, sw>>
      /\ UNCHANGED <<echPool, proxyListener, profileOf, sockets, conn, panicked>>
  BY DEF OnRevoke, CallStop, switchVars, uiVars, prefVars
<1>2. call'[MainThread] = call[MainThread]
  BY Names DEF OnRevoke, CallStop, ServiceInv, CoreInv, CoreTypeOK, CallTypeOK
<1>3. /\ SelectionStored' /\ LastSwitchSelected' /\ DisabledStops'
      /\ RestartsFromNothing'
  BY <1>1 DEF SelectionInv, SelectionStored, LastSwitchSelected, DisabledStops, RestartsFromNothing
<1>4. QuietBeforeListening' /\ MainStartRuns' /\ LatestFailed' /\ ServesSelected'
  BY <1>1, <1>2 DEF SelectionInv, QuietBeforeListening, MainStartRuns, LatestFailed, Nil,
                    ServesSelected
<1>5. QED
  BY <1>1, <1>3, <1>4 DEF SelectionInv

(* The thread of the new request will start the selected node.             *)
LEMMA OnSwitchSelects ==
  ASSUME ServiceInv, SelectionInv, OnSwitch
  PROVE  SelectionInv'
<1>1. /\ Delivers("SWITCH") /\ main = "idle" /\ tunFd
      /\ seq' = seq + 1 /\ seq < MaxSwitches
      /\ UNCHANGED <<coreVars, selected, ui, stored, reverted, optimizer, main, revoker, tunFd>>
  BY DEF OnSwitch, Delivers, prefVars
<1>2. sw'[seq + 1] = [at |-> "queued", profile |-> Head(inbox).profile]
  BY <1>1 DEF OnSwitch, ServiceInv, TypeOK, Switches
<1>3. /\ SelectionStored' /\ LastSwitchSelected' /\ DisabledStops'
      /\ RestartsFromNothing'
  BY <1>1, DeliverySelects DEF SelectionInv, SelectionStored, DisabledStops, RestartsFromNothing
<1>4. QuietBeforeListening' /\ MainStartRuns' /\ LatestFailed'
  BY <1>1, <1>2 DEF QuietBeforeListening, MainStartRuns, LatestFailed
<1>5. ServesSelected'
  <2>1. seq' # 0
    BY <1>1 DEF ServiceInv, TypeOK
  <2>2. QED
    BY <1>1, <1>2, <2>1, DeliverySelects DEF ServesSelected
<1>6. QED
  BY <1>1, <1>3, <1>4, <1>5 DEF SelectionInv

LEMMA OnConnectRunningSelects ==
  ASSUME ServiceInv, SelectionInv, OnConnectRunning
  PROVE  SelectionInv'
<1>1. /\ Delivers("CONNECT") /\ main = "idle" /\ tunFd
      /\ UNCHANGED <<coreVars, selected, ui, stored, reverted, optimizer>>
      /\ UNCHANGED <<main, revoker, tunFd, seq, sw>>
  BY DEF OnConnectRunning, Delivers, switchVars, prefVars
<1>2. /\ SelectionStored' /\ LastSwitchSelected' /\ DisabledStops'
      /\ RestartsFromNothing'
  BY <1>1, DeliverySelects DEF SelectionInv, SelectionStored, DisabledStops, RestartsFromNothing
<1>3. QuietBeforeListening' /\ MainStartRuns' /\ LatestFailed'
  BY <1>1 DEF SelectionInv, QuietBeforeListening, MainStartRuns, LatestFailed, Nil, coreVars
<1>4. ServesSelected'
  BY <1>1, DeliverySelects DEF SelectionInv, ServesSelected, coreVars
<1>5. QED
  BY <1>1, <1>2, <1>3, <1>4 DEF SelectionInv

(* A start reads the profile itself, whatever intent it is for.            *)
LEMMA StartsSelect ==
  ASSUME ServiceInv, SelectionInv, EstablishFails \/ WriteConfFails \/ StartService
  PROVE  SelectionInv'
<1>1. PICK act \in {"CONNECT", "SWITCH", "RESTART"} : Delivers(act)
  BY DEF EstablishFails, WriteConfFails, StartService, Starts
<1>2. /\ ~tunFd /\ main = "idle" /\ seq = 0 /\ echPool = 0
      /\ UNCHANGED <<selected, ui, stored, reverted, optimizer, revoker, seq, sw>>
      /\ UNCHANGED <<echPool, proxyListener, profileOf, sockets, conn, panicked>>
  BY DEF ServiceInv, StartsAlone, NilBeforeStart, Nil, EstablishFails, WriteConfFails,
         StartService, Starts, Delivers, CallStart, coreVars, switchVars, prefVars
<1>3. /\ LastSwitchSelected' /\ ~restarting'
      /\ ~ui.enable => inbox' # <<>> /\ inbox'[Len(inbox')].act = "DISCONNECT"
  BY <1>1, <1>2, DeliverySelects
<1>4. SelectionStored' /\ DisabledStops' /\ RestartsFromNothing' /\ LatestFailed'
  BY <1>2, <1>3 DEF SelectionInv, SelectionStored, DisabledStops, RestartsFromNothing, LatestFailed
<1>5. ~panicked /\ sockets = {} /\ \A h \in Conns : conn[h] = Unused
  BY <1>2 DEF SelectionInv, QuietBeforeListening
<1>6. QuietBeforeListening'
  BY <1>2, <1>5 DEF QuietBeforeListening
<1>7. MainStartRuns' /\ ServesSelected'
  <2>1. CASE EstablishFails \/ WriteConfFails
    BY <1>2, <2>1 DEF EstablishFails, WriteConfFails, MainStartRuns, ServesSelected
  <2>2. CASE StartService
    <3>1. /\ main' = "starting" /\ CallStart(MainThread, stored.profile)
          /\ MainThread \in Callers
      BY <2>2, Names DEF StartService
    <3>2. call'[MainThread].at # "started" /\ call'[MainThread].profile = stored.profile
      BY <3>1 DEF CallStart, ServiceInv, CoreInv, CoreTypeOK, CallTypeOK
    <3>3. QED
      BY <1>2, <3>1, <3>2 DEF SelectionInv, SelectionStored, MainStartRuns, ServesSelected
  <2>3. QED
    BY <2>1, <2>2
<1>8. QED
  BY <1>2, <1>3, <1>4, <1>6, <1>7 DEF SelectionInv

(* The map read before the start is written after it; the profile in it is *)
(* the selected one, or the selected one is reverted.                      *)
LEMMA MainStartedSelects ==
  ASSUME ServiceInv, SelectionInv, MainStarted
  PROVE  SelectionInv'
<1>1. /\ main = "starting" /\ call[MainThread].at = "started" /\ tunFd /\ seq = 0
      /\ main' = "idle"
      /\ UNCHANGED <<coreVars, selected, ui, inbox, optimizer>>
      /\ UNCHANGED <<restarting, revoker, tunFd, seq, sw>>
  BY DEF MainStarted, ServiceInv, StartsAlone, switchVars
<1>2. /\ stored'.enable \/ stored' = stored
      /\ ~reverted' => ~reverted /\ stored'.profile = stored.profile
  <2>1. loaded \in Maps /\ reverted \in BOOLEAN
    BY <1>1 DEF ServiceInv, TypeOK
  <2>2. QED
    BY <2>1 DEF MainStarted, Maps
<1>3. /\ SelectionStored' /\ LastSwitchSelected' /\ DisabledStops'
      /\ RestartsFromNothing'
  BY <1>1, <1>2 DEF SelectionInv, SelectionStored, LastSwitchSelected, DisabledStops,
                    RestartsFromNothing
<1>4. QuietBeforeListening' /\ MainStartRuns' /\ LatestFailed' /\ ServesSelected'
  BY <1>1, <1>2 DEF SelectionInv, QuietBeforeListening, MainStartRuns, LatestFailed,
                    ServesSelected, coreVars
<1>5. QED
  BY <1>1, <1>3, <1>4 DEF SelectionInv

LEMMA MainStartFailsSelects ==
  ASSUME ServiceInv, SelectionInv, MainStartFails
  PROVE  SelectionInv'
<1>1. /\ main = "starting" /\ call[MainThread].at # "started" /\ seq = 0
      /\ tunFd' = FALSE /\ main' = "idle"
      /\ UNCHANGED <<coreVars, selected, ui, stored, reverted, inbox, optimizer>>
      /\ UNCHANGED <<restarting, revoker, seq, sw>>
  BY DEF MainStartFails, ServiceInv, StartsAlone, switchVars, uiVars, prefVars
<1>2. /\ SelectionStored' /\ LastSwitchSelected' /\ DisabledStops'
      /\ RestartsFromNothing'
  BY <1>1 DEF SelectionInv, SelectionStored, LastSwitchSelected, DisabledStops,
              RestartsFromNothing
<1>3. QuietBeforeListening' /\ MainStartRuns' /\ LatestFailed' /\ ServesSelected'
  BY <1>1 DEF SelectionInv, QuietBeforeListening, MainStartRuns, LatestFailed,
              ServesSelected, coreVars
<1>4. QED
  BY <1>1, <1>2, <1>3 DEF SelectionInv

LEMMA ExitSelects ==
  ASSUME ServiceInv, SelectionInv, Exit
  PROVE  SelectionInv'
<1>1. /\ main = "stopping" /\ ProcessEnds
      /\ UNCHANGED <<selected, ui, stored, reverted, inbox, optimizer, restarting>>
  BY DEF Exit, uiVars, prefVars
<1>2. /\ SelectionStored' /\ LastSwitchSelected' /\ DisabledStops'
      /\ RestartsFromNothing'
  BY <1>1 DEF SelectionInv, SelectionStored, LastSwitchSelected, DisabledStops,
              RestartsFromNothing, ProcessEnds
<1>3. QuietBeforeListening' /\ MainStartRuns' /\ LatestFailed' /\ ServesSelected'
  BY <1>1 DEF QuietBeforeListening, MainStartRuns, LatestFailed, ServesSelected, ProcessEnds
<1>4. QED
  BY <1>1, <1>2, <1>3 DEF SelectionInv

(* A service that is being stopped is not made again.                      *)
LEMMA RevokeExitSelects ==
  ASSUME ServiceInv, SelectionInv, RevokeExit
  PROVE  SelectionInv'
<1>1. /\ ProcessEnds /\ (restarting' => main # "stopping" /\ tunFd)
      /\ UNCHANGED <<selected, ui, stored, reverted, inbox, optimizer>>
  BY DEF RevokeExit
<1>2. /\ SelectionStored' /\ LastSwitchSelected' /\ DisabledStops'
      /\ RestartsFromNothing'
  BY <1>1 DEF SelectionInv, SelectionStored, LastSwitchSelected, DisabledStops,
              RestartsFromNothing, ProcessEnds
<1>3. QuietBeforeListening' /\ MainStartRuns' /\ LatestFailed' /\ ServesSelected'
  BY <1>1 DEF QuietBeforeListening, MainStartRuns, LatestFailed, ServesSelected, ProcessEnds
<1>4. QED
  BY <1>1, <1>2, <1>3 DEF SelectionInv

(* A DISCONNECT that the crash interrupted is delivered again.             *)
LEMMA CrashSelects ==
  ASSUME ServiceInv, SelectionInv, Crash
  PROVE  SelectionInv'
<1>1. /\ panicked /\ ProcessEnds /\ restarting' = TRUE
      /\ UNCHANGED <<selected, ui, stored, reverted, optimizer>>
  BY DEF Crash
<1>2. tunFd
  BY <1>1 DEF SelectionInv, QuietBeforeListening
<1>3. LastSwitchSelected' /\ DisabledStops'
  <2>1. CASE main = "stopping"
    <3> DEFINE n == Len(inbox)
    <3>1. inbox \in Seq(Intents) /\ Intent("DISCONNECT", None) \in Intents
      BY DEF ServiceInv, TypeOK, Intents, Intent
    <3>2. inbox' = <<Intent("DISCONNECT", None)>> \o inbox
      BY <2>1 DEF Crash
    <3>3. /\ n \in Nat /\ DOMAIN inbox = 1 .. n /\ (n = 0 <=> inbox = <<>>)
          /\ DOMAIN inbox' = 1 .. n + 1 /\ Len(inbox') = n + 1
          /\ inbox'[1] = Intent("DISCONNECT", None)
          /\ \A k \in 2 .. n + 1 : inbox'[k] = inbox[k - 1]
      BY <3>1, <3>2
    <3>4. inbox' # <<>>
      BY <3>1, <3>2
    <3>5. inbox'[1].act = "DISCONNECT"
      BY <3>3 DEF Intent
    <3> HIDE DEF n
    <3>6. LastSwitchSelected'
      <4> SUFFICES ASSUME ~reverted, NEW k \in 1 .. n + 1, inbox'[k].act = "SWITCH",
                          \A j \in 1 .. n + 1 : j > k => inbox'[j].act = "CONNECT"
                   PROVE  inbox'[k].profile = selected'
        BY <1>1, <3>3 DEF LastSwitchSelected
      <4>1. k - 1 \in 1 .. n /\ inbox'[k] = inbox[k - 1]
        BY <3>3, <3>5
      <4>2. ASSUME NEW j \in 1 .. n, j > k - 1 PROVE inbox[j].act = "CONNECT"
        <5>1. j + 1 \in 2 .. n + 1 /\ j + 1 \in 1 .. n + 1 /\ j + 1 > k /\ (j + 1) - 1 = j
          BY <3>3, <4>2
        <5>2. inbox'[j + 1].act = "CONNECT" /\ inbox'[j + 1] = inbox[(j + 1) - 1]
          BY <3>3, <5>1
        <5>3. QED
          BY <5>1, <5>2
      <4>3. inbox[k - 1].profile = selected
        BY <3>3, <4>1, <4>2 DEF SelectionInv, LastSwitchSelected
      <4>4. QED
        BY <1>1, <4>1, <4>3
    <3>7. ~ui.enable => inbox'[n + 1].act = "DISCONNECT"
      <4>1. CASE n = 0
        BY <3>5, <4>1
      <4>2. CASE n # 0
        <5>1. n + 1 \in 2 .. n + 1 /\ (n + 1) - 1 = n
          BY <3>3, <4>2
        <5>2. inbox'[n + 1] = inbox[n] /\ inbox # <<>>
          BY <3>3, <4>2, <5>1
        <5>3. QED
          BY <5>2 DEF SelectionInv, DisabledStops, n
      <4>3. QED
        BY <4>1, <4>2
    <3>8. QED
      BY <1>1, <3>3, <3>4, <3>6, <3>7 DEF DisabledStops
  <2>2. CASE main # "stopping"
    BY <1>1, <1>2, <2>2 DEF Crash, SelectionInv, LastSwitchSelected, DisabledStops
  <2>3. QED
    BY <2>1, <2>2
<1>4. QuietBeforeListening' /\ MainStartRuns' /\ LatestFailed' /\ ServesSelected'
  BY <1>1 DEF QuietBeforeListening, MainStartRuns, LatestFailed, ServesSelected, ProcessEnds
<1>5. SelectionStored' /\ RestartsFromNothing'
  BY <1>1 DEF SelectionInv, SelectionStored, RestartsFromNothing, ProcessEnds
<1>6. QED
  BY <1>1, <1>3, <1>4, <1>5 DEF SelectionInv

(* The threads of the switches keep the profile they were made with.       *)
LEMMA SwitchSelects ==
  ASSUME ServiceInv, SelectionInv, NEW t \in Switches, SwitchStep(t)
  PROVE  SelectionInv'
<1>1. /\ sw \in [Switches -> SwitchRecords] /\ seq \in 0 .. MaxSwitches
      /\ UNCHANGED <<selected, ui, stored, reverted, inbox, optimizer>>
      /\ UNCHANGED <<restarting, main, revoker, tunFd, seq>>
      /\ UNCHANGED <<echPool, proxyListener>>
  BY DEF ServiceInv, TypeOK, SwitchStep, SwitchEnters, SwitchSleeps, SwitchStarts,
         SwitchStarted, SwitchFails, SwitchReady, CallStop, CallStart, coreVars, uiVars, prefVars, vpnVars
<1>2. /\ sw'[t].profile = sw[t].profile
      /\ \A k \in Switches : k # t => sw'[k] = sw[k]
      /\ sw'[t].at = "superseded" => t # seq
      /\ sw'[t].at = "failed" => sw[t].at = "starting" /\ call[t].at \in {"refused", "failed"}
      /\ sw[t].at # "none"
  BY <1>1 DEF SwitchRecords, SwitchStep, SwitchEnters, SwitchSleeps, SwitchStarts,
         SwitchStarted, SwitchFails, SwitchReady, SwitchGoto
<1>3. seq \in Switches /\ seq # 0 /\ main # "starting" /\ tunFd
  BY <1>1, <1>2, Names DEF ServiceInv, ThreadsOfSeq, StartsAlone, Switches
<1>4. LatestFailed'
  <2>1. sw'[seq].at = "failed" => Nil
    <3>1. CASE t = seq
      BY <1>2, <1>3, <3>1 DEF ServiceInv, SwitchCalls, NilBeforeStart, StartPhases
    <3>2. CASE t # seq
      BY <1>2, <1>3, <3>2 DEF SelectionInv, LatestFailed
    <3>3. QED
      BY <3>1, <3>2
  <2>2. sw'[seq].at # "superseded"
    BY <1>2, <1>3 DEF SelectionInv, LatestFailed
  <2>3. QED
    BY <1>1, <2>1, <2>2 DEF LatestFailed, Nil
<1>5. ServesSelected'
  BY <1>1, <1>2, <1>3 DEF SelectionInv, ServesSelected
<1>6. /\ SelectionStored' /\ LastSwitchSelected' /\ DisabledStops'
      /\ RestartsFromNothing'
  BY <1>1 DEF SelectionInv, SelectionStored, LastSwitchSelected, DisabledStops,
              RestartsFromNothing
<1>7. QuietBeforeListening' /\ MainStartRuns'
  BY <1>1, <1>3 DEF QuietBeforeListening, MainStartRuns
<1>8. QED
  BY <1>1, <1>4, <1>5, <1>6, <1>7 DEF SelectionInv

(* The core runs for one caller; without a switch that is the main thread, *)
(* or the binder thread, which only stops.                                 *)
LEMMA CallSelects ==
  ASSUME ServiceInv, SelectionInv, NEW c \in Callers, CallStep(c), ServiceUnchanged
  PROVE  SelectionInv'
<1>1. /\ call \in [Callers -> CallRecords] /\ seq \in 0 .. MaxSwitches
      /\ UNCHANGED <<selected, ui, stored, reverted, inbox, optimizer>>
      /\ UNCHANGED <<restarting, main, revoker, tunFd, seq, sw>>
  BY DEF ServiceInv, TypeOK, CoreInv, CoreTypeOK, CallTypeOK, ServiceUnchanged, uiVars, prefVars,
         vpnVars, switchVars
<1> DEFINE Moves == /\ call[c].at \notin Returned
                    /\ \A d \in Callers : d # c => call'[d] = call[d]
                    /\ \A d \in Callers : call'[d].profile = call[d].profile
                    /\ UNCHANGED <<conn, panicked>>
           Opens == /\ \/ sockets' \subseteq sockets
                       \/ call[c].at = "listening" /\ call'[c].at = "started"
                    /\ call'[c].at = "started" => /\ call[c].at = "listening"
                                                  /\ UNCHANGED <<echPool, profileOf>>
                    /\ call[c].at \notin {"resolving", "listening"} /\ Nil => Nil'
<1>2. Moves /\ Opens
  <2>1. CASE StartLocks(c)
    BY <1>1, <2>1 DEF StartLocks, Goto, Returned, CallRecords, Nil
  <2>2. CASE EchSettled(c)
    BY <1>1, <2>2 DEF EchSettled, Returned, CallRecords, Nil
  <2>3. CASE ListenSucceeds(c)
    BY <1>1, <2>3 DEF ListenSucceeds, Goto, Returned, CallRecords, Nil
  <2>4. CASE ListenFails(c)
    BY <1>1, <2>4 DEF ListenFails, Goto, Returned, CallRecords, Nil
  <2>5. CASE StopLocks(c)
    BY <1>1, <2>5 DEF StopLocks, Returned, CallRecords, Nil
  <2>6. CASE StopClosesListener(c)
    BY <1>1, <2>6 DEF StopClosesListener, Goto, Returned, CallRecords, Nil
  <2>7. CASE StopClosesPool(c)
    BY <1>1, <2>7 DEF StopClosesPool, Goto, Returned, CallRecords, Nil
  <2>8. QED
    BY <2>1, <2>2, <2>3, <2>4, <2>5, <2>6, <2>7 DEF CallStep
<1>3. call[c].at # "started"
  BY <1>2 DEF Returned
<1> HIDE DEF Opens
<1>4. seq = 0 => c \in {MainThread, BinderThread}
  BY <1>2 DEF ServiceInv, ThreadsOfSeq, SwitchCalls, Switches, Holding
<1>5. /\ c = MainThread => main # "idle"
      /\ c = BinderThread => revoker # "idle" /\ call[c].at \in StopPhases
  BY <1>2 DEF ServiceInv, MainCall, BinderCall, TypeOK
<1>6. QuietBeforeListening'
  <2> SUFFICES ASSUME ~tunFd \/ (main = "starting" /\ call'[MainThread].at # "started")
               PROVE  /\ ~panicked /\ sockets' = {}
                      /\ \A h \in Conns : conn[h] = Unused
    BY <1>1, <1>2 DEF QuietBeforeListening
  <2>1. seq = 0 /\ c \in {MainThread, BinderThread}
    <3>1. seq = 0
      BY DEF ServiceInv, StartsAlone
    <3>2. QED
      BY <1>4, <3>1
  <2>2. ~panicked /\ sockets = {} /\ \A h \in Conns : conn[h] = Unused
    <3>1. ~tunFd \/ (main = "starting" /\ call[MainThread].at # "started")
      BY <1>2, <1>3, <2>1, Names
    <3>2. QED
      BY <3>1 DEF SelectionInv, QuietBeforeListening
  <2>3. sockets' = {}
    <3>1. CASE sockets' \subseteq sockets
      BY <2>2, <3>1
    <3>2. CASE call[c].at = "listening" /\ call'[c].at = "started"
      <4> c = MainThread
        BY <1>5, <2>1, <3>2 DEF StopPhases
      <4>1. ~tunFd
        BY <3>2
      <4>2. main = "stopping"
        BY <1>5, <4>1 DEF ServiceInv, TypeOK, StartsAlone
      <4>3. QED
        BY <3>2, <4>2 DEF ServiceInv, MainCall, BinderCall, StopPhases
    <3>3. QED
      BY <1>2, <3>1, <3>2 DEF Opens
  <2>4. QED
    BY <2>2, <2>3
<1>7. MainStartRuns'
  <2> SUFFICES ASSUME main = "starting", call'[MainThread].at = "started", revoker = "idle"
               PROVE  echPool' # 0 /\ profileOf'[echPool'] = call'[MainThread].profile
    BY <1>1 DEF MainStartRuns
  <2>1. c = MainThread
    BY <1>4, <1>5 DEF ServiceInv, StartsAlone
  <2>2. call[c].at = "listening" /\ UNCHANGED <<echPool, profileOf>>
    BY <1>2, <2>1 DEF Opens
  <2>3. echPool # 0 /\ echPool = call[c].pool /\ profileOf[call[c].pool] = call[c].profile
    BY <2>2 DEF ServiceInv, CoreInv, Paired, ListensForLive
  <2>4. QED
    BY <1>2, <2>1, <2>2, <2>3
<1>8. LatestFailed'
  <2>1. ASSUME seq # 0, sw[seq].at = "failed" PROVE call[c].at \notin {"resolving", "listening"}
    <3>1. CASE c = MainThread
      <4>1. main = "stopping"
        BY <1>5, <2>1, <3>1 DEF ServiceInv, TypeOK, StartsAlone
      <4>2. QED
        BY <3>1, <4>1 DEF ServiceInv, MainCall, BinderCall, StopPhases
    <3>2. CASE c \in Switches
      <4>1. sw[c].at \in Holding
        BY <1>2, <3>2 DEF ServiceInv, SwitchCalls
      <4>2. switchLock = c /\ c # 0
        BY <3>2, <4>1, Names DEF ServiceInv, LockHeld
      <4>3. c # seq
        BY <2>1, <4>1 DEF Holding
      <4>4. QED
        BY <2>1, <4>2, <4>3 DEF ServiceInv, OvertakerWaits
    <3>3. CASE c = BinderThread
      BY <1>5, <3>3 DEF StopPhases
    <3>4. QED
      BY <3>1, <3>2, <3>3 DEF Switches
  <2>2. QED
    BY <1>1, <1>2, <2>1 DEF SelectionInv, LatestFailed, Opens
<1>9. ServesSelected'
  BY <1>1, <1>2, <1>4, <1>5 DEF SelectionInv, ServesSelected
<1>10. /\ SelectionStored' /\ LastSwitchSelected' /\ DisabledStops'
       /\ RestartsFromNothing'
  BY <1>1 DEF SelectionInv, SelectionStored, LastSwitchSelected, DisabledStops,
              RestartsFromNothing
<1>11. QED
  BY <1>1, <1>6, <1>7, <1>8, <1>9, <1>10 DEF SelectionInv

(* There are no connections while nothing listens.                         *)
LEMMA ConnSelects ==
  ASSUME ServiceInv, SelectionInv, NEW h \in Conns, ConnStep(h), ServiceUnchanged
  PROVE  SelectionInv'
<1>1. /\ CoreUnchangedByConn
      /\ UNCHANGED <<selected, ui, stored, reverted, inbox, optimizer>>
      /\ UNCHANGED <<restarting, main, revoker, tunFd, seq, sw>>
  BY DEF ConnStep, Accept, Connect, Associate, FirstDatagram, ConnEnds, ServiceUnchanged,
         uiVars, prefVars, vpnVars, switchVars
<1>2. sockets # {} \/ conn[h] # Unused
  BY DEF ConnStep, Accept, Connect, Associate, FirstDatagram, ConnEnds, Unused
<1>3. QuietBeforeListening'
  BY <1>1, <1>2 DEF SelectionInv, QuietBeforeListening, CoreUnchangedByConn
<1>4. MainStartRuns' /\ LatestFailed' /\ ServesSelected'
  BY <1>1 DEF SelectionInv, MainStartRuns, LatestFailed, Nil, ServesSelected,
              CoreUnchangedByConn
<1>5. /\ SelectionStored' /\ LastSwitchSelected' /\ DisabledStops'
      /\ RestartsFromNothing'
  BY <1>1 DEF SelectionInv, SelectionStored, LastSwitchSelected, DisabledStops,
              RestartsFromNothing
<1>6. QED
  BY <1>1, <1>3, <1>4, <1>5 DEF SelectionInv

LEMMA SelectionInitInv == Init => SelectionInv
BY DEF Init, CoreInit, SelectionInv, SelectionStored, RestartsFromNothing, QuietBeforeListening, DisabledStops,
       LastSwitchSelected, MainStartRuns, LatestFailed, ServesSelected

LEMMA SelectionStepInv ==
  ASSUME ~Optimizing, ServiceInv, SelectionInv, [Next]_vars
  PROVE  SelectionInv'
<1>1. CASE UserStep
  BY <1>1, UserSelects
<1>2. CASE OnRevoke \/ RevokeExit
  BY <1>2, OnRevokeSelects, RevokeExitSelects
<1>3. CASE MainStep
  BY <1>3, OnDisconnectSelects, OnSwitchSelects, OnConnectRunningSelects, StartsSelect,
     MainStartedSelects, MainStartFailsSelects, ExitSelects DEF MainStep, OnStartCommand
<1>4. CASE Crash
  BY <1>4, CrashSelects
<1>5. ASSUME NEW t \in Switches, SwitchStep(t) PROVE SelectionInv'
  BY <1>5, SwitchSelects
<1>6. CASE CoreStep /\ ServiceUnchanged
  BY <1>6, CallSelects, ConnSelects DEF CoreStep
<1>7. CASE UNCHANGED vars
  <2>1. /\ UNCHANGED <<selected, ui, stored, reverted, inbox, optimizer>>
      /\ UNCHANGED <<restarting, main, revoker, tunFd, seq, sw>>
        /\ UNCHANGED <<echPool, proxyListener, profileOf, sockets, conn, panicked, call>>
    BY <1>7 DEF vars, coreVars, uiVars, prefVars, vpnVars, switchVars
  <2>2. QED
    BY <2>1 DEF SelectionInv, SelectionStored, RestartsFromNothing, QuietBeforeListening, DisabledStops,
                LastSwitchSelected, MainStartRuns, LatestFailed, Nil, ServesSelected
<1>8. QED
  BY <1>1, <1>2, <1>3, <1>4, <1>5, <1>6, <1>7 DEF Next

(* Any mix of taps, toggles, switches, failures, crashes and restarts      *)
(* leaves the selected node running, if anything runs, once it has settled;*)
(* unless the optimizer sends a switch of its own, or the setEnable of a   *)
(* start has put an older profile back since the last tap.                 *)
THEOREM SelectedNodeRuns ==
  ASSUME ~Optimizing
  PROVE  Spec => []RunsSelectedNode
<1>1. Init => ServiceInv /\ SelectionInv
  BY ServiceInitInv, SelectionInitInv
<1>2. ServiceInv /\ SelectionInv /\ [Next]_vars => (ServiceInv /\ SelectionInv)'
  BY ServiceStepInv, SelectionStepInv
<1>3. ServiceInv /\ SelectionInv => RunsSelectedNode
  <2> SUFFICES ASSUME ServiceInv, SelectionInv, tunFd, main = "idle", revoker = "idle",
                      inbox = <<>>, \A t \in Switches : sw[t].at \notin Active,
                      echPool # 0, ~reverted
               PROVE  profileOf[echPool] = selected
    BY DEF RunsSelectedNode
  <2>1. /\ seq # 0 => sw[seq].profile = selected
        /\ seq = 0 => profileOf[echPool] = selected
    BY DEF SelectionInv, ServesSelected
  <2>2. CASE seq = 0
    BY <2>1, <2>2
  <2>3. CASE seq # 0
    <3>1. seq \in Switches
      BY <2>3 DEF ServiceInv, TypeOK, Switches
    <3>2. sw[seq].at \in {"superseded", "failed", "done"}
      BY <3>1, Names DEF ServiceInv, TypeOK, ThreadsOfSeq, SwitchRecords
    <3>3. sw[seq].at = "done"
      BY <2>3, <3>2 DEF SelectionInv, LatestFailed, Nil
    <3>4. QED
      BY <2>1, <2>3, <3>3 DEF ServiceInv, LatestRuns
  <2>4. QED
    BY <2>2, <2>3
<1>4. QED
  BY <1>1, <1>2, <1>3, PTL DEF Spec
=============================================================================
