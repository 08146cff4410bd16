---------------------------- MODULE TProxyService ----------------------------
(***************************************************************************)
(* The VPN service of the app (TProxyService.java, process ":vpn") on top  *)
(* of the Go core of SocksCore, with the senders of its intents            *)
(* (MainActivity.java, CfOptimizer.java).                                  *)
(*                                                                         *)
(* onStartCommand and what it calls run one at a time on the main thread,  *)
(* onRevoke on a binder thread beside it; switchProfile makes a thread per *)
(* request, ordered by switchLock and cut short by currentSwitchSeq.  The  *)
(* t-th request of a process is the number t, which is also its seq.       *)
(*                                                                         *)
(* The two processes share preferences (MODE_MULTI_PROCESS) through a      *)
(* file: each has a map of its own, read from the file when a Preferences  *)
(* is made; a commit that changes the map writes the whole of it.  What    *)
(* the map of :vpn holds while a start takes its seconds can be older than *)
(* the file it then overwrites.                                            *)
(*                                                                         *)
(* Android is external: intents are delivered in order, one that finds no  *)
(* process makes one.  A process that crashes is made again                *)
(* (START_STICKY): the intent it was handling and those behind it are      *)
(* delivered again, or a null intent when there is none.  A process that   *)
(* calls System.exit in DISCONNECT is not made again.                      *)
(***************************************************************************)
EXTENDS SocksCore, Sequences

CONSTANTS
  MainThread,   \* of the :vpn process
  BinderThread, \* of the :vpn process, for onRevoke
  MaxSwitches,  \* bound: switch requests of one process
  MaxInbox,     \* bound: intents sent and not delivered
  Optimizing    \* whether CfOptimizer runs

ASSUME ServiceAssumption ==
  /\ MaxSwitches \in Nat
  /\ MaxInbox \in Nat \ {0}
  /\ Callers = (1 .. MaxSwitches) \cup {MainThread, BinderThread}
  /\ MainThread # BinderThread
  /\ {MainThread, BinderThread} \cap (1 .. MaxSwitches) = {}

VARIABLES
  selected,    \* the profile MainActivity shows as current
  ui,          \* the map of the process of the user interface
  stored,      \* the file of the preferences
  loaded,      \* the map of :vpn, while a start is under way
  reverted,    \* :vpn has put an older profile back into the file since the
               \* user last selected one
  inbox,       \* intents sent to the service
  optimizer,   \* the progress of CfOptimizer
  proc,        \* "down" or "up"
  restarting,  \* the system will make the process again
  main,        \* what the main thread is in: "idle", "starting", "stopping"
  revoker,     \* and the binder thread: "idle", "stopping"
  tunFd,       \* the TUN device is established
  hev,         \* TProxyStartService has been called
  seq,         \* currentSwitchSeq
  switchLock,  \* the thread in the synchronized block
  sw           \* the switch threads

prefVars == <<selected, ui, stored, loaded, reverted>>
uiVars == <<prefVars, inbox, optimizer>>
vpnVars == <<proc, restarting, main, revoker, tunFd, hev>>
switchVars == <<seq, switchLock, sw>>
vars == <<coreVars, uiVars, vpnVars, switchVars>>

Switches == 1 .. MaxSwitches

NoSwitch == [at |-> "none", profile |-> None]

Asleep == [at |-> "asleep", profile |-> None]

Active == {"queued", "stopping", "sleeping", "starting", "waiting"}

Intent(act, p) == [act |-> act, profile |-> p]

NotLoaded == [enable |-> FALSE, profile |-> None]

-----------------------------------------------------------------------------
(* MainActivity and CfOptimizer, in the process of the user interface.     *)

Requests == seq + Cardinality({k \in DOMAIN inbox : inbox[k].act = "SWITCH"})

Send(act, p) ==
  /\ Len(inbox) < MaxInbox
  /\ act = "SWITCH" => Requests < MaxSwitches
  /\ inbox' = Append(inbox, Intent(act, p))

(* A commit that changes nothing does not write the file. *)
Commit(map) ==
  /\ ui' = map
  /\ stored' = IF map = ui THEN stored ELSE map

(* Mutant: the intent is sent before the profile is set. *)
SelectProfile_SendsFirst(p) ==
  /\ p # selected
  /\ selected' = p
  /\ Commit([ui EXCEPT !.profile = p])
  /\ reverted' = (reverted /\ stored'.profile # p)
  /\ IF ui.enable THEN Send("SWITCH", selected) ELSE UNCHANGED inbox
  /\ UNCHANGED <<coreVars, loaded, optimizer, vpnVars, switchVars>>

SelectProfile(p) ==
  /\ p # selected
  /\ selected' = p
  /\ Commit([ui EXCEPT !.profile = p])
  /\ reverted' = (reverted /\ stored'.profile # p)
  /\ IF ui.enable THEN Send("SWITCH", p) ELSE UNCHANGED inbox
  /\ UNCHANGED <<coreVars, loaded, optimizer, vpnVars, switchVars>>

ToggleConnection ==
  /\ Commit([ui EXCEPT !.enable = ~ui.enable])
  /\ Send(IF ui.enable THEN "DISCONNECT" ELSE "CONNECT", None)
  /\ UNCHANGED <<coreVars, selected, loaded, reverted, optimizer, vpnVars, switchVars>>

(* A setting of no interest here is committed, and the map with it. *)
CommitSetting ==
  /\ stored' = ui
  /\ UNCHANGED <<coreVars, selected, ui, loaded, reverted, inbox, optimizer, vpnVars,
                 switchVars>>

(* Another activity makes its Preferences: the map is read again. *)
Reload ==
  /\ ui' = stored
  /\ UNCHANGED <<coreVars, selected, stored, loaded, reverted, inbox, optimizer, vpnVars,
                 switchVars>>

(* MainActivity is made again, with Preferences of its own. *)
OnCreate ==
  /\ ui' = stored
  /\ selected' = stored.profile
  /\ UNCHANGED <<coreVars, stored, loaded, reverted, inbox, optimizer, vpnVars, switchVars>>

(* The number of connections is applied, and committed if it is new. *)
ApplySettings ==
  /\ ui.enable
  /\ Send("SWITCH", selected)
  /\ stored' \in {stored, ui}
  /\ UNCHANGED <<coreVars, selected, ui, loaded, reverted, optimizer, vpnVars, switchVars>>

(* onActivityResult: the user has just allowed the VPN. *)
PermissionGranted ==
  /\ ui.enable
  /\ Send("CONNECT", None)
  /\ UNCHANGED <<coreVars, prefVars, optimizer, vpnVars, switchVars>>

(* doOptimizeWorkflow, on a thread of its own.  Its Preferences remember    *)
(* the profile that is current when they are made; the probes that follow  *)
(* take seconds.                                                           *)
OptimizerStarts ==
  /\ Optimizing
  /\ optimizer = Asleep
  /\ optimizer' = [at |-> "probing", profile |-> stored.profile]
  /\ ui' = stored
  /\ UNCHANGED <<coreVars, selected, stored, loaded, reverted, inbox, vpnVars, switchVars>>

(* The result is committed; it is applied at once if the VPN is enabled    *)
(* and the best addresses have changed, or the run was asked for.          *)
OptimizerReadsEnable ==
  /\ optimizer.at = "probing"
  /\ stored' = ui
  /\ \/ ui.enable /\ optimizer' = [optimizer EXCEPT !.at = "applying"]
     \/ optimizer' = Asleep
  /\ UNCHANGED <<coreVars, selected, ui, loaded, reverted, inbox, vpnVars, switchVars>>

OptimizerSends ==
  /\ optimizer.at = "applying"
  /\ Send("SWITCH", optimizer.profile)
  /\ optimizer' = Asleep
  /\ UNCHANGED <<coreVars, prefVars, vpnVars, switchVars>>

(* No address answers. *)
OptimizerChangesNothing ==
  /\ optimizer.at = "probing"
  /\ optimizer' = Asleep
  /\ UNCHANGED <<coreVars, prefVars, inbox, vpnVars, switchVars>>

-----------------------------------------------------------------------------
(* onStartCommand, on the main thread.                                     *)

(* The intent at the head of the inbox, or the null intent of a restart    *)
(* that has no other.                                                      *)
Delivers(act) ==
  /\ main = "idle"
  /\ ~panicked
  /\ proc' = "up"
  /\ restarting' = FALSE
  /\ \/ /\ inbox # <<>>
        /\ act = Head(inbox).act
        /\ inbox' = Tail(inbox)
     \/ /\ inbox = <<>>
        /\ restarting
        /\ act = "RESTART"
        /\ UNCHANGED inbox

OnDisconnect ==
  /\ Delivers("DISCONNECT")
  /\ main' = "stopping"
  /\ CallStop(MainThread)
  /\ UNCHANGED <<prefVars, optimizer, revoker, tunFd, hev, switchVars>>

(* On a binder thread, whatever the main thread is in. *)
OnRevoke ==
  /\ revoker = "idle"
  /\ ~panicked
  /\ tunFd
  /\ revoker' = "stopping"
  /\ CallStop(BinderThread)
  /\ UNCHANGED <<uiVars, proc, restarting, main, tunFd, hev, switchVars>>

(* switchProfile, up to the start of the thread. *)
OnSwitch ==
  /\ tunFd
  /\ Delivers("SWITCH")
  /\ seq < MaxSwitches
  /\ seq' = seq + 1
  /\ sw' = [sw EXCEPT ![seq + 1] = [at |-> "queued", profile |-> Head(inbox).profile]]
  /\ UNCHANGED <<coreVars, prefVars, optimizer, main, revoker, tunFd, hev, switchLock>>

OnConnectRunning ==
  /\ tunFd
  /\ Delivers("CONNECT")
  /\ UNCHANGED <<coreVars, prefVars, optimizer, main, revoker, tunFd, hev, switchVars>>

(* startService, up to the call of startSocksProxy.  (The bound on pools   *)
(* leaves one for every switch: out of pools, only the failures remain.)   *)
Starts == ~tunFd /\ \E act \in {"CONNECT", "SWITCH", "RESTART"} : Delivers(act)

EstablishFails ==
  /\ Starts
  /\ UNCHANGED <<coreVars, prefVars, optimizer, main, revoker, tunFd, hev, switchVars>>

(* Returns with the device established and nothing behind it. *)
WriteConfFails ==
  /\ Starts
  /\ tunFd' = TRUE
  /\ UNCHANGED <<coreVars, prefVars, optimizer, main, revoker, hev, switchVars>>

StartService ==
  /\ Starts
  /\ pools + MaxSwitches < MaxPools
  /\ tunFd' = TRUE
  /\ hev' = TRUE
  /\ main' = "starting"
  /\ loaded' = stored
  /\ CallStart(MainThread, stored.profile)
  /\ UNCHANGED <<selected, ui, stored, reverted, optimizer, revoker, switchVars>>

(* setEnable(true) writes the map read before the start, with the profile  *)
(* of then, unless it has the switch on already.                           *)
MainStarted ==
  /\ main = "starting"
  /\ ~panicked
  /\ call[MainThread].at = "started"
  /\ IF loaded.enable
     THEN UNCHANGED <<stored, reverted>>
     ELSE /\ stored' = [loaded EXCEPT !.enable = TRUE]
          /\ reverted' = (reverted \/ loaded.profile # stored.profile)
  /\ loaded' = NotLoaded
  /\ main' = "idle"
  /\ UNCHANGED <<coreVars, selected, ui, inbox, optimizer, proc, restarting, revoker,
                 tunFd, hev, switchVars>>

(* Mutant: the catch block forgets TProxyStopService. *)
MainStartFails_KeepsHev ==
  /\ main = "starting"
  /\ ~panicked
  /\ call[MainThread].at \in {"refused", "failed"}
  /\ tunFd' = FALSE
  /\ loaded' = NotLoaded
  /\ main' = "idle"
  /\ UNCHANGED <<coreVars, selected, ui, stored, reverted, inbox, optimizer, proc,
                 restarting, revoker, hev, switchVars>>

MainStartFails ==
  /\ main = "starting"
  /\ ~panicked
  /\ call[MainThread].at \in {"refused", "failed"}
  /\ tunFd' = FALSE
  /\ hev' = FALSE
  /\ loaded' = NotLoaded
  /\ main' = "idle"
  /\ UNCHANGED <<coreVars, selected, ui, stored, reverted, inbox, optimizer, proc,
                 restarting, revoker, switchVars>>

(* A process ends with all of its state. *)
ProcessEnds ==
  /\ serviceMu' = None /\ proxyListener' = 0 /\ echPool' = 0 /\ config' = None
  /\ pools' = 0 /\ profileOf' = [n \in PoolIds |-> None]
  /\ live' = {} /\ sockets' = {}
  /\ call' = [c \in Callers |-> NotCalling]
  /\ conn' = [h \in Conns |-> Unused]
  /\ panicked' = FALSE
  /\ proc' = "down" /\ main' = "idle" /\ revoker' = "idle"
  /\ tunFd' = FALSE /\ hev' = FALSE /\ loaded' = NotLoaded
  /\ seq' = 0 /\ switchLock' = 0
  /\ sw' = [t \in Switches |-> NoSwitch]

(* TProxyStopService, tunFd.close, System.exit(0). *)
Exit ==
  /\ main = "stopping"
  /\ ~panicked
  /\ call[MainThread].at = "stopped"
  /\ ProcessEnds
  /\ UNCHANGED <<selected, ui, stored, reverted, inbox, optimizer, restarting>>

(* The same by the binder thread.  A service that is not being stopped may *)
(* be made again.                                                          *)
RevokeExit ==
  /\ revoker = "stopping"
  /\ ~panicked
  /\ call[BinderThread].at = "stopped"
  /\ ProcessEnds
  /\ restarting' \in {FALSE, main # "stopping" /\ tunFd}
  /\ UNCHANGED <<selected, ui, stored, reverted, inbox, optimizer>>

Crash ==
  /\ panicked
  /\ ProcessEnds
  /\ restarting' = TRUE
  /\ inbox' = IF main = "stopping" THEN <<Intent("DISCONNECT", None)>> \o inbox ELSE inbox
  /\ UNCHANGED <<selected, ui, stored, reverted, optimizer>>

-----------------------------------------------------------------------------
(* The thread of a switch request.                                         *)

SwitchGoto(t, step) == sw' = [sw EXCEPT ![t].at = step]

(* Mutant: without the first check of seq. *)
SwitchEnters_NoCheck(t) ==
  /\ sw[t].at = "queued"
  /\ switchLock = 0
  /\ SwitchGoto(t, "stopping")
  /\ switchLock' = t
  /\ CallStop(t)
  /\ UNCHANGED <<uiVars, vpnVars, seq>>

(* The first check of seq, once in the synchronized block. *)
SwitchEnters(t) ==
  /\ sw[t].at = "queued"
  /\ switchLock = 0
  /\ IF t # seq
     THEN SwitchGoto(t, "superseded") /\ UNCHANGED <<switchLock, coreVars>>
     ELSE SwitchGoto(t, "stopping") /\ switchLock' = t /\ CallStop(t)
  /\ UNCHANGED <<uiVars, vpnVars, seq>>

SwitchSleeps(t) ==
  /\ sw[t].at = "stopping"
  /\ call[t].at = "stopped"
  /\ SwitchGoto(t, "sleeping")
  /\ UNCHANGED <<coreVars, uiVars, vpnVars, seq, switchLock>>

(* The second check. *)
SwitchStarts(t) ==
  /\ sw[t].at = "sleeping"
  /\ IF t # seq
     THEN SwitchGoto(t, "superseded") /\ switchLock' = 0 /\ UNCHANGED coreVars
     ELSE SwitchGoto(t, "starting") /\ CallStart(t, sw[t].profile) /\ UNCHANGED switchLock
  /\ UNCHANGED <<uiVars, vpnVars, seq>>

SwitchStarted(t) ==
  /\ sw[t].at = "starting"
  /\ call[t].at = "started"
  /\ SwitchGoto(t, "waiting")
  /\ UNCHANGED <<coreVars, uiVars, vpnVars, seq, switchLock>>

(* Mutant: an explicit lock that the failure path keeps. *)
SwitchFails_KeepsLock(t) ==
  /\ sw[t].at = "starting"
  /\ call[t].at \in {"refused", "failed"}
  /\ SwitchGoto(t, "failed")
  /\ UNCHANGED <<coreVars, uiVars, vpnVars, seq, switchLock>>

SwitchFails(t) ==
  /\ sw[t].at = "starting"
  /\ call[t].at \in {"refused", "failed"}
  /\ SwitchGoto(t, "failed")
  /\ switchLock' = 0
  /\ UNCHANGED <<coreVars, uiVars, vpnVars, seq>>

(* WaitSocksProxyReady takes the mutex to read the pool, then polls for 3  *)
(* seconds at most; the outcome is only shown.                             *)
SwitchReady(t) ==
  /\ sw[t].at = "waiting"
  /\ serviceMu = None
  /\ SwitchGoto(t, "done")
  /\ switchLock' = 0
  /\ UNCHANGED <<coreVars, uiVars, vpnVars, seq>>

SwitchStep(t) ==
  /\ ~panicked
  /\ \/ SwitchEnters(t) \/ SwitchSleeps(t) \/ SwitchStarts(t)
     \/ SwitchStarted(t) \/ SwitchFails(t) \/ SwitchReady(t)

-----------------------------------------------------------------------------

Init ==
  /\ CoreInit
  /\ selected \in Valid
  /\ ui = [enable |-> FALSE, profile |-> selected]
  /\ stored = ui
  /\ loaded = NotLoaded
  /\ reverted = FALSE
  /\ inbox = <<>>
  /\ optimizer = Asleep
  /\ proc = "down"
  /\ restarting = FALSE
  /\ main = "idle"
  /\ revoker = "idle"
  /\ tunFd = FALSE
  /\ hev = FALSE
  /\ seq = 0
  /\ switchLock = 0
  /\ sw = [t \in Switches |-> NoSwitch]

UserStep ==
  \/ \E p \in Profiles : SelectProfile(p)
  \/ ToggleConnection
  \/ CommitSetting
  \/ Reload
  \/ OnCreate
  \/ ApplySettings
  \/ PermissionGranted
  \/ OptimizerStarts
  \/ OptimizerReadsEnable
  \/ OptimizerSends
  \/ OptimizerChangesNothing

OnStartCommand ==
  \/ OnDisconnect \/ OnSwitch \/ OnConnectRunning
  \/ EstablishFails \/ WriteConfFails \/ StartService

MainStep == OnStartCommand \/ MainStarted \/ MainStartFails \/ Exit

ServiceUnchanged == UNCHANGED <<uiVars, vpnVars, switchVars>>

Next ==
  \/ UserStep
  \/ OnRevoke
  \/ RevokeExit
  \/ MainStep
  \/ Crash
  \/ \E t \in Switches : SwitchStep(t)
  \/ CoreStep /\ ServiceUnchanged

Spec == Init /\ [][Next]_vars

(* Threads run, waits have deadlines (15 s for ECH, 3 s for readiness), and *)
(* Android delivers intents and restarts what crashed.  Users, clients and  *)
(* the optimizer owe nothing.                                               *)
Fairness ==
  /\ WF_vars(MainStep)
  /\ WF_vars(RevokeExit)
  /\ WF_vars(Crash)
  /\ \A t \in Switches : WF_vars(SwitchStep(t))
  /\ \A c \in Callers : WF_vars(~panicked /\ CallStep(c) /\ ServiceUnchanged)

FairSpec == Spec /\ Fairness

-----------------------------------------------------------------------------

Maps == [enable : BOOLEAN, profile : Profiles]

Intents == [act : {"CONNECT", "SWITCH", "DISCONNECT"}, profile : Profiles \cup {None}]

SwitchRecords ==
  [at : Active \cup {"none", "superseded", "failed", "done"}, profile : Profiles \cup {None}]

(* Types; and hev-socks5-tunnel never outlives the device it reads from.   *)
TypeOK ==
  /\ CoreTypeOK
  /\ selected \in Profiles
  /\ ui \in Maps /\ stored \in Maps
  /\ loaded \in IF main = "starting" THEN Maps ELSE {NotLoaded}
  /\ reverted \in BOOLEAN
  /\ inbox \in Seq(Intents)
  /\ optimizer \in [at : {"asleep", "probing", "applying"}, profile : Profiles \cup {None}]
  /\ proc \in {"down", "up"}
  /\ restarting \in BOOLEAN
  /\ main \in {"idle", "starting", "stopping"}
  /\ revoker \in {"idle", "stopping"}
  /\ tunFd \in BOOLEAN
  /\ hev \in BOOLEAN /\ (hev => tunFd)
  /\ seq \in 0 .. MaxSwitches
  /\ switchLock \in 0 .. MaxSwitches
  /\ sw \in [Switches -> SwitchRecords]

(* Whatever order the switch threads get the lock in, the node that runs   *)
(* once the latest request has been carried out is the one it asked for,   *)
(* and its listener is open: switchLock and the checks of currentSwitchSeq *)
(* keep an overtaken request from stopping or replacing it.  A process that *)
(* stops, by DISCONNECT or onRevoke, is excepted.                          *)
LatestSwitchWins ==
  /\ seq # 0 /\ main = "idle" /\ revoker = "idle"
  /\ sw[seq].at \in {"waiting", "done"}
  =>
    /\ echPool # 0
    /\ profileOf[echPool] = sw[seq].profile
    /\ echPool \in live
    /\ sockets = {echPool}

(* A start is never refused because an earlier one is still up: every      *)
(* start of the service comes after a stop or in a fresh process.          *)
StartNotRefused == \A c \in Callers : call[c].at # "refused"

(* A DISCONNECT ends the process in the end, even one that comes while a   *)
(* start waits for an ECH list or switches are queued.                     *)
DisconnectEndsProcess ==
  (\E k \in DOMAIN inbox : inbox[k].act = "DISCONNECT") ~> proc = "down"

(* Every requested switch is carried out, overtaken, or reported failed,   *)
(* unless the process ends: the lock is never kept.                        *)
SwitchesSettle ==
  \A t \in Switches : sw[t].at = "queued" ~> sw[t].at \notin Active

(* Javadoc of switchProfile: the TUN device and hev-socks5-tunnel are kept *)
(* running without a break.  Only a start that fails and a stop take the   *)
(* device down.                                                            *)
SwitchKeepsTun ==
  [][tunFd /\ ~tunFd' => main # "idle" \/ revoker # "idle"]_vars

(* The core is the promise OneNode under all that the service does with it,*)
(* and with the process that ends.                                         *)
HostsOneNode == One!HostedSpec

(* When no intent, start, stop or switch is under way the pool that serves *)
(* the device is that of the node the user interface shows as selected,    *)
(* after any mix of switches, toggles, crashes and restarts; unless the    *)
(* setEnable of a start has put an older profile back into the file and    *)
(* the user has selected none since.  (On, off before :vpn has read the    *)
(* file, a tap on B while it waits for its ECH list, on: {on, A} is        *)
(* written, and the process made for the last CONNECT starts A while the   *)
(* interface shows B.)                                                     *)
RunsSelectedNode ==
  /\ tunFd /\ ui.enable
  /\ main = "idle" /\ revoker = "idle" /\ inbox = <<>>
  /\ \A t \in Switches : sw[t].at \notin Active
  /\ echPool # 0
  /\ ~reverted
  => profileOf[echPool] = selected

(* Javadoc of selectProfile: a tap on another node switches to it at once. *)
(* So once the last switch has been carried out, that node is running.     *)
SwitchesToSelected ==
  /\ seq # 0 /\ main = "idle" /\ revoker = "idle" /\ inbox = <<>>
  /\ sw[seq].at = "done"
  => profileOf[echPool] = selected

(* What makes LatestSwitchWins and StartNotRefused inductive.              *)

Holding == {"stopping", "sleeping", "starting", "waiting"}
StartPhases == {"start", "resolving", "listening", "started", "failed"}
StopPhases == {"stop", "closingListener", "closingPool", "stopped"}

Nil == echPool = 0 /\ proxyListener = 0

(* switchLock is held from the first check of seq to the end.              *)
LockHeld == \A t \in Switches : sw[t].at \in Holding <=> switchLock = t

(* The threads made are those of the requests so far.                      *)
ThreadsOfSeq == \A t \in Switches : sw[t].at = "none" <=> t > seq

(* There are none before the service has started.                          *)
StartsAlone ==
  /\ main = "starting" => tunFd
  /\ main = "starting" \/ ~tunFd => seq = 0

MainCall ==
  /\ main = "idle" => call[MainThread].at \in Returned \ {"refused"}
  /\ main = "starting" => call[MainThread].at \in StartPhases
  /\ main = "stopping" => call[MainThread].at \in StopPhases

BinderCall ==
  /\ revoker = "idle" => call[BinderThread].at \in Returned \ {"refused"}
  /\ revoker = "stopping" => call[BinderThread].at \in StopPhases

SwitchCalls == \A t \in Switches :
  /\ sw[t].at \notin Holding => call[t].at \in Returned \ {"refused"}
  /\ sw[t].at = "stopping" => call[t].at \in StopPhases
  /\ sw[t].at = "sleeping" => call[t].at = "stopped"
  /\ sw[t].at = "starting" => call[t].at \in StartPhases /\ call[t].profile = sw[t].profile
  /\ sw[t].at = "waiting" => call[t].at = "started"

(* Nothing runs between a stop and the start that follows it.              *)
NilBeforeStart ==
  /\ ~tunFd => Nil
  /\ main = "starting" /\ call[MainThread].at \in {"start", "failed"} => Nil
  /\ \A t \in Switches :
       \/ sw[t].at = "stopping" /\ call[t].at = "stopped"
       \/ sw[t].at = "sleeping"
       \/ sw[t].at = "starting" /\ call[t].at \in {"start", "failed"}
       => Nil

(* A request that overtakes the holder of the lock waits for it.           *)
OvertakerWaits == switchLock # 0 /\ switchLock # seq => sw[seq].at = "queued"

(* The pool of a start that comes to listen is live and of its node.       *)
ListensForLive ==
  \A c \in Callers : call[c].at = "listening" =>
    call[c].pool \in live /\ profileOf[call[c].pool] = call[c].profile

LatestRuns ==
  /\ seq # 0
  /\ main = "idle" /\ revoker = "idle"
  /\ \/ sw[seq].at \in {"waiting", "done"}
     \/ sw[seq].at = "starting" /\ call[seq].at = "started"
  => /\ echPool # 0
     /\ profileOf[echPool] = sw[seq].profile
     /\ echPool \in live
     /\ sockets = {echPool}

ServiceInv ==
  /\ CoreInv /\ ListensForLive
  /\ TypeOK
  /\ LockHeld /\ ThreadsOfSeq /\ StartsAlone
  /\ MainCall /\ BinderCall /\ SwitchCalls
  /\ NilBeforeStart /\ OvertakerWaits /\ LatestRuns

(* What makes RunsSelectedNode inductive, where the optimizer does not run.*)

(* The file and the map of the user interface have the selected node, but  *)
(* for what setEnable has put back.                                        *)
SelectionStored ==
  /\ ui.enable => stored.enable
  /\ ~reverted => ui.profile = selected /\ stored.profile = selected

(* A process that is made again has done nothing yet.                      *)
RestartsFromNothing == restarting => ~tunFd /\ main = "idle"

(* Without the device and before the listener nobody connects, so that     *)
(* nothing panics.                                                         *)
QuietBeforeListening ==
  ~tunFd \/ (main = "starting" /\ call[MainThread].at # "started") =>
    ~panicked /\ sockets = {} /\ \A h \in Conns : conn[h] = Unused

(* The switch of the user interface is off only if the service is stopped, *)
(* stops, or has been told to by the last intent.                          *)
DisabledStops ==
  ~ui.enable =>
    \/ inbox # <<>> /\ inbox[Len(inbox)].act = "DISCONNECT"
    \/ inbox = <<>> /\ main = "stopping"
    \/ inbox = <<>> /\ ~tunFd /\ ~restarting /\ main = "idle"

(* The last switch under way is to the selected node.                      *)
LastSwitchSelected ==
  ~reverted => \A k \in DOMAIN inbox :
    /\ inbox[k].act = "SWITCH"
    /\ \A j \in DOMAIN inbox : j > k => inbox[j].act = "CONNECT"
    => inbox[k].profile = selected

MainStartRuns ==
  main = "starting" /\ call[MainThread].at = "started" /\ revoker = "idle" =>
    echPool # 0 /\ profileOf[echPool] = call[MainThread].profile

(* The latest request is not overtaken, and if it fails nothing runs.      *)
LatestFailed == seq # 0 => sw[seq].at # "superseded" /\ (sw[seq].at = "failed" => Nil)

(* With no switch and no stop under way, the latest request, the start or  *)
(* the pool is of the selected node.                                       *)
ServesSelected ==
  /\ tunFd /\ revoker = "idle" /\ ~reverted
  /\ main \in {"idle", "starting"}
  /\ \A k \in DOMAIN inbox : inbox[k].act = "CONNECT"
  => /\ seq # 0 => sw[seq].profile = selected
     /\ main = "starting" => call[MainThread].profile = selected
     /\ seq = 0 /\ main = "idle" /\ echPool # 0 => profileOf[echPool] = selected

SelectionInv ==
  /\ optimizer = Asleep /\ SelectionStored
  /\ RestartsFromNothing /\ QuietBeforeListening
  /\ DisabledStops /\ LastSwitchSelected
  /\ MainStartRuns /\ LatestFailed /\ ServesSelected
=============================================================================
