------------------------------ MODULE HevTunnel ------------------------------
(***************************************************************************)
(* The life of hev-socks5-tunnel inside the app: the JNI calls             *)
(* TProxyStartService and TProxyStopService (hev-jni.c), the thread that   *)
(* runs hev_socks5_tunnel_main (hev-main.c), and the cooperative tasks of  *)
(* that thread (hev-socks5-tunnel.c): the event task, the task that reads  *)
(* the TUN device, the lwIP timer and one task for each session.           *)
(*                                                                         *)
(* A task runs until it yields, so an action of a task is what it does     *)
(* between two yields.  The statics of the C files outlive the thread: the *)
(* n-th thread made is the number n and finds them as the last one left    *)
(* them.  The scheduler (hev-task-system) and lwIP are external.           *)
(***************************************************************************)
EXTENDS Integers, Sequences

CONSTANTS
  Callers,    \* Java threads that call the two methods
  Sessions,   \* session objects, used again once they are destroyed
  MaxCount,   \* max-session-count, 0 for no limit
  MaxStarts,  \* bound: threads made
  NoCaller    \* nobody holds the mutex

ASSUME TunnelAssumption ==
  /\ MaxCount \in Nat
  /\ MaxStarts \in Nat \ {0}
  /\ NoCaller \notin Callers

VARIABLES
  jniMutex,    \* mutex of hev-jni.c
  is_working,
  call,        \* the progress of each caller
  threads,     \* how many threads have been made
  main,        \* where each thread is in hev_socks5_tunnel_main
  event_fds,   \* the socket pair is open
  signalled,   \* a byte is in it
  run,
  event,       \* the event task
  io,          \* the task that reads the TUN device
  timer,       \* the lwIP timer
  session,     \* what the task of a session is doing
  terminated,  \* the sessions whose timeout is 0
  session_set,
  session_count

jniVars == <<jniMutex, is_working, call, threads>>
taskVars == <<run, event, io, timer>>
setVars == <<session, terminated, session_set, session_count>>
vars == <<jniVars, main, event_fds, signalled, taskVars, setVars>>

Threads == 1 .. MaxStarts

Goto(c, step) == call' = [call EXCEPT ![c] = step]

MainGoto(n, step) == main' = [main EXCEPT ![n] = step]

-----------------------------------------------------------------------------
(* hev-jni.c.                                                              *)

StartService(c) ==
  /\ call[c] = "idle"
  /\ jniMutex = NoCaller
  /\ threads < MaxStarts
  /\ ~is_working
  /\ threads' = threads + 1
  /\ MainGoto(threads + 1, "init")
  /\ is_working' = TRUE
  /\ UNCHANGED <<jniMutex, call, event_fds, signalled, taskVars, setVars>>

(* With is_working 0 the method returns at once. *)
StopService(c) ==
  /\ call[c] = "idle"
  /\ jniMutex = NoCaller
  /\ is_working
  /\ jniMutex' = c
  /\ Goto(c, "waitFd")
  /\ UNCHANGED <<is_working, threads, main, event_fds, signalled, taskVars, setVars>>

(* The loop of hev_socks5_tunnel_stop ends once it reads a descriptor. *)
StopReadsFd(c) ==
  /\ call[c] = "waitFd"
  /\ event_fds
  /\ Goto(c, "write")
  /\ UNCHANGED <<jniMutex, is_working, threads, main, event_fds, signalled, taskVars,
                 setVars>>

(* The descriptor may have been closed since: the assertion fails. *)
StopWrites(c) ==
  /\ call[c] = "write"
  /\ Goto(c, IF event_fds THEN "join" ELSE "aborted")
  /\ signalled' = event_fds
  /\ UNCHANGED <<jniMutex, is_working, threads, main, event_fds, taskVars, setVars>>

(* Mutant: the thread is not waited for. *)
StopJoins_NoJoin(c) ==
  /\ call[c] = "join"
  /\ is_working' = FALSE
  /\ jniMutex' = NoCaller
  /\ Goto(c, "idle")
  /\ UNCHANGED <<threads, main, event_fds, signalled, taskVars, setVars>>

StopJoins(c) ==
  /\ call[c] = "join"
  /\ main[threads] = "exited"
  /\ is_working' = FALSE
  /\ jniMutex' = NoCaller
  /\ Goto(c, "idle")
  /\ UNCHANGED <<threads, main, event_fds, signalled, taskVars, setVars>>

-----------------------------------------------------------------------------
(* hev_socks5_tunnel_main.                                                 *)

(* The configuration, a logger, the task system or the device is refused:  *)
(* the thread ends without ever having opened the socket pair.             *)
MainFails(n) ==
  /\ main[n] = "init"
  /\ MainGoto(n, "exited")
  /\ UNCHANGED <<jniVars, event_fds, signalled, taskVars, setVars>>

OpenEventFds(n) ==
  /\ main[n] = "init"
  /\ MainGoto(n, "tasks")
  /\ event_fds' = TRUE
  /\ signalled' = FALSE
  /\ UNCHANGED <<jniVars, taskVars, setVars>>

(* A task or the mapped DNS cannot be made: fini. *)
InitFails(n) ==
  /\ main[n] = "tasks"
  /\ MainGoto(n, "exited")
  /\ event_fds' = FALSE
  /\ UNCHANGED <<jniVars, signalled, taskVars, setVars>>

(* hev_socks5_tunnel_run. *)
TasksStart(n) ==
  /\ main[n] = "tasks"
  /\ MainGoto(n, "running")
  /\ run' = TRUE
  /\ event' = "reading"
  /\ io' = "reading"
  /\ timer' = "ready"
  /\ UNCHANGED <<jniVars, event_fds, signalled, setVars>>

(* The scheduler returns when the last task has ended; then fini. *)
TasksEnd(n) ==
  /\ main[n] = "running"
  /\ event = "done" /\ io = "done" /\ timer = "done"
  /\ \A s \in Sessions : session[s] = "none"
  /\ MainGoto(n, "exited")
  /\ event_fds' = FALSE
  /\ UNCHANGED <<jniVars, signalled, taskVars, setVars>>

-----------------------------------------------------------------------------
(* The event task.                                                         *)

InSet == {session_set[k] : k \in 1 .. Len(session_set)}

EventReads ==
  /\ event = "reading"
  /\ signalled
  /\ run' = FALSE
  /\ terminated' = terminated \cup InSet
  /\ event' = "joinIo"
  /\ UNCHANGED <<jniVars, main, event_fds, signalled, io, timer, session,
                 session_set, session_count>>

EventJoinsIo ==
  /\ event = "joinIo"
  /\ io = "done"
  /\ event' = "joinTimer"
  /\ UNCHANGED <<jniVars, main, event_fds, signalled, run, io, timer, setVars>>

(* Mutant: the join does not wake the timer. *)
EventJoinsTimer_NoWakeup ==
  /\ event = "joinTimer"
  /\ timer = "done"
  /\ event' = "done"
  /\ UNCHANGED <<jniVars, main, event_fds, signalled, run, io, timer, setVars>>

(* A join wakes the task it waits for. *)
EventJoinsTimer ==
  /\ event = "joinTimer"
  /\ IF timer = "done"
     THEN event' = "done" /\ UNCHANGED timer
     ELSE timer = "waiting" /\ timer' = "ready" /\ UNCHANGED event
  /\ UNCHANGED <<jniVars, main, event_fds, signalled, run, io, setVars>>

-----------------------------------------------------------------------------
(* The task that reads the device, and the timer.                          *)

(* hev_socks5_tunnel_insert_session: the new session at the tail; at the   *)
(* limit the head is terminated.                                           *)
Insert(s) ==
  /\ session_set' = Append(session_set, s)
  /\ session_count' = session_count + 1
  /\ terminated' = IF MaxCount # 0 /\ session_count' >= MaxCount
                   THEN terminated \cup {Head(session_set')}
                   ELSE terminated

(* Mutant: the timer is not woken. *)
Accept_NoWakeup(s) ==
  /\ io = "reading"
  /\ run
  /\ session[s] = "none"
  /\ session' = [session EXCEPT ![s] = "connect"]
  /\ Insert(s)
  /\ UNCHANGED <<jniVars, main, event_fds, signalled, run, event, io, timer>>

(* A TCP connection or a first datagram comes out of the device. *)
Accept(s) ==
  /\ io = "reading"
  /\ run
  /\ session[s] = "none"
  /\ session' = [session EXCEPT ![s] = "connect"]
  /\ Insert(s)
  /\ timer' = "ready"
  /\ UNCHANGED <<jniVars, main, event_fds, signalled, run, event, io>>

IoEnds ==
  /\ io = "reading"
  /\ ~run
  /\ io' = "done"
  /\ UNCHANGED <<jniVars, main, event_fds, signalled, run, event, timer, setVars>>

(* One round of the timer: it sleeps while there are sessions, and waits   *)
(* to be woken when there are none.                                        *)
TimerTicks ==
  /\ timer = "ready"
  /\ timer' = IF ~run THEN "done" ELSE IF session_set = <<>> THEN "waiting" ELSE "ready"
  /\ UNCHANGED <<jniVars, main, event_fds, signalled, run, event, io, setVars>>

-----------------------------------------------------------------------------
(* The task of a session.                                                  *)

SessionGoto(s, step) == session' = [session EXCEPT ![s] = step]

(* Each stage sets its own timeout, over the 0 of a termination too. *)
Connected(s) ==
  /\ session[s] = "connect"
  /\ SessionGoto(s, "handshake")
  /\ terminated' = terminated \ {s}
  /\ UNCHANGED <<jniVars, main, event_fds, signalled, taskVars, session_set,
                 session_count>>

(* A TCP session keeps the timeout it has, a UDP session sets another. *)
HandshakeDone(s) ==
  /\ session[s] = "handshake"
  /\ SessionGoto(s, "splice")
  /\ \/ UNCHANGED terminated
     \/ terminated' = terminated \ {s}
  /\ UNCHANGED <<jniVars, main, event_fds, signalled, taskVars, session_set,
                 session_count>>

(* hev_list_del of the node at position p. *)
Unlinked(p) ==
  [k \in 1 .. Len(session_set) - 1 |->
    IF k < p THEN session_set[k] ELSE session_set[k + 1]]

Places(s) == {p \in 1 .. Len(session_set) : session_set[p] = s}

(* Mutant: added to the tail without leaving its old place. *)
Splice_Twice(s) ==
  /\ session[s] = "splice"
  /\ MaxCount # 0
  /\ session_set' = Append(session_set, s)
  /\ UNCHANGED <<jniVars, main, event_fds, signalled, taskVars, session, terminated,
                 session_count>>

(* Data has moved, or the task was woken: hev_socks5_tunnel_update_session *)
(* puts the session last.  A busy session never looks at its timeout.      *)
Splice(s) ==
  /\ session[s] = "splice"
  /\ MaxCount # 0
  /\ \E p \in Places(s) : session_set' = Append(Unlinked(p), s)
  /\ UNCHANGED <<jniVars, main, event_fds, signalled, taskVars, session, terminated,
                 session_count>>

(* lwIP frees the pcb of the session: tcp_err_handler. *)
PcbLost(s) ==
  /\ session[s] \in {"connect", "handshake", "splice"}
  /\ terminated' = terminated \cup {s}
  /\ UNCHANGED <<jniVars, main, event_fds, signalled, taskVars, session, session_set,
                 session_count>>

(* An end of the connection, an error, or a timeout, which comes at once   *)
(* when it is 0 and the task has to wait.                                  *)
SessionEnds(s) ==
  /\ session[s] \in {"connect", "handshake", "splice"}
  /\ SessionGoto(s, "destruct")
  /\ \E p \in Places(s) : session_set' = Unlinked(p)
  /\ session_count' = session_count - 1
  /\ UNCHANGED <<jniVars, main, event_fds, signalled, taskVars, terminated>>

(* Mutant: the session is taken off the count a second time. *)
Destruct_Deletes(s) ==
  /\ session[s] = "destruct"
  /\ SessionGoto(s, "none")
  /\ terminated' = terminated \ {s}
  /\ session_count' = session_count - 1
  /\ UNCHANGED <<jniVars, main, event_fds, signalled, taskVars, session_set>>

Destruct(s) ==
  /\ session[s] = "destruct"
  /\ SessionGoto(s, "none")
  /\ terminated' = terminated \ {s}
  /\ UNCHANGED <<jniVars, main, event_fds, signalled, taskVars, session_set,
                 session_count>>

-----------------------------------------------------------------------------

Init ==
  /\ jniMutex = NoCaller
  /\ is_working = FALSE
  /\ call = [c \in Callers |-> "idle"]
  /\ threads = 0
  /\ main = [n \in Threads |-> "none"]
  /\ event_fds = FALSE
  /\ signalled = FALSE
  /\ run = FALSE
  /\ event = "done" /\ io = "done" /\ timer = "done"
  /\ session = [s \in Sessions |-> "none"]
  /\ terminated = {}
  /\ session_set = <<>>
  /\ session_count = 0

StopStep(c) == StopReadsFd(c) \/ StopWrites(c) \/ StopJoins(c)

MainStep(n) ==
  MainFails(n) \/ OpenEventFds(n) \/ InitFails(n) \/ TasksStart(n) \/ TasksEnd(n)

EventStep == EventReads \/ EventJoinsIo \/ EventJoinsTimer

SessionCloses(s) == SessionEnds(s) \/ Destruct(s)

SessionStep(s) ==
  Connected(s) \/ HandshakeDone(s) \/ Splice(s) \/ PcbLost(s) \/ SessionCloses(s)

Next ==
  \/ \E c \in Callers : StartService(c) \/ StopService(c) \/ StopStep(c)
  \/ \E n \in Threads : MainStep(n)
  \/ EventStep
  \/ IoEnds
  \/ TimerTicks
  \/ \E s \in Sessions : Accept(s) \/ SessionStep(s)

Spec == Init /\ [][Next]_vars

(* Threads run and the scheduler runs every task that is ready.  A session *)
(* may last as long as the tunnel runs.  After that nothing is read from   *)
(* the device, its peers fall silent, and it ends by its timeout at last.  *)
Fairness ==
  /\ \A c \in Callers : WF_vars(StopStep(c))
  /\ \A n \in Threads : WF_vars(MainStep(n))
  /\ WF_vars(EventStep)
  /\ WF_vars(IoEnds)
  /\ WF_vars(TimerTicks)
  /\ \A s \in Sessions : WF_vars(~run /\ SessionEnds(s)) /\ WF_vars(Destruct(s))

FairSpec == Spec /\ Fairness

-----------------------------------------------------------------------------

Live == {"connect", "handshake", "splice"}

(* Types; and the count never drops below zero.                            *)
TypeOK ==
  /\ jniMutex \in Callers \cup {NoCaller}
  /\ is_working \in BOOLEAN
  /\ call \in [Callers -> {"idle", "waitFd", "write", "join", "aborted"}]
  /\ threads \in 0 .. MaxStarts
  /\ main \in [Threads -> {"none", "init", "tasks", "running", "exited"}]
  /\ event_fds \in BOOLEAN
  /\ signalled \in BOOLEAN
  /\ run \in BOOLEAN
  /\ event \in {"reading", "joinIo", "joinTimer", "done"}
  /\ io \in {"reading", "done"}
  /\ timer \in {"ready", "waiting", "done"}
  /\ session \in [Sessions -> Live \cup {"none", "destruct"}]
  /\ terminated \subseteq Sessions
  /\ session_set \in Seq(Sessions)
  /\ session_count \in Nat

(* At most one thread is ever in hev_socks5_tunnel_main: all its state is  *)
(* static.  pthread_join comes before is_working is cleared.               *)
OneTunnel ==
  \A m, n \in Threads : main[m] \notin {"none", "exited"} /\ main[n] \notin {"none", "exited"} => m = n

(* The set holds every session that has not ended, once, and nothing that  *)
(* has been destroyed; the count is its length; and both are empty again   *)
(* when the thread has ended, ready for the next start.                    *)
SessionsTracked ==
  /\ \A j, k \in 1 .. Len(session_set) : session_set[j] = session_set[k] => j = k
  /\ InSet = {s \in Sessions : session[s] \in Live}
  /\ session_count = Len(session_set)
  /\ (\A n \in Threads : main[n] # "running") => session_set = <<>>

(* The lwIP timer is never left waiting while a session needs TCP          *)
(* retransmissions: tcp_accept_handler wakes it after the insertion.       *)
TimerServesSessions == session_set # <<>> /\ run => timer = "ready"

(* What makes them inductive.  Whoever is in native_stop_service holds the *)
(* mutex, and is_working is set from a start to the join.                  *)
MutexHeld ==
  \A c \in Callers : call[c] # "idle" <=> jniMutex = c

StopIsOfWorking ==
  jniMutex # NoCaller => is_working

(* Threads are made one after the other: only the last may be running.     *)
LastThreadWorks ==
  \A n \in Threads :
    /\ n > threads => main[n] = "none"
    /\ main[n] \notin {"none", "exited"} => n = threads /\ is_working

Running == \E n \in Threads : main[n] = "running"

(* Tasks and sessions exist only inside hev_socks5_tunnel_run.             *)
TasksOfRun ==
  ~Running => /\ event = "done" /\ io = "done"
              /\ \A s \in Sessions : session[s] = "none"

HInv ==
  /\ TypeOK
  /\ MutexHeld
  /\ StopIsOfWorking
  /\ LastThreadWorks
  /\ TasksOfRun
  /\ SessionsTracked
  /\ TimerServesSessions

(* A stop that has reached a running tunnel returns, however many sessions *)
(* there are and whatever stage they are in.                               *)
StopOfRunningReturns ==
  \A c \in Callers, n \in Threads :
    call[c] = "join" /\ main[n] = "running" ~> call[c] = "idle"

(* hev_socks5_tunnel_stop: "Wait for async initialization".  The wait ends *)
(* and the stop returns.                                                   *)
StopReturns == \A c \in Callers : call[c] = "waitFd" ~> call[c] = "idle"

=============================================================================
