--------------------------- MODULE HevTunnelProofs ---------------------------
(* One tunnel at a time, its session set in order and its timer awake, for *)
(* any number of Java threads, starts and sessions and any limit.          *)
EXTENDS HevTunnel, SequenceTheorems, TLAPS

USE TunnelAssumption

Distinct(q) == \A j, k \in 1 .. Len(q) : q[j] = q[k] => j = k

Elements(q) == {q[k] : k \in 1 .. Len(q)}

-----------------------------------------------------------------------------
(* hev_list_del and hev_list_add_tail on the session set.                  *)

(* A deletion takes one session off a duplicate-free list. *)
LEMMA UnlinkedRemoves ==
  ASSUME session_set \in Seq(Sessions), Distinct(session_set),
         NEW p \in 1 .. Len(session_set)
  PROVE  /\ Unlinked(p) \in Seq(Sessions)
         /\ Len(Unlinked(p)) = Len(session_set) - 1
         /\ Distinct(Unlinked(p))
         /\ Elements(Unlinked(p)) = InSet \ {session_set[p]}
<1> DEFINE u == Unlinked(p)
           n == Len(session_set)
<1>1. /\ n \in Nat \ {0}
      /\ u \in Seq(Sessions)
      /\ Len(u) = n - 1
      /\ \A k \in 1 .. n - 1 : u[k] = IF k < p THEN session_set[k] ELSE session_set[k + 1]
  BY DEF Unlinked
<1> HIDE DEF u, n
<1>2. \A j, k \in 1 .. n : session_set[j] = session_set[k] => j = k
  BY DEF Distinct, n
<1>3. Distinct(u)
  BY <1>1, <1>2 DEF Distinct
<1>4. \A k \in 1 .. n - 1 : u[k] \in InSet \ {session_set[p]}
  <2> SUFFICES ASSUME NEW k \in 1 .. n - 1 PROVE u[k] \in InSet \ {session_set[p]}
    OBVIOUS
  <2>1. PICK j \in 1 .. n : j # p /\ u[k] = session_set[j]
    <3>1. CASE k < p
      BY <1>1, <3>1
    <3>2. CASE k >= p
      <4>1. k + 1 \in 1 .. n /\ k + 1 # p /\ u[k] = session_set[k + 1]
        BY <1>1, <3>2
      <4>2. QED
        BY <4>1
    <3>3. QED
      BY <1>1, <3>1, <3>2 DEF n
  <2>2. QED
    BY <1>2, <2>1 DEF InSet, n
<1>5. \A j \in 1 .. n : j # p => \E k \in 1 .. n - 1 : session_set[j] = u[k]
  <2> SUFFICES ASSUME NEW j \in 1 .. n, j # p
               PROVE  \E k \in 1 .. n - 1 : session_set[j] = u[k]
    OBVIOUS
  <2>1. CASE j < p
    <3>1. j \in 1 .. n - 1 /\ u[j] = session_set[j]
      BY <1>1, <2>1 DEF n
    <3>2. QED
      BY <3>1
  <2>2. CASE j > p
    <3>1. j - 1 \in 1 .. n - 1 /\ u[j - 1] = session_set[j]
      BY <1>1, <2>2 DEF n
    <3>2. QED
      BY <3>1
  <2>3. QED
    BY <2>1, <2>2 DEF n
<1>6. Elements(u) = {u[k] : k \in 1 .. n - 1}
  BY <1>1 DEF Elements
<1>7. Elements(u) \subseteq InSet \ {session_set[p]}
  BY <1>4, <1>6, Zenon
<1>8. InSet \ {session_set[p]} \subseteq Elements(u)
  <2> SUFFICES ASSUME NEW j \in 1 .. n, session_set[j] # session_set[p]
               PROVE  session_set[j] \in Elements(u)
    BY DEF InSet, n
  <2>1. PICK k \in 1 .. n - 1 : session_set[j] = u[k]
    BY <1>5
  <2>2. QED
    BY <1>6, <2>1
<1>9. QED
  BY <1>1, <1>3, <1>7, <1>8 DEF u, n

(* An insertion at the tail puts a new session on it. *)
LEMMA AppendAdds ==
  ASSUME NEW q \in Seq(Sessions), Distinct(q), NEW s \in Sessions, s \notin Elements(q)
  PROVE  /\ Append(q, s) \in Seq(Sessions)
         /\ Len(Append(q, s)) = Len(q) + 1
         /\ Distinct(Append(q, s))
         /\ Elements(Append(q, s)) = Elements(q) \cup {s}
         /\ Head(Append(q, s)) \in Sessions
<1> DEFINE a == Append(q, s)
           n == Len(q)
<1>1. /\ n \in Nat
      /\ a \in Seq(Sessions)
      /\ Len(a) = n + 1
      /\ \A k \in 1 .. n : a[k] = q[k]
      /\ a[n + 1] = s
  OBVIOUS
<1>2. Head(a) \in Sessions
  BY <1>1
<1> HIDE DEF a, n
<1>3. \A k \in 1 .. n : q[k] # s
  BY DEF Elements, n
<1>4. Distinct(a)
  BY <1>1, <1>3 DEF Distinct, n
<1>5. \A k \in 1 .. n + 1 : a[k] \in Elements(q) \cup {s}
  BY <1>1 DEF Elements, n
<1>6. Elements(a) = {a[k] : k \in 1 .. n + 1}
  BY <1>1 DEF Elements
<1>7. Elements(a) \subseteq Elements(q) \cup {s}
  BY <1>5, <1>6, Zenon
<1>8. Elements(q) \subseteq Elements(a)
  <2> SUFFICES ASSUME NEW k \in 1 .. n PROVE q[k] \in Elements(a)
    BY DEF Elements, n
  <2>1. k \in 1 .. n + 1 /\ a[k] = q[k]
    BY <1>1
  <2>2. QED
    BY <1>6, <2>1
<1>9. s \in Elements(a)
  <2>1. n + 1 \in 1 .. n + 1 /\ a[n + 1] = s
    BY <1>1
  <2>2. QED
    BY <1>6, <2>1
<1>10. QED
  BY <1>1, <1>2, <1>4, <1>7, <1>8, <1>9 DEF a, n

(* What a state of the invariant says of the list, in the words above. *)
LEMMA ListOfLive ==
  ASSUME HInv
  PROVE  /\ session_set \in Seq(Sessions)
         /\ Distinct(session_set)
         /\ Elements(session_set) = InSet
         /\ InSet = {s \in Sessions : session[s] \in Live}
         /\ session_count = Len(session_set)
         /\ session \in [Sessions -> Live \cup {"none", "destruct"}]
BY DEF HInv, TypeOK, SessionsTracked, Distinct, Elements, InSet

-----------------------------------------------------------------------------
(* The steps that change the session set, with what they do to it.         *)

(* A new session joins the set; its task is in a stage of its life. *)
LEMMA AcceptTracks ==
  ASSUME HInv, NEW s \in Sessions, Accept(s)
  PROVE  /\ session_set' \in Seq(Sessions)
         /\ session_count' = Len(session_set')
         /\ Distinct(session_set')
         /\ InSet' = {r \in Sessions : session'[r] \in Live}
         /\ terminated' \subseteq Sessions
<1>1. s \notin Elements(session_set)
  BY ListOfLive DEF Accept, Live
<1>2. session_set' = Append(session_set, s) /\ session_count' = session_count + 1
  BY DEF Accept, Insert
<1>3. /\ session_set' \in Seq(Sessions)
      /\ Len(session_set') = Len(session_set) + 1
      /\ Distinct(session_set')
      /\ Elements(session_set') = Elements(session_set) \cup {s}
      /\ Head(session_set') \in Sessions
  BY <1>1, <1>2, ListOfLive, AppendAdds
<1>4. InSet' = Elements(session_set')
  BY DEF InSet, Elements
<1>5. InSet' = {r \in Sessions : session'[r] \in Live}
  BY <1>3, <1>4, ListOfLive DEF Accept, Live
<1>6. terminated' \subseteq Sessions
  BY <1>3 DEF Accept, Insert, HInv, TypeOK
<1>7. QED
  BY <1>2, <1>3, <1>5, <1>6, ListOfLive

(* A busy session changes place. *)
LEMMA SpliceTracks ==
  ASSUME HInv, NEW s \in Sessions, Splice(s)
  PROVE  /\ session_set' \in Seq(Sessions)
         /\ session_count' = Len(session_set')
         /\ Distinct(session_set')
         /\ InSet' = {r \in Sessions : session'[r] \in Live}
         /\ session_set # <<>>
<1>1. PICK p \in 1 .. Len(session_set) :
        session_set[p] = s /\ session_set' = Append(Unlinked(p), s)
  BY DEF Splice, Places
<1>2. /\ Unlinked(p) \in Seq(Sessions)
      /\ Len(Unlinked(p)) = Len(session_set) - 1
      /\ Distinct(Unlinked(p))
      /\ Elements(Unlinked(p)) = InSet \ {s}
  BY <1>1, ListOfLive, UnlinkedRemoves
<1>3. /\ session_set' \in Seq(Sessions)
      /\ Len(session_set') = Len(Unlinked(p)) + 1
      /\ Distinct(session_set')
      /\ Elements(session_set') = Elements(Unlinked(p)) \cup {s}
  BY <1>1, <1>2, AppendAdds
<1>4. Len(session_set) \in Nat \ {0}
  BY <1>1, ListOfLive
<1>5. InSet' = Elements(session_set')
  BY DEF InSet, Elements
<1>6. s \in InSet
  BY ListOfLive DEF Splice, Live
<1>7. InSet' = InSet
  BY <1>2, <1>3, <1>5, <1>6
<1>8. session' = session /\ session_count' = session_count
  BY DEF Splice
<1>9. QED
  BY <1>2, <1>3, <1>4, <1>7, <1>8, ListOfLive

(* A session that ends leaves the set. *)
LEMMA SessionEndsTracks ==
  ASSUME HInv, NEW s \in Sessions, SessionEnds(s)
  PROVE  /\ session_set' \in Seq(Sessions)
         /\ session_count' = Len(session_set')
         /\ Distinct(session_set')
         /\ InSet' = {r \in Sessions : session'[r] \in Live}
         /\ session_set # <<>>
<1>1. PICK p \in 1 .. Len(session_set) :
        session_set[p] = s /\ session_set' = Unlinked(p)
  BY DEF SessionEnds, Places
<1>2. /\ session_set' \in Seq(Sessions)
      /\ Len(session_set') = Len(session_set) - 1
      /\ Distinct(session_set')
      /\ Elements(session_set') = InSet \ {s}
  BY <1>1, ListOfLive, UnlinkedRemoves
<1>3. Len(session_set) \in Nat \ {0}
  BY <1>1, ListOfLive
<1>4. InSet' = Elements(session_set')
  BY DEF InSet, Elements
<1>5. InSet' = {r \in Sessions : session'[r] \in Live}
  BY <1>2, <1>4, ListOfLive DEF SessionEnds, SessionGoto, Live
<1>6. session_count' = session_count - 1
  BY DEF SessionEnds
<1>7. QED
  BY <1>2, <1>3, <1>5, <1>6, ListOfLive

-----------------------------------------------------------------------------
(* The invariant is kept, part by part.                                    *)

LEMMA TypeKept == HInv /\ [Next]_vars => TypeOK'
<1> SUFFICES ASSUME HInv, [Next]_vars PROVE TypeOK'
  OBVIOUS
<1> TypeOK
  BY DEF HInv
<1>1. ASSUME NEW c \in Callers, StartService(c) \/ StopService(c) \/ StopStep(c)
      PROVE  TypeOK'
  <2>1. CASE StartService(c)
    <3>1. threads + 1 \in Threads /\ threads + 1 \in 0 .. MaxStarts
      BY <2>1 DEF StartService, TypeOK, Threads
    <3>2. QED
      BY <2>1, <3>1 DEF StartService, MainGoto, TypeOK, taskVars, setVars
  <2>2. CASE StopWrites(c)
    <3>1. call' \in [Callers -> {"idle", "waitFd", "write", "join", "aborted"}]
      BY <2>2 DEF StopWrites, Goto, TypeOK
    <3>2. QED
      BY <2>2, <3>1 DEF StopWrites, TypeOK, taskVars, setVars
  <2>3. CASE StopService(c) \/ StopReadsFd(c) \/ StopJoins(c)
    BY <2>3 DEF StopService, StopReadsFd, StopJoins, Goto, TypeOK, taskVars, setVars
  <2>4. QED
    BY <1>1, <2>1, <2>2, <2>3 DEF StopStep
<1>2. ASSUME NEW n \in Threads, MainStep(n) PROVE TypeOK'
  <2>1. main' \in [Threads -> {"none", "init", "tasks", "running", "exited"}]
    BY <1>2 DEF MainStep, MainFails, OpenEventFds, InitFails, TasksStart, TasksEnd,
                MainGoto, TypeOK
  <2>2. UNCHANGED <<jniVars, setVars>>
    BY <1>2 DEF MainStep, MainFails, OpenEventFds, InitFails, TasksStart, TasksEnd
  <2>3. /\ event_fds' \in BOOLEAN /\ signalled' \in BOOLEAN /\ run' \in BOOLEAN
        /\ event' \in {"reading", "joinIo", "joinTimer", "done"}
        /\ io' \in {"reading", "done"}
        /\ timer' \in {"ready", "waiting", "done"}
    BY <1>2 DEF MainStep, MainFails, OpenEventFds, InitFails, TasksStart, TasksEnd,
                TypeOK, taskVars
  <2>4. QED
    BY <2>1, <2>2, <2>3 DEF TypeOK, jniVars, setVars
<1>3. ASSUME EventStep \/ IoEnds \/ TimerTicks PROVE TypeOK'
  <2>1. InSet \subseteq Sessions
    BY DEF InSet, TypeOK
  <2>2. QED
    BY <1>3, <2>1 DEF EventStep, EventReads, EventJoinsIo, EventJoinsTimer, IoEnds,
                      TimerTicks, TypeOK, jniVars, setVars
<1>4. ASSUME NEW s \in Sessions, Accept(s) PROVE TypeOK'
  <2>1. session_count' \in Nat
    BY <1>4 DEF Accept, Insert, TypeOK
  <2>2. QED
    BY <1>4, <2>1, AcceptTracks DEF Accept, TypeOK, Live, jniVars
<1>5. ASSUME NEW s \in Sessions, Splice(s) PROVE TypeOK'
  BY <1>5, SpliceTracks DEF Splice, TypeOK, jniVars, taskVars
<1>6. ASSUME NEW s \in Sessions, SessionEnds(s) PROVE TypeOK'
  <2>1. session_set' \in Seq(Sessions) /\ session_count' = Len(session_set')
    BY <1>6, SessionEndsTracks
  <2>2. session_count' \in Nat
    BY <2>1
  <2>3. QED
    BY <1>6, <2>1, <2>2 DEF SessionEnds, SessionGoto, TypeOK, Live, jniVars, taskVars
<1>7. ASSUME NEW s \in Sessions,
             Connected(s) \/ HandshakeDone(s) \/ PcbLost(s) \/ Destruct(s)
      PROVE  TypeOK'
  BY <1>7 DEF Connected, HandshakeDone, PcbLost, Destruct, SessionGoto, TypeOK, Live,
              jniVars, taskVars
<1>8. CASE UNCHANGED vars
  BY <1>8 DEF vars, jniVars, taskVars, setVars, TypeOK
<1>9. QED
  BY <1>1, <1>2, <1>3, <1>4, <1>5, <1>6, <1>7, <1>8 DEF Next, SessionStep, SessionCloses

(* Tasks and sessions leave the callers, the mutex and the threads alone.  *)
LEMMA InnerSteps ==
  ASSUME EventStep \/ IoEnds \/ TimerTicks \/ \E s \in Sessions : Accept(s) \/ SessionStep(s)
  PROVE  UNCHANGED <<jniVars, main>>
BY DEF EventStep, EventReads, EventJoinsIo, EventJoinsTimer, IoEnds, TimerTicks, Accept,
       SessionStep, Connected, HandshakeDone, Splice, PcbLost, SessionCloses, SessionEnds,
       Destruct, taskVars, setVars

(* The mutex has one holder and is_working covers the life of the thread.  *)
LEMMA ControlKept ==
  HInv /\ [Next]_vars => MutexHeld' /\ StopIsOfWorking' /\ LastThreadWorks'
<1> SUFFICES ASSUME HInv, [Next]_vars
             PROVE  MutexHeld' /\ StopIsOfWorking' /\ LastThreadWorks'
  OBVIOUS
<1> TypeOK /\ MutexHeld /\ StopIsOfWorking /\ LastThreadWorks
  BY DEF HInv
<1>1. ASSUME NEW c \in Callers, StartService(c)
      PROVE  MutexHeld' /\ StopIsOfWorking' /\ LastThreadWorks'
  <2>1. MutexHeld' /\ StopIsOfWorking'
    BY <1>1 DEF StartService, MutexHeld, StopIsOfWorking
  <2>2. threads + 1 \in Threads /\ threads \in Nat
    BY <1>1 DEF StartService, TypeOK, Threads
  <2>3. main' = [main EXCEPT ![threads + 1] = "init"] /\ threads' = threads + 1
        /\ is_working' /\ ~is_working
    BY <1>1 DEF StartService, MainGoto
  <2>4. LastThreadWorks'
    BY <2>2, <2>3 DEF LastThreadWorks, TypeOK, Threads
  <2>5. QED
    BY <2>1, <2>4
<1>2. ASSUME NEW c \in Callers, StopService(c) \/ StopReadsFd(c) \/ StopWrites(c)
      PROVE  MutexHeld' /\ StopIsOfWorking' /\ LastThreadWorks'
  <2>1. MutexHeld'
    BY <1>2 DEF StopService, StopReadsFd, StopWrites, Goto, MutexHeld, TypeOK
  <2>2. StopIsOfWorking' /\ LastThreadWorks'
    BY <1>2 DEF StopService, StopReadsFd, StopWrites, StopIsOfWorking, LastThreadWorks
  <2>3. QED
    BY <2>1, <2>2
<1>3. ASSUME NEW c \in Callers, StopJoins(c)
      PROVE  MutexHeld' /\ StopIsOfWorking' /\ LastThreadWorks'
  <2>1. MutexHeld' /\ StopIsOfWorking'
    BY <1>3 DEF StopJoins, Goto, MutexHeld, StopIsOfWorking, TypeOK
  <2>2. \A n \in Threads : main[n] \in {"none", "exited"}
    BY <1>3 DEF StopJoins, LastThreadWorks
  <2>3. LastThreadWorks'
    BY <1>3, <2>2 DEF StopJoins, LastThreadWorks
  <2>4. QED
    BY <2>1, <2>3
<1>4. ASSUME NEW n \in Threads, MainStep(n)
      PROVE  MutexHeld' /\ StopIsOfWorking' /\ LastThreadWorks'
  <2>1. /\ UNCHANGED jniVars
        /\ main[n] \in {"init", "tasks", "running"}
        /\ \E step \in {"tasks", "running", "exited"} : main' = [main EXCEPT ![n] = step]
    BY <1>4 DEF MainStep, MainFails, OpenEventFds, InitFails, TasksStart, TasksEnd, MainGoto
  <2>2. MutexHeld' /\ StopIsOfWorking'
    BY <2>1 DEF jniVars, MutexHeld, StopIsOfWorking
  <2>3. LastThreadWorks'
    BY <2>1 DEF jniVars, LastThreadWorks, TypeOK
  <2>4. QED
    BY <2>2, <2>3
<1>5. CASE UNCHANGED <<jniVars, main>>
  BY <1>5 DEF jniVars, MutexHeld, StopIsOfWorking, LastThreadWorks
<1>6. QED
  BY <1>1, <1>2, <1>3, <1>4, <1>5, InnerSteps DEF Next, StopStep, vars

(* No task is left when the scheduler has returned.                        *)
LEMMA TasksKept == HInv /\ [Next]_vars => TasksOfRun'
<1> SUFFICES ASSUME HInv, [Next]_vars PROVE TasksOfRun'
  OBVIOUS
<1> TypeOK /\ TasksOfRun
  BY DEF HInv
<1>1. ASSUME NEW c \in Callers, StartService(c) \/ StopService(c) \/ StopStep(c)
      PROVE  TasksOfRun'
  <2>1. event' = event /\ io' = io /\ session' = session
    BY <1>1 DEF StartService, StopService, StopStep, StopReadsFd, StopWrites, StopJoins,
                taskVars, setVars
  <2>2. Running => Running'
    <3> SUFFICES ASSUME NEW m \in Threads, main[m] = "running" PROVE main'[m] = "running"
      BY DEF Running
    <3>1. CASE StartService(c)
      <4>1. main[threads + 1] = "none"
        BY <3>1 DEF StartService, HInv, LastThreadWorks, TypeOK, Threads
      <4>2. QED
        BY <3>1, <4>1 DEF StartService, MainGoto, TypeOK
    <3>2. CASE StopService(c) \/ StopStep(c)
      BY <3>2 DEF StopService, StopStep, StopReadsFd, StopWrites, StopJoins
    <3>3. QED
      BY <1>1, <3>1, <3>2
  <2>3. QED
    BY <2>1, <2>2 DEF TasksOfRun
<1>2. ASSUME NEW n \in Threads, MainFails(n) \/ OpenEventFds(n) \/ InitFails(n)
      PROVE  TasksOfRun'
  <2>1. event' = event /\ io' = io /\ session' = session
    BY <1>2 DEF MainFails, OpenEventFds, InitFails, taskVars, setVars
  <2>2. /\ main[n] # "running"
        /\ \E step \in {"tasks", "exited"} : main' = [main EXCEPT ![n] = step]
    BY <1>2 DEF MainFails, OpenEventFds, InitFails, MainGoto
  <2>3. Running => Running'
    BY <2>2 DEF Running, TypeOK
  <2>4. QED
    BY <2>1, <2>3 DEF TasksOfRun
<1>3. ASSUME NEW n \in Threads, TasksStart(n) PROVE TasksOfRun'
  <2>1. main'[n] = "running"
    BY <1>3 DEF TasksStart, MainGoto, TypeOK
  <2>2. QED
    BY <2>1 DEF TasksOfRun, Running
<1>4. ASSUME NEW n \in Threads, TasksEnd(n) PROVE TasksOfRun'
  BY <1>4 DEF TasksEnd, TasksOfRun, taskVars, setVars
<1>5. ASSUME EventStep \/ IoEnds \/ TimerTicks PROVE TasksOfRun'
  <2>1. main' = main /\ session' = session
    BY <1>5 DEF EventStep, EventReads, EventJoinsIo, EventJoinsTimer, IoEnds, TimerTicks,
                setVars
  <2>2. Running \/ (event' = event /\ io' = io)
    <3>1. CASE EventStep \/ IoEnds
      <4>1. event # "done" \/ io # "done"
        BY <3>1 DEF EventStep, EventReads, EventJoinsIo, EventJoinsTimer, IoEnds
      <4>2. QED
        BY <4>1 DEF TasksOfRun
    <3>2. CASE TimerTicks
      BY <3>2 DEF TimerTicks
    <3>3. QED
      BY <1>5, <3>1, <3>2
  <2>3. QED
    BY <2>1, <2>2 DEF TasksOfRun, Running
<1>6. ASSUME NEW s \in Sessions, Accept(s) \/ SessionStep(s) PROVE TasksOfRun'
  <2>1. main' = main
    BY <1>6, InnerSteps
  <2>2. io = "reading" \/ session[s] # "none"
    BY <1>6 DEF Accept, SessionStep, Connected, HandshakeDone, Splice, PcbLost,
                SessionCloses, SessionEnds, Destruct
  <2>3. Running
    BY <2>2 DEF TasksOfRun
  <2>4. QED
    BY <2>1, <2>3 DEF TasksOfRun, Running
<1>7. CASE UNCHANGED vars
  BY <1>7 DEF vars, taskVars, setVars, TasksOfRun, Running
<1>8. QED
  BY <1>1, <1>2, <1>3, <1>4, <1>5, <1>6, <1>7 DEF Next, MainStep

Listed ==
  /\ session_count = Len(session_set)
  /\ Distinct(session_set)
  /\ InSet = {s \in Sessions : session[s] \in Live}

(* The set is the sessions that have not ended.  That it is empty outside  *)
(* of a run follows from TasksOfRun.                                       *)
LEMMA SessionsKept == HInv /\ [Next]_vars => SessionsTracked'
<1> SUFFICES ASSUME HInv, [Next]_vars PROVE SessionsTracked'
  OBVIOUS
<1>1. Listed
  BY ListOfLive DEF Listed
<1>2. ASSUME NEW c \in Callers, StartService(c) \/ StopService(c) \/ StopStep(c)
      PROVE  Listed'
  <2>1. UNCHANGED setVars
    BY <1>2 DEF StartService, StopService, StopStep, StopReadsFd, StopWrites, StopJoins
  <2>2. QED
    BY <1>1, <2>1 DEF setVars, Listed, Distinct, InSet
<1>3. ASSUME NEW n \in Threads, MainStep(n) PROVE Listed'
  <2>1. UNCHANGED setVars
    BY <1>3 DEF MainStep, MainFails, OpenEventFds, InitFails, TasksStart, TasksEnd
  <2>2. QED
    BY <1>1, <2>1 DEF setVars, Listed, Distinct, InSet
<1>4. ASSUME EventStep \/ IoEnds \/ TimerTicks PROVE Listed'
  <2>1. UNCHANGED <<session, session_set, session_count>>
    BY <1>4 DEF EventStep, EventReads, EventJoinsIo, EventJoinsTimer, IoEnds, TimerTicks,
                setVars
  <2>2. QED
    BY <1>1, <2>1 DEF Listed, Distinct, InSet
<1>5. ASSUME NEW s \in Sessions, Accept(s) \/ Splice(s) \/ SessionEnds(s) PROVE Listed'
  BY <1>5, AcceptTracks, SpliceTracks, SessionEndsTracks DEF Listed, Distinct
<1>6. ASSUME NEW s \in Sessions,
             Connected(s) \/ HandshakeDone(s) \/ PcbLost(s) \/ Destruct(s)
      PROVE  Listed'
  <2>1. UNCHANGED <<session_set, session_count>>
    BY <1>6 DEF Connected, HandshakeDone, PcbLost, Destruct
  <2>2. \A r \in Sessions : session'[r] \in Live <=> session[r] \in Live
    BY <1>6, ListOfLive DEF Connected, HandshakeDone, PcbLost, Destruct, SessionGoto, Live
  <2>3. QED
    BY <1>1, <2>1, <2>2 DEF Listed, Distinct, InSet
<1>7. ASSUME UNCHANGED vars PROVE Listed'
  <2>1. UNCHANGED <<session, session_set, session_count>>
    BY <1>7 DEF vars, setVars
  <2>2. QED
    BY <1>1, <2>1 DEF Listed, Distinct, InSet
<1>8. Listed'
  <2>1. CASE UNCHANGED vars
    BY <1>7, <2>1
  <2>2. CASE Next
    BY <1>2, <1>3, <1>4, <1>5, <1>6, <2>2 DEF Next, SessionStep, SessionCloses
  <2>3. QED
    BY <2>1, <2>2
<1>9. (\A n \in Threads : main'[n] # "running") => session_set' = <<>>
  <2> SUFFICES ASSUME \A n \in Threads : main'[n] # "running" PROVE session_set' = <<>>
    OBVIOUS
  <2>1. \A r \in Sessions : session'[r] = "none"
    BY TasksKept DEF TasksOfRun, Running
  <2>2. {session_set'[k] : k \in 1 .. Len(session_set')} = {}
    BY <1>8, <2>1 DEF Listed, InSet, Live
  <2>3. session_set' \in Seq(Sessions)
    BY TypeKept DEF TypeOK
  <2>4. Len(session_set') = 0
    <3> SUFFICES ASSUME Len(session_set') # 0 PROVE FALSE
      OBVIOUS
    <3>1. 1 \in 1 .. Len(session_set')
      BY <2>3
    <3>2. QED
      BY <2>2, <3>1, Zenon
  <2>5. QED
    BY <2>3, <2>4
<1>10. QED
  BY <1>8, <1>9 DEF SessionsTracked, Listed, Distinct, InSet

(* A list that was empty stays empty unless a session is accepted, and     *)
(* then the timer is woken; a timer that is ready looks at the list first. *)
LEMMA TimerKept == HInv /\ [Next]_vars => TimerServesSessions'
<1> SUFFICES ASSUME HInv, [Next]_vars PROVE TimerServesSessions'
  OBVIOUS
<1> TypeOK /\ TimerServesSessions
  BY DEF HInv
<1>1. ASSUME NEW c \in Callers, StartService(c) \/ StopService(c) \/ StopStep(c)
      PROVE  TimerServesSessions'
  <2>1. UNCHANGED <<taskVars, setVars>>
    BY <1>1 DEF StartService, StopService, StopStep, StopReadsFd, StopWrites, StopJoins
  <2>2. QED
    BY <2>1 DEF taskVars, setVars, TimerServesSessions
<1>2. ASSUME NEW n \in Threads, MainStep(n) PROVE TimerServesSessions'
  <2>1. CASE TasksStart(n)
    BY <2>1 DEF TasksStart, TimerServesSessions
  <2>2. CASE MainFails(n) \/ OpenEventFds(n) \/ InitFails(n) \/ TasksEnd(n)
    BY <2>2 DEF MainFails, OpenEventFds, InitFails, TasksEnd, taskVars, setVars,
                TimerServesSessions
  <2>3. QED
    BY <1>2, <2>1, <2>2 DEF MainStep
<1>3. ASSUME EventStep \/ IoEnds PROVE TimerServesSessions'
  <2>1. session_set' = session_set /\ (run' = run \/ ~run')
    BY <1>3 DEF EventStep, EventReads, EventJoinsIo, EventJoinsTimer, IoEnds, setVars
  <2>2. timer' = timer \/ timer' = "ready"
    BY <1>3 DEF EventStep, EventReads, EventJoinsIo, EventJoinsTimer, IoEnds
  <2>3. QED
    BY <2>1, <2>2 DEF TimerServesSessions
<1>4. CASE TimerTicks
  BY <1>4 DEF TimerTicks, setVars, TimerServesSessions
<1>5. ASSUME NEW s \in Sessions, Accept(s) PROVE TimerServesSessions'
  BY <1>5 DEF Accept, TimerServesSessions
<1>6. ASSUME NEW s \in Sessions, SessionStep(s) PROVE TimerServesSessions'
  <2>1. UNCHANGED taskVars
    BY <1>6 DEF SessionStep, Connected, HandshakeDone, Splice, PcbLost, SessionCloses,
                SessionEnds, Destruct
  <2>2. session_set' # <<>> => session_set # <<>>
    BY <1>6, SpliceTracks, SessionEndsTracks
       DEF SessionStep, Connected, HandshakeDone, PcbLost, SessionCloses, Destruct
  <2>3. QED
    BY <2>1, <2>2 DEF taskVars, TimerServesSessions
<1>7. CASE UNCHANGED vars
  BY <1>7 DEF vars, taskVars, setVars, TimerServesSessions
<1>8. QED
  BY <1>1, <1>2, <1>3, <1>4, <1>5, <1>6, <1>7 DEF Next

-----------------------------------------------------------------------------

LEMMA HInit == Init => HInv
<1> SUFFICES ASSUME Init PROVE HInv
  OBVIOUS
<1>1. TypeOK
  <2>1. threads \in 0 .. MaxStarts /\ session_count \in Nat
    BY DEF Init
  <2>2. session_set \in Seq(Sessions) /\ terminated \subseteq Sessions
    BY DEF Init
  <2>3. /\ call \in [Callers -> {"idle", "waitFd", "write", "join", "aborted"}]
        /\ main \in [Threads -> {"none", "init", "tasks", "running", "exited"}]
        /\ session \in [Sessions -> Live \cup {"none", "destruct"}]
    BY DEF Init
  <2>4. QED
    BY <2>1, <2>2, <2>3 DEF Init, TypeOK
<1>2. MutexHeld /\ StopIsOfWorking /\ LastThreadWorks
  BY DEF Init, MutexHeld, StopIsOfWorking, LastThreadWorks
<1>3. TasksOfRun /\ TimerServesSessions
  BY DEF Init, TasksOfRun, TimerServesSessions
<1>4. SessionsTracked
  BY DEF Init, SessionsTracked, InSet, Live
<1>5. QED
  BY <1>1, <1>2, <1>3, <1>4 DEF HInv

(* The inductive invariant holds in every state: what the callers, the     *)
(* thread and its tasks do to the statics, in any order.                   *)
THEOREM TunnelInvariant == Spec => []HInv
<1>1. HInv /\ [Next]_vars => HInv'
  BY TypeKept, ControlKept, TasksKept, SessionsKept, TimerKept DEF HInv
<1>2. QED
  BY HInit, <1>1, PTL DEF Spec

(* Types; a session is taken off session_count once.                       *)
THEOREM TunnelTypeCorrect == Spec => []TypeOK
<1>1. HInv => TypeOK
  BY DEF HInv
<1>2. QED
  BY TunnelInvariant, <1>1, PTL

(* A start never finds a thread that still runs hev_socks5_tunnel_main.    *)
THEOREM OneTunnelAtATime == Spec => []OneTunnel
<1>1. HInv => OneTunnel
  BY DEF HInv, LastThreadWorks, OneTunnel
<1>2. QED
  BY TunnelInvariant, <1>1, PTL

(* session_set and session_count follow the sessions through insertions,   *)
(* moves and deletions, and are empty between two runs.                    *)
THEOREM SetTracksSessions == Spec => []SessionsTracked
<1>1. HInv => SessionsTracked
  BY DEF HInv
<1>2. QED
  BY TunnelInvariant, <1>1, PTL

(* The lwIP timer is awake whenever there is a session to retransmit for.  *)
THEOREM TimerIsAwake == Spec => []TimerServesSessions
<1>1. HInv => TimerServesSessions
  BY DEF HInv
<1>2. QED
  BY TunnelInvariant, <1>1, PTL
=============================================================================
