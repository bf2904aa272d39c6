----------------------- MODULE PersistentManagerSerial -----------------------
(* One worker at a time and no faults: whatever usual files an earlier run *)
(* left, at most one manager is ever alive.  Parallel workers do not have  *)
(* this (the run pm_cold_race).                                            *)
EXTENDS PersistentManagerProofs

Active(w) == pc[w] \notin Finished \cup {"idle"}

\* A manager on its way into service, known only to the worker that spawned it
Arriving(m) ==
    \E w \in own :
        /\ cand[w] = m
        /\ pc[w] \in {"wait", "open", "write"}
        /\ life[m] = "starting" => pc[w] = "wait" /\ sock = None
        /\ life[m] # "starting" => sock = m
        /\ meta = IF pc[w] = "write" THEN Torn ELSE None

\* A manager the next worker will find and keep
InService(m) ==
    /\ sock = m /\ meta = m /\ life[m] # "starting"
    /\ \A w \in Worker :
        /\ pc[w] \notin SpawnPoints \cup {"rmSock", "rmMeta"}
        /\ pc[w] \in {"dial", "proxy"} => cand[w] = m

\* The strengthening of OneLiveManager: each live manager is arriving, with its
\* only worker, or in service; and nothing is at the path while none is alive and
\* a worker is about to spawn.
SerialInv ==
    /\ \A v, w \in Worker : Active(v) /\ Active(w) => v = w
    /\ \A m \in Manager : Live(m) => Arriving(m) \/ InService(m)
    /\ \A w \in own : pc[w] \in {"wait", "open", "write"} => Live(cand[w])
    /\ \A w \in Worker : pc[w] \in {"sweepMeta", "launch"} => sock = None
    /\ \A w \in Worker : pc[w] = "launch" => meta = None
    /\ "playbook" \notin running => \A w \in Worker : pc[w] \in Finished

Tidy == Leftover \subseteq {"clean", "stale", "served", "nosock"}

LEMMA InitSerialInv == ASSUME Tidy PROVE Init => SerialInv
BY ConstantsAssumption
   DEF Tidy, Init, Found, SerialInv, Active, Live, InService, Finished, SpawnPoints, Listening

LEMMA SerialImpliesOne == TypeOK /\ SerialInv => OneLiveManager
<1> SUFFICES ASSUME TypeOK, SerialInv, NEW m \in Manager, NEW n \in Manager, Live(m), Live(n)
             PROVE  m = n
  BY DEF OneLiveManager
<1>1. CASE InService(m) /\ InService(n)
  BY <1>1 DEF InService
<1>2. CASE Arriving(m) /\ Arriving(n)
  BY <1>2 DEF Arriving, SerialInv, Active, TypeOK, Finished
<1>3. ~(InService(m) /\ Arriving(n)) /\ ~(InService(n) /\ Arriving(m))
  BY DEF InService, Arriving, SpawnPoints, TypeOK
<1> QED
  BY <1>1, <1>2, <1>3 DEF SerialInv

\* A worker step, by the states of the managers it meets
LEMMA WorkerSerialInv ==
    ASSUME Faults = {}, Serial, TypeOK, CalmInv, LockInv, SerialInv,
           NEW w \in Worker, Begin(w) \/ WorkerStep(w) \/ Kill(w)
    PROVE  SerialInv'
<1>1. \A v \in Worker : v # w => ~Active(v) /\ pc'[v] = pc[v]
  <2>1. \A v \in Worker : v # w => ~Active(v)
    BY DEF SerialInv, Active, Finished, Begin, WorkerStep, Kill, Peek, Probe, ReadMeta, Dial,
           GetProxy, UnlinkSock, UnlinkMeta, Flock, Launch, AwaitSocket, OpenMeta, WriteMeta,
           FirstCall
  <2>2. \A v \in Worker : v # w => pc'[v] = pc[v]
    <3> USE DEF Goto, TypeOK
    <3>1. \A point : Quit(w, point) => \A v \in Worker : v # w => pc'[v] = pc[v]
      BY DEF Quit
    <3>2. NoReuse(w) => \A v \in Worker : v # w => pc'[v] = pc[v]
      BY DEF NoReuse
    <3>3. ConnectFailed(w) => \A v \in Worker : v # w => pc'[v] = pc[v]
      BY <3>1 DEF ConnectFailed
    <3>4. CASE Begin(w) \/ Peek(w) \/ Probe(w) \/ ReadMeta(w) \/ Kill(w)
      BY <3>1, <3>2, <3>4 DEF Begin, Peek, Probe, ReadMeta, Kill
    <3>5. CASE Dial(w) \/ GetProxy(w) \/ UnlinkSock(w) \/ UnlinkMeta(w) \/ Flock(w)
      BY <3>2, <3>3, <3>5 DEF Dial, GetProxy, UnlinkSock, UnlinkMeta, Flock
    <3>6. CASE Launch(w) \/ AwaitSocket(w) \/ OpenMeta(w) \/ WriteMeta(w) \/ FirstCall(w)
      BY <3>1, <3>6 DEF Launch, AwaitSocket, OpenMeta, WriteMeta, FirstCall
    <3> QED
      BY <3>4, <3>5, <3>6 DEF WorkerStep
  <2> QED
    BY <2>1, <2>2
<1>2. own \subseteq {w}
  BY <1>1 DEF LockInv, Active, Finished, TypeOK
<1> USE ConstantsAssumption, <1>1, <1>2
    DEF TypeOK, SerialInv, Active, Finished, SpawnPoints, Live, Listening, Arriving, InService,
        Goto, NoReuse, Unlock, Quit, ConnectFailed, fileVars, managerVars
<1>3. CASE Begin(w)
  BY <1>3 DEF Begin, LockInv
<1>4. CASE Peek(w)
  BY <1>4 DEF Peek, LockInv
<1>5. CASE Probe(w)
  BY <1>5 DEF Probe, IsSocketStale, PidExists, LockInv
<1>6. CASE ReadMeta(w)
  BY <1>6 DEF ReadMeta, LockInv
<1>7. CASE Dial(w)
  BY <1>7 DEF Dial, Reaches, LockInv
<1>8. CASE GetProxy(w)
  BY <1>8 DEF GetProxy, Reaches, LockInv, CalmInv
<1>9. CASE UnlinkSock(w)
  BY <1>9 DEF UnlinkSock, LockInv
<1>10. CASE UnlinkMeta(w)
  BY <1>10 DEF UnlinkMeta, LockInv
<1>11. CASE Flock(w)
  BY <1>11 DEF Flock, LockInv
<1>12. CASE Launch(w)
  BY <1>12 DEF Launch, LockInv
<1>13. CASE AwaitSocket(w)
  BY <1>13 DEF AwaitSocket, LockInv
<1>14. CASE OpenMeta(w)
  BY <1>14 DEF OpenMeta, LockInv
<1>15. CASE WriteMeta(w)
  BY <1>15 DEF WriteMeta, LockInv
<1>16. CASE FirstCall(w)
  BY <1>16 DEF FirstCall, LockInv
<1>17. ~Kill(w)
  BY DEF Kill
<1> QED
  BY <1>3, <1>4, <1>5, <1>6, <1>7, <1>8, <1>9, <1>10, <1>11, <1>12, <1>13, <1>14, <1>15,
     <1>16, <1>17 DEF WorkerStep

LEMMA ManagerSerialInv ==
    ASSUME Faults = {}, TypeOK, CalmInv, LockInv, SerialInv,
           NEW n \in Manager, ManagerStep(n) \/ IdleShutdown(n) \/ Sigterm(n) \/ SigtermAgain(n)
    PROVE  SerialInv'
<1> USE ConstantsAssumption, ManagerKeepsWorkers
    DEF TypeOK, SerialInv, Active, Finished, SpawnPoints, Live, Listening, Arriving, InService,
        Become, workerVars, fileVars
<1>1. CASE Bind(n)
  BY <1>1 DEF Bind, LockInv
<1>2. CASE InitService(n)
  BY <1>2 DEF InitService
<1>3. CASE Watchdog(n)
  BY <1>3 DEF Watchdog, CalmInv, Owner, LockInv
<1>4. ~(\/ IdleShutdown(n) \/ Sigterm(n) \/ SigtermAgain(n) \/ IdleUnlinkSock(n) \/ IdleExit(n) \/ SigtermExit(n))
  BY DEF CalmInv, IdleShutdown, Sigterm, SigtermAgain, IdleUnlinkSock, IdleExit, SigtermExit
<1> QED
  BY <1>1, <1>2, <1>3, <1>4 DEF ManagerStep

LEMMA NextSerialInv ==
    ASSUME Faults = {}, Serial
    PROVE  TypeOK /\ CalmInv /\ LockInv /\ SerialInv /\ [Next]_vars => SerialInv'
<1> SUFFICES ASSUME TypeOK, CalmInv, LockInv, SerialInv, [Next]_vars PROVE SerialInv'
  OBVIOUS
<1>1. ASSUME NEW w \in Worker, Begin(w) \/ WorkerStep(w) \/ Kill(w) PROVE SerialInv'
  BY <1>1, WorkerSerialInv
<1>2. ASSUME NEW n \in Manager, ManagerStep(n) \/ IdleShutdown(n) \/ Sigterm(n) \/ SigtermAgain(n)
      PROVE  SerialInv'
  BY <1>2, ManagerSerialInv
<1>3. ASSUME NEW o \in Owner, OwnerExit(o) PROVE SerialInv'
  BY <1>3 DEF OwnerExit, SerialInv, Active, Live, Arriving, InService, workerVars, fileVars,
              managerVars
<1>4. CASE UNCHANGED vars
  BY <1>4 DEF vars, SerialInv, Active, Live, Arriving, InService
<1> QED
  BY <1>1, <1>2, <1>3, <1>4 DEF Next

\* Run one at a time and without faults, the workers of a playbook share one manager,
\* whatever an earlier run left of its own (http.py, both checks and the spawn).
THEOREM OneManagerWhenSerial ==
    ASSUME Faults = {}, Serial, Tidy
    PROVE  Spec => []OneLiveManager
<1>1. Spec => []CalmInv
  BY InitCalmInv, NextCalmInv, TypeCorrect, PTL DEF Spec
<1>2. Spec => []SerialInv
  BY <1>1, InitSerialInv, NextSerialInv, LockInvariant, PTL DEF Spec
<1> QED
  BY <1>2, SerialImpliesOne, TypeCorrect, PTL
-----------------------------------------------------------------------------
(* No task fails, and the promise of ManagerService is kept.  An attached  *)
(* worker is the only active one, so nothing takes its manager from it.    *)

ServedInv ==
    \A w \in Worker :
        /\ pc[w] \notin {"failed", "killed"}
        /\ pc[w] \in {"attached", "done"} => cand[w] \in Manager
        /\ pc[w] = "attached" =>
            Reaches(cand[w]) /\ life[cand[w]] = "ready" /\ meta = cand[w]

LEMMA InitServedInv == Init => ServedInv
BY DEF Init, ServedInv

\* The spawner of a manager that lost its socket would not be alone
LEMMA SpawnedIsReached ==
    ASSUME TypeOK, LockInv, SerialInv, RaceInv, NEW w \in own
    PROVE  /\ pc[w] = "wait" => sock # None \/ life[cand[w]] = "starting"
           /\ pc[w] \in {"dial", "proxy"} => Reaches(cand[w]) /\ meta = cand[w]
<1>1. CASE pc[w] = "attached"
  BY <1>1
<1>2. CASE pc[w] # "attached"
  <2>1. Active(w) /\ w \in Worker
    BY <1>2 DEF LockInv, Active, Finished, TypeOK
  <2>2. "playbook" \in running
    BY <2>1 DEF SerialInv, Active
  <2>3. \A u \in Worker : Active(u) => u = w
    BY <2>1 DEF SerialInv
  <2>4. pc[w] \notin {"rmMeta", "flock"}
    BY <1>2 DEF LockInv
  <2>5. ~Cleaning /\ ~Queued
    BY <2>3, <2>4 DEF Cleaning, Queued, Active, Finished
  <2> QED
    BY <1>2, <2>2, <2>5, ConstantsAssumption DEF RaceInv, SpawnInv, Reaches, Up, Listening
<1> QED
  BY <1>1, <1>2

LEMMA WorkerServedInv ==
    ASSUME Faults = {}, Serial, TypeOK, CalmInv, LockInv, SerialInv, RaceInv, ServedInv,
           NEW w \in Worker, Begin(w) \/ WorkerStep(w) \/ Kill(w)
    PROVE  ServedInv'
<1>1. \A v \in Worker : v # w => pc[v] \in Finished \cup {"idle"}
  BY DEF SerialInv, Active, Finished, Begin, WorkerStep, Kill, Peek, Probe, ReadMeta, Dial,
         GetProxy, UnlinkSock, UnlinkMeta, Flock, Launch, AwaitSocket, OpenMeta, WriteMeta,
         FirstCall
<1>2. w \in own => /\ pc[w] = "wait" => sock # None \/ life[cand[w]] = "starting"
                   /\ pc[w] \in {"dial", "proxy"} => Reaches(cand[w]) /\ meta = cand[w]
  BY SpawnedIsReached
<1> USE ConstantsAssumption, <1>1, <1>2
    DEF TypeOK, CalmInv, ServedInv, Finished, Goto, NoReuse, Unlock, Quit, ConnectFailed,
        fileVars, managerVars
<1>3. CASE Begin(w)
  BY <1>3 DEF Begin
<1>4. CASE Peek(w)
  BY <1>4 DEF Peek
<1>5. CASE Probe(w)
  BY <1>5 DEF Probe
<1>6. CASE ReadMeta(w)
  BY <1>6 DEF ReadMeta
<1>7. CASE Dial(w)
  BY <1>7 DEF Dial
<1>8. CASE GetProxy(w)
  <2>0. "playbook" \in running /\ pc[w] = "proxy"
    BY <1>8 DEF GetProxy, SerialInv
  <2>1. cand[w] \in Manager /\ (Reaches(cand[w]) => Live(cand[w]))
    BY <2>0 DEF Reaches, Live, Listening, RaceInv, StartInv, SpawnInv
  <2>2. Reaches(cand[w]) => meta = cand[w]
    BY <1>8, <2>1 DEF GetProxy, SerialInv, Arriving, InService, LockInv, Active
  <2> QED
    BY <1>8, <2>1, <2>2 DEF GetProxy, Reaches, Listening
<1>9. CASE UnlinkSock(w)
  BY <1>9 DEF UnlinkSock
<1>10. CASE UnlinkMeta(w)
  BY <1>10 DEF UnlinkMeta
<1>11. CASE Flock(w)
  BY <1>11 DEF Flock
<1>12. CASE Launch(w)
  BY <1>12 DEF Launch
<1>13. CASE AwaitSocket(w)
  BY <1>13 DEF AwaitSocket, LockInv
<1>14. CASE OpenMeta(w)
  BY <1>14 DEF OpenMeta
<1>15. CASE WriteMeta(w)
  BY <1>15 DEF WriteMeta
<1>16. CASE FirstCall(w)
  BY <1>16 DEF FirstCall
<1>17. ~Kill(w)
  BY DEF Kill
<1> QED
  BY <1>3, <1>4, <1>5, <1>6, <1>7, <1>8, <1>9, <1>10, <1>11, <1>12, <1>13, <1>14, <1>15,
     <1>16, <1>17 DEF WorkerStep

LEMMA ManagerServedInv ==
    ASSUME Faults = {}, TypeOK, CalmInv, SerialInv, ServedInv,
           NEW n \in Manager, ManagerStep(n) \/ IdleShutdown(n) \/ Sigterm(n) \/ SigtermAgain(n)
    PROVE  ServedInv'
<1>1. UNCHANGED workerVars
  BY ManagerKeepsWorkers
<1>2. ASSUME NEW w \in Worker, pc[w] = "attached"
      PROVE  sock' = sock /\ meta' = meta /\ life'[cand[w]] = life[cand[w]]
  <2>1. "playbook" \in running
    BY <1>2 DEF SerialInv, Finished
  <2>2. ~Watchdog(n)
    BY <2>1 DEF Watchdog, TypeOK, CalmInv, Owner
  <2>3. ~(\/ IdleShutdown(n) \/ Sigterm(n) \/ SigtermAgain(n) \/ IdleUnlinkSock(n) \/ IdleExit(n) \/ SigtermExit(n))
    BY DEF CalmInv, IdleShutdown, Sigterm, SigtermAgain, IdleUnlinkSock, IdleExit, SigtermExit
  <2> QED
    BY <1>2, <2>2, <2>3, ConstantsAssumption
       DEF TypeOK, ServedInv, Reaches, ManagerStep, Bind, InitService, Become, fileVars
<1> QED
  BY <1>1, <1>2 DEF ServedInv, Reaches, workerVars

LEMMA NextServedInv ==
    ASSUME Faults = {}, Serial
    PROVE  TypeOK /\ CalmInv /\ LockInv /\ SerialInv /\ RaceInv /\ ServedInv /\ [Next]_vars
           => ServedInv'
<1> SUFFICES ASSUME TypeOK, CalmInv, LockInv, SerialInv, RaceInv, ServedInv, [Next]_vars
             PROVE  ServedInv'
  OBVIOUS
<1>1. ASSUME NEW w \in Worker, Begin(w) \/ WorkerStep(w) \/ Kill(w) PROVE ServedInv'
  BY <1>1, WorkerServedInv
<1>2. ASSUME NEW n \in Manager, ManagerStep(n) \/ IdleShutdown(n) \/ Sigterm(n) \/ SigtermAgain(n)
      PROVE  ServedInv'
  BY <1>2, ManagerServedInv
<1>3. CASE \/ UNCHANGED vars
           \/ \E o \in Owner : OwnerExit(o)
  BY <1>3 DEF vars, OwnerExit, workerVars, fileVars, managerVars, ServedInv, Reaches
<1> QED
  BY <1>1, <1>2, <1>3 DEF Next

AllInv == TypeOK /\ CalmInv /\ LockInv /\ SerialInv /\ RaceInv /\ ServedInv

LEMMA AllInvariant ==
    ASSUME Faults = {}, Serial, Tidy
    PROVE  Spec => []AllInv
<1>1. Init => AllInv
  BY InitTypeOK, InitCalmInv, InitLockInv, InitSerialInv, InitRaceInv, InitServedInv DEF AllInv
<1>2. AllInv /\ [Next]_vars => AllInv'
  BY NextTypeOK, NextCalmInv, NextLockInv, NextSerialInv, NextRaceInv, NextServedInv DEF AllInv
<1> QED
  BY <1>1, <1>2, PTL DEF Spec

\* Run one at a time and without faults, every task gets its client and its first call
\* is answered, whatever an earlier run left of its own (http.py, _get_persistent_client).
THEOREM EveryTaskIsServed ==
    ASSUME Faults = {}, Serial, Tidy
    PROVE  Spec => []NoTaskFails
<1>1. AllInv => NoTaskFails
  BY DEF AllInv, ServedInv, NoTaskFails
<1> QED
  BY <1>1, AllInvariant, PTL

\* What the mapping of the refinement gives for the manager in service
Provider == IF sock = meta /\ sock # None /\ life[sock] \in {"bound", "ready"}
            THEN sock ELSE None
Client == [w \in Worker |-> IF pc[w] \in {"attached", "done"} THEN cand[w] ELSE None]
Served == {w \in Worker : pc[w] = "done"}

\* A step of one worker, as it appears to the others and to the service
LEMMA WorkerImplements ==
    ASSUME Faults = {}, Serial, AllInv, AllInv', NEW w \in Worker, Begin(w) \/ WorkerStep(w)
    PROVE  \/ UNCHANGED <<Provider, Client, Served>>
           \/ /\ \E m \in Manager : Provider = None /\ Provider' = m
              /\ UNCHANGED <<Client, Served>>
           \/ /\ Provider # None /\ Client[w] = None
              /\ Client' = [Client EXCEPT ![w] = Provider]
              /\ UNCHANGED <<Provider, Served>>
           \/ /\ Client[w] # None /\ Served' = Served \cup {w}
              /\ UNCHANGED <<Provider, Client>>
<1>1. TypeOK /\ CalmInv /\ LockInv /\ SerialInv /\ RaceInv /\ ServedInv /\ ServedInv' /\ TypeOK'
  BY DEF AllInv
<1>2. ASSUME UNCHANGED <<sock, meta, life>> PROVE UNCHANGED Provider
  BY <1>2 DEF Provider
<1>3. ASSUME NEW point, pc' = [pc EXCEPT ![w] = point],
             {point, pc[w]} \cap {"attached", "done"} = {},
             \A v \in Worker : v # w => cand'[v] = cand[v]
      PROVE  UNCHANGED <<Client, Served>>
  BY <1>1, <1>3 DEF TypeOK, Client, Served
<1>4. \A point : ~Quit(w, point) \/ point # "failed"
  BY <1>1 DEF Quit, Goto, ServedInv, TypeOK
<1> USE DEF Goto
<1>5. CASE Begin(w) \/ Peek(w) \/ Probe(w) \/ ReadMeta(w) \/ Flock(w)
  <2>1. UNCHANGED Provider
    BY <1>2, <1>5 DEF Begin, Peek, Probe, ReadMeta, Flock, fileVars, managerVars
  <2>2. UNCHANGED <<Client, Served>>
    BY <1>1, <1>3, <1>5 DEF Begin, Peek, Probe, ReadMeta, Flock, NoReuse, TypeOK
  <2> QED
    BY <2>1, <2>2
<1>6. CASE Dial(w)
  <2>1. UNCHANGED Provider
    BY <1>2, <1>6 DEF Dial, fileVars, managerVars
  <2>2. UNCHANGED <<Client, Served>>
    BY <1>3, <1>4, <1>6 DEF Dial, ConnectFailed
  <2> QED
    BY <2>1, <2>2
<1>7. CASE GetProxy(w)
  <2>1. UNCHANGED Provider
    BY <1>2, <1>7 DEF GetProxy, fileVars, managerVars
  <2>2. CASE ConnectFailed(w)
    BY <1>3, <1>4, <1>7, <2>1, <2>2 DEF GetProxy, ConnectFailed
  <2>3. CASE pc' = [pc EXCEPT ![w] = "attached"] /\ cand' = cand /\ Reaches(cand[w])
    <3>1. cand[w] \in Manager /\ meta = cand[w] /\ life[cand[w]] = "ready" /\ sock = cand[w]
      BY <1>1, <1>7, <2>3 DEF ServedInv, TypeOK, GetProxy, Reaches, fileVars, managerVars
    <3>2. Provider = cand[w]
      BY <3>1, ConstantsAssumption DEF Provider
    <3>3. Client[w] = None /\ Client' = [Client EXCEPT ![w] = Provider]
      BY <1>1, <1>7, <2>3, <3>2 DEF Client, GetProxy, TypeOK
    <3>4. UNCHANGED Served
      BY <1>1, <1>7, <2>3 DEF Served, GetProxy, TypeOK
    <3> QED
      BY <2>1, <3>1, <3>2, <3>3, <3>4, ConstantsAssumption
  <2> QED
    BY <1>7, <2>2, <2>3 DEF GetProxy
<1>8. CASE FirstCall(w)
  <2>1. UNCHANGED Provider
    BY <1>2, <1>8 DEF FirstCall, fileVars, managerVars
  <2>2. pc[w] = "attached" /\ pc' = [pc EXCEPT ![w] = "done"] /\ cand' = cand
    BY <1>4, <1>8 DEF FirstCall
  <2>3. UNCHANGED Client /\ Served' = Served \cup {w} /\ Client[w] = cand[w]
    BY <1>1, <2>2 DEF Client, Served, TypeOK
  <2>4. cand[w] # None
    BY <1>1, <2>2, ConstantsAssumption DEF ServedInv
  <2> QED
    BY <2>1, <2>3, <2>4
<1>9. CASE UnlinkSock(w) \/ UnlinkMeta(w) \/ OpenMeta(w) \/ WriteMeta(w)
  <2>1. UNCHANGED <<Client, Served>>
    BY <1>1, <1>3, <1>9 DEF UnlinkSock, UnlinkMeta, OpenMeta, WriteMeta, NoReuse, TypeOK
  <2>2. Provider = None
    <3>1. ASSUME NEW m \in Manager, sock = m, meta = m, Live(m) PROVE FALSE
      BY <1>1, <1>9, <3>1, ConstantsAssumption
         DEF SerialInv, Arriving, InService, UnlinkSock, UnlinkMeta, OpenMeta, WriteMeta,
             SpawnPoints
    <3> QED
      BY <1>1, <3>1 DEF Provider, Live, Listening, TypeOK
  <2>3. Provider' \in Manager \cup {None}
    BY <1>1 DEF Provider, TypeOK
  <2> QED
    BY <2>1, <2>2, <2>3
<1>10. CASE Launch(w)
  <2>1. UNCHANGED <<Client, Served>>
    BY <1>1, <1>3, <1>10 DEF Launch, Quit, TypeOK
  <2>2. UNCHANGED Provider
    <3>1. sock = None /\ sock' = None
      BY <1>1, <1>10 DEF SerialInv, Launch, fileVars
    <3> QED
      BY <3>1 DEF Provider
  <2> QED
    BY <2>1, <2>2
<1>11. CASE AwaitSocket(w)
  <2>1. UNCHANGED Provider
    BY <1>2, <1>11 DEF AwaitSocket, fileVars, managerVars
  <2>2. UNCHANGED <<Client, Served>>
    BY <1>3, <1>4, <1>11 DEF AwaitSocket
  <2> QED
    BY <2>1, <2>2
<1> QED
  BY <1>5, <1>6, <1>7, <1>8, <1>9, <1>10, <1>11 DEF WorkerStep

\* A manager enters service when it binds, and leaves it when every task was served
LEMMA ManagerImplements ==
    ASSUME Faults = {}, AllInv, NEW n \in Manager,
           ManagerStep(n) \/ IdleShutdown(n) \/ Sigterm(n) \/ SigtermAgain(n)
    PROVE  /\ UNCHANGED <<Client, Served>>
           /\ \/ UNCHANGED Provider
              \/ \E m \in Manager : Provider = None /\ Provider' = m
              \/ Served = Worker /\ Provider' = None
<1>1. TypeOK /\ CalmInv /\ SerialInv /\ ServedInv
  BY DEF AllInv
<1>2. UNCHANGED <<Client, Served>>
  BY ManagerKeepsWorkers DEF workerVars, Client, Served
<1>3. ~(\/ IdleShutdown(n) \/ Sigterm(n) \/ SigtermAgain(n) \/ IdleUnlinkSock(n) \/ IdleExit(n) \/ SigtermExit(n))
  BY <1>1 DEF CalmInv, IdleShutdown, Sigterm, SigtermAgain, IdleUnlinkSock, IdleExit, SigtermExit
<1>4. CASE Bind(n)
  BY <1>1, <1>2, <1>4, ConstantsAssumption DEF Bind, Become, Provider, TypeOK
<1>5. CASE InitService(n)
  BY <1>1, <1>2, <1>5 DEF InitService, Become, Provider, TypeOK, fileVars
<1>6. CASE Watchdog(n)
  <2>1. "playbook" \notin running
    BY <1>1, <1>6 DEF Watchdog, TypeOK, CalmInv, Owner
  <2>2. Served = Worker
    BY <1>1, <2>1 DEF SerialInv, ServedInv, Finished, Served
  <2>3. Provider' \in {Provider, None}
    BY <1>1, <1>6 DEF Watchdog, Become, Provider, TypeOK, fileVars
  <2> QED
    BY <1>2, <2>2, <2>3
<1> QED
  BY <1>3, <1>4, <1>5, <1>6 DEF ManagerStep

\* Run one at a time and without faults, the workers, managers and files of a playbook
\* together keep what ManagerService says of its steps: tasks attach to the one manager
\* in service and are served by it, none takes its place, and it goes when all are
\* served (http.py, _get_persistent_client; manager_process.py, _owner_watchdog).
THEOREM StepsImplementService ==
    ASSUME Faults = {}, Serial, Tidy
    PROVE  Spec => Service!Init /\ [][Service!Next]_(Service!vars)
<1>1. Init => Service!Init
  <2> SUFFICES ASSUME Init PROVE Service!Init
    OBVIOUS
  <2>1. TypeOK
    BY InitTypeOK
  <2> QED
    BY <2>1 DEF Init, Service!Init, TypeOK
<1>2. AllInv /\ AllInv' /\ [Next]_vars => [Service!Next]_(Service!vars)
  <2> SUFFICES ASSUME AllInv, AllInv', [Next]_vars PROVE [Service!Next]_(Service!vars)
    OBVIOUS
  <2>1. ASSUME NEW w \in Worker, Begin(w) \/ WorkerStep(w) PROVE [Service!Next]_(Service!vars)
    BY <2>1, WorkerImplements
       DEF Service!Next, Service!Provide, Service!Attach, Service!Serve, Service!vars, Provider,
           Client, Served
  <2>2. ASSUME NEW n \in Manager, ManagerStep(n) \/ IdleShutdown(n) \/ Sigterm(n) \/ SigtermAgain(n)
        PROVE  [Service!Next]_(Service!vars)
    BY <2>2, ManagerImplements
       DEF Service!Next, Service!Provide, Service!Retire, Service!vars, Provider, Client, Served
  <2>3. CASE \/ UNCHANGED vars
             \/ \E o \in Owner : OwnerExit(o)
    BY <2>3 DEF vars, OwnerExit, workerVars, fileVars, managerVars, Service!vars
  <2>4. \A w \in Worker : ~Kill(w)
    BY DEF Kill
  <2> QED
    BY <2>1, <2>2, <2>3, <2>4 DEF Next
<1> QED
  BY <1>1, <1>2, AllInvariant, PTL DEF Spec
=============================================================================
