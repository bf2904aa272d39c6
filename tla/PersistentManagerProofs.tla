----------------------- MODULE PersistentManagerProofs -----------------------
(* Theorems about PersistentManager, for every set of workers and managers, *)
(* every leftover and every combination of faults.                          *)
EXTENDS PersistentManager, TLAPS

LEMMA InitTypeOK == Init => TypeOK
BY ConstantsAssumption DEF Init, Found, TypeOK, PC, Owner, Life, Listening

LEMMA WorkerTypeOK ==
    ASSUME TypeOK, NEW w \in Worker, Begin(w) \/ WorkerStep(w) \/ Kill(w)
    PROVE  TypeOK'
<1> USE ConstantsAssumption DEF TypeOK, PC, Finished, SpawnPoints, Goto, NoReuse, Unlock, Quit,
                            ConnectFailed, fileVars, managerVars
<1>1. CASE Begin(w)
  BY <1>1 DEF Begin
<1>2. CASE Peek(w)
  BY <1>2 DEF Peek
<1>3. CASE Probe(w)
  BY <1>3 DEF Probe
<1>4. CASE ReadMeta(w)
  BY <1>4 DEF ReadMeta
<1>5. CASE Dial(w)
  BY <1>5 DEF Dial
<1>6. CASE GetProxy(w)
  BY <1>6 DEF GetProxy
<1>7. CASE UnlinkSock(w)
  BY <1>7 DEF UnlinkSock
<1>8. CASE UnlinkMeta(w)
  BY <1>8 DEF UnlinkMeta
<1>9. CASE Flock(w)
  BY <1>9 DEF Flock
<1>10. CASE Launch(w)
  BY <1>10 DEF Launch, Life, Owner
<1>11. CASE AwaitSocket(w)
  BY <1>11 DEF AwaitSocket
<1>12. CASE OpenMeta(w)
  BY <1>12 DEF OpenMeta
<1>13. CASE WriteMeta(w)
  BY <1>13 DEF WriteMeta
<1>14. CASE FirstCall(w)
  BY <1>14 DEF FirstCall
<1>15. CASE Kill(w)
  BY <1>15 DEF Kill
<1> QED
  BY <1>1, <1>2, <1>3, <1>4, <1>5, <1>6, <1>7, <1>8, <1>9, <1>10, <1>11, <1>12, <1>13,
     <1>14, <1>15 DEF WorkerStep

LEMMA ManagerTypeOK ==
    ASSUME TypeOK, NEW m \in Manager, ManagerStep(m) \/ IdleShutdown(m) \/ Sigterm(m) \/ SigtermAgain(m)
    PROVE  TypeOK'
<1> USE ConstantsAssumption DEF TypeOK, Life, Listening, Become, workerVars, fileVars
<1>1. CASE Bind(m)
  BY <1>1 DEF Bind
<1>2. CASE InitService(m)
  BY <1>2 DEF InitService
<1>3. CASE IdleShutdown(m)
  BY <1>3 DEF IdleShutdown
<1>4. CASE IdleUnlinkSock(m)
  BY <1>4 DEF IdleUnlinkSock
<1>5. CASE IdleExit(m)
  BY <1>5 DEF IdleExit
<1>6. CASE Sigterm(m)
  BY <1>6 DEF Sigterm
<1>7. CASE SigtermExit(m)
  BY <1>7 DEF SigtermExit
<1>8. CASE Watchdog(m)
  BY <1>8 DEF Watchdog
<1>9. CASE SigtermAgain(m)
  BY <1>9 DEF SigtermAgain
<1> QED
  BY <1>1, <1>2, <1>3, <1>4, <1>5, <1>6, <1>7, <1>8, <1>9 DEF ManagerStep

LEMMA NextTypeOK == TypeOK /\ [Next]_vars => TypeOK'
<1> SUFFICES ASSUME TypeOK, [Next]_vars PROVE TypeOK'
  OBVIOUS
<1>1. ASSUME NEW w \in Worker, Begin(w) \/ WorkerStep(w) \/ Kill(w) PROVE TypeOK'
  BY <1>1, WorkerTypeOK
<1>2. ASSUME NEW m \in Manager, ManagerStep(m) \/ IdleShutdown(m) \/ Sigterm(m) \/ SigtermAgain(m) PROVE TypeOK'
  BY <1>2, ManagerTypeOK
<1>3. ASSUME NEW o \in Owner, OwnerExit(o) PROVE TypeOK'
  BY <1>3 DEF OwnerExit, TypeOK, workerVars, fileVars, managerVars
<1>4. CASE UNCHANGED vars
  BY <1>4 DEF vars, TypeOK
<1> QED
  BY <1>1, <1>2, <1>3, <1>4 DEF Next

\* Every variable keeps its type, whatever fails (http.py, manager_process.py).
THEOREM TypeCorrect == Spec => []TypeOK
BY InitTypeOK, NextTypeOK, PTL DEF Spec

-----------------------------------------------------------------------------
(* The lock.  SpawnSerialized is not inductive: it follows from who holds  *)
(* the lock, and that needs to know where a worker can be once it has      *)
(* spawned a manager of its own.                                           *)

LockInv ==
    /\ \A w \in Worker : Spawning(w) => lock = w
    /\ \A w \in own : pc[w] \in {"wait", "open", "write", "dial", "proxy", "attached"}
    /\ \A w \in Worker : pc[w] \in {"wait", "open", "write"} => w \in own
    /\ LockHeldInside

LEMMA InitLockInv == Init => LockInv
BY ConstantsAssumption DEF Init, LockInv, LockHeldInside, Spawning, SpawnPoints

LEMMA WorkerLockInv ==
    ASSUME TypeOK, LockInv, NEW w \in Worker, Begin(w) \/ WorkerStep(w) \/ Kill(w)
    PROVE  LockInv'
<1> USE ConstantsAssumption DEF TypeOK, LockInv, LockHeldInside, Spawning, SpawnPoints, Finished,
                            Goto, NoReuse, Unlock, Quit, ConnectFailed, fileVars, managerVars
<1>1. CASE Begin(w)
  BY <1>1 DEF Begin
<1>2. CASE Peek(w)
  BY <1>2 DEF Peek
<1>3. CASE Probe(w)
  BY <1>3 DEF Probe
<1>4. CASE ReadMeta(w)
  BY <1>4 DEF ReadMeta
<1>5. CASE Dial(w)
  BY <1>5 DEF Dial
<1>6. CASE GetProxy(w)
  BY <1>6 DEF GetProxy
<1>7. CASE UnlinkSock(w)
  BY <1>7 DEF UnlinkSock
<1>8. CASE UnlinkMeta(w)
  BY <1>8 DEF UnlinkMeta
<1>9. CASE Flock(w)
  BY <1>9 DEF Flock
<1>10. CASE Launch(w)
  BY <1>10 DEF Launch
<1>11. CASE AwaitSocket(w)
  BY <1>11 DEF AwaitSocket
<1>12. CASE OpenMeta(w)
  BY <1>12 DEF OpenMeta
<1>13. CASE WriteMeta(w)
  BY <1>13 DEF WriteMeta
<1>14. CASE FirstCall(w)
  BY <1>14 DEF FirstCall
<1>15. CASE Kill(w)
  BY <1>15 DEF Kill
<1> QED
  BY <1>1, <1>2, <1>3, <1>4, <1>5, <1>6, <1>7, <1>8, <1>9, <1>10, <1>11, <1>12, <1>13,
     <1>14, <1>15 DEF WorkerStep

\* Managers and owners touch no worker variable
LEMMA ManagerKeepsWorkers ==
    ASSUME NEW m \in Manager, ManagerStep(m) \/ IdleShutdown(m) \/ Sigterm(m) \/ SigtermAgain(m)
    PROVE  UNCHANGED workerVars
BY DEF ManagerStep, Bind, InitService, IdleShutdown, IdleUnlinkSock, IdleExit, Sigterm, SigtermAgain,
       SigtermExit, Watchdog

LEMMA NextLockInv == TypeOK /\ LockInv /\ [Next]_vars => LockInv'
<1> SUFFICES ASSUME TypeOK, LockInv, [Next]_vars PROVE LockInv'
  OBVIOUS
<1>1. ASSUME NEW w \in Worker, Begin(w) \/ WorkerStep(w) \/ Kill(w) PROVE LockInv'
  BY <1>1, WorkerLockInv
<1>2. ASSUME UNCHANGED workerVars PROVE LockInv'
  BY <1>2 DEF workerVars, LockInv, LockHeldInside, Spawning
<1>3. ASSUME NEW m \in Manager, ManagerStep(m) \/ IdleShutdown(m) \/ Sigterm(m) \/ SigtermAgain(m) PROVE LockInv'
  BY <1>2, <1>3, ManagerKeepsWorkers
<1>4. ASSUME NEW o \in Owner, OwnerExit(o) PROVE LockInv'
  BY <1>2, <1>4 DEF OwnerExit
<1>5. CASE UNCHANGED vars
  BY <1>2, <1>5 DEF vars, workerVars
<1> QED
  BY <1>1, <1>3, <1>4, <1>5 DEF Next

LEMMA LockInvariant == Spec => [](TypeOK /\ LockInv)
BY TypeCorrect, InitLockInv, NextLockInv, PTL DEF Spec

\* No two workers are ever spawning, under any kills, exits and failures
\* (http.py, the locked spawn path).
THEOREM SpawnsNeverOverlap == Spec => []SpawnSerialized
<1>1. LockInv => SpawnSerialized
  BY DEF LockInv, SpawnSerialized
<1> QED
  BY <1>1, LockInvariant, PTL

\* The flock is never held by a worker that has left its call (http.py, finally).
THEOREM LockNeverLeaks == Spec => []LockHeldInside
<1>1. LockInv => LockHeldInside
  BY DEF LockInv
<1> QED
  BY <1>1, LockInvariant, PTL

-----------------------------------------------------------------------------
(* Without faults.  SettledForever needs to know that no manager is on its *)
(* way out and that only the playbook's own exit can end one.              *)

CalmInv ==
    /\ \A m \in Manager : life[m] \in {"unborn", "starting", "bound", "ready", "dead"}
    /\ {"other", "init"} \subseteq running

LEMMA InitCalmInv == Init => CalmInv
BY DEF Init, Found, CalmInv

LEMMA NextCalmInv ==
    ASSUME Faults = {}
    PROVE  TypeOK /\ CalmInv /\ [Next]_vars => CalmInv'
<1> SUFFICES ASSUME TypeOK, CalmInv, [Next]_vars PROVE CalmInv'
  OBVIOUS
<1> USE DEF TypeOK, CalmInv
<1>1. ASSUME NEW w \in Worker, Begin(w) \/ WorkerStep(w) \/ Kill(w) PROVE CalmInv'
  <2>1. running' = running /\ (life' = life \/ Launch(w))
    BY <1>1 DEF Begin, WorkerStep, Kill, Peek, Probe, ReadMeta, Dial, GetProxy, UnlinkSock,
                UnlinkMeta, Flock, Launch, AwaitSocket, OpenMeta, WriteMeta, FirstCall, managerVars
  <2> QED
    BY <2>1 DEF Launch, managerVars
<1>2. ASSUME NEW m \in Manager, ManagerStep(m) \/ IdleShutdown(m) \/ Sigterm(m) \/ SigtermAgain(m) PROVE CalmInv'
  BY <1>2 DEF ManagerStep, Bind, InitService, IdleShutdown, IdleUnlinkSock, IdleExit, Sigterm, SigtermAgain,
              SigtermExit, Watchdog, Become
<1>3. ASSUME NEW o \in Owner, OwnerExit(o) PROVE CalmInv'
  BY <1>3 DEF OwnerExit, managerVars
<1>4. CASE UNCHANGED vars
  BY <1>4 DEF vars
<1> QED
  BY <1>1, <1>2, <1>3, <1>4 DEF Next

LEMMA WorkerKeepsSettled ==
    ASSUME Faults = {}, TypeOK, NEW m \in Manager, Settled(m),
           NEW w \in Worker, Begin(w) \/ WorkerStep(w) \/ Kill(w)
    PROVE  Settled(m)'
<1> USE ConstantsAssumption DEF TypeOK, Settled, SpawnPoints, Finished, Listening, Goto, NoReuse,
                            Unlock, Quit, ConnectFailed, fileVars, managerVars
<1>1. CASE Begin(w)
  BY <1>1 DEF Begin
<1>2. CASE Peek(w) /\ lock # w
  BY <1>2 DEF Peek
<1>3. CASE Peek(w) /\ lock = w
  BY <1>3 DEF Peek
<1>4. CASE Probe(w)
  BY <1>4 DEF Probe, IsSocketStale, PidExists
<1>5. CASE ReadMeta(w)
  BY <1>5 DEF ReadMeta
<1>6. CASE Dial(w)
  BY <1>6 DEF Dial, Reaches
<1>7. CASE GetProxy(w)
  BY <1>7 DEF GetProxy, Reaches
<1>8. CASE Flock(w)
  BY <1>8 DEF Flock
<1>9. CASE FirstCall(w)
  BY <1>9 DEF FirstCall
<1>10. ~(\/ UnlinkSock(w) \/ UnlinkMeta(w) \/ Launch(w) \/ AwaitSocket(w) \/ OpenMeta(w)
         \/ WriteMeta(w) \/ Kill(w))
  BY DEF UnlinkSock, UnlinkMeta, Launch, AwaitSocket, OpenMeta, WriteMeta, Kill
<1> QED
  BY <1>1, <1>2, <1>3, <1>4, <1>5, <1>6, <1>7, <1>8, <1>9, <1>10 DEF WorkerStep

LEMMA ManagerKeepsSettled ==
    ASSUME Faults = {}, TypeOK, CalmInv, "playbook" \in running, NEW m \in Manager, Settled(m),
           NEW n \in Manager, ManagerStep(n) \/ IdleShutdown(n) \/ Sigterm(n) \/ SigtermAgain(n)
    PROVE  Settled(m)'
<1>1. running = Owner
  BY DEF TypeOK, CalmInv, Owner
<1>2. sock' = sock /\ meta' = meta /\ life'[m] = life[m]
  BY <1>1, ConstantsAssumption
     DEF TypeOK, CalmInv, Settled, ManagerStep, Bind, InitService, IdleShutdown, IdleUnlinkSock,
         IdleExit, Sigterm, SigtermAgain, SigtermExit, Watchdog, Become, fileVars
<1>3. UNCHANGED workerVars
  BY ManagerKeepsWorkers
<1> QED
  BY <1>2, <1>3 DEF Settled, workerVars

\* With no faults, a published and ready manager is reused by every later worker and
\* replaced by none, however many of them run in parallel (http.py, both checks).
THEOREM SettledStaysSettled ==
    ASSUME Faults = {}
    PROVE  Spec => SettledForever
<1>1. ASSUME TypeOK, CalmInv, [Next]_vars, NEW m \in Manager, Settled(m), "playbook" \in running
      PROVE  Settled(m)'
  <2>1. ASSUME NEW w \in Worker, Begin(w) \/ WorkerStep(w) \/ Kill(w) PROVE Settled(m)'
    BY <1>1, <2>1, WorkerKeepsSettled
  <2>2. ASSUME NEW n \in Manager, ManagerStep(n) \/ IdleShutdown(n) \/ Sigterm(n) \/ SigtermAgain(n)
        PROVE  Settled(m)'
    BY <1>1, <2>2, ManagerKeepsSettled
  <2>3. CASE \/ UNCHANGED vars
             \/ \E o \in Owner : OwnerExit(o)
    BY <1>1, <2>3 DEF vars, OwnerExit, workerVars, fileVars, managerVars, Settled
  <2> QED
    BY <1>1, <2>1, <2>2, <2>3 DEF Next
<1>2. TypeOK /\ CalmInv /\ [Next]_vars
      => [\A m \in Manager : Settled(m) /\ "playbook" \in running => Settled(m)']_vars
  BY <1>1
<1>3. Spec => []CalmInv
  BY InitCalmInv, NextCalmInv, TypeCorrect, PTL DEF Spec
<1> QED
  BY <1>2, <1>3, TypeCorrect, PTL DEF Spec, SettledForever
-----------------------------------------------------------------------------
(* Racing workers.  Without faults a spawned manager always gets the path, *)
(* because nothing is at it when its spawner launches it and nobody else   *)
(* can spawn; what may still be lost, to a worker that cleans up without   *)
(* the lock, is lost to one that has yet to take the lock and look again.  *)

Up(m) == life[m] \in {"bound", "ready"}
Born(m) == life[m] \in {"bound", "ready", "dead"}
Queued == \E u \in Worker : pc[u] = "flock"
Cleaning == \E u \in Worker : pc[u] \in {"rmMeta", "flock"}

\* A starting manager has the path to itself, and a spawner that waits for it
StartInv ==
    /\ \A m \in Manager : sock = m \/ meta = m => Born(m)
    /\ \A m \in Manager :
        life[m] = "starting" => sock = None /\ \E w \in own : cand[w] = m /\ pc[w] = "wait"
    /\ \A w \in Worker : pc[w] \in {"sweepMeta", "launch"} => sock = None
    /\ \A w \in Worker \ own :
        pc[w] \in {"dial", "proxy"} => cand[w] \in Manager /\ Born(cand[w])

\* A spawned manager that has lost a file has lost it to a worker that will look again
SpawnInv ==
    \A w \in own : pc[w] # "attached" =>
        /\ cand[w] \in Manager /\ sock \in {None, cand[w]}
        /\ Up(cand[w]) \/ (life[cand[w]] = "starting" /\ pc[w] = "wait")
        /\ sock = cand[w] \/ life[cand[w]] = "starting" \/ Cleaning
        /\ pc[w] = "write" => meta = Torn \/ Queued
        /\ pc[w] \in {"dial", "proxy"} => meta = cand[w] \/ Queued

RaceInv == "playbook" \in running => StartInv /\ SpawnInv

LEMMA InitRaceInv == Init => RaceInv
BY ConstantsAssumption DEF Init, Found, RaceInv, StartInv, SpawnInv, Born

LEMMA WorkerRaceInv ==
    ASSUME Faults = {}, TypeOK, CalmInv, LockInv, StartInv, SpawnInv,
           NEW w \in Worker, Begin(w) \/ WorkerStep(w) \/ Kill(w)
    PROVE  StartInv' /\ SpawnInv'
<1> USE ConstantsAssumption
    DEF TypeOK, LockInv, Spawning, SpawnPoints, StartInv, SpawnInv, Up, Born, Queued, Cleaning,
        Goto, NoReuse, Unlock, Quit, ConnectFailed, fileVars, managerVars
<1>0. \A v \in own : pc[v] # "attached" => lock = v
  OBVIOUS
<1>1. CASE Begin(w)
  BY <1>1 DEF Begin
<1>2. CASE Peek(w)
  BY <1>2 DEF Peek
<1>3. CASE Probe(w)
  BY <1>3 DEF Probe
<1>4. CASE ReadMeta(w)
  BY <1>4 DEF ReadMeta
<1>5. CASE Dial(w)
  BY <1>5 DEF Dial
<1>6. CASE GetProxy(w)
  BY <1>6 DEF GetProxy
<1>7. CASE UnlinkSock(w)
  BY <1>7 DEF UnlinkSock
<1>8. CASE UnlinkMeta(w)
  BY <1>8 DEF UnlinkMeta
<1>9. CASE Flock(w)
  BY <1>9 DEF Flock
<1>10. CASE Launch(w)
  <2>1. lock = w /\ sock = None /\ \A v \in own : pc[v] = "attached"
    BY <1>0, <1>10 DEF Launch
  <2>2. \A m \in Manager : life[m] # "starting"
    BY <2>1
  <2>3. PICK m \in Manager :
            /\ life[m] = "unborn" /\ life' = [life EXCEPT ![m] = "starting"]
            /\ own' = own \cup {w} /\ cand' = [cand EXCEPT ![w] = m]
            /\ pc' = [pc EXCEPT ![w] = "wait"]
            /\ UNCHANGED <<sock, meta>>
    BY <1>10 DEF Launch
  <2> HIDE DEF LockInv, Spawning
  <2>4. StartInv'
    BY <2>1, <2>2, <2>3, w \in own' /\ cand'[w] = m /\ pc'[w] = "wait"
  <2>5. SpawnInv'
    BY <2>1, <2>3
  <2> QED
    BY <2>4, <2>5
<1>11. CASE AwaitSocket(w)
  <2>1. lock = w /\ \A v \in own : v # w => pc[v] = "attached"
    BY <1>0, <1>11 DEF AwaitSocket
  <2>2. w \in own
    BY <1>11 DEF AwaitSocket
  <2>3. CASE sock # None
    <3>1. pc[w] = "wait" /\ pc' = [pc EXCEPT ![w] = "open"]
          /\ UNCHANGED <<cand, own, sock, meta, life>>
      BY <1>11, <2>3 DEF AwaitSocket
    <3>2. \A m \in Manager : life[m] # "starting"
      BY <2>3
    <3>3. StartInv'
      BY <3>1, <3>2
    <3>4. SpawnInv'
      BY <2>1, <2>2, <3>1, <3>2
    <3> QED
      BY <3>3, <3>4
  <2>4. CASE sock = None
    <3>1. life[cand[w]] # "starting" /\ own' = own \ {w} /\ pc' = [pc EXCEPT ![w] = "failed"]
          /\ cand' = [cand EXCEPT ![w] = None] /\ UNCHANGED <<sock, meta, life>>
      BY <1>11, <2>4 DEF AwaitSocket
    <3>2. \A m \in Manager : life[m] # "starting"
      BY <2>1, <3>1
    <3>3. StartInv'
      BY <3>1, <3>2
    <3>4. SpawnInv'
      BY <2>1, <3>1
    <3> QED
      BY <3>3, <3>4
  <2> QED
    BY <2>3, <2>4
<1>12. CASE OpenMeta(w)
  BY <1>12 DEF OpenMeta
<1>13. CASE WriteMeta(w)
  <2>1. w \in own
    BY <1>13 DEF WriteMeta
  <2>2. \A v \in own : v # w => pc[v] = "attached"
    BY <1>0, <1>13 DEF WriteMeta
  <2>3. StartInv'
    BY <1>13, <2>1, <2>2 DEF WriteMeta
  <2>4. SpawnInv'
    BY <1>13, <2>1, <2>2 DEF WriteMeta
  <2> QED
    BY <2>3, <2>4
<1>14. CASE FirstCall(w)
  BY <1>14 DEF FirstCall
<1>15. ~Kill(w)
  BY DEF Kill
<1> QED
  BY <1>1, <1>2, <1>3, <1>4, <1>5, <1>6, <1>7, <1>8, <1>9, <1>10, <1>11, <1>12, <1>13,
     <1>14, <1>15 DEF WorkerStep

\* While the playbook runs, a manager does nothing but bind and become ready
LEMMA ManagersArrive ==
    ASSUME Faults = {}, TypeOK, CalmInv, StartInv, "playbook" \in running, NEW n \in Manager,
           ManagerStep(n) \/ IdleShutdown(n) \/ Sigterm(n) \/ SigtermAgain(n)
    PROVE  /\ UNCHANGED <<workerVars, meta, owner, running>>
           /\ \/ /\ life[n] = "starting" /\ sock = None /\ sock' = n
                 /\ life' = [life EXCEPT ![n] = "bound"]
              \/ /\ life[n] = "bound" /\ sock' = sock
                 /\ life' = [life EXCEPT ![n] = "ready"]
<1>1. ~Watchdog(n)
  BY DEF Watchdog, TypeOK, CalmInv, Owner
<1>2. ~(\/ IdleShutdown(n) \/ Sigterm(n) \/ SigtermAgain(n) \/ IdleUnlinkSock(n) \/ IdleExit(n) \/ SigtermExit(n))
  BY DEF CalmInv, IdleShutdown, Sigterm, SigtermAgain, IdleUnlinkSock, IdleExit, SigtermExit
<1>3. Bind(n) \/ InitService(n)
  BY <1>1, <1>2 DEF ManagerStep
<1> QED
  BY <1>3 DEF StartInv, Bind, InitService, Become, fileVars

LEMMA ManagerRaceInv ==
    ASSUME Faults = {}, TypeOK, CalmInv, LockInv, StartInv, SpawnInv, "playbook" \in running,
           NEW n \in Manager, ManagerStep(n) \/ IdleShutdown(n) \/ Sigterm(n) \/ SigtermAgain(n)
    PROVE  StartInv' /\ SpawnInv'
<1>1. UNCHANGED <<pc, cand, own, lock, meta>>
  BY ManagersArrive DEF workerVars
<1> USE ConstantsAssumption
    DEF TypeOK, LockInv, Spawning, SpawnPoints, StartInv, SpawnInv, Up, Born, Queued, Cleaning
<1>2. CASE life[n] = "starting"
  <2>1. sock = None /\ sock' = n /\ life' = [life EXCEPT ![n] = "bound"]
    BY <1>2, ManagersArrive
  <2>2. PICK w \in own : cand[w] = n /\ pc[w] = "wait"
    BY <1>2
  <2>3. \A v \in own : pc[v] # "attached" => v = w
    BY <2>2
  <2>4. \A m \in Manager : life[m] = "starting" => m = n
    BY <2>2, <2>3
  <2>5. StartInv'
    BY <1>1, <2>1, <2>2, <2>4
  <2>6. SpawnInv'
    BY <1>1, <2>1, <2>2, <2>3
  <2> QED
    BY <2>5, <2>6
<1>3. CASE life[n] = "bound"
  <2>1. sock' = sock /\ life' = [life EXCEPT ![n] = "ready"]
    BY <1>3, ManagersArrive
  <2>2. StartInv'
    BY <1>1, <1>3, <2>1
  <2>3. SpawnInv'
    BY <1>1, <1>3, <2>1
  <2> QED
    BY <2>2, <2>3
<1> QED
  BY <1>2, <1>3, ManagersArrive

LEMMA NextRaceInv ==
    ASSUME Faults = {}
    PROVE  TypeOK /\ CalmInv /\ LockInv /\ RaceInv /\ [Next]_vars => RaceInv'
<1> SUFFICES ASSUME TypeOK, CalmInv, LockInv, RaceInv, [Next]_vars, "playbook" \in running'
             PROVE  StartInv' /\ SpawnInv'
  BY DEF RaceInv
<1>1. ASSUME NEW w \in Worker, Begin(w) \/ WorkerStep(w) \/ Kill(w)
      PROVE  StartInv' /\ SpawnInv'
  <2>1. running' = running
    BY <1>1 DEF Begin, WorkerStep, Kill, Peek, Probe, ReadMeta, Dial, GetProxy, UnlinkSock,
                UnlinkMeta, Flock, Launch, AwaitSocket, OpenMeta, WriteMeta, FirstCall
  <2> QED
    BY <1>1, <2>1, WorkerRaceInv DEF RaceInv
<1>2. ASSUME NEW n \in Manager, ManagerStep(n) \/ IdleShutdown(n) \/ Sigterm(n) \/ SigtermAgain(n)
      PROVE  StartInv' /\ SpawnInv'
  <2>1. running' = running
    BY <1>2 DEF ManagerStep, Bind, InitService, IdleShutdown, IdleUnlinkSock, IdleExit, Sigterm, SigtermAgain,
                SigtermExit, Watchdog
  <2> QED
    BY <1>2, <2>1, ManagerRaceInv DEF RaceInv
<1>3. CASE \/ UNCHANGED vars
           \/ \E o \in Owner : OwnerExit(o)
  BY <1>3 DEF vars, OwnerExit, workerVars, fileVars, managerVars, RaceInv, StartInv, SpawnInv, Up,
              Born, Queued, Cleaning
<1> QED
  BY <1>1, <1>2, <1>3 DEF Next

\* Workers that cannot return before they have looked under the lock, or have spawned
Undecided(w) ==
    \/ pc[w] \in {"idle", "peek", "probe", "read", "rmSock", "rmMeta", "flock", "sweepSock",
                  "sweepMeta", "launch", "wait", "open", "write"}
    \/ w \notin own /\ pc[w] \in {"dial", "proxy"} /\ ~Reaches(cand[w])

Published == \E m \in Manager : sock = m /\ meta = m /\ Up(m)

\* The strengthening of Converged: as long as no manager is published somebody has
\* yet to spawn one
RepairInv == "playbook" \in running => Published \/ \E w \in Worker : Undecided(w)

LEMMA InitRepairInv == Worker # {} /\ Init => RepairInv
BY DEF Init, RepairInv, Undecided

LEMMA WorkerRepairInv ==
    ASSUME Faults = {}, TypeOK, CalmInv, LockInv, StartInv, SpawnInv,
           Published \/ \E w \in Worker : Undecided(w),
           NEW w \in Worker, Begin(w) \/ WorkerStep(w) \/ Kill(w)
    PROVE  (Published \/ \E v \in Worker : Undecided(v))'
<1> USE ConstantsAssumption
    DEF TypeOK, CalmInv, LockInv, Spawning, SpawnPoints, StartInv, SpawnInv, Up, Born, Queued,
        Cleaning, Undecided, Published, Reaches, Listening,
        Goto, NoReuse, Unlock, Quit, ConnectFailed, fileVars, managerVars
<1>1. CASE Begin(w)
  BY <1>1 DEF Begin
<1>2. CASE Peek(w)
  BY <1>2 DEF Peek
<1>3. CASE Probe(w)
  BY <1>3 DEF Probe
<1>4. CASE ReadMeta(w)
  BY <1>4 DEF ReadMeta
<1>5. CASE Dial(w)
  BY <1>5 DEF Dial
<1>6. CASE GetProxy(w)
  BY <1>6 DEF GetProxy
<1>7. CASE UnlinkSock(w)
  BY <1>7 DEF UnlinkSock
<1>8. CASE UnlinkMeta(w)
  BY <1>8 DEF UnlinkMeta
<1>9. CASE Flock(w)
  BY <1>9 DEF Flock
<1>10. CASE Launch(w)
  BY <1>10 DEF Launch
<1>11. CASE AwaitSocket(w)
  <2>1. CASE pc'[w] = "open"
    BY <2>1
  <2>2. CASE sock = None /\ life[cand[w]] # "starting" /\ pc' = [pc EXCEPT ![w] = "failed"]
    <3>1. w \in own /\ pc[w] = "wait"
      BY <1>11 DEF AwaitSocket
    <3>2. sock # cand[w]
      BY <2>2, <3>1
    <3>3. PICK u \in Worker : pc[u] \in {"rmMeta", "flock"}
      BY <2>2, <3>1, <3>2
    <3> QED
      BY <2>2, <3>1, <3>3
  <2> QED
    BY <1>11, <2>1, <2>2 DEF AwaitSocket
<1>12. CASE OpenMeta(w)
  BY <1>12 DEF OpenMeta
<1>13. CASE WriteMeta(w)
  BY <1>13 DEF WriteMeta
<1>14. CASE FirstCall(w)
  BY <1>14 DEF FirstCall
<1>15. ~Kill(w)
  BY DEF Kill
<1> QED
  BY <1>1, <1>2, <1>3, <1>4, <1>5, <1>6, <1>7, <1>8, <1>9, <1>10, <1>11, <1>12, <1>13,
     <1>14, <1>15 DEF WorkerStep

LEMMA NextRepairInv ==
    ASSUME Faults = {}
    PROVE  TypeOK /\ CalmInv /\ LockInv /\ RaceInv /\ RepairInv /\ [Next]_vars => RepairInv'
<1> SUFFICES ASSUME TypeOK, CalmInv, LockInv, RaceInv, RepairInv, [Next]_vars,
                    "playbook" \in running'
             PROVE  (Published \/ \E w \in Worker : Undecided(w))'
  BY DEF RepairInv
<1>1. ASSUME NEW w \in Worker, Begin(w) \/ WorkerStep(w) \/ Kill(w)
      PROVE  (Published \/ \E v \in Worker : Undecided(v))'
  <2>1. running' = running
    BY <1>1 DEF Begin, WorkerStep, Kill, Peek, Probe, ReadMeta, Dial, GetProxy, UnlinkSock,
                UnlinkMeta, Flock, Launch, AwaitSocket, OpenMeta, WriteMeta, FirstCall
  <2> QED
    BY <1>1, <2>1, WorkerRepairInv DEF RaceInv, RepairInv
<1>2. ASSUME NEW n \in Manager, ManagerStep(n) \/ IdleShutdown(n) \/ Sigterm(n) \/ SigtermAgain(n)
      PROVE  (Published \/ \E w \in Worker : Undecided(w))'
  <2>1. running' = running
    BY <1>2 DEF ManagerStep, Bind, InitService, IdleShutdown, IdleUnlinkSock, IdleExit, Sigterm, SigtermAgain,
                SigtermExit, Watchdog
  <2>2. StartInv /\ (Published \/ \E w \in Worker : Undecided(w))
    BY <2>1 DEF RaceInv, RepairInv
  <2>3. UNCHANGED <<pc, cand, own, meta>>
    BY <1>2, <2>1, <2>2, ManagersArrive DEF workerVars
  <2>4. \/ /\ life[n] = "starting" /\ sock = None /\ sock' = n
           /\ life' = [life EXCEPT ![n] = "bound"]
        \/ /\ life[n] = "bound" /\ sock' = sock
           /\ life' = [life EXCEPT ![n] = "ready"]
    BY <1>2, <2>1, <2>2, ManagersArrive
  <2>5. Published => Published'
    BY <2>3, <2>4, ConstantsAssumption DEF TypeOK, Published, Up
  <2>6. ASSUME NEW w \in Worker, Undecided(w) PROVE Undecided(w)'
    BY <2>2, <2>3, <2>4, <2>6, ConstantsAssumption
       DEF TypeOK, StartInv, Born, Undecided, Reaches, Listening
  <2> QED
    BY <2>2, <2>5, <2>6
<1>3. CASE \/ UNCHANGED vars
           \/ \E o \in Owner : OwnerExit(o)
  BY <1>3 DEF vars, OwnerExit, workerVars, fileVars, managerVars, RepairInv, Undecided,
              Published, Up, Reaches
<1> QED
  BY <1>1, <1>2, <1>3 DEF Next

\* However many workers race, and whatever an earlier run left, without faults the last
\* of them leaves one manager published and in service (http.py, the cleanup without
\* the lock and the second look with it).
THEOREM RaceConverges ==
    ASSUME Faults = {}, Worker # {}
    PROVE  Spec => []Converged
<1>1. Spec => []CalmInv
  BY InitCalmInv, NextCalmInv, TypeCorrect, PTL DEF Spec
<1>2. Spec => []RaceInv
  BY <1>1, InitRaceInv, NextRaceInv, LockInvariant, PTL DEF Spec
<1>3. Init => RepairInv
  BY InitRepairInv
<1>4. Spec => []RepairInv
  BY <1>1, <1>2, <1>3, NextRepairInv, LockInvariant, PTL DEF Spec
<1>5. RepairInv => Converged
  BY DEF RepairInv, Converged, Undecided, Published, Up, Finished
<1> QED
  BY <1>4, <1>5, PTL
=============================================================================
