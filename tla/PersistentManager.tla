------------------------- MODULE PersistentManager -------------------------
(***************************************************************************)
(* How the workers of a playbook obtain, share and lose the persistent     *)
(* manager process of one identity (user, inventory host, credentials and  *)
(* TLS policy), connection plugin ansible.platform.http.                   *)
(*                                                                         *)
(* Every worker runs _get_persistent_client once: a fast path that looks   *)
(* at the socket and .meta files without a lock, then a spawn path under   *)
(* an flock.  A manager binds the socket, initialises its service, and may *)
(* leave because it is idle, because its owner is gone, or on a signal.    *)
(* The two files are the only thing they share: sock is the manager whose  *)
(* socket the path names, meta the manager whose pid and authkey the .meta *)
(* file holds.  The authkey is random per spawn, so a manager stands for   *)
(* its own key.                                                            *)
(*                                                                         *)
(* Grain: one system call that another process can observe per action;     *)
(* exists() followed by unlink() of the same path is one action, because   *)
(* either order of an interfering step gives a result the merged action    *)
(* also gives.                                                             *)
(***************************************************************************)
EXTENDS Naturals, FiniteSets

CONSTANTS
    Worker,     \* forked ansible workers, each obtaining one client
    Manager,    \* manager processes that may ever run for this identity
    Old,        \* the manager that earlier runs may have left behind
    None,       \* "no file", "nobody"
    Torn,       \* content of a .meta file opened for writing, not yet closed
    Serial,     \* TRUE: forks = 1, one worker runs at a time
    Leftover,   \* the file states that earlier runs may have left
    Faults      \* what the environment may do: see FaultKinds

\* "idle"    the idle monitor may end a ready manager
\* "kill"    a worker may be killed at any point of its call
\* "start"   a manager may fail to start, or start later than the 5 s wait
\* "init"    PlatformService may raise, or take longer than the 60 s wait
\* "meta"    writing the .meta file may fail
\* "signal"  a manager may get SIGTERM, and again while it handles the first
\* "owner"   an owner may exit while workers still run
FaultKinds == {"idle", "kill", "start", "init", "meta", "signal", "owner"}

\* "clean" no files; "stale" both files of a dead manager; "served" both files
\* of a ready one; "unpublished" a ready manager without .meta; "torn" a ready
\* manager whose .meta was never completed; "nosock" only the .meta of a dead one
LeftoverKinds == {"clean", "stale", "served", "unpublished", "torn", "nosock"}

ASSUME ConstantsAssumption ==
    /\ Old \in Manager
    /\ None \notin Worker \cup Manager
    /\ Torn \notin Manager \cup {None}
    /\ Serial \in BOOLEAN
    /\ Leftover \subseteq LeftoverKinds
    /\ Faults \subseteq FaultKinds

VARIABLES
    pc,      \* where each worker is in _get_persistent_client
    cand,    \* the manager whose authkey a worker holds
    own,     \* the workers whose cand is a manager they spawned themselves
    lock,    \* the worker that holds the flock
    sock,    \* the manager whose socket is at the path
    meta,    \* the manager the .meta file names, or Torn
    life,    \* the state of each manager process
    owner,   \* the process whose exit a manager watches for
    running  \* the owners that still run

vars == <<pc, cand, own, lock, sock, meta, life, owner, running>>
workerVars == <<pc, cand, own, lock>>
fileVars == <<sock, meta>>
managerVars == <<life, owner>>

Finished == {"done", "failed", "killed"}
\* The control points between the flock and the unlock that only a spawner reaches
SpawnPoints == {"sweepSock", "sweepMeta", "launch", "wait", "open", "write"}
PC == {"idle", "peek", "probe", "read", "dial", "proxy", "rmSock", "rmMeta",
       "flock", "attached"} \cup SpawnPoints \cup Finished

\* A process with a listening socket, whatever is behind it
Listening == {"bound", "ready", "broken", "closing", "unlinking", "locked", "stopping",
              "wedged"}
Life == {"unborn", "starting", "dead"} \cup Listening
Owner == {"playbook", "other", "init"}

TypeOK ==
    /\ pc \in [Worker -> PC]
    /\ cand \in [Worker -> Manager \cup {None}]
    /\ own \subseteq Worker
    /\ lock \in Worker \cup {None}
    /\ sock \in Manager \cup {None}
    /\ meta \in Manager \cup {None, Torn}
    /\ life \in [Manager -> Life]
    /\ owner \in [Manager -> Owner]
    /\ running \subseteq Owner

\* The two files and the state of Old that an earlier run left
Found(left, path, file, state) ==
    /\ left \in Leftover
    /\ sock = path
    /\ meta = file
    /\ life = [m \in Manager |-> IF m = Old THEN state ELSE "unborn"]

Init ==
    /\ pc = [w \in Worker |-> "idle"]
    /\ cand = [w \in Worker |-> None]
    /\ own = {}
    /\ lock = None
    /\ owner = [m \in Manager |-> "other"]
    /\ running = {"playbook", "other", "init"}
    /\ \/ Found("clean", None, None, "unborn")
       \/ Found("stale", Old, Old, "dead")
       \/ Found("served", Old, Old, "ready")
       \/ Found("unpublished", Old, None, "ready")
       \/ Found("torn", Old, Torn, "ready")
       \/ Found("nosock", None, Old, "dead")

-----------------------------------------------------------------------------
(* Workers: _get_persistent_client.  The reuse check runs twice, first     *)
(* without the lock and again once it is held; lock = w tells them apart.  *)

Goto(w, point) == pc' = [pc EXCEPT ![w] = point]

\* The finally clause: flock(LOCK_UN) and close, on every way out
Unlock(w) == lock' = IF lock = w THEN None ELSE lock

\* Mutant of Quit: the lock is not released on an exception
QuitLocked(w, point) ==
    /\ Goto(w, point)
    /\ cand' = [cand EXCEPT ![w] = None]
    /\ own' = own \ {w}
    /\ UNCHANGED lock

\* The worker process is gone, with the lock and what it knew
Quit(w, point) ==
    /\ Goto(w, point)
    /\ Unlock(w)
    /\ cand' = [cand EXCEPT ![w] = None]
    /\ own' = own \ {w}

\* No reusable manager: queue for the lock, or spawn if it is already held
NoReuse(w) == Goto(w, IF lock = w THEN "sweepSock" ELSE "flock")

\* An exception while connecting: swallowed with a cleanup when the manager was
\* found through the files, the task's failure when the worker spawned it
ConnectFailed(w) ==
    IF w \in own
    THEN Quit(w, "failed")
    ELSE Goto(w, "rmSock") /\ UNCHANGED <<cand, own, lock>>

Begin(w) ==
    /\ pc[w] = "idle"
    /\ Serial => \A v \in Worker : pc[v] \in Finished \cup {"idle"}
    /\ Goto(w, "peek")
    /\ UNCHANGED <<cand, own, lock, fileVars, managerVars, running>>

\* if Path(sock).exists() and Path(meta).exists()
Peek(w) ==
    /\ pc[w] = "peek"
    /\ IF sock # None /\ meta # None THEN Goto(w, "probe") ELSE NoReuse(w)
    /\ UNCHANGED <<cand, own, lock, fileVars, managerVars, running>>

\* os.kill(pid, 0) finds a running process, or one its spawner has not reaped yet
PidExists(m) ==
    \/ life[m] # "dead"
    \/ \E w \in Worker : w \in own /\ cand[w] = m

\* Mutant of IsSocketStale: the answer of the probe is not looked at
IsSocketStaleUnprobed == sock # None /\ meta \in Manager

IsSocketStale == sock # None /\ meta \in Manager /\ ~PidExists(meta)

Probe(w) ==
    /\ pc[w] = "probe"
    /\ Goto(w, IF IsSocketStale THEN "rmSock" ELSE "read")
    /\ UNCHANGED <<cand, own, lock, fileVars, managerVars, running>>

\* Mutant of ReadMeta: a .meta file without the key the reader looks for
ReadMetaWrongKey(w) ==
    /\ pc[w] = "read"
    /\ Goto(w, "rmSock")
    /\ UNCHANGED <<cand, own, lock, fileVars, managerVars, running>>

\* json.load of the .meta file, then is_socket() on the path
ReadMeta(w) ==
    /\ pc[w] = "read"
    /\ \/ /\ meta \notin Manager
          /\ Goto(w, "rmSock")
          /\ UNCHANGED cand
       \/ /\ meta \in Manager
          /\ cand' = [cand EXCEPT ![w] = meta]
          /\ IF sock # None THEN Goto(w, "dial") ELSE NoReuse(w)
    /\ UNCHANGED <<own, lock, fileVars, managerVars, running>>

\* A connection to the path is served and its authkey challenge answered
Reaches(m) == sock = m /\ life[m] \in Listening

\* ManagerRPCClient: manager.connect()
Dial(w) ==
    /\ pc[w] = "dial"
    /\ IF Reaches(cand[w])
       THEN Goto(w, "proxy") /\ UNCHANGED <<cand, own, lock>>
       ELSE ConnectFailed(w)
    /\ UNCHANGED <<fileVars, managerVars, running>>

\* Mutant of GetProxy: the callable does not wait for the service to be initialised
GetProxyUnready(w) ==
    /\ pc[w] = "proxy"
    /\ IF Reaches(cand[w]) /\ life[cand[w]] # "bound"
       THEN Goto(w, "attached") /\ Unlock(w) /\ UNCHANGED <<cand, own>>
       ELSE ConnectFailed(w)
    /\ UNCHANGED <<fileVars, managerVars, running>>

\* ManagerRPCClient: get_platform_service(), new connections to the same path that
\* wait until the service is initialised.  A client that has its proxy returns.
GetProxy(w) ==
    /\ pc[w] = "proxy"
    /\ \/ /\ Reaches(cand[w])
          /\ life[cand[w]] \notin {"bound", "broken"}
          /\ Goto(w, "attached")
          /\ Unlock(w)
          /\ UNCHANGED <<cand, own>>
       \/ /\ \/ ~Reaches(cand[w])
             \/ life[cand[w]] = "broken"
             \/ life[cand[w]] = "bound" /\ "init" \in Faults
          /\ ConnectFailed(w)
    /\ UNCHANGED <<fileVars, managerVars, running>>

\* Mutant of UnlinkSock: only the .meta file is cleaned up
UnlinkSockKept(w) ==
    /\ pc[w] \in {"rmSock", "sweepSock"}
    /\ Goto(w, IF pc[w] = "rmSock" THEN "rmMeta" ELSE "sweepMeta")
    /\ UNCHANGED <<cand, own, lock, sock, meta, managerVars, running>>

\* cleanup_old_socket: the socket file, then the .meta file, whoever they belong to
UnlinkSock(w) ==
    /\ pc[w] \in {"rmSock", "sweepSock"}
    /\ sock' = None
    /\ Goto(w, IF pc[w] = "rmSock" THEN "rmMeta" ELSE "sweepMeta")
    /\ UNCHANGED <<cand, own, lock, meta, managerVars, running>>

UnlinkMeta(w) ==
    /\ pc[w] \in {"rmMeta", "sweepMeta"}
    /\ meta' = None
    /\ IF pc[w] = "rmMeta" THEN NoReuse(w) ELSE Goto(w, "launch")
    /\ UNCHANGED <<cand, own, lock, sock, managerVars, running>>

\* Mutant of Flock: a shared lock
FlockShared(w) ==
    /\ pc[w] = "flock"
    /\ lock' = w
    /\ Goto(w, "peek")
    /\ UNCHANGED <<cand, own, fileVars, managerVars, running>>

\* Mutant of Flock: no second look once the lock is held
FlockNoRecheck(w) ==
    /\ pc[w] = "flock"
    /\ lock = None
    /\ lock' = w
    /\ Goto(w, "sweepSock")
    /\ UNCHANGED <<cand, own, fileVars, managerVars, running>>

\* fcntl.flock(LOCK_EX), then the same check again
Flock(w) ==
    /\ pc[w] = "flock"
    /\ lock = None
    /\ lock' = w
    /\ Goto(w, "peek")
    /\ UNCHANGED <<cand, own, fileVars, managerVars, running>>

\* Mutant of Launch: the owner pid is not passed on
LaunchUnowned(w) ==
    /\ pc[w] = "launch"
    /\ \E m \in Manager :
        /\ life[m] = "unborn"
        /\ life' = [life EXCEPT ![m] = "starting"]
        /\ owner' = [owner EXCEPT ![m] = None]
        /\ own' = own \cup {w}
        /\ cand' = [cand EXCEPT ![w] = m]
    /\ Goto(w, "wait")
    /\ UNCHANGED <<lock, fileVars, running>>

\* spawn_manager_process(owner_pid=os.getppid()): a worker whose playbook process
\* is gone has been reparented to pid 1
Launch(w) ==
    /\ pc[w] = "launch"
    /\ \/ \E m \in Manager :
            /\ life[m] = "unborn"
            /\ life' = [life EXCEPT ![m] = "starting"]
            /\ owner' = [owner EXCEPT ![m] =
                            IF "playbook" \in running THEN "playbook" ELSE "init"]
            /\ own' = own \cup {w}
            /\ cand' = [cand EXCEPT ![w] = m]
            /\ Goto(w, "wait")
            /\ UNCHANGED lock
       \/ /\ "start" \in Faults
          /\ Quit(w, "failed")
          /\ UNCHANGED managerVars
    /\ UNCHANGED <<fileVars, running>>

\* wait_for_process_startup: any file at the path ends the wait, whoever bound it
AwaitSocket(w) ==
    /\ pc[w] = "wait"
    /\ \/ sock # None /\ Goto(w, "open") /\ UNCHANGED <<cand, own, lock>>
       \/ /\ sock = None
          /\ life[cand[w]] # "starting" \/ "start" \in Faults
          /\ Quit(w, "failed")
    /\ UNCHANGED <<fileVars, managerVars, running>>

\* open(meta, "w") truncates; a failure is logged and the task goes on
OpenMeta(w) ==
    /\ pc[w] = "open"
    /\ \/ meta' = Torn /\ Goto(w, "write")
       \/ "meta" \in Faults /\ Goto(w, "dial") /\ UNCHANGED meta
    /\ UNCHANGED <<cand, own, lock, sock, managerVars, running>>

\* json.dump reaches the file on close, unless the file was unlinked meanwhile
WriteMeta(w) ==
    /\ pc[w] = "write"
    /\ meta' = IF meta = Torn THEN cand[w] ELSE meta
    /\ Goto(w, "dial")
    /\ UNCHANGED <<cand, own, lock, sock, managerVars, running>>

\* The task's first RPC opens a connection of its own to the path; a manager on its
\* way out may or may not still answer
FirstCall(w) ==
    /\ pc[w] = "attached"
    /\ \/ /\ Reaches(cand[w])
          /\ Goto(w, "done")
          /\ own' = own \ {w}
          /\ UNCHANGED <<cand, lock>>
       \/ ~(Reaches(cand[w]) /\ life[cand[w]] \in {"ready", "wedged"}) /\ Quit(w, "failed")
    /\ UNCHANGED <<fileVars, managerVars, running>>

\* The kernel releases the flock of a dead worker
Kill(w) ==
    /\ "kill" \in Faults
    /\ pc[w] \notin Finished \cup {"idle"}
    /\ Quit(w, "killed")
    /\ UNCHANGED <<fileVars, managerVars, running>>

-----------------------------------------------------------------------------
(* Managers: manager_process.main                                          *)

Become(m, state) == life' = [life EXCEPT ![m] = state]

\* get_server() binds the path; a path that exists is EADDRINUSE and exit(1)
Bind(m) ==
    /\ life[m] = "starting"
    /\ \/ sock = None /\ sock' = m /\ Become(m, "bound")
       \/ /\ sock # None \/ "start" \in Faults
          /\ Become(m, "dead")
          /\ UNCHANGED sock
    /\ UNCHANGED <<workerVars, meta, owner, running>>

\* The background thread that builds PlatformService
InitService(m) ==
    /\ life[m] = "bound"
    /\ \/ Become(m, "ready")
       \/ "init" \in Faults /\ Become(m, "broken")
    /\ UNCHANGED <<workerVars, fileVars, owner, running>>

\* _idle_monitor: only a service that exists can be idle.  It shuts the service
\* down, unlinks both files by name and leaves with os._exit
IdleShutdown(m) ==
    /\ "idle" \in Faults
    /\ life[m] = "ready"
    /\ Become(m, "closing")
    /\ UNCHANGED <<workerVars, fileVars, owner, running>>

IdleUnlinkSock(m) ==
    /\ life[m] = "closing"
    /\ sock' = None
    /\ Become(m, "unlinking")
    /\ UNCHANGED <<workerVars, meta, owner, running>>

IdleExit(m) ==
    /\ life[m] = "unlinking"
    /\ meta' = None
    /\ Become(m, "dead")
    /\ UNCHANGED <<workerVars, sock, owner, running>>

\* signal_handler runs in the main thread.  It shuts the service down, if there is one,
\* and takes _shutdown_lock for that
Sigterm(m) ==
    /\ "signal" \in Faults
    /\ \/ life[m] = "ready" /\ Become(m, "locked")
       \/ life[m] = "broken" /\ Become(m, "stopping")
    /\ UNCHANGED <<workerVars, fileVars, owner, running>>

\* A second signal there: the handler, in the same thread, waits for the lock that this
\* thread holds, and the watchdog will wait for it, too.  The connections are still served.
SigtermAgain(m) ==
    /\ "signal" \in Faults
    /\ life[m] = "locked"
    /\ Become(m, "wedged")
    /\ UNCHANGED <<workerVars, fileVars, owner, running>>

\* sys.exit: the listener's finalizer unlinks the path
SigtermExit(m) ==
    /\ life[m] \in {"locked", "stopping"}
    /\ sock' = None
    /\ Become(m, "dead")
    /\ UNCHANGED <<workerVars, meta, owner, running>>

\* Mutant of Watchdog: started only once the service is ready
WatchdogLate(m) ==
    /\ life[m] = "ready"
    /\ owner[m] \notin running
    /\ Become(m, "dead")
    /\ UNCHANGED <<workerVars, fileVars, owner, running>>

\* _owner_watchdog: os._exit(0), the files stay.  It shuts the service down first, so it
\* hangs in a wedged process.
Watchdog(m) ==
    /\ life[m] \in (Listening \ {"wedged"}) \cup {"starting"}
    /\ owner[m] \notin running
    /\ Become(m, "dead")
    /\ UNCHANGED <<workerVars, fileVars, owner, running>>

\* The playbook ends with its last worker, or is killed; the owner of a manager
\* that an earlier run left behind is another playbook.  Pid 1 never exits.
OwnerExit(o) ==
    /\ o \in running \ {"init"}
    /\ \/ "owner" \in Faults
       \/ o = "playbook" /\ \A w \in Worker : pc[w] \in Finished
    /\ running' = running \ {o}
    /\ UNCHANGED <<workerVars, fileVars, managerVars>>

-----------------------------------------------------------------------------

WorkerStep(w) ==
    \/ Peek(w) \/ Probe(w) \/ ReadMeta(w) \/ Dial(w) \/ GetProxy(w)
    \/ UnlinkSock(w) \/ UnlinkMeta(w) \/ Flock(w) \/ Launch(w)
    \/ AwaitSocket(w) \/ OpenMeta(w) \/ WriteMeta(w) \/ FirstCall(w)

ManagerStep(m) ==
    \/ Bind(m) \/ InitService(m) \/ IdleUnlinkSock(m) \/ IdleExit(m)
    \/ SigtermExit(m) \/ Watchdog(m)

Next ==
    \/ \E w \in Worker : Begin(w) \/ WorkerStep(w) \/ Kill(w)
    \/ \E m \in Manager : ManagerStep(m) \/ IdleShutdown(m) \/ Sigterm(m) \/ SigtermAgain(m)
    \/ \E o \in Owner : OwnerExit(o)

Spec == Init /\ [][Next]_vars

\* Each process runs its own next statement; nobody has to begin, be idle, be
\* killed or exit.
Fairness ==
    /\ \A w \in Worker : WF_vars(WorkerStep(w))
    /\ \A m \in Manager : WF_vars(ManagerStep(m))

FairSpec == Spec /\ Fairness

-----------------------------------------------------------------------------
(* Properties                                                              *)

Live(m) == life[m] \in Listening \cup {"starting"}
Spawning(w) ==
    pc[w] \in SpawnPoints \/ (pc[w] \in {"dial", "proxy"} /\ w \in own)

\* No two workers are between the decision to spawn and the unlock, whatever is
\* killed or fails around them (http.py, locked spawn path).
SpawnSerialized ==
    \A v, w \in Worker : Spawning(v) /\ Spawning(w) => v = w

\* The flock is only ever held by a worker that is still inside its call: no
\* return, exception or kill leaks it (http.py, the finally clause).
LockHeldInside ==
    lock # None => pc[lock] \notin Finished \cup {"idle", "flock", "attached"}

\* At most one manager process is alive for an identity: what the comment on the
\* locked spawn path promises.
OneLiveManager == \A m, n \in Manager : Live(m) /\ Live(n) => m = n

\* No task fails to get a client and make its first call.
NoTaskFails == \A w \in Worker : pc[w] # "failed"

\* m is published and ready, and no worker is about to remove or replace its files
Settled(m) ==
    /\ sock = m /\ meta = m /\ life[m] = "ready"
    /\ \A w \in Worker :
        /\ pc[w] \notin SpawnPoints \cup {"rmSock", "rmMeta"}
        /\ pc[w] \in {"dial", "proxy"} => cand[w] = m

\* While no playbook has ended, a settled manager stays settled: every later worker,
\* locked or not, reuses it and none replaces it.
SettledForever ==
    [][\A m \in Manager : Settled(m) /\ "playbook" \in running => Settled(m)']_vars

\* However the workers raced at the start, the last of them leaves one manager
\* published and ready for the next task, unless the playbook has ended.
Converged ==
    /\ \A w \in Worker : pc[w] \in Finished
    /\ "playbook" \in running
    => \E m \in Manager : sock = m /\ meta = m /\ life[m] \in {"bound", "ready"}

\* Every worker that begins gets its client or its exception: neither the lock nor
\* a wait for a manager holds it forever.
EveryCallEnds == \A w \in Worker : pc[w] = "peek" ~> pc[w] \in Finished

\* When the playbook is gone, so are, in time, all managers it spawned, also those
\* no file names any more; but for those that a second signal has wedged.
NoManagerOutlivesPlaybook ==
    \A m \in Manager :
        "playbook" \notin running ~> ~(Live(m) /\ owner[m] = "playbook" /\ life[m] # "wedged")

\* The promise of ManagerService, for a playbook whose workers run one at a time.
Service == INSTANCE ManagerService WITH
    provider <- IF sock = meta /\ sock # None /\ life[sock] \in {"bound", "ready"}
                THEN sock ELSE None,
    client <- [w \in Worker |-> IF pc[w] \in {"attached", "done"} THEN cand[w] ELSE None],
    served <- {w \in Worker : pc[w] = "done"}

ImplementsService == Service!Spec
=============================================================================
