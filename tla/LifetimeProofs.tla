---------------------------- MODULE LifetimeProofs ----------------------------
(* Theorems about ManagerLifetime for every idle timeout, every wait for   *)
(* the service and any number of clients and signals.                      *)
EXTENDS ManagerLifetime, TLAPS

-----------------------------------------------------------------------------
(* Types                                                                   *)

\* _compute_poll_interval stays between its floor and its cap
LEMMA PollBounds == ASSUME NEW t \in Nat PROVE Poll(t) \in 5 .. 60
<1> DEFINE tenth == t \div 10
<1>1. tenth \in Int
  OBVIOUS
<1>2. CASE t <= 0 \/ tenth > 60
  BY <1>2 DEF Poll
<1>3. CASE t > 0 /\ tenth <= 60 /\ tenth < 5
  BY <1>1, <1>3 DEF Poll
<1>4. CASE t > 0 /\ tenth <= 60 /\ tenth >= 5
  BY <1>1, <1>4 DEF Poll
<1> QED
  BY <1>1, <1>2, <1>3, <1>4

LEMMA ConfigOK == TypeOK => timeout \in Nat /\ Poll(timeout) \in 5 .. 60 /\ Period \in {2, 3}
BY PollBounds, LifetimeAssumption DEF TypeOK, Period

\* Where the threads are
ThreadsOK ==
    /\ pc \in [Thread -> {"unborn", "start", "serve", "sleep", "await", "enter", "leave", "exit", "wedged", "done"}]
    /\ wait \in [Thread -> Nat]

LEMMA GoOK ==
    ASSUME TypeOK, NEW t \in Thread, NEW seconds \in Nat,
           NEW point \in {"serve", "sleep", "await", "enter", "leave", "exit", "wedged", "done"},
           Go(t, point, seconds)
    PROVE  ThreadsOK'
BY DEF Go, TypeOK, ThreadsOK

LEMMA InitTypeOK == Init => TypeOK
<1> SUFFICES ASSUME Init PROVE TypeOK
  OBVIOUS
<1>1. pc \in [Thread -> {"unborn", "start", "serve", "sleep", "await", "enter", "leave", "exit", "wedged", "done"}]
  BY DEF Init, Thread
<1>2. wait \in [Thread -> Nat] /\ signals \in 0 .. MaxSignals
  BY LifetimeAssumption DEF Init
<1> QED
  BY <1>1, <1>2 DEF Init, TypeOK

LEMMA MainTypeOK == TypeOK /\ (Serve \/ InitService \/ Signal) => TypeOK'
<1> SUFFICES ASSUME TypeOK, Serve \/ InitService \/ Signal PROVE TypeOK'
  OBVIOUS
<1>1. CASE Serve
  <2>1. ThreadsOK'
    <3>1. CASE timeout > 0
      BY <1>1, <3>1, ConfigOK DEF Serve, TypeOK, ThreadsOK, Thread
    <3>2. CASE ~(timeout > 0)
      BY <1>1, <3>2, GoOK DEF Serve, Thread
    <3> QED
      BY <3>1, <3>2
  <2> QED
    BY <1>1, <2>1 DEF Serve, TypeOK, ThreadsOK, config, clientVars, worldVars
<1>2. CASE InitService
  BY <1>2 DEF InitService, TypeOK, config, threadVars, clientVars, worldVars
<1>3. CASE Signal
  <2>1. ThreadsOK'
    BY <1>3, GoOK, LifetimeAssumption DEF Signal, Thread
  <2>2. signals' \in 0 .. MaxSignals
    BY <1>3, LifetimeAssumption DEF Signal, TypeOK
  <2> QED
    BY <1>3, <2>1, <2>2 DEF Signal, TypeOK, ThreadsOK, config, clientVars
<1> QED
  BY <1>1, <1>2, <1>3

LEMMA ThreadTypeOK == ASSUME TypeOK, NEW t \in Thread, ThreadStep(t) PROVE TypeOK'
<1>1. CASE Proceed(t)
  <2>1. ThreadsOK'
    BY <1>1, GoOK DEF Proceed
  <2> QED
    BY <1>1, <2>1 DEF Proceed, TypeOK, ThreadsOK, config, clientVars, worldVars
<1>2. CASE Enter(t)
  <2>1. ThreadsOK'
    BY <1>2, GoOK DEF Enter
  <2> QED
    BY <1>2, <2>1 DEF Enter, TypeOK, ThreadsOK, config, clientVars, worldVars
<1>3. CASE Leave(t)
  <2>1. ThreadsOK'
    BY <1>3, GoOK DEF Leave
  <2> QED
    BY <1>3, <2>1 DEF Leave, TypeOK, ThreadsOK, config, clientVars, worldVars
<1>4. CASE Exit(t)
  BY <1>4 DEF Exit, TypeOK, config, worldVars
<1> QED
  BY <1>1, <1>2, <1>3, <1>4 DEF ThreadStep

LEMMA MonitorTypeOK == TypeOK /\ (Check \/ Look \/ RemoteShutdown) => TypeOK'
<1> SUFFICES ASSUME TypeOK, Check \/ Look \/ RemoteShutdown PROVE TypeOK'
  OBVIOUS
<1>1. ThreadsOK'
  BY GoOK, ConfigOK, LifetimeAssumption DEF Check, Look, RemoteShutdown, Thread
<1>2. UNCHANGED <<config, exit, init, closing, lock, idle, clientVars, worldVars>>
  BY DEF Check, Look, RemoteShutdown
<1> QED
  BY <1>1, <1>2 DEF TypeOK, ThreadsOK, config, clientVars, worldVars

LEMMA ClientTypeOK == ASSUME TypeOK, NEW c \in Client, ClientStep(c) PROVE TypeOK'
<1>1. idle' \in Nat /\ UNCHANGED <<config, exit, init, closing, lock, threadVars, worldVars>>
  BY DEF ClientStep, Connect, Call, Touch, Return, Activity, TypeOK
<1>2. /\ client' \in [Client -> {"new", "connected", "running", "refused", "cut"}]
      /\ lasted' \in [Client -> Nat]
      /\ late' \subseteq Client
  BY DEF ClientStep, Connect, Call, Touch, Return, To, clientVars, TypeOK
<1> QED
  BY <1>1, <1>2 DEF TypeOK, config, threadVars, worldVars

LEMMA UpToOK == ASSUME NEW bound \in Nat, NEW n \in Nat PROVE UpTo(bound, n) \in {n, n + 1}
BY DEF UpTo

LEMMA WorldTypeOK == TypeOK /\ (OwnerGone \/ Reuse \/ Tick) => TypeOK'
<1> SUFFICES ASSUME TypeOK, OwnerGone \/ Reuse \/ Tick PROVE TypeOK'
  OBVIOUS
<1>1. CASE OwnerGone \/ Reuse
  BY <1>1 DEF OwnerGone, Reuse, TypeOK, config, threadVars, clientVars
<1>2. CASE Tick
  <2>1. wait' \in [Thread -> Nat]
    BY <1>2 DEF Tick, Slept, TypeOK
  <2>2. idle' \in Nat /\ lasted' \in [Client -> Nat] /\ orphan' \in Nat
    BY <1>2, ConfigOK, LifetimeAssumption DEF Tick, UpTo, TypeOK
  <2> QED
    BY <1>2, <2>1, <2>2 DEF Tick, TypeOK, config
<1> QED
  BY <1>1, <1>2

\* Every variable stays in its range.
THEOREM LifeTypeCorrect == Spec => []TypeOK
<1>1. TypeOK /\ [Next]_vars => TypeOK'
  <2> SUFFICES ASSUME TypeOK, [Next]_vars PROVE TypeOK'
    OBVIOUS
  <2>1. CASE UNCHANGED vars
    BY <2>1 DEF TypeOK, vars, config, threadVars, clientVars, worldVars
  <2> QED
    BY <2>1, MainTypeOK, ThreadTypeOK, MonitorTypeOK, ClientTypeOK, WorldTypeOK DEF Next
<1> QED
  BY InitTypeOK, <1>1, PTL DEF Spec

-----------------------------------------------------------------------------
(* The idle monitor and the shutdown lock                                  *)

\* The monitor starts with the service, if there is an idle timeout, and never awaits
MonitorInv ==
    exit = None =>
        /\ pc["main"] = "start" => pc["monitor"] = "unborn" /\ init = "unborn"
        /\ pc["monitor"] = "unborn" => timeout = 0 \/ init = "unborn"
        /\ pc["monitor"] \in {"unborn", "sleep", "enter", "leave", "exit"}

\* Whoever holds _shutdown_lock is about to leave, or is the handler that interrupted itself
LockInv == exit = None /\ lock # None => pc[lock] = "leave" \/ Wedged

\* After os._exit nothing happens
LEMMA ExitIsFinal == [Next]_vars /\ exit # None => UNCHANGED vars
<1> SUFFICES ASSUME Next, exit # None PROVE UNCHANGED vars
  OBVIOUS
<1>1. ~Serve /\ ~InitService /\ ~Signal /\ ~Check /\ ~Look /\ ~RemoteShutdown /\ ~OwnerGone /\ ~Reuse /\ ~Tick
  BY DEF Serve, InitService, Signal, Check, Look, RemoteShutdown, OwnerGone, Reuse, Tick
<1>2. \A t \in Thread : ~ThreadStep(t)
  BY DEF ThreadStep, Proceed, Enter, Leave, Exit
<1>3. \A c \in Client : ~ClientStep(c)
  BY DEF ClientStep, Connect, Call, Touch, Return
<1> QED
  BY <1>1, <1>2, <1>3 DEF Next

LEMMA MonitorInvariant == Spec => []MonitorInv
<1>1. Init => MonitorInv
  BY DEF Init, MonitorInv, Thread
<1>2. TypeOK /\ MonitorInv /\ [Next]_vars => MonitorInv'
  <2> SUFFICES ASSUME TypeOK, MonitorInv, [Next]_vars, exit = None, exit' = None PROVE MonitorInv'
    BY ExitIsFinal DEF MonitorInv, vars
  <2> USE DEF Go, TypeOK, MonitorInv, config, threadVars, Thread
  <2>1. CASE Serve
    BY <2>1, ConfigOK DEF Serve
  <2>2. CASE InitService
    BY <2>2 DEF InitService
  <2>3. CASE Signal
    BY <2>3 DEF Signal
  <2>4. ASSUME NEW t \in Thread, ThreadStep(t) PROVE MonitorInv'
    <3>1. CASE Proceed(t)
      BY <3>1 DEF Proceed, MayProceed
    <3>2. CASE Enter(t)
      BY <3>2 DEF Enter, MayEnter
    <3>3. CASE Leave(t)
      BY <3>3 DEF Leave
    <3>4. ~Exit(t)
      BY LifetimeAssumption DEF Exit
    <3> QED
      BY <2>4, <3>1, <3>2, <3>3, <3>4 DEF ThreadStep
  <2>5. CASE Check
    BY <2>5 DEF Check, MayCheck
  <2>6. CASE Look \/ RemoteShutdown
    BY <2>6 DEF Look, RemoteShutdown, MayLook
  <2>7. CASE UNCHANGED <<timeout, init, pc>>
    BY <2>7
  <2> QED
    BY <2>1, <2>2, <2>3, <2>4, <2>5, <2>6, <2>7
    DEF Next, ClientStep, Connect, Call, Touch, Return, OwnerGone, Reuse, Tick, vars
<1> QED
  BY <1>1, <1>2, LifeTypeCorrect, PTL DEF Spec

LEMMA LockInvariant == Spec => []LockInv
<1>1. Init => LockInv
  BY DEF Init, LockInv
<1>2. TypeOK /\ MonitorInv /\ LockInv /\ [Next]_vars => LockInv'
  <2> SUFFICES ASSUME TypeOK, MonitorInv, LockInv, [Next]_vars, exit = None, exit' = None, lock' # None
               PROVE  pc'[lock'] = "leave" \/ Wedged'
    BY ExitIsFinal DEF LockInv, vars
  <2> USE DEF Go, TypeOK, LockInv, Wedged, threadVars, Thread
  <2>1. CASE Serve
    BY <2>1 DEF Serve, MonitorInv
  <2>2. CASE Signal
    BY <2>2 DEF Signal
  <2>3. ASSUME NEW t \in Thread, ThreadStep(t) PROVE pc'[lock'] = "leave" \/ Wedged'
    <3>1. CASE Proceed(t)
      BY <3>1 DEF Proceed, MayProceed
    <3>2. CASE Enter(t)
      BY <3>2 DEF Enter
    <3>3. CASE Leave(t) \/ Exit(t)
      BY <3>3 DEF Leave, Exit
    <3> QED
      BY <2>3, <3>1, <3>2, <3>3 DEF ThreadStep
  <2>4. CASE Check \/ Look \/ RemoteShutdown
    BY <2>4 DEF Check, Look, RemoteShutdown, MayCheck, MayLook
  <2>5. CASE UNCHANGED <<pc, lock>>
    BY <2>5
  <2> QED
    BY <2>1, <2>2, <2>3, <2>4, <2>5
    DEF Next, InitService, ClientStep, Connect, Call, Touch, Return, OwnerGone, Reuse, Tick, vars
<1> QED
  BY <1>1, <1>2, LifeTypeCorrect, MonitorInvariant, PTL DEF Spec

\* So no time passes while a thread is past its wait, unless the main thread is wedged
LEMMA NoTimeInside ==
    ASSUME TypeOK, LockInv, Tick, NEW t \in Thread, pc[t] \in {"enter", "leave", "exit"}
    PROVE  Wedged
<1>1. ~MayEnter(t) /\ exit = None /\ \A u \in Thread : pc[u] \notin {"leave", "exit"}
  BY DEF Tick, Due
<1>2. lock # None
  BY <1>1 DEF MayEnter
<1> QED
  BY <1>1, <1>2 DEF LockInv, TypeOK

-----------------------------------------------------------------------------
(* The idle exit                                                           *)

\* While the service is there and nobody shuts it down, the monitor's sleep and the idle
\* time add up to less than the timeout and a poll interval
OvershootInv ==
    /\ exit = None /\ pc["monitor"] = "sleep" => wait["monitor"] <= Poll(timeout)
    /\ exit = None /\ timeout > 0 /\ init = "service" /\ ~closing /\ ~Wedged
        => /\ idle < timeout + Poll(timeout)
           /\ pc["monitor"] = "sleep" => idle + wait["monitor"] < timeout + Poll(timeout)

LEMMA CheckOvershoot == TypeOK /\ OvershootInv /\ Check => OvershootInv'
<1> SUFFICES ASSUME TypeOK, OvershootInv, Check PROVE OvershootInv'
  OBVIOUS
<1>1. timeout \in Nat /\ idle \in Nat /\ Poll(timeout) \in 5 .. 60
  BY ConfigOK DEF TypeOK
<1>2. UNCHANGED <<timeout, exit, init, closing, idle>> /\ Poll(timeout)' = Poll(timeout) /\ pc'["main"] = pc["main"]
  BY DEF Check, config, Go, TypeOK, Thread, Poll
<1>3. CASE init = "service" /\ ShouldExit
  <2>1. pc'["monitor"] = "enter"
    BY <1>3 DEF Check, Go, TypeOK, Thread
  <2> QED
    BY <1>2, <2>1 DEF OvershootInv, Wedged
<1>4. CASE ~(init = "service" /\ ShouldExit)
  <2>1. wait'["monitor"] = Poll(timeout)
    BY <1>4 DEF Check, Go, TypeOK, Thread
  <2>2. init = "service" /\ ~closing => idle < timeout
    BY <1>1, <1>4 DEF ShouldExit
  <2> QED
    BY <1>1, <1>2, <2>1, <2>2 DEF OvershootInv, Wedged
<1> QED
  BY <1>3, <1>4

LEMMA TickOvershoot == TypeOK /\ MonitorInv /\ LockInv /\ OvershootInv /\ Tick => OvershootInv'
<1> SUFFICES ASSUME TypeOK, MonitorInv, LockInv, OvershootInv, Tick PROVE OvershootInv'
  OBVIOUS
<1>1. timeout \in Nat /\ idle \in Nat /\ Poll(timeout) \in 5 .. 60 /\ wait["monitor"] \in Nat
  BY ConfigOK DEF TypeOK, Thread
<1>2. UNCHANGED <<timeout, exit, init, closing, pc>> /\ Poll(timeout)' = Poll(timeout)
  BY DEF Tick, config, Poll
<1>3. wait'["monitor"] = Slept(wait["monitor"]) /\ idle' \in {idle, idle + 1}
  BY <1>1, UpToOK DEF Tick, Thread
<1>4. pc["monitor"] = "sleep" => wait'["monitor"] <= Poll(timeout)
  BY <1>1, <1>3 DEF OvershootInv, Slept, Tick
<1>5. ASSUME timeout > 0, init = "service", ~closing, ~Wedged
      PROVE  pc["monitor"] = "sleep" /\ wait["monitor"] > 0
  <2>1. exit = None /\ ~MayCheck /\ \A t \in Thread : pc[t] # "leave"
    BY DEF Tick, Due
  <2>2. pc["monitor"] = "sleep"
    BY <1>1, <1>5, <2>1, NoTimeInside DEF MonitorInv, Thread
  <2>3. lock = None
    BY <1>5, <2>1 DEF LockInv, TypeOK
  <2> QED
    BY <1>1, <2>1, <2>2, <2>3 DEF MayCheck
<1>6. ASSUME timeout > 0, init = "service", ~closing, ~Wedged
      PROVE  idle' + wait'["monitor"] < timeout + Poll(timeout)
  <2>1. idle + wait["monitor"] < timeout + Poll(timeout)
    BY <1>5, <1>6 DEF OvershootInv, Tick
  <2> QED
    BY <1>1, <1>3, <1>5, <1>6, <2>1 DEF Slept
<1>7. wait'["monitor"] \in Nat
  BY <1>1, <1>3 DEF Slept
<1> QED
  BY <1>1, <1>2, <1>3, <1>4, <1>5, <1>6, <1>7 DEF OvershootInv, Wedged

LEMMA OvershootInvariant == Spec => []OvershootInv
<1>1. Init => OvershootInv
  BY LifetimeAssumption DEF Init, OvershootInv, Thread
<1>2. TypeOK /\ MonitorInv /\ LockInv /\ OvershootInv /\ [Next]_vars => OvershootInv'
  <2> SUFFICES ASSUME TypeOK, MonitorInv, LockInv, OvershootInv, [Next]_vars, exit = None, exit' = None
               PROVE  OvershootInv'
    BY ExitIsFinal DEF OvershootInv, vars
  <2>1. UNCHANGED timeout => Poll(timeout)' = Poll(timeout)
    BY DEF Poll
  <2>2. timeout \in Nat /\ idle \in Nat /\ wait["monitor"] \in Nat /\ Poll(timeout) \in 5 .. 60
    BY ConfigOK DEF TypeOK, Thread
  <2> USE DEF Go, TypeOK, OvershootInv, Wedged, config, threadVars, Thread
  <2>3. CASE Serve
    BY <2>1, <2>2, <2>3 DEF Serve, MonitorInv
  <2>4. CASE InitService
    BY <2>1, <2>2, <2>4 DEF InitService
  <2>5. CASE Signal
    BY <2>1, <2>2, <2>5 DEF Signal
  <2>6. ASSUME NEW t \in Thread, ThreadStep(t) PROVE OvershootInv'
    <3>1. CASE Proceed(t)
      BY <2>1, <2>2, <3>1 DEF Proceed, MayProceed
    <3>2. CASE Enter(t)
      BY <2>1, <2>2, <3>2 DEF Enter, MayEnter
    <3>3. CASE Leave(t)
      BY <2>1, <2>2, <3>3 DEF Leave
    <3>4. ~Exit(t)
      BY LifetimeAssumption DEF Exit
    <3> QED
      BY <2>6, <3>1, <3>2, <3>3, <3>4 DEF ThreadStep
  <2>7. CASE Look \/ RemoteShutdown
    BY <2>1, <2>2, <2>7 DEF Look, RemoteShutdown, MayLook
  <2>8. ASSUME NEW c \in Client, ClientStep(c) PROVE OvershootInv'
    <3>1. UNCHANGED <<timeout, exit, init, closing, pc, wait>> /\ idle' \in {0, idle}
      BY <2>8 DEF ClientStep, Connect, Call, Touch, Return, Activity
    <3> QED
      BY <2>1, <2>2, <3>1
  <2>9. CASE UNCHANGED <<timeout, init, closing, pc, wait, idle>>
    BY <2>1, <2>9
  <2> HIDE DEF Go, TypeOK, OvershootInv, Wedged, Thread
  <2> QED
    BY <2>3, <2>4, <2>5, <2>6, <2>7, <2>8, <2>9, CheckOvershoot, TickOvershoot
    DEF Next, OwnerGone, Reuse, vars
<1> QED
  BY <1>1, <1>2, LifeTypeCorrect, MonitorInvariant, LockInvariant, PTL DEF Spec

\* A manager nobody asked to shut down is never idle for a poll interval longer than its
\* timeout, whatever the timeout and the phase of the monitor.
THEOREM OvershootIsBounded == Spec => []OvershootBounded
<1>1. OvershootInv => OvershootBounded
  BY DEF OvershootInv, OvershootBounded
<1> QED
  BY <1>1, OvershootInvariant, PTL

-----------------------------------------------------------------------------
(* Calls that the idle exit interrupts                                     *)

\* A running call is at least as old as the last activity, or as the timeout; once the
\* monitor has decided, as the timeout
CutInv ==
    /\ exit = None => \A c \in Client :
        /\ client[c] # "cut"
        /\ client[c] = "running" => lasted[c] >= timeout \/ idle <= lasted[c]
        /\ client[c] = "running" /\ pc["monitor"] \notin {"unborn", "sleep"}
            => lasted[c] >= timeout \/ c \in late
    /\ IdleCutsOnlyLongOrLate

LEMMA CheckCuts == TypeOK /\ CutInv /\ Check => CutInv'
<1> SUFFICES ASSUME TypeOK, CutInv, Check PROVE CutInv'
  OBVIOUS
<1>1. UNCHANGED <<timeout, exit, idle, client, lasted, late>> /\ exit = None
  BY DEF Check, config, clientVars
<1>2. pc'["monitor"] # "sleep" => idle >= timeout
  BY DEF Check, Go, TypeOK, Thread, ShouldExit
<1>3. timeout \in Nat /\ idle \in Nat /\ \A c \in Client : lasted[c] \in Nat
  BY ConfigOK DEF TypeOK
<1> QED
  BY <1>1, <1>2, <1>3 DEF CutInv, IdleCutsOnlyLongOrLate

LEMMA ExitCuts ==
    ASSUME TypeOK, MonitorInv, CutInv, NEW t \in Thread, Exit(t)
    PROVE  CutInv'
<1>1. exit = None /\ exit' = t /\ t # None /\ UNCHANGED <<timeout, lasted, late>>
  BY LifetimeAssumption DEF Exit, config
<1>2. \A c \in Client : client'[c] = "cut" => client[c] = "running"
  BY <1>1 DEF Exit, CutInv
<1>3. t = "monitor" => pc["monitor"] = "exit"
  BY DEF Exit
<1> QED
  BY <1>1, <1>2, <1>3 DEF CutInv, IdleCutsOnlyLongOrLate

LEMMA ClientCuts ==
    ASSUME TypeOK, CutInv, NEW c \in Client, ClientStep(c)
    PROVE  CutInv'
<1>1. UNCHANGED <<timeout, exit, pc>> /\ exit = None
  BY DEF ClientStep, Connect, Call, Touch, Return, config, threadVars
<1>2. timeout \in Nat /\ idle \in Nat /\ \A d \in Client : lasted[d] \in Nat
  BY ConfigOK DEF TypeOK
<1>3. \A d \in Client \ {c} : client'[d] = client[d] /\ lasted'[d] = lasted[d] /\ (d \in late' <=> d \in late)
  BY DEF ClientStep, Connect, Call, Touch, Return, To, clientVars, TypeOK
<1>4. idle' \in {0, idle}
  BY DEF ClientStep, Connect, Call, Touch, Return, Activity
<1>5. ASSUME client'[c] = "running"
      PROVE  /\ lasted'[c] >= timeout \/ idle' <= lasted'[c]
             /\ pc["monitor"] \notin {"unborn", "sleep"} => lasted'[c] >= timeout \/ c \in late'
  <2>1. CASE Call(c)
    BY <1>2, <2>1 DEF Call, Activity, TypeOK
  <2>2. CASE Touch(c)
    BY <1>1, <1>2, <2>2 DEF Touch, Activity, clientVars, CutInv
  <2>3. ~Connect(c) /\ ~Return(c)
    BY <1>5 DEF Connect, Return, To, TypeOK
  <2> QED
    BY <2>1, <2>2, <2>3 DEF ClientStep
<1>6. client'[c] # "cut"
  BY <1>1 DEF ClientStep, Connect, Call, Touch, Return, To, clientVars, TypeOK, CutInv
<1> QED
  <2>1. exit' # "monitor"
    BY <1>1, LifetimeAssumption DEF Thread
  <2>2. ASSUME NEW d \in Client
        PROVE  (/\ client[d] # "cut"
                /\ client[d] = "running" => lasted[d] >= timeout \/ idle <= lasted[d]
                /\ client[d] = "running" /\ pc["monitor"] \notin {"unborn", "sleep"}
                    => lasted[d] >= timeout \/ d \in late)'
    <3>1. CASE d = c
      BY <1>1, <1>5, <1>6, <3>1
    <3>2. CASE d # c
      BY <1>1, <1>2, <1>3, <1>4, <3>2 DEF CutInv
    <3> QED
      BY <3>1, <3>2
  <2> QED
    BY <2>1, <2>2 DEF CutInv, IdleCutsOnlyLongOrLate

LEMMA TickCuts == TypeOK /\ CutInv /\ Tick => CutInv'
<1> SUFFICES ASSUME TypeOK, CutInv, Tick PROVE CutInv'
  OBVIOUS
<1>1. exit = None /\ UNCHANGED <<timeout, exit, pc, client, late>>
  BY DEF Tick, config
<1>2. timeout \in Nat /\ idle \in Nat /\ \A c \in Client : lasted[c] \in Nat
  BY ConfigOK DEF TypeOK
<1>3. idle' \in {idle, idle + 1}
  BY <1>2, UpToOK, ConfigOK DEF Tick
<1>4. \A c \in Client : client[c] = "running" => lasted'[c] = UpTo(timeout, lasted[c])
  BY DEF Tick
<1>5. ASSUME NEW c \in Client, client[c] = "running"
      PROVE  /\ lasted'[c] >= timeout \/ idle' <= lasted'[c]
             /\ lasted[c] >= timeout => lasted'[c] >= timeout
  BY <1>1, <1>2, <1>3, <1>4, <1>5 DEF UpTo, CutInv
<1>6. exit # "monitor"
  BY <1>1, LifetimeAssumption DEF Thread
<1> QED
  BY <1>1, <1>5, <1>6 DEF CutInv, IdleCutsOnlyLongOrLate

LEMMA CutInvariant == Spec => []CutInv
<1>1. Init => CutInv
  BY LifetimeAssumption DEF Init, CutInv, IdleCutsOnlyLongOrLate, Thread
<1>2. TypeOK /\ MonitorInv /\ CutInv /\ [Next]_vars => CutInv'
  <2> SUFFICES ASSUME TypeOK, MonitorInv, CutInv, [Next]_vars PROVE CutInv'
    OBVIOUS
  <2>1. CASE InitService
    BY <2>1, ConfigOK DEF InitService, CutInv, IdleCutsOnlyLongOrLate, TypeOK, config, threadVars, clientVars
  <2>2. ASSUME UNCHANGED <<timeout, exit, idle, clientVars>>, pc'["monitor"] \in {"unborn", "sleep"} \/ pc["monitor"] \notin {"unborn", "sleep"}
        PROVE  CutInv'
    BY <2>2 DEF CutInv, IdleCutsOnlyLongOrLate, clientVars
  <2>3. CASE Serve \/ Signal \/ Look \/ RemoteShutdown
    <3>1. pc'["monitor"] \in {pc["monitor"], "sleep"} /\ UNCHANGED <<timeout, exit, idle, clientVars>>
      BY <2>3 DEF Serve, Signal, Look, RemoteShutdown, Go, TypeOK, Thread, config
    <3> QED
      BY <2>2, <3>1
  <2>4. ASSUME NEW t \in Thread, Proceed(t) \/ Enter(t) \/ Leave(t) PROVE CutInv'
    <3>1. UNCHANGED <<timeout, exit, idle, clientVars>>
      BY <2>4 DEF Proceed, Enter, Leave, config
    <3>2. t # "monitor" => pc'["monitor"] = pc["monitor"]
      BY <2>4 DEF Proceed, Enter, Leave, Go, TypeOK, Thread
    <3>3. t = "monitor" => pc["monitor"] \notin {"unborn", "sleep"}
      BY <2>4 DEF Proceed, Enter, Leave, MayProceed, MayEnter
    <3> QED
      BY <2>2, <3>1, <3>2, <3>3
  <2>5. CASE UNCHANGED <<timeout, exit, idle, clientVars, pc>>
    BY <2>2, <2>5
  <2>6. CASE OwnerGone \/ Reuse \/ UNCHANGED vars
    BY <2>5, <2>6 DEF OwnerGone, Reuse, vars, config, threadVars
  <2> QED
    BY <2>1, <2>3, <2>4, <2>6, CheckCuts, ExitCuts, ClientCuts, TickCuts DEF Next, ThreadStep
<1> QED
  BY <1>1, <1>2, LifeTypeCorrect, MonitorInvariant, PTL DEF Spec

\* The idle exit interrupts a running call only if it has run for the whole idle timeout
\* or began after the monitor's decision.
THEOREM OnlyLongOrLateAreCut == Spec => []IdleCutsOnlyLongOrLate
<1>1. CutInv => IdleCutsOnlyLongOrLate
  BY DEF CutInv
<1> QED
  BY <1>1, CutInvariant, PTL

-----------------------------------------------------------------------------
(* The owner's end                                                         *)

\* What the watchdog has still to wait, and how long the owner has been gone, add up to a
\* period while it sleeps, and to a period and the wait for the service after that
OrphanInv ==
    exit = None /\ mode # "none" =>
        /\ target # "gone" => orphan = 0
        /\ pc["watchdog"] \in {"sleep", "await", "enter", "leave", "exit"}
        /\ pc["watchdog"] = "sleep" => orphan + wait["watchdog"] <= Period
        /\ pc["watchdog"] = "await" => orphan + wait["watchdog"] <= Period + ReadyWait
        /\ pc["watchdog"] \in {"enter", "leave", "exit"} /\ ~Wedged => orphan <= Period + ReadyWait

LEMMA OrphanNumbers ==
    TypeOK => orphan \in Nat /\ wait["watchdog"] \in Nat /\ ReadyWait \in Nat /\ Period \in {2, 3}
BY ConfigOK, LifetimeAssumption DEF TypeOK, Thread

LEMMA LookOrphan == TypeOK /\ OrphanInv /\ Look => OrphanInv'
<1> SUFFICES ASSUME TypeOK, OrphanInv, Look PROVE OrphanInv'
  OBVIOUS
<1>1. UNCHANGED <<mode, exit, target, orphan>> /\ Period' = Period /\ exit = None
  BY DEF Look, config, worldVars, Period
<1>2. pc["watchdog"] = "sleep" /\ wait["watchdog"] = 0
  BY DEF Look, MayLook
<1>3. CASE target = "gone"
  <2>1. pc'["watchdog"] = "await" /\ wait'["watchdog"] = ReadyWait
    BY <1>3 DEF Look, Go, TypeOK, Thread
  <2> QED
    BY <1>1, <1>2, <2>1, OrphanNumbers DEF OrphanInv
<1>4. CASE target # "gone"
  <2>1. pc'["watchdog"] = "sleep" /\ wait'["watchdog"] = Period
    BY <1>4 DEF Look, Go, TypeOK, Thread
  <2> QED
    BY <1>1, <1>2, <1>4, <2>1, OrphanNumbers DEF OrphanInv
<1> QED
  BY <1>3, <1>4

LEMMA TickOrphan == TypeOK /\ LockInv /\ OrphanInv /\ Tick => OrphanInv'
<1> SUFFICES ASSUME TypeOK, LockInv, OrphanInv, Tick, mode # "none" PROVE OrphanInv'
  BY DEF OrphanInv, Tick, config
<1>1. UNCHANGED <<mode, exit, target, pc>> /\ Period' = Period /\ exit = None
  BY DEF Tick, config, Period
<1>2. wait'["watchdog"] = Slept(wait["watchdog"])
  BY DEF Tick, Thread
<1>3. orphan' \in {orphan, orphan + 1} /\ (target # "gone" => orphan' = orphan)
  BY OrphanNumbers, UpToOK DEF Tick
<1>4. pc["watchdog"] \in {"sleep", "await"} => wait["watchdog"] > 0
  <2>1. ~MayLook /\ ~MayProceed("watchdog")
    BY DEF Tick, Due, Thread
  <2> QED
    BY <2>1, OrphanNumbers DEF MayLook, MayProceed
<1>5. pc["watchdog"] \in {"enter", "leave", "exit"} => Wedged
  BY NoTimeInside DEF Thread
<1> QED
  BY <1>1, <1>2, <1>3, <1>4, <1>5, OrphanNumbers DEF OrphanInv, Slept, Wedged

LEMMA ThreadOrphan ==
    ASSUME TypeOK, OrphanInv, NEW t \in Thread, Proceed(t) \/ Enter(t) \/ Leave(t)
    PROVE  OrphanInv'
<1>1. UNCHANGED <<mode, exit, target, orphan>> /\ Period' = Period /\ exit = None
  BY DEF Proceed, Enter, Leave, config, worldVars, Period
<1>2. Wedged => Wedged'
  BY DEF Proceed, Enter, Leave, MayProceed, MayEnter, Go, Wedged, TypeOK, Thread
<1>3. CASE t # "watchdog"
  <2>1. pc'["watchdog"] = pc["watchdog"] /\ wait'["watchdog"] = wait["watchdog"]
    BY <1>3 DEF Proceed, Enter, Leave, Go, TypeOK, Thread
  <2> QED
    BY <1>1, <1>2, <2>1, OrphanNumbers DEF OrphanInv
<1>4. CASE t = "watchdog"
  <2>1. pc["watchdog"] \in {"await", "enter", "leave"} /\ pc'["watchdog"] \in {"enter", "leave", "exit"}
    BY <1>4 DEF Proceed, Enter, Leave, MayProceed, MayEnter, Go, TypeOK, Thread
  <2> QED
    BY <1>1, <1>2, <2>1, OrphanNumbers DEF OrphanInv
<1> QED
  BY <1>3, <1>4

LEMMA OrphanInvariant == Spec => []OrphanInv
<1>1. Init => OrphanInv
  BY LifetimeAssumption DEF Init, OrphanInv, Thread, Period
<1>2. TypeOK /\ LockInv /\ OrphanInv /\ [Next]_vars => OrphanInv'
  <2> SUFFICES ASSUME TypeOK, LockInv, OrphanInv, [Next]_vars, exit = None, exit' = None
               PROVE  OrphanInv'
    BY ExitIsFinal DEF OrphanInv, vars
  <2>1. ASSUME UNCHANGED <<mode, exit, target, orphan>>, pc'["watchdog"] = pc["watchdog"],
               wait'["watchdog"] = wait["watchdog"], Wedged => Wedged'
        PROVE  OrphanInv'
    BY <2>1 DEF OrphanInv, Period
  <2>2. CASE Serve \/ Signal
    <3>1. pc'["watchdog"] = pc["watchdog"] /\ wait'["watchdog"] = wait["watchdog"]
      BY <2>2 DEF Serve, Signal, Go, TypeOK, Thread
    <3>2. UNCHANGED <<mode, exit, target, orphan>> /\ (Wedged => Wedged')
      BY <2>2 DEF Serve, Signal, Go, TypeOK, Thread, config, worldVars, Wedged
    <3> QED
      BY <2>1, <3>1, <3>2
  <2>3. CASE Check \/ RemoteShutdown
    <3>1. /\ pc'["watchdog"] = pc["watchdog"] /\ wait'["watchdog"] = wait["watchdog"]
          /\ UNCHANGED <<mode, exit, target, orphan>> /\ pc'["main"] = pc["main"]
      BY <2>3 DEF Check, RemoteShutdown, Go, TypeOK, Thread, config, worldVars
    <3> QED
      BY <2>1, <3>1 DEF Wedged
  <2>4. CASE OwnerGone \/ Reuse
    BY <2>4, OrphanNumbers DEF OwnerGone, Reuse, OrphanInv, Period, Wedged, config, threadVars
  <2>5. ASSUME NEW c \in Client, ClientStep(c) PROVE OrphanInv'
    <3>1. UNCHANGED <<config, exit, threadVars, worldVars>>
      BY <2>5 DEF ClientStep, Connect, Call, Touch, Return
    <3> QED
      BY <2>1, <3>1 DEF config, threadVars, worldVars, Wedged
  <2>6. CASE InitService \/ UNCHANGED vars
    <3>1. UNCHANGED <<config, exit, threadVars, worldVars>>
      BY <2>6 DEF InitService, vars
    <3> QED
      BY <2>1, <3>1 DEF config, threadVars, worldVars, Wedged
  <2>7. \A t \in Thread : ~Exit(t)
    BY LifetimeAssumption DEF Exit
  <2> QED
    BY <2>2, <2>3, <2>4, <2>5, <2>6, <2>7, LookOrphan, TickOrphan, ThreadOrphan DEF Next, ThreadStep
<1> QED
  BY <1>1, <1>2, LifeTypeCorrect, LockInvariant, PTL DEF Spec

\* A process outlives its owner by one period of the watchdog and the wait for the service
\* at most, unless the signal handler has wedged itself.
THEOREM OrphanIsBounded == Spec => []OrphanBounded
<1>1. TypeOK /\ OrphanInv => OrphanBounded
  <2> SUFFICES ASSUME TypeOK, OrphanInv PROVE OrphanBounded
    OBVIOUS
  <2> QED
    BY OrphanNumbers DEF OrphanInv, OrphanBounded
<1> QED
  BY <1>1, LifeTypeCorrect, OrphanInvariant, PTL

=============================================================================
