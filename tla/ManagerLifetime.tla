--------------------------- MODULE ManagerLifetime ---------------------------
(***************************************************************************)
(* The life of one manager process, second by second: the thread that      *)
(* initialises the service, the idle monitor, the owner watchdog, the      *)
(* signal handler on the main thread, and the clients that call.  Three of *)
(* the threads, and any client, may run PlatformService.shutdown, whose    *)
(* lock should_exit_for_idle also needs.                                   *)
(*                                                                         *)
(* Time is discrete.  A thread that can go on does so before the clock     *)
(* advances; calls and the initialisation take as long as they like.       *)
(***************************************************************************)
EXTENDS Integers

CONSTANTS
    Client,      \* who may connect
    None,        \* nobody
    Modes,       \* what the watchdog may have been told to look at
    Timeouts,    \* the idle timeouts to consider, in seconds, 0 for "never"
    ReadyWait,   \* how long a thread waits for the service, 60 s in the code
    MaxSignals,  \* bound on the signals sent to the process
    PidReuse     \* may the owner's pid be given to another process?

\* The last serves a client that calls shutdown
Thread == {"main", "monitor", "watchdog", "remote"}

ASSUME LifetimeAssumption ==
    /\ None \notin Thread
    /\ Modes \subseteq {"owner", "survive", "none"}
    /\ Timeouts \subseteq Nat
    /\ ReadyWait \in Nat
    /\ MaxSignals \in Nat
    /\ PidReuse \in BOOLEAN

VARIABLES
    timeout,  \* config.idle_timeout
    mode,     \* what the watchdog looks at: the owner's pid, the .survive file, nothing
    exit,     \* the thread that ended the process, None while it lives
    init,     \* the service: "unborn", "running", "service" or "error"
    closing,  \* _shutdown_requested
    lock,     \* the holder of _shutdown_lock
    pc,       \* where each thread is
    wait,     \* how long it still sleeps or waits
    idle,     \* seconds since the last activity
    client,   \* where each client is
    lasted,   \* for how long its call has been running
    target,   \* the owner, or the .survive file
    signals,  \* how many signals may still arrive
    orphan,   \* history: for how long the owner has been gone
    late      \* history: clients whose call began after the idle monitor had decided

config == <<timeout, mode>>
threadVars == <<pc, wait>>
clientVars == <<client, lasted, late>>
worldVars == <<target, signals, orphan>>
vars == <<config, exit, init, closing, lock, threadVars, idle, clientVars, worldVars>>

\* _compute_poll_interval
Poll(t) ==
    LET tenth == t \div 10 IN
    CASE t <= 0 \/ tenth > 60 -> 60
      [] t > 0 /\ tenth < 5 -> 5
      [] OTHER -> tenth

\* How long the watchdog sleeps
Period == IF mode = "survive" THEN 2 ELSE 3

Ready == init \in {"service", "error"}
Wedged == pc["main"] = "wedged"

TypeOK ==
    /\ timeout \in Timeouts
    /\ mode \in Modes
    /\ exit \in Thread \cup {None}
    /\ init \in {"unborn", "running", "service", "error"}
    /\ closing \in BOOLEAN
    /\ lock \in Thread \cup {None}
    /\ pc \in [Thread -> {"unborn", "start", "serve", "sleep", "await", "enter", "leave", "exit", "wedged", "done"}]
    /\ wait \in [Thread -> Nat]
    /\ idle \in Nat
    /\ client \in [Client -> {"new", "connected", "running", "refused", "cut"}]
    /\ lasted \in [Client -> Nat]
    /\ late \subseteq Client
    /\ target \in {"there", "gone", "again"}
    /\ signals \in 0 .. MaxSignals
    /\ orphan \in Nat

\* main(), once the signal handlers are installed and the watchdog thread is started
Init ==
    /\ timeout \in Timeouts
    /\ mode \in Modes
    /\ exit = None
    /\ init = "unborn"
    /\ closing = FALSE
    /\ lock = None
    /\ pc = [t \in Thread |->
            CASE t = "main" -> "start"
              [] t \in {"monitor", "remote"} -> "unborn"
              [] t = "watchdog" -> IF mode = "none" THEN "unborn" ELSE "sleep"]
    /\ wait = [t \in Thread |-> IF t = "watchdog" /\ mode = "owner" THEN 3 ELSE 0]
    /\ idle = 0
    /\ client = [c \in Client |-> "new"]
    /\ lasted = [c \in Client |-> 0]
    /\ late = {}
    /\ target = "there"
    /\ signals = MaxSignals
    /\ orphan = 0

Go(t, point, seconds) ==
    /\ pc' = [pc EXCEPT ![t] = point]
    /\ wait' = [wait EXCEPT ![t] = seconds]

-----------------------------------------------------------------------------
(* The main thread and the initialisation of the service                   *)

\* The init thread and the idle monitor start, then serve_forever
Serve ==
    /\ exit = None
    /\ pc["main"] = "start"
    /\ init' = "running"
    /\ IF timeout > 0
       THEN /\ pc' = [pc EXCEPT !["main"] = "serve", !["monitor"] = "sleep"]
            /\ wait' = [wait EXCEPT !["monitor"] = Poll(timeout)]
       ELSE Go("main", "serve", 0)
    /\ UNCHANGED <<config, exit, closing, lock, idle, clientVars, worldVars>>

\* _init_service, in the end
InitService ==
    /\ exit = None
    /\ init = "running"
    /\ \/ init' = "service" /\ idle' = 0
       \/ init' = "error" /\ UNCHANGED idle
    /\ UNCHANGED <<config, exit, closing, lock, threadVars, clientVars, worldVars>>

\* signal_handler runs on the main thread, wherever that is.  If it interrupts an earlier
\* run of itself that holds _shutdown_lock, it waits for a lock its own thread holds.
Signal ==
    /\ exit = None
    /\ signals > 0
    /\ signals' = signals - 1
    /\ IF pc["main"] \in {"leave", "wedged"} THEN Go("main", "wedged", 0) ELSE Go("main", "await", ReadyWait)
    /\ UNCHANGED <<config, exit, init, closing, lock, idle, clientVars, target, orphan>>

-----------------------------------------------------------------------------
(* _shutdown_service and the end of the process                            *)

\* Mutant of MayProceed: _service_ready.wait() without a timeout
MayProceedReady(t) == pc[t] = "await" /\ Ready

\* _service_ready.wait(timeout=60)
MayProceed(t) == pc[t] = "await" /\ (Ready \/ wait[t] = 0)

MayEnter(t) == pc[t] = "enter" /\ lock = None

Proceed(t) ==
    /\ exit = None
    /\ MayProceed(t)
    /\ Go(t, IF init = "service" THEN "enter" ELSE "exit", 0)
    /\ UNCHANGED <<config, exit, init, closing, lock, idle, clientVars, worldVars>>

\* PlatformService.shutdown: with self._shutdown_lock ...
Enter(t) ==
    /\ exit = None
    /\ MayEnter(t)
    /\ lock' = t
    /\ Go(t, "leave", 0)
    /\ UNCHANGED <<config, exit, init, closing, idle, clientVars, worldVars>>

\* ... self._shutdown_requested = True
Leave(t) ==
    /\ exit = None
    /\ pc[t] = "leave"
    /\ closing' = TRUE
    /\ lock' = None
    /\ Go(t, IF t = "remote" THEN "done" ELSE "exit", 0)
    /\ UNCHANGED <<config, exit, init, idle, clientVars, worldVars>>

\* os._exit of the monitor and the watchdog, sys.exit of the handler
Exit(t) ==
    /\ exit = None
    /\ pc[t] = "exit"
    /\ exit' = t
    /\ client' = [c \in Client |-> IF client[c] = "running" THEN "cut" ELSE client[c]]
    /\ pc' = [u \in Thread |-> "done"]
    /\ wait' = [u \in Thread |-> 0]
    /\ lock' = None
    /\ UNCHANGED <<config, init, closing, idle, lasted, late, worldVars>>

-----------------------------------------------------------------------------
(* The idle monitor and the watchdog                                       *)

\* Mutant of ShouldExit: longer than the timeout, not as long as
ShouldExitLater == ~closing /\ idle > timeout

\* should_exit_for_idle, under _shutdown_lock
ShouldExit == ~closing /\ idle >= timeout

MayCheck == pc["monitor"] = "sleep" /\ wait["monitor"] = 0 /\ (init = "service" => lock = None)

\* Mutant of Check: the monitor looks once
CheckOnce ==
    /\ exit = None
    /\ MayCheck
    /\ Go("monitor", IF init = "service" /\ ShouldExit THEN "enter" ELSE "done", 0)
    /\ UNCHANGED <<config, exit, init, closing, lock, idle, clientVars, worldVars>>

\* Without a service, or with a failed one, the monitor sleeps on
Check ==
    /\ exit = None
    /\ MayCheck
    /\ IF init = "service" /\ ShouldExit
       THEN Go("monitor", "enter", 0)
       ELSE Go("monitor", "sleep", Poll(timeout))
    /\ UNCHANGED <<config, exit, init, closing, lock, idle, clientVars, worldVars>>

MayLook == pc["watchdog"] = "sleep" /\ wait["watchdog"] = 0

\* _owner_watchdog: a pid that was given away looks like the owner
Look ==
    /\ exit = None
    /\ MayLook
    /\ IF target = "gone" THEN Go("watchdog", "await", ReadyWait) ELSE Go("watchdog", "sleep", Period)
    /\ UNCHANGED <<config, exit, init, closing, lock, idle, clientVars, worldVars>>

-----------------------------------------------------------------------------
(* Clients                                                                 *)

To(c, point) == client' = [client EXCEPT ![c] = point]

\* get_platform_service, and _get_service with its wait: connecting is no activity
Connect(c) ==
    /\ exit = None
    /\ client[c] = "new"
    /\ To(c, IF init = "service" THEN "connected" ELSE "refused")
    /\ UNCHANGED <<config, exit, init, closing, lock, threadVars, idle, lasted, late, worldVars>>

\* Mutant of Activity: a call does not count
ActivityNone == UNCHANGED idle

\* record_activity
Activity == idle' = 0

\* execute and the other methods begin by recording the activity
Call(c) ==
    /\ exit = None
    /\ client[c] = "connected"
    /\ To(c, "running")
    /\ Activity
    /\ lasted' = [lasted EXCEPT ![c] = 0]
    /\ late' = IF pc["monitor"] \in {"unborn", "sleep"} THEN late \ {c} ELSE late \cup {c}
    /\ UNCHANGED <<config, exit, init, closing, lock, threadVars, worldVars>>

\* _make_request, and recoveries from a 401, count as well; nothing does at the end
Touch(c) ==
    /\ exit = None
    /\ client[c] = "running"
    /\ Activity
    /\ UNCHANGED <<config, exit, init, closing, lock, threadVars, clientVars, worldVars>>

Return(c) ==
    /\ exit = None
    /\ client[c] = "running"
    /\ To(c, "connected")
    /\ lasted' = [lasted EXCEPT ![c] = 0]
    /\ UNCHANGED <<config, exit, init, closing, lock, threadVars, idle, late, worldVars>>

\* ManagerRPCClient.shutdown_manager, which ends no process.  Once will do: a second
\* call returns without effect.
RemoteShutdown ==
    /\ exit = None
    /\ init = "service"
    /\ pc["remote"] = "unborn"
    /\ Go("remote", "enter", 0)
    /\ UNCHANGED <<config, exit, init, closing, lock, idle, clientVars, worldVars>>

-----------------------------------------------------------------------------
(* The rest of the world, and time                                         *)

\* ansible-playbook ends, or the .survive file is removed
OwnerGone ==
    /\ exit = None
    /\ mode # "none"
    /\ target \in {"there", "again"}
    /\ target' = "gone"
    /\ UNCHANGED <<config, exit, init, closing, lock, threadVars, idle, clientVars, signals, orphan>>

\* another process gets the pid
Reuse ==
    /\ exit = None
    /\ PidReuse
    /\ target = "gone"
    /\ target' = "again"
    /\ orphan' = 0
    /\ UNCHANGED <<config, exit, init, closing, lock, threadVars, idle, clientVars, signals>>

\* Somebody can go on without time passing
Due ==
    \/ MayCheck \/ MayLook
    \/ \E t \in Thread : MayProceed(t) \/ MayEnter(t) \/ pc[t] \in {"leave", "exit"}

\* The clocks stop where nothing depends on them any more
UpTo(bound, n) == IF n < bound THEN n + 1 ELSE n

\* Mutant of Slept: the clock runs on below zero
SleptOn(seconds) == seconds - 1

Slept(seconds) == IF seconds = 0 THEN 0 ELSE seconds - 1

Tick ==
    /\ exit = None
    /\ ~Due
    /\ wait' = [t \in Thread |-> Slept(wait[t])]
    /\ idle' = IF timeout > 0 /\ init = "service" /\ ~closing
               THEN UpTo(timeout + Poll(timeout), idle) ELSE idle
    /\ lasted' = [c \in Client |-> IF client[c] = "running" THEN UpTo(timeout, lasted[c]) ELSE lasted[c]]
    /\ orphan' = IF target = "gone" THEN UpTo(ReadyWait + 4, orphan) ELSE orphan
    /\ UNCHANGED <<config, exit, init, closing, lock, pc, client, late, target, signals>>

ThreadStep(t) == Proceed(t) \/ Enter(t) \/ Leave(t) \/ Exit(t)

ClientStep(c) == Connect(c) \/ Call(c) \/ Touch(c) \/ Return(c)

Next ==
    \/ Serve \/ InitService \/ Signal
    \/ \E t \in Thread : ThreadStep(t)
    \/ Check \/ Look
    \/ \E c \in Client : ClientStep(c)
    \/ RemoteShutdown
    \/ OwnerGone \/ Reuse
    \/ Tick
    \/ exit # None /\ UNCHANGED vars

\* The threads of the process run, time passes, and the requests of the initialisation
\* time out.  Nothing is assumed of clients.
Fairness ==
    /\ WF_vars(Serve) /\ WF_vars(InitService) /\ WF_vars(Check) /\ WF_vars(Look) /\ WF_vars(Tick)
    /\ \A t \in Thread : WF_vars(ThreadStep(t))

Spec == Init /\ [][Next]_vars /\ Fairness

-----------------------------------------------------------------------------
(* Properties                                                              *)

\* A manager nobody asked to shut down is never idle for a poll interval longer than its
\* timeout (_compute_poll_interval's docstring), whatever the phase of the monitor.
OvershootBounded ==
    exit = None /\ timeout > 0 /\ init = "service" /\ ~closing /\ ~Wedged
        => idle < timeout + Poll(timeout)

\* The idle exit interrupts a running call only if that call has run for the whole idle
\* timeout, or began between the monitor's decision and os._exit.
IdleCutsOnlyLongOrLate ==
    \A c \in Client : exit = "monitor" /\ client[c] = "cut" => lasted[c] >= timeout \/ c \in late

\* Once the owner has gone, and as long as its pid is not in use again, the process
\* outlives it by one period of the watchdog and the wait for the service at most;
\* except when a signal interrupted the handler of another inside shutdown.
OrphanBounded ==
    exit = None /\ mode # "none" /\ ~Wedged => orphan <= Period + ReadyWait

\* If the owner stays gone, a process with a watchdog ends: also after a shutdown by a
\* client, with a failed service, and while calls run.
OwnerExitEnds == <>[](target = "gone" /\ mode # "none") => <>(exit # None \/ Wedged)

\* If calls stop, a process with a service and an idle timeout ends even when the watchdog
\* misses the owner's end, unless a client has asked it to shut down.
IdleEnds ==
    <>[](\A c \in Client : client[c] # "running") /\ timeout > 0
        => <>(exit # None \/ Wedged \/ init = "error" \/ pc["remote"] # "unborn")

=============================================================================
