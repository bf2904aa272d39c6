--------------------------- MODULE ManagerService ---------------------------
(***************************************************************************)
(* What the connection plugin promises the tasks of a playbook, with no    *)
(* files, locks or processes: one manager is provided for an identity,     *)
(* every task attaches to that manager and is served by it, and it is      *)
(* retired only when no task is left.                                      *)
(***************************************************************************)
CONSTANTS Worker, Manager, None

VARIABLES
    provider,   \* the manager that serves the identity, or None
    client,     \* the manager each worker is attached to, or None
    served      \* the workers whose task is over

vars == <<provider, client, served>>

Init ==
    /\ provider \in Manager \cup {None}
    /\ client = [w \in Worker |-> None]
    /\ served = {}

Provide(m) ==
    /\ provider = None
    /\ provider' = m
    /\ UNCHANGED <<client, served>>

Attach(w) ==
    /\ provider # None
    /\ client[w] = None
    /\ client' = [client EXCEPT ![w] = provider]
    /\ UNCHANGED <<provider, served>>

Serve(w) ==
    /\ client[w] # None
    /\ served' = served \cup {w}
    /\ UNCHANGED <<provider, client>>

Retire ==
    /\ served = Worker
    /\ provider' = None
    /\ UNCHANGED <<client, served>>

Next ==
    \/ \E m \in Manager : Provide(m)
    \/ \E w \in Worker : Attach(w) \/ Serve(w)
    \/ Retire

Spec == Init /\ [][Next]_vars /\ \A w \in Worker : WF_vars(Serve(w))
=============================================================================
