--------------------------- MODULE MCResourceTask ---------------------------
(* Small instances of ResourceTask for TLC.                                *)
EXTENDS ResourceTask, TLC

CONSTANTS t1, t2, a, b, v

TwoTasks == {t1, t2}
TwoFields == {a, b}
BlankOr == {Blank, v}

\* Field a has no documented default; b has one, or none
NoDefault == [f \in TwoFields |-> None]
DefaultB == [f \in TwoFields |-> IF f = a THEN None ELSE v]

\* Tasks that give a only, both, none, or one of them empty
OnlyA == [f \in TwoFields |-> IF f = a THEN v ELSE None]
Both == [f \in TwoFields |-> v]
Neither == [f \in TwoFields |-> None]
EmptyA == [f \in TwoFields |-> IF f = a THEN Blank ELSE None]
EmptyB == [f \in TwoFields |-> IF f = a THEN v ELSE Blank]

Requests(states, wishes, checks, directs) ==
    {[state |-> s, fields |-> w, check |-> c, direct |-> d] :
        s \in states, w \in wishes, c \in checks, d \in directs}

\* The tasks of one client
Service(states, wishes, checks) == Requests(states, wishes, checks, {FALSE})

\* With DefaultB.  Check mode ends before the clients differ, and absent and exists send
\* no fields
AllRequests ==
    UNION {Service({"present", "enforced"}, {OnlyA, Neither, EmptyB}, BOOLEAN),
           Service({"absent", "exists"}, {Neither}, BOOLEAN),
           Requests({"present"}, {EmptyA}, {FALSE}, BOOLEAN),
           Requests({"present", "enforced"}, {OnlyA, Neither}, {FALSE}, {TRUE}),
           Requests({"absent"}, {Neither}, {FALSE}, {TRUE})}

AbsenceRequests == Service({"absent", "exists"}, {OnlyA, Both, Neither}, {FALSE})
PresentRequests == Service({"present"}, {OnlyA, Both, Neither}, {FALSE})

NoFaults == {}
OneRefused == {"refused"}

TaskSymmetry == Permutations(TwoTasks)
=============================================================================
