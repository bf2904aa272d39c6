----------------------------- MODULE MCLinkTasks -----------------------------
(* Instances of LinkTasks.                                                  *)
EXTENDS LinkTasks

CONSTANTS a, b, t1, t2

\* a and b have ids 1 and 2, or b is unknown; 3 is free
AandB == {[n \in Name |-> IF n = a THEN 1 ELSE 2], [n \in Name |-> IF n = a THEN 1 ELSE None]}
SomeLinks == {{}, {1}, {1, 2}}

SomeStrangers == {{1}}

\* The team a has no twin, b is also the name of a team with the id of a
TwinOfB == [n \in Name |-> IF n = b THEN 1 ELSE None]

J(kind, want, check) ==
    [kind |-> kind, want |-> want, check |-> check, typed |-> FALSE, whom |-> None]

Template(want) == J("template", want, FALSE)
Source(want) == J("source", want, FALSE)
Checking == J("template", {a, b}, TRUE)
Grant == J("grant", {a, b}, FALSE)
Revoke == J("revoke", {a, b}, FALSE)
Exists == J("exists", {b}, FALSE)
By(j, n) == [j EXCEPT !.want = {a, b} \ {n}, !.whom = n]
Team(j) == [j EXCEPT !.typed = TRUE]
List == J("list", {}, FALSE)
One == J("one", {}, FALSE)
Auditing(want) == J("auditor", want, FALSE)

\* Tasks of every kind, with one that wants the same or the opposite
Pairs ==
    {[t \in Task |-> p[IF t = t1 THEN 1 ELSE 2]] : p \in
        {<<Template({a}), Source({a})>>, <<Template({a, b}), Checking>>,
         <<Grant, Grant>>, <<Team(Grant), Revoke>>, <<Exists, Team(Revoke)>>,
         <<Auditing({}), Grant>>, <<Auditing({a}), Auditing({})>>,
         <<List, Source({b})>>, <<One, Team(Exists)>>,
         <<By(Grant, b), By(Exists, b)>>, <<By(Revoke, b), Grant>>}}

\* Roles that are revoked, given by name
Revokes == {[t \in Task |-> By(Revoke, b)]}

=============================================================================
