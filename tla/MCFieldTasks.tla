---------------------------- MODULE MCFieldTasks ----------------------------
(* The collection's resources, up to three of their fields at a time; those *)
(* that differ in the names of their fields only are one.                   *)
EXTENDS FieldTasks, Resources

Alike(f, g) == [f EXCEPT !.name = g.name] = g

\* One field for all that are alike, and every field that another one bars or shuns
Chosen(r) ==
    {(CHOOSE g \in UNION {s.fields : s \in Resources} : Alike(f, g)) : f \in r.fields}
    \cup {f \in r.fields : \E g \in r.fields : \E v \in DOMAIN g.bars : f.name \in g.bars[v]}
    \cup {f \in r.fields : \E g \in r.fields : \E s \in g.shuns : s[2] = f.name}

Instances ==
    UNION {{[r EXCEPT !.fields = {f, g, h}] : f, g, h \in Chosen(r)} : r \in Resources}

\* What the theorems about a resource assume holds of each with all its fields
ASSUME CollectionAssumption == \A r \in Resources : IsResource(r)
=============================================================================
