------------------------------ MODULE LinkProofs ------------------------------
(* Theorems about LinkTasks for any number of tasks, names, things, pages  *)
(* and writes of other clients.                                            *)
EXTENDS LinkTasks, FiniteSetTheorems, TLAPS

-----------------------------------------------------------------------------
(* Pages                                                                   *)

\* What the gateway lists is a finite set of numbers
LEMMA Finite ==
    ASSUME NEW S \in SUBSET Id
    PROVE  IsFiniteSet(S) /\ Cardinality(S) \in Nat
BY LinkAssumption, FS_Subset, FS_CardinalityType

LEMMA PlaceOK ==
    ASSUME TypeOK, NEW i \in links
    PROVE  Place(i) \in Nat /\ Place(i) < Cardinality(links)
<1> DEFINE before_i == {j \in links : j < i}
<1>1. links \subseteq Id /\ i \in Nat /\ i \notin before_i
  BY LinkAssumption DEF TypeOK
<1>2. /\ IsFiniteSet(links) /\ Cardinality(links) \in Nat
      /\ Cardinality(before_i) \in Nat /\ before_i \in SUBSET links
  BY <1>1, Finite
<1>3. /\ Cardinality(before_i) <= Cardinality(links)
      /\ Cardinality(links) = Cardinality(before_i) => links = before_i
  BY <1>2, FS_Subset
<1> QED
  BY <1>1, <1>2, <1>3 DEF Place

\* No two links have the same place
LEMMA PlaceOrdered ==
    ASSUME TypeOK, NEW i \in links, NEW k \in links, Place(i) = Place(k)
    PROVE  i = k
<1>1. links \subseteq Id /\ links \subseteq Nat
  BY LinkAssumption DEF TypeOK
<1>2. ASSUME NEW x \in links, NEW y \in links, x < y, Place(x) = Place(y) PROVE FALSE
  <2> DEFINE X == {j \in links : j < x}
             Y == {j \in links : j < y}
  <2>1. x \in Nat /\ y \in Nat /\ \A j \in links : j \in Nat
    BY <1>1
  <2>2. \A j \in links : j < x => j < y
    BY <2>1, <1>2
  <2>3. X \in SUBSET Y /\ x \in Y /\ x \notin X
    <3>1. X \subseteq Y
      BY <2>2
    <3>2. x \in Y
      BY <1>2
    <3>3. x \notin X
      BY <2>1
    <3> QED
      BY <3>1, <3>2, <3>3
  <2>4. IsFiniteSet(Y)
    BY <1>1, Finite
  <2>5. Cardinality(Y) = Cardinality(X) => Y = X
    BY <2>3, <2>4, FS_Subset
  <2> QED
    BY <2>3, <2>5, <1>2 DEF Place
<1> QED
  BY <1>1, <1>2

LEMMA PageOK ==
    ASSUME TypeOK, NEW p \in Nat \ {0}
    PROVE  /\ OnPage(p) \subseteq links
           /\ Cardinality(OnPage(p)) \in 0 .. PageSize
<1> DEFINE first == (p - 1) * PageSize
           last == p * PageSize - 1
           f == [i \in OnPage(p) |-> Place(i)]
<1>1. OnPage(p) \subseteq links /\ links \subseteq Id
  BY DEF OnPage, TypeOK
<1>2. first \in Int /\ last \in Int /\ last - first + 1 = PageSize /\ PageSize \in Nat \ {0}
  BY LinkAssumption
<1>3. IsFiniteSet(first .. last) /\ Cardinality(first .. last) = PageSize
  <2> HIDE DEF first, last
  <2>1. /\ IsFiniteSet(first .. last)
        /\ Cardinality(first .. last) = IF first > last THEN 0 ELSE last - first + 1
    BY <1>2, FS_Interval
  <2>2. ~(first > last)
    BY <1>2
  <2> QED
    BY <1>2, <2>1, <2>2
<1>4. f \in Injection(OnPage(p), first .. last)
  <2>1. f \in [OnPage(p) -> first .. last]
    BY DEF OnPage
  <2>2. \A i, k \in OnPage(p) : f[i] = f[k] => i = k
    BY <1>1, PlaceOrdered
  <2> QED
    BY <2>1, <2>2 DEF Injection, IsInjective
<1>5. Cardinality(OnPage(p)) <= PageSize
  <2> HIDE DEF f, first, last
  <2> QED
    BY <1>3, <1>4, FS_Injection
<1>6. Cardinality(OnPage(p)) \in Nat
  BY <1>1, Finite
<1> QED
  BY <1>1, <1>2, <1>5, <1>6

-----------------------------------------------------------------------------
(* Types                                                                   *)

Point == {"new", "crud", "find", "create", "delete", "evict", "name", "resolve", "read", "write",
          "answer", "done"}

\* Where the tasks are and what they report
ControlOK ==
    /\ pc \in [Task -> Point]
    /\ report \in [Task -> [failed : BOOLEAN, changed : BOOLEAN]]

LEMMA GoesOK ==
    ASSUME TypeOK, NEW t \in Task, NEW point \in Point, Goes(t, point)
    PROVE  ControlOK'
BY DEF TypeOK, Goes, At, ControlOK, Point

LEMMA EndsOK ==
    ASSUME TypeOK, NEW t \in Task, NEW failed \in BOOLEAN, NEW changed \in BOOLEAN,
           Ends(t, failed, changed)
    PROVE  ControlOK'
BY DEF TypeOK, Ends, At, ControlOK, Point

LEMMA EndsWellOK ==
    ASSUME TypeOK, NEW t \in Task, NEW linked \in BOOLEAN, EndsWell(t, linked)
    PROVE  ControlOK'
<1>1. (report[t].changed \/ linked) \in BOOLEAN
  BY DEF TypeOK
<1> QED
  BY <1>1, EndsOK DEF EndsWell

LEMMA FailsOK ==
    ASSUME TypeOK, NEW t \in Task, Fails(t)
    PROVE  ControlOK'
<1>1. (Is(t, {"template", "auditor"}) /\ report[t].changed) \in BOOLEAN
  BY DEF TypeOK, Is
<1> QED
  BY <1>1, EndsOK DEF Fails

LEMMA GoesOnOK ==
    ASSUME TypeOK, NEW t \in Task, NEW linked \in BOOLEAN, NEW found, GoesOn(t, linked, found)
    PROVE  ControlOK' /\ todo' \in [Task -> SUBSET Name]
<1> DEFINE rest == todo[t] \ {Current(t)}
<1>1. First(t) \in Point
  BY DEF First, Point
<1>2. Goes(t, First(t)) \/ Fails(t) \/ EndsWell(t, linked)
  BY DEF GoesOn
<1>3. ControlOK'
  BY <1>1, <1>2, GoesOK, FailsOK, EndsWellOK
<1>4. todo' \in [Task -> SUBSET Name]
  BY DEF GoesOn, TypeOK
<1> QED
  BY <1>3, <1>4

LEMMA FoundOK ==
    ASSUME TypeOK, NEW t \in Task, Found(t) \/ NotFound(t)
    PROVE  ControlOK' /\ todo' \in [Task -> SUBSET Name]
<1>1. did[t] \in BOOLEAN /\ "delete" \in Point /\ "create" \in Point
  BY DEF TypeOK, Point
<1>2. \/ GoesOn(t, did[t], {Current(t)}) \/ GoesOn(t, did[t], seen[t])
      \/ (Goes(t, "delete") \/ Goes(t, "create")) /\ UNCHANGED todo
  BY DEF Found, NotFound
<1> QED
  BY <1>1, <1>2, GoesOK, GoesOnOK DEF TypeOK

LEMMA DeleteFailsOK ==
    ASSUME TypeOK, NEW t \in Task, DeleteFails(t)
    PROVE  ControlOK' /\ todo' \in [Task -> SUBSET Name]
<1>1. did[t] \in BOOLEAN
  BY DEF TypeOK
<1>2. GoesOn(t, did[t], seen[t]) \/ (Fails(t) /\ UNCHANGED todo)
  BY DEF DeleteFails
<1> QED
  BY <1>1, <1>2, FailsOK, GoesOnOK DEF TypeOK

LEMMA KnownOK ==
    ASSUME TypeOK
    PROVE  /\ \A n \in Name : Known(n) \in Id \cup {None}
           /\ \A S : Remember(S) => cache' \in [Name -> Id \cup {None}]
BY DEF TypeOK, Known, Remember

LEMMA UsesOK ==
    ASSUME TypeOK, NEW t \in Task, NEW S, Uses(t, S)
    PROVE  stale' \subseteq Task
BY DEF TypeOK, Uses

LEMMA ResolvesOK ==
    ASSUME TypeOK, NEW t \in Task, Resolves(t)
    PROVE  cache' \in [Name -> Id \cup {None}] /\ stale' \subseteq Task
BY KnownOK, UsesOK DEF Resolves, TypeOK

\* A find or a create that goes on without some of the names
LEMMA BlursOK ==
    ASSUME TypeOK, NEW t \in Task, NEW lost, Blurs(t, lost)
    PROVE  /\ cache' \in [Name -> Id \cup {None}]
           /\ met' \subseteq Task
           /\ stale' \subseteq Task
           /\ t \in stale'
BY KnownOK DEF Blurs, TypeOK

-----------------------------------------------------------------------------
(* A task on its own, whatever others do                                   *)

Sorts == {"name", "find", "create", "delete", "evict"}

\* Where a task of each kind may be
Course(t) ==
    /\ Is(t, Syncs) => pc[t] \in {"new", "crud", "resolve", "read", "write", "done"}
    /\ Is(t, Queries) => pc[t] \in {"new", "read", "answer", "done"}
    /\ Is(t, {"grant"}) => pc[t] \in {"new", "name", "find", "create", "done"}
    /\ Is(t, {"revoke"}) => pc[t] \in {"new", "name", "find", "delete", "evict", "done"}
    /\ Is(t, {"exists"}) => pc[t] \in {"new", "name", "find", "done"}
    /\ Is(t, {"auditor"}) => pc[t] \in {"new", "crud", "find", "create", "delete", "done"}

\* What is left to see to is part of what was asked
Remaining(t) ==
    /\ pc[t] \in Sorts \cup {"crud"} /\ ~Is(t, Syncs) => todo[t] # {}
    /\ Is(t, Lists) => todo[t] \subseteq job[t].want
    /\ Is(t, {"auditor"}) => todo[t] \subseteq {Auditor}

\* The object that has been found, or named before, is the one the cache tells; but for a task
\* that went on with a name it could not resolve
Aimed(t) ==
    \/ pc[t] = "delete" /\ t \notin stale
    \/ job[t].typed /\ pc[t] \in {"find", "create"}
    => /\ cache[Current(t)] # None
       /\ wanted[t] = {cache[Current(t)]}

\* Syncs want the ids the cache tells
Resolved(t) ==
    /\ \A n \in job[t].want : cache[n] # None
    /\ wanted[t] = {cache[n] : n \in job[t].want}

\* Nothing has been read before the reading begins
Fresh(t) == seen[t] = {} /\ page[t] = 1 /\ read[t] = 0

\* Searches count at least what they see, and count nothing only if they see nothing
Tallied(t) ==
    /\ Cardinality(seen[t]) <= read[t]
    /\ seen[t] = {} => read[t] = 0

Orderly(t) ==
    /\ Course(t)
    /\ Remaining(t)
    /\ Aimed(t)
    /\ pc[t] = "evict" => t \in stale
    /\ pc[t] \in {"new", "crud", "resolve"} => Fresh(t)
    /\ Is(t, Syncs) /\ pc[t] \in {"read", "write"} => Resolved(t)
    /\ Is(t, Syncs) /\ job[t].check => pc[t] \in {"new", "crud", "done"}
    /\ pc[t] = "read" => read[t] <= MaxObjects
    /\ Is(t, Queries) => Tallied(t)
    /\ Is(t, {"one"}) /\ pc[t] = "done" /\ ~report[t].failed => read[t] = 1

\* A task that sorts out its objects is at one of them
LEMMA CurrentOK ==
    ASSUME TypeOK, NEW t \in Task, Orderly(t), pc[t] \in Sorts
    PROVE  Current(t) \in todo[t] /\ Current(t) \in Name
<1>1. ~Is(t, Syncs)
  BY DEF Orderly, Course, Sorts
<1> QED
  BY <1>1 DEF Orderly, Remaining, Current, TypeOK

LEMMA TargetOK ==
    ASSUME TypeOK, NEW t \in Task, Orderly(t), pc[t] \in {"find", "create"}
    PROVE  /\ Target(t) = Known(Current(t))
           /\ Target(t) \in Id \cup {None}
<1>1. Current(t) \in Name
  BY CurrentOK DEF Sorts
<1>2. job[t].typed => wanted[t] = {cache[Current(t)]} /\ cache[Current(t)] # None
  BY DEF Orderly, Aimed
<1>3. Target(t) = Known(Current(t))
  BY <1>2 DEF Target, Known
<1> QED
  BY <1>1, <1>3, KnownOK

\* What a find without some of its filters may meet is a thing, if anything
LEMMA AimOK ==
    ASSUME TypeOK, NEW t \in Task, Orderly(t), pc[t] \in {"find", "create"}, NEW lost
    PROVE  Aim(t, lost) \in Id \cup {None}
<1>1. Current(t) \in Name
  BY CurrentOK DEF Sorts
<1> QED
  BY <1>1, KnownOK, LinkAssumption DEF Aim

-----------------------------------------------------------------------------
(* The step of a task changes its own state, besides that of the gateway   *)
(* and the manager                                                         *)

\* What an action may write, apart from where the task is and its report
Written ==
    /\ links' \subseteq alive
    /\ others' \subseteq alive
    /\ cache' \in [Name -> Id \cup {None}]
    /\ todo' \in [Task -> SUBSET Name]
    /\ wanted' \in [Task -> SUBSET Id]
    /\ seen' \in [Task -> SUBSET Id]
    /\ page' \in [Task -> Nat \ {0}]
    /\ read' \in [Task -> 0 .. MaxObjects + PageSize]
    /\ did' \in [Task -> BOOLEAN]
    /\ before' \in [Task -> SUBSET Id]
    /\ met' \subseteq Task
    /\ stale' \subseteq Task

Typed == ControlOK' /\ Written

\* Actions that leave links alone
LEMMA Calls ==
    ASSUME TypeOK, NEW t \in Task, Orderly(t)
    PROVE  /\ Begin(t) => Typed
           /\ Crud(t) => Typed
           /\ Resolve(t) => Typed
           /\ Identify(t) => Typed
           /\ Reconciled(t) => Typed
           /\ Answer(t) => Typed
<1>1. ASSUME Begin(t) PROVE Typed
  <2>1. Auditor \in Name /\ job[t].want \subseteq Name
    BY LinkAssumption DEF TypeOK, Job, JobRecord
  <2>2. First(t) \in Point /\ "crud" \in Point /\ "read" \in Point
    BY DEF First, Point
  <2>3. ControlOK'
    <3>1. \E point \in Point : Goes(t, point)
      BY <1>1, <2>2 DEF Begin
    <3> QED
      BY <3>1, GoesOK
  <2>4. Written
    BY <1>1, <2>1 DEF Begin, Written, TypeOK, gatewayVars
  <2> QED
    BY <2>3, <2>4 DEF Typed
<1>2. ASSUME Crud(t) PROVE Typed
  <2>1. ControlOK'
    <3>1. CASE Fails(t)
      BY <3>1, FailsOK
    <3>2. ASSUME NEW changed \in BOOLEAN, Ends(t, FALSE, Is(t, {"template"}) \/ changed)
          PROVE  ControlOK'
      BY <3>2, EndsOK DEF Is
    <3>3. ASSUME NEW changed \in BOOLEAN,
                 At(t, IF Is(t, Syncs) THEN "resolve" ELSE "find"),
                 report' = [report EXCEPT ![t].changed = changed]
          PROVE  ControlOK'
      BY <3>3 DEF At, ControlOK, Point, TypeOK
    <3> QED
      BY <1>2, <3>1, <3>2, <3>3 DEF Crud
  <2>2. Written
    BY <1>2 DEF Crud, Met, Written, TypeOK, gatewayVars, localVars
  <2> QED
    BY <2>1, <2>2 DEF Typed
<1>3. ASSUME Resolve(t) PROVE Typed
  <2>1. job[t].want \subseteq Name
    BY DEF TypeOK, Job, JobRecord
  <2>2. ControlOK'
    <3>1. Fails(t) \/ Goes(t, "read")
      BY <1>3 DEF Resolve
    <3> QED
      BY <3>1, FailsOK, GoesOK DEF Point
  <2>3. wanted' \in [Task -> SUBSET Id]
    <3>1. CASE UNCHANGED wanted
      BY <3>1 DEF TypeOK
    <3>2. CASE /\ wanted' = [wanted EXCEPT ![t] = {Known(n) : n \in job[t].want}]
               /\ \A n \in job[t].want : Known(n) # None
      <4>1. {Known(n) : n \in job[t].want} \subseteq Id
        BY <2>1, <3>2, KnownOK
      <4> QED
        BY <3>2, <4>1 DEF TypeOK
    <3> QED
      BY <1>3, <3>1, <3>2 DEF Resolve
  <2>4. cache' \in [Name -> Id \cup {None}] /\ stale' \subseteq Task
    BY <1>3, KnownOK, UsesOK DEF Resolve, TypeOK
  <2> QED
    BY <1>3, <2>2, <2>3, <2>4 DEF Resolve, Met, Typed, Written, TypeOK, gatewayVars
<1>4. ASSUME Identify(t) PROVE Typed
  <2>1. Current(t) \in Name
    BY <1>4, CurrentOK DEF Identify, Sorts
  <2>2. ControlOK'
    <3>1. Fails(t) \/ Goes(t, "find")
      BY <1>4 DEF Identify
    <3> QED
      BY <3>1, FailsOK, GoesOK DEF Point
  <2>3. wanted' \in [Task -> SUBSET Id]
    <3>1. Known(Current(t)) \in Id \cup {None}
      BY <2>1, KnownOK
    <3> QED
      BY <1>4, <3>1 DEF Identify, TypeOK
  <2>4. cache' \in [Name -> Id \cup {None}] /\ stale' \subseteq Task
    BY <1>4, KnownOK, UsesOK DEF Identify, TypeOK
  <2> QED
    BY <1>4, <2>2, <2>3, <2>4 DEF Identify, Met, Typed, Written, TypeOK, gatewayVars
<1>5. ASSUME Reconciled(t) PROVE Typed
  <2>1. did[t] \in BOOLEAN
    BY DEF TypeOK
  <2>2. ControlOK'
    BY <1>5, <2>1, EndsWellOK DEF Reconciled
  <2> QED
    BY <1>5, <2>2 DEF Reconciled, Typed, Written, TypeOK, gatewayVars, localVars
<1>6. ASSUME Answer(t) PROVE Typed
  <2>1. ControlOK'
    BY <1>6, EndsWellOK, FailsOK DEF Answer
  <2> QED
    BY <1>6, <2>1 DEF Answer, Typed, Written, TypeOK, gatewayVars, localVars
<1> QED
  BY <1>1, <1>2, <1>3, <1>4, <1>5, <1>6

\* Reading lists and writing associations
LEMMA Associations ==
    ASSUME TypeOK, NEW t \in Task, Orderly(t)
    PROVE  /\ ReadPage(t) => Typed
           /\ Associate(t) => Typed
           /\ Disassociate(t) => Typed
<1>1. ASSUME ReadPage(t) PROVE Typed
  <2> DEFINE got == OnPage(page[t])
  <2>1. page[t] \in Nat \ {0} /\ page[t] + 1 \in Nat \ {0} /\ 1 \in Nat \ {0}
    BY DEF TypeOK
  <2>2. got \subseteq links /\ links \subseteq Id /\ Cardinality(got) \in 0 .. PageSize
    BY <2>1, PageOK DEF TypeOK
  <2>3. ControlOK'
    <3>1. Fails(t) \/ Goes(t, "read") \/ Goes(t, "answer") \/ Goes(t, "write")
      BY <1>1 DEF ReadPage
    <3> QED
      BY <3>1, FailsOK, GoesOK DEF Point
  <2>4. Counted(t, got) \in 0 .. MaxObjects + PageSize
    <3>1. read[t] \in 0 .. MaxObjects
      BY <1>1, LinkAssumption DEF ReadPage, Orderly, TypeOK
    <3> QED
      BY <2>2, <3>1, LinkAssumption DEF Counted
  <2>5. read' \in [Task -> 0 .. MaxObjects + PageSize]
    BY <1>1, <2>4 DEF ReadPage, TypeOK
  <2>6. seen' \in [Task -> SUBSET Id]
    <3>1. seen' = [seen EXCEPT ![t] = @ \cup got] \/ UNCHANGED seen
      BY <1>1 DEF ReadPage
    <3>2. seen \in [Task -> SUBSET Id]
      BY <1>1 DEF TypeOK
    <3> QED
      BY <2>2, <3>1, <3>2
  <2>7. page' \in [Task -> Nat \ {0}]
    <3>1. \/ page' = [page EXCEPT ![t] = @ + 1]
          \/ page' = [page EXCEPT ![t] = 1]
          \/ UNCHANGED page
      BY <1>1 DEF ReadPage
    <3>2. page \in [Task -> Nat \ {0}]
      BY <1>1 DEF TypeOK
    <3> QED
      BY <3>1, <3>2
  <2>8. met' \subseteq Task
    BY <1>1 DEF ReadPage, Met, TypeOK
  <2>9. UNCHANGED <<gatewayVars, cache, job, todo, wanted, did, before, stale>>
    BY <1>1 DEF ReadPage
  <2> QED
    BY <2>3, <2>5, <2>6, <2>7, <2>8, <2>9 DEF Typed, Written, TypeOK, gatewayVars
<1>2. ASSUME NEW i \in Id, NEW outcome \in SUBSET Id, Post(t, i, outcome),
             i \in alive => outcome \subseteq alive
      PROVE  /\ ControlOK'
             /\ links' \subseteq alive
             /\ seen' \in [Task -> SUBSET Id]
             /\ did' \in [Task -> BOOLEAN]
             /\ met' \subseteq Task
  <2>1. Fails(t) \/ Goes(t, "write")
    BY <1>2 DEF Post
  <2>2. ControlOK'
    BY <2>1, FailsOK, GoesOK DEF Point
  <2>3. links' \subseteq alive /\ met' \subseteq Task
    BY <1>2 DEF Post, Met, TypeOK
  <2>4. did' \in [Task -> BOOLEAN]
    BY <1>2 DEF Post, Does, TypeOK
  <2>5. seen' \in [Task -> SUBSET Id]
    <3>1. \/ seen' = [seen EXCEPT ![t] = @ \cup {i}]
          \/ seen' = [seen EXCEPT ![t] = @ \ {i}]
          \/ UNCHANGED seen
      BY <1>2 DEF Post
    <3>2. seen[t] \cup {i} \in SUBSET Id /\ seen[t] \ {i} \in SUBSET Id
      BY <1>2 DEF TypeOK
    <3>3. seen \in [Task -> SUBSET Id]
      BY DEF TypeOK
    <3> QED
      BY <3>1, <3>2, <3>3
  <2> QED
    BY <2>2, <2>3, <2>4, <2>5
<1>3. ASSUME Associate(t) PROVE Typed
  <2>1. PICK i \in wanted[t] \ seen[t] : Post(t, i, links \cup {i})
    BY <1>3 DEF Associate
  <2>2. i \in Id /\ links \cup {i} \in SUBSET Id /\ (i \in alive => links \cup {i} \subseteq alive)
    BY DEF TypeOK
  <2>3. /\ ControlOK' /\ links' \subseteq alive /\ seen' \in [Task -> SUBSET Id]
        /\ did' \in [Task -> BOOLEAN] /\ met' \subseteq Task
    BY <1>2, <2>1, <2>2
  <2> QED
    BY <1>3, <2>3 DEF Associate, Typed, Written, TypeOK
<1>4. ASSUME Disassociate(t) PROVE Typed
  <2>1. PICK i \in seen[t] \ wanted[t] : Post(t, i, links \ {i})
    BY <1>4 DEF Disassociate
  <2>2. i \in Id /\ links \ {i} \in SUBSET Id /\ (i \in alive => links \ {i} \subseteq alive)
    BY DEF TypeOK
  <2>3. /\ ControlOK' /\ links' \subseteq alive /\ seen' \in [Task -> SUBSET Id]
        /\ did' \in [Task -> BOOLEAN] /\ met' \subseteq Task
    BY <1>2, <2>1, <2>2
  <2> QED
    BY <1>4, <2>3 DEF Disassociate, Typed, Written, TypeOK
<1> QED
  BY <1>1, <1>3, <1>4

\* Looking for assignments, making and deleting them
LEMMA Assignments ==
    ASSUME TypeOK, NEW t \in Task, Orderly(t)
    PROVE  /\ FindHit(t) => Typed
           /\ FindMiss(t) => Typed
           /\ FindFails(t) => Typed
           /\ FindBlurred(t) => Typed
           /\ Create(t) => Typed
           /\ CreateBlurred(t) => Typed
           /\ Delete(t) => Typed
           /\ Evict(t) => Typed
<1>1. ASSUME FindHit(t) PROVE Typed
  <2>1. Target(t) \in Id
    BY <1>1 DEF FindHit, Assigned, TypeOK
  <2>2. ControlOK' /\ todo' \in [Task -> SUBSET Name]
    BY <1>1, FoundOK DEF FindHit
  <2>3. cache' \in [Name -> Id \cup {None}] /\ stale' \subseteq Task
    BY <1>1, ResolvesOK DEF FindHit
  <2>4. seen' \in [Task -> SUBSET Id] /\ wanted' \in [Task -> SUBSET Id]
    BY <1>1, <2>1 DEF FindHit, TypeOK
  <2> QED
    BY <1>1, <2>2, <2>3, <2>4 DEF FindHit, Typed, Written, TypeOK, gatewayVars
<1>2. ASSUME FindMiss(t) PROVE Typed
  <2>1. ControlOK' /\ todo' \in [Task -> SUBSET Name]
    BY <1>2, FoundOK, FailsOK DEF FindMiss, TypeOK
  <2>2. cache' \in [Name -> Id \cup {None}] /\ stale' \subseteq Task
    BY <1>2, ResolvesOK DEF FindMiss
  <2> QED
    BY <1>2, <2>1, <2>2 DEF FindMiss, Typed, Written, TypeOK, gatewayVars
<1>3. ASSUME FindFails(t) PROVE Typed
  <2>1. ControlOK' /\ todo' \in [Task -> SUBSET Name]
    BY <1>3, FoundOK, FailsOK DEF FindFails, TypeOK
  <2> QED
    BY <1>3, <2>1 DEF FindFails, Met, Typed, Written, TypeOK, gatewayVars
<1>4. ASSUME Create(t) PROVE Typed
  <2>1. \/ Does(t) /\ GoesOn(t, TRUE, seen[t])
        \/ Fails(t) /\ UNCHANGED <<did, todo>>
    BY <1>4 DEF Create
  <2>2. ControlOK' /\ todo' \in [Task -> SUBSET Name] /\ did' \in [Task -> BOOLEAN]
    <3>1. CASE Does(t) /\ GoesOn(t, TRUE, seen[t])
      BY <3>1, GoesOnOK DEF Does, TypeOK
    <3>2. CASE Fails(t) /\ UNCHANGED <<did, todo>>
      BY <3>2, FailsOK DEF TypeOK
    <3> QED
      BY <2>1, <3>1, <3>2
  <2>3. cache' \in [Name -> Id \cup {None}] /\ stale' \subseteq Task
    BY <1>4, ResolvesOK DEF Create
  <2>4. links' \subseteq alive /\ met' \subseteq Task
    BY <1>4 DEF Create, Met, TypeOK
  <2> QED
    BY <1>4, <2>2, <2>3, <2>4 DEF Create, Typed, Written, TypeOK
<1>5. ASSUME Delete(t) PROVE Typed
  <2>1. \/ Does(t) /\ GoesOn(t, TRUE, seen[t])
        \/ DeleteFails(t) /\ UNCHANGED did
    BY <1>5 DEF Delete
  <2>2. ControlOK' /\ todo' \in [Task -> SUBSET Name] /\ did' \in [Task -> BOOLEAN]
    <3>1. CASE Does(t) /\ GoesOn(t, TRUE, seen[t])
      BY <3>1, GoesOnOK DEF Does, TypeOK
    <3>2. CASE DeleteFails(t) /\ UNCHANGED did
      BY <3>2, DeleteFailsOK DEF TypeOK
    <3> QED
      BY <2>1, <3>1, <3>2
  <2>3. links' \subseteq alive /\ met' \subseteq Task
    BY <1>5 DEF Delete, Met, TypeOK
  <2> QED
    BY <1>5, <2>2, <2>3 DEF Delete, Typed, Written, TypeOK
<1>6. ASSUME FindBlurred(t) PROVE Typed
  <2>1. PICK lost \in SUBSET Named(t) :
          /\ Blurs(t, lost)
          /\ \/ Found(t) \/ NotFound(t) \/ (Goes(t, "evict") /\ UNCHANGED todo)
          /\ \/ /\ Aim(t, lost) \in links \cup others
                /\ seen' = [seen EXCEPT ![t] = @ \cup {Aim(t, lost)}]
                /\ wanted' = [wanted EXCEPT ![t] = {Aim(t, lost)}]
             \/ UNCHANGED <<seen, wanted>>
    BY <1>6 DEF FindBlurred
  <2>2. /\ cache' \in [Name -> Id \cup {None}]
        /\ met' \subseteq Task /\ stale' \subseteq Task
    BY <2>1, BlursOK
  <2>3. ControlOK' /\ todo' \in [Task -> SUBSET Name]
    BY <2>1, FoundOK, GoesOK DEF Point, TypeOK
  <2>4. seen' \in [Task -> SUBSET Id] /\ wanted' \in [Task -> SUBSET Id]
    <3>1. links \cup others \subseteq Id /\ seen[t] \in SUBSET Id
      BY DEF TypeOK
    <3>2. seen \in [Task -> SUBSET Id] /\ wanted \in [Task -> SUBSET Id]
      BY DEF TypeOK
    <3>3. ASSUME NEW i \in Id, seen' = [seen EXCEPT ![t] = @ \cup {i}],
                 wanted' = [wanted EXCEPT ![t] = {i}]
          PROVE  seen' \in [Task -> SUBSET Id] /\ wanted' \in [Task -> SUBSET Id]
      BY <3>1, <3>2, <3>3
    <3> QED
      BY <2>1, <3>1, <3>2, <3>3
  <2> QED
    BY <1>6, <2>2, <2>3, <2>4 DEF FindBlurred, Typed, Written, TypeOK, gatewayVars
<1>7. ASSUME CreateBlurred(t) PROVE Typed
  <2>1. PICK lost \in SUBSET Named(t) :
          /\ Blurs(t, lost)
          /\ \/ /\ Aim(t, lost) \in alive /\ links' = links \cup {Aim(t, lost)}
                /\ Does(t) /\ GoesOn(t, TRUE, seen[t])
             \/ Fails(t) /\ UNCHANGED <<links, did, todo>>
    BY <1>7 DEF CreateBlurred
  <2>2. /\ cache' \in [Name -> Id \cup {None}]
        /\ met' \subseteq Task /\ stale' \subseteq Task
    BY <2>1, BlursOK
  <2>3. /\ ControlOK' /\ todo' \in [Task -> SUBSET Name] /\ did' \in [Task -> BOOLEAN]
        /\ links' \subseteq alive
    <3>1. CASE /\ Aim(t, lost) \in alive /\ links' = links \cup {Aim(t, lost)}
               /\ Does(t) /\ GoesOn(t, TRUE, seen[t])
      BY <3>1, GoesOnOK DEF Does, TypeOK
    <3>2. CASE Fails(t) /\ UNCHANGED <<links, did, todo>>
      BY <3>2, FailsOK DEF TypeOK
    <3> QED
      BY <2>1, <3>1, <3>2
  <2> QED
    BY <1>7, <2>2, <2>3 DEF CreateBlurred, Typed, Written, TypeOK
<1>8. ASSUME Evict(t) PROVE Typed
  <2>1. \/ Does(t) /\ GoesOn(t, TRUE, seen[t])
        \/ DeleteFails(t) /\ UNCHANGED did
    BY <1>8 DEF Evict
  <2>2. ControlOK' /\ todo' \in [Task -> SUBSET Name] /\ did' \in [Task -> BOOLEAN]
    <3>1. CASE Does(t) /\ GoesOn(t, TRUE, seen[t])
      BY <3>1, GoesOnOK DEF Does, TypeOK
    <3>2. CASE DeleteFails(t) /\ UNCHANGED did
      BY <3>2, DeleteFailsOK DEF TypeOK
    <3> QED
      BY <2>1, <3>1, <3>2
  <2>3. others' \subseteq alive /\ met' \subseteq Task
    BY <1>8 DEF Evict, Met, TypeOK
  <2> QED
    BY <1>8, <2>2, <2>3 DEF Evict, Typed, Written, TypeOK
<1> QED
  BY <1>1, <1>2, <1>3, <1>4, <1>5, <1>6, <1>7, <1>8

\* Whatever a task does, it does not touch names, things, or what was asked
LEMMA ActTyped ==
    ASSUME TypeOK, NEW t \in Task, Orderly(t), Act(t)
    PROVE  Typed /\ UNCHANGED <<id, alive, foreign, job>>
<1>1. Typed
  BY Calls, Associations, Assignments DEF Act
<1>2. UNCHANGED <<id, alive, foreign, job>>
  BY DEF Act, gatewayVars, Begin, Crud, Resolve, Identify, ReadPage, Associate, Disassociate,
         Reconciled, Answer, FindHit, FindMiss, FindFails, FindBlurred, Create, CreateBlurred,
         Delete, Evict
<1> QED
  BY <1>1, <1>2

LEMMA StepTypeOK ==
    ASSUME TypeOK, NEW t \in Task, Orderly(t), Step(t)
    PROVE  TypeOK'
<1>1. Typed /\ UNCHANGED <<id, alive, foreign, job>>
  BY ActTyped DEF Step
<1>2. links' \in SUBSET Id
  BY <1>1 DEF Typed, Written, TypeOK
<1>3. after' \in [Task -> SUBSET Id]
  BY <1>2 DEF Step, TypeOK
<1>4. crossed' \subseteq Task
  BY DEF Step, TypeOK, Running
<1> QED
  BY <1>1, <1>3, <1>4 DEF Typed, Written, ControlOK, Point, TypeOK

LEMMA ForeignTypeOK ==
    ASSUME TypeOK, ForeignWrite
    PROVE  TypeOK'
<1>1. /\ id' \in [Name -> Id \cup {None}]
      /\ alive' \subseteq Id
      /\ links' \subseteq alive'
      /\ others' \subseteq alive'
  <2>1. CASE ForeignLink
    BY <2>1 DEF ForeignLink, TypeOK
  <2>2. CASE ForeignRename
    BY <2>2 DEF ForeignRename, TypeOK
  <2> QED
    BY <2>1, <2>2 DEF ForeignWrite
<1>2. foreign' \in 0 .. MaxForeign
  BY LinkAssumption DEF ForeignWrite, TypeOK
<1>3. crossed' \subseteq Task
  BY DEF ForeignWrite, TypeOK, Running
<1> QED
  BY <1>1, <1>2, <1>3 DEF ForeignWrite, localVars, TypeOK

-----------------------------------------------------------------------------
(* What an action does to the other tasks                                  *)

\* A task's own state
Own(u) == <<pc[u], report[u], todo[u], wanted[u], seen[u], page[u], read[u], did[u], before[u]>>

\* The cache keeps what it has, and what has befallen a task has befallen it for good
Grows(t) ==
    /\ \A n \in Name : cache[n] # None => cache'[n] = cache[n]
    /\ met \subseteq met' /\ met' \subseteq met \cup {t}
    /\ stale \subseteq stale' /\ stale' \subseteq stale \cup {t}

LEMMA Control ==
    ASSUME TypeOK, NEW t \in Task, NEW u \in Task \ {t}, NEW linked, NEW found, NEW point,
           NEW failed, NEW changed
    PROVE  /\ Goes(t, point) \/ Fails(t) \/ EndsWell(t, linked) \/ Ends(t, failed, changed)
              => UNCHANGED <<pc[u], report[u]>>
           /\ GoesOn(t, linked, found) \/ Found(t) \/ NotFound(t) \/ DeleteFails(t)
              => UNCHANGED <<pc[u], report[u], todo[u]>>
<1>1. \A p, l, f, c : Goes(t, p) \/ Fails(t) \/ EndsWell(t, l) \/ Ends(t, f, c)
                    => UNCHANGED <<pc[u], report[u]>>
  BY DEF TypeOK, Goes, Fails, EndsWell, Ends, At
<1>2. \A l, f : GoesOn(t, l, f) => UNCHANGED <<pc[u], report[u], todo[u]>>
  BY <1>1 DEF TypeOK, GoesOn
<1>3. Found(t) \/ NotFound(t) \/ DeleteFails(t) => UNCHANGED <<pc[u], report[u], todo[u]>>
  BY <1>1, <1>2 DEF TypeOK, Found, NotFound, DeleteFails
<1> QED
  BY <1>1, <1>2, <1>3

LEMMA CacheGrows ==
    ASSUME TypeOK, NEW t \in Task
    PROVE  /\ \A S : Remember(S) => \A n \in Name : cache[n] # None => cache'[n] = cache[n]
           /\ \A S : Uses(t, S) => stale \subseteq stale' /\ stale' \subseteq stale \cup {t}
           /\ Resolves(t) => /\ \A n \in Name : cache[n] # None => cache'[n] = cache[n]
                            /\ stale \subseteq stale' /\ stale' \subseteq stale \cup {t}
           /\ \A lost : Blurs(t, lost) =>
                /\ \A n \in Name : cache[n] # None => cache'[n] = cache[n]
                /\ stale \subseteq stale' /\ stale' \subseteq stale \cup {t} /\ t \in stale'
                /\ met \subseteq met' /\ met' \subseteq met \cup {t}
<1>1. \A S : Remember(S) => \A n \in Name : cache[n] # None => cache'[n] = cache[n]
  BY DEF TypeOK, Remember, Known
<1>2. \A S : Uses(t, S) => stale \subseteq stale' /\ stale' \subseteq stale \cup {t}
  BY DEF Uses
<1>3. \A lost : Blurs(t, lost) =>
        /\ \A n \in Name : cache[n] # None => cache'[n] = cache[n]
        /\ stale \subseteq stale' /\ stale' \subseteq stale \cup {t} /\ t \in stale'
        /\ met \subseteq met' /\ met' \subseteq met \cup {t}
  BY <1>1 DEF Blurs
<1> QED
  BY <1>1, <1>2, <1>3 DEF Resolves

LEMMA Grown ==
    ASSUME TypeOK, NEW t \in Task, Act(t)
    PROVE  Grows(t)
<1>1. /\ \A n \in Name : cache[n] # None => cache'[n] = cache[n]
      /\ stale \subseteq stale' /\ stale' \subseteq stale \cup {t}
  <2>1. \/ UNCHANGED <<cache, stale>>
        \/ Resolves(t)
        \/ \E S : Remember(S) /\ Uses(t, S)
        \/ \E lost : Blurs(t, lost)
    BY DEF Act, Begin, Crud, Resolve, Identify, ReadPage, Associate, Disassociate, Reconciled,
           Answer, FindHit, FindMiss, FindFails, FindBlurred, Create, CreateBlurred, Delete, Evict
  <2> QED
    BY <2>1, CacheGrows
<1>2. met \subseteq met' /\ met' \subseteq met \cup {t}
  <2>1. CASE FindBlurred(t) \/ CreateBlurred(t)
    BY <2>1, CacheGrows DEF FindBlurred, CreateBlurred
  <2>2. CASE ~(FindBlurred(t) \/ CreateBlurred(t))
    BY <2>2 DEF Act, Begin, Crud, Resolve, Identify, ReadPage, Associate, Disassociate, Reconciled,
                Answer, FindHit, FindMiss, FindFails, Create, Delete, Evict, Post, Met
  <2> QED
    BY <2>1, <2>2
<1> QED
  BY <1>1, <1>2 DEF Grows

LEMMA Apart ==
    ASSUME TypeOK, NEW t \in Task, Act(t), NEW u \in Task \ {t}
    PROVE  UNCHANGED Own(u)
<1>1. UNCHANGED <<pc[u], report[u], todo[u]>>
  <2>1. CASE Begin(t) \/ Resolve(t) \/ Identify(t) \/ ReadPage(t) \/ Reconciled(t) \/ Answer(t)
    BY <2>1, Control DEF TypeOK, Begin, Resolve, Identify, ReadPage, Reconciled, Answer, localVars
  <2>2. CASE Crud(t)
    BY <2>2, Control DEF TypeOK, Crud, At, localVars
  <2>3. CASE Associate(t) \/ Disassociate(t)
    BY <2>3, Control DEF Associate, Disassociate, Post
  <2>4. CASE FindHit(t) \/ FindMiss(t) \/ FindFails(t) \/ Create(t) \/ Delete(t)
    BY <2>4, Control DEF FindHit, FindMiss, FindFails, Create, Delete
  <2>5. CASE FindBlurred(t) \/ CreateBlurred(t) \/ Evict(t)
    <3>1. UNCHANGED todo \/ \E l, f : GoesOn(t, l, f) \/ Found(t) \/ NotFound(t) \/ DeleteFails(t)
      BY <2>5 DEF FindBlurred, CreateBlurred, Evict
    <3>2. \/ Fails(t) \/ Goes(t, "evict")
          \/ \E l, f : GoesOn(t, l, f) \/ Found(t) \/ NotFound(t) \/ DeleteFails(t)
      BY <2>5 DEF FindBlurred, CreateBlurred, Evict
    <3> QED
      BY <3>1, <3>2, Control
  <2> QED
    BY <2>1, <2>2, <2>3, <2>4, <2>5 DEF Act
<1>2. UNCHANGED <<wanted[u], seen[u], page[u], read[u], did[u], before[u]>>
  <2>1. CASE Begin(t) \/ Crud(t) \/ Resolve(t) \/ Identify(t) \/ Reconciled(t) \/ Answer(t)
    BY <2>1 DEF TypeOK, Begin, Crud, Resolve, Identify, Reconciled, Answer, localVars
  <2>2. CASE ReadPage(t)
    BY <2>2 DEF TypeOK, ReadPage
  <2>3. CASE Associate(t) \/ Disassociate(t)
    BY <2>3 DEF TypeOK, Associate, Disassociate, Post, Does
  <2>4. CASE FindHit(t) \/ FindMiss(t) \/ FindFails(t) \/ FindBlurred(t)
    BY <2>4 DEF TypeOK, FindHit, FindMiss, FindFails, FindBlurred
  <2>5. CASE Create(t) \/ CreateBlurred(t) \/ Delete(t) \/ Evict(t)
    BY <2>5 DEF TypeOK, Create, CreateBlurred, Delete, Evict, Does
  <2> QED
    BY <2>1, <2>2, <2>3, <2>4, <2>5 DEF Act
<1> QED
  BY <1>1, <1>2 DEF Own

\* Nobody's order is disturbed by others
LEMMA OrderlyKept ==
    ASSUME TypeOK, NEW u \in Task, Orderly(u), UNCHANGED Own(u), UNCHANGED job,
           \A n \in Name : cache[n] # None => cache'[n] = cache[n], stale \subseteq stale'
    PROVE  Orderly(u)'
<1>1. /\ UNCHANGED <<pc[u], report[u], todo[u], wanted[u], seen[u], page[u], read[u], job[u]>>
      /\ job[u].want \subseteq Name
  BY DEF Own, TypeOK, Job, JobRecord
<1>2. Course(u)' /\ Remaining(u)' /\ (Is(u, Queries) => Tallied(u)') /\ (Fresh(u) => Fresh(u)')
  BY <1>1 DEF Orderly, Course, Remaining, Tallied, Fresh, Is
<1>3. Aimed(u)'
  <2>1. Current(u)' = Current(u)
    BY <1>1 DEF Current
  <2>2. CASE (pc[u] = "delete" /\ u \notin stale) \/ (job[u].typed /\ pc[u] \in {"find", "create"})
    <3>1. Current(u) \in Name
      BY <2>2, CurrentOK DEF Sorts
    <3> QED
      BY <1>1, <2>1, <2>2, <3>1 DEF Orderly, Aimed
  <2>3. CASE ~((pc[u] = "delete" /\ u \notin stale) \/ (job[u].typed /\ pc[u] \in {"find", "create"}))
    BY <1>1, <2>3 DEF Aimed
  <2> QED
    BY <2>2, <2>3
<1>4. Resolved(u) => Resolved(u)'
  <2>1. ASSUME Resolved(u) PROVE \A n \in job[u].want : cache[n] # None /\ cache'[n] = cache[n]
    BY <1>1, <2>1 DEF Resolved
  <2> QED
    BY <1>1, <2>1 DEF Resolved
<1> QED
  BY <1>1, <1>2, <1>3, <1>4 DEF Orderly, Is

-----------------------------------------------------------------------------
(* A task keeps its order in its own steps                                 *)

LEMMA JobOK ==
    ASSUME TypeOK, NEW t \in Task
    PROVE  /\ job[t].kind \in Kind /\ job[t].want \subseteq Name
           /\ job[t].check \in BOOLEAN /\ job[t].typed \in BOOLEAN
           /\ Is(t, Lists) => job[t].want # {}
           /\ job[t].typed => Is(t, Lists)
BY DEF TypeOK, Job, JobRecord, Is

\* How a task ends, as others see it
LEMMA Ending ==
    ASSUME TypeOK, NEW t \in Task
    PROVE  /\ \A point : Goes(t, point) => pc'[t] = point
           /\ \A linked : EndsWell(t, linked) => pc'[t] = "done" /\ ~report'[t].failed
           /\ Fails(t) => pc'[t] = "done" /\ report'[t].failed
           /\ \A failed, changed : Ends(t, failed, changed) => pc'[t] = "done" /\ report'[t].failed = failed
BY DEF TypeOK, Goes, EndsWell, Fails, Ends, At

\* Done or failed, nothing is left to keep but the tally of a search
LEMMA OrderlyEnd ==
    ASSUME TypeOK, NEW t \in Task, Orderly(t), UNCHANGED job, pc'[t] = "done",
           Is(t, Lists \cup {"auditor"}) => todo'[t] \subseteq todo[t],
           Is(t, Queries) => Tallied(t)',
           Is(t, {"one"}) => report'[t].failed \/ read'[t] = 1
    PROVE  Orderly(t)'
<1>1. Course(t)'
  BY DEF Course, Is
<1>2. Remaining(t)'
  BY DEF Orderly, Remaining, Sorts, Is
<1>3. Aimed(t)'
  BY DEF Aimed
<1> QED
  BY <1>1, <1>2, <1>3 DEF Orderly, Is

LEMMA Kinds ==
    ASSUME TypeOK, NEW t \in Task
    PROVE  Is(t, Syncs) \/ Is(t, Queries) \/ Is(t, Lists) \/ Is(t, {"auditor"})
BY JobOK DEF Is, Syncs, Queries, Lists, Kind

LEMMA BeginOrderly ==
    ASSUME TypeOK, NEW t \in Task, Orderly(t), Begin(t)
    PROVE  Orderly(t)'
<1>1. /\ pc[t] = "new" /\ Fresh(t) /\ UNCHANGED <<seen, page, read, job>>
      /\ todo'[t] = IF Is(t, {"auditor"}) THEN {Auditor} ELSE job[t].want
      /\ pc'[t] = IF Is(t, Syncs \cup {"auditor"}) THEN "crud"
                 ELSE IF Is(t, Queries) THEN "read" ELSE First(t)
  BY Ending DEF Begin, Orderly, TypeOK
<1>2. Fresh(t)'
  BY <1>1 DEF Fresh
<1>3. Course(t)'
  BY <1>1, Kinds DEF Course, Is, First, Syncs, Queries, Lists
<1>4. Remaining(t)'
  BY <1>1, Kinds, JobOK DEF Remaining, Is, First, Sorts, Syncs, Queries, Lists
<1>5. Aimed(t)'
  BY <1>1 DEF Aimed, First, Is
<1>6. Tallied(t)'
  BY <1>2, FS_EmptySet DEF Fresh, Tallied
<1>7. pc'[t] \in {"crud", "read", "name", "find"} /\ (pc'[t] = "read" => ~Is(t, Syncs)) /\ (Is(t, Syncs) => pc'[t] = "crud")
  BY <1>1 DEF First, Is, Syncs, Queries
<1> QED
  BY <1>1, <1>2, <1>3, <1>4, <1>5, <1>6, <1>7, LinkAssumption DEF Orderly, Is, Fresh

LEMMA CrudOrderly ==
    ASSUME TypeOK, NEW t \in Task, Orderly(t), Crud(t)
    PROVE  Orderly(t)'
<1>1. /\ pc[t] = "crud" /\ Fresh(t) /\ UNCHANGED <<seen, page, read, job, todo>>
      /\ ~Is(t, Queries) /\ ~Is(t, Lists)
  BY Kinds DEF Crud, Orderly, Course, Is, Queries, Lists, localVars
<1>2. CASE pc'[t] = "done"
  BY <1>1, <1>2, OrderlyEnd DEF Is, Queries
<1>3. CASE pc'[t] # "done"
  <2>1. \E changed \in BOOLEAN :
          ~OnlyReports(t, changed) /\ At(t, IF Is(t, Syncs) THEN "resolve" ELSE "find")
    BY <1>3, Ending DEF Crud
  <2>2. pc'[t] = (IF Is(t, Syncs) THEN "resolve" ELSE "find") /\ (Is(t, Syncs) => ~job[t].check)
    BY <2>1, JobOK DEF At, TypeOK, OnlyReports
  <2>3. Fresh(t)'
    BY <1>1 DEF Fresh
  <2>4. Course(t)'
    BY <1>1, <2>2, Kinds DEF Course, Is, Syncs, Queries, Lists
  <2>5. Remaining(t)'
    BY <1>1, <2>2 DEF Orderly, Remaining, Is, Sorts
  <2>6. Aimed(t)'
    BY <1>1, <2>2, JobOK DEF Aimed, Is
  <2> QED
    BY <1>1, <2>2, <2>3, <2>4, <2>5, <2>6 DEF Orderly, Is, Queries
<1> QED
  BY <1>2, <1>3

LEMMA ResolveOrderly ==
    ASSUME TypeOK, NEW t \in Task, Orderly(t), Resolve(t)
    PROVE  Orderly(t)'
<1>1. /\ pc[t] = "resolve" /\ Fresh(t) /\ UNCHANGED <<seen, page, read, job, todo>>
      /\ Is(t, Syncs) /\ ~Is(t, Queries) /\ ~Is(t, Lists) /\ ~Is(t, {"auditor"})
  BY Kinds DEF Resolve, Orderly, Course, Is, Queries, Lists, Syncs
<1>2. CASE pc'[t] = "done"
  BY <1>1, <1>2, OrderlyEnd DEF Is, Queries
<1>3. CASE pc'[t] # "done"
  <2>1. /\ Remember(job[t].want) /\ Goes(t, "read")
        /\ \A n \in job[t].want : Known(n) # None
        /\ wanted' = [wanted EXCEPT ![t] = {Known(n) : n \in job[t].want}]
    BY <1>3, Ending DEF Resolve
  <2>2. pc'[t] = "read" /\ wanted'[t] = {Known(n) : n \in job[t].want}
    BY <2>1, Ending DEF TypeOK
  <2>3. \A n \in job[t].want : cache'[n] = Known(n)
    BY <2>1, JobOK DEF Remember
  <2>4. Resolved(t)'
    BY <1>1, <2>1, <2>2, <2>3 DEF Resolved
  <2>5. Course(t)'
    BY <1>1, <2>2 DEF Course, Is, Syncs, Queries, Lists
  <2>6. Remaining(t)' /\ Aimed(t)'
    BY <1>1, <2>2 DEF Remaining, Aimed, Is, Sorts
  <2>7. ~job[t].check
    BY <1>1 DEF Orderly
  <2>8. read'[t] <= MaxObjects
    BY <1>1, LinkAssumption DEF Fresh
  <2> QED
    BY <1>1, <2>2, <2>4, <2>5, <2>6, <2>7, <2>8 DEF Orderly, Is, Queries
<1> QED
  BY <1>2, <1>3

LEMMA IdentifyOrderly ==
    ASSUME TypeOK, NEW t \in Task, Orderly(t), Identify(t)
    PROVE  Orderly(t)'
<1>1. /\ pc[t] = "name" /\ UNCHANGED <<seen, page, read, job, todo>>
      /\ Is(t, Lists) /\ ~Is(t, Queries) /\ ~Is(t, Syncs) /\ ~Is(t, {"auditor"})
  BY Kinds DEF Identify, Orderly, Course, Is, Queries, Lists, Syncs
<1>2. CASE pc'[t] = "done"
  BY <1>1, <1>2, OrderlyEnd DEF Is, Queries
<1>3. CASE pc'[t] # "done"
  <2>1. /\ Remember({Current(t)}) /\ Goes(t, "find") /\ Known(Current(t)) # None
        /\ wanted' = [wanted EXCEPT ![t] = {Known(Current(t))}]
    BY <1>3, Ending DEF Identify
  <2>2. pc'[t] = "find" /\ wanted'[t] = {Known(Current(t))}
    BY <2>1, Ending DEF TypeOK
  <2>3. Current(t) \in Name /\ Current(t)' = Current(t)
    BY <1>1, CurrentOK DEF Sorts, Current
  <2>4. cache'[Current(t)] = Known(Current(t))
    BY <2>1, <2>3 DEF Remember
  <2>5. Aimed(t)'
    BY <2>1, <2>2, <2>3, <2>4 DEF Aimed
  <2>6. Course(t)'
    BY <1>1, <2>2 DEF Course, Is, Syncs, Queries, Lists
  <2>7. Remaining(t)'
    BY <1>1, <2>2 DEF Orderly, Remaining, Is, Sorts
  <2> QED
    BY <1>1, <2>2, <2>5, <2>6, <2>7 DEF Orderly, Is, Queries
<1> QED
  BY <1>2, <1>3

LEMMA ReadPageOrderly ==
    ASSUME TypeOK, NEW t \in Task, Orderly(t), ReadPage(t)
    PROVE  Orderly(t)'
<1> DEFINE got == OnPage(page[t])
<1>1. /\ pc[t] = "read" /\ UNCHANGED <<job, todo, cache, wanted>>
      /\ Is(t, Syncs) \/ Is(t, Queries)
      /\ Is(t, Queries) => ~Is(t, Syncs)
  BY Kinds DEF ReadPage, Orderly, Course, Is, Queries, Lists, Syncs
<1>2. ~Is(t, Lists) /\ ~Is(t, {"auditor"})
  BY <1>1 DEF Is, Lists, Syncs, Queries
<1>3. page[t] \in Nat \ {0} /\ read[t] \in Nat
  BY LinkAssumption DEF TypeOK
<1>4. got \subseteq links /\ Cardinality(got) \in Nat /\ seen[t] \in SUBSET Id /\ got \in SUBSET Id
  <2>1. got \subseteq links /\ links \subseteq Id /\ seen[t] \in SUBSET Id
    BY <1>3, PageOK DEF TypeOK
  <2> QED
    BY <2>1, Finite
<1>5. \/ UNCHANGED <<seen, read>>
      \/ seen'[t] = seen[t] \cup got /\ read'[t] = read[t] + Cardinality(got)
  BY DEF ReadPage, Counted, TypeOK
<1>6. Tallied(t) => Tallied(t)'
  <2>1. CASE UNCHANGED <<seen, read>>
    BY <2>1 DEF Tallied
  <2>2. CASE seen'[t] = seen[t] \cup got /\ read'[t] = read[t] + Cardinality(got)
    <3>1. /\ IsFiniteSet(seen[t]) /\ IsFiniteSet(got)
          /\ Cardinality(seen[t]) \in Nat /\ Cardinality(seen[t] \cap got) \in Nat
      BY <1>4, Finite
    <3>2. Cardinality(seen[t] \cup got)
            = Cardinality(seen[t]) + Cardinality(got) - Cardinality(seen[t] \cap got)
      BY <3>1, FS_Union
    <3>3. got = {} => Cardinality(got) = 0
      BY FS_EmptySet
    <3> HIDE DEF got
    <3> QED
      BY <1>3, <1>4, <2>2, <3>1, <3>2, <3>3 DEF Tallied
  <2> QED
    BY <1>5, <2>1, <2>2
<1>7. CASE pc'[t] = "done"
  <2>1. report'[t].failed
    BY <1>7, Ending DEF ReadPage
  <2> QED
    BY <1>1, <1>2, <1>6, <1>7, <2>1, OrderlyEnd DEF Is, Orderly, Lists
<1>8. CASE pc'[t] # "done"
  <2>1. /\ ~TooMany(t, got)
        /\ pc'[t] \in {"read", IF Is(t, Queries) THEN "answer" ELSE "write"}
        /\ read'[t] = Counted(t, got)
    BY <1>8, Ending DEF ReadPage, TypeOK
  <2>2. read'[t] <= MaxObjects
    <3>1. CASE read[t] = 0 /\ page[t] = 1
      <4>1. Cardinality(links) <= MaxObjects
        <5>1. Cardinality(links) \in Nat
          BY Finite DEF TypeOK
        <5> QED
          BY <2>1, <3>1, <5>1, LinkAssumption DEF TooMany
      <4>2. Cardinality(got) <= Cardinality(links) /\ Cardinality(links) \in Nat
        BY <1>4, Finite, FS_Subset DEF TypeOK
      <4>3. read'[t] = Cardinality(got)
        BY <1>4, <2>1, <3>1 DEF Counted
      <4> QED
        BY <1>4, <4>1, <4>2, <4>3, LinkAssumption
    <3>2. CASE ~(read[t] = 0 /\ page[t] = 1)
      <4>1. ~(Counted(t, got) > MaxObjects) /\ Counted(t, got) \in Nat
        BY <1>3, <1>4, <2>1, <3>2 DEF TooMany, Counted
      <4> QED
        BY <2>1, <4>1, LinkAssumption
    <3> QED
      BY <3>1, <3>2
  <2>3. Course(t)'
    BY <1>1, <1>2, <2>1 DEF Course, Is, Syncs, Queries, Lists
  <2>4. Remaining(t)' /\ Aimed(t)'
    BY <1>1, <1>2, <2>1, JobOK DEF Orderly, Remaining, Aimed, Is, Sorts
  <2>5. Is(t, Syncs) => Resolved(t)'
    BY <1>1 DEF Orderly, Resolved
  <2> QED
    BY <1>1, <1>6, <2>1, <2>2, <2>3, <2>4, <2>5 DEF Orderly, Is
<1> QED
  BY <1>7, <1>8

LEMMA WriteOrderly ==
    ASSUME TypeOK, NEW t \in Task, Orderly(t), Associate(t) \/ Disassociate(t) \/ Reconciled(t)
    PROVE  Orderly(t)'
<1>1. /\ pc[t] = "write" /\ UNCHANGED <<job, todo, cache, wanted>>
      /\ Is(t, Syncs) /\ ~Is(t, Queries) /\ ~Is(t, Lists) /\ ~Is(t, {"auditor"})
  BY Kinds DEF Associate, Disassociate, Reconciled, Orderly, Course, Is, Queries, Lists, Syncs, localVars
<1>2. pc'[t] \in {"write", "done"}
  BY Ending DEF Associate, Disassociate, Reconciled, Post
<1>3. CASE pc'[t] = "done"
  BY <1>1, <1>3, OrderlyEnd DEF Is, Queries
<1>4. CASE pc'[t] = "write"
  <2>1. Course(t)' /\ Remaining(t)' /\ Aimed(t)'
    BY <1>1, <1>4, JobOK DEF Course, Remaining, Aimed, Is, Sorts, Syncs, Queries, Lists
  <2>2. Resolved(t)'
    BY <1>1 DEF Orderly, Resolved
  <2> QED
    BY <1>1, <1>4, <2>1, <2>2 DEF Orderly, Is, Queries
<1> QED
  BY <1>2, <1>3, <1>4

LEMMA AnswerOrderly ==
    ASSUME TypeOK, NEW t \in Task, Orderly(t), Answer(t)
    PROVE  Orderly(t)'
<1>1. /\ pc[t] = "answer" /\ UNCHANGED <<job, todo, seen, read>>
      /\ Is(t, Queries) /\ ~Is(t, Syncs) /\ ~Is(t, Lists) /\ ~Is(t, {"auditor"})
  BY Kinds DEF Answer, Orderly, Course, Is, Queries, Lists, Syncs, localVars
<1>2. Tallied(t)'
  BY <1>1 DEF Orderly, Tallied
<1>3. pc'[t] = "done" /\ (Is(t, {"one"}) => report'[t].failed \/ read'[t] = 1)
  BY <1>1, Ending DEF Answer
<1> QED
  BY <1>1, <1>2, <1>3, OrderlyEnd DEF Is, Lists

\* Assignments are the business of the lists and the auditor
LEMMA SortsOK ==
    ASSUME TypeOK, NEW t \in Task, Orderly(t), pc[t] \in Sorts
    PROVE  ~Is(t, Syncs) /\ ~Is(t, Queries) /\ ~Is(t, {"one"})
BY DEF Orderly, Course, Sorts, Is, Queries

\* On to the next object, or the end
LEMMA GoesOnOrderly ==
    ASSUME TypeOK, NEW t \in Task, Orderly(t), pc[t] \in Sorts, UNCHANGED job,
           NEW linked, NEW found, GoesOn(t, linked, found)
    PROVE  Orderly(t)'
<1>1. todo'[t] = todo[t] \ {Current(t)} /\ Current(t) \in todo[t]
  BY CurrentOK DEF GoesOn, TypeOK
<1>2. CASE pc'[t] = "done"
  BY <1>1, <1>2, SortsOK, OrderlyEnd DEF Is, Queries
<1>3. CASE pc'[t] # "done"
  <2>1. pc'[t] = First(t) /\ todo'[t] # {}
    BY <1>1, <1>3, Ending DEF GoesOn
  <2>2. ~Is(t, {"auditor"})
    BY <1>1, <2>1 DEF Orderly, Remaining, Is
  <2>3. Is(t, Lists)
    BY <2>2, SortsOK, Kinds
  <2>4. Remaining(t)'
    BY <1>1, <2>1, <2>2 DEF Orderly, Remaining, Is
  <2>5. Course(t)'
    BY <2>1, <2>2, <2>3, SortsOK DEF Course, Is, First, Lists
  <2>6. Aimed(t)' /\ pc'[t] \in {"name", "find"}
    BY <2>1 DEF Aimed, First
  <2> QED
    BY <2>3, <2>4, <2>5, <2>6, SortsOK DEF Orderly, Is
<1> QED
  BY <1>2, <1>3

LEMMA FoundOrderly ==
    ASSUME TypeOK, NEW t \in Task, Orderly(t), pc[t] = "find", UNCHANGED job
    PROVE  /\ /\ Found(t)
              /\ t \notin stale' =>
                    cache'[Current(t)] # None /\ wanted'[t] = {cache'[Current(t)]}
              => Orderly(t)'
           /\ /\ NotFound(t) /\ UNCHANGED wanted
              /\ \A n \in Name : cache[n] # None => cache'[n] = cache[n]
              => Orderly(t)'
           /\ /\ Goes(t, "evict") /\ UNCHANGED todo /\ Is(t, {"revoke"}) /\ t \in stale'
              => Orderly(t)'
<1> pc[t] \in Sorts
  BY DEF Sorts
<1>1. ASSUME Goes(t, "delete"), UNCHANGED todo, Is(t, {"revoke", "auditor"}),
             t \notin stale' =>
                cache'[Current(t)] # None /\ wanted'[t] = {cache'[Current(t)]}
      PROVE  Orderly(t)'
  <2>1. pc'[t] = "delete" /\ Current(t)' = Current(t)
    BY <1>1, Ending DEF Current
  <2>2. Course(t)' /\ Remaining(t)'
    BY <1>1, <2>1 DEF Orderly, Course, Remaining, Is, Sorts, Syncs, Queries
  <2>3. Aimed(t)'
    BY <1>1, <2>1 DEF Aimed
  <2> QED
    BY <2>1, <2>2, <2>3, SortsOK DEF Orderly, Is
<1>2. ASSUME Goes(t, "create"), UNCHANGED todo, UNCHANGED wanted, Is(t, {"grant", "auditor"}),
             \A n \in Name : cache[n] # None => cache'[n] = cache[n]
      PROVE  Orderly(t)'
  <2>1. pc'[t] = "create" /\ Current(t)' = Current(t) /\ Current(t) \in Name
    BY <1>2, Ending, CurrentOK DEF Current
  <2>2. Course(t)' /\ Remaining(t)'
    BY <1>2, <2>1 DEF Orderly, Course, Remaining, Is, Sorts, Syncs, Queries
  <2>3. Aimed(t)'
    BY <1>2, <2>1 DEF Orderly, Aimed
  <2> QED
    BY <2>1, <2>2, <2>3, SortsOK DEF Orderly, Is
<1>3. ASSUME NEW l, NEW f, GoesOn(t, l, f) PROVE Orderly(t)'
  BY <1>3, GoesOnOrderly
<1>4. ASSUME Goes(t, "evict"), UNCHANGED todo, Is(t, {"revoke"}), t \in stale'
      PROVE  Orderly(t)'
  <2>1. pc'[t] = "evict"
    BY <1>4, Ending
  <2>2. Course(t)' /\ Remaining(t)'
    BY <1>4, <2>1 DEF Orderly, Course, Remaining, Is, Sorts, Syncs, Queries
  <2>3. Aimed(t)'
    BY <2>1 DEF Aimed
  <2> QED
    BY <1>4, <2>1, <2>2, <2>3, SortsOK DEF Orderly, Is
<1> QED
  BY <1>1, <1>2, <1>3, <1>4 DEF Found, NotFound, Is

LEMMA FailsOrderly ==
    ASSUME TypeOK, NEW t \in Task, Orderly(t), pc[t] \in Sorts, UNCHANGED <<job, todo>>, Fails(t)
    PROVE  Orderly(t)'
BY Ending, SortsOK, OrderlyEnd DEF Is, Queries

\* A hit: the current name is in the cache, and its id is linked
LEMMA HitTarget ==
    ASSUME TypeOK, NEW t \in Task, Orderly(t), FindHit(t)
    PROVE  /\ cache'[Current(t)] = Target(t) /\ Target(t) # None
           /\ Target(t) \in links /\ wanted'[t] = {Target(t)}
<1>1. Target(t) \in links /\ Target(t) \in Id /\ wanted'[t] = {Target(t)} /\ pc[t] = "find"
  BY DEF FindHit, Assigned, TypeOK
<1>2. Target(t) = Known(Current(t)) /\ Current(t) \in Name
  BY <1>1, TargetOK, CurrentOK DEF Sorts
<1>3. Target(t) # None
  BY <1>1, LinkAssumption
<1>4. CASE job[t].typed
  BY <1>1, <1>2, <1>3, <1>4 DEF Orderly, Aimed, Known, FindHit, Resolves
<1>5. CASE ~job[t].typed
  BY <1>1, <1>2, <1>3, <1>5 DEF FindHit, Resolves, Remember, Named
<1> QED
  BY <1>4, <1>5

LEMMA FindHitOrderly ==
    ASSUME TypeOK, NEW t \in Task, Orderly(t), FindHit(t)
    PROVE  Orderly(t)'
BY HitTarget, FoundOrderly DEF FindHit

LEMMA MissOrderly ==
    ASSUME TypeOK, NEW t \in Task, Orderly(t), FindMiss(t) \/ FindFails(t)
    PROVE  Orderly(t)'
<1>1. /\ pc[t] = "find" /\ UNCHANGED <<job, wanted>>
      /\ NotFound(t) \/ (Fails(t) /\ UNCHANGED todo)
  <2>1. CASE FindMiss(t)
    BY <2>1 DEF FindMiss
  <2>2. CASE FindFails(t)
    BY <2>2 DEF FindFails
  <2> QED
    BY <2>1, <2>2
<1>2. \A n \in Name : cache[n] # None => cache'[n] = cache[n]
  BY CacheGrows DEF FindMiss, FindFails
<1> QED
  BY <1>1, <1>2, FoundOrderly, FailsOrderly DEF Sorts

LEMMA BlurredOrderly ==
    ASSUME TypeOK, NEW t \in Task, Orderly(t), FindBlurred(t)
    PROVE  Orderly(t)'
<1>1. PICK lost \in SUBSET Named(t) :
        /\ Blurs(t, lost)
        /\ \/ Found(t)
           \/ Goes(t, "evict") /\ UNCHANGED todo /\ Is(t, {"revoke"})
           \/ NotFound(t) /\ UNCHANGED wanted
  BY DEF FindBlurred
<1>2. /\ pc[t] = "find" /\ UNCHANGED job /\ t \in stale'
      /\ \A n \in Name : cache[n] # None => cache'[n] = cache[n]
  BY <1>1, CacheGrows DEF FindBlurred
<1> QED
  BY <1>1, <1>2, FoundOrderly

LEMMA ChangeOrderly ==
    ASSUME TypeOK, NEW t \in Task, Orderly(t),
           Create(t) \/ CreateBlurred(t) \/ Delete(t) \/ Evict(t)
    PROVE  Orderly(t)'
<1>1. pc[t] \in Sorts /\ UNCHANGED job
  BY DEF Create, CreateBlurred, Delete, Evict, Sorts
<1>2. \/ \E linked, found : GoesOn(t, linked, found)
      \/ Fails(t) /\ UNCHANGED todo
  BY DEF Create, CreateBlurred, Delete, Evict, DeleteFails
<1> QED
  BY <1>1, <1>2, GoesOnOrderly, FailsOrderly

LEMMA ActOrderly ==
    ASSUME TypeOK, NEW t \in Task, Orderly(t), Act(t)
    PROVE  Orderly(t)'
BY BeginOrderly, CrudOrderly, ResolveOrderly, IdentifyOrderly, ReadPageOrderly, WriteOrderly,
   AnswerOrderly, FindHitOrderly, MissOrderly, BlurredOrderly, ChangeOrderly DEF Act

AllOrderly == \A t \in Task : Orderly(t)

LEMMA StepOrderly ==
    ASSUME TypeOK, AllOrderly, NEW t \in Task, Step(t)
    PROVE  AllOrderly'
<1> SUFFICES ASSUME NEW u \in Task PROVE Orderly(u)'
  BY DEF AllOrderly
<1>1. CASE u = t
  BY <1>1, ActOrderly DEF Step, AllOrderly
<1>2. CASE u # t
  <2>1. UNCHANGED Own(u) /\ UNCHANGED job /\ Grows(t)
    BY <1>2, Apart, ActTyped, Grown DEF Step, AllOrderly
  <2> QED
    BY <2>1, OrderlyKept DEF AllOrderly, Grows
<1> QED
  BY <1>1, <1>2

LEMMA ForeignOrderly ==
    ASSUME TypeOK, AllOrderly, ForeignWrite
    PROVE  AllOrderly'
<1> SUFFICES ASSUME NEW u \in Task PROVE Orderly(u)'
  BY DEF AllOrderly
<1>1. UNCHANGED Own(u) /\ UNCHANGED <<job, cache, stale>>
  BY DEF ForeignWrite, Own, localVars
<1> QED
  BY <1>1, OrderlyKept DEF AllOrderly

LEMMA InitOK == Init => TypeOK /\ AllOrderly
<1> SUFFICES ASSUME Init PROVE TypeOK /\ AllOrderly
  OBVIOUS
<1>1. TypeOK
  <2>1. /\ id \in [Name -> Id \cup {None}] /\ job \in [Task -> Job]
    BY LinkAssumption DEF Init
  <2>2. alive \subseteq Id
    BY <2>1 DEF Init
  <2>3. 0 \in 0 .. MaxObjects + PageSize /\ 1 \in Nat \ {0} /\ foreign \in 0 .. MaxForeign
    BY LinkAssumption DEF Init
  <2>4. links \subseteq alive /\ others \subseteq alive
    BY DEF Init
  <2> QED
    BY <2>1, <2>2, <2>3, <2>4 DEF Init, TypeOK
<1>2. ASSUME NEW t \in Task PROVE Orderly(t)
  <2>1. pc[t] = "new" /\ todo[t] = {} /\ seen[t] = {} /\ page[t] = 1 /\ read[t] = 0
    BY DEF Init
  <2>2. Course(t) /\ Remaining(t) /\ Aimed(t)
    BY <2>1 DEF Course, Remaining, Aimed, Sorts
  <2>3. Fresh(t) /\ Tallied(t)
    BY <2>1, FS_EmptySet DEF Fresh, Tallied
  <2> QED
    BY <2>1, <2>2, <2>3 DEF Orderly
<1> QED
  BY <1>1, <1>2 DEF AllOrderly

\* Types, and the order each task keeps by itself
OrderInv == TypeOK /\ AllOrderly

LEMMA OrderStep == OrderInv /\ [Next]_vars => OrderInv'
<1> SUFFICES ASSUME OrderInv, [Next]_vars PROVE OrderInv'
  OBVIOUS
<1> USE DEF OrderInv
<1>1. ASSUME NEW t \in Task, Step(t) PROVE OrderInv'
  BY <1>1, StepTypeOK, StepOrderly DEF AllOrderly
<1>2. CASE ForeignWrite
  BY <1>2, ForeignTypeOK, ForeignOrderly
<1>3. CASE UNCHANGED vars
  <2>1. TypeOK'
    BY <1>3 DEF TypeOK, vars, gatewayVars, localVars, historyVars
  <2>2. ASSUME NEW u \in Task PROVE Orderly(u)'
    <3>1. UNCHANGED Own(u) /\ UNCHANGED <<job, cache, stale>>
      BY <1>3 DEF Own, vars, gatewayVars, localVars, historyVars
    <3> QED
      BY <3>1, OrderlyKept DEF AllOrderly
  <2> QED
    BY <2>1, <2>2 DEF AllOrderly
<1> QED
  BY <1>1, <1>2, <1>3 DEF Next

\* Every value of every variable is of its type; no task reads more than MaxObjects and a page.
THEOREM LinksTypeCorrect == Spec => []TypeOK
<1>1. Init => OrderInv
  BY InitOK DEF OrderInv
<1>2. OrderInv => TypeOK
  BY DEF OrderInv
<1> QED
  BY <1>1, <1>2, OrderStep, PTL DEF Spec

\* In check mode a synchronising task writes no link, whatever the gateway answers.
THEOREM ChecksWriteNothing == Spec => SyncsRespectCheckMode
<1> DEFINE A == \A t \in Task : Is(t, Syncs) /\ job[t].check /\ Step(t) => links' = links
<1>1. OrderInv /\ [Next]_vars => [A]_vars
  <2> SUFFICES ASSUME OrderInv, NEW t \in Task, Is(t, Syncs), job[t].check, Step(t)
               PROVE  links' = links
    OBVIOUS
  <2>1. pc[t] \in {"new", "crud", "done"}
    BY DEF OrderInv, AllOrderly, Orderly
  <2>2. Begin(t) \/ Crud(t)
    BY <2>1 DEF Step, Act, Resolve, Identify, ReadPage, Associate, Disassociate, Reconciled,
                Answer, FindHit, FindMiss, FindFails, FindBlurred, Create, CreateBlurred, Delete,
                Evict
  <2> QED
    BY <2>2 DEF Begin, Crud, gatewayVars
<1>2. Init => OrderInv
  BY InitOK DEF OrderInv
<1> QED
  BY <1>1, <1>2, OrderStep, PTL DEF Spec, SyncsRespectCheckMode

\* Only a task that went on with a name it could not resolve takes away the assignment of
\* another user or another role (_find_resource without a filter, then delete): when every name
\* is resolved, OthersKept holds.
THEOREM ResolvedKeepOthers ==
    Spec => [][\A t \in Task : Step(t) /\ t \notin stale' => others' = others]_vars
<1> DEFINE A == \A t \in Task : Step(t) /\ t \notin stale' => others' = others
<1>1. OrderInv /\ [Next]_vars => [A]_vars
  <2> SUFFICES ASSUME OrderInv, NEW t \in Task, Step(t), t \notin stale'
               PROVE  others' = others
    OBVIOUS
  <2>1. ~Evict(t)
    BY DEF OrderInv, AllOrderly, Orderly, Evict
  <2> QED
    BY <2>1 DEF Step, Act, Begin, Crud, Resolve, Identify, ReadPage, Associate, Disassociate,
                Reconciled, Answer, FindHit, FindMiss, FindFails, FindBlurred, Create,
                CreateBlurred, Delete, gatewayVars
<1>2. Init => OrderInv
  BY InitOK DEF OrderInv
<1> QED
  BY <1>1, <1>2, OrderStep, PTL DEF Spec

-----------------------------------------------------------------------------
(* What a task knows of the links, as long as nobody else writes           *)

\* While it reads, all it has seen is linked, and all links of the pages behind it are seen
Reading(t) ==
    pc[t] = "read" =>
        /\ seen[t] \subseteq links
        /\ \A i \in links : Place(i) < (page[t] - 1) * PageSize => i \in seen[t]

\* Then it knows the links
Knowing(t) == pc[t] \in {"write", "answer"} => seen[t] = links

Succeeded(t) == pc[t] = "done" /\ ~report[t].failed

\* When a synchronising task ends, the links are what it wanted
Synced(t) ==
    Succeeded(t) /\ Is(t, Syncs) /\ ~job[t].check =>
        /\ \A n \in job[t].want : cache[n] # None
        /\ after[t] = {cache[n] : n \in job[t].want}

Searched(t) == Succeeded(t) /\ Is(t, Queries) => after[t] = seen[t]

\* The names a task that grants has seen to are linked
Granting(t) ==
    Is(t, {"grant"}) /\ t \notin stale =>
        /\ pc[t] \in Sorts =>
              \A n \in job[t].want \ todo[t] : cache[n] # None /\ cache[n] \in links
        /\ Succeeded(t) => \A n \in job[t].want : cache[n] # None /\ cache[n] \in after[t]

\* The names a task that revokes has seen to are not
Revoking(t) ==
    Is(t, {"revoke"}) /\ t \notin met /\ t \notin stale =>
        /\ pc[t] \in Sorts =>
              \A n \in job[t].want \ todo[t] : cache[n] # None /\ cache[n] \notin links
        /\ Succeeded(t) => \A n \in job[t].want : cache[n] # None /\ cache[n] \notin after[t]

Knows(t) ==
    t \notin crossed =>
        /\ Reading(t) /\ Knowing(t)
        /\ Synced(t) /\ Searched(t)
        /\ Granting(t) /\ Revoking(t)

\* What others do to a task: they write links only before it begins, after it has ended, or
\* across it
Others(u) ==
    /\ UNCHANGED Own(u) /\ UNCHANGED <<job, after[u]>>
    /\ \A n \in Name : cache[n] # None => cache'[n] = cache[n]
    /\ crossed \subseteq crossed' /\ met \subseteq met' /\ stale \subseteq stale'
    /\ \/ UNCHANGED <<id, links>>
       \/ u \in crossed'
       \/ pc[u] \in {"new", "done"}

LEMMA KnowsKept ==
    ASSUME TypeOK, NEW u \in Task, Knows(u), Others(u)
    PROVE  Knows(u)'
<1> SUFFICES ASSUME u \notin crossed' 
             PROVE  (/\ Reading(u) /\ Knowing(u)
                     /\ Synced(u) /\ Searched(u)
                     /\ Granting(u) /\ Revoking(u))'
  BY DEF Knows
<1>1. /\ UNCHANGED <<pc[u], report[u], todo[u], wanted[u], seen[u], page[u], after[u], job[u]>>
      /\ job[u].want \subseteq Name
      /\ \A n \in Name : cache[n] # None => cache'[n] = cache[n]
      /\ u \in met => u \in met'
      /\ u \in stale => u \in stale'
      /\ pc[u] \in {"new", "done"} \/ UNCHANGED links
  BY JobOK DEF Others, Own
<1>2. /\ Reading(u) /\ Knowing(u)
      /\ Synced(u) /\ Searched(u)
      /\ Granting(u) /\ Revoking(u)
  BY DEF Knows, Others
<1>3. Reading(u)' /\ Knowing(u)'
  BY <1>1, <1>2 DEF Reading, Knowing, Place
<1>4. Synced(u)'
  <2>1. CASE Succeeded(u) /\ Is(u, Syncs) /\ ~job[u].check
    <3>1. \A n \in job[u].want : cache[n] # None /\ cache'[n] = cache[n]
      BY <1>1, <1>2, <2>1 DEF Synced
    <3> QED
      BY <1>1, <1>2, <2>1, <3>1 DEF Synced
  <2>2. CASE ~(Succeeded(u) /\ Is(u, Syncs) /\ ~job[u].check)
    BY <1>1, <2>2 DEF Synced, Succeeded, Is
  <2> QED
    BY <2>1, <2>2
<1>5. Searched(u)'
  BY <1>1, <1>2 DEF Searched, Succeeded, Is
<1>6. Granting(u)'
  BY <1>1, <1>2 DEF Granting, Succeeded, Is, Sorts
<1>7. Revoking(u)'
  BY <1>1, <1>2 DEF Revoking, Succeeded, Is, Sorts
<1> QED
  BY <1>3, <1>4, <1>5, <1>6, <1>7

LEMMA StepOthers ==
    ASSUME OrderInv, NEW t \in Task, Step(t), NEW u \in Task \ {t}
    PROVE  Others(u)
<1>1. UNCHANGED Own(u) /\ UNCHANGED <<id, job>> /\ Grows(t)
  BY Apart, ActTyped, Grown DEF Step, OrderInv, AllOrderly
<1>2. UNCHANGED after[u]
  BY DEF Step, OrderInv, TypeOK
<1>3. crossed \subseteq crossed' /\ (UNCHANGED links \/ u \in crossed' \/ pc[u] \in {"new", "done"})
  BY DEF Step, Running
<1> QED
  BY <1>1, <1>2, <1>3 DEF Others, Grows

LEMMA ForeignOthers ==
    ASSUME OrderInv, ForeignWrite \/ UNCHANGED vars, NEW u \in Task
    PROVE  Others(u)
<1>1. CASE ForeignWrite
  BY <1>1 DEF ForeignWrite, Others, Own, localVars, Running
<1>2. CASE UNCHANGED vars
  BY <1>2 DEF vars, gatewayVars, localVars, historyVars, Others, Own
<1> QED
  BY <1>1, <1>2

-----------------------------------------------------------------------------
(* A task learns by its own steps                                          *)

\* The links and names are what they were, but for the step's own writes
LEMMA OwnStep ==
    ASSUME OrderInv, NEW t \in Task, Step(t)
    PROVE  /\ pc[t] # "done"
           /\ UNCHANGED <<id, job>>
           /\ t \in crossed' <=> t \in crossed
           /\ pc'[t] = "done" => after'[t] = links'
           /\ Grows(t)
<1>1. pc[t] # "done"
  BY DEF Step, Act, Begin, Crud, Resolve, Identify, ReadPage, Associate, Disassociate,
         Reconciled, Answer, FindHit, FindMiss, FindFails, FindBlurred, Create, CreateBlurred,
         Delete, Evict
<1>2. UNCHANGED <<id, job>> /\ Grows(t)
  BY ActTyped, Grown DEF Step, OrderInv, AllOrderly
<1> QED
  BY <1>1, <1>2 DEF Step, OrderInv, TypeOK

LEMMA KnowsFailed ==
    ASSUME NEW t \in Task, pc'[t] = "done", report'[t].failed
    PROVE  Knows(t)'
BY DEF Knows, Reading, Knowing, Synced, Searched, Granting, Revoking, Succeeded, Sorts

\* Nothing is known at first
LEMMA KnowsBegun ==
    ASSUME OrderInv, NEW t \in Task, Step(t), Begin(t) \/ Crud(t) \/ Resolve(t)
    PROVE  Knows(t)'
<1>1. /\ pc[t] \in {"new", "crud", "resolve"} /\ Fresh(t) /\ UNCHANGED <<links, seen, page, read, job>>
      /\ TypeOK /\ Orderly(t)
  BY DEF OrderInv, AllOrderly, Orderly, Begin, Crud, Resolve, gatewayVars, localVars
<1>2. CASE pc'[t] = "done"
  <2>1. report'[t].failed \/ Is(t, {"auditor"}) \/ job[t].check
    <3>1. Crud(t) \/ Resolve(t)
      BY <1>1, <1>2, Ending DEF Begin, First
    <3>2. CASE Crud(t)
      <4>1. ASSUME NEW changed \in BOOLEAN, ~OnlyReports(t, changed),
                   At(t, IF Is(t, Syncs) THEN "resolve" ELSE "find")
            PROVE  FALSE
        BY <1>1, <1>2, <4>1 DEF At, TypeOK
      <4>2. Fails(t) \/ \E changed \in BOOLEAN : OnlyReports(t, changed)
        BY <3>2, <4>1 DEF Crud
      <4> QED
        BY <1>1, <4>2, Ending DEF OnlyReports
    <3>3. CASE Resolve(t)
      BY <1>1, <1>2, <3>3, Ending DEF Resolve
    <3> QED
      BY <3>1, <3>2, <3>3
  <2>2. ~Is(t, Queries) /\ ~Is(t, Lists)
    <3>1. pc[t] \in {"crud", "resolve"}
      BY <1>1, <1>2, Ending DEF Begin, Crud, Resolve, First
    <3> QED
      BY <1>1, <3>1, Kinds DEF Orderly, Course, Is, Queries, Lists
  <2> QED
    BY <1>1, <1>2, <2>1, <2>2
    DEF Knows, Reading, Knowing, Synced, Searched, Granting, Revoking, Succeeded, Is, Sorts, Lists, Syncs, Queries
<1>3. CASE pc'[t] # "done"
  <2>1. pc'[t] \in {"crud", "resolve", "name", "find", "read"}
    BY <1>1, <1>3, Ending DEF Begin, Crud, Resolve, First, At, TypeOK
  <2>2. Reading(t)'
    <3>1. links \subseteq Nat /\ \A i \in links : Place(i) \in Nat
      BY <1>1, PlaceOK, LinkAssumption DEF TypeOK
    <3>2. \A i \in links : ~(Place(i) < (page[t] - 1) * PageSize)
      BY <1>1, <3>1, LinkAssumption DEF Fresh
    <3> QED
      BY <1>1, <3>2 DEF Reading, Fresh, Place
  <2>3. pc'[t] \in Sorts /\ Is(t, Lists) => todo'[t] = job[t].want
    <3>1. CASE Begin(t)
      BY <1>1, <3>1 DEF Begin, TypeOK, Is, Lists
    <3>2. CASE Crud(t) \/ Resolve(t)
      BY <1>1, <3>2, Kinds DEF Crud, Resolve, Orderly, Course, Is, Queries, Lists
    <3> QED
      BY <1>1, <3>1, <3>2
  <2>4. Granting(t)' /\ Revoking(t)'
    BY <1>1, <1>3, <2>3 DEF Granting, Revoking, Succeeded, Is, Lists
  <2> QED
    BY <1>1, <2>1, <2>2, <2>4 DEF Knows, Knowing, Synced, Searched, Succeeded
<1> QED
  BY <1>2, <1>3

LEMMA KnowsIdentified ==
    ASSUME OrderInv, NEW t \in Task, Step(t), Knows(t), Identify(t)
    PROVE  Knows(t)'
<1>1. pc[t] = "name" /\ UNCHANGED <<links, todo, job>> /\ TypeOK
  BY DEF OrderInv, Identify, gatewayVars
<1>2. CASE pc'[t] = "done"
  BY <1>1, <1>2, Ending, KnowsFailed DEF Identify
<1>3. CASE pc'[t] # "done"
  <2>1. pc'[t] = "find"
    BY <1>1, <1>3, Ending DEF Identify
  <2>2. /\ \A n \in Name : cache[n] # None => cache'[n] = cache[n]
        /\ t \in crossed' <=> t \in crossed
        /\ met \subseteq met' /\ stale \subseteq stale'
        /\ job[t].want \subseteq Name
    BY <1>1, OwnStep, JobOK DEF Grows
  <2>3. t \notin crossed' => Granting(t)' /\ Revoking(t)'
    BY <1>1, <2>1, <2>2 DEF Knows, Granting, Revoking, Is, Sorts, Succeeded
  <2> QED
    BY <2>1, <2>3 DEF Knows, Reading, Knowing, Synced, Searched, Succeeded
<1> QED
  BY <1>2, <1>3

LEMMA KnowsRead ==
    ASSUME OrderInv, NEW t \in Task, Step(t), Knows(t), ReadPage(t)
    PROVE  Knows(t)'
<1> DEFINE got == OnPage(page[t])
<1>1. pc[t] = "read" /\ UNCHANGED <<links, job, todo>> /\ TypeOK /\ Orderly(t)
  BY DEF OrderInv, AllOrderly, ReadPage, gatewayVars
<1>2. ~Is(t, {"grant"}) /\ ~Is(t, {"revoke"})
  BY <1>1 DEF Orderly, Course
<1>3. CASE pc'[t] = "done"
  BY <1>1, <1>3, Ending, KnowsFailed DEF ReadPage
<1>4. CASE pc'[t] # "done"
  <2> SUFFICES ASSUME t \notin crossed PROVE Reading(t)' /\ Knowing(t)'
    BY <1>2, <1>4, OwnStep DEF Knows, Synced, Searched, Granting, Revoking, Succeeded, Is
  <2>1. Reading(t)
    BY DEF Knows
  <2>2. seen'[t] = seen[t] \cup got /\ page[t] \in Nat \ {0}
    BY <1>1, <1>4, Ending DEF ReadPage, TypeOK
  <2>3. got \subseteq links /\ seen'[t] \subseteq links
    BY <1>1, <2>1, <2>2, PageOK DEF Reading
  <2>4. ASSUME NEW i \in links, Place(i) < page[t] * PageSize PROVE i \in seen'[t]
    <3>1. Place(i) \in Nat /\ PageSize \in Nat /\ (page[t] - 1) * PageSize \in Int /\ page[t] * PageSize \in Int
      BY <1>1, <2>2, PlaceOK, LinkAssumption
    <3>2. CASE Place(i) < (page[t] - 1) * PageSize
      BY <1>1, <2>1, <2>2, <3>2 DEF Reading
    <3>3. CASE ~(Place(i) < (page[t] - 1) * PageSize)
      <4>1. Place(i) \in (page[t] - 1) * PageSize .. page[t] * PageSize - 1
        BY <2>4, <3>1, <3>3
      <4> QED
        BY <2>2, <4>1 DEF OnPage
    <3> QED
      BY <3>2, <3>3
  <2>5. \/ pc'[t] = "read" /\ page'[t] = page[t] + 1
        \/ pc'[t] = "read" /\ page'[t] = 1
        \/ pc'[t] \in {"write", "answer"} /\ ~HasNext(page[t])
    BY <1>1, <1>4, Ending DEF ReadPage, Follows, TypeOK
  <2>6. CASE pc'[t] = "read" /\ page'[t] = page[t] + 1
    <3>1. page'[t] - 1 = page[t]
      BY <2>2, <2>6
    <3> QED
      BY <1>1, <2>3, <2>4, <2>6, <3>1 DEF Reading, Knowing, Place
  <2>7. CASE pc'[t] = "read" /\ page'[t] = 1
    <3>1. \A i \in links : ~(Place(i) < (page'[t] - 1) * PageSize)
      BY <1>1, <2>7, PlaceOK, LinkAssumption
    <3> QED
      BY <1>1, <2>3, <2>7, <3>1 DEF Reading, Knowing, Place
  <2>8. CASE pc'[t] \in {"write", "answer"} /\ ~HasNext(page[t])
    <3>1. Cardinality(links) \in Nat /\ page[t] * PageSize \in Nat
      BY <1>1, <2>2, Finite, LinkAssumption DEF TypeOK
    <3>2. Cardinality(links) <= page[t] * PageSize
      BY <2>8, <3>1 DEF HasNext
    <3>3. \A i \in links : Place(i) < page[t] * PageSize
      BY <1>1, <3>1, <3>2, PlaceOK
    <3> QED
      BY <1>1, <2>3, <2>4, <2>8, <3>3 DEF Reading, Knowing
  <2> QED
    BY <2>5, <2>6, <2>7, <2>8
<1> QED
  BY <1>3, <1>4

LEMMA KnowsWritten ==
    ASSUME OrderInv, NEW t \in Task, Step(t), Knows(t),
           Associate(t) \/ Disassociate(t) \/ Reconciled(t) \/ Answer(t)
    PROVE  Knows(t)'
<1>1. /\ pc[t] \in {"write", "answer"} /\ UNCHANGED <<job, todo, cache, wanted>> /\ TypeOK /\ Orderly(t)
  BY DEF OrderInv, AllOrderly, Associate, Disassociate, Reconciled, Answer, localVars
<1>2. ~Is(t, {"grant"}) /\ ~Is(t, {"revoke"})
  BY <1>1 DEF Orderly, Course
<1>3. CASE pc'[t] = "done" /\ report'[t].failed
  BY <1>3, KnowsFailed
<1>4. CASE Reconciled(t)
  <2>1. pc[t] = "write" /\ pc'[t] = "done" /\ seen[t] = wanted[t] /\ UNCHANGED links
    BY <1>1, <1>4, Ending DEF Reconciled, gatewayVars
  <2>2. Is(t, Syncs) /\ ~Is(t, Queries) /\ Resolved(t)
    BY <1>1, <2>1, Kinds DEF Orderly, Course, Is, Queries, Lists
  <2>3. t \notin crossed => after'[t] = wanted[t]
    BY <2>1, OwnStep DEF Knows, Knowing
  <2> QED
    BY <1>1, <1>2, <2>1, <2>2, <2>3, OwnStep
    DEF Knows, Reading, Knowing, Synced, Searched, Granting, Revoking, Resolved, Is
<1>5. CASE Answer(t) /\ ~report'[t].failed
  <2>1. pc[t] = "answer" /\ pc'[t] = "done" /\ UNCHANGED <<links, seen>>
    BY <1>1, <1>5, Ending DEF Answer, gatewayVars, localVars
  <2>2. ~Is(t, Syncs)
    BY <1>1, <2>1 DEF Orderly, Course
  <2>3. t \notin crossed => after'[t] = seen'[t]
    BY <2>1, OwnStep DEF Knows, Knowing
  <2> QED
    BY <1>1, <1>2, <2>1, <2>2, <2>3, OwnStep
    DEF Knows, Reading, Knowing, Synced, Searched, Granting, Revoking, Is
<1>6. CASE (Associate(t) \/ Disassociate(t)) /\ ~(pc'[t] = "done" /\ report'[t].failed)
  <2>1. PICK i, outcome : Post(t, i, outcome) /\ outcome \in {links \cup {i}, links \ {i}}
    BY <1>6 DEF Associate, Disassociate
  <2>2. /\ pc'[t] = "write" /\ links' = outcome
        /\ seen'[t] = IF i \in outcome THEN seen[t] \cup {i} ELSE seen[t] \ {i}
    BY <1>1, <1>6, <2>1, Ending DEF Post, TypeOK
  <2>3. pc[t] = "write"
    BY <1>6 DEF Associate, Disassociate
  <2>4. t \notin crossed => seen'[t] = links'
    BY <2>1, <2>2, <2>3 DEF Knows, Knowing
  <2> QED
    BY <1>2, <2>2, <2>4, OwnStep
    DEF Knows, Reading, Knowing, Synced, Searched, Granting, Revoking, Succeeded, Is
<1> QED
  BY <1>1, <1>3, <1>4, <1>5, <1>6, Ending DEF Answer

\* What is left of what an assignment has to keep
LEMMA KnowsAssigning ==
    ASSUME OrderInv, NEW t \in Task, Step(t), pc[t] \in Sorts, pc'[t] \in Sorts \cup {"done"},
           t \notin crossed' => Granting(t)' /\ Revoking(t)'
    PROVE  Knows(t)'
<1>1. ~Is(t, Syncs) /\ ~Is(t, Queries)
  BY SortsOK DEF OrderInv, AllOrderly
<1> QED
  BY <1>1, OwnStep DEF Knows, Reading, Knowing, Synced, Searched, Sorts, Is

\* The task goes on to its next name, and the one it leaves is as it should be
LEMMA GrantGoesOn ==
    ASSUME OrderInv, NEW t \in Task, Step(t), pc[t] \in Sorts, Is(t, {"grant"}),
           NEW linked, NEW found, GoesOn(t, linked, found),
           Granting(t), links \subseteq links',
           t \notin stale' => cache'[Current(t)] # None /\ cache'[Current(t)] \in links'
    PROVE  Granting(t)'
<1> SUFFICES ASSUME t \notin stale' PROVE Granting(t)'
  BY DEF Granting
<1>1. /\ TypeOK /\ todo'[t] = todo[t] \ {Current(t)} /\ todo[t] \subseteq job[t].want
      /\ UNCHANGED job /\ job[t].want \subseteq Name
      /\ \A n \in Name : cache[n] # None => cache'[n] = cache[n]
      /\ t \notin stale
  BY OwnStep, JobOK DEF OrderInv, AllOrderly, Orderly, Remaining, Is, Lists, GoesOn, TypeOK, Grows
<1>2. \A n \in job[t].want \ todo'[t] : cache'[n] # None /\ cache'[n] \in links'
  BY <1>1 DEF Granting
<1>3. pc'[t] \in {First(t), "done"} /\ (pc'[t] = "done" => todo'[t] = {} /\ after'[t] = links')
  <2>1. pc'[t] \in {First(t), "done"} /\ (pc'[t] = "done" => todo'[t] = {})
    BY <1>1, Ending DEF GoesOn, First
  <2> QED
    BY <2>1, OwnStep
<1> QED
  BY <1>1, <1>2, <1>3 DEF Granting, Succeeded, First, Is, Sorts

LEMMA RevokeGoesOn ==
    ASSUME OrderInv, NEW t \in Task, Step(t), pc[t] \in Sorts, Is(t, {"revoke"}),
           NEW linked, NEW found, GoesOn(t, linked, found),
           Revoking(t), links' \subseteq links,
           t \notin met' /\ t \notin stale' => cache'[Current(t)] # None /\ cache'[Current(t)] \notin links'
    PROVE  Revoking(t)'
<1> SUFFICES ASSUME t \notin met', t \notin stale' PROVE Revoking(t)'
  BY DEF Revoking
<1>1. /\ TypeOK /\ todo'[t] = todo[t] \ {Current(t)} /\ todo[t] \subseteq job[t].want
      /\ UNCHANGED job /\ job[t].want \subseteq Name
      /\ \A n \in Name : cache[n] # None => cache'[n] = cache[n]
      /\ t \notin met /\ t \notin stale
  BY OwnStep, JobOK DEF OrderInv, AllOrderly, Orderly, Remaining, Is, Lists, GoesOn, TypeOK, Grows
<1>2. \A n \in job[t].want \ todo'[t] : cache'[n] # None /\ cache'[n] \notin links'
  BY <1>1 DEF Revoking
<1>3. pc'[t] \in {First(t), "done"} /\ (pc'[t] = "done" => todo'[t] = {} /\ after'[t] = links')
  <2>1. pc'[t] \in {First(t), "done"} /\ (pc'[t] = "done" => todo'[t] = {})
    BY <1>1, Ending DEF GoesOn, First
  <2> QED
    BY <2>1, OwnStep
<1> QED
  BY <1>1, <1>2, <1>3 DEF Revoking, Succeeded, First, Is, Sorts

LEMMA SortsNext ==
    ASSUME OrderInv, NEW t \in Task, Step(t),
           \/ FindHit(t) \/ FindMiss(t) \/ FindFails(t) \/ FindBlurred(t)
           \/ Create(t) \/ CreateBlurred(t) \/ Delete(t) \/ Evict(t)
    PROVE  pc[t] \in Sorts /\ pc'[t] \in Sorts \cup {"done"}
<1>1. TypeOK
  BY DEF OrderInv
<1>2. pc[t] \in Sorts
  BY DEF FindHit, FindMiss, FindFails, FindBlurred, Create, CreateBlurred, Delete, Evict, Sorts
<1>3. \A l, f : GoesOn(t, l, f) => pc'[t] \in Sorts \cup {"done"}
  BY <1>1, Ending DEF GoesOn, First, Sorts
<1>4. Found(t) \/ NotFound(t) \/ DeleteFails(t) => pc'[t] \in Sorts \cup {"done"}
  BY <1>1, <1>3, Ending DEF Found, NotFound, DeleteFails, Sorts
<1>5. FindBlurred(t) => Found(t) \/ NotFound(t) \/ Goes(t, "evict")
  BY DEF FindBlurred
<1>6. CreateBlurred(t) => Fails(t) \/ \E l, f : GoesOn(t, l, f)
  BY DEF CreateBlurred
<1>7. Evict(t) => DeleteFails(t) \/ \E l, f : GoesOn(t, l, f)
  BY DEF Evict
<1>8. Goes(t, "evict") \/ Fails(t) => pc'[t] \in Sorts \cup {"done"}
  BY <1>1, Ending DEF Sorts
<1> QED
  BY <1>1, <1>2, <1>3, <1>4, <1>5, <1>6, <1>7, <1>8, Ending
  DEF FindHit, FindMiss, FindFails, Create, Delete

\* The names of a step that keeps all its names
LEMMA GrantStays ==
    ASSUME OrderInv, NEW t \in Task, Step(t), pc[t] \in Sorts, pc'[t] \in Sorts, UNCHANGED todo
    PROVE  /\ Granting(t) /\ links \subseteq links' => Granting(t)'
           /\ Revoking(t) /\ links' \subseteq links => Revoking(t)'
<1>1. /\ TypeOK /\ UNCHANGED job /\ job[t].want \subseteq Name
      /\ \A n \in Name : cache[n] # None => cache'[n] = cache[n]
      /\ met \subseteq met' /\ stale \subseteq stale'
  BY OwnStep, JobOK DEF OrderInv, Grows
<1>2. Granting(t) /\ links \subseteq links' => Granting(t)'
  BY <1>1 DEF Granting, Succeeded, Is, Sorts
<1>3. Revoking(t) /\ links' \subseteq links => Revoking(t)'
  BY <1>1 DEF Revoking, Succeeded, Is, Sorts
<1> QED
  BY <1>2, <1>3

\* A miss: the id of the current name is not linked; a known name is in the cache
LEMMA MissTarget ==
    ASSUME TypeOK, NEW t \in Task, Orderly(t), FindMiss(t)
    PROVE  /\ Target(t) \notin links
           /\ t \notin stale' => cache'[Current(t)] = Target(t) /\ Target(t) # None
<1>1. Target(t) \notin links /\ pc[t] = "find"
  BY DEF FindMiss, Assigned
<1>2. Target(t) = Known(Current(t)) /\ Current(t) \in Name
  BY <1>1, TargetOK, CurrentOK DEF Sorts
<1>3. CASE job[t].typed
  BY <1>1, <1>2, <1>3 DEF Orderly, Aimed, Known, FindMiss, Resolves
<1>4. CASE ~job[t].typed
  BY <1>2, <1>1, <1>4 DEF FindMiss, Resolves, Remember, Uses, Named
<1> QED
  BY <1>1, <1>3, <1>4

\* A success of a creation: the current name is in the cache, and its id exists
LEMMA CreateTarget ==
    ASSUME TypeOK, NEW t \in Task, Orderly(t), Create(t), Target(t) \in alive
    PROVE  cache'[Current(t)] = Target(t) /\ Target(t) # None
<1>1. Target(t) \in Id /\ pc[t] = "create"
  BY DEF Create, TypeOK
<1>2. Target(t) = Known(Current(t)) /\ Current(t) \in Name /\ Target(t) # None
  BY <1>1, TargetOK, CurrentOK, LinkAssumption DEF Sorts
<1>3. CASE job[t].typed
  BY <1>1, <1>2, <1>3 DEF Orderly, Aimed, Known, Create, Resolves
<1>4. CASE ~job[t].typed
  BY <1>2, <1>4 DEF Create, Resolves, Remember, Named
<1> QED
  BY <1>2, <1>3, <1>4

LEMMA KnowsFound ==
    ASSUME OrderInv, NEW t \in Task, Step(t), Knows(t), FindHit(t)
    PROVE  Knows(t)'
<1>1. /\ TypeOK /\ Orderly(t) /\ UNCHANGED <<job, links>> /\ Found(t)
      /\ pc[t] \in Sorts /\ pc'[t] \in Sorts \cup {"done"}
  BY SortsNext DEF OrderInv, AllOrderly, FindHit, gatewayVars
<1>2. cache'[Current(t)] = Target(t) /\ Target(t) # None /\ Target(t) \in links
  BY <1>1, HitTarget
<1> SUFFICES ASSUME t \notin crossed' PROVE Granting(t)' /\ Revoking(t)'
  BY <1>1, KnowsAssigning
<1>3. Granting(t) /\ Revoking(t)
  BY OwnStep DEF Knows
<1>4. CASE Is(t, {"grant"})
  <2>1. GoesOn(t, did[t], {Current(t)})
    BY <1>1, <1>4 DEF Found, Is
  <2>2. Granting(t)'
    BY <1>1, <1>2, <1>3, <1>4, <2>1, GrantGoesOn
  <2> QED
    BY <1>1, <1>4, <2>2 DEF Revoking, Is
<1>5. CASE Is(t, {"revoke"})
  <2>1. UNCHANGED todo /\ pc'[t] = "delete"
    BY <1>1, <1>5, Ending DEF Found, Is
  <2>2. Revoking(t)'
    BY <1>1, <1>3, <2>1, GrantStays DEF Sorts
  <2> QED
    BY <1>1, <1>5, <2>2 DEF Granting, Is
<1>6. CASE ~Is(t, {"grant"}) /\ ~Is(t, {"revoke"})
  BY <1>1, <1>6 DEF Granting, Revoking, Is
<1> QED
  BY <1>4, <1>5, <1>6

LEMMA KnowsMissed ==
    ASSUME OrderInv, NEW t \in Task, Step(t), Knows(t), FindMiss(t) \/ FindFails(t)
    PROVE  Knows(t)'
<1>1. /\ TypeOK /\ Orderly(t) /\ UNCHANGED <<job, links>>
      /\ pc[t] \in Sorts /\ pc'[t] \in Sorts \cup {"done"}
  BY SortsNext DEF OrderInv, AllOrderly, FindMiss, FindFails, gatewayVars
<1>2. NotFound(t) \/ Fails(t)
  BY DEF FindMiss, FindFails
<1>3. CASE Fails(t)
  BY <1>1, <1>3, Ending, KnowsFailed
<1>4. CASE NotFound(t)
  <2> SUFFICES ASSUME t \notin crossed' PROVE Granting(t)' /\ Revoking(t)'
    BY <1>1, KnowsAssigning
  <2>1. Granting(t) /\ Revoking(t)
    BY OwnStep DEF Knows
  <2>2. CASE Is(t, {"grant"})
    <3>1. UNCHANGED todo /\ pc'[t] = "create"
      BY <1>1, <1>4, <2>2, Ending DEF NotFound, Is
    <3>2. Granting(t)'
      BY <1>1, <2>1, <3>1, GrantStays DEF Sorts
    <3> QED
      BY <1>1, <2>2, <3>2 DEF Revoking, Is
  <2>3. CASE Is(t, {"revoke"})
    <3>1. GoesOn(t, did[t], seen[t])
      BY <1>4, <2>3 DEF NotFound, Is
    <3>2. t \notin met' /\ t \notin stale' => cache'[Current(t)] # None /\ cache'[Current(t)] \notin links'
      <4>1. CASE FindMiss(t)
        BY <1>1, <4>1, MissTarget
      <4>2. CASE FindFails(t)
        BY <4>2 DEF FindFails, Met
      <4> QED
        BY <4>1, <4>2
    <3>3. Revoking(t)'
      BY <1>1, <2>1, <2>3, <3>1, <3>2, RevokeGoesOn
    <3> QED
      BY <1>1, <2>3, <3>3 DEF Granting, Is
  <2>4. CASE ~Is(t, {"grant"}) /\ ~Is(t, {"revoke"})
    BY <1>1, <2>4 DEF Granting, Revoking, Is
  <2> QED
    BY <2>2, <2>3, <2>4
<1> QED
  BY <1>2, <1>3, <1>4

LEMMA KnowsCreated ==
    ASSUME OrderInv, NEW t \in Task, Step(t), Knows(t), Create(t)
    PROVE  Knows(t)'
<1>1. /\ TypeOK /\ Orderly(t) /\ UNCHANGED job /\ pc[t] = "create"
      /\ pc[t] \in Sorts /\ pc'[t] \in Sorts \cup {"done"}
  BY SortsNext DEF OrderInv, AllOrderly, Create
<1>2. CASE Fails(t)
  BY <1>1, <1>2, Ending, KnowsFailed
<1>3. CASE Target(t) \in alive /\ links' = links \cup {Target(t)} /\ GoesOn(t, TRUE, seen[t])
  <2> SUFFICES ASSUME t \notin crossed' PROVE Granting(t)' /\ Revoking(t)'
    BY <1>1, KnowsAssigning
  <2>1. Granting(t)
    BY OwnStep DEF Knows
  <2>2. cache'[Current(t)] # None /\ cache'[Current(t)] \in links'
    BY <1>1, <1>3, CreateTarget
  <2>3. Is(t, {"grant"}) => Granting(t)'
    BY <1>1, <1>3, <2>1, <2>2, GrantGoesOn
  <2>4. ~Is(t, {"revoke"})
    BY <1>1 DEF Orderly, Course
  <2> QED
    BY <1>1, <2>3, <2>4 DEF Granting, Revoking, Is
<1> QED
  BY <1>2, <1>3 DEF Create

LEMMA KnowsDeleted ==
    ASSUME OrderInv, NEW t \in Task, Step(t), Knows(t), Delete(t)
    PROVE  Knows(t)'
<1>1. /\ TypeOK /\ Orderly(t) /\ UNCHANGED <<job, cache>> /\ pc[t] = "delete"
      /\ pc[t] \in Sorts /\ pc'[t] \in Sorts \cup {"done"}
  BY SortsNext DEF OrderInv, AllOrderly, Delete
<1>2. ~Is(t, {"grant"})
  BY <1>1 DEF Orderly, Course
<1>3. t \notin stale' => cache[Current(t)] # None /\ wanted[t] = {cache[Current(t)]}
  BY <1>1 DEF Orderly, Aimed, Delete
<1>4. CASE Fails(t)
  BY <1>1, <1>4, Ending, KnowsFailed
<1>5. CASE ~Fails(t)
  <2> SUFFICES ASSUME t \notin crossed' PROVE Granting(t)' /\ Revoking(t)'
    BY <1>1, KnowsAssigning
  <2>1. Revoking(t)
    BY OwnStep DEF Knows
  <2>2. /\ \E linked, found : GoesOn(t, linked, found)
        /\ links' \subseteq links
        /\ t \notin met' /\ t \notin stale' => cache'[Current(t)] \notin links'
    <3>1. (\E linked, found : GoesOn(t, linked, found)) /\ links' \subseteq links
      BY <1>5 DEF Delete, DeleteFails
    <3>2. t \in met' \/ links' = links \ wanted[t] \/ (UNCHANGED links /\ ~(wanted[t] \subseteq links))
      BY DEF Delete, Met
    <3> QED
      BY <1>1, <1>3, <3>1, <3>2
  <2>3. Is(t, {"revoke"}) => Revoking(t)'
    BY <1>1, <1>3, <2>1, <2>2, RevokeGoesOn
  <2> QED
    BY <1>1, <1>2, <2>3 DEF Granting, Revoking, Is
<1> QED
  BY <1>4, <1>5

\* Nobody takes away somebody else's assignment unless it could not resolve a name
LEMMA BlurredStale ==
    ASSUME OrderInv, NEW t \in Task, FindBlurred(t) \/ CreateBlurred(t) \/ Evict(t)
    PROVE  t \in stale'
<1>1. CASE FindBlurred(t) \/ CreateBlurred(t)
  BY <1>1 DEF FindBlurred, CreateBlurred, Blurs
<1>2. CASE Evict(t)
  BY <1>2 DEF OrderInv, AllOrderly, Orderly, Evict
<1> QED
  BY <1>1, <1>2

\* Such a task knows nothing any more
LEMMA KnowsBlurred ==
    ASSUME OrderInv, NEW t \in Task, Step(t), FindBlurred(t) \/ CreateBlurred(t) \/ Evict(t)
    PROVE  Knows(t)'
<1>1. pc[t] \in Sorts /\ pc'[t] \in Sorts \cup {"done"}
  BY SortsNext
<1>2. t \in stale'
  BY BlurredStale
<1>3. Granting(t)' /\ Revoking(t)'
  BY <1>2 DEF Granting, Revoking
<1> QED
  BY <1>1, <1>3, KnowsAssigning

AllKnow == \A t \in Task : Knows(t)

LEMMA StepKnows ==
    ASSUME OrderInv, AllKnow, [Next]_vars
    PROVE  AllKnow'
<1> SUFFICES ASSUME NEW u \in Task PROVE Knows(u)'
  BY DEF AllKnow
<1>1. TypeOK /\ Knows(u)
  BY DEF OrderInv, AllKnow
<1>2. ASSUME Step(u) PROVE Knows(u)'
  BY <1>1, <1>2, KnowsBegun, KnowsIdentified, KnowsRead, KnowsWritten, KnowsFound, KnowsMissed,
     KnowsCreated, KnowsDeleted, KnowsBlurred DEF Step, Act
<1>3. ASSUME NEW t \in Task \ {u}, Step(t) PROVE Knows(u)'
  BY <1>1, <1>3, StepOthers, KnowsKept
<1>4. CASE ForeignWrite \/ UNCHANGED vars
  BY <1>1, <1>4, ForeignOthers, KnowsKept
<1> QED
  BY <1>2, <1>3, <1>4 DEF Next

\* Invariant
KnowledgeInv == OrderInv /\ AllKnow

LEMMA KnowledgeInit == Init => KnowledgeInv
<1> SUFFICES ASSUME Init, NEW t \in Task PROVE Knows(t)
  BY InitOK DEF KnowledgeInv, OrderInv, AllKnow
<1> QED
  BY DEF Init, Knows, Reading, Knowing, Synced, Searched, Granting, Revoking, Succeeded, Sorts

LEMMA KnowledgeStep == KnowledgeInv /\ [Next]_vars => KnowledgeInv'
BY OrderStep, StepKnows DEF KnowledgeInv

\* What a successful task knows is what it was asked
LEMMA KnownEnd == KnowledgeInv => LinkedAsAsked
<1> SUFFICES ASSUME KnowledgeInv, NEW t \in Task, Undisturbed(t), ~report[t].failed
             PROVE  /\ Is(t, Syncs) /\ ~job[t].check => after[t] = Wish(t)
                    /\ Is(t, Queries) => after[t] = seen[t]
                    /\ Is(t, {"one"}) => Cardinality(after[t]) = 1
                    /\ Is(t, {"grant"}) => Wish(t) \subseteq after[t]
                    /\ Is(t, {"revoke"}) /\ t \notin met => Wish(t) \cap after[t] = {}
  BY DEF LinkedAsAsked
<1>1. /\ Succeeded(t) /\ t \notin stale /\ TypeOK /\ Orderly(t)
      /\ Synced(t) /\ Searched(t) /\ Granting(t) /\ Revoking(t)
  BY DEF KnowledgeInv, OrderInv, AllOrderly, AllKnow, Knows, Undisturbed, Succeeded
<1>2. Is(t, Syncs) /\ ~job[t].check => after[t] = Wish(t)
  BY <1>1 DEF Synced, Wish, Known
<1>3. Is(t, Queries) => after[t] = seen[t]
  BY <1>1 DEF Searched
<1>4. ASSUME Is(t, {"one"}) PROVE Cardinality(after[t]) = 1
  <2>1. Is(t, Queries)
    BY <1>4 DEF Is, Queries
  <2>2. read[t] = 1 /\ Tallied(t) /\ after[t] = seen[t]
    BY <1>1, <1>3, <1>4, <2>1 DEF Orderly, Succeeded
  <2>3. IsFiniteSet(seen[t]) /\ Cardinality(seen[t]) \in Nat
    BY <1>1, Finite DEF TypeOK
  <2>4. Cardinality(seen[t]) <= 1 /\ seen[t] # {}
    BY <2>2 DEF Tallied
  <2>5. Cardinality(seen[t]) # 0
    BY <2>3, <2>4, FS_EmptySet
  <2> QED
    BY <2>2, <2>3, <2>4, <2>5
<1>5. Is(t, {"grant"}) => Wish(t) \subseteq after[t]
  BY <1>1 DEF Granting, Wish, Known
<1>6. Is(t, {"revoke"}) /\ t \notin met => Wish(t) \cap after[t] = {}
  BY <1>1 DEF Revoking, Wish, Known
<1> QED
  BY <1>2, <1>3, <1>4, <1>5, <1>6

\* For any pages, names and faults: a task that ends well and undisturbed has made the links
\* as it was asked, or listed them all.
THEOREM LinkedAsAskedAlways == Spec => []LinkedAsAsked
BY KnowledgeInit, KnowledgeStep, KnownEnd, PTL DEF Spec

=============================================================================
