------------------------- MODULE ResourceTaskProofs -------------------------
(* Theorems about ResourceTask for every set of tasks, fields, values and  *)
(* requests, every fault and any number of other clients' writes.          *)
EXTENDS ResourceTask, FiniteSetTheorems, TLAPS

\* The strengthening that TypeOK needs: an id is used only after find returned one
TargetKnown == \A t \in Task : pc[t] \in {"fetch", "patch", "delete"} => target[t] \in Id

\* A task in check mode never comes to a writing request
CheckStops == \A t \in Task : want[t].check => pc[t] \in {"new", "find", "done"}

TaskInv == TypeOK /\ TargetKnown /\ CheckStops

\* The bookkeeping of a task: where it is, what it reports, what it left behind
BookOK ==
    /\ pc \in [Task -> {"new", "find", "create", "fetch", "patch", "delete", "done"}]
    /\ report \in [Task -> SUBSET {"changed", "failed", "exists"}]
    /\ after \in [Task -> Gateway]

LEMMA InitInv == Init => TaskInv
<1> SUFFICES ASSUME Init PROVE TaskInv
  OBVIOUS
<1>1. objs \in Gateway /\ nextId \in 1 .. MaxId + 1
  BY ResourceAssumption DEF Init, Gateway, Id
<1>2. want \in [Task -> Parameters]
  BY ResourceAssumption DEF Init
<1>3. TypeOK
  BY <1>1, <1>2, ResourceAssumption DEF Init, TypeOK
<1>4. \A t \in Task : pc[t] = "new"
  BY DEF Init
<1>5. TargetKnown /\ CheckStops
  BY <1>4 DEF TargetKnown, CheckStops
<1> QED
  BY <1>3, <1>5 DEF TaskInv

-----------------------------------------------------------------------------
(* The operators the actions are built from                                *)

\* The fields of a request, and what the requests make of them, are what they should be
LEMMA WishOK ==
    ASSUME TypeOK, NEW t \in Task
    PROVE  /\ want[t].fields \in Wish /\ want[t].state \in State
           /\ want[t].check \in BOOLEAN /\ want[t].direct \in BOOLEAN
<1>1. want[t] \in Parameters
  BY DEF TypeOK
<1> QED
  BY <1>1 DEF Parameters

LEMMA ValidatedOK ==
    ASSUME NEW wish \in Wish
    PROVE  Validated(wish) \in Wish
<1>1. ASSUME NEW f \in Field
      PROVE  (IF wish[f] = None THEN Default[f] ELSE wish[f]) \in Value \cup {None}
  BY ResourceAssumption DEF Wish
<1> QED
  BY <1>1 DEF Validated, Wish

LEMMA FreshOK ==
    ASSUME TypeOK, NEW t \in Task
    PROVE  Fresh(want[t].fields) \in Object
BY WishOK, ResourceAssumption DEF Fresh, Object, Wish

LEMMA PatchedOK ==
    ASSUME TypeOK, NEW t \in Task, NEW obj \in Object
    PROVE  Patched(obj, Body(t)) \in Object
<1>1. current[t] \in Object \cup {None}
  BY DEF TypeOK
<1>2. ASSUME NEW f \in Field PROVE Body(t)[f] \in Value \cup {None}
  <2>1. want[t].fields[f] \in Value \cup {None}
    BY WishOK, ResourceAssumption DEF Wish
  <2> QED
    BY <1>1, <2>1 DEF Body, Told, Merged, Object
<1> QED
  BY <1>2 DEF Patched, Object

LEMMA EndOK ==
    ASSUME TypeOK, NEW t \in Task, NEW flags \in SUBSET {"changed", "failed", "exists"},
           objs' \in Gateway, End(t, flags)
    PROVE  BookOK'
BY DEF TypeOK, End, BookOK, Gateway, Id, Object

LEMMA GotoOK ==
    ASSUME TypeOK, NEW t \in Task, Goto(t, "find") \/ Goto(t, "create") \/ Goto(t, "fetch")
                                   \/ Goto(t, "patch") \/ Goto(t, "delete")
    PROVE  BookOK'
BY DEF TypeOK, Goto, BookOK, Gateway, Id, Object
-----------------------------------------------------------------------------
(* Every action keeps TypeOK                                               *)

\* What a task's step does to everything but its own bookkeeping
RestOK ==
    /\ objs \in Gateway
    /\ nextId \in 1 .. MaxId + 1
    /\ target \in [Task -> Id \cup {None}]
    /\ current \in [Task -> Object \cup {None}]
    /\ before \in [Task -> Gateway]

LEMMA StepTypeOK ==
    ASSUME TypeOK, BookOK', RestOK', UNCHANGED <<want, foreign>>,
           met' \subseteq Task, crossed' \subseteq Task
    PROVE  TypeOK'
BY DEF TypeOK, BookOK, RestOK, Gateway

LEMMA ReadsOK ==
    ASSUME TypeOK, Reads
    PROVE  objs' \in Gateway /\ nextId' \in 1 .. MaxId + 1 /\ crossed' \subseteq Task
BY DEF TypeOK, Reads, gatewayVars, Gateway, Id, Object

LEMMA MetOK ==
    ASSUME TypeOK, NEW t \in Task, UNCHANGED met \/ met' = met \cup {t}
    PROVE  met' \subseteq Task
BY DEF TypeOK

LEMMA ProceedOK ==
    ASSUME TypeOK, NEW t \in Task, objs' \in Gateway,
           \/ Proceed(t, "create") \/ Proceed(t, "fetch") \/ Proceed(t, "delete")
           \/ NotThere(t)
    PROVE  BookOK'
<1>1. CASE End(t, {"changed"}) \/ End(t, {})
  BY <1>1, EndOK
<1>2. CASE Goto(t, "create") \/ Goto(t, "fetch") \/ Goto(t, "delete")
  BY <1>2, GotoOK
<1> QED
  BY <1>1, <1>2 DEF Proceed, NotThere

LEMMA FindTypeOK ==
    ASSUME TypeOK, NEW t \in Task, FindHit(t) \/ FindMiss(t) \/ FindFails(t)
    PROVE  TypeOK'
<1>1. /\ objs' \in Gateway /\ nextId' \in 1 .. MaxId + 1 /\ crossed' \subseteq Task
      /\ UNCHANGED <<want, foreign, before, current>>
  BY ReadsOK DEF FindHit, FindMiss, FindFails
<1>2. target' \in [Task -> Id \cup {None}]
  BY DEF FindHit, FindMiss, FindFails, TypeOK, Standing
<1>3. met' \subseteq Task
  BY MetOK DEF FindHit, FindMiss, FindFails, Fault
<1>4. BookOK'
  <2>1. CASE FindHit(t)
    BY <2>1, <1>1, EndOK, ProceedOK DEF FindHit, Outdated
  <2>2. CASE FindMiss(t)
    BY <2>2, <1>1, ProceedOK DEF FindMiss
  <2>3. CASE FindFails(t)
    BY <2>3, <1>1, EndOK, ProceedOK DEF FindFails
  <2> QED
    BY <2>1, <2>2, <2>3
<1>5. RestOK'
  BY <1>1, <1>2 DEF RestOK, TypeOK, Gateway
<1> QED
  BY <1>1, <1>3, <1>4, <1>5, StepTypeOK

\* A write that took effect, whatever became of its answer
LEMMA EffectTypeOK ==
    ASSUME TypeOK, NEW t \in Task, NEW flags \in SUBSET {"changed", "failed", "exists"},
           objs' \in Gateway, nextId' \in 1 .. MaxId + 1, Crosses(t), End(t, flags),
           UNCHANGED met \/ met' = met \cup {t},
           UNCHANGED <<want, target, current, foreign, before>>
    PROVE  TypeOK'
<1>1. BookOK'
  BY EndOK
<1>2. met' \subseteq Task
  BY MetOK
<1>3. crossed' \subseteq Task
  BY DEF TypeOK, Crosses
<1>4. RestOK'
  BY DEF RestOK, TypeOK, Gateway
<1> QED
  BY <1>1, <1>2, <1>3, <1>4, StepTypeOK

\* A request that changed nothing and ends the task
LEMMA RefusedTypeOK ==
    ASSUME TypeOK, NEW t \in Task, Reads, End(t, {"failed"}),
           UNCHANGED met \/ met' = met \cup {t},
           UNCHANGED <<want, target, current, foreign, before>>
    PROVE  TypeOK'
<1>1. objs' \in Gateway /\ nextId' \in 1 .. MaxId + 1 /\ crossed' \subseteq Task
  BY ReadsOK
<1>2. BookOK' /\ met' \subseteq Task
  BY <1>1, EndOK, MetOK
<1>3. RestOK'
  BY <1>1 DEF RestOK, TypeOK, Gateway
<1> QED
  BY <1>1, <1>2, <1>3, StepTypeOK

LEMMA CreateTypeOK ==
    ASSUME TypeOK, NEW t \in Task, Create(t)
    PROVE  TypeOK'
<1> DEFINE effect == /\ objs' = [objs EXCEPT ![nextId] = Fresh(want[t].fields)]
                     /\ nextId' = nextId + 1
<1> USE DEF Create
<1>1. CASE effect /\ nextId \in Id /\ Crosses(t)
  <2>1. objs' \in Gateway
    BY <1>1, FreshOK DEF TypeOK, Gateway
  <2>2. nextId' \in 1 .. MaxId + 1
    BY <1>1, ResourceAssumption DEF Id
  <2>3. \/ End(t, {"changed"}) /\ UNCHANGED met
        \/ End(t, {"failed"}) /\ (UNCHANGED met \/ met' = met \cup {t})
    BY DEF Writes, Fault
  <2> QED
    BY <1>1, <2>1, <2>2, <2>3, EffectTypeOK
<1>2. CASE Reads /\ End(t, {"failed"}) /\ (UNCHANGED met \/ met' = met \cup {t})
  BY <1>2, RefusedTypeOK
<1> QED
  BY <1>1, <1>2 DEF Writes, Fault

LEMMA FetchTypeOK ==
    ASSUME TypeOK, TargetKnown, NEW t \in Task, Fetch(t)
    PROVE  TypeOK'
<1> USE DEF Fetch
<1>1. /\ objs' \in Gateway /\ nextId' \in 1 .. MaxId + 1 /\ crossed' \subseteq Task
      /\ BookOK' /\ met' \subseteq Task
  BY ReadsOK, GotoOK, MetOK DEF Fault
<1>2. current' \in [Task -> Object \cup {None}]
  <2>1. target[t] \in Id
    BY DEF TargetKnown
  <2>2. objs[target[t]] \in Object \cup {Gone}
    BY <2>1 DEF TypeOK, Gateway
  <2> QED
    BY <2>2 DEF TypeOK
<1>3. RestOK'
  BY <1>1, <1>2 DEF RestOK, TypeOK, Gateway
<1> QED
  BY <1>1, <1>3, StepTypeOK

LEMMA DirectFetchTypeOK ==
    ASSUME TypeOK, NEW t \in Task, DirectFetch(t)
    PROVE  TypeOK'
<1> USE DEF DirectFetch
<1>1. /\ objs' \in Gateway /\ nextId' \in 1 .. MaxId + 1 /\ crossed' \subseteq Task
      /\ BookOK' /\ met' \subseteq Task
  BY ReadsOK, GotoOK, EndOK, MetOK DEF Fault
<1>2. Refound \subseteq Object \cup {None}
  BY DEF Refound, Standing, TypeOK, Gateway
<1>3. current' \in [Task -> Object \cup {None}]
  BY <1>2 DEF TypeOK
<1>4. RestOK'
  BY <1>1, <1>3 DEF RestOK, TypeOK, Gateway
<1> QED
  BY <1>1, <1>4, StepTypeOK

LEMMA PatchTypeOK ==
    ASSUME TypeOK, TargetKnown, NEW t \in Task, Patch(t)
    PROVE  TypeOK'
<1> DEFINE i == target[t]
           new == Patched(objs[i], Body(t))
<1> USE DEF Patch
<1>1. CASE objs[i] # Gone /\ objs' = [objs EXCEPT ![i] = new] /\ UNCHANGED nextId /\ Crosses(t)
  <2>1. i \in Id
    BY DEF TargetKnown
  <2>2. objs[i] \in Object
    BY <1>1, <2>1 DEF TypeOK, Gateway
  <2>3. new \in Object
    BY <2>2, PatchedOK
  <2>4. objs' \in Gateway /\ nextId' \in 1 .. MaxId + 1
    BY <1>1, <2>3 DEF TypeOK, Gateway
  <2>5. \/ (End(t, {"changed"}) \/ End(t, {})) /\ UNCHANGED met
        \/ End(t, {"failed"}) /\ (UNCHANGED met \/ met' = met \cup {t})
    BY DEF Writes, Fault
  <2> QED
    BY <1>1, <2>4, <2>5, EffectTypeOK
<1>2. CASE Reads /\ End(t, {"failed"}) /\ (UNCHANGED met \/ met' = met \cup {t})
  BY <1>2, RefusedTypeOK
<1> QED
  BY <1>1, <1>2 DEF Writes, Fault

LEMMA DeleteTypeOK ==
    ASSUME TypeOK, NEW t \in Task, Delete(t)
    PROVE  TypeOK'
<1> DEFINE i == target[t]
<1> USE DEF Delete
<1>1. CASE objs' = [objs EXCEPT ![i] = Gone] /\ UNCHANGED nextId /\ Crosses(t)
  <2>1. objs' \in Gateway /\ nextId' \in 1 .. MaxId + 1
    BY <1>1 DEF TypeOK, Gateway
  <2>2. \/ End(t, {"changed"}) /\ UNCHANGED met
        \/ End(t, {"failed"}) /\ (UNCHANGED met \/ met' = met \cup {t})
    BY DEF Writes, Fault, Reads
  <2> QED
    BY <1>1, <2>1, <2>2, EffectTypeOK
<1>2. CASE Reads /\ End(t, {"failed"}) /\ (UNCHANGED met \/ met' = met \cup {t})
  BY <1>2, RefusedTypeOK
<1> QED
  BY <1>1, <1>2 DEF Writes, Fault

LEMMA ForeignTypeOK ==
    ASSUME TypeOK, ForeignWrite
    PROVE  TypeOK'
<1> USE DEF ForeignWrite
<1>1. objs' \in Gateway
  <2>1. ASSUME NEW o \in Object PROVE [objs EXCEPT ![nextId] = o] \in Gateway
    BY DEF TypeOK, Gateway
  <2>2. ASSUME NEW i \in Standing(objs), NEW f \in Field, NEW v \in Value
        PROVE  [objs EXCEPT ![i][f] = v] \in Gateway
    <3>1. i \in Id /\ objs[i] \in Object
      BY DEF TypeOK, Gateway, Standing
    <3>2. [objs[i] EXCEPT ![f] = v] \in Object
      BY <3>1 DEF Object
    <3> QED
      BY <3>1, <3>2 DEF TypeOK, Gateway
  <2>3. ASSUME NEW i \in Standing(objs) PROVE [objs EXCEPT ![i] = Gone] \in Gateway
    BY DEF TypeOK, Gateway
  <2> QED
    BY <2>1, <2>2, <2>3
<1>2. nextId' \in 1 .. MaxId + 1
  BY ResourceAssumption DEF TypeOK, Id
<1>3. foreign' \in 0 .. MaxForeign
  BY ResourceAssumption DEF TypeOK
<1>4. crossed' \subseteq Task
  BY DEF TypeOK
<1>5. UNCHANGED <<pc, want, target, current, report, before, after, met>>
  BY DEF taskVars
<1> QED
  BY <1>1, <1>2, <1>3, <1>4, <1>5 DEF TypeOK, Gateway

LEMMA BeginTypeOK ==
    ASSUME TypeOK, NEW t \in Task, Begin(t)
    PROVE  TypeOK'
<1> USE DEF Begin
<1>1. BookOK'
  BY GotoOK
<1>2. UNCHANGED <<target, current, objs, nextId, foreign, met, crossed>>
  BY DEF gatewayVars
<1>3. before' \in [Task -> Gateway]
  BY DEF TypeOK, Gateway, Id, Object
<1>4. RestOK'
  BY <1>2, <1>3 DEF RestOK, TypeOK, Gateway
<1>5. want' \in [Task -> Parameters]
  <2> DEFINE mine == [want[t] EXCEPT !.fields = Validated(want[t].fields)]
  <2>1. want[t] \in Parameters /\ Validated(want[t].fields) \in Wish
    BY WishOK, ValidatedOK DEF TypeOK
  <2>2. mine \in Parameters
    BY <2>1 DEF Parameters
  <2>3. want' = [want EXCEPT ![t] = mine]
    OBVIOUS
  <2> HIDE DEF mine
  <2> QED
    BY <2>2, <2>3 DEF TypeOK
<1> QED
  BY <1>1, <1>2, <1>4, <1>5 DEF TypeOK, BookOK, RestOK, Gateway

LEMMA TaskTypeOK ==
    ASSUME TypeOK, TargetKnown, NEW t \in Task, TaskStep(t)
    PROVE  TypeOK'
BY BeginTypeOK, FindTypeOK, CreateTypeOK, FetchTypeOK, DirectFetchTypeOK, PatchTypeOK,
   DeleteTypeOK
   DEF TaskStep

-----------------------------------------------------------------------------
(* TargetKnown, CheckStops                                                 *)

\* Only the step with which a task begins changes its parameters, and of those the fields
WantKept(t) ==
    /\ pc[t] # "new" => want' = want
    /\ \A u \in Task \ {t} : want'[u] = want[u]
    /\ want'[t].state = want[t].state /\ want'[t].check = want[t].check

\* How a step moves the task that takes it
LEMMA Moves ==
    ASSUME TypeOK, NEW t \in Task, TaskStep(t)
    PROVE  /\ \A u \in Task \ {t} : pc'[u] = pc[u] /\ target'[u] = target[u]
           /\ WantKept(t)
           /\ pc'[t] \in {"fetch", "patch", "delete"}
                => \/ target'[t] \in Id /\ ~want[t].check /\ pc[t] = "find"
                   \/ target' = target /\ pc[t] = "fetch"
           /\ pc'[t] = "create" => ~want[t].check
           /\ pc'[t] \in {"find", "create", "fetch", "patch", "delete", "done"}
<1> DEFINE Goal == /\ \A u \in Task \ {t} : pc'[u] = pc[u] /\ target'[u] = target[u]
                   /\ WantKept(t)
                   /\ pc'[t] \in {"fetch", "patch", "delete"}
                        => \/ target'[t] \in Id /\ ~want[t].check /\ pc[t] = "find"
                           \/ target' = target /\ pc[t] = "fetch"
                   /\ pc'[t] = "create" => ~want[t].check
                   /\ pc'[t] \in {"find", "create", "fetch", "patch", "delete", "done"}
<1> USE DEF TypeOK, WantKept
<1>1. CASE Begin(t)
  BY <1>1 DEF Begin, Goto, Parameters
<1>2. CASE FindHit(t)
  <2>1. PICK i \in Standing(objs) : target' = [target EXCEPT ![t] = i]
    BY <1>2 DEF FindHit
  <2>2. target'[t] \in Id
    BY <2>1 DEF Standing
  <2>3. \/ pc' = [pc EXCEPT ![t] = "done"]
        \/ ~want[t].check /\ pc' = [pc EXCEPT ![t] = "delete"]
        \/ ~want[t].check /\ pc' = [pc EXCEPT ![t] = "fetch"]
    BY <1>2 DEF FindHit, Outdated, Proceed, End, Goto
  <2> QED
    BY <1>2, <2>1, <2>2, <2>3 DEF FindHit, Outdated
<1>3. CASE FindMiss(t) \/ FindFails(t)
  <2>1. \/ pc' = [pc EXCEPT ![t] = "done"]
        \/ ~want[t].check /\ pc' = [pc EXCEPT ![t] = "create"]
    BY <1>3 DEF FindMiss, FindFails, NotThere, Proceed, End, Goto
  <2> QED
    BY <1>3, <2>1 DEF FindMiss, FindFails
<1>4. CASE Fetch(t) \/ DirectFetch(t)
  <2>1. pc' = [pc EXCEPT ![t] = "patch"] \/ pc' = [pc EXCEPT ![t] = "done"]
    BY <1>4 DEF Fetch, DirectFetch, Goto, End
  <2> QED
    BY <1>4, <2>1 DEF Fetch, DirectFetch
<1>5. CASE Create(t) \/ Patch(t) \/ Delete(t)
  <2>1. pc' = [pc EXCEPT ![t] = "done"]
    BY <1>5 DEF Create, Patch, Delete, Writes, End
  <2> QED
    BY <1>5, <2>1 DEF Create, Patch, Delete
<1> QED
  BY <1>1, <1>2, <1>3, <1>4, <1>5 DEF TaskStep

LEMMA TaskKeepsInv ==
    ASSUME TaskInv, NEW t \in Task, TaskStep(t)
    PROVE  TaskInv'
<1> USE DEF TaskInv
<1>1. TypeOK'
  BY TaskTypeOK
<1>2. TargetKnown'
  BY Moves DEF TargetKnown, WantKept
<1>3. CheckStops'
  <2>1. pc[t] = "fetch" => ~want[t].check
    BY DEF CheckStops
  <2> QED
    BY <2>1, Moves DEF CheckStops, WantKept
<1> QED
  BY <1>1, <1>2, <1>3

LEMMA NextKeepsInv == TaskInv /\ [Next]_vars => TaskInv'
<1> SUFFICES ASSUME TaskInv, [Next]_vars PROVE TaskInv'
  OBVIOUS
<1> USE DEF TaskInv
<1>1. CASE UNCHANGED vars
  BY <1>1 DEF vars, taskVars, gatewayVars, TypeOK, TargetKnown, CheckStops, Gateway
<1>2. CASE ForeignWrite
  <2>1. TargetKnown' /\ CheckStops'
    BY <1>2 DEF ForeignWrite, taskVars, TargetKnown, CheckStops
  <2> QED
    BY <1>2, <2>1, ForeignTypeOK
<1> QED
  BY <1>1, <1>2, TaskKeepsInv DEF Next

LEMMA TaskInvAlways == Spec => []TaskInv
BY InitInv, NextKeepsInv, PTL DEF Spec

\* Every reachable state is well typed.
THEOREM TaskTypeCorrect == Spec => []TypeOK
<1>1. TaskInv => TypeOK
  BY DEF TaskInv
<1> QED
  BY <1>1, TaskInvAlways, PTL

-----------------------------------------------------------------------------
(* Check mode                                                              *)

\* A step changes the gateway only from a point that no task in check mode reaches
LEMMA OnlyWritersWrite ==
    ASSUME NEW t \in Task, TaskStep(t), pc[t] \in {"new", "find", "done"}
    PROVE  objs' = objs
BY DEF TaskStep, Begin, FindHit, FindMiss, FindFails, Create, Fetch, DirectFetch, Patch,
       Delete, Reads, gatewayVars

\* No step of a task in check mode writes to the gateway (the return before the
\* operation in BaseResourceActionPlugin.run), whatever find answered.
THEOREM CheckModeIsSafe == Spec => CheckModeWritesNothing
<1> DEFINE Quiet == \A t \in Task : want[t].check /\ pc'[t] # pc[t] => objs' = objs
<1>1. TaskInv /\ [Next]_vars => [Quiet]_vars
  <2> SUFFICES ASSUME TaskInv, [Next]_vars, NEW t \in Task, want[t].check, pc'[t] # pc[t]
               PROVE  objs' = objs
    BY DEF vars
  <2>1. CASE UNCHANGED vars
    BY <2>1 DEF vars, taskVars
  <2>2. CASE ForeignWrite
    BY <2>2 DEF ForeignWrite, taskVars
  <2>3. ASSUME NEW u \in Task, TaskStep(u) PROVE objs' = objs
    <3>1. u = t
      BY <2>3, Moves DEF TaskInv
    <3> QED
      BY <2>3, <3>1, OnlyWritersWrite DEF TaskInv, CheckStops
  <2> QED
    BY <2>1, <2>2, <2>3 DEF Next
<1> QED
  BY <1>1, TaskInvAlways, PTL DEF Spec, CheckModeWritesNothing

-----------------------------------------------------------------------------
(* Present means present                                                   *)

\* Only an absent task comes to DELETE
DeleteIsAsked == \A t \in Task : pc[t] = "delete" => want[t].state = "absent"

PresentInv == TaskInv /\ DeleteIsAsked /\ PresentMeansPresent

LEMMA InitPresent == Init => PresentInv
<1> SUFFICES ASSUME Init PROVE PresentInv
  OBVIOUS
<1>1. \A t \in Task : pc[t] = "new"
  BY DEF Init
<1> QED
  BY <1>1, InitInv DEF PresentInv, DeleteIsAsked, PresentMeansPresent, EndedWell

\* A task that ends leaves the objects of that moment behind; the others' books stay
LEMMA Books ==
    ASSUME TypeOK, NEW t \in Task, TaskStep(t)
    PROVE  /\ \A u \in Task \ {t} : report'[u] = report[u] /\ after'[u] = after[u]
           /\ pc'[t] = "done" => after'[t] = objs'
<1>1. \/ \E flags : End(t, flags)
      \/ \E point \in {"find", "create", "fetch", "patch", "delete"} : Goto(t, point)
  BY DEF TaskStep, Begin, FindHit, FindMiss, FindFails, Create, Fetch, DirectFetch, Patch,
         Delete, Outdated, NotThere, Proceed, Writes
<1> QED
  BY <1>1 DEF End, Goto, TypeOK

LEMMA StepDeleteIsAsked ==
    ASSUME TypeOK, DeleteIsAsked, NEW t \in Task, TaskStep(t)
    PROVE  DeleteIsAsked'
<1>1. pc'[t] = "delete" => want[t].state = "absent"
  <2>1. CASE FindHit(t)
    BY <2>1 DEF FindHit, Outdated, Proceed, End, Goto, TypeOK
  <2>2. CASE FindMiss(t) \/ FindFails(t)
    BY <2>2 DEF FindMiss, FindFails, NotThere, Proceed, End, Goto, TypeOK
  <2>3. CASE Begin(t) \/ Fetch(t) \/ DirectFetch(t)
    BY <2>3 DEF Begin, Fetch, DirectFetch, Goto, End, TypeOK
  <2>4. CASE Create(t) \/ Patch(t) \/ Delete(t)
    BY <2>4 DEF Create, Patch, Delete, Writes, End, TypeOK
  <2> QED
    BY <2>1, <2>2, <2>3, <2>4 DEF TaskStep
<1> QED
  BY <1>1, Moves DEF DeleteIsAsked, WantKept

\* The step with which a task ends well leaves what the task asked for
LEMMA EndsPresent ==
    ASSUME TypeOK, TargetKnown, DeleteIsAsked, NEW t \in Task, TaskStep(t),
           Acts(t, {"present", "enforced"}), Sayable(t), pc'[t] = "done", "failed" \notin report'[t]
    PROVE  \E i \in Standing(objs') : Matches(want[t].fields, objs'[i])
<1> USE DEF TypeOK
<1>1. CASE FindHit(t)
  <2>1. PICK i \in Standing(objs) : ~ShouldUpdate(want[t].fields, objs[i])
    <3>1. ~End(t, {"failed"})
      BY DEF End
    <3> QED
      BY <1>1, <3>1 DEF FindHit, Outdated, Proceed, Goto, Acts
  <2>2. objs' = objs
    BY <1>1 DEF FindHit, Outdated, Reads, gatewayVars
  <2> QED
    BY <2>1, <2>2 DEF ShouldUpdate, Matches
<1>2. CASE Create(t)
  <2>1. nextId \in Id /\ objs' = [objs EXCEPT ![nextId] = Fresh(want[t].fields)]
    BY <1>2 DEF Create, Writes, End
  <2>2. objs'[nextId] = Fresh(want[t].fields)
    BY <2>1 DEF Gateway
  <2>3. nextId \in Standing(objs')
    BY <2>1, <2>2, FreshOK, ResourceAssumption DEF Standing
  <2>4. Matches(want[t].fields, objs'[nextId])
    BY <2>2 DEF Matches, Fresh
  <2> QED
    BY <2>3, <2>4
<1>3. CASE Patch(t)
  <2> DEFINE i == target[t]
             new == Patched(objs[i], Body(t))
  <2>1. objs[i] # Gone /\ objs' = [objs EXCEPT ![i] = new]
    BY <1>3 DEF Patch, Writes, End
  <2>2. i \in Id
    BY <1>3 DEF Patch, TargetKnown
  <2>3. objs'[i] = new
    BY <2>1, <2>2 DEF Gateway
  <2>4. new \in Object
    BY <2>1, <2>2, PatchedOK DEF Gateway
  <2>5. i \in Standing(objs')
    BY <2>2, <2>3, <2>4, ResourceAssumption DEF Standing
  <2>6. Matches(want[t].fields, new)
    <3>1. ASSUME NEW f \in Field, want[t].fields[f] # None
          PROVE  Body(t)[f] = want[t].fields[f]
      BY <3>1 DEF Body, Told, Merged, Sayable
    <3> QED
      BY <3>1 DEF Matches, Patched
  <2> QED
    BY <2>3, <2>5, <2>6
<1>4. CASE FindMiss(t) \/ FindFails(t)
  BY <1>4 DEF FindMiss, FindFails, NotThere, Proceed, Goto, End, Acts
<1>5. CASE Begin(t) \/ Fetch(t) \/ Delete(t)
  BY <1>5 DEF Begin, Fetch, Delete, Goto, DeleteIsAsked, Acts
<1>6. CASE DirectFetch(t)
  <2>1. PICK i \in Standing(objs) : ~ShouldUpdate(want[t].fields, objs[i])
    BY <1>6 DEF DirectFetch, Refound, Goto, End
  <2>2. objs' = objs
    BY <1>6 DEF DirectFetch, Reads, gatewayVars
  <2>3. Matches(want[t].fields, objs[i])
    BY <2>1 DEF ShouldUpdate, Matches
  <2> QED
    BY <2>1, <2>2, <2>3
<1> QED
  BY <1>1, <1>2, <1>3, <1>4, <1>5, <1>6 DEF TaskStep

LEMMA StepPresent ==
    ASSUME PresentInv, NEW t \in Task, TaskStep(t)
    PROVE  PresentMeansPresent'
<1> USE DEF PresentInv, TaskInv
<1> SUFFICES ASSUME NEW u \in Task, EndedWell(u)', Acts(u, {"present", "enforced"})', Sayable(u)'
             PROVE  \E i \in Standing(after'[u]) : Matches(want'[u].fields, after'[u][i])
  BY DEF PresentMeansPresent, Standing, Matches
<1>1. want'[u] = want[u]
  <2>1. pc'[t] = "done" => pc[t] # "new"
    BY DEF TaskStep, Begin, FindHit, FindMiss, FindFails, Create, Fetch, DirectFetch, Patch,
           Delete, Goto, TypeOK
  <2> QED
    BY <2>1, Moves DEF WantKept, EndedWell
<1>4. Acts(u, {"present", "enforced"}) /\ Sayable(u)
  BY <1>1 DEF Acts, Sayable
<1>2. CASE u = t
  BY <1>1, <1>4, <1>2, Books, EndsPresent DEF EndedWell, Standing, Matches
<1>3. CASE u # t
  <2>1. EndedWell(u) /\ after'[u] = after[u]
    BY <1>3, Moves, Books DEF EndedWell
  <2> QED
    BY <1>1, <1>4, <2>1 DEF PresentMeansPresent, Standing, Matches
<1> QED
  BY <1>2, <1>3

LEMMA NextPresent == PresentInv /\ [Next]_vars => PresentInv'
<1> SUFFICES ASSUME PresentInv, [Next]_vars PROVE PresentInv'
  OBVIOUS
<1>1. TaskInv'
  BY NextKeepsInv DEF PresentInv
<1>2. CASE UNCHANGED <<pc, want, report, after>>
  BY <1>1, <1>2 DEF PresentInv, DeleteIsAsked, PresentMeansPresent, EndedWell, Acts, Sayable,
                   Standing, Matches
<1>3. ASSUME NEW t \in Task, TaskStep(t) PROVE PresentInv'
  BY <1>1, <1>3, StepPresent, StepDeleteIsAsked DEF PresentInv, TaskInv
<1> QED
  BY <1>2, <1>3 DEF Next, ForeignWrite, vars, taskVars

\* A task in state present or enforced that ends without failure has left an object
\* with the fields it asked for, whatever went wrong with its find or its fetch and
\* whoever wrote meanwhile.
THEOREM PresentIsKept == Spec => []PresentMeansPresent
<1>1. PresentInv => PresentMeansPresent
  BY DEF PresentInv
<1> QED
  BY <1>1, InitPresent, NextPresent, PTL DEF Spec

-----------------------------------------------------------------------------
(* What a task does that nobody crosses.  Its properties compare what it   *)
(* ends with to what it began with, so they need to know what it has seen  *)
(* in between: the objects it began with.                                  *)

\* Ids are handed out in order, and the fetch is the only one to fill current
Orderly ==
    /\ \A i \in Id : i >= nextId => objs[i] = Gone
    /\ \A t \in Task : pc[t] \notin {"patch", "done"} => current[t] = None

\* What has brought the task to the point where it is
Reason(t) ==
    /\ pc[t] = "create" =>
        want[t].state \in {"present", "enforced"} /\ (t \notin met => Standing(objs) = {})
    /\ pc[t] \in {"fetch", "patch"} =>
        /\ want[t].state = "present"
        /\ objs[target[t]] # Gone
        /\ ShouldUpdate(want[t].fields, objs[target[t]])
    /\ pc[t] = "patch" /\ ~want[t].direct => current[t] \in {None, objs[target[t]]}
    /\ pc[t] = "delete" => want[t].state = "absent" /\ objs[target[t]] # Gone

Sees(t) ==
    pc[t] \notin {"new", "done"} /\ t \notin crossed => before[t] = objs /\ Reason(t)

\* The three ways in which a task changes the objects gw into new
Made(t, gw, new) ==
    /\ want[t].state \in {"present", "enforced"}
    /\ t \notin met => Standing(gw) = {}
    /\ \E i \in Id \ Standing(gw) : new = [gw EXCEPT ![i] = Fresh(want[t].fields)]

Updated(t, gw, new) ==
    /\ want[t].state = "present"
    /\ \E i \in Standing(gw), obj \in Object :
        /\ new = [gw EXCEPT ![i] = obj]
        /\ \A f \in Field : want[t].fields[f] = None => obj[f] = gw[i][f]
        /\ Sayable(t) => Matches(want[t].fields, obj) /\ obj # gw[i]

Removed(t, gw, new) ==
    /\ want[t].state = "absent"
    /\ \E i \in Standing(gw) : new = [gw EXCEPT ![i] = Gone]

\* What a task has done that ended well and that nobody crossed
Effect(t) ==
    Undisturbed(t) =>
        /\ \/ after[t] = before[t] /\ (~want[t].check => "changed" \notin report[t])
           \/ /\ ~want[t].check /\ "changed" \in report[t]
              /\ \/ Made(t, before[t], after[t])
                 \/ Updated(t, before[t], after[t])
                 \/ Removed(t, before[t], after[t])
        /\ t \notin met /\ Sole(before[t]) => ("changed" \in report[t] <=> Calls(t, before[t]))

\* While nobody has met trouble there is one object at most
Lone == met \cup crossed = {} => Sole(objs)

EffectInv == TaskInv /\ Orderly /\ Lone /\ \A t \in Task : Sees(t) /\ Effect(t)

-----------------------------------------------------------------------------
(* EffectInv at the start, and what a step leaves alone                    *)

\* At most one object, said without counting
LEMMA SoleMeans ==
    ASSUME NEW gw
    PROVE  Sole(gw) <=> \A i, j \in Standing(gw) : i = j
<1>1. IsFiniteSet(Standing(gw))
  <2>1. IsFiniteSet(Id)
    BY ResourceAssumption, FS_Interval DEF Id
  <2> QED
    BY <2>1, FS_Subset DEF Standing
<1>2. CASE Standing(gw) = {}
  BY <1>2, FS_EmptySet DEF Sole
<1>3. CASE Standing(gw) # {}
  <2>1. PICK i : i \in Standing(gw)
    BY <1>3
  <2>2. Sole(gw) => Standing(gw) = {i}
    <3>1. Cardinality({i}) = 1 /\ {i} \subseteq Standing(gw)
      BY <2>1, FS_Singleton
    <3>2. Cardinality(Standing(gw)) \in Nat /\ Cardinality({i}) <= Cardinality(Standing(gw))
      BY <1>1, <3>1, FS_CardinalityType, FS_Subset
    <3>3. Cardinality({i}) = Cardinality(Standing(gw)) => {i} = Standing(gw)
      BY <1>1, <3>1, FS_Subset
    <3> QED
      BY <3>1, <3>2, <3>3 DEF Sole
  <2>3. Standing(gw) = {i} => Sole(gw)
    <3>1. Cardinality({i}) = 1
      BY FS_Singleton
    <3> QED
      BY <3>1 DEF Sole
  <2> QED
    BY <2>1, <2>2, <2>3
<1> QED
  BY <1>2, <1>3

LEMMA InitEffect == Init => EffectInv
<1> SUFFICES ASSUME Init PROVE EffectInv
  OBVIOUS
<1>1. TaskInv
  BY InitInv
<1>2. Orderly
  BY ResourceAssumption DEF Init, Orderly, Id
<1>3. Lone
  <2>1. \A i \in Standing(objs) : i = 1
    BY DEF Init, Standing, Id
  <2> QED
    BY <2>1, SoleMeans DEF Lone
<1>4. \A t \in Task : Sees(t) /\ Effect(t)
  BY DEF Init, Sees, Effect, Undisturbed, EndedWell
<1> QED
  BY <1>1, <1>2, <1>3, <1>4 DEF EffectInv

\* A step touches the memory of the task that takes it alone, and a write of it crosses
\* all the others that run
LEMMA Alone ==
    ASSUME TypeOK, NEW t \in Task, TaskStep(t)
    PROVE  /\ \A u \in Task \ {t} : /\ current'[u] = current[u] /\ before'[u] = before[u]
                                    /\ u \in met' <=> u \in met
           /\ met \subseteq met' /\ crossed \subseteq crossed'
           /\ t \in crossed' <=> t \in crossed
           /\ \/ UNCHANGED <<objs, nextId, crossed>>
              \/ \A u \in Task \ {t} : pc[u] \notin {"new", "done"} => u \in crossed'
<1> USE DEF TypeOK
<1>1. CASE Begin(t)
  BY <1>1 DEF Begin, gatewayVars
<1>2. CASE FindHit(t) \/ FindMiss(t) \/ FindFails(t)
  BY <1>2 DEF FindHit, FindMiss, FindFails, Reads, gatewayVars, Fault
<1>3. CASE Fetch(t)
  BY <1>3 DEF Fetch, Reads, gatewayVars, Fault
<1>4. CASE DirectFetch(t)
  BY <1>4 DEF DirectFetch, Reads, gatewayVars, Fault
<1>5. CASE Create(t) \/ Patch(t) \/ Delete(t)
  <2>1. UNCHANGED <<current, before>>
    BY <1>5 DEF Create, Patch, Delete
  <2>2. UNCHANGED met \/ met' = met \cup {t}
    BY <1>5 DEF Create, Patch, Delete, Writes, Fault
  <2>3. Crosses(t) \/ Reads
    BY <1>5 DEF Create, Patch, Delete, Writes
  <2> QED
    BY <2>1, <2>2, <2>3 DEF Crosses, Reads, gatewayVars
<1> QED
  BY <1>1, <1>2, <1>3, <1>4, <1>5 DEF TaskStep

\* What a task has done stays done
LEMMA EffectStays ==
    ASSUME NEW u \in Task, Effect(u), pc'[u] = pc[u], want'[u] = want[u], report'[u] = report[u],
           before'[u] = before[u], after'[u] = after[u], u \in met' <=> u \in met,
           crossed \subseteq crossed'
    PROVE  Effect(u)'
<1>1. Made(u, before[u], after[u])' <=> Made(u, before[u], after[u])
  <2>1. Fresh(want[u].fields)' = Fresh(want[u].fields) /\ Standing(before[u])' = Standing(before[u])
    BY DEF Fresh, Standing
  <2> QED
    BY <2>1 DEF Made
<1>2. Updated(u, before[u], after[u])' <=> Updated(u, before[u], after[u])
  BY DEF Updated, Standing, Sayable, Matches
<1>3. Removed(u, before[u], after[u])' <=> Removed(u, before[u], after[u])
  BY DEF Removed, Standing
<1>4. Calls(u, before[u])' <=> Calls(u, before[u])
  BY DEF Calls, Standing, Matches
<1>5. Sole(before[u])' <=> Sole(before[u])
  BY DEF Sole, Standing
<1> QED
  BY <1>1, <1>2, <1>3, <1>4, <1>5 DEF Effect, Undisturbed, EndedWell

\* So the other tasks still see what they saw, and what they did stays done
LEMMA OthersSee ==
    ASSUME EffectInv, NEW t \in Task, TaskStep(t), NEW u \in Task \ {t}
    PROVE  Sees(u)' /\ Effect(u)'
<1>1. TypeOK /\ Sees(u) /\ Effect(u)
  BY DEF EffectInv, TaskInv
<1>2. /\ pc'[u] = pc[u] /\ target'[u] = target[u] /\ want'[u] = want[u]
      /\ report'[u] = report[u] /\ after'[u] = after[u]
      /\ current'[u] = current[u] /\ before'[u] = before[u] /\ (u \in met' <=> u \in met)
      /\ crossed \subseteq crossed'
  BY <1>1, Moves, Books, Alone DEF WantKept
<1>3. Effect(u)'
  BY <1>1, <1>2, EffectStays
<1>4. Sees(u)'
  <2> SUFFICES ASSUME pc[u] \notin {"new", "done"}, u \notin crossed' PROVE Sees(u)'
    BY <1>2 DEF Sees
  <2>1. objs' = objs
    BY <1>1, Alone
  <2> QED
    BY <1>1, <1>2, <2>1 DEF Sees, Reason, Standing, ShouldUpdate
<1> QED
  BY <1>3, <1>4

\* A step that does not end a task leaves the gateway alone
LEMMA OnlyEndsWrite ==
    ASSUME TypeOK, NEW t \in Task, TaskStep(t), pc'[t] # "done"
    PROVE  UNCHANGED <<objs, nextId, crossed>>
<1> USE DEF TypeOK
<1>1. CASE Begin(t) \/ FindHit(t) \/ FindMiss(t) \/ FindFails(t) \/ Fetch(t) \/ DirectFetch(t)
  BY <1>1 DEF Begin, FindHit, FindMiss, FindFails, Fetch, DirectFetch, Reads, gatewayVars
<1>2. CASE Create(t) \/ Patch(t) \/ Delete(t)
  BY <1>2 DEF Create, Patch, Delete, Writes, End
<1> QED
  BY <1>1, <1>2 DEF TaskStep

LEMMA StepOrderly ==
    ASSUME TypeOK, TargetKnown, Orderly, NEW t \in Task, TaskStep(t)
    PROVE  Orderly'
<1>1. \A i \in Id : i >= nextId' => objs'[i] = Gone
  <2>1. CASE UNCHANGED <<objs, nextId>>
    BY <2>1 DEF Orderly
  <2>2. CASE Create(t)
    <3>1. CASE nextId' = nextId + 1 /\ objs' = [objs EXCEPT ![nextId] = Fresh(want[t].fields)]
      BY <3>1, ResourceAssumption DEF Orderly, TypeOK, Gateway, Id
    <3> QED
      BY <2>1, <2>2, <3>1 DEF Create, Writes, Reads, gatewayVars
  <2>3. CASE Patch(t) \/ Delete(t)
    <3>1. target[t] \in Id
      BY <2>3 DEF Patch, Delete, TargetKnown
    <3>2. \/ UNCHANGED <<objs, nextId>>
          \/ /\ nextId' = nextId /\ objs[target[t]] # Gone
             /\ \E obj : objs' = [objs EXCEPT ![target[t]] = obj]
      BY <2>3 DEF Patch, Delete, Writes, Reads, gatewayVars
    <3> QED
      BY <2>1, <3>1, <3>2 DEF Orderly, TypeOK, Gateway
  <2> QED
    BY <2>1, <2>2, <2>3
    DEF TaskStep, Begin, FindHit, FindMiss, FindFails, Fetch, DirectFetch, Reads, gatewayVars
<1>2. ASSUME NEW u \in Task, pc'[u] \notin {"patch", "done"} PROVE current'[u] = None
  <2>1. CASE u # t
    BY <1>2, <2>1, Moves, Alone DEF Orderly
  <2>2. CASE u = t
    <3>1. ~(Fetch(t) \/ DirectFetch(t) \/ Create(t) \/ Patch(t) \/ Delete(t))
      BY <1>2, <2>2 DEF Fetch, DirectFetch, Create, Patch, Delete, Goto, End, Writes, TypeOK
    <3>2. current' = current /\ pc[t] \in {"new", "find"}
      BY <3>1 DEF TaskStep, Begin, FindHit, FindMiss, FindFails
    <3> QED
      BY <2>2, <3>2 DEF Orderly
  <2> QED
    BY <2>1, <2>2
<1> QED
  BY <1>1, <1>2 DEF Orderly

-----------------------------------------------------------------------------
(* The steps of a task that nobody has crossed                             *)

\* A step that does not end the task has a reason
LEMMA StepSees ==
    ASSUME EffectInv, NEW t \in Task, TaskStep(t), pc'[t] # "done", t \notin crossed
    PROVE  before'[t] = objs' /\ Reason(t)'
<1> USE DEF TypeOK
<1>1. TypeOK /\ TargetKnown /\ Orderly /\ Sees(t) /\ UNCHANGED objs
  BY OnlyEndsWrite DEF EffectInv, TaskInv
<1>2. (pc[t] # "new" => want' = want) /\ met \subseteq met'
  BY <1>1, Moves, Alone DEF WantKept
<1>3. CASE Begin(t)
  BY <1>1, <1>3 DEF Begin, Goto, Reason
<1>4. pc[t] # "new" => pc[t] # "done" /\ before[t] = objs /\ Reason(t) /\ before'[t] = before[t]
  BY <1>1 DEF TaskStep, Begin, FindHit, FindMiss, FindFails, Create, Fetch, DirectFetch, Patch,
              Delete, Sees
<1>5. CASE FindHit(t)
  <2>1. PICK i \in Standing(objs) :
            /\ target' = [target EXCEPT ![t] = i]
            /\ \/ Goto(t, "delete") /\ want[t].state = "absent"
               \/ /\ Goto(t, "fetch") /\ ShouldUpdate(want[t].fields, objs[i])
                  /\ want[t].state \notin {"exists", "absent", "enforced"}
    BY <1>1, <1>5 DEF FindHit, Outdated, Proceed, End
  <2>2. want[t].state \in State
    BY <1>1, WishOK
  <2> QED
    BY <1>1, <1>2, <1>4, <1>5, <2>1, <2>2
    DEF Reason, Goto, State, Standing, ShouldUpdate, FindHit
<1>6. CASE FindMiss(t) \/ FindFails(t)
  <2>1. pc'[t] = "create" /\ want[t].state \in {"present", "enforced"}
    BY <1>1, <1>6 DEF FindMiss, FindFails, NotThere, Proceed, End, Goto
  <2>2. t \notin met' => Standing(objs) = {}
    BY <1>6 DEF FindMiss, FindFails, Fault
  <2> QED
    BY <1>1, <1>2, <1>4, <1>6, <2>1, <2>2 DEF Reason, Standing, FindMiss, FindFails
<1>7. CASE Fetch(t) \/ DirectFetch(t)
  <2>1. pc'[t] = "patch" /\ target' = target /\ pc[t] = "fetch"
    BY <1>1, <1>7 DEF Fetch, DirectFetch, Goto, End
  <2>2. ~want[t].direct => current'[t] \in {None, objs[target[t]]}
    BY <1>1, <1>7 DEF Fetch, DirectFetch, Orderly
  <2> QED
    BY <1>1, <1>2, <1>4, <1>7, <2>1, <2>2 DEF Reason, ShouldUpdate
<1>8. CASE Create(t) \/ Patch(t) \/ Delete(t)
  BY <1>1, <1>8 DEF Create, Patch, Delete, Writes, End
<1> QED
  BY <1>3, <1>5, <1>6, <1>7, <1>8 DEF TaskStep

\* What the last step has to show
Achieves(t) ==
    /\ \/ objs' = objs /\ (~want[t].check => "changed" \notin report'[t])
       \/ /\ ~want[t].check /\ "changed" \in report'[t]
          /\ Made(t, objs, objs') \/ Updated(t, objs, objs') \/ Removed(t, objs, objs')
    /\ t \notin met' /\ Sole(objs) => ("changed" \in report'[t] <=> Calls(t, objs))

\* A find that ends the task
LEMMA FindAchieves ==
    ASSUME TypeOK, NEW t \in Task, FindHit(t) \/ FindMiss(t) \/ FindFails(t),
           pc'[t] = "done", "failed" \notin report'[t]
    PROVE  Achieves(t)
<1> USE DEF TypeOK
<1>1. objs' = objs /\ want[t].state \in State
  BY WishOK DEF FindHit, FindMiss, FindFails, Reads, gatewayVars
<1>2. CASE FindHit(t)
  <2>1. PICK i \in Standing(objs) :
            CASE want[t].state = "exists" -> End(t, {"exists"})
              [] want[t].state = "absent" -> Proceed(t, "delete")
              [] OTHER -> IF ShouldUpdate(want[t].fields, objs[i])
                          THEN Outdated(t) ELSE End(t, {})
    BY <1>2 DEF FindHit
  <2>2. Matches(want[t].fields, objs[i]) <=> ~ShouldUpdate(want[t].fields, objs[i])
    BY DEF Matches, ShouldUpdate
  <2>3. CASE want[t].state = "exists"
    BY <1>1, <2>1, <2>3 DEF Achieves, Calls, End
  <2>4. CASE want[t].state = "absent"
    BY <1>1, <2>1, <2>4 DEF Achieves, Calls, Proceed, End, Goto
  <2>5. CASE want[t].state \notin {"exists", "absent"}
    <3>1. \/ ~ShouldUpdate(want[t].fields, objs[i]) /\ report'[t] = {}
          \/ ShouldUpdate(want[t].fields, objs[i]) /\ report'[t] = {"changed"} /\ want[t].check
      BY <2>1, <2>5 DEF Outdated, Proceed, End, Goto
    <3>2. Sole(objs) => (Calls(t, objs) <=> ~Matches(want[t].fields, objs[i]))
      BY <2>5, SoleMeans DEF Calls
    <3> QED
      BY <1>1, <2>2, <3>1, <3>2 DEF Achieves
  <2> QED
    BY <2>3, <2>4, <2>5
<1>3. CASE FindMiss(t)
  <2>1. IF want[t].state \in {"present", "enforced"}
        THEN report'[t] = {"changed"} /\ want[t].check ELSE report'[t] = {}
    BY <1>3 DEF FindMiss, NotThere, Proceed, End, Goto
  <2>2. Standing(objs) = {}
    BY <1>3 DEF FindMiss
  <2> QED
    BY <1>1, <2>1, <2>2 DEF Achieves, Calls, State
<1>4. CASE FindFails(t)
  <2>1. t \in met' /\ (~want[t].check => "changed" \notin report'[t])
    BY <1>4 DEF FindFails, Fault, NotThere, Proceed, End, Goto
  <2> QED
    BY <1>1, <2>1 DEF Achieves
<1> QED
  BY <1>2, <1>3, <1>4

\* The POST that succeeds
LEMMA CreateAchieves ==
    ASSUME TypeOK, CheckStops, Orderly, NEW t \in Task, Create(t), Reason(t),
           "failed" \notin report'[t]
    PROVE  Achieves(t)
<1> USE DEF TypeOK
<1>1. /\ nextId \in Id /\ objs' = [objs EXCEPT ![nextId] = Fresh(want[t].fields)]
      /\ report'[t] = {"changed"} /\ met' = met
  BY DEF Create, Writes, End
<1>2. ~want[t].check
  BY DEF Create, CheckStops
<1>3. want[t].state \in {"present", "enforced"} /\ (t \notin met => Standing(objs) = {})
  BY DEF Create, Reason
<1>4. Made(t, objs, objs')
  <2>1. nextId \in Id \ Standing(objs)
    BY <1>1 DEF Orderly, Standing, Id
  <2> QED
    BY <1>1, <1>3, <2>1 DEF Made
<1>5. t \notin met => Calls(t, objs)
  BY <1>3 DEF Calls
<1> QED
  BY <1>1, <1>2, <1>4, <1>5 DEF Achieves

\* An object of the name that is as asked, although the task's find met one that is not:
\* there are two
LEMMA FetchAchieves ==
    ASSUME TypeOK, TargetKnown, NEW t \in Task, DirectFetch(t), Reason(t), pc'[t] = "done"
    PROVE  Achieves(t)
<1> USE DEF TypeOK
<1>1. PICK i \in Standing(objs) : ~ShouldUpdate(want[t].fields, objs[i])
  BY DEF DirectFetch, Refound, Goto, End
<1>2. target[t] \in Standing(objs) /\ ShouldUpdate(want[t].fields, objs[target[t]])
  BY DEF DirectFetch, TargetKnown, Reason, Standing
<1>3. ~Sole(objs)
  BY <1>1, <1>2, SoleMeans
<1>4. objs' = objs /\ report'[t] = {}
  BY DEF DirectFetch, Reads, gatewayVars, Goto, End
<1> QED
  BY <1>3, <1>4 DEF Achieves

\* The PATCH that succeeds
LEMMA PatchAchieves ==
    ASSUME TypeOK, TargetKnown, CheckStops, NEW t \in Task, Patch(t), Reason(t),
           "failed" \notin report'[t]
    PROVE  Achieves(t)
<1> DEFINE i == target[t]
           new == Patched(objs[i], Body(t))
<1> USE DEF TypeOK
<1>1. objs' = [objs EXCEPT ![i] = new] /\ report'[t] = IF Differs(t, new) THEN {"changed"} ELSE {}
  <2>1. \/ /\ objs' = [objs EXCEPT ![i] = new]
           /\ End(t, IF Differs(t, new) THEN {"changed"} ELSE {})
        \/ End(t, {"failed"})
    BY DEF Patch, Writes
  <2>2. \A flags : End(t, flags) => report'[t] = flags
    BY DEF End
  <2> QED
    BY <2>1, <2>2
<1>2. /\ ~want[t].check /\ want[t].state = "present" /\ i \in Standing(objs)
      /\ ShouldUpdate(want[t].fields, objs[i])
      /\ ~want[t].direct => current[t] \in {None, objs[i]}
  BY DEF Patch, CheckStops, Reason, TargetKnown, Standing
<1>3. report'[t] = {"changed"}
  BY <1>1, <1>2 DEF Differs
<1>4. new \in Object
  BY <1>2, PatchedOK DEF Standing, Gateway
<1>5. ASSUME NEW f \in Field, want[t].fields[f] = None PROVE new[f] = objs[i][f]
  BY <1>2, <1>5, ResourceAssumption DEF Patched, Body, Told, Merged
<1>6. Sayable(t) => Matches(want[t].fields, new)
  <2>1. Sayable(t) => \A f \in Field : want[t].fields[f] # None => Body(t)[f] = want[t].fields[f]
    BY DEF Body, Told, Merged, Sayable
  <2> QED
    BY <2>1 DEF Matches, Patched
<1>7. Sayable(t) => new # objs[i]
  BY <1>2, <1>6 DEF ShouldUpdate, Matches
<1>8. Updated(t, objs, objs')
  BY <1>1, <1>2, <1>4, <1>5, <1>6, <1>7 DEF Updated
<1>9. Sole(objs) => Calls(t, objs)
  BY <1>2, SoleMeans DEF Calls, Matches, ShouldUpdate
<1> QED
  BY <1>2, <1>3, <1>8, <1>9 DEF Achieves

\* The DELETE that succeeds
LEMMA DeleteAchieves ==
    ASSUME TypeOK, TargetKnown, CheckStops, NEW t \in Task, Delete(t), Reason(t),
           "failed" \notin report'[t]
    PROVE  Achieves(t)
<1>1. objs' = [objs EXCEPT ![target[t]] = Gone] /\ report'[t] = {"changed"}
  BY DEF Delete, Writes, End, TypeOK
<1>2. ~want[t].check /\ want[t].state = "absent" /\ target[t] \in Standing(objs)
  BY DEF Delete, CheckStops, Reason, TargetKnown, Standing
<1>3. Removed(t, objs, objs') /\ Calls(t, objs)
  BY <1>1, <1>2 DEF Removed, Calls
<1> QED
  BY <1>1, <1>2, <1>3 DEF Achieves

\* So a task that nobody has crossed ends as Effect says
LEMMA StepEffect ==
    ASSUME EffectInv, NEW t \in Task, TaskStep(t)
    PROVE  Sees(t)' /\ Effect(t)'
<1> USE DEF TypeOK
<1>1. /\ TypeOK /\ TargetKnown /\ CheckStops /\ Orderly /\ Sees(t)
      /\ (pc[t] # "new" => want' = want) /\ met \subseteq met' /\ (t \in crossed' <=> t \in crossed)
  BY Moves, Alone DEF EffectInv, TaskInv, WantKept
<1>2. CASE pc'[t] # "done"
  BY <1>1, <1>2, StepSees DEF Sees, Effect, Undisturbed, EndedWell
<1>3. CASE pc'[t] = "done"
  <2> SUFFICES ASSUME "failed" \notin report'[t], t \notin crossed PROVE Effect(t)'
    BY <1>1, <1>3 DEF Sees, Effect, Undisturbed, EndedWell
  <2>1. ~Begin(t)
    BY <1>1, <1>3 DEF Begin, Goto
  <2>2. before[t] = objs /\ Reason(t) /\ before'[t] = objs /\ after'[t] = objs'
    BY <1>1, <1>3, <2>1, Books
    DEF TaskStep, FindHit, FindMiss, FindFails, Create, Fetch, DirectFetch, Patch, Delete, Sees
  <2>10. want' = want
    BY <1>1, <2>1
    DEF TaskStep, FindHit, FindMiss, FindFails, Create, Fetch, DirectFetch, Patch, Delete
  <2>3. ~Fetch(t)
    BY <1>1, <1>3 DEF Fetch, Goto
  <2>4. Achieves(t)
    BY <1>1, <1>3, <2>1, <2>2, <2>3, FindAchieves, CreateAchieves, FetchAchieves, PatchAchieves,
       DeleteAchieves DEF TaskStep
  <2>5. Made(t, objs, objs') => Made(t, before[t], after[t])'
    <3>1. Fresh(want[t].fields)' = Fresh(want[t].fields) /\ Standing(before[t])' = Standing(objs)
      BY <1>1, <2>2, <2>10 DEF Fresh, Standing
    <3> QED
      BY <1>1, <2>2, <2>10, <3>1 DEF Made
  <2>6. Updated(t, objs, objs') => Updated(t, before[t], after[t])'
    <3>1. /\ \A obj : Matches(want[t].fields, obj)' <=> Matches(want[t].fields, obj)
          /\ Sayable(t)' <=> Sayable(t)
          /\ Standing(before[t])' = Standing(objs)
      BY <1>1, <2>2, <2>10 DEF Matches, Sayable, Standing
    <3> SUFFICES ASSUME Updated(t, objs, objs') PROVE Updated(t, before[t], after[t])'
      OBVIOUS
    <3>2. PICK i \in Standing(objs), obj \in Object :
              /\ objs' = [objs EXCEPT ![i] = obj]
              /\ \A f \in Field : want[t].fields[f] = None => obj[f] = objs[i][f]
              /\ Sayable(t) => Matches(want[t].fields, obj) /\ obj # objs[i]
      BY DEF Updated
    <3>3. want'[t].state = "present" /\ after'[t] = [before'[t] EXCEPT ![i] = obj]
      BY <1>1, <2>2, <2>10, <3>2 DEF Updated
    <3>4. \A f \in Field : want'[t].fields[f] = None => obj[f] = before'[t][i][f]
      BY <1>1, <2>2, <2>10, <3>2
    <3>5. Sayable(t)' => Matches(want[t].fields, obj)' /\ obj # before'[t][i]
      BY <2>2, <3>1, <3>2
    <3>6. i \in Standing(before[t])'
      BY <3>1, <3>2
    <3> QED
      BY <3>2, <3>3, <3>4, <3>5, <3>6 DEF Updated
  <2>7. Removed(t, objs, objs') => Removed(t, before[t], after[t])'
    BY <1>1, <2>2, <2>10 DEF Removed, Standing
  <2>8. (Calls(t, before[t])' <=> Calls(t, objs)) /\ (Sole(before[t])' <=> Sole(objs))
    BY <1>1, <2>2, <2>10 DEF Calls, Sole, Standing, Matches
  <2>9. objs' = objs => (after[t] = before[t])'
    BY <2>2
  <2> QED
    BY <1>1, <2>10, <2>4, <2>5, <2>6, <2>7, <2>8, <2>9 DEF Achieves, Effect
<1> QED
  BY <1>2, <1>3

-----------------------------------------------------------------------------
(* One object at most, and the writes of others                            *)

\* A write that does not add an object keeps them few
LEMMA SoleKept ==
    ASSUME NEW old, NEW new, Standing(new) \subseteq Standing(old), Sole(old)
    PROVE  Sole(new)
BY SoleMeans

\* An object is put where none was
LEMMA SoleMade ==
    ASSUME NEW old \in Gateway, NEW i \in Id, NEW obj, Standing(old) = {}
    PROVE  Sole([old EXCEPT ![i] = obj])
<1>1. \A j \in Standing([old EXCEPT ![i] = obj]) : j = i
  BY DEF Standing, Gateway
<1> QED
  BY <1>1, SoleMeans

LEMMA StepLone ==
    ASSUME EffectInv, NEW t \in Task, TaskStep(t)
    PROVE  Lone'
<1> USE DEF TypeOK
<1>1. TypeOK /\ TargetKnown /\ Sees(t) /\ Lone /\ met \subseteq met' /\ crossed \subseteq crossed'
  BY Alone DEF EffectInv, TaskInv
<1> SUFFICES ASSUME met' \cup crossed' = {} PROVE Sole(objs')
  BY DEF Lone, Sole, Standing
<1>2. met = {} /\ crossed = {} /\ Sole(objs)
  BY <1>1 DEF Lone
<1>3. CASE UNCHANGED objs
  BY <1>2, <1>3
<1>4. CASE Create(t)
  <2>1. Standing(objs) = {}
    BY <1>1, <1>2, <1>4 DEF Create, Sees, Reason
  <2>2. UNCHANGED objs \/ \E obj : nextId \in Id /\ objs' = [objs EXCEPT ![nextId] = obj]
    BY <1>4 DEF Create, Writes, Reads, gatewayVars
  <2>3. ASSUME nextId \in Id, NEW obj PROVE Sole([objs EXCEPT ![nextId] = obj])
    BY <1>1, <2>1, <2>3, SoleMade
  <2> QED
    BY <1>3, <2>2, <2>3
<1>5. CASE Patch(t) \/ Delete(t)
  <2>1. UNCHANGED objs \/ \E obj : objs' = [objs EXCEPT ![target[t]] = obj] /\ objs[target[t]] # Gone
    BY <1>5 DEF Patch, Delete, Writes, Reads, gatewayVars
  <2>2. target[t] \in Id
    BY <1>1, <1>5 DEF Patch, Delete, TargetKnown
  <2>3. Standing(objs') \subseteq Standing(objs)
    BY <1>1, <2>1, <2>2 DEF Standing, Gateway
  <2> QED
    BY <1>2, <2>3, SoleKept
<1> QED
  BY <1>3, <1>4, <1>5
  DEF TaskStep, Begin, FindHit, FindMiss, FindFails, Fetch, DirectFetch, Reads, gatewayVars

LEMMA ForeignEffect ==
    ASSUME EffectInv, ForeignWrite
    PROVE  EffectInv'
<1> USE DEF TypeOK
<1>1. TypeOK /\ TaskInv /\ Orderly /\ Lone /\ UNCHANGED <<taskVars, before, after, met>>
  BY DEF EffectInv, TaskInv, ForeignWrite
<1>2. TaskInv'
  BY <1>1, NextKeepsInv DEF Next
<1>3. \/ /\ Standing(objs) = {} /\ nextId \in Id /\ nextId' = nextId + 1
         /\ \E o \in Object : objs' = [objs EXCEPT ![nextId] = o]
      \/ /\ nextId' = nextId
         /\ \E i \in Standing(objs) : \E o : objs' = [objs EXCEPT ![i] = o]
  BY DEF ForeignWrite
<1>4. Orderly'
  <2>1. \A i \in Id : i >= nextId' => objs'[i] = Gone
    BY <1>1, <1>3, ResourceAssumption DEF Orderly, Gateway, Id, Standing
  <2> QED
    BY <1>1, <2>1 DEF Orderly, taskVars
<1>5. Lone'
  <2>1. crossed \subseteq crossed'
    BY DEF ForeignWrite
  <2>2. Sole(objs) => Sole(objs')
    <3>1. ASSUME nextId' = nextId, NEW i \in Standing(objs), NEW o, objs' = [objs EXCEPT ![i] = o]
          PROVE  Standing(objs') \subseteq Standing(objs)
      BY <1>1, <3>1 DEF Standing, Gateway
    <3> QED
      BY <1>1, <1>3, <3>1, SoleKept, SoleMade
  <2> QED
    BY <1>1, <2>1, <2>2 DEF Lone, Sole, Standing
<1>6. ASSUME NEW t \in Task PROVE Sees(t)' /\ Effect(t)'
  <2>1. Effect(t) /\ UNCHANGED <<pc, want, report, before, after, met>> /\ crossed \subseteq crossed'
    BY <1>1 DEF EffectInv, taskVars, ForeignWrite
  <2>2. Sees(t)'
    <3>1. pc[t] \notin {"new", "done"} => t \in crossed'
      BY DEF ForeignWrite
    <3> QED
      BY <2>1, <3>1 DEF Sees
  <2>3. Effect(t)'
    BY <2>1, EffectStays
  <2> QED
    BY <2>2, <2>3
<1> QED
  BY <1>2, <1>4, <1>5, <1>6 DEF EffectInv

LEMMA NextEffect == EffectInv /\ [Next]_vars => EffectInv'
<1> SUFFICES ASSUME EffectInv, [Next]_vars PROVE EffectInv'
  OBVIOUS
<1>1. ASSUME NEW t \in Task, TaskStep(t) PROVE EffectInv'
  <2>1. TaskInv' /\ Orderly' /\ Lone'
    BY <1>1, TaskKeepsInv, StepOrderly, StepLone DEF EffectInv, TaskInv
  <2>2. ASSUME NEW u \in Task PROVE Sees(u)' /\ Effect(u)'
    <3>1. CASE u = t
      BY <1>1, <3>1, StepEffect
    <3>2. CASE u # t
      BY <1>1, <3>2, OthersSee
    <3> QED
      BY <3>1, <3>2
  <2> QED
    BY <2>1, <2>2 DEF EffectInv
<1>2. CASE UNCHANGED vars
  <2>1. TaskInv'
    BY <1>2, NextKeepsInv DEF EffectInv
  <2>2. Orderly' /\ Lone'
    BY <1>2 DEF EffectInv, vars, taskVars, gatewayVars, Orderly, Lone, Sole, Standing
  <2>3. ASSUME NEW t \in Task PROVE Sees(t)' /\ Effect(t)'
    <3>1. Sees(t)'
      BY <1>2 DEF EffectInv, vars, taskVars, gatewayVars, Sees, Reason, Standing, ShouldUpdate
    <3>2. Effect(t)'
      BY <1>2, EffectStays DEF EffectInv, vars, taskVars
    <3> QED
      BY <3>1, <3>2
  <2> QED
    BY <2>1, <2>2, <2>3 DEF EffectInv
<1> QED
  BY <1>1, <1>2, ForeignEffect DEF Next

LEMMA EffectAlways == Spec => []EffectInv
BY InitEffect, NextEffect, PTL DEF Spec

-----------------------------------------------------------------------------
(* What follows from it                                                    *)

\* A task in state present that nobody crosses keeps every field it neither mentions nor
\* gets by default, and every other object (the merge in PlatformService._update_resource).
THEOREM UnmentionedIsKept == Spec => []UnmentionedKept
<1>1. EffectInv => UnmentionedKept
  <2> SUFFICES ASSUME EffectInv, NEW t \in Task, Undisturbed(t), Acts(t, {"present"}),
                      NEW i \in Standing(before[t])
               PROVE  /\ after[t][i] # Gone
                      /\ \A f \in Field :
                            want[t].fields[f] = None => after[t][i][f] = before[t][i][f]
    BY DEF UnmentionedKept
  <2>1. Effect(t) /\ before[t] \in Gateway /\ i \in Id /\ before[t][i] # Gone
    BY DEF EffectInv, TaskInv, TypeOK, Standing
  <2>2. CASE after[t] = before[t]
    BY <2>1, <2>2
  <2>3. CASE Made(t, before[t], after[t])
    BY <2>1, <2>3 DEF Made, Gateway
  <2>4. CASE Updated(t, before[t], after[t])
    BY <2>1, <2>4, ResourceAssumption DEF Updated, Gateway
  <2>5. ~Removed(t, before[t], after[t])
    BY DEF Removed, Acts
  <2> QED
    BY <2>1, <2>2, <2>3, <2>4, <2>5 DEF Effect
<1> QED
  BY <1>1, EffectAlways, PTL

\* Every one of the three ways leaves other objects than there were
LEMMA ChangesDiffer ==
    ASSUME TypeOK, NEW t \in Task, Sayable(t),
           Made(t, before[t], after[t]) \/ Updated(t, before[t], after[t])
           \/ Removed(t, before[t], after[t])
    PROVE  after[t] # before[t]
<1>1. before[t] \in Gateway /\ Fresh(want[t].fields) # Gone
  BY FreshOK, ResourceAssumption DEF TypeOK
<1>2. CASE Made(t, before[t], after[t])
  BY <1>1, <1>2 DEF Made, Standing, Gateway
<1>3. CASE Updated(t, before[t], after[t])
  BY <1>1, <1>3 DEF Updated, Standing, Gateway
<1>4. CASE Removed(t, before[t], after[t])
  BY <1>1, <1>4 DEF Removed, Standing, Gateway
<1> QED
  BY <1>2, <1>3, <1>4

\* "changed" is reported exactly when the gateway is not as it was, also when a request
\* went wrong on the way (_update_resource, result.update).
THEOREM ChangedIsTrue == Spec => []ChangedIsTruthful
<1>1. EffectInv => ChangedIsTruthful
  BY ChangesDiffer DEF EffectInv, TaskInv, ChangedIsTruthful, Effect, Acts
<1> QED
  BY <1>1, EffectAlways, PTL

\* What a task reports in check mode is what it would do (the return before the operation
\* in BaseResourceActionPlugin.run).
THEOREM CheckModeIsForesight == Spec => []CheckModeForetells
<1>1. EffectInv => CheckModeForetells
  BY DEF EffectInv, CheckModeForetells, Effect
<1> QED
  BY <1>1, EffectAlways, PTL

\* A task that changed the one object of its name leaves nothing that calls for a change
LEMMA ChangeSettles ==
    ASSUME TypeOK, NEW t \in Task, Effect(t), Undisturbed(t), Acts(t, State), Sayable(t),
           t \notin met, Sole(before[t]), "changed" \in report[t]
    PROVE  Sole(after[t]) /\ ~Calls(t, after[t])
<1> DEFINE wish == want[t].fields
<1>1. /\ before[t] \in Gateway /\ Fresh(wish) \in Object /\ Gone \notin Object
      /\ \A i, j \in Standing(before[t]) : i = j
  BY FreshOK, ResourceAssumption, SoleMeans DEF TypeOK
<1>2. CASE Made(t, before[t], after[t])
  <2>1. PICK i \in Id : after[t] = [before[t] EXCEPT ![i] = Fresh(wish)]
    BY <1>2 DEF Made
  <2>2. Standing(before[t]) = {}
    BY <1>2 DEF Made
  <2>3. Sole(after[t])
    BY <1>1, <2>1, <2>2, SoleMade
  <2>4. after[t][i] = Fresh(wish) /\ i \in Standing(after[t])
    BY <1>1, <2>1 DEF Standing, Gateway
  <2>5. Matches(wish, after[t][i])
    BY <2>4 DEF Matches, Fresh
  <2> QED
    BY <1>2, <2>3, <2>4, <2>5 DEF Made, Calls
<1>3. CASE Updated(t, before[t], after[t])
  <2>1. PICK i \in Standing(before[t]), obj \in Object :
            after[t] = [before[t] EXCEPT ![i] = obj] /\ Matches(wish, obj)
    BY <1>3 DEF Updated
  <2>2. Standing(after[t]) \subseteq Standing(before[t])
    BY <1>1, <2>1 DEF Standing, Gateway
  <2>3. i \in Standing(after[t]) /\ after[t][i] = obj
    BY <1>1, <2>1 DEF Standing, Gateway
  <2> QED
    BY <1>3, <2>1, <2>2, <2>3, SoleKept DEF Updated, Calls
<1>4. CASE Removed(t, before[t], after[t])
  <2>1. Standing(after[t]) = {}
    BY <1>1, <1>4 DEF Removed, Standing, Gateway
  <2> QED
    BY <1>4, <2>1, SoleMeans DEF Removed, Calls
<1> QED
  BY <1>2, <1>3, <1>4 DEF Effect, Acts

\* The second of two equal tasks in a row changes nothing, whichever client either has
\* (the find and the comparison in BaseResourceActionPlugin.run).
THEOREM RerunChangesNothing == Spec => []RerunIsNoop
<1>1. EffectInv => RerunIsNoop
  <2> SUFFICES ASSUME EffectInv, NEW t \in Task, NEW u \in Task, want[t] = want[u],
                      Acts(t, State), Sayable(t), Undisturbed(t), Undisturbed(u),
                      {t, u} \cap met = {}, after[t] = before[u], Sole(before[t]),
                      "changed" \in report[t]
               PROVE  "changed" \notin report[u]
    BY DEF RerunIsNoop
  <2>1. Sole(before[u]) /\ ~Calls(t, before[u])
    BY ChangeSettles DEF EffectInv, TaskInv
  <2>2. ~Calls(u, before[u])
    BY <2>1 DEF Calls
  <2> QED
    BY <2>1, <2>2 DEF EffectInv, Effect
<1> QED
  BY <1>1, EffectAlways, PTL

\* A second object of the name appears only after a request that went wrong or a write
\* of somebody else in between (the find before each create).
THEOREM DuplicatesMeanTrouble == Spec => []DuplicatesNeedTrouble
<1>1. EffectInv => DuplicatesNeedTrouble
  BY DEF EffectInv, Lone, DuplicatesNeedTrouble
<1> QED
  BY <1>1, EffectAlways, PTL
=============================================================================
