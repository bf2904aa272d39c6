---------------------------- MODULE ResourceTask ----------------------------
(***************************************************************************)
(* Tasks of resource modules (team, user, organization, ...) against a     *)
(* gateway that others write to as well: BaseResourceActionPlugin.run and  *)
(* the operations find, create, update and delete behind it, which the     *)
(* PlatformService carries out or, where a task has none, its own          *)
(* DirectHTTPClient; one action per HTTP request.                          *)
(*                                                                         *)
(* All tasks are about one name (the value of the lookup field), which the *)
(* gateway may refuse or accept twice.  An object is its optional fields;  *)
(* ids are never reused.  A request may be refused, its answer may be lost *)
(* after it took effect, or the answer may not be JSON.                    *)
(***************************************************************************)
EXTENDS Naturals, FiniteSets

CONSTANTS
    Task,        \* tasks of one playbook, on several hosts
    Field,       \* optional fields of the resource
    Value,       \* their values
    Default,     \* the documented default of each field, None for a field without
    Blank,       \* the value of a field nobody has set
    None,        \* "not given", "not fetched"
    Gone,        \* no object with this id (any more)
    Request,     \* what tasks may ask for
    Duplicates,  \* TRUE: the gateway may accept a second object of this name
    Faults,      \* what may happen to a request: see FaultKinds
    MaxId,       \* bound on the objects ever created
    MaxForeign   \* bound on the writes of other clients

FaultKinds == {"refused", "lost", "garbled"}
State == {"present", "absent", "exists", "enforced"}
Id == 1 .. MaxId
Object == [Field -> Value]
Wish == [Field -> Value \cup {None}]
Parameters == [state : State, fields : Wish, check : BOOLEAN, direct : BOOLEAN]

ASSUME ResourceAssumption ==
    /\ Blank \in Value
    /\ None \notin Value
    /\ None \notin Object
    /\ Gone \notin Object
    /\ Default \in Wish
    /\ Request \subseteq Parameters
    /\ Duplicates \in BOOLEAN
    /\ Faults \subseteq FaultKinds
    /\ MaxId \in Nat \ {0}
    /\ MaxForeign \in Nat

VARIABLES
    pc,       \* where each task is in run()
    want,     \* the task's parameters, from Begin on validated, and whether its client is direct
    target,   \* the id that the task's find returned
    current,  \* what _update_resource fetched before the PATCH
    report,   \* the flags in the task's result
    objs,     \* the gateway's objects of this name
    nextId,   \* the id of the next object
    foreign,  \* writes other clients still make
    before,   \* history: the objects when the task began
    after,    \* history: the objects when the task ended
    met,      \* history: tasks one of whose requests went wrong
    crossed   \* history: tasks during which somebody else wrote

taskVars == <<pc, want, target, current, report>>
gatewayVars == <<objs, nextId>>
vars == <<taskVars, gatewayVars, foreign, before, after, met, crossed>>

Gateway == [Id -> Object \cup {Gone}]
Standing(gw) == {i \in Id : gw[i] # Gone}

TypeOK ==
    /\ pc \in [Task -> {"new", "find", "create", "fetch", "patch", "delete", "done"}]
    /\ want \in [Task -> Parameters]
    /\ target \in [Task -> Id \cup {None}]
    /\ current \in [Task -> Object \cup {None}]
    /\ report \in [Task -> SUBSET {"changed", "failed", "exists"}]
    /\ objs \in Gateway
    /\ nextId \in 1 .. MaxId + 1
    /\ foreign \in 0 .. MaxForeign
    /\ before \in [Task -> Gateway]
    /\ after \in [Task -> Gateway]
    /\ met \subseteq Task
    /\ crossed \subseteq Task

Init ==
    /\ pc = [t \in Task |-> "new"]
    /\ want \in [Task -> Request]
    /\ target = [t \in Task |-> None]
    /\ current = [t \in Task |-> None]
    /\ report = [t \in Task |-> {}]
    /\ \/ nextId = 1 /\ objs = [i \in Id |-> Gone]
       \/ \E o \in Object :
            nextId = 2 /\ objs = [i \in Id |-> IF i = 1 THEN o ELSE Gone]
    /\ foreign = MaxForeign
    /\ before = [t \in Task |-> objs]
    /\ after = [t \in Task |-> objs]
    /\ met = {}
    /\ crossed = {}

-----------------------------------------------------------------------------
(* Steps shared by all tasks                                               *)

Goto(t, point) ==
    /\ pc' = [pc EXCEPT ![t] = point]
    /\ UNCHANGED <<report, after>>

\* result.update(...) and return; objs' is what the task leaves behind
End(t, flags) ==
    /\ pc' = [pc EXCEPT ![t] = "done"]
    /\ report' = [report EXCEPT ![t] = flags]
    /\ after' = [after EXCEPT ![t] = objs']

\* One of the task's requests goes wrong in one of the given ways
Fault(t, kinds) == Faults \cap kinds # {} /\ met' = met \cup {t}

\* A write of t crosses the tasks that are running
Crosses(t) ==
    crossed' = crossed \cup {u \in Task \ {t} : pc[u] \notin {"new", "done"}}

Reads == UNCHANGED <<gatewayVars, crossed>>

\* validated_parameters: a field the task omits gets the default its module documents, and
\* is from here on like one the task gives.  _build_ansible_data sends it.
Validated(wish) == [f \in Field |-> IF wish[f] = None THEN Default[f] ELSE wish[f]]

\* _prepare_action
Begin(t) ==
    /\ pc[t] = "new"
    /\ Goto(t, "find")
    /\ want' = [want EXCEPT ![t].fields = Validated(@)]
    /\ before' = [before EXCEPT ![t] = objs]
    /\ UNCHANGED <<target, current, gatewayVars, foreign, met, crossed>>

\* Mutant of ShouldUpdate: all given fields have to differ
ShouldUpdateAll(wish, obj) == \A f \in Field : wish[f] # None => wish[f] # obj[f]

\* _should_update: some given or defaulted field differs from the object
ShouldUpdate(wish, obj) == \E f \in Field : wish[f] # None /\ wish[f] # obj[f]

\* Mutant of Proceed: check mode is honoured for create and delete only
ProceedUnchecked(t, point) ==
    IF want[t].check /\ point # "fetch" THEN End(t, {"changed"}) ELSE Goto(t, point)

\* Mutant of Proceed: an object that was found does not turn create into update
ProceedCreate(t, point) ==
    IF want[t].check
    THEN End(t, {"changed"})
    ELSE Goto(t, IF point = "fetch" THEN "create" ELSE point)

\* The operation is known; check mode stops here
Proceed(t, point) ==
    IF want[t].check THEN End(t, {"changed"}) ELSE Goto(t, point)

-----------------------------------------------------------------------------
(* find, and what run() makes of its outcome                               *)

\* An object that differs: present updates it.  enforced fails: _build_resource is given
\* only what hasattr(MODEL_CLASS, k), which no required field of a dataclass is.
Outdated(t) ==
    IF want[t].state = "enforced" THEN End(t, {"failed"}) ELSE Proceed(t, "fetch")

\* results[0] of the list, in whatever order the gateway returns it
FindHit(t) ==
    /\ pc[t] = "find"
    /\ Reads
    /\ \E i \in Standing(objs) :
        /\ target' = [target EXCEPT ![t] = i]
        /\ CASE want[t].state = "exists" -> End(t, {"exists"})
             [] want[t].state = "absent" -> Proceed(t, "delete")
             [] OTHER -> IF ShouldUpdate(want[t].fields, objs[i])
                         THEN Outdated(t)
                         ELSE End(t, {})
    /\ UNCHANGED <<want, current, foreign, before, met>>

\* The exception of a find that found nothing, or of one that went wrong.  present,
\* absent and exists take any exception for "not there"; enforced only a ValueError.
NotThere(t) ==
    IF want[t].state \in {"present", "enforced"}
    THEN Proceed(t, "create")
    ELSE End(t, {})

FindMiss(t) ==
    /\ pc[t] = "find"
    /\ Reads
    /\ Standing(objs) = {}
    /\ NotThere(t)
    /\ UNCHANGED <<want, target, current, foreign, before, met>>

FindFails(t) ==
    /\ pc[t] = "find"
    /\ Reads
    /\ \/ Fault(t, {"garbled"}) /\ NotThere(t)
       \/ /\ Fault(t, {"refused", "lost"})
          /\ IF want[t].state = "enforced" THEN End(t, {"failed"}) ELSE NotThere(t)
    /\ UNCHANGED <<want, target, current, foreign, before>>

-----------------------------------------------------------------------------
(* create, update, delete                                                  *)

\* Mutant of Fresh: the fields are not in the list of the operation
FreshBlank(wish) == [f \in Field |-> Blank]

\* Mutant of Fresh: fields that were not given are not left out
FreshUnset(wish) == wish

\* What the gateway makes of a POST: fields that are not sent are as if nobody had set them
Fresh(wish) == [f \in Field |-> IF wish[f] = None THEN Blank ELSE wish[f]]

\* Answers without which a writing request counts as failed.  The direct client takes
\* one that is not JSON for an empty one.
Needed(t) == IF want[t].direct THEN {"lost"} ELSE {"lost", "garbled"}

\* A request that writes: it succeeds, takes effect with its answer lost, or is refused
Writes(t, effect, flags, unread) ==
    \/ effect /\ Crosses(t) /\ End(t, flags) /\ UNCHANGED met
    \/ effect /\ Crosses(t) /\ Fault(t, unread) /\ End(t, {"failed"})
    \/ Reads /\ Fault(t, {"refused"}) /\ End(t, {"failed"})

Create(t) ==
    /\ pc[t] = "create"
    /\ \/ /\ Standing(objs) = {} \/ Duplicates
          /\ nextId \in Id
          /\ Writes(t,
                    /\ objs' = [objs EXCEPT ![nextId] = Fresh(want[t].fields)]
                    /\ nextId' = nextId + 1,
                    {"changed"}, Needed(t))
       \/ /\ Standing(objs) # {}   \* HTTP 400, the name is taken
          /\ Reads
          /\ End(t, {"failed"})
          /\ UNCHANGED met
    /\ UNCHANGED <<want, target, current, foreign, before>>

\* _update_resource reads the object again, by id; any exception leaves it empty
Fetch(t) ==
    /\ pc[t] = "fetch" /\ ~want[t].direct
    /\ Goto(t, "patch")
    /\ \/ /\ objs[target[t]] # Gone
          /\ current' = [current EXCEPT ![t] = objs[target[t]]]
          /\ UNCHANGED met
       \/ /\ objs[target[t]] = Gone
          /\ UNCHANGED <<current, met>>
       \/ Fault(t, FaultKinds) /\ UNCHANGED current
    /\ Reads
    /\ UNCHANGED <<want, target, foreign, before>>

\* What the direct client puts in a request: no empty values
Told(t) ==
    [f \in Field |-> IF want[t].fields[f] = Blank THEN None ELSE want[t].fields[f]]

\* _find_resource of the direct client goes by name: any object of the name, or none
Refound == IF Standing(objs) = {} THEN {None} ELSE {objs[i] : i \in Standing(objs)}

\* _update_resource of the direct client sends nothing if that object is as asked
DirectFetch(t) ==
    /\ pc[t] = "fetch" /\ want[t].direct
    /\ Reads
    /\ \/ \E found \in Refound :
            /\ current' = [current EXCEPT ![t] = found]
            /\ IF found # None /\ ~ShouldUpdate(want[t].fields, found)
               THEN End(t, {}) ELSE Goto(t, "patch")
            /\ UNCHANGED met
       \/ Fault(t, FaultKinds) /\ Goto(t, "patch") /\ UNCHANGED current
    /\ UNCHANGED <<want, target, foreign, before>>

\* Mutant of Merged: state present clears what the task does not mention
MergedCleared(t) ==
    [f \in Field |-> IF want[t].fields[f] # None THEN want[t].fields[f] ELSE Blank]

\* The fields of PlatformService's PATCH: for those not asked for, the value just fetched
Merged(t) ==
    [f \in Field |->
        IF want[t].fields[f] = None /\ current[t] # None
        THEN current[t][f] ELSE want[t].fields[f]]

Body(t) == IF want[t].direct THEN Told(t) ELSE Merged(t)

Patched(obj, body) == [f \in Field |-> IF body[f] = None THEN obj[f] ELSE body[f]]

\* Mutant of Differs: the answer is compared with what was just written
DiffersNever(t, obj) == current[t] = None

\* changed: the answer, or what the task asked for, is not what was fetched; the direct
\* client has compared before
Differs(t, obj) ==
    current[t] # None /\ ~want[t].direct => obj # current[t] \/ ShouldUpdate(want[t].fields, current[t])

Patch(t) ==
    /\ pc[t] = "patch"
    /\ LET i == target[t]
           new == Patched(objs[i], Body(t)) IN
       \/ /\ objs[i] # Gone
          /\ Writes(t,
                    objs' = [objs EXCEPT ![i] = new] /\ UNCHANGED nextId,
                    IF Differs(t, new) THEN {"changed"} ELSE {},
                    Needed(t))
       \/ objs[i] = Gone /\ Reads /\ End(t, {"failed"}) /\ UNCHANGED met
    /\ UNCHANGED <<want, target, current, foreign, before>>

Delete(t) ==
    /\ pc[t] = "delete"
    /\ LET i == target[t] IN
       \/ /\ objs[i] # Gone
          /\ Writes(t,
                    objs' = [objs EXCEPT ![i] = Gone] /\ UNCHANGED nextId,
                    {"changed"}, {"lost"})
       \/ objs[i] = Gone /\ Reads /\ End(t, {"failed"}) /\ UNCHANGED met
    /\ UNCHANGED <<want, target, current, foreign, before>>

\* Another client of the gateway creates, changes or deletes an object of this name
ForeignWrite ==
    /\ foreign > 0
    /\ foreign' = foreign - 1
    /\ \/ /\ Standing(objs) = {} /\ nextId \in Id
          /\ \E o \in Object : objs' = [objs EXCEPT ![nextId] = o]
          /\ nextId' = nextId + 1
       \/ /\ \E i \in Standing(objs), f \in Field, v \in Value :
                v # objs[i][f] /\ objs' = [objs EXCEPT ![i][f] = v]
          /\ UNCHANGED nextId
       \/ /\ \E i \in Standing(objs) : objs' = [objs EXCEPT ![i] = Gone]
          /\ UNCHANGED nextId
    /\ crossed' = crossed \cup {u \in Task : pc[u] \notin {"new", "done"}}
    /\ UNCHANGED <<taskVars, before, after, met>>

TaskStep(t) ==
    \/ Begin(t) \/ FindHit(t) \/ FindMiss(t) \/ FindFails(t)
    \/ Create(t) \/ Fetch(t) \/ DirectFetch(t) \/ Patch(t) \/ Delete(t)

Next == (\E t \in Task : TaskStep(t)) \/ ForeignWrite

Spec == Init /\ [][Next]_vars

-----------------------------------------------------------------------------
(* Properties                                                              *)

EndedWell(t) == pc[t] = "done" /\ "failed" \notin report[t]
Undisturbed(t) == EndedWell(t) /\ t \notin crossed   \* and nobody wrote in between
Acts(t, states) == want[t].state \in states /\ ~want[t].check
Matches(wish, obj) == \A f \in Field : wish[f] # None => obj[f] = wish[f]
\* Does the task's wish call for a change of these objects?
Calls(t, gw) ==
    CASE want[t].state = "exists" -> FALSE
      [] want[t].state = "absent" -> Standing(gw) # {}
      [] OTHER -> \A i \in Standing(gw) : ~Matches(want[t].fields, gw[i])

Sole(gw) == Cardinality(Standing(gw)) <= 1

\* The direct client cannot say that a field is to be empty
Sayable(t) == want[t].direct => \A f \in Field : want[t].fields[f] # Blank

\* A task that ends well has left an object as it was asked to, also when its find or
\* its fetch went wrong (run() and _update_resource) and when others write meanwhile.
PresentMeansPresent ==
    \A t \in Task :
        EndedWell(t) /\ Acts(t, {"present", "enforced"}) /\ Sayable(t)
        => \E i \in Standing(after[t]) : Matches(want[t].fields, after[t][i])

\* Fields that the task does not mention and its module documents no default for keep
\* their value, and no other object is touched: the merge of fetched values before the
\* PATCH writes back what was there.  A documented default is written over what was there.
UnmentionedKept ==
    \A t \in Task :
        Undisturbed(t) /\ Acts(t, {"present"})
        => \A i \in Standing(before[t]) :
            /\ after[t][i] # Gone
            /\ \A f \in Field : want[t].fields[f] = None => after[t][i][f] = before[t][i][f]

\* "changed" is true exactly when the gateway is not as it was, whatever went wrong
\* on the way.
ChangedIsTruthful ==
    \A t \in Task :
        Undisturbed(t) /\ Acts(t, State) /\ Sayable(t)
        => ("changed" \in report[t] <=> after[t] # before[t])

\* No step of a task in check mode writes to the gateway.
CheckModeWritesNothing ==
    [][\A t \in Task : want[t].check /\ pc'[t] # pc[t] => objs' = objs]_vars

\* Check mode foretells what the same task would report without it.
CheckModeForetells ==
    \A t \in Task :
        Undisturbed(t) /\ want[t].check /\ t \notin met /\ Sole(before[t])
        => ("changed" \in report[t] <=> Calls(t, before[t]))

\* Running the same task twice in a row changes nothing the second time, unless there were
\* duplicates: state absent deletes one of them at a time.
RerunIsNoop ==
    \A t, u \in Task :
        /\ t # u /\ want[t] = want[u] /\ Acts(t, State) /\ Sayable(t)
        /\ Undisturbed(t) /\ Undisturbed(u) /\ {t, u} \cap met = {}
        /\ after[t] = before[u] /\ Sole(before[t])
        /\ pc[t] = "done" /\ "changed" \in report[t]
        => "changed" \notin report[u]

\* A second object of the name appears only after a request that went wrong or two
\* writers at once.
DuplicatesNeedTrouble == ~Sole(objs) => met \cup crossed # {}

\* What a task reports as absent is not there.
AbsenceIsObserved ==
    \A t \in Task :
        /\ Undisturbed(t)
        /\ Acts(t, {"absent"}) \/ (want[t].state = "exists" /\ "exists" \notin report[t])
        => Standing(after[t]) = {}

\* No write of a task in state present alters a field that the task does not mention and
\* its module documents no default for, also when others write at the same time.
UpdatesOnlyMentioned ==
    [][\A t \in Task, i \in Id, f \in Field :
        /\ pc'[t] # pc[t] /\ want[t].state = "present" /\ want[t].fields[f] = None
        /\ objs[i] # Gone /\ objs'[i] # Gone
        => objs'[i][f] = objs[i][f]]_vars
=============================================================================
