----------------------------- MODULE FieldTasks -----------------------------
(***************************************************************************)
(* What becomes of the values a task gives: the forms in which a field is  *)
(* written in a task, sent to the API and read back, and the comparisons   *)
(* made between forms.  A task in state present of BaseResourceActionPlugin *)
(* runs, and runs again, against PlatformService and the transform mixin   *)
(* of its resource; nobody else writes and no request is lost (see         *)
(* ResourceTask for both).  The fields of a resource are CONSTANTS here:   *)
(* module Resources has those of the collection.                           *)
(*                                                                         *)
(* A field is a record                                                     *)
(*   name                                                                  *)
(*   values   what it can hold: words, or the objects it can refer to      *)
(*   forms    how a task writes it: "own" is as text or digits, whatever   *)
(*            the value is; a reference is a name ("text") or an id        *)
(*   read     the form from_api gives it, "hidden" if the answers lack it  *)
(*   miss     what from_ansible_data does with a name that is no object's: *)
(*            "raised", "dropped", "raw" or "zero"; "never" if the field   *)
(*            refers to nothing                                            *)
(*   sent     the operations that have it in their list of fields          *)
(*   needed   every task gives it                                          *)
(*   default  the value its documentation gives it when a task does not,   *)
(*            in a set of at most one: false and true are values like any  *)
(*   shuns    <<v, g, u>>: v is refused when g is given, too, and is u     *)
(*   key      find looks only among objects with this value                *)
(*   named    read back as a name, merged and compared as an id as well    *)
(*   mutable  in _MUTABLE_FK_FIELDS                                        *)
(*   bars     fields that have to be empty, for each value of this one     *)
(***************************************************************************)
EXTENDS Naturals, Sequences

CONSTANTS
    Resource,  \* [kind, fields]: see Kind
    Digits,    \* values that are written in digits
    None,      \* "not given", "not sent", "not read"
    Unset,     \* the value of a field nobody has set
    Ghost,     \* a name that no object has
    Gone       \* no object

IsReference(f) == f.miss # "never"
Form == {"text", "digits", "number", "typed", "spelled", "dict", "list", "forced", "spared",
         "null"}

IsField(f) ==
    /\ f.forms \subseteq Form \cup {"own"}
    /\ f.read \in Form \cup {"own", "hidden"}
    /\ f.miss \in {"never", "raised", "dropped", "raw", "zero"}
    /\ {f.needed, f.key, f.named, f.mutable} \subseteq BOOLEAN
    /\ f.default # {} => "typed" \in f.forms /\ \E v \in f.values : f.default = {v}
    /\ f.values \cap {Unset, Ghost} = {}
    /\ None \notin [form : Form, to : f.values \cup {Unset, Ghost}]

\* A reference that a task may leave out is read as an id, or its id is looked up; the
\* values of other fields are read as a task writes them, as text, or not at all
IsReadable(f) ==
    IF IsReference(f)
    THEN /\ f.forms \subseteq {"text", "digits"}
         /\ f.read \in {"text", "digits", "number", "hidden"}
         /\ f.read = "text" => f.miss # "dropped" /\ (f.named \/ f.needed)
         /\ f.named => f.read = "text"
    ELSE /\ f.forms \cap {"text", "digits", "number"} = {} /\ ~f.named
         /\ \/ f.read = "hidden"
            \/ f.forms \subseteq {"own"} /\ f.read = "own"
            \/ f.forms \subseteq {"typed", "spelled"} /\ f.read = "typed"
            \/ f.forms \subseteq {"dict", "list"} /\ f.read = "text"

\* g bars f; only plain fields do, and only plain fields are barred
BarsAreFlat(r) ==
    \A f, g \in r.fields :
        (\E v \in g.values : f.name \in g.bars[v]) =>
            /\ ~IsReference(g) /\ g.read = "own" /\ "update" \in g.sent
            /\ ~IsReference(f) /\ "update" \in f.sent
            /\ r.kind # "settings"
            /\ \A h \in r.fields : \A v \in h.values : g.name \notin h.bars[v]

\* A field that may call for an update without being noticed, and one that may be
\* noticed without calling for an update
IsMuffled(f) == "dict" \in f.forms \/ f.read = "number" \/ f.mutable
IsTouchy(f) == "spared" \in f.forms \/ f.named

\* What the resources of the collection have in common
IsResource(r) ==
    /\ r.kind \in {"plain", "keyed", "given", "settings"}
    /\ \A f \in r.fields :
        /\ IsField(f) /\ IsReadable(f)
        /\ "update" \in f.sent \/ f.read = "hidden"
        /\ r.kind = "settings" =>
            ~IsReference(f) /\ f.read # "hidden" /\ "dict" \notin f.forms
        /\ f.shuns # {} => r.kind = "plain"
    /\ BarsAreFlat(r)
    /\ \A f, g \in r.fields : ~(IsMuffled(f) /\ IsTouchy(g))
    /\ Gone \notin [r.fields -> {Unset} \cup UNION {f.values : f \in r.fields}]

ASSUME ResourceAssumption == \A r \in Resource : IsResource(r)

VARIABLES
    pc,        \* where the task is
    resource,  \* what the task is about
    wish,      \* its parameters: the fields it gives, and the documented defaults
    obj,       \* the object of its name, and key
    log        \* what each run found and left, and what it reported

vars == <<pc, resource, wish, obj, log>>

\* "keyed": find transforms the whole task; "given": there is no operation that creates;
\* "settings": the one object of a singleton, with a plugin of its own
Kind == {"plain", "keyed", "given", "settings"}
Is(kinds) == resource.kind \in kinds

Fields == resource.fields
Written(v) == IF v \in Digits THEN "digits" ELSE "text"

\* What a task may give for a field
Wishes(f) ==
    (IF f.needed THEN {} ELSE {None})
    \cup {[form |-> k, to |-> v] : k \in f.forms \ {"own"}, v \in f.values}
    \cup {[form |-> Written(v), to |-> v] : v \in IF "own" \in f.forms THEN f.values ELSE {}}
    \cup (IF IsReference(f) THEN {[form |-> "text", to |-> Ghost]} ELSE {})

\* validated_parameters: what a task does not give is taken from the documentation, and
\* nothing after that tells the two apart
Validated(task) ==
    [f \in Fields |->
        IF task[f] = None /\ f.default # {}
        THEN [form |-> "typed", to |-> CHOOSE v \in f.default : TRUE]
        ELSE task[f]]

\* By the task or by its documentation
Given == {f \in Fields : wish[f] # None}

Barred(o) == UNION {f.bars[o[f]] : f \in {g \in DOMAIN o : o[g] # Unset}}

\* The tasks about the resource, and its objects
Tasks ==
    {w \in [Fields -> UNION {Wishes(f) : f \in Fields}] : \A f \in Fields : w[f] \in Wishes(f)}
Objects ==
    {o \in [Fields -> {Unset} \cup UNION {f.values : f \in Fields}] :
        /\ \A f \in Fields : o[f] \in f.values \cup {Unset}
        /\ \A f \in Fields : f.name \in Barred(o) => o[f] = Unset}

\* find meets only objects with the key the task gives; a key of "zero" meets none
Meets(f, o) ==
    f.key =>
        o[f] = wish[f].to \/ (wish[f].to = Ghost /\ f.miss # "zero")

Verdict == {"failed", "changed", "unchanged"}

TypeOK ==
    /\ pc \in {"find", "create", "update", "done"}
    /\ resource.kind \in Kind
    /\ wish \in Tasks
    /\ \A f \in Fields : f.default # {} => f \in Given
    /\ obj # Gone => obj \in Objects
    /\ \A i \in DOMAIN log :
        /\ \A o \in {log[i].was, log[i].now} \ {Gone} : o \in Objects
        /\ log[i].verdict \in Verdict

Init ==
    /\ pc = "find"
    /\ resource \in Resource
    /\ wish \in {Validated(task) : task \in Tasks}
    /\ obj \in (IF Is({"settings"}) THEN {} ELSE {Gone}) \cup Objects
    /\ obj # Gone => \A f \in Fields : Meets(f, obj)
    /\ log = <<>>

-----------------------------------------------------------------------------
(* Forms                                                                   *)

\* from_api: the form in which a stored value is read back
Shown(f, v) ==
    IF v = Unset \/ f.read = "hidden" THEN None
    ELSE [form |-> IF f.read = "own" THEN Written(v) ELSE f.read, to |-> v]

\* A name compared with digits: nobody knows whether they mean the same
Incomparable(w, s) == w.form = "text" /\ s.form = "digits"

\* Equal as strings: the digits of a number, and the number
SameText(w, s) == w = s \/ (w.to = s.to /\ w.form = "digits" /\ s.form = "number")

\* JobTemplate looks up the name of an id before it compares
Looked(f, w) == IF f.named /\ w.form = "digits" THEN [w EXCEPT !.form = "text"] ELSE w

\* The settings plugin compares texts, that of a setting which is missing too
SettingDiffers(w, s) == s = None \/ ~SameText(w, s)

\* _should_update: a field the task gives calls for an update
Differs(f, w, s) ==
    \/ w.form = "forced"   \* a password with update_secrets
    \/ /\ w.form \notin {"forced", "spared"}
       /\ s = None \/ /\ ~SameText(Looked(f, w), s)
                      /\ f.mutable \/ ~Incomparable(Looked(f, w), s)

\* The dataclass makes JSON text of a dictionary before PlatformService compares
Restated(w) == IF w.form = "dict" THEN [w EXCEPT !.form = "text"] ELSE w

\* Mutant of Noticed: names are compared with the numbers the API returns
NoticedNames(w, s) == s = None \/ (Restated(w) # s /\ ~Incomparable(w, s))

\* _update_resource: a field the task gives counts as changed
Noticed(w, s) ==
    \/ s = None
    \/ /\ Restated(w) # s
       /\ ~Incomparable(w, s)
       /\ ~(w.form \in {"text", "digits"} /\ s.form = "number")

\* from_ansible_data: the id of a name; what it does for a name it cannot resolve
Sent(f) ==
    LET w == wish[f] IN
    CASE w = None -> None
      [] w # None /\ w.to = Ghost ->
            IF f.miss \in {"raw", "zero"} THEN w ELSE None
      [] OTHER -> IF IsReference(f) THEN [w EXCEPT !.form = "number"] ELSE w

\* Mutual TLS is refused while the gateway authenticates, be it by default
Clashes ==
    \E f, g \in Given : <<wish[f].to, g.name, wish[g].to>> \in f.shuns

\* The same of find, where nothing clashes: the keyed resources have no such fields
Raises ==
    \/ \E f \in Fields : wish[f] # None /\ wish[f].to = Ghost /\ f.miss = "raised"
    \/ Clashes

\* Mutant of Merged: what was read back is sent as it was read
MergedShown(f) == Shown(f, obj[f])

\* get_update_value_from_current_data: the value of a field the task does not give
Merged(f) ==
    IF f.named /\ obj[f] # Unset THEN [form |-> "number", to |-> obj[f]]
    ELSE Shown(f, obj[f])

Null == [form |-> "null", to |-> Unset]

\* The fields for which the task calls for an update
Outstanding ==
    {f \in Given :
        IF Is({"settings"}) THEN SettingDiffers(wish[f], Shown(f, obj[f]))
        ELSE Differs(f, wish[f], Shown(f, obj[f]))}

\* The PUT of the settings, whose dictionary becomes the body: those that differ
Flattened == [f \in Fields |-> IF f \in Outstanding THEN wish[f] ELSE None]

\* The PATCH: given fields, merged ones, and null for those get_fields_to_null_for_update
\* names, unless the task gives them
Body ==
    LET full == [f \in Fields |->
                    IF "update" \notin f.sent THEN None
                    ELSE IF Sent(f) # None THEN Sent(f) ELSE Merged(f)]
        barred == UNION {f.bars[full[f].to] :
                            f \in {g \in Fields : full[g] # None /\ ~IsReference(g)}}
    IN  [f \in Fields |->
            IF "update" \in f.sent /\ f.name \in barred /\ Sent(f) = None
            THEN Null ELSE full[f]]

\* The POST
Fresh == [f \in Fields |-> IF "create" \in f.sent THEN Sent(f) ELSE None]

\* What the API makes of a request
Stored(body, old) == [f \in Fields |-> IF body[f] = None THEN old[f] ELSE body[f].to]
Blank == [f \in Fields |-> Unset]

\* Mutant of Accepted: values are kept in fields that are barred
AcceptedBarred(body, old) ==
    \A f \in Fields :
        IsReference(f) /\ body[f] # None => body[f].form \in {"number", "digits", "null"}

\* It takes ids for references, and nothing for a barred field
Accepted(body, old) ==
    /\ \A f \in Fields :
        IsReference(f) /\ body[f] # None => body[f].form \in {"number", "digits", "null"}
    /\ \A f \in Fields :
        f.name \in Barred(Stored(body, old)) => Stored(body, old)[f] = Unset

-----------------------------------------------------------------------------
(* The task                                                                *)

Goto(point) == pc' = point /\ UNCHANGED <<obj, log>>

\* The task ends; the first time it is run again
End(now, verdict) ==
    /\ obj' = now
    /\ log' = Append(log, [was |-> obj, now |-> now, verdict |-> verdict])
    /\ pc' = IF log = <<>> THEN "find" ELSE "done"

\* An exception of find, too, means "not there"
Find ==
    /\ pc = "find"
    /\ IF obj = Gone \/ (Is({"keyed"}) /\ Raises) THEN Goto("create")
       ELSE IF Outstanding # {} THEN Goto("update")
       ELSE End(obj, "unchanged")
    /\ UNCHANGED <<resource, wish>>

\* Without an operation that creates nothing is sent, and the task has changed something
Create ==
    /\ pc = "create"
    /\ IF Is({"given"}) THEN End(obj, "changed")
       ELSE IF Raises \/ ~Accepted(Fresh, Blank)
       THEN End(obj, "failed")
       ELSE End(Stored(Fresh, Blank), "changed")
    /\ UNCHANGED <<resource, wish>>

\* None in the answer does not replace what was read before
Changed(new) ==
    \/ \E f \in Fields : Shown(f, new[f]) \notin {None, Shown(f, obj[f])}
    \/ \E f \in Given : Noticed(wish[f], Shown(f, obj[f]))

\* The settings plugin has changed something, whatever the answer says
Update ==
    /\ pc = "update"
    /\ LET body == IF Is({"settings"}) THEN Flattened ELSE Body
           new == Stored(body, obj)
       IN  IF Raises \/ ~Accepted(body, obj) THEN End(obj, "failed")
           ELSE End(new, IF Is({"settings"}) \/ Changed(new) THEN "changed" ELSE "unchanged")
    /\ UNCHANGED <<resource, wish>>

Next == Find \/ Create \/ Update

Spec == Init /\ [][Next]_vars

-----------------------------------------------------------------------------
(* Properties                                                              *)

\* A name that refers to nothing and is noticed, a field the other fields bar, or values
\* that are refused together
Hopeless ==
    \/ Clashes
    \/ \E f \in Given : wish[f].to = Ghost /\ f.miss # "dropped"
    \/ \E f \in Given, g \in Fields : f # g /\ \E v \in g.values : f.name \in g.bars[v]

\* A name against digits: the comparison gives up, and so does the task
Overlooked(f, was) ==
    /\ ~f.mutable /\ was # Gone
    /\ Shown(f, was[f]) # None /\ Incomparable(wish[f], Shown(f, was[f]))

\* No request of this run carries the field
Ignored(f, was) ==
    \/ wish[f].to = Ghost /\ f.miss = "dropped"
    \/ (IF was = Gone THEN "create" ELSE "update") \notin f.sent
    \/ wish[f].form = "spared"

\* Changed, it says, though nothing is there: no operation creates the object
Pretended(e) == Is({"given"}) /\ e.now = Gone /\ e.verdict = "changed"

Before(e, f) == IF e.was = Gone THEN Unset ELSE e.was[f]

\* A run that ends well leaves every field as the task asks or its documentation says, or
\* as it was: it changes no field that is neither given nor defaulted, reports "unchanged" only of an object it left alone, and
\* fails only for what no run could do (_should_update, _update_resource, the mixins).
AsAsked ==
    \A i \in DOMAIN log :
        LET e == log[i] IN
        /\ e.verdict = "failed" => Hopeless
        /\ e.verdict # "changed" => e.now = e.was
        /\ e.verdict # "failed" /\ ~Pretended(e) =>
            /\ e.now # Gone
            /\ \A f \in Fields \ Given :
                \/ e.now[f] = Before(e, f)
                \/ e.now[f] = Unset /\ f.name \in Barred(e.now)
            /\ \A f \in Given :
                \/ e.now[f] = wish[f].to
                \/ e.now[f] = Before(e, f) /\ (Overlooked(f, e.was) \/ Ignored(f, e.was))

\* Given fields that no run finds as the task gives them
Restless(f) ==
    \/ f.read = "hidden" /\ wish[f].form # "spared"
    \/ wish[f].form \in {"list", "spelled"}
    \/ wish[f].form = "digits" /\ f.read = "text" /\ ~f.named
    \/ wish[f].to = Ghost /\ log[1].now[f] = Unset

\* The second run of a task that ended well ends well, changes nothing and says so, but
\* for the fields above (_should_update, _update_resource, from_api).
RerunIsQuiet ==
    Len(log) = 2 /\ log[1].verdict # "failed"
    => \/ log[2].verdict = "unchanged"
       \/ /\ log[2].verdict = "changed" /\ log[2].now = log[2].was
          /\ Pretended(log[2]) \/ \E f \in Given : Restless(f)
       \/ log[1].was = Gone /\ \E f \in Given : "create" \notin f.sent
=============================================================================
