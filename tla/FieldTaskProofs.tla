-------------------------- MODULE FieldTaskProofs --------------------------
(* Theorems about FieldTasks, for every resource whose fields are as        *)
(* ResourceAssumption says, with any number of fields and values: TLC sees  *)
(* up to three fields at a time, and checks the assumption of every         *)
(* resource of the collection with all of its own.                          *)
EXTENDS FieldTasks, SequenceTheorems, TLAPS

\* What a run does not change: the resource, the task, and that an object is one
Subject ==
    /\ resource \in Resource
    /\ wish \in Tasks
    /\ \A f \in Fields : f.default # {} => f \in Given
    /\ obj # Gone => obj \in Objects

-----------------------------------------------------------------------------
(* What is given, sent and shown                                           *)

LEMMA FieldFacts ==
    ASSUME resource \in Resource, NEW f \in Fields
    PROVE  IsField(f) /\ IsReadable(f) /\ ("update" \in f.sent \/ f.read = "hidden")
BY ResourceAssumption DEF IsResource, Fields

LEMMA WishShape ==
    ASSUME resource \in Resource, wish \in Tasks, NEW f \in Fields, wish[f] # None
    PROVE  /\ wish[f] \in [form : Form, to : f.values \cup {Ghost}]
           /\ wish[f].to = Ghost => IsReference(f) /\ wish[f].form = "text"
           /\ wish[f].to # Ghost =>
                \/ wish[f].form \in f.forms \ {"own"}
                \/ "own" \in f.forms /\ wish[f].form = Written(wish[f].to)
<1>1. IsField(f)
  BY FieldFacts
<1>2. wish[f] \in Wishes(f)
  BY DEF Tasks
<1>3. CASE wish[f] \in {[form |-> k, to |-> v] : k \in f.forms \ {"own"}, v \in f.values}
  BY <1>1, <1>3 DEF IsField, Form
<1>4. CASE wish[f] \in {[form |-> Written(v), to |-> v] :
                            v \in IF "own" \in f.forms THEN f.values ELSE {}}
  BY <1>1, <1>4 DEF IsField, Form, Written
<1>5. CASE wish[f] \in IF IsReference(f) THEN {[form |-> "text", to |-> Ghost]} ELSE {}
  BY <1>1, <1>5 DEF IsField, Form
<1> QED
  BY <1>2, <1>3, <1>4, <1>5 DEF Wishes

\* With its documented defaults a task is one that gives them itself
LEMMA ValidatedIsTask ==
    ASSUME resource \in Resource, NEW task \in Tasks
    PROVE  /\ Validated(task) \in Tasks
           /\ \A f \in Fields : f.default # {} => Validated(task)[f] # None
<1> DEFINE W == UNION {Wishes(f) : f \in Fields}
           given(f) == [form |-> "typed", to |-> CHOOSE v \in f.default : TRUE]
<1>1. task \in [Fields -> W] /\ \A f \in Fields : task[f] \in Wishes(f)
  BY DEF Tasks
<1>2. ASSUME NEW f \in Fields, f.default # {}
      PROVE  given(f) \in Wishes(f) /\ given(f) # None
  <2>1. IsField(f)
    BY FieldFacts
  <2>2. PICK v \in f.values : f.default = {v} /\ "typed" \in f.forms
    BY <1>2, <2>1 DEF IsField
  <2>3. given(f) = [form |-> "typed", to |-> v]
    BY <2>2
  <2>4. given(f) \in Wishes(f)
    BY <2>2, <2>3 DEF Wishes
  <2>5. given(f) \in [form : Form, to : f.values \cup {Unset, Ghost}]
    BY <2>2, <2>3 DEF Form
  <2> QED
    BY <2>1, <2>4, <2>5 DEF IsField
<1>3. \A f \in Fields :
        Validated(task)[f] = IF task[f] = None /\ f.default # {} THEN given(f) ELSE task[f]
  BY DEF Validated
<1>4. \A f \in Fields : Validated(task)[f] \in Wishes(f)
  BY <1>1, <1>2, <1>3
<1>5. Validated(task) \in [Fields -> W]
  BY <1>4 DEF Validated
<1>6. \A f \in Fields : f.default # {} => Validated(task)[f] # None
  BY <1>2, <1>3
<1> HIDE DEF W
<1> QED
  BY <1>4, <1>5, <1>6 DEF Tasks, W

LEMMA NeededIsGiven ==
    ASSUME resource \in Resource, wish \in Tasks, NEW f \in Fields, f.needed
    PROVE  wish[f] # None
<1>1. IsField(f)
  BY FieldFacts
<1>2. wish[f] \in Wishes(f)
  BY DEF Tasks
<1>3. \A k \in Form : \A v \in f.values \cup {Unset, Ghost} : [form |-> k, to |-> v] # None
  BY <1>1 DEF IsField
<1>4. CASE wish[f] \in {[form |-> k, to |-> v] : k \in f.forms \ {"own"}, v \in f.values}
  BY <1>1, <1>3, <1>4 DEF IsField
<1>5. CASE wish[f] \in {[form |-> Written(v), to |-> v] :
                            v \in IF "own" \in f.forms THEN f.values ELSE {}}
  BY <1>3, <1>5 DEF Form, Written
<1>6. CASE wish[f] \in IF IsReference(f) THEN {[form |-> "text", to |-> Ghost]} ELSE {}
  BY <1>3, <1>6 DEF Form
<1> QED
  BY <1>2, <1>4, <1>5, <1>6 DEF Wishes

\* What from_ansible_data makes of a field, case by case
LEMMA SentShape ==
    ASSUME resource \in Resource, wish \in Tasks, NEW f \in Fields
    PROVE  /\ Sent(f) # None => wish[f] # None
           /\ wish[f] # None /\ wish[f].to = Ghost =>
                Sent(f) = IF f.miss \in {"raw", "zero"} THEN wish[f] ELSE None
           /\ wish[f] # None /\ wish[f].to # Ghost =>
                /\ Sent(f) # None /\ Sent(f).to = wish[f].to
                /\ Sent(f) = IF IsReference(f) THEN [form |-> "number", to |-> wish[f].to]
                             ELSE wish[f]
<1>1. CASE wish[f] = None
  BY <1>1 DEF Sent
<1>2. CASE wish[f] # None /\ wish[f].to = Ghost
  BY <1>2 DEF Sent
<1>3. CASE wish[f] # None /\ wish[f].to # Ghost
  <2>1. wish[f] \in [form : Form, to : f.values] /\ IsField(f)
    BY <1>3, WishShape, FieldFacts
  <2>2. [wish[f] EXCEPT !.form = "number"] = [form |-> "number", to |-> wish[f].to]
    BY <2>1
  <2>3. [form |-> "number", to |-> wish[f].to] # None
    BY <2>1 DEF IsField, Form
  <2> QED
    BY <1>3, <2>2, <2>3 DEF Sent
<1> QED
  BY <1>1, <1>2, <1>3

LEMMA ShownShape ==
    ASSUME resource \in Resource, NEW f \in Fields, NEW v \in f.values \cup {Unset}
    PROVE  /\ v = Unset \/ f.read = "hidden" => Shown(f, v) = None
           /\ v # Unset /\ f.read # "hidden" =>
                /\ Shown(f, v) # None /\ Shown(f, v).to = v
                /\ Shown(f, v) = [form |-> IF f.read = "own" THEN Written(v) ELSE f.read,
                                  to |-> v]
<1>1. IsField(f)
  BY FieldFacts
<1> QED
  BY <1>1 DEF Shown, IsField, Form, Written

LEMMA MergedShape ==
    ASSUME resource \in Resource, NEW f \in Fields, obj \in Objects
    PROVE  /\ obj[f] \in f.values \cup {Unset}
           /\ Merged(f) # None => Merged(f).to = obj[f] /\ obj[f] # Unset
           /\ Merged(f) = None => obj[f] = Unset \/ f.read = "hidden"
           /\ f.named /\ obj[f] # Unset => Merged(f) = [form |-> "number", to |-> obj[f]]
           /\ ~f.named \/ obj[f] = Unset => Merged(f) = Shown(f, obj[f])
<1>1. obj[f] \in f.values \cup {Unset} /\ IsField(f)
  BY FieldFacts DEF Objects
<1>2. CASE f.named /\ obj[f] # Unset
  BY <1>1, <1>2 DEF Merged, IsField, Form
<1>3. CASE ~(f.named /\ obj[f] # Unset)
  BY <1>1, <1>3, ShownShape DEF Merged
<1> QED
  BY <1>1, <1>2, <1>3

LEMMA NullShape == Null.to = Unset /\ Null.form = "null"
BY DEF Null

-----------------------------------------------------------------------------
(* Bars                                                                    *)

LEMMA BarFacts ==
    ASSUME resource \in Resource, NEW f \in Fields, NEW g \in Fields, NEW v \in g.values,
           f.name \in g.bars[v]
    PROVE  /\ ~IsReference(g) /\ g.read = "own" /\ "update" \in g.sent /\ ~g.named
           /\ ~IsReference(f) /\ "update" \in f.sent /\ f # g
           /\ ~Is({"settings"})
           /\ \A h \in Fields : \A u \in h.values : g.name \notin h.bars[u]
<1>1. BarsAreFlat(resource)
  BY ResourceAssumption DEF IsResource
<1>2. /\ ~IsReference(g) /\ g.read = "own" /\ "update" \in g.sent
      /\ ~IsReference(f) /\ "update" \in f.sent
      /\ resource.kind # "settings"
      /\ \A h \in Fields : \A u \in h.values : g.name \notin h.bars[u]
  BY <1>1 DEF BarsAreFlat, Fields
<1>3. ~g.named
  BY <1>2, FieldFacts DEF IsReadable
<1> QED
  BY <1>2, <1>3 DEF Is

\* An object-shaped function that the API accepts is an object
Held == UNION {f.values : f \in Fields}
Shaped(o) ==
    /\ o \in [Fields -> {Unset} \cup Held]
    /\ \A f \in Fields : o[f] \in f.values \cup {Unset}

LEMMA BarredBy ==
    ASSUME NEW o, Shaped(o), NEW n
    PROVE  n \in Barred(o) <=> \E g \in Fields : o[g] # Unset /\ n \in g.bars[o[g]]
BY DEF Shaped, Barred

LEMMA ObjectIsShaped ==
    ASSUME NEW o
    PROVE  o \in Objects <=>
             Shaped(o) /\ \A f \in Fields : f.name \in Barred(o) => o[f] = Unset
BY Zenon DEF Objects, Shaped, Held

\* What a request carries
Sane(body) ==
    \A f \in Fields : body[f] # None => body[f].to \in f.values \cup {Unset}

LEMMA StoredShape ==
    ASSUME NEW body, Sane(body), NEW old, Shaped(old)
    PROVE  /\ Shaped(Stored(body, old))
           /\ \A f \in Fields :
                Stored(body, old)[f] = IF body[f] = None THEN old[f] ELSE body[f].to
<1>1. \A f \in Fields :
        Stored(body, old)[f] = IF body[f] = None THEN old[f] ELSE body[f].to
  BY DEF Stored
<1>2. \A f \in Fields : Stored(body, old)[f] \in f.values \cup {Unset}
  BY <1>1 DEF Sane, Shaped
<1>3. \A f \in Fields : f.values \subseteq Held
  BY DEF Held
<1>4. \A f \in Fields : Stored(body, old)[f] \in {Unset} \cup Held
  BY <1>2, <1>3
<1>5. Stored(body, old) \in [Fields -> {Unset} \cup Held]
  BY <1>1, <1>4 DEF Stored
<1> QED
  BY <1>1, <1>2, <1>5 DEF Shaped

LEMMA BlankShape == Shaped(Blank) /\ \A f \in Fields : Blank[f] = Unset
BY DEF Blank, Shaped

-----------------------------------------------------------------------------
(* The PATCH.  Full and Withheld are the parts of Body.                    *)

Full(f) == IF "update" \notin f.sent THEN None
           ELSE IF Sent(f) # None THEN Sent(f) ELSE Merged(f)
Withheld == UNION {f.bars[Full(f).to] : f \in {g \in Fields : Full(g) # None /\ ~IsReference(g)}}
Nulled(f) == "update" \in f.sent /\ f.name \in Withheld /\ Sent(f) = None

LEMMA BodyShape ==
    ASSUME NEW f \in Fields
    PROVE  Body[f] = IF Nulled(f) THEN Null ELSE Full(f)
<1> DEFINE full == [h \in Fields |->
                        IF "update" \notin h.sent THEN None
                        ELSE IF Sent(h) # None THEN Sent(h) ELSE Merged(h)]
           barred == UNION {h.bars[full[h].to] :
                                h \in {g \in Fields : full[g] # None /\ ~IsReference(g)}}
<1>1. Body = [h \in Fields |->
                IF "update" \in h.sent /\ h.name \in barred /\ Sent(h) = None
                THEN Null ELSE full[h]]
  BY DEF Body
<1>2. \A h \in Fields : full[h] = Full(h)
  BY DEF Full
<1>3. barred = Withheld
  <2> DEFINE sends == {g \in Fields : full[g] # None /\ ~IsReference(g)}
             Sends == {g \in Fields : Full(g) # None /\ ~IsReference(g)}
  <2>1. sends = Sends
    BY <1>2
  <2>2. \A h \in sends : h.bars[full[h].to] = h.bars[Full(h).to]
    BY <1>2
  <2> HIDE DEF full
  <2>3. barred = UNION {h.bars[Full(h).to] : h \in sends}
    BY <2>2, Zenon
  <2> QED
    BY <2>1, <2>3, Zenon DEF Withheld
<1> HIDE DEF barred
<1> QED
  BY <1>1, <1>2, <1>3 DEF Nulled

\* What a field that bars others is sent as is what it will hold
LEMMA FullShape ==
    ASSUME Subject, obj # Gone, NEW f \in Fields, Full(f) # None
    PROVE  /\ "update" \in f.sent
           /\ Sent(f) # None => Full(f) = Sent(f) /\ wish[f] # None
           /\ Sent(f) = None => Full(f) = Merged(f) /\ Full(f).to = obj[f] /\ obj[f] # Unset
           /\ Full(f).to \in f.values \cup {Ghost}
           /\ Full(f).to = Ghost =>
                /\ IsReference(f) /\ f.miss \in {"raw", "zero"} /\ Full(f) = wish[f]
                /\ wish[f].to = Ghost
<1>1. obj \in Objects /\ resource \in Resource /\ wish \in Tasks
  BY DEF Subject
<1>2. CASE Sent(f) # None
  <2>1. wish[f] # None /\ Full(f) = Sent(f) /\ "update" \in f.sent
    BY <1>1, <1>2, SentShape DEF Full
  <2>2. wish[f].to \in f.values \cup {Ghost} /\ IsField(f)
    BY <1>1, <2>1, WishShape, FieldFacts
  <2>3. CASE wish[f].to = Ghost
    BY <1>1, <1>2, <2>1, <2>3, SentShape, WishShape
  <2>4. CASE wish[f].to # Ghost
    BY <1>1, <1>2, <2>1, <2>2, <2>4, SentShape
  <2> QED
    BY <2>3, <2>4
<1>3. CASE Sent(f) = None
  <2>1. Full(f) = Merged(f) /\ "update" \in f.sent
    BY <1>3 DEF Full
  <2>2. Full(f).to = obj[f] /\ obj[f] # Unset /\ obj[f] \in f.values \cup {Unset}
    BY <1>1, <2>1, MergedShape
  <2>3. IsField(f)
    BY <1>1, FieldFacts
  <2> QED
    BY <1>3, <2>1, <2>2, <2>3 DEF IsField
<1> QED
  BY <1>2, <1>3

LEMMA WithheldBy ==
    ASSUME Subject, obj # Gone, NEW n
    PROVE  n \in Withheld <=>
             \E g \in Fields : Full(g) # None /\ ~IsReference(g) /\ n \in g.bars[Full(g).to]
<1> DEFINE Sends == {g \in Fields : Full(g) # None /\ ~IsReference(g)}
<1>1. n \in Withheld <=> \E g \in Sends : n \in g.bars[Full(g).to]
  BY Zenon DEF Withheld
<1> QED
  BY <1>1, Zenon

\* A field that bars another one is not barred itself: it is sent as it is
LEMMA BarringIsSent ==
    ASSUME Subject, obj # Gone, NEW f \in Fields, NEW g \in Fields, NEW v \in g.values,
           f.name \in g.bars[v]
    PROVE  ~Nulled(g)
<1>1. g.name \notin Withheld
  <2> SUFFICES ASSUME NEW h \in Fields, Full(h) # None, ~IsReference(h),
                      g.name \in h.bars[Full(h).to]
               PROVE  FALSE
    BY WithheldBy
  <2>1. Full(h).to \in h.values
    BY FullShape
  <2> QED
    BY <2>1, BarFacts DEF Subject
<1> QED
  BY <1>1 DEF Nulled

\* A body sends ids for references, unless the task names what is not there
LEMMA BodyForms ==
    ASSUME Subject, obj # Gone, NEW f \in Fields, IsReference(f), Body[f] # None,
           ~(/\ wish[f] # None /\ wish[f].to = Ghost
             /\ f.miss = "raised" \/ Full(f) = wish[f])
    PROVE  Body[f].form \in {"number", "digits", "null"}
<1> resource \in Resource /\ wish \in Tasks /\ obj \in Objects
  BY DEF Subject
<1>1. CASE Nulled(f)
  BY <1>1, BodyShape, NullShape
<1>2. CASE ~Nulled(f)
  <2>1. Body[f] = Full(f) /\ Full(f) # None
    BY <1>2, BodyShape
  <2>2. CASE Sent(f) # None
    BY <2>1, <2>2, FullShape, SentShape
  <2>3. CASE Sent(f) = None
    <3>1. Full(f) = Merged(f) /\ obj[f] # Unset
      BY <2>1, <2>3, FullShape
    <3>2. CASE f.named
      BY <2>1, <3>1, <3>2, MergedShape
    <3>3. CASE ~f.named
      <4>1. Merged(f) = Shown(f, obj[f]) /\ obj[f] \in f.values \cup {Unset}
        BY <3>3, MergedShape
      <4>2. f.read # "hidden"
        BY <2>1, <3>1, <4>1, ShownShape
      <4>3. f.read \in {"text", "digits", "number"}
        BY <4>2, FieldFacts DEF IsReadable
      <4>4. Body[f].form = f.read
        BY <2>1, <3>1, <4>1, <4>2, <4>3, ShownShape
      <4>5. f.read # "text"
        <5> SUFFICES ASSUME f.read = "text" PROVE FALSE
          OBVIOUS
        <5>1. f.needed /\ f.miss # "dropped" /\ IsField(f)
          BY <3>3, FieldFacts DEF IsReadable
        <5>2. wish[f] # None
          BY <5>1, NeededIsGiven
        <5>3. wish[f].to = Ghost /\ f.miss \notin {"raw", "zero"}
          BY <2>3, <5>2, SentShape
        <5> QED
          BY <5>1, <5>2, <5>3 DEF IsField, IsReference
      <4> QED
        BY <4>3, <4>4, <4>5
    <3> QED
      BY <3>2, <3>3
  <2> QED
    BY <2>2, <2>3
<1> QED
  BY <1>1, <1>2

\* A body that the API accepts names nothing that is not there
LEMMA AcceptedIsSane ==
    ASSUME Subject, obj # Gone, Accepted(Body, obj)
    PROVE  Sane(Body)
<1> SUFFICES ASSUME NEW f \in Fields, Body[f] # None PROVE Body[f].to \in f.values \cup {Unset}
  BY DEF Sane
<1> resource \in Resource /\ wish \in Tasks
  BY DEF Subject
<1>1. CASE Nulled(f)
  BY <1>1, BodyShape, NullShape
<1>2. CASE ~Nulled(f)
  <2>1. Body[f] = Full(f) /\ Full(f) # None
    BY <1>2, BodyShape
  <2>2. Full(f).to # Ghost
    <3> SUFFICES ASSUME Full(f).to = Ghost PROVE FALSE
      OBVIOUS
    <3>1. IsReference(f) /\ Full(f) = wish[f] /\ wish[f].to = Ghost /\ wish[f] # None
      BY <2>1, FullShape
    <3>2. Body[f].form = "text"
      BY <2>1, <3>1, WishShape
    <3> QED
      BY <2>1, <3>1, <3>2 DEF Accepted
  <2> QED
    BY <2>1, <2>2, FullShape
<1> QED
  BY <1>1, <1>2

\* What an update that the API accepts leaves in each field
LEMMA Patched ==
    ASSUME Subject, obj # Gone, Accepted(Body, obj)
    PROVE  LET new == Stored(Body, obj) IN
           /\ new \in Objects
           /\ \A f \in Fields :
                \/ new[f] = obj[f]
                \/ wish[f] = None /\ new[f] = Unset /\ f.name \in Barred(new)
                \/ wish[f] # None /\ new[f] = wish[f].to /\ wish[f].to # Ghost
           /\ \A f \in Fields :
                wish[f] # None /\ "update" \in f.sent =>
                    \/ new[f] = wish[f].to /\ wish[f].to # Ghost
                    \/ wish[f].to = Ghost /\ f.miss \notin {"raw", "zero"}
<1> DEFINE new == Stored(Body, obj)
<1> resource \in Resource /\ wish \in Tasks /\ obj \in Objects
  BY DEF Subject
<1>1. Shaped(obj)
  BY ObjectIsShaped
<1>2. /\ Shaped(new)
      /\ \A f \in Fields : new[f] = IF Body[f] = None THEN obj[f] ELSE Body[f].to
  BY <1>1, AcceptedIsSane, StoredShape
<1>3. new \in Objects
  BY <1>2, ObjectIsShaped DEF Accepted
<1> HIDE DEF new
<1>4. ASSUME NEW f \in Fields, Full(f) # None, ~Nulled(f)
      PROVE  new[f] = Full(f).to /\ Full(f).to # Ghost
  <2>1. new[f] = Full(f).to
    BY <1>2, <1>4, BodyShape
  <2>2. new[f] \in f.values \cup {Unset} /\ IsField(f)
    BY <1>2, FieldFacts DEF Shaped
  <2>3. CASE Full(f).to = Ghost
    <3>1. new[f] = Unset /\ IsReference(f) /\ Full(f) = wish[f] /\ wish[f] # None
      BY <1>4, <2>1, <2>2, <2>3, FullShape DEF IsField
    <3>2. Body[f] = wish[f] /\ wish[f].form = "text"
      BY <1>4, <2>3, <3>1, BodyShape, FullShape, WishShape
    <3> QED
      BY <1>4, <3>1, <3>2 DEF Accepted
  <2> QED
    BY <2>1, <2>3
<1>5. ASSUME NEW f \in Fields, Nulled(f)
      PROVE  new[f] = Unset /\ f.name \in Barred(new) /\ wish[f] = None
  <2>1. Body[f] = Null
    BY <1>5, BodyShape
  <2>2. PICK g \in Fields :
            Full(g) # None /\ ~IsReference(g) /\ f.name \in g.bars[Full(g).to]
    BY <1>5, WithheldBy DEF Nulled
  <2>3. Full(g).to \in g.values
    BY <2>2, FullShape
  <2>4. ~Nulled(g)
    BY <2>2, <2>3, BarringIsSent
  <2>5. new[g] = Full(g).to /\ new[g] # Unset
    BY <1>4, <2>2, <2>3, <2>4, FieldFacts DEF IsField
  <2>6. f.name \in Barred(new)
    BY <1>2, <2>2, <2>5, BarredBy
  <2>7. ~IsReference(f)
    BY <2>2, <2>3, BarFacts
  <2>8. wish[f] = None
    BY <1>5, <2>7, SentShape, WishShape DEF Nulled
  <2>9. new[f] = Unset
    BY <1>3, <2>6, ObjectIsShaped
  <2> QED
    BY <2>6, <2>8, <2>9
<1>6. ASSUME NEW f \in Fields
      PROVE  /\ \/ new[f] = obj[f]
                \/ wish[f] = None /\ new[f] = Unset /\ f.name \in Barred(new)
                \/ wish[f] # None /\ new[f] = wish[f].to /\ wish[f].to # Ghost
             /\ wish[f] # None /\ "update" \in f.sent =>
                    \/ new[f] = wish[f].to /\ wish[f].to # Ghost
                    \/ wish[f].to = Ghost /\ f.miss \notin {"raw", "zero"}
  <2>1. CASE Nulled(f)
    BY <1>5, <2>1
  <2>2. CASE ~Nulled(f) /\ Full(f) = None
    <3>1. new[f] = obj[f]
      BY <1>2, <2>2, BodyShape
    <3>2. wish[f] # None /\ "update" \in f.sent
            => wish[f].to = Ghost /\ f.miss \notin {"raw", "zero"}
      BY <2>2, SentShape DEF Full
    <3> QED
      BY <3>1, <3>2
  <2>3. CASE ~Nulled(f) /\ Full(f) # None
    <3>1. new[f] = Full(f).to /\ Full(f).to # Ghost
      BY <1>4, <2>3
    <3>2. CASE Sent(f) # None
      BY <2>3, <3>1, <3>2, FullShape, SentShape
    <3>3. CASE Sent(f) = None
      BY <2>3, <3>1, <3>3, FullShape, SentShape
    <3> QED
      BY <3>2, <3>3
  <2> QED
    BY <2>1, <2>2, <2>3
<1> QED
  BY <1>3, <1>6 DEF new

\* The API refuses an update only for what no run could do
LEMMA RefusedIsHopeless ==
    ASSUME Subject, obj # Gone, ~Accepted(Body, obj)
    PROVE  Hopeless
<1> resource \in Resource /\ wish \in Tasks /\ obj \in Objects
  BY DEF Subject
<1>1. CASE \E f \in Fields : wish[f] # None /\ wish[f].to = Ghost /\ f.miss # "dropped"
  BY <1>1 DEF Hopeless, Given
<1>2. CASE \A f \in Fields : wish[f] # None /\ wish[f].to = Ghost => f.miss = "dropped"
  <2> DEFINE new == Stored(Body, obj)
  <2>1. \A f \in Fields : Full(f) # None => Full(f).to # Ghost
    BY <1>2, FullShape
  <2>2. \A f \in Fields :
          IsReference(f) /\ Body[f] # None => Body[f].form \in {"number", "digits", "null"}
    <3> SUFFICES ASSUME NEW f \in Fields, IsReference(f), Body[f] # None
                 PROVE  Body[f].form \in {"number", "digits", "null"}
      OBVIOUS
    <3>1. ~(/\ wish[f] # None /\ wish[f].to = Ghost
            /\ f.miss = "raised" \/ Full(f) = wish[f])
      <4> SUFFICES ASSUME wish[f] # None, wish[f].to = Ghost, Full(f) = wish[f] PROVE FALSE
        BY <1>2
      <4> QED
        BY <2>1
    <3> QED
      BY <3>1, BodyForms
  <2>3. Sane(Body)
    <3> SUFFICES ASSUME NEW f \in Fields, Body[f] # None
                 PROVE  Body[f].to \in f.values \cup {Unset}
      BY DEF Sane
    <3>1. CASE Nulled(f)
      BY <3>1, BodyShape, NullShape
    <3>2. CASE ~Nulled(f)
      BY <2>1, <3>2, BodyShape, FullShape
    <3> QED
      BY <3>1, <3>2
  <2>4. /\ Shaped(new)
        /\ \A f \in Fields : new[f] = IF Body[f] = None THEN obj[f] ELSE Body[f].to
    BY <2>3, ObjectIsShaped, StoredShape
  <2> HIDE DEF new
  <2>5. PICK f \in Fields : f.name \in Barred(new) /\ new[f] # Unset
    BY <2>2 DEF Accepted, new
  <2>6. PICK g \in Fields : new[g] # Unset /\ f.name \in g.bars[new[g]]
    BY <2>4, <2>5, BarredBy
  <2>7. new[g] \in g.values
    BY <2>4, <2>6 DEF Shaped
  <2>8. /\ ~IsReference(g) /\ g.read = "own" /\ "update" \in g.sent /\ ~g.named
        /\ ~IsReference(f) /\ "update" \in f.sent /\ f # g
    BY <2>6, <2>7, BarFacts
  <2>9. CASE Sent(f) # None
    BY <2>6, <2>7, <2>8, <2>9, SentShape DEF Hopeless, Given
  <2>10. CASE Sent(f) = None
    <3>1. ~Nulled(g) /\ Body[g] = Full(g)
      BY <2>6, <2>7, BarringIsSent, BodyShape
    <3>2. Full(g) # None
      <4> SUFFICES ASSUME Full(g) = None PROVE FALSE
        OBVIOUS
      <4>1. new[g] = obj[g]
        BY <2>4, <3>1
      <4>2. Merged(g) = None
        BY <2>8 DEF Full
      <4> QED
        BY <2>6, <2>8, <4>1, <4>2, MergedShape
    <3>3. Full(g).to = new[g]
      BY <2>4, <3>1, <3>2
    <3>4. f.name \in Withheld
      BY <2>6, <2>8, <3>2, <3>3, WithheldBy
    <3>5. Body[f] = Null
      BY <2>8, <2>10, <3>4, BodyShape DEF Nulled
    <3>6. Null # None
      BY FieldFacts DEF IsField, Form, Null
    <3> QED
      BY <2>4, <2>5, <3>5, <3>6, NullShape
  <2> QED
    BY <2>9, <2>10
<1> QED
  BY <1>1, <1>2

\* An update that reports no change has made none
LEMMA QuietIsKept ==
    ASSUME Subject, obj # Gone, Accepted(Body, obj), ~Changed(Stored(Body, obj))
    PROVE  Stored(Body, obj) = obj
<1> DEFINE new == Stored(Body, obj)
<1> resource \in Resource /\ wish \in Tasks /\ obj \in Objects
  BY DEF Subject
<1>1. new \in Objects
  BY Patched
<1>2. Shaped(new) /\ Shaped(obj)
  BY <1>1, ObjectIsShaped
<1>3. \A f \in Fields :
        \/ new[f] = obj[f]
        \/ wish[f] = None /\ new[f] = Unset /\ f.name \in Barred(new)
        \/ wish[f] # None /\ new[f] = wish[f].to /\ wish[f].to # Ghost
  BY Patched
<1>4. ~Changed(new)
  OBVIOUS
<1> HIDE DEF new
<1>5. ASSUME NEW f \in Fields, new[f] # obj[f], f.read # "hidden", new[f] # Unset PROVE FALSE
  <2>1. Shown(f, new[f]) # None /\ Shown(f, new[f]).to = new[f]
    BY <1>2, <1>5, ShownShape DEF Shaped
  <2>2. Shown(f, obj[f]) = None \/ Shown(f, obj[f]).to = obj[f]
    BY <1>2, ShownShape DEF Shaped
  <2> QED
    BY <1>4, <1>5, <2>1, <2>2 DEF Changed
<1>6. ASSUME NEW f \in Fields PROVE new[f] = obj[f]
  <2>1. CASE wish[f] = None /\ new[f] = Unset /\ f.name \in Barred(new)
    <3>1. PICK g \in Fields : new[g] # Unset /\ f.name \in g.bars[new[g]]
      BY <1>2, <2>1, BarredBy
    <3>2. new[g] \in g.values
      BY <1>2, <3>1 DEF Shaped
    <3>3. g.read = "own"
      BY <3>1, <3>2, BarFacts
    <3>4. new[g] = obj[g]
      BY <1>5, <3>1, <3>3
    <3>5. f.name \in Barred(obj)
      BY <1>2, <3>1, <3>4, BarredBy
    <3> QED
      BY <2>1, <3>5, ObjectIsShaped
  <2>2. CASE wish[f] # None /\ new[f] = wish[f].to /\ wish[f].to # Ghost
    <3>1. wish[f].to \in f.values /\ IsField(f)
      BY <2>2, WishShape, FieldFacts
    <3>2. new[f] # Unset
      BY <2>2, <3>1 DEF IsField
    <3>3. CASE f.read = "hidden"
      <4>1. Shown(f, obj[f]) = None
        BY <3>3 DEF Shown
      <4> QED
        BY <1>4, <2>2, <4>1 DEF Changed, Given, Noticed
    <3> QED
      BY <1>5, <3>2, <3>3
  <2> QED
    BY <1>3, <2>1, <2>2
<1>7. new \in [Fields -> {Unset} \cup Held] /\ obj \in [Fields -> {Unset} \cup Held]
  BY <1>2 DEF Shaped
<1> QED
  BY <1>6, <1>7 DEF new

-----------------------------------------------------------------------------
(* The POST and the PUT                                                    *)

\* What a creation that the API accepts leaves in each field
LEMMA Posted ==
    ASSUME Subject, Accepted(Fresh, Blank)
    PROVE  LET new == Stored(Fresh, Blank) IN
           /\ new \in Objects
           /\ \A f \in Fields : new[f] = Unset \/ (wish[f] # None /\ new[f] = wish[f].to)
           /\ \A f \in Fields :
                wish[f] # None /\ "create" \in f.sent =>
                    \/ new[f] = wish[f].to /\ wish[f].to # Ghost
                    \/ wish[f].to = Ghost /\ f.miss \notin {"raw", "zero"}
<1> DEFINE new == Stored(Fresh, Blank)
<1> resource \in Resource /\ wish \in Tasks
  BY DEF Subject
<1>1. \A f \in Fields : Fresh[f] = IF "create" \in f.sent THEN Sent(f) ELSE None
  BY DEF Fresh
<1>2. ASSUME NEW f \in Fields, Fresh[f] # None
      PROVE  /\ wish[f] # None /\ wish[f].to # Ghost
             /\ Fresh[f].to = wish[f].to /\ wish[f].to \in f.values
  <2>1. Fresh[f] = Sent(f) /\ wish[f] # None
    BY <1>1, <1>2, SentShape
  <2>2. wish[f].to # Ghost
    <3> SUFFICES ASSUME wish[f].to = Ghost PROVE FALSE
      OBVIOUS
    <3>1. Fresh[f] = wish[f] /\ IsReference(f) /\ wish[f].form = "text"
      BY <1>2, <2>1, SentShape, WishShape
    <3> QED
      BY <1>2, <3>1 DEF Accepted
  <2> QED
    BY <2>1, <2>2, SentShape, WishShape
<1>3. Sane(Fresh)
  BY <1>2 DEF Sane
<1>4. /\ Shaped(new)
      /\ \A f \in Fields : new[f] = IF Fresh[f] = None THEN Blank[f] ELSE Fresh[f].to
  BY <1>3, BlankShape, StoredShape
<1>5. new \in Objects
  BY <1>4, ObjectIsShaped DEF Accepted
<1> HIDE DEF new
<1>6. \A f \in Fields : new[f] = Unset \/ (wish[f] # None /\ new[f] = wish[f].to)
  BY <1>2, <1>4, BlankShape
<1>7. ASSUME NEW f \in Fields, wish[f] # None, "create" \in f.sent
      PROVE  \/ new[f] = wish[f].to /\ wish[f].to # Ghost
             \/ wish[f].to = Ghost /\ f.miss \notin {"raw", "zero"}
  <2>1. CASE wish[f].to = Ghost
    BY <1>1, <1>2, <1>7, <2>1, SentShape
  <2>2. CASE wish[f].to # Ghost
    BY <1>1, <1>2, <1>4, <1>7, <2>2, SentShape
  <2> QED
    BY <2>1, <2>2
<1> QED
  BY <1>5, <1>6, <1>7 DEF new

LEMMA PostRefusedIsHopeless ==
    ASSUME Subject, ~Accepted(Fresh, Blank)
    PROVE  Hopeless
<1> resource \in Resource /\ wish \in Tasks
  BY DEF Subject
<1> DEFINE new == Stored(Fresh, Blank)
<1>1. CASE \E f \in Fields : wish[f] # None /\ wish[f].to = Ghost /\ f.miss # "dropped"
  BY <1>1 DEF Hopeless, Given
<1>2. CASE \A f \in Fields : wish[f] # None /\ wish[f].to = Ghost => f.miss = "dropped"
  <2>1. ASSUME NEW f \in Fields, Fresh[f] # None
        PROVE  /\ wish[f] # None /\ Fresh[f].to \in f.values
               /\ IsReference(f) => Fresh[f].form = "number"
    <3>1. Fresh[f] = Sent(f) /\ wish[f] # None
      BY <2>1, SentShape DEF Fresh
    <3>2. wish[f].to # Ghost
      BY <1>2, <2>1, <3>1, SentShape
    <3> QED
      BY <3>1, <3>2, SentShape, WishShape
  <2>2. /\ Shaped(new)
        /\ \A f \in Fields : new[f] = IF Fresh[f] = None THEN Blank[f] ELSE Fresh[f].to
    <3>1. Sane(Fresh)
      BY <2>1 DEF Sane
    <3> QED
      BY <3>1, BlankShape, StoredShape
  <2> HIDE DEF new
  <2>3. PICK f \in Fields : f.name \in Barred(new) /\ new[f] # Unset
    BY <2>1 DEF Accepted, new
  <2>4. PICK g \in Fields : new[g] # Unset /\ f.name \in g.bars[new[g]]
    BY <2>2, <2>3, BarredBy
  <2>5. new[g] \in g.values
    BY <2>2, <2>4 DEF Shaped
  <2>6. f # g
    BY <2>4, <2>5, BarFacts
  <2>7. wish[f] # None
    BY <2>1, <2>2, <2>3, BlankShape
  <2> QED
    BY <2>4, <2>5, <2>6, <2>7 DEF Hopeless, Given
<1> QED
  BY <1>1, <1>2

\* The settings refer to nothing and bar nothing: what differs is sent and stored
LEMMA Put ==
    ASSUME Subject, obj # Gone, Is({"settings"})
    PROVE  LET new == Stored(Flattened, obj) IN
           /\ Accepted(Flattened, obj) /\ new \in Objects
           /\ \A f \in Fields : IF wish[f] = None THEN new[f] = obj[f] ELSE new[f] = wish[f].to
           /\ \A f \in Fields : wish[f] # None => wish[f].to # Ghost
<1> DEFINE new == Stored(Flattened, obj)
<1> resource \in Resource /\ wish \in Tasks /\ obj \in Objects
  BY DEF Subject
<1>1. Shaped(obj)
  BY ObjectIsShaped
<1>2. \A f \in Fields : ~IsReference(f) /\ f.read # "hidden"
  BY ResourceAssumption DEF IsResource, Is, Fields
<1>3. \A f \in Fields : wish[f] # None => wish[f].to # Ghost /\ wish[f].to \in f.values
  BY <1>2, WishShape
<1>4. \A f \in Fields : Flattened[f] = IF f \in Outstanding THEN wish[f] ELSE None
  BY DEF Flattened
<1>5. Sane(Flattened)
  BY <1>3, <1>4 DEF Sane
<1>6. /\ Shaped(new)
      /\ \A f \in Fields : new[f] = IF Flattened[f] = None THEN obj[f] ELSE Flattened[f].to
  BY <1>1, <1>5, StoredShape
<1> HIDE DEF new
<1>7. ASSUME NEW f \in Fields, wish[f] # None, f \notin Outstanding
      PROVE  obj[f] = wish[f].to
  <2>1. ~SettingDiffers(wish[f], Shown(f, obj[f]))
    BY <1>7 DEF Outstanding, Given
  <2>2. Shown(f, obj[f]) # None /\ SameText(wish[f], Shown(f, obj[f]))
    BY <2>1 DEF SettingDiffers
  <2>3. Shown(f, obj[f]).to = obj[f]
    BY <1>1, <2>2, ShownShape DEF Shaped
  <2> QED
    BY <2>2, <2>3 DEF SameText
<1>8. \A f \in Fields : IF wish[f] = None THEN new[f] = obj[f] ELSE new[f] = wish[f].to
  BY <1>4, <1>6, <1>7 DEF Outstanding, Given
<1>9. \A f \in Fields : f.name \notin Barred(new)
  BY <1>6, BarredBy, BarFacts DEF Shaped
<1>10. new \in Objects
  BY <1>6, <1>9, ObjectIsShaped
<1>11. Accepted(Flattened, obj)
  BY <1>2, <1>9 DEF Accepted, new
<1> QED
  BY <1>3, <1>8, <1>10, <1>11 DEF new

-----------------------------------------------------------------------------
(* The second run of a task whose first one wrote what it asks             *)

\* Every field the task gives, and an update would send, is as the task asks, or was
\* dropped
Met ==
    \A f \in Given :
        "update" \in f.sent =>
            \/ obj[f] = wish[f].to /\ wish[f].to # Ghost
            \/ wish[f].to = Ghost /\ f.miss \notin {"raw", "zero"}

\* An update sends what is there
LEMMA RerunStores ==
    ASSUME Subject, obj # Gone, ~Raises, Met
    PROVE  Accepted(Body, obj) /\ Stored(Body, obj) = obj
<1> DEFINE new == Stored(Body, obj)
<1> resource \in Resource /\ wish \in Tasks /\ obj \in Objects
  BY DEF Subject
<1>1. Shaped(obj)
  BY ObjectIsShaped
<1>2. ASSUME NEW f \in Fields, Full(f) # None
      PROVE  Full(f).to = obj[f] /\ Full(f).to # Ghost
  <2>1. "update" \in f.sent
    BY <1>2, FullShape
  <2>2. CASE Sent(f) # None
    <3>1. Full(f) = Sent(f) /\ wish[f] # None
      BY <1>2, <2>2, FullShape
    <3>2. wish[f].to # Ghost /\ obj[f] = wish[f].to
      BY <2>1, <2>2, <3>1, SentShape DEF Met, Given
    <3> QED
      BY <3>1, <3>2, SentShape
  <2>3. CASE Sent(f) = None
    BY <1>2, <2>3, FullShape, FieldFacts, MergedShape DEF IsField
  <2> QED
    BY <2>2, <2>3
<1>3. ASSUME NEW f \in Fields, Nulled(f)
      PROVE  obj[f] = Unset
  <2>1. PICK g \in Fields :
            Full(g) # None /\ ~IsReference(g) /\ f.name \in g.bars[Full(g).to]
    BY <1>3, WithheldBy DEF Nulled
  <2>2. Full(g).to \in g.values /\ Full(g).to = obj[g]
    BY <1>2, <2>1, FullShape
  <2>3. obj[g] # Unset
    BY <2>2, FieldFacts DEF IsField
  <2>4. f.name \in Barred(obj)
    BY <1>1, <2>1, <2>2, <2>3, BarredBy
  <2> QED
    BY <2>4, ObjectIsShaped
<1>4. \A f \in Fields : Body[f] # None => Body[f].to = obj[f]
  BY <1>2, <1>3, BodyShape, NullShape
<1>5. Sane(Body)
  BY <1>1, <1>4 DEF Sane, Shaped
<1>6. /\ Shaped(new)
      /\ \A f \in Fields : new[f] = IF Body[f] = None THEN obj[f] ELSE Body[f].to
  BY <1>1, <1>5, StoredShape
<1>7. new = obj
  <2> HIDE DEF new
  <2> QED
    BY <1>1, <1>4, <1>6 DEF Shaped
<1>8. ASSUME NEW f \in Fields, IsReference(f), Body[f] # None
      PROVE  Body[f].form \in {"number", "digits", "null"}
  <2>1. ~(/\ wish[f] # None /\ wish[f].to = Ghost
          /\ f.miss = "raised" \/ Full(f) = wish[f])
    <3> SUFFICES ASSUME wish[f] # None, wish[f].to = Ghost,
                        f.miss = "raised" \/ Full(f) = wish[f]
                 PROVE  FALSE
      OBVIOUS
    <3>1. f.miss # "raised"
      BY DEF Raises
    <3> QED
      BY <1>2, <3>1
  <2> QED
    BY <1>8, <2>1, BodyForms
<1>9. \A f \in Fields : f.name \in Barred(new) => new[f] = Unset
  BY <1>7, ObjectIsShaped
<1> QED
  BY <1>7, <1>8, <1>9 DEF Accepted

\* The fields about which the comparisons before and after an update can be wrong
LEMMA WhatIsNoticed ==
    ASSUME Subject, obj # Gone, ~Raises, Met, log[1].now = obj,
           NEW f \in Given, Noticed(wish[f], Shown(f, obj[f]))
    PROVE  Restless(f) \/ IsTouchy(f)
<1> DEFINE w == wish[f]
           s == Shown(f, obj[f])
<1>1. f \in Fields /\ w # None /\ resource \in Resource /\ wish \in Tasks /\ obj \in Objects
  BY DEF Subject, Given
<1>2. /\ IsField(f) /\ IsReadable(f) /\ ("update" \in f.sent \/ f.read = "hidden")
      /\ obj[f] \in f.values \cup {Unset}
  BY <1>1, FieldFacts, ObjectIsShaped DEF Shaped
<1>3. /\ w \in [form : Form, to : f.values \cup {Ghost}]
      /\ w.to = Ghost => IsReference(f) /\ w.form = "text"
      /\ w.to # Ghost =>
            \/ w.form \in f.forms \ {"own"}
            \/ "own" \in f.forms /\ w.form = Written(w.to)
  BY <1>1, WishShape
<1>4. Written(w.to) \in {"text", "digits"}
  BY DEF Written
<1>5. CASE f.read = "hidden"
  <2>1. CASE w.form = "spared"
    BY <1>3, <1>4, <2>1 DEF IsTouchy
  <2>2. CASE w.form # "spared"
    BY <1>5, <2>2 DEF Restless
  <2> QED
    BY <2>1, <2>2
<1>6. CASE f.read # "hidden"
  <2>1. "update" \in f.sent
    BY <1>2, <1>6
  <2>2. \/ obj[f] = w.to /\ w.to # Ghost
        \/ w.to = Ghost /\ f.miss \notin {"raw", "zero"}
    BY <2>1 DEF Met
  <2>3. CASE w.to = Ghost
    <3>1. CASE obj[f] = Unset
      BY <2>3, <3>1 DEF Restless
    <3>2. CASE obj[f] # Unset
      <4>1. s # None /\ s = [form |-> IF f.read = "own" THEN Written(obj[f]) ELSE f.read,
                             to |-> obj[f]]
        BY <1>1, <1>2, <1>6, <3>2, ShownShape
      <4>2. f.miss = "dropped"
        BY <1>1, <1>2, <1>3, <2>2, <2>3 DEF IsField, IsReference, Raises
      <4>3. f.read \in {"digits", "number"}
        BY <1>2, <1>3, <1>6, <2>3, <4>2 DEF IsReadable
      <4>4. s.form \in {"digits", "number"} /\ w.form = "text"
        BY <1>3, <2>3, <4>1, <4>3
      <4> HIDE DEF w, s
      <4> QED
        BY <4>1, <4>4 DEF Noticed, Incomparable, w, s
    <3> QED
      BY <3>1, <3>2
  <2>4. CASE w.to # Ghost
    <3>1. obj[f] = w.to /\ obj[f] # Unset
      BY <1>2, <1>3, <2>2, <2>4 DEF IsField
    <3>2. s # None /\ s = [form |-> IF f.read = "own" THEN Written(w.to) ELSE f.read,
                           to |-> w.to]
      BY <1>1, <1>2, <1>6, <3>1, ShownShape
    <3>3. w = [form |-> w.form, to |-> w.to]
      BY <1>3
    <3>4. Noticed(w, s)
      OBVIOUS
    <3>5. CASE w.form = s.form
      BY <1>4, <3>2, <3>3, <3>4, <3>5, <1>2, <1>3, <1>6 DEF Noticed, Restated, IsReadable
    <3>6. CASE w.form # s.form /\ IsReference(f)
      <4>1. w.form \in {"text", "digits"} /\ f.read \in {"text", "digits", "number"}
        BY <1>2, <1>3, <1>6, <2>4, <3>6 DEF IsReadable
      <4>2. s.form = f.read
        BY <3>2, <4>1
      <4>3. w.form = "digits" /\ f.read = "text"
        BY <3>2, <3>4, <3>6, <4>1, <4>2 DEF Noticed, Incomparable
      <4> QED
        BY <4>3 DEF Restless, IsTouchy
    <3>7. CASE w.form # s.form /\ ~IsReference(f)
      <4>1. CASE f.forms \subseteq {"own"} /\ f.read = "own"
        BY <1>3, <2>4, <3>2, <3>7, <4>1
      <4>2. CASE f.forms \subseteq {"typed", "spelled"} /\ f.read = "typed"
        BY <1>3, <2>4, <3>2, <3>7, <4>2 DEF Restless
      <4>3. CASE f.forms \subseteq {"dict", "list"} /\ f.read = "text"
        <5>1. w.form \in {"dict", "list"} /\ s = [form |-> "text", to |-> w.to]
          BY <1>3, <2>4, <3>2, <4>3
        <5>2. w.form # "dict"
          <6> SUFFICES ASSUME w.form = "dict" PROVE FALSE
            OBVIOUS
          <6>1. Restated(w) = s
            BY <3>3, <5>1 DEF Restated
          <6> QED
            BY <3>2, <3>4, <6>1 DEF Noticed
        <5> QED
          BY <5>1, <5>2 DEF Restless
      <4> QED
        BY <1>2, <1>6, <3>7, <4>1, <4>2, <4>3 DEF IsReadable
    <3> QED
      BY <3>5, <3>6, <3>7
  <2> QED
    BY <2>3, <2>4
<1> QED
  BY <1>5, <1>6

LEMMA WhatCallsForUpdate ==
    ASSUME Subject, obj # Gone, ~Raises, Met, log[1].now = obj, NEW f \in Outstanding
    PROVE  Restless(f) \/ (IsMuffled(f) /\ ~Is({"settings"}))
<1> DEFINE w == wish[f]
           s == Shown(f, obj[f])
<1>1. f \in Fields /\ w # None /\ resource \in Resource /\ wish \in Tasks /\ obj \in Objects
  BY DEF Subject, Given, Outstanding
<1>2. /\ IsField(f) /\ IsReadable(f) /\ ("update" \in f.sent \/ f.read = "hidden")
      /\ obj[f] \in f.values \cup {Unset}
  BY <1>1, FieldFacts, ObjectIsShaped DEF Shaped
<1>3. /\ w \in [form : Form, to : f.values \cup {Ghost}]
      /\ w.to = Ghost => IsReference(f) /\ w.form = "text"
      /\ w.to # Ghost =>
            \/ w.form \in f.forms \ {"own"}
            \/ "own" \in f.forms /\ w.form = Written(w.to)
  BY <1>1, WishShape
<1>4. Written(w.to) \in {"text", "digits"}
  BY DEF Written
<1>5. Is({"settings"}) => ~IsReference(f) /\ f.read # "hidden" /\ "dict" \notin f.forms
  BY <1>1, ResourceAssumption DEF IsResource, Is, Fields
<1>6. IF Is({"settings"}) THEN SettingDiffers(w, s) ELSE Differs(f, w, s)
  BY DEF Outstanding
<1>7. CASE f.read = "hidden"
  BY <1>5, <1>6, <1>7 DEF Differs, Restless
<1>8. CASE f.read # "hidden"
  <2>1. "update" \in f.sent
    BY <1>2, <1>8
  <2>2. \/ obj[f] = w.to /\ w.to # Ghost
        \/ w.to = Ghost /\ f.miss \notin {"raw", "zero"}
    BY <1>1, <2>1 DEF Met, Given
  <2>3. CASE w.to = Ghost
    <3>1. CASE obj[f] = Unset
      BY <2>3, <3>1 DEF Restless
    <3>2. CASE obj[f] # Unset
      <4>1. s # None /\ s = [form |-> IF f.read = "own" THEN Written(obj[f]) ELSE f.read,
                             to |-> obj[f]]
        BY <1>1, <1>2, <1>8, <3>2, ShownShape
      <4>2. f.miss = "dropped"
        BY <1>1, <1>2, <1>3, <2>2, <2>3 DEF IsField, IsReference, Raises
      <4>3. f.read \in {"digits", "number"} /\ ~f.named /\ ~Is({"settings"})
        BY <1>2, <1>3, <1>5, <1>8, <2>3, <4>2 DEF IsReadable
      <4>4. s.form = f.read /\ w.form = "text"
        BY <1>3, <2>3, <4>1, <4>3
      <4>5. f.read = "digits" => f.mutable
        BY <1>6, <4>1, <4>3, <4>4 DEF Differs, Looked, Incomparable
      <4> QED
        BY <4>3, <4>5 DEF IsMuffled
    <3> QED
      BY <3>1, <3>2
  <2>4. CASE w.to # Ghost
    <3>1. obj[f] = w.to /\ obj[f] # Unset
      BY <1>2, <1>3, <2>2, <2>4 DEF IsField
    <3>2. s # None /\ s = [form |-> IF f.read = "own" THEN Written(w.to) ELSE f.read,
                           to |-> w.to]
      BY <1>1, <1>2, <1>8, <3>1, ShownShape
    <3>3. w = [form |-> w.form, to |-> w.to]
      BY <1>3
    <3>4. w.form \notin {"forced", "spared"}
      BY <1>2, <1>3, <1>4, <1>8, <2>4 DEF IsReadable
    <3>5. CASE ~IsReference(f)
      <4>1. ~f.named
        BY <1>2, <3>5 DEF IsReadable
      <4>2. ~SameText(w, s)
        BY <1>6, <3>2, <3>4, <4>1 DEF SettingDiffers, Differs, Looked
      <4>3. w.form # s.form
        BY <3>2, <3>3, <4>2 DEF SameText
      <4>4. CASE f.forms \subseteq {"own"} /\ f.read = "own"
        BY <1>3, <2>4, <3>2, <4>3, <4>4
      <4>5. CASE f.forms \subseteq {"typed", "spelled"} /\ f.read = "typed"
        BY <1>3, <2>4, <3>2, <4>3, <4>5 DEF Restless
      <4>6. CASE f.forms \subseteq {"dict", "list"} /\ f.read = "text"
        BY <1>3, <1>5, <2>4, <4>6 DEF Restless, IsMuffled
      <4> QED
        BY <1>2, <1>8, <3>5, <4>4, <4>5, <4>6 DEF IsReadable
    <3>6. CASE IsReference(f)
      <4>1. /\ w.form \in {"text", "digits"} /\ f.read \in {"text", "digits", "number"}
            /\ ~Is({"settings"})
        BY <1>2, <1>3, <1>5, <1>8, <2>4, <3>6 DEF IsReadable
      <4>2. s = [form |-> f.read, to |-> w.to]
        BY <3>2, <4>1
      <4>3. ~SameText(Looked(f, w), s) /\ (f.mutable \/ ~Incomparable(Looked(f, w), s))
        BY <1>6, <3>2, <4>1 DEF Differs
      <4>4. CASE w.form = "text"
        <5>1. Looked(f, w) = w
          BY <4>4 DEF Looked
        <5> QED
          BY <3>3, <4>1, <4>2, <4>3, <4>4, <5>1 DEF SameText, Incomparable, IsMuffled
      <4>5. CASE w.form = "digits" /\ ~f.named
        <5>1. Looked(f, w) = w
          BY <4>5 DEF Looked
        <5> QED
          BY <3>3, <4>1, <4>2, <4>3, <4>5, <5>1 DEF SameText, Restless
      <4>6. CASE w.form = "digits" /\ f.named
        <5>1. Looked(f, w) = [form |-> "text", to |-> w.to]
          BY <3>3, <4>6 DEF Looked
        <5>2. f.read = "text"
          BY <1>2, <3>6, <4>6 DEF IsReadable
        <5> QED
          BY <4>2, <4>3, <5>1, <5>2 DEF SameText
      <4> QED
        BY <4>1, <4>4, <4>5, <4>6
    <3> QED
      BY <3>5, <3>6
  <2> QED
    BY <2>3, <2>4
<1> QED
  BY <1>7, <1>8

\* An update that changes nothing and says otherwise is about a restless field
LEMMA RerunIsRestless ==
    ASSUME Subject, obj # Gone, ~Raises, Met, log[1].now = obj, Outstanding # {},
           Is({"settings"}) \/ Changed(obj)
    PROVE  \E f \in Given : Restless(f)
<1> resource \in Resource
  BY DEF Subject
<1>1. PICK f \in Outstanding : Restless(f) \/ (IsMuffled(f) /\ ~Is({"settings"}))
  BY WhatCallsForUpdate
<1>2. f \in Given /\ f \in Fields
  BY DEF Outstanding, Given
<1>3. CASE Restless(f)
  BY <1>2, <1>3
<1>4. CASE IsMuffled(f) /\ ~Is({"settings"})
  <2>1. PICK g \in Given : Noticed(wish[g], Shown(g, obj[g]))
    BY <1>4 DEF Changed
  <2>2. Restless(g) \/ IsTouchy(g)
    BY <2>1, WhatIsNoticed
  <2>3. ~IsTouchy(g)
    BY <1>2, <1>4, ResourceAssumption DEF IsResource, Given, Fields
  <2> QED
    BY <2>2, <2>3
<1> QED
  BY <1>1, <1>3, <1>4

-----------------------------------------------------------------------------
(* The runs.  AsAsked looks at each run alone; RerunIsQuiet needs to know, *)
(* between the runs, what the first one has left: nothing to do, the       *)
(* fields as they were asked for, or an object that a creation could not   *)
(* complete.                                                               *)

\* What AsAsked says of one run
Promised(e) ==
    /\ e.verdict = "failed" => Hopeless
    /\ e.verdict # "changed" => e.now = e.was
    /\ e.verdict # "failed" /\ ~Pretended(e) =>
        /\ e.now # Gone
        /\ \A f \in Fields \ Given :
            \/ e.now[f] = Before(e, f)
            \/ e.now[f] = Unset /\ f.name \in Barred(e.now)
        /\ \A f \in Given :
            \/ e.now[f] = wish[f].to
            \/ e.now[f] = Before(e, f) /\ (Overlooked(f, e.was) \/ Ignored(f, e.was))

\* What RerunIsQuiet says of the second run
Quiet(e) ==
    log[1].verdict # "failed"
    => \/ e.verdict = "unchanged"
       \/ /\ e.verdict = "changed" /\ e.now = e.was
          /\ Pretended(e) \/ \E f \in Given : Restless(f)
       \/ log[1].was = Gone /\ \E f \in Given : "create" \notin f.sent

\* A first run that ended well
Between(was) ==
    \/ Is({"given"}) /\ obj = Gone
    \/ obj # Gone /\ ~(Is({"keyed"}) /\ Raises) /\ Outstanding = {}
    \/ obj # Gone /\ ~Raises /\ was = Gone /\ \E f \in Given : "create" \notin f.sent
    \/ obj # Gone /\ ~Raises /\ Met

Interval == Len(log) = 1 /\ log[1].verdict # "failed" => Between(log[1].was)

Entry == [was : Objects \cup {Gone}, now : Objects \cup {Gone}, verdict : Verdict]

Control ==
    /\ pc \in {"find", "create", "update", "done"}
    /\ pc = "create" => obj = Gone \/ (Is({"keyed"}) /\ Raises)
    /\ pc = "update" => obj # Gone /\ ~(Is({"keyed"}) /\ Raises) /\ Outstanding # {}
    /\ log \in Seq(Entry)
    /\ IF pc = "done" THEN Len(log) = 2 ELSE Len(log) \in {0, 1}
    /\ Len(log) = 1 => log[1].now = obj

TaskInv ==
    /\ Subject
    /\ Control
    /\ AsAsked
    /\ Interval
    /\ RerunIsQuiet

\* No object is "no object"
LEMMA GoneIsNone == ASSUME resource \in Resource PROVE Gone \notin Objects
<1>1. Gone \notin [Fields -> {Unset} \cup UNION {f.values : f \in Fields}]
  BY ResourceAssumption, Zenon DEF IsResource, Fields
<1> QED
  BY <1>1, Zenon DEF Objects

LEMMA InitTaskInv == Init => TaskInv
<1> SUFFICES ASSUME Init PROVE TaskInv
  OBVIOUS
<1>1. Subject
  <2>1. PICK task \in Tasks : wish = Validated(task)
    BY DEF Init
  <2> QED
    BY <2>1, ValidatedIsTask DEF Init, Subject, Given
<1>2. log = <<>> /\ pc = "find"
  BY DEF Init
<1>3. Control
  BY <1>2 DEF Control
<1> QED
  BY <1>1, <1>2, <1>3 DEF TaskInv, Interval, AsAsked, RerunIsQuiet

LEMMA AsAskedIsPromised == AsAsked <=> \A i \in DOMAIN log : Promised(log[i])
BY DEF AsAsked, Promised

\* A run that finds nothing to do
LEMMA FindIsPromised ==
    ASSUME Subject, Control, obj # Gone, Outstanding = {}
    PROVE  Promised([was |-> obj, now |-> obj, verdict |-> "unchanged"])
<1> DEFINE e == [was |-> obj, now |-> obj, verdict |-> "unchanged"]
<1> resource \in Resource /\ wish \in Tasks /\ obj \in Objects
  BY DEF Subject
<1>1. \A f \in Fields : e.now[f] = Before(e, f)
  BY DEF Before
<1>2. ASSUME NEW f \in Given
      PROVE  \/ e.now[f] = wish[f].to
             \/ Overlooked(f, e.was) \/ Ignored(f, e.was)
  <2> DEFINE w == wish[f]
             s == Shown(f, obj[f])
  <2>1. f \in Fields /\ w # None /\ obj[f] \in f.values \cup {Unset}
    BY ObjectIsShaped DEF Given, Shaped
  <2>2. s # None => s.to = obj[f]
    BY <2>1, ShownShape
  <2>3. CASE Is({"settings"})
    <3>1. s # None /\ SameText(w, s)
      BY <2>3 DEF Outstanding, SettingDiffers
    <3>2. w.to = s.to
      BY <3>1 DEF SameText
    <3> QED
      BY <2>2, <3>1, <3>2
  <2>4. CASE ~Is({"settings"})
    <3>1. ~Differs(f, w, s)
      BY <2>4 DEF Outstanding
    <3>2. CASE w.form = "spared"
      BY <3>2 DEF Ignored
    <3>3. CASE s # None /\ SameText(Looked(f, w), s)
      <4>1. w \in [form : Form, to : f.values \cup {Ghost}]
        BY <2>1, WishShape
      <4>2. Looked(f, w).to = w.to
        BY <4>1 DEF Looked
      <4>3. Looked(f, w).to = s.to
        BY <3>3 DEF SameText
      <4> QED
        BY <2>2, <3>3, <4>2, <4>3
    <3>4. CASE s # None /\ ~f.mutable /\ Incomparable(Looked(f, w), s)
      <4>1. s.form = "digits"
        BY <3>4 DEF Incomparable
      <4>2. ~f.named \/ w.form # "digits"
        <5> SUFFICES ASSUME f.named, w.form = "digits" PROVE FALSE
          OBVIOUS
        <5>1. f.read = "text"
          BY <2>1, FieldFacts DEF IsReadable
        <5>2. s = [form |-> "text", to |-> obj[f]]
          BY <2>1, <3>4, <5>1, ShownShape
        <5> QED
          BY <4>1, <5>2
      <4>3. Incomparable(w, s)
        BY <3>4, <4>2 DEF Looked
      <4> QED
        BY <3>4, <4>3 DEF Overlooked
    <3> QED
      BY <3>1, <3>2, <3>3, <3>4 DEF Differs
  <2> QED
    BY <2>3, <2>4
<1> QED
  BY <1>1, <1>2 DEF Promised, Given

LEMMA FailIsPromised ==
    ASSUME Hopeless
    PROVE  Promised([was |-> obj, now |-> obj, verdict |-> "failed"])
BY DEF Promised

LEMMA RaisesIsHopeless == Raises => Hopeless
BY DEF Raises, Hopeless, Given

\* A creation, and an update, that the API accepts
LEMMA CreateIsPromised ==
    ASSUME Subject, obj = Gone, ~Raises, Accepted(Fresh, Blank)
    PROVE  Promised([was |-> obj, now |-> Stored(Fresh, Blank), verdict |-> "changed"])
<1> DEFINE new == Stored(Fresh, Blank)
           e == [was |-> obj, now |-> new, verdict |-> "changed"]
<1> resource \in Resource /\ wish \in Tasks
  BY DEF Subject
<1>1. new \in Objects /\ new # Gone
  BY Posted, GoneIsNone
<1>2. \A f \in Fields : new[f] = Unset \/ (wish[f] # None /\ new[f] = wish[f].to)
  BY Posted
<1>3. \A f \in Fields :
        wish[f] # None /\ "create" \in f.sent =>
            \/ new[f] = wish[f].to /\ wish[f].to # Ghost
            \/ wish[f].to = Ghost /\ f.miss \notin {"raw", "zero"}
  BY Posted
<1> HIDE DEF new
<1>4. \A f \in Fields : Before(e, f) = Unset
  BY DEF Before
<1>5. ASSUME NEW f \in Given
      PROVE  new[f] = wish[f].to \/ (new[f] = Unset /\ Ignored(f, Gone))
  <2>1. f \in Fields /\ wish[f] # None
    BY DEF Given
  <2>2. CASE "create" \notin f.sent
    BY <1>2, <2>1, <2>2 DEF Ignored
  <2>3. CASE wish[f].to = Ghost /\ f.miss \notin {"raw", "zero"}
    <3>1. f.miss # "raised"
      BY <2>1, <2>3 DEF Raises
    <3>2. IsReference(f) /\ IsField(f)
      BY <2>1, <2>3, WishShape, FieldFacts
    <3>3. f.miss = "dropped"
      BY <2>3, <3>1, <3>2 DEF IsField, IsReference
    <3> QED
      BY <1>2, <2>1, <2>3, <3>3 DEF Ignored
  <2> QED
    BY <1>3, <2>1, <2>2, <2>3
<1>6. e.verdict = "changed" /\ e.was = obj /\ e.now = new
  OBVIOUS
<1>7. \A f \in Fields \ Given : e.now[f] = Before(e, f)
  BY <1>2, <1>4, <1>6 DEF Given
<1>8. \A f \in Given :
        \/ e.now[f] = wish[f].to
        \/ e.now[f] = Before(e, f) /\ (Overlooked(f, e.was) \/ Ignored(f, e.was))
  BY <1>4, <1>5, <1>6 DEF Given
<1>9. Promised(e)
  <2> HIDE DEF e
  <2> QED
    BY <1>1, <1>6, <1>7, <1>8 DEF Promised
<1> QED
  BY <1>9 DEF new

LEMMA UpdateIsPromised ==
    ASSUME Subject, obj # Gone, ~Raises, Accepted(Body, obj), ~Is({"settings"})
    PROVE  LET new == Stored(Body, obj) IN
           Promised([was |-> obj, now |-> new,
                     verdict |-> IF Changed(new) THEN "changed" ELSE "unchanged"])
<1> DEFINE new == Stored(Body, obj)
           verdict == IF Changed(new) THEN "changed" ELSE "unchanged"
           e == [was |-> obj, now |-> new, verdict |-> verdict]
<1> resource \in Resource /\ wish \in Tasks
  BY DEF Subject
<1>1. new \in Objects /\ new # Gone
  BY Patched, GoneIsNone
<1>2. \A f \in Fields :
        \/ new[f] = obj[f]
        \/ wish[f] = None /\ new[f] = Unset /\ f.name \in Barred(new)
        \/ wish[f] # None /\ new[f] = wish[f].to /\ wish[f].to # Ghost
  BY Patched
<1>3. \A f \in Fields :
        wish[f] # None /\ "update" \in f.sent =>
            \/ new[f] = wish[f].to /\ wish[f].to # Ghost
            \/ wish[f].to = Ghost /\ f.miss \notin {"raw", "zero"}
  BY Patched
<1>4. verdict # "changed" => new = obj
  BY QuietIsKept
<1> HIDE DEF new
<1>5. \A f \in Fields : Before(e, f) = obj[f]
  BY DEF Before
<1>6. ASSUME NEW f \in Given
      PROVE  new[f] = wish[f].to \/ (new[f] = obj[f] /\ Ignored(f, obj))
  <2>1. f \in Fields /\ wish[f] # None
    BY DEF Given
  <2>2. CASE "update" \notin f.sent
    BY <1>2, <2>1, <2>2 DEF Ignored
  <2>3. CASE wish[f].to = Ghost /\ f.miss \notin {"raw", "zero"}
    <3>1. f.miss # "raised"
      BY <2>1, <2>3 DEF Raises
    <3>2. IsReference(f) /\ IsField(f)
      BY <2>1, <2>3, WishShape, FieldFacts
    <3>3. f.miss = "dropped"
      BY <2>3, <3>1, <3>2 DEF IsField, IsReference
    <3> QED
      BY <1>2, <2>1, <2>3, <3>3 DEF Ignored
  <2> QED
    BY <1>3, <2>1, <2>2, <2>3
<1>7. Promised(e)
  <2>1. e.verdict # "failed" /\ (e.verdict # "changed" => e.now = e.was) /\ e.now # Gone
    BY <1>1, <1>4
  <2>2. \A f \in Fields \ Given :
            e.now[f] = Before(e, f) \/ (e.now[f] = Unset /\ f.name \in Barred(e.now))
    BY <1>2, <1>5 DEF Given
  <2>3. \A f \in Given :
            \/ e.now[f] = wish[f].to
            \/ e.now[f] = Before(e, f) /\ (Overlooked(f, e.was) \/ Ignored(f, e.was))
    BY <1>5, <1>6 DEF Given
  <2> HIDE DEF e
  <2> QED
    BY <2>1, <2>2, <2>3 DEF Promised
<1> QED
  BY <1>7 DEF new

LEMMA PutIsPromised ==
    ASSUME Subject, obj # Gone, Is({"settings"})
    PROVE  Promised([was |-> obj, now |-> Stored(Flattened, obj), verdict |-> "changed"])
<1> DEFINE new == Stored(Flattened, obj)
           e == [was |-> obj, now |-> new, verdict |-> "changed"]
<1>1. new \in Objects /\ new # Gone
  BY Put, GoneIsNone DEF Subject
<1>2. \A f \in Fields : IF wish[f] = None THEN new[f] = obj[f] ELSE new[f] = wish[f].to
  BY Put
<1> HIDE DEF new
<1>3. \A f \in Fields : Before(e, f) = obj[f]
  BY DEF Before
<1>4. e.verdict = "changed" /\ e.now = new
  OBVIOUS
<1>5. /\ \A f \in Fields \ Given : e.now[f] = Before(e, f)
      /\ \A f \in Given : e.now[f] = wish[f].to
  BY <1>2, <1>3, <1>4 DEF Given
<1>6. Promised(e)
  <2> HIDE DEF e
  <2> QED
    BY <1>1, <1>4, <1>5 DEF Promised
<1> QED
  BY <1>6 DEF new

-----------------------------------------------------------------------------
(* The steps                                                               *)

\* What a run may end with
Ends(now, verdict) ==
    /\ now \in Objects \cup {Gone} /\ verdict \in Verdict
    /\ Promised([was |-> obj, now |-> now, verdict |-> verdict])
    /\ Len(log) = 1 => Quiet([was |-> obj, now |-> now, verdict |-> verdict])

LEMMA FindStep ==
    ASSUME TaskInv, Find
    PROVE  \/ /\ pc' \in {"create", "update"} /\ UNCHANGED <<obj, log, resource, wish>>
              /\ pc' = "create" => obj = Gone \/ (Is({"keyed"}) /\ Raises)
              /\ pc' = "update" => obj # Gone /\ ~(Is({"keyed"}) /\ Raises) /\ Outstanding # {}
           \/ /\ End(obj, "unchanged") /\ UNCHANGED <<resource, wish>>
              /\ Ends(obj, "unchanged") /\ Between(obj)
<1>1. CASE obj = Gone \/ (Is({"keyed"}) /\ Raises)
  BY <1>1 DEF Find, Goto
<1>2. CASE ~(obj = Gone \/ (Is({"keyed"}) /\ Raises)) /\ Outstanding # {}
  BY <1>2 DEF Find, Goto
<1>3. CASE ~(obj = Gone \/ (Is({"keyed"}) /\ Raises)) /\ Outstanding = {}
  <2>1. End(obj, "unchanged") /\ UNCHANGED <<resource, wish>>
    BY <1>3 DEF Find
  <2>2. Promised([was |-> obj, now |-> obj, verdict |-> "unchanged"])
    BY <1>3, FindIsPromised DEF TaskInv
  <2>3. Ends(obj, "unchanged")
    BY <2>2 DEF Ends, Quiet, Verdict, TaskInv, Subject
  <2> QED
    BY <1>3, <2>1, <2>3 DEF Between
<1> QED
  BY <1>1, <1>2, <1>3

LEMMA CreateStep ==
    ASSUME TaskInv, Create
    PROVE  \E now \in Objects \cup {Gone}, verdict \in Verdict :
              /\ End(now, verdict) /\ UNCHANGED <<resource, wish>>
              /\ Ends(now, verdict)
              /\ verdict # "failed" /\ now # Gone =>
                    ~Raises /\ obj = Gone /\ Accepted(Fresh, Blank) /\ now = Stored(Fresh, Blank)
              /\ verdict # "failed" /\ now = Gone => Is({"given"})
<1> Subject /\ Control /\ resource \in Resource /\ obj \in Objects \cup {Gone}
  BY DEF TaskInv, Subject
<1>1. UNCHANGED <<resource, wish>> /\ (obj = Gone \/ (Is({"keyed"}) /\ Raises))
  BY DEF Create, Control
<1>2. CASE Is({"given"})
  <2>1. obj = Gone /\ End(obj, "changed")
    BY <1>1, <1>2 DEF Create, Is
  <2>2. Pretended([was |-> obj, now |-> obj, verdict |-> "changed"])
    BY <1>2, <2>1 DEF Pretended
  <2>3. Ends(obj, "changed")
    BY <2>2 DEF Ends, Promised, Quiet, Verdict
  <2> QED
    BY <1>1, <1>2, <2>1, <2>3 DEF Verdict
<1>3. CASE ~Is({"given"}) /\ (Raises \/ ~Accepted(Fresh, Blank))
  <2>1. End(obj, "failed")
    BY <1>3 DEF Create
  <2>2. Promised([was |-> obj, now |-> obj, verdict |-> "failed"])
    BY <1>3, RaisesIsHopeless, PostRefusedIsHopeless, FailIsPromised
  <2>3. CASE Len(log) = 1 /\ log[1].verdict # "failed"
    <3>1. Between(log[1].was)
      BY <2>3 DEF TaskInv, Interval
    <3> QED
      BY <1>1, <1>3, <3>1 DEF Between
  <2>4. CASE ~(Len(log) = 1 /\ log[1].verdict # "failed")
    <3>1. Ends(obj, "failed")
      BY <2>2, <2>4 DEF Ends, Quiet, Verdict
    <3> QED
      BY <1>1, <2>1, <3>1 DEF Verdict
  <2> QED
    BY <2>3, <2>4
<1>4. CASE ~Is({"given"}) /\ ~Raises /\ Accepted(Fresh, Blank)
  <2>1. End(Stored(Fresh, Blank), "changed") /\ obj = Gone
    BY <1>1, <1>4 DEF Create
  <2>2. Promised([was |-> obj, now |-> Stored(Fresh, Blank), verdict |-> "changed"])
    BY <1>4, <2>1, CreateIsPromised
  <2>3. Stored(Fresh, Blank) \in Objects /\ Stored(Fresh, Blank) # Gone
    BY <1>4, Posted, GoneIsNone
  <2>4. ~(Len(log) = 1 /\ log[1].verdict # "failed")
    <3> SUFFICES ASSUME Len(log) = 1 /\ log[1].verdict # "failed" PROVE FALSE
      OBVIOUS
    <3>1. Between(log[1].was)
      BY DEF TaskInv, Interval
    <3> QED
      BY <1>4, <2>1, <3>1 DEF Between
  <2>5. Ends(Stored(Fresh, Blank), "changed")
    BY <2>2, <2>3, <2>4 DEF Ends, Quiet, Verdict
  <2> QED
    BY <1>1, <1>4, <2>1, <2>3, <2>5 DEF Verdict
<1> QED
  BY <1>2, <1>3, <1>4

LEMMA UpdateStep ==
    ASSUME TaskInv, Update
    PROVE  \E now \in Objects, verdict \in Verdict :
              /\ End(now, verdict) /\ UNCHANGED <<resource, wish>>
              /\ Ends(now, verdict) /\ now # Gone
              /\ verdict # "failed" =>
                    /\ ~Raises
                    /\ \A f \in Given :
                        "update" \in f.sent =>
                            \/ now[f] = wish[f].to /\ wish[f].to # Ghost
                            \/ wish[f].to = Ghost /\ f.miss \notin {"raw", "zero"}
<1> /\ Subject /\ Control /\ resource \in Resource /\ wish \in Tasks /\ obj \in Objects
    /\ obj # Gone /\ ~(Is({"keyed"}) /\ Raises) /\ Outstanding # {}
  BY DEF TaskInv, Subject, Control, Update
<1> DEFINE body == IF Is({"settings"}) THEN Flattened ELSE Body
           new == Stored(body, obj)
           verdict == IF Is({"settings"}) \/ Changed(new) THEN "changed" ELSE "unchanged"
<1>1. UNCHANGED <<resource, wish>>
  BY DEF Update
<1>2. /\ Is({"settings"}) => Accepted(body, obj)
      /\ ~Accepted(body, obj) => Hopeless
  BY Put, RefusedIsHopeless
\* What the second run meets, if the first one ended well
<1>3. ASSUME Len(log) = 1, log[1].verdict # "failed"
      PROVE  \/ log[1].was = Gone /\ \E f \in Given : "create" \notin f.sent
             \/ ~Raises /\ Met /\ log[1].now = obj
  BY <1>3 DEF TaskInv, Interval, Control, Between
<1>4. ASSUME ~Raises, Met PROVE Accepted(body, obj) /\ new = obj
  <2>1. CASE ~Is({"settings"})
    BY <1>4, <2>1, RerunStores
  <2>2. CASE Is({"settings"})
    <3>1. /\ new \in Objects
          /\ \A f \in Fields :
                IF wish[f] = None THEN new[f] = obj[f] ELSE new[f] = wish[f].to
          /\ \A f \in Fields : wish[f] # None => wish[f].to # Ghost
      BY <2>2, Put
    <3>2. \A f \in Fields : "update" \in f.sent
      BY <2>2, ResourceAssumption DEF IsResource, Is, Fields
    <3> HIDE DEF new
    <3>3. \A f \in Fields : new[f] = obj[f]
      BY <1>4, <3>1, <3>2 DEF Met, Given
    <3>4. Shaped(new) /\ Shaped(obj)
      BY <3>1, ObjectIsShaped
    <3>5. new = obj
      BY <3>3, <3>4 DEF Shaped
    <3> QED
      BY <1>2, <2>2, <3>5
  <2> QED
    BY <2>1, <2>2
<1>5. CASE Raises \/ ~Accepted(body, obj)
  <2>1. End(obj, "failed")
    BY <1>5 DEF Update
  <2>2. Promised([was |-> obj, now |-> obj, verdict |-> "failed"])
    BY <1>2, <1>5, RaisesIsHopeless, FailIsPromised
  <2>3. Len(log) = 1 => Quiet([was |-> obj, now |-> obj, verdict |-> "failed"])
    <3> HIDE DEF body, new
    <3> QED
      BY <1>3, <1>4, <1>5 DEF Quiet
  <2>4. Ends(obj, "failed")
    BY <2>2, <2>3 DEF Ends, Verdict
  <2> QED
    BY <1>1, <2>1, <2>4 DEF Verdict
<1>6. CASE ~Raises /\ Accepted(body, obj)
  <2>1. End(new, verdict)
    BY <1>6 DEF Update
  <2>2. Promised([was |-> obj, now |-> new, verdict |-> verdict])
    <3>1. CASE Is({"settings"})
      BY <3>1, PutIsPromised
    <3>2. CASE ~Is({"settings"})
      BY <1>6, <3>2, UpdateIsPromised
    <3> QED
      BY <3>1, <3>2
  <2>3. new \in Objects /\ new # Gone
    BY <1>6, Put, Patched, GoneIsNone
  <2>4. \A f \in Given :
            "update" \in f.sent =>
                \/ new[f] = wish[f].to /\ wish[f].to # Ghost
                \/ wish[f].to = Ghost /\ f.miss \notin {"raw", "zero"}
    <3>1. CASE Is({"settings"})
      BY <3>1, Put DEF Given
    <3>2. CASE ~Is({"settings"})
      BY <1>6, <3>2, Patched DEF Given
    <3> QED
      BY <3>1, <3>2
  <2>5. verdict \in {"changed", "unchanged"}
        /\ (verdict = "changed" => Is({"settings"}) \/ Changed(new))
    OBVIOUS
  <2>6. Len(log) = 1 => Quiet([was |-> obj, now |-> new, verdict |-> verdict])
    <3> SUFFICES ASSUME Len(log) = 1, log[1].verdict # "failed"
                 PROVE  Quiet([was |-> obj, now |-> new, verdict |-> verdict])
      BY DEF Quiet
    <3>1. CASE log[1].was = Gone /\ \E f \in Given : "create" \notin f.sent
      BY <3>1 DEF Quiet
    <3>2. CASE ~Raises /\ Met /\ log[1].now = obj
      <4>1. new = obj
        BY <1>4, <3>2
      <4>2. verdict = "changed" => \E f \in Given : Restless(f)
        <5> HIDE DEF new
        <5> QED
          BY <2>5, <3>2, <4>1, RerunIsRestless
      <4> HIDE DEF new, verdict
      <4> QED
        BY <2>5, <4>1, <4>2 DEF Quiet
    <3> QED
      BY <1>3, <3>1, <3>2
  <2> HIDE DEF new, verdict
  <2>7. Ends(new, verdict)
    BY <2>2, <2>3, <2>5, <2>6 DEF Ends, Verdict
  <2> QED
    BY <1>1, <1>6, <2>1, <2>3, <2>4, <2>5, <2>7 DEF Verdict
<1> QED
  BY <1>5, <1>6

-----------------------------------------------------------------------------
(* The theorems                                                            *)

\* The resource and the task stay, and so does what is said of a run that is over
LEMMA SteadyTask ==
    ASSUME UNCHANGED <<resource, wish>>
    PROVE  /\ Fields' = Fields /\ Given' = Given /\ Objects' = Objects /\ Tasks' = Tasks
           /\ Entry' = Entry
           /\ \A kinds : Is(kinds)' <=> Is(kinds)
           /\ Raises' <=> Raises
<1>1. Fields' = Fields
  BY DEF Fields
<1>2. Given' = Given
  BY <1>1 DEF Given
<1>3. Objects' = Objects
  BY DEF Objects, Fields, Barred
<1>4. Tasks' = Tasks
  BY DEF Tasks, Fields
<1>5. Entry' = Entry
  BY <1>3 DEF Entry
<1>6. \A kinds : Is(kinds)' <=> Is(kinds)
  BY DEF Is
<1>7. Raises' <=> Raises
  BY <1>2 DEF Raises, Clashes, Fields
<1> QED
  BY <1>1, <1>2, <1>3, <1>4, <1>5, <1>6, <1>7

LEMMA SteadyAsked ==
    ASSUME UNCHANGED <<resource, wish>>, \A i \in DOMAIN log' : Promised(log'[i])
    PROVE  AsAsked'
BY DEF AsAsked, Promised, Hopeless, Clashes, Pretended, Is, Given, Fields, Before, Barred, Overlooked,
       Ignored, Shown, Incomparable, Written

LEMMA SteadyQuiet ==
    ASSUME UNCHANGED <<resource, wish>>, log'[1] = log[1],
           Len(log') = 2 => Quiet(log'[2])
    PROVE  RerunIsQuiet'
BY DEF RerunIsQuiet, Quiet, Pretended, Is, Given, Fields, Restless

\* The end of a run
LEMMA EndStep ==
    ASSUME TaskInv, NEW now \in Objects \cup {Gone}, NEW verdict \in Verdict,
           End(now, verdict), UNCHANGED <<resource, wish>>, Ends(now, verdict), pc # "done",
           Interval'
    PROVE  TaskInv'
<1> DEFINE e == [was |-> obj, now |-> now, verdict |-> verdict]
<1> Subject /\ Control
  BY DEF TaskInv
<1>1. e \in Entry /\ log \in Seq(Entry) /\ Len(log) \in {0, 1}
  BY DEF Entry, Subject, Control
<1>2. obj' = now /\ log' = Append(log, e)
  BY DEF End
<1>3. Subject'
  BY <1>2, SteadyTask DEF Subject
<1>4. /\ log' \in Seq(Entry') /\ Len(log') = Len(log) + 1
      /\ log'[Len(log')] = e /\ (Len(log) = 1 => log'[1] = log[1])
  BY <1>1, <1>2, SteadyTask
<1>5. pc' = IF Len(log) = 0 THEN "find" ELSE "done"
  BY <1>1 DEF End
<1>6. Control'
  BY <1>1, <1>2, <1>4, <1>5 DEF Control
<1>7. AsAsked'
  <2>1. \A i \in DOMAIN log : Promised(log[i])
    BY AsAskedIsPromised DEF TaskInv
  <2>2. Promised(e)
    BY DEF Ends
  <2>3. \A i \in DOMAIN log' : log'[i] = e \/ (i \in DOMAIN log /\ log'[i] = log[i])
    BY <1>1, <1>2
  <2> HIDE DEF e
  <2>4. ASSUME NEW i \in DOMAIN log' PROVE Promised(log'[i])
    BY <2>1, <2>2, <2>3
  <2> QED
    BY <2>4, SteadyAsked
<1>8. RerunIsQuiet'
  <2>1. CASE Len(log) = 0
    BY <1>4, <2>1 DEF RerunIsQuiet
  <2>2. CASE Len(log) = 1
    <3>1. Quiet(e) /\ log'[2] = e /\ log'[1] = log[1]
      BY <1>4, <2>2 DEF Ends
    <3> HIDE DEF e
    <3> QED
      BY <3>1, SteadyQuiet
  <2> QED
    BY <1>1, <2>1, <2>2
<1> QED
  BY <1>3, <1>6, <1>7, <1>8 DEF TaskInv

\* Between the runs, as the end of the first one leaves it
LEMMA IntervalBegins ==
    ASSUME TaskInv, NEW now \in Objects \cup {Gone}, NEW verdict \in Verdict,
           End(now, verdict), pc # "done",
           Len(log) = 0 /\ verdict # "failed" =>
              \A was : was = obj => Between(was)'
    PROVE  Interval'
<1> DEFINE e == [was |-> obj, now |-> now, verdict |-> verdict]
<1>1. log \in Seq(Entry) /\ Len(log) \in {0, 1} /\ log' = Append(log, e) /\ e \in Entry
  BY DEF TaskInv, Subject, Control, End, Entry
<1>2. CASE Len(log) = 1
  <2>1. Len(log') = Len(log) + 1
    BY <1>1, AppendProperties
  <2> QED
    BY <1>2, <2>1 DEF Interval
<1>3. CASE Len(log) = 0
  <2>1. log'[1] = e
    BY <1>1, <1>3
  <2>2. log'[1].verdict = verdict /\ log'[1].was = obj
    BY <2>1
  <2>3. verdict # "failed" => Between(log[1].was)'
    BY <1>3, <2>2 DEF Between, Met, Outstanding
  <2> QED
    BY <2>2, <2>3 DEF Interval
<1> QED
  BY <1>1, <1>2, <1>3

\* Nothing but the control point changes
LEMMA GotoTaskInv ==
    ASSUME TaskInv, UNCHANGED <<obj, log, resource, wish>>, Control', pc # "done"
    PROVE  TaskInv'
<1>1. Subject'
  BY SteadyTask DEF TaskInv, Subject
<1>2. AsAsked'
  <2>1. \A i \in DOMAIN log : Promised(log[i])
    BY AsAskedIsPromised DEF TaskInv
  <2> QED
    BY <2>1, SteadyAsked
<1>3. RerunIsQuiet'
  BY SteadyQuiet DEF TaskInv, Control
<1>4. Interval'
  BY DEF TaskInv, Interval, Between, Met, Outstanding, Is, Raises, Clashes, Fields, Given
<1> QED
  BY <1>1, <1>2, <1>3, <1>4 DEF TaskInv

LEMMA FindTaskInv == ASSUME TaskInv, Find PROVE TaskInv'
<1> TaskInv /\ Control /\ Subject /\ pc = "find"
  BY DEF TaskInv, Find
<1>1. CASE /\ pc' \in {"create", "update"} /\ UNCHANGED <<obj, log, resource, wish>>
           /\ pc' = "create" => obj = Gone \/ (Is({"keyed"}) /\ Raises)
           /\ pc' = "update" => obj # Gone /\ ~(Is({"keyed"}) /\ Raises) /\ Outstanding # {}
  <2>1. Outstanding' = Outstanding
    BY <1>1 DEF Outstanding, Is, Given, Fields
  <2>2. Control'
    BY <1>1, <2>1, SteadyTask DEF Control
  <2> QED
    BY <1>1, <2>2, GotoTaskInv
<1>2. CASE /\ End(obj, "unchanged") /\ UNCHANGED <<resource, wish>>
           /\ Ends(obj, "unchanged") /\ Between(obj)
  <2>1. obj \in Objects \cup {Gone} /\ "unchanged" \in Verdict /\ obj' = obj
    BY <1>2 DEF Subject, Verdict, End
  <2>2. \A was : was = obj => Between(was)'
    BY <1>2, <2>1 DEF Between, Met, Outstanding, Is, Raises, Clashes, Fields, Given
  <2>3. Interval'
    BY <1>2, <2>1, <2>2, IntervalBegins
  <2> QED
    BY <1>2, <2>1, <2>3, EndStep
<1> QED
  BY <1>1, <1>2, FindStep

LEMMA CreateTaskInv == ASSUME TaskInv, Create PROVE TaskInv'
<1> TaskInv /\ Control /\ Subject /\ pc = "create" /\ resource \in Resource /\ wish \in Tasks
  BY DEF TaskInv, Subject, Create
<1>1. PICK now \in Objects \cup {Gone}, verdict \in Verdict :
          /\ End(now, verdict) /\ UNCHANGED <<resource, wish>>
          /\ Ends(now, verdict)
          /\ verdict # "failed" /\ now # Gone =>
                ~Raises /\ obj = Gone /\ Accepted(Fresh, Blank) /\ now = Stored(Fresh, Blank)
          /\ verdict # "failed" /\ now = Gone => Is({"given"})
  BY CreateStep
<1>2. ASSUME verdict # "failed", NEW was, was = obj PROVE Between(was)'
  <2>1. obj' = now
    BY <1>1 DEF End
  <2>2. CASE now = Gone
    BY <1>1, <1>2, <2>1, <2>2, SteadyTask DEF Between
  <2>3. CASE now # Gone
    <3>1. ~Raises /\ was = Gone
      BY <1>1, <1>2, <2>3
    <3>2. \A f \in Fields :
            wish[f] # None /\ "create" \in f.sent =>
                \/ now[f] = wish[f].to /\ wish[f].to # Ghost
                \/ wish[f].to = Ghost /\ f.miss \notin {"raw", "zero"}
      BY <1>1, <1>2, <2>3, Posted
    <3>3. CASE \E f \in Given : "create" \notin f.sent
      BY <1>1, <2>1, <2>3, <3>1, <3>3, SteadyTask DEF Between
    <3>4. CASE \A f \in Given : "create" \in f.sent
      <4>1. Met'
        BY <1>1, <2>1, <3>2, <3>4 DEF Met, Given, Fields
      <4> QED
        BY <1>1, <2>1, <2>3, <3>1, <4>1, SteadyTask DEF Between
    <3> QED
      BY <3>3, <3>4
  <2> QED
    BY <2>2, <2>3
<1>3. Interval'
  BY <1>1, <1>2, IntervalBegins
<1> QED
  BY <1>1, <1>3, EndStep

LEMMA UpdateTaskInv == ASSUME TaskInv, Update PROVE TaskInv'
<1> TaskInv /\ Control /\ Subject /\ pc = "update"
  BY DEF TaskInv, Update
<1>1. PICK now \in Objects, verdict \in Verdict :
          /\ End(now, verdict) /\ UNCHANGED <<resource, wish>>
          /\ Ends(now, verdict) /\ now # Gone
          /\ verdict # "failed" =>
                /\ ~Raises
                /\ \A f \in Given :
                    "update" \in f.sent =>
                        \/ now[f] = wish[f].to /\ wish[f].to # Ghost
                        \/ wish[f].to = Ghost /\ f.miss \notin {"raw", "zero"}
  BY UpdateStep
<1>2. ASSUME verdict # "failed", NEW was, was = obj PROVE Between(was)'
  <2>1. obj' = now
    BY <1>1 DEF End
  <2>2. Met'
    BY <1>1, <1>2, <2>1 DEF Met, Given, Fields
  <2> QED
    BY <1>1, <1>2, <2>1, <2>2, SteadyTask DEF Between
<1>3. Interval'
  BY <1>1, <1>2, IntervalBegins
<1> QED
  BY <1>1, <1>3, EndStep

LEMMA NextTaskInv == TaskInv /\ [Next]_vars => TaskInv'
<1> SUFFICES ASSUME TaskInv, [Next]_vars PROVE TaskInv'
  OBVIOUS
<1>1. CASE UNCHANGED vars
  <2>1. Control'
    BY <1>1, SteadyTask DEF TaskInv, Control, vars, Outstanding, Is, Given, Fields
  <2>2. CASE pc # "done"
    BY <1>1, <2>1, <2>2, GotoTaskInv DEF vars
  <2>3. CASE pc = "done"
    <3>1. Subject' /\ Interval'
      BY <1>1, <2>3, SteadyTask DEF TaskInv, Subject, Control, Interval, vars
    <3>2. \A i \in DOMAIN log : Promised(log[i])
      BY AsAskedIsPromised DEF TaskInv
    <3>3. AsAsked'
      BY <1>1, <3>2, SteadyAsked DEF vars
    <3>4. Len(log) = 2 => Quiet(log[2])
      BY DEF TaskInv, RerunIsQuiet, Quiet
    <3>5. RerunIsQuiet'
      BY <1>1, <3>4, SteadyQuiet DEF vars
    <3> QED
      BY <2>1, <3>1, <3>3, <3>5 DEF TaskInv
  <2> QED
    BY <2>2, <2>3
<1> QED
  BY <1>1, FindTaskInv, CreateTaskInv, UpdateTaskInv DEF Next

LEMMA TaskInvariant == Spec => []TaskInv
BY InitTaskInv, NextTaskInv, PTL DEF Spec

\* Every object found or left has values its fields can hold, and none where another
\* field bars it (_MAP_TYPE_EXCLUDED_FIELDS).
THEOREM FieldTypesHold == Spec => []TypeOK
<1>1. TaskInv => TypeOK
  <2> SUFFICES ASSUME TaskInv PROVE TypeOK
    OBVIOUS
  <2>1. Subject /\ Control
    BY DEF TaskInv
  <2>2. \A i \in DOMAIN log : log[i] \in Entry
    BY <2>1 DEF Control
  <2>3. resource.kind \in Kind
    BY <2>1, ResourceAssumption DEF Subject, IsResource, Kind
  <2> QED
    BY <2>1, <2>2, <2>3 DEF TypeOK, Subject, Control, Entry
<1> QED
  BY <1>1, TaskInvariant, PTL

\* Whatever fields a resource has, a run that ends well leaves each as the task asks or
\* as it was, says "unchanged" only of an object it left alone, and fails only for what
\* no run could do (_should_update, _update_resource, the transform mixins).
THEOREM RunsDoAsAsked == Spec => []AsAsked
<1>1. TaskInv => AsAsked
  BY DEF TaskInv
<1> QED
  BY <1>1, TaskInvariant, PTL

\* Whatever fields a resource has, the second run of a task that ended well ends well
\* and changes nothing, and says so unless a field is one that no run finds as the task
\* gives it (_should_update, _update_resource, from_api).
THEOREM RerunsAreQuiet == Spec => []RerunIsQuiet
<1>1. TaskInv => RerunIsQuiet
  BY DEF TaskInv
<1> QED
  BY <1>1, TaskInvariant, PTL
=============================================================================
