------------------------------ MODULE LinkTasks ------------------------------
(***************************************************************************)
(* Tasks that make one set of links as it should be, item by item: the     *)
(* role assignments of a user or a team, the Platform Auditor role of a    *)
(* user, the associations of a job template or an inventory source; and    *)
(* the lookup gateway_api and job_list, which list them.  One manager      *)
(* serves them all and resolves the names they use through its cache; every *)
(* request is a step of its own, and other clients of the gateway may write *)
(* between two of them.                                                    *)
(*                                                                         *)
(* role_user_assignment lets no failed lookup stop it.  What it could not  *)
(* resolve it leaves out of the filters of a find, which then meets the    *)
(* assignments of others as well; a name that is no organization is taken  *)
(* for a team's, whose id is that of another organization, if of any.      *)
(***************************************************************************)
EXTENDS Naturals, FiniteSets

CONSTANTS
    Task,
    Name,        \* names of the things that may be linked
    Id,          \* their ids; all endpoints page by id
    None,        \* no id
    Auditor,     \* the name of the auditor role
    Plays,       \* what the tasks may be asked to do: see Job
    Links,       \* which links there may be in the beginning
    Strangers,   \* which assignments of other users, or of other roles, there may be then
    Twin,        \* the id of the team, or organization, that has the name, too
    Lookups,     \* which ids the names may have in the beginning
    Faults,      \* what may happen to a request: see FaultKinds
    PageSize,    \* of the gateway
    MaxObjects,  \* max_objects of search_api, 100000 in the code
    MaxForeign   \* bound on the writes of other clients

\* Lists of role assignments, the auditor flag, the plugins that call manage_associations, and
\* searches for all objects or, with expect_one, for the only one
Kind == {"grant", "revoke", "exists", "auditor", "template", "source", "list", "one"}
Lists == {"grant", "revoke", "exists"}
Syncs == {"template", "source"}
Queries == {"list", "one"}
FaultKinds == {"refused", "lost", "cyclic"}

\* typed: an assignment of a team, whose objects are given by name and type.
\* whom: the name of the role or the user of other assignments, unless both are ids
JobRecord ==
    [kind : Kind, want : SUBSET Name, check : BOOLEAN, typed : BOOLEAN, whom : Name \cup {None}]

\* An empty list of objects takes the way of a single one: see ResourceTask
Job ==
    {j \in JobRecord :
        /\ j.kind \in Lists => j.want # {}
        /\ j.typed => j.kind \in Lists
        /\ j.whom \notin j.want}

ASSUME LinkAssumption ==
    /\ Id \subseteq Nat /\ IsFiniteSet(Id)
    /\ None \notin Id
    /\ Auditor \in Name
    /\ Plays \subseteq [Task -> Job]
    /\ Links \subseteq SUBSET Id
    /\ Strangers \subseteq SUBSET Id
    /\ Twin \in [Name -> Id \cup {None}]
    /\ Lookups \subseteq [Name -> Id \cup {None}]
    /\ Faults \subseteq FaultKinds
    /\ PageSize \in Nat \ {0}
    /\ MaxObjects \in Nat
    /\ MaxForeign \in Nat

VARIABLES
    id,       \* gateway: which thing has the name
    alive,    \* gateway: the things that exist
    links,    \* gateway: the links
    others,   \* gateway: the things with an assignment of another user or role
    foreign,  \* how many writes of other clients are left
    cache,    \* manager: PlatformService.cache
    job,      \* what each task is asked to do
    pc,       \* where it is
    todo,     \* names it has not yet seen to
    wanted,   \* ids it wants linked, once resolved
    seen,     \* ids it believes linked
    page,     \* the next page it reads
    read,     \* how many objects it has read
    did,      \* has it changed a link, by its own reckoning?
    report,   \* "failed" and "changed" of its result
    before,   \* history: the links when it began
    after,    \* history: the links when it ended
    met,      \* history: tasks one of whose requests went wrong
    crossed,  \* history: tasks during which somebody else wrote
    stale     \* history: tasks that used an unknown name, an id that has lost its name, or
              \* that went on although they could not resolve one

gatewayVars == <<id, alive, links, others, foreign>>
localVars == <<todo, wanted, seen, page, read, did>>
historyVars == <<before, after, met, crossed, stale>>
vars == <<gatewayVars, cache, job, pc, localVars, report, historyVars>>

TypeOK ==
    /\ id \in [Name -> Id \cup {None}]
    /\ alive \subseteq Id
    /\ links \subseteq alive
    /\ others \subseteq alive
    /\ foreign \in 0 .. MaxForeign
    /\ cache \in [Name -> Id \cup {None}]
    /\ job \in [Task -> Job]
    /\ pc \in [Task -> {"new", "crud", "find", "create", "delete", "evict", "name", "resolve",
                     "read", "write", "answer", "done"}]
    /\ todo \in [Task -> SUBSET Name]
    /\ wanted \in [Task -> SUBSET Id]
    /\ seen \in [Task -> SUBSET Id]
    /\ page \in [Task -> Nat \ {0}]
    /\ read \in [Task -> 0 .. MaxObjects + PageSize]
    /\ did \in [Task -> BOOLEAN]
    /\ report \in [Task -> [failed : BOOLEAN, changed : BOOLEAN]]
    /\ before \in [Task -> SUBSET Id]
    /\ after \in [Task -> SUBSET Id]
    /\ met \subseteq Task
    /\ crossed \subseteq Task
    /\ stale \subseteq Task

\* The manager is new
Init ==
    /\ id \in Lookups
    /\ alive = {id[n] : n \in Name} \ {None}
    /\ links \in Links /\ links \subseteq alive
    /\ others \in Strangers /\ others \subseteq alive
    /\ foreign = MaxForeign
    /\ cache = [n \in Name |-> None]
    /\ job \in Plays
    /\ pc = [t \in Task |-> "new"]
    /\ todo = [t \in Task |-> {}]
    /\ wanted = [t \in Task |-> {}]
    /\ seen = [t \in Task |-> {}]
    /\ page = [t \in Task |-> 1]
    /\ read = [t \in Task |-> 0]
    /\ did = [t \in Task |-> FALSE]
    /\ report = [t \in Task |-> [failed |-> FALSE, changed |-> FALSE]]
    /\ before = [t \in Task |-> {}]
    /\ after = [t \in Task |-> {}]
    /\ met = {}
    /\ crossed = {}
    /\ stale = {}

Running == {t \in Task : pc[t] \notin {"new", "done"}}
Is(t, kinds) == job[t].kind \in kinds
At(t, point) == pc' = [pc EXCEPT ![t] = point]

\* The action plugin returns
Ends(t, failed, changed) ==
    /\ At(t, "done")
    /\ report' = [report EXCEPT ![t] = [failed |-> failed, changed |-> changed]]

\* What the base class reported, and whether a link was changed
EndsWell(t, linked) == Ends(t, FALSE, report[t].changed \/ linked)

\* An exception ends the task.  Only job_template and user keep what the base class reported.
Fails(t) == Ends(t, TRUE, Is(t, {"template", "auditor"}) /\ report[t].changed)

Goes(t, point) == At(t, point) /\ UNCHANGED report

Met(t) == met' = met \cup {t}

\* Mutant of Does: changes are not told
DoesNot(t) == UNCHANGED did

Does(t) == did' = [did EXCEPT ![t] = TRUE]

-----------------------------------------------------------------------------
(* Up to the first link                                                    *)

\* How an object of a list of assignments begins
First(t) == IF job[t].typed THEN "name" ELSE "find"

Begin(t) ==
    /\ pc[t] = "new"
    /\ before' = [before EXCEPT ![t] = links]
    /\ todo' = [todo EXCEPT ![t] = IF Is(t, {"auditor"}) THEN {Auditor} ELSE job[t].want]
    /\ Goes(t, IF Is(t, Syncs \cup {"auditor"}) THEN "crud"
               ELSE IF Is(t, Queries) THEN "read" ELSE First(t))
    /\ UNCHANGED <<gatewayVars, cache, job, wanted, seen, page, read, did, met, stale>>

\* Mutant of OnlyReports: check mode is left to the base class
OnlyReportsNone(t, changed) == FALSE

\* In check mode the plugins stop after the base class, and user does if that would have
\* changed something: its result has no id then.  The lists of assignments never do.
OnlyReports(t, changed) == job[t].check /\ (Is(t, Syncs) \/ (Is(t, {"auditor"}) /\ changed))

\* BaseResourceActionPlugin.run on the template, source or user itself: see ResourceTask
Crud(t) ==
    /\ pc[t] = "crud"
    /\ \/ /\ "refused" \in Faults
          /\ Fails(t)
          /\ Met(t)
       \/ /\ \E changed \in BOOLEAN :
              IF OnlyReports(t, changed)
              THEN Ends(t, FALSE, Is(t, {"template"}) \/ changed)
              ELSE /\ At(t, IF Is(t, Syncs) THEN "resolve" ELSE "find")
                   /\ report' = [report EXCEPT ![t].changed = changed]
          /\ UNCHANGED met
    /\ UNCHANGED <<gatewayVars, cache, job, localVars, before, stale>>

-----------------------------------------------------------------------------
(* Names                                                                   *)

\* lookup_resource_id: nothing ever leaves the cache
Known(n) == IF cache[n] # None THEN cache[n] ELSE id[n]

Remember(names) == cache' = [n \in Name |-> IF n \in names THEN Known(n) ELSE cache[n]]

Uses(t, names) ==
    stale' = IF \E n \in names : Known(n) # id[n] \/ id[n] = None THEN stale \cup {t} ELSE stale

\* The object a list of assignments has come to
Current(t) == CHOOSE n \in todo[t] : TRUE

\* manage_associations begins with _lookup_resource_ids
Resolve(t) ==
    /\ pc[t] = "resolve"
    /\ \/ /\ Remember(job[t].want)
          /\ IF \A n \in job[t].want : Known(n) # None
             THEN /\ wanted' = [wanted EXCEPT ![t] = {Known(n) : n \in job[t].want}]
                  /\ Uses(t, job[t].want)
                  /\ Goes(t, "read")
             ELSE Fails(t) /\ Uses(t, job[t].want) /\ UNCHANGED wanted
          /\ UNCHANGED met
       \/ /\ "refused" \in Faults
          /\ \E n \in job[t].want : cache[n] = None
          /\ Fails(t)
          /\ Met(t)
          /\ UNCHANGED <<cache, wanted, stale>>
    /\ UNCHANGED <<gatewayVars, job, todo, seen, page, read, did, before>>

\* An object with a type is resolved by a call of its own, whose failure ends the task
Identify(t) ==
    /\ pc[t] = "name"
    /\ \/ /\ Remember({Current(t)}) /\ Uses(t, {Current(t)})
          /\ IF Known(Current(t)) # None
             THEN Goes(t, "find") /\ wanted' = [wanted EXCEPT ![t] = {Known(Current(t))}]
             ELSE Fails(t) /\ UNCHANGED wanted
          /\ UNCHANGED met
       \/ /\ "refused" \in Faults
          /\ cache[Current(t)] = None
          /\ Fails(t)
          /\ Met(t)
          /\ UNCHANGED <<cache, wanted, stale>>
    /\ UNCHANGED <<gatewayVars, job, todo, seen, page, read, did, before>>

\* The object an assignment is about: resolved before, or anew in every find and create
Target(t) == IF job[t].typed THEN CHOOSE i \in wanted[t] : TRUE ELSE Known(Current(t))

\* find asks for assignments with the ids of the object, the role and the user
Assigned(t) == Target(t) \in links

\* The names that from_ansible_data looks up
Named(t) == {Current(t)} \cup ({job[t].whom} \ {None})

Resolves(t) ==
    IF job[t].typed THEN UNCHANGED <<cache, stale>>
    ELSE Remember(Named(t)) /\ Uses(t, Named(t))

\* A user's assignment: what is not found out is left out
Lenient(t) == Is(t, Lists) /\ ~job[t].typed

Clear(t) == Lenient(t) => \A n \in Named(t) : Known(n) # None

\* _resolve_fk swallows the failed lookup of some names
Blurs(t, lost) ==
    /\ Lenient(t)
    /\ lost # {}
    /\ \A n \in Named(t) : Known(n) = None => n \in lost
    /\ \A n \in lost : Known(n) = None \/ (cache[n] = None /\ "refused" \in Faults)
    /\ Remember(Named(t) \ lost)
    /\ stale' = stale \cup {t}
    /\ met' = IF \A n \in lost : Known(n) = None THEN met ELSE met \cup {t}

\* Organizations are tried first, then teams; or the other way round
Aim(t, lost) == IF Current(t) \in lost THEN Twin[Current(t)] ELSE Known(Current(t))

-----------------------------------------------------------------------------
(* Associations                                                            *)

\* The gateway answers a list page by page, in the order of the ids
Place(i) == Cardinality({j \in links : j < i})
OnPage(p) == {i \in links : Place(i) \in (p - 1) * PageSize .. p * PageSize - 1}
HasNext(p) == p * PageSize < Cardinality(links)

\* Mutant of Follows: the first page is all
FollowsNot(t) == FALSE

\* Mutant of Counted: every page is compared on its own
CountedAlone(t, got) == Cardinality(got)

\* Objects read so far
Counted(t, got) == read[t] + Cardinality(got)

\* Mutant of TooMany: only the count of the first page is compared
TooManyFirst(t, got) == page[t] = 1 /\ read[t] = 0 /\ Cardinality(links) > MaxObjects

\* Does _collect_pages follow the page's link to the next?
Follows(t) == HasNext(page[t])

\* search_api compares the count it is told, then _collect_pages what it has got
TooMany(t, got) ==
    IF read[t] = 0 /\ page[t] = 1 THEN Cardinality(links) > MaxObjects
    ELSE Counted(t, got) > MaxObjects

\* One page.  A gateway whose last page names the first one again is endured up to the cap.
ReadPage(t) ==
    /\ pc[t] = "read"
    /\ \/ /\ LET got == OnPage(page[t]) IN
             /\ seen' = [seen EXCEPT ![t] = @ \cup got]
             /\ read' = [read EXCEPT ![t] = Counted(t, got)]
             /\ \/ TooMany(t, got) /\ Fails(t) /\ UNCHANGED <<page, met>>
                \/ /\ ~TooMany(t, got) /\ Follows(t)
                   /\ page' = [page EXCEPT ![t] = @ + 1]
                   /\ Goes(t, "read")
                   /\ UNCHANGED met
                \/ /\ ~TooMany(t, got) /\ ~Follows(t)
                   /\ Goes(t, IF Is(t, Queries) THEN "answer" ELSE "write")
                   /\ UNCHANGED <<page, met>>
                \/ /\ ~TooMany(t, got) /\ ~Follows(t)
                   /\ "cyclic" \in Faults /\ got # {}
                   /\ page' = [page EXCEPT ![t] = 1]
                   /\ Goes(t, "read")
                   /\ Met(t)
       \/ /\ "refused" \in Faults
          /\ Fails(t)
          /\ Met(t)
          /\ UNCHANGED <<seen, page, read>>
    /\ UNCHANGED <<gatewayVars, cache, job, todo, wanted, did, before, stale>>

\* A POST for one id.  The gateway refuses things that do not exist any more.
Post(t, i, outcome) ==
    \/ /\ i \in alive
       /\ links' = outcome
       /\ seen' = [seen EXCEPT ![t] = IF i \in outcome THEN @ \cup {i} ELSE @ \ {i}]
       /\ Does(t)
       /\ Goes(t, "write")
       /\ UNCHANGED met
    \/ /\ i \notin alive \/ "refused" \in Faults
       /\ Fails(t)
       /\ met' = IF i \in alive THEN met \cup {t} ELSE met
       /\ UNCHANGED <<links, seen, did>>
    \/ /\ "lost" \in Faults /\ i \in alive
       /\ links' = outcome
       /\ Fails(t)
       /\ Met(t)
       /\ UNCHANGED <<seen, did>>

Associate(t) ==
    /\ pc[t] = "write"
    /\ \E i \in wanted[t] \ seen[t] : Post(t, i, links \cup {i})
    /\ UNCHANGED <<id, alive, others, foreign, cache, job, todo, wanted, page, read, before, stale>>

Disassociate(t) ==
    /\ pc[t] = "write"
    /\ wanted[t] \subseteq seen[t]
    /\ \E i \in seen[t] \ wanted[t] : Post(t, i, links \ {i})
    /\ UNCHANGED <<id, alive, others, foreign, cache, job, todo, wanted, page, read, before, stale>>

Reconciled(t) ==
    /\ pc[t] = "write"
    /\ seen[t] = wanted[t]
    /\ EndsWell(t, did[t])
    /\ UNCHANGED <<gatewayVars, cache, job, localVars, before, met, stale>>

\* A search gives what it has read; with expect_one it fails unless that is one object
Answer(t) ==
    /\ pc[t] = "answer"
    /\ IF Is(t, {"one"}) /\ read[t] # 1 THEN Fails(t) ELSE EndsWell(t, FALSE)
    /\ UNCHANGED <<gatewayVars, cache, job, localVars, before, met, stale>>

-----------------------------------------------------------------------------
(* Role assignments, one after the other                                   *)

\* On to the next object; "exists" wants at least one
GoesOn(t, linked, found) ==
    LET rest == todo[t] \ {Current(t)}
        fruitless == Is(t, {"exists"}) /\ found = {} IN
    /\ todo' = [todo EXCEPT ![t] = rest]
    /\ \/ rest # {} /\ Goes(t, First(t))
       \/ rest = {} /\ fruitless /\ Fails(t)
       \/ rest = {} /\ ~fruitless /\ EndsWell(t, linked)

\* What follows an assignment that was found ...
Found(t) ==
    IF Is(t, {"revoke"}) \/ (Is(t, {"auditor"}) /\ job[t].want = {})
    THEN Goes(t, "delete") /\ UNCHANGED todo ELSE GoesOn(t, did[t], {Current(t)})

\* ... and one that was not
NotFound(t) ==
    IF Is(t, {"grant"}) \/ (Is(t, {"auditor"}) /\ job[t].want # {})
    THEN Goes(t, "create") /\ UNCHANGED todo ELSE GoesOn(t, did[t], seen[t])

FindHit(t) ==
    /\ pc[t] = "find"
    /\ Clear(t)
    /\ Assigned(t)
    /\ Resolves(t)
    /\ seen' = [seen EXCEPT ![t] = @ \cup {Target(t)}]
    /\ wanted' = [wanted EXCEPT ![t] = {Target(t)}]
    /\ Found(t)
    /\ UNCHANGED <<gatewayVars, job, page, read, did, before, met>>

\* "Not found" is an exception like any other for the lists, a ValueError for the auditor,
\* whose role must be known
FindMiss(t) ==
    /\ pc[t] = "find"
    /\ Clear(t)
    /\ ~Assigned(t)
    /\ Resolves(t)
    /\ IF Is(t, {"auditor"}) /\ Target(t) = None
       THEN Fails(t) /\ UNCHANGED todo
       ELSE NotFound(t)
    /\ UNCHANGED <<gatewayVars, job, wanted, seen, page, read, did, before, met>>

\* Without an answer the lists go on as if there were no assignment
FindFails(t) ==
    /\ pc[t] = "find"
    /\ "refused" \in Faults
    /\ IF Is(t, {"auditor"}) THEN Fails(t) /\ UNCHANGED todo ELSE NotFound(t)
    /\ Met(t)
    /\ UNCHANGED <<gatewayVars, cache, job, wanted, seen, page, read, did, before, stale>>

\* A find without some of its filters takes the first assignment of a longer list, be it
\* somebody else's.  Without any id for the object it is an exception.
FindBlurred(t) ==
    /\ pc[t] = "find"
    /\ \E lost \in SUBSET Named(t) :
        LET i == Aim(t, lost)
            anybodys == job[t].whom \in lost /\ i \in others
        IN  /\ Blurs(t, lost)
            /\ \/ /\ i \in links
                  /\ Found(t)
                  /\ seen' = [seen EXCEPT ![t] = @ \cup {i}]
                  /\ wanted' = [wanted EXCEPT ![t] = {i}]
               \/ /\ anybodys
                  /\ IF Is(t, {"revoke"}) THEN Goes(t, "evict") /\ UNCHANGED todo ELSE Found(t)
                  /\ seen' = [seen EXCEPT ![t] = @ \cup {i}]
                  /\ wanted' = [wanted EXCEPT ![t] = {i}]
               \/ /\ i \notin links /\ ~anybodys
                  /\ NotFound(t)
                  /\ UNCHANGED <<wanted, seen>>
    /\ UNCHANGED <<gatewayVars, job, page, read, did, before>>

\* The gateway may refuse an assignment that exists, or accept it without effect
Create(t) ==
    LET i == Target(t) IN
    /\ pc[t] = "create"
    /\ Clear(t)
    /\ Resolves(t)
    /\ \/ /\ i \in alive
          /\ links' = links \cup {i}
          /\ Does(t)
          /\ GoesOn(t, TRUE, seen[t])
          /\ UNCHANGED met
       \/ /\ i \notin alive \ links \/ "refused" \in Faults
          /\ Fails(t)
          /\ met' = IF i \in alive \ links THEN met \cup {t} ELSE met
          /\ UNCHANGED <<links, did, todo>>
       \/ /\ "lost" \in Faults /\ i \in alive
          /\ links' = links \cup {i}
          /\ Fails(t)
          /\ Met(t)
          /\ UNCHANGED <<did, todo>>
    /\ UNCHANGED <<id, alive, others, foreign, job, wanted, seen, page, read, before>>

\* An assignment needs a role, a user and an object, but any organization will do
CreateBlurred(t) ==
    /\ pc[t] = "create"
    /\ \E lost \in SUBSET Named(t) :
        LET i == Aim(t, lost)
        IN  /\ Blurs(t, lost)
            /\ \/ /\ job[t].whom \notin lost /\ i \in alive
                  /\ links' = links \cup {i}
                  /\ Does(t)
                  /\ GoesOn(t, TRUE, seen[t])
               \/ /\ Fails(t)
                  /\ UNCHANGED <<links, did, todo>>
    /\ UNCHANGED <<id, alive, others, foreign, job, wanted, seen, page, read, before>>

\* An exception of the DELETE is swallowed by the lists, reported by the auditor
DeleteFails(t) ==
    IF Is(t, {"auditor"}) THEN Fails(t) /\ UNCHANGED todo ELSE GoesOn(t, did[t], seen[t])

Delete(t) ==
    /\ pc[t] = "delete"
    /\ \/ /\ wanted[t] \subseteq links
          /\ links' = links \ wanted[t]
          /\ Does(t)
          /\ GoesOn(t, TRUE, seen[t])
          /\ UNCHANGED met
       \/ /\ ~(wanted[t] \subseteq links)
          /\ DeleteFails(t)
          /\ UNCHANGED <<links, did, met>>
       \/ /\ "refused" \in Faults
          /\ DeleteFails(t)
          /\ Met(t)
          /\ UNCHANGED <<links, did>>
       \/ /\ "lost" \in Faults
          /\ links' = links \ wanted[t]
          /\ DeleteFails(t)
          /\ Met(t)
          /\ UNCHANGED did
    /\ UNCHANGED <<id, alive, others, foreign, cache, job, wanted, seen, page, read, before, stale>>

\* The DELETE of somebody else's assignment
Evict(t) ==
    /\ pc[t] = "evict"
    /\ \/ /\ wanted[t] \subseteq others
          /\ others' = others \ wanted[t]
          /\ Does(t)
          /\ GoesOn(t, TRUE, seen[t])
          /\ UNCHANGED met
       \/ /\ ~(wanted[t] \subseteq others)
          /\ DeleteFails(t)
          /\ UNCHANGED <<others, did, met>>
       \/ /\ "refused" \in Faults
          /\ DeleteFails(t)
          /\ Met(t)
          /\ UNCHANGED <<others, did>>
       \/ /\ "lost" \in Faults
          /\ others' = others \ wanted[t]
          /\ DeleteFails(t)
          /\ Met(t)
          /\ UNCHANGED did
    /\ UNCHANGED <<id, alive, links, foreign, cache, job, wanted, seen, page, read, before, stale>>

-----------------------------------------------------------------------------
(* Other clients                                                           *)

\* Somebody links or unlinks a thing
ForeignLink ==
    /\ \E i \in alive : links' = IF i \in links THEN links \ {i} ELSE links \cup {i}
    /\ UNCHANGED <<id, alive, others>>

\* Somebody gives a name to another, new thing; the old one is deleted, or renamed
ForeignRename ==
    \E n \in Name, i \in Id \ alive :
        /\ id' = [id EXCEPT ![n] = i]
        /\ alive' \in {alive \cup {i}, (alive \cup {i}) \ {id[n]}}
        /\ links' = links \cap alive'
        /\ others' = others \cap alive'

ForeignWrite ==
    /\ foreign > 0
    /\ foreign' = foreign - 1
    /\ ForeignLink \/ ForeignRename
    /\ crossed' = crossed \cup Running
    /\ UNCHANGED <<cache, job, pc, localVars, report, before, after, met, stale>>

Act(t) ==
    \/ Begin(t) \/ Crud(t) \/ Resolve(t) \/ Identify(t) \/ ReadPage(t)
    \/ Associate(t) \/ Disassociate(t) \/ Reconciled(t) \/ Answer(t)
    \/ FindHit(t) \/ FindMiss(t) \/ FindFails(t) \/ FindBlurred(t)
    \/ Create(t) \/ CreateBlurred(t) \/ Delete(t) \/ Evict(t)

Step(t) ==
    /\ Act(t)
    /\ after' = IF pc'[t] = "done" THEN [after EXCEPT ![t] = links'] ELSE after
    /\ crossed' = IF links' = links THEN crossed ELSE crossed \cup (Running \ {t})

Finished == \A t \in Task : pc[t] = "done"

Next == (\E t \in Task : Step(t)) \/ ForeignWrite \/ (Finished /\ UNCHANGED vars)

\* Every request is answered or times out
Spec == Init /\ [][Next]_vars /\ \A t \in Task : WF_vars(Step(t))

-----------------------------------------------------------------------------
(* Properties                                                              *)

\* The ids of the names a task was given, as the manager knows them
Wish(t) == {Known(n) : n \in job[t].want}
Undisturbed(t) == pc[t] = "done" /\ t \notin crossed /\ t \notin stale

\* A task that ends without failure, while nobody else wrote, with the names the manager
\* knows still valid, and that resolved all it went on with, has made the links as it was
\* asked, even if some of its requests went wrong (manage_associations and the loops of the
\* plugins), or has listed them all.  Revoking is the exception: its errors are swallowed.
LinkedAsAsked ==
    \A t \in Task :
        Undisturbed(t) /\ ~report[t].failed =>
            /\ Is(t, Syncs) /\ ~job[t].check => after[t] = Wish(t)
            /\ Is(t, Queries) => after[t] = seen[t]
            /\ Is(t, {"one"}) => Cardinality(after[t]) = 1
            /\ Is(t, {"grant"}) => Wish(t) \subseteq after[t]
            /\ Is(t, {"revoke"}) /\ t \notin met => Wish(t) \cap after[t] = {}

\* Undisturbed tasks, which have resolved all they went on with, tell truly whether they
\* changed a link.
ChangeTold ==
    \A t \in Task :
        /\ Undisturbed(t) /\ t \notin met /\ ~report[t].failed /\ ~job[t].check
        => did[t] = (after[t] # before[t])

\* Whatever happens at the same time and however the pages shift under their reads, syncs
\* that want the same leave the links they want, if they end without failure and nobody
\* else writes.
SameWishConverges ==
    \A t \in Task :
        /\ Finished /\ foreign = MaxForeign
        /\ \A u \in Task : Is(u, Syncs) /\ job[u].want = job[t].want /\ ~job[u].check /\ ~report[u].failed
        => links = Wish(t)

\* In check mode job_template and inventory_source write nothing.
SyncsRespectCheckMode ==
    [][\A t \in Task : Is(t, Syncs) /\ job[t].check /\ Step(t) => links' = links]_vars

\* No task takes away the assignment of another user or another role: an assignment is
\* identified by role, user and object (get_find_list_query_params, _find_resource).
OthersKept == [][\A t \in Task : Step(t) => others' = others]_vars

\* Every task ends, also if a page names an earlier one as the next.
TasksEnd == \A t \in Task : <>(pc[t] = "done")

=============================================================================
