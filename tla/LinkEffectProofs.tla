--------------------------- MODULE LinkEffectProofs ---------------------------
(* Theorems about the effect of the tasks of LinkTasks: syncs that want    *)
(* the same converge, and tasks tell truly whether they changed a link.    *)
EXTENDS LinkProofs

-----------------------------------------------------------------------------
(* Convergence                                                             *)

\* All tasks are syncs that want what t wants, nobody else writes, and none has failed
Alike(t) ==
    /\ foreign = MaxForeign
    /\ \A u \in Task : Is(u, Syncs) /\ job[u].want = job[t].want /\ ~job[u].check
    /\ \A u \in Task : ~(pc[u] = "done" /\ report[u].failed)

\* Nobody has come to write
Unwritten == crossed = {} /\ \A u \in Task : pc[u] \notin {"write", "done"}

\* A task in its writes knows of all links but wished ones, and no wished link is ever undone
Leads(l, wish) ==
    /\ pc[l] = "write"
    /\ links \ wish \subseteq seen[l]
    /\ seen[l] \cap wish \subseteq links

\* The first task to write has read links that nobody changed; it leads until it ends, and
\* then the wish is fulfilled.
Converging(t) ==
    Alike(t) => \/ Unwritten
                \/ \E l \in Task : Leads(l, Wish(t))
                \/ links = Wish(t)

ConvergenceInv == KnowledgeInv /\ \A t \in Task : Converging(t)

\* Names keep their ids in the cache as long as nobody renames a thing
LEMMA KnownStable ==
    ASSUME OrderInv, NEW t \in Task, Step(t), NEW n \in Name
    PROVE  Known(n)' = Known(n)
<1>1. UNCHANGED id /\ Act(t) /\ TypeOK
  BY OwnStep DEF Step, OrderInv
<1>2. \A S : Remember(S) => Known(n)' = Known(n)
  BY <1>1 DEF Remember, Known
<1>3. UNCHANGED cache => Known(n)' = Known(n)
  BY <1>1 DEF Known
<1>4. \A lost : Blurs(t, lost) => Known(n)' = Known(n)
  BY <1>2 DEF Blurs
<1>5. CASE FindBlurred(t) \/ CreateBlurred(t)
  BY <1>4, <1>5 DEF FindBlurred, CreateBlurred
<1>6. CASE ~(FindBlurred(t) \/ CreateBlurred(t))
  BY <1>1, <1>2, <1>3, <1>6
  DEF Act, Begin, Crud, Resolve, Identify, ReadPage, Associate, Disassociate, Reconciled,
      Answer, FindHit, FindMiss, FindFails, Create, Delete, Evict, Resolves
<1> QED
  BY <1>5, <1>6

LEMMA AlikeStep ==
    ASSUME KnowledgeInv, NEW t \in Task, NEW u \in Task, Step(u), Alike(t)'
    PROVE  /\ Alike(t) /\ Wish(t)' = Wish(t)
           /\ Is(u, Syncs) /\ ~job[u].check
           /\ pc'[u] = "done" => ~report'[u].failed
           /\ pc[u] = "write" => wanted[u] = Wish(t)
<1>1. OrderInv /\ TypeOK /\ Orderly(u)
  BY DEF KnowledgeInv, OrderInv, AllOrderly
<1>2. UNCHANGED <<job, foreign>> /\ pc[u] # "done"
  BY <1>1, OwnStep, ActTyped DEF Step
<1>3. \A v \in Task \ {u} : UNCHANGED <<pc[v], report[v]>>
  BY <1>1, StepOthers DEF Others, Own
<1>4. Alike(t)
  BY <1>2, <1>3 DEF Alike, Is
<1>5. Wish(t)' = Wish(t)
  BY <1>1, <1>2, KnownStable, JobOK DEF Wish
<1>6. Is(u, Syncs) /\ ~job[u].check /\ job[u].want = job[t].want
  BY <1>4 DEF Alike
<1>7. pc'[u] = "done" => ~report'[u].failed
  BY DEF Alike
<1>8. pc[u] = "write" => wanted[u] = Wish(t)
  BY <1>1, <1>6 DEF Orderly, Resolved, Wish, Known
<1> QED
  BY <1>4, <1>5, <1>6, <1>7, <1>8

\* What a sync does when it is not to fail
LEMMA SyncStep ==
    ASSUME KnowledgeInv, NEW u \in Task, Step(u), Is(u, Syncs), ~job[u].check,
           pc'[u] = "done" => ~report'[u].failed
    PROVE  \/ /\ UNCHANGED links
              /\ pc[u] # "write"
              /\ pc'[u] \in {"crud", "resolve", "read", "write"}
              /\ pc'[u] = "write" => pc[u] = "read"
           \/ /\ pc[u] = "write" /\ pc'[u] = "write"
              /\ \/ \E i \in wanted[u] : links' = links \cup {i} /\ seen'[u] = seen[u] \cup {i}
                 \/ \E i \in seen[u] \ wanted[u] : links' = links \ {i} /\ seen'[u] = seen[u] \ {i}
           \/ /\ pc[u] = "write" /\ pc'[u] = "done"
              /\ UNCHANGED links /\ seen[u] = wanted[u]
<1>1. TypeOK /\ Orderly(u) /\ Act(u)
  BY DEF KnowledgeInv, OrderInv, AllOrderly, Step
<1>2. pc[u] \in {"new", "crud", "resolve", "read", "write", "done"}
  BY <1>1 DEF Orderly, Course
<1>3. CASE Begin(u) \/ Crud(u) \/ Resolve(u) \/ ReadPage(u)
  <2>1. UNCHANGED links
    BY <1>3 DEF Begin, Crud, Resolve, ReadPage, gatewayVars
  <2>2. pc[u] # "write" /\ ~Is(u, Queries)
    BY <1>3 DEF Begin, Crud, Resolve, ReadPage, Is, Syncs, Queries
  <2>3. CASE Begin(u)
    BY <1>1, <2>1, <2>2, <2>3, Ending DEF Begin, Is
  <2>4. CASE Crud(u)
    <3>1. ~Fails(u) /\ \A c \in BOOLEAN : ~OnlyReports(u, c)
      BY <1>1, Ending DEF OnlyReports
    <3>2. At(u, "resolve")
      BY <2>4, <3>1 DEF Crud
    <3> QED
      BY <1>1, <2>1, <2>2, <3>2 DEF At, TypeOK
  <2>5. CASE Resolve(u)
    BY <1>1, <2>1, <2>2, <2>5, Ending DEF Resolve
  <2>6. CASE ReadPage(u)
    BY <1>1, <2>1, <2>2, <2>6, Ending DEF ReadPage
  <2> QED
    BY <1>3, <2>3, <2>4, <2>5, <2>6
<1>4. CASE Associate(u) \/ Disassociate(u)
  <2>1. ASSUME NEW i, NEW outcome, Post(u, i, outcome)
        PROVE  /\ pc'[u] = "write" /\ links' = outcome
               /\ seen'[u] = IF i \in outcome THEN seen[u] \cup {i} ELSE seen[u] \ {i}
    BY <1>1, <2>1, Ending DEF Post, TypeOK
  <2>2. CASE Associate(u)
    BY <2>1, <2>2 DEF Associate
  <2>3. CASE Disassociate(u)
    <3>1. PICK i \in seen[u] \ wanted[u] : Post(u, i, links \ {i})
      BY <2>3 DEF Disassociate
    <3>2. pc'[u] = "write" /\ links' = links \ {i} /\ seen'[u] = seen[u] \ {i}
      BY <1>1, <3>1, Ending DEF Post, TypeOK
    <3> QED
      BY <2>3, <3>2 DEF Disassociate
  <2> QED
    BY <1>4, <2>2, <2>3
<1>5. CASE Reconciled(u)
  BY <1>1, <1>5, Ending DEF Reconciled, gatewayVars
<1> QED
  BY <1>1, <1>2, <1>3, <1>4, <1>5
  DEF Act, Identify, Answer, FindHit, FindMiss, FindFails, FindBlurred, Create, CreateBlurred,
      Delete, Evict

LEMMA ConvergenceStep == ConvergenceInv /\ [Next]_vars => ConvergenceInv'
<1> SUFFICES ASSUME ConvergenceInv, [Next]_vars, NEW t \in Task, Alike(t)'
             PROVE  Converging(t)'
  BY KnowledgeStep DEF ConvergenceInv, Converging
<1>1. KnowledgeInv /\ KnowledgeInv' /\ OrderInv /\ TypeOK /\ Converging(t)
  BY KnowledgeStep DEF ConvergenceInv, KnowledgeInv, OrderInv
<1>2. ASSUME NEW u \in Task, Step(u) PROVE Converging(t)'
  <2>1. /\ Alike(t) /\ Wish(t)' = Wish(t)
        /\ Is(u, Syncs) /\ ~job[u].check
        /\ pc'[u] = "done" => ~report'[u].failed
        /\ pc[u] = "write" => wanted[u] = Wish(t)
    BY <1>1, <1>2, AlikeStep
  <2>2. \A v \in Task \ {u} : UNCHANGED <<pc[v], seen[v]>>
    BY <1>1, <1>2, StepOthers DEF Others, Own
  <2>3. CASE /\ UNCHANGED links /\ pc[u] # "write"
             /\ pc'[u] \in {"crud", "resolve", "read", "write"}
             /\ pc'[u] = "write" => pc[u] = "read"
    <3>1. CASE Unwritten
      <4>1. crossed' = {}
        BY <1>2, <2>3, <3>1 DEF Step, Unwritten
      <4>2. CASE pc'[u] = "write"
        <5>1. seen'[u] = links'
          BY <1>1, <4>1, <4>2 DEF KnowledgeInv, AllKnow, Knows, Knowing
        <5>2. Leads(u, Wish(t))'
          BY <4>2, <5>1 DEF Leads
        <5> QED
          BY <5>2 DEF Converging
      <4>3. CASE pc'[u] # "write"
        BY <2>2, <2>3, <3>1, <4>1, <4>3 DEF Converging, Unwritten
      <4> QED
        BY <4>2, <4>3
    <3>2. ASSUME NEW l \in Task, Leads(l, Wish(t)) PROVE Converging(t)'
      <4>1. l # u
        BY <2>3, <3>2 DEF Leads
      <4>2. Leads(l, Wish(t))'
        BY <2>1, <2>2, <2>3, <3>2, <4>1 DEF Leads
      <4> QED
        BY <4>2 DEF Converging
    <3>3. CASE links = Wish(t)
      BY <2>1, <2>3, <3>3 DEF Converging
    <3> QED
      BY <1>1, <2>1, <3>1, <3>2, <3>3 DEF Converging
  <2>4. CASE /\ pc[u] = "write" /\ pc'[u] = "write"
             /\ \/ \E i \in wanted[u] : links' = links \cup {i} /\ seen'[u] = seen[u] \cup {i}
                \/ \E i \in seen[u] \ wanted[u] : links' = links \ {i} /\ seen'[u] = seen[u] \ {i}
    <3>1. ~Unwritten
      BY <2>4 DEF Unwritten
    <3>2. ASSUME NEW l \in Task, Leads(l, Wish(t)) PROVE Converging(t)'
      <4>1. pc'[l] = "write"
        BY <2>2, <2>4, <3>2 DEF Leads
      <4>2. CASE l = u
        <5>1. Leads(l, Wish(t))'
          BY <2>1, <2>4, <3>2, <4>1, <4>2 DEF Leads
        <5> QED
          BY <5>1 DEF Converging
      <4>3. CASE l # u
        <5>1. seen'[l] = seen[l]
          BY <2>2, <4>3
        <5>2. Leads(l, Wish(t))'
          BY <2>1, <2>4, <3>2, <4>1, <5>1 DEF Leads
        <5> QED
          BY <5>2 DEF Converging
      <4> QED
        BY <4>2, <4>3
    <3>3. CASE links = Wish(t)
      BY <2>1, <2>4, <3>3 DEF Converging
    <3> QED
      BY <1>1, <2>1, <3>1, <3>2, <3>3 DEF Converging
  <2>5. CASE pc[u] = "write" /\ pc'[u] = "done" /\ UNCHANGED links /\ seen[u] = wanted[u]
    <3>1. ~Unwritten
      BY <2>5 DEF Unwritten
    <3>2. ASSUME NEW l \in Task, Leads(l, Wish(t)) PROVE Converging(t)'
      <4>1. CASE l = u
        <5>1. links' = Wish(t)'
          BY <2>1, <2>5, <3>2, <4>1 DEF Leads
        <5> QED
          BY <5>1 DEF Converging
      <4>2. CASE l # u
        <5>1. Leads(l, Wish(t))'
          BY <2>1, <2>2, <2>5, <3>2, <4>2 DEF Leads
        <5> QED
          BY <5>1 DEF Converging
      <4> QED
        BY <4>1, <4>2
    <3>3. CASE links = Wish(t)
      BY <2>1, <2>5, <3>3 DEF Converging
    <3> QED
      BY <1>1, <2>1, <3>1, <3>2, <3>3 DEF Converging
  <2> QED
    BY <1>1, <1>2, <2>1, <2>3, <2>4, <2>5, SyncStep
<1>3. CASE ForeignWrite
  <2>1. foreign' # MaxForeign
    BY <1>1, <1>3, LinkAssumption DEF ForeignWrite, TypeOK
  <2> QED
    BY <2>1 DEF Alike
<1>4. CASE UNCHANGED vars
  BY <1>1, <1>4 DEF vars, gatewayVars, localVars, historyVars, Converging, Alike, Unwritten, Leads,
                    Wish, Known, Is
<1> QED
  BY <1>2, <1>3, <1>4 DEF Next

LEMMA ConvergenceEnd == ConvergenceInv => SameWishConverges
<1> SUFFICES ASSUME ConvergenceInv, NEW t \in Task, Finished, foreign = MaxForeign,
                    \A u \in Task : /\ Is(u, Syncs) /\ job[u].want = job[t].want
                                    /\ ~job[u].check /\ ~report[u].failed
             PROVE  links = Wish(t)
  BY DEF SameWishConverges
<1>1. Alike(t)
  BY DEF Alike
<1>2. ~Unwritten /\ ~ \E l \in Task : Leads(l, Wish(t))
  BY DEF Unwritten, Leads, Finished
<1> QED
  BY <1>1, <1>2 DEF ConvergenceInv, Converging

\* Any number of syncs that want the same, interleaved in any way over pages that shift under
\* their reads, leave exactly the links they want if none fails and nobody else writes.
THEOREM SameWishConvergesAlways == Spec => []SameWishConverges
<1>1. Init => ConvergenceInv
  BY KnowledgeInit DEF ConvergenceInv, Converging, Unwritten, Init
<1> QED
  BY <1>1, ConvergenceStep, ConvergenceEnd, PTL DEF Spec

-----------------------------------------------------------------------------
(* Telling                                                                 *)

Under(t) == pc[t] \notin {"new", "done"}

\* Nothing is written before the first write, and nothing by tasks that only look, or write
\* once
Pristine(t) ==
    \/ pc[t] \in {"crud", "resolve", "read", "answer"}
    \/ Is(t, {"exists", "auditor"}) /\ Under(t)

\* A sync links only what it wants and unlinks only what it does not want
Monotone(t) ==
    /\ pc[t] = "write" => /\ links \ before[t] \subseteq wanted[t]
                         /\ (before[t] \ links) \cap wanted[t] = {}
    /\ Is(t, {"grant"}) /\ Under(t) => before[t] \subseteq links
    /\ Is(t, {"revoke"}) /\ Under(t) => links \subseteq before[t]

\* It creates what it did not find, and deletes what it did
Apt(t) ==
    /\ pc[t] = "create" => cache[Current(t)] # None /\ cache[Current(t)] \notin links
    /\ pc[t] = "delete" => wanted[t] \subseteq links

Spotless(t) == t \notin crossed /\ t \notin met /\ t \notin stale

Tells(t) ==
    Spotless(t) =>
        /\ pc[t] = "new" => ~did[t]
        /\ Under(t) => (did[t] <=> links # before[t])
        /\ Pristine(t) => links = before[t]
        /\ Monotone(t)
        /\ Apt(t)
        /\ Succeeded(t) => (did[t] <=> after[t] # before[t])

LEMMA TellsKept ==
    ASSUME OrderInv, NEW u \in Task, Tells(u), Others(u)
    PROVE  Tells(u)'
<1> SUFFICES ASSUME Spotless(u)' PROVE Tells(u)'
  BY DEF Tells
<1>1. /\ UNCHANGED <<pc[u], report[u], todo[u], wanted[u], did[u], before[u], after[u], job[u]>>
      /\ Spotless(u)
      /\ ~Under(u) \/ UNCHANGED links
  BY DEF Others, Own, Spotless, Under
<1>2. /\ pc[u] = "new" => ~did[u]
      /\ Under(u) => (did[u] <=> links # before[u])
      /\ Pristine(u) => links = before[u]
      /\ Monotone(u) /\ Apt(u)
      /\ Succeeded(u) => (did[u] <=> after[u] # before[u])
  BY <1>1 DEF Tells
<1>3. Apt(u)'
  <2>1. Current(u)' = Current(u)
    BY <1>1 DEF Current
  <2>2. CASE pc[u] = "create"
    <3>1. Current(u) \in Name
      BY <2>2, CurrentOK DEF OrderInv, AllOrderly, Sorts
    <3>2. cache'[Current(u)] = cache[Current(u)] /\ UNCHANGED links
      BY <1>1, <1>2, <2>2, <3>1 DEF Others, Apt, Under
    <3> QED
      BY <1>1, <1>2, <2>1, <2>2, <3>2 DEF Apt
  <2>3. CASE pc[u] # "create"
    BY <1>1, <1>2, <2>3 DEF Apt, Under
  <2> QED
    BY <2>2, <2>3
<1>4. (Pristine(u) => links = before[u])'
  BY <1>1, <1>2 DEF Pristine, Under, Is
<1>5. Monotone(u)'
  BY <1>1, <1>2 DEF Monotone, Under, Is
<1>6. (Under(u) => (did[u] <=> links # before[u]))'
  BY <1>1, <1>2 DEF Under
<1> QED
  BY <1>1, <1>2, <1>3, <1>4, <1>5, <1>6 DEF Tells, Succeeded

\* Steps that write no link
LEMMA TellsQuiet ==
    ASSUME OrderInv, NEW t \in Task, Step(t), Tells(t), Under(t), UNCHANGED <<links, did, before>>,
           pc'[t] # "new",
           Pristine(t)' => Pristine(t),
           pc'[t] = "write" => pc[t] = "read",
           Spotless(t)' => Apt(t)'
    PROVE  Tells(t)'
<1> SUFFICES ASSUME Spotless(t)' PROVE Tells(t)'
  BY DEF Tells
<1>1. Spotless(t) /\ UNCHANGED job /\ (pc'[t] = "done" => after'[t] = links')
  BY OwnStep DEF Spotless, Grows
<1>2. (did[t] <=> links # before[t]) /\ (Pristine(t) => links = before[t]) /\ Monotone(t)
  BY <1>1 DEF Tells
<1>3. Monotone(t)'
  <2>1. pc'[t] = "write" => links = before[t]
    BY <1>2 DEF Pristine
  <2>2. Is(t, {"grant"}) => before[t] \subseteq links
    BY <1>2 DEF Monotone
  <2>3. Is(t, {"revoke"}) => links \subseteq before[t]
    BY <1>2 DEF Monotone
  <2> QED
    BY <1>1, <2>1, <2>2, <2>3 DEF Monotone, Is
<1> QED
  BY <1>1, <1>2, <1>3 DEF Tells, Succeeded, Under

LEMMA TellsFailed ==
    ASSUME NEW t \in Task, pc'[t] = "done", report'[t].failed
    PROVE  Tells(t)'
BY DEF Tells, Under, Pristine, Monotone, Apt, Succeeded

LEMMA TellsBegun ==
    ASSUME OrderInv, NEW t \in Task, Step(t), Tells(t), Begin(t)
    PROVE  Tells(t)'
<1>1. /\ TypeOK /\ pc[t] = "new" /\ UNCHANGED <<links, did, met, stale, job>>
      /\ before'[t] = links
      /\ t \in crossed' <=> t \in crossed
  BY OwnStep DEF Begin, gatewayVars, OrderInv, TypeOK
<1>2. pc'[t] \in {"crud", "read", "name", "find"}
  BY <1>1, Ending DEF Begin, First
<1>3. Spotless(t)' => ~did[t]
  BY <1>1 DEF Tells, Spotless
<1> QED
  BY <1>1, <1>2, <1>3 DEF Tells, Under, Pristine, Monotone, Apt, Succeeded

LEMMA TellsCalled ==
    ASSUME OrderInv, NEW t \in Task, Step(t), Tells(t),
           Crud(t) \/ Resolve(t) \/ Identify(t) \/ ReadPage(t) \/ Reconciled(t) \/ Answer(t)
    PROVE  Tells(t)'
<1>1. /\ TypeOK /\ Orderly(t) /\ UNCHANGED <<links, did, before, job>>
  BY DEF OrderInv, AllOrderly, Crud, Resolve, Identify, ReadPage, Reconciled, Answer, gatewayVars, localVars
<1>2. CASE Crud(t)
  <2>1. pc[t] = "crud" /\ pc'[t] \in {"resolve", "find", "done"}
    BY <1>1, <1>2, Ending DEF Crud, At, TypeOK
  <2> QED
    BY <1>1, <2>1, TellsQuiet DEF Under, Pristine, Apt
<1>3. CASE Resolve(t)
  <2>1. pc[t] = "resolve" /\ pc'[t] \in {"read", "done"}
    BY <1>1, <1>3, Ending DEF Resolve
  <2> QED
    BY <1>1, <2>1, TellsQuiet DEF Under, Pristine, Apt
<1>4. CASE Identify(t)
  <2>1. pc[t] = "name" /\ pc'[t] \in {"find", "done"}
    BY <1>1, <1>4, Ending DEF Identify
  <2> QED
    BY <1>1, <2>1, TellsQuiet DEF Under, Pristine, Apt, Is
<1>5. CASE ReadPage(t)
  <2>1. pc[t] = "read" /\ pc'[t] \in {"read", "write", "answer", "done"}
    BY <1>1, <1>5, Ending DEF ReadPage
  <2> QED
    BY <1>1, <2>1, TellsQuiet DEF Under, Pristine, Apt
<1>6. CASE Reconciled(t) \/ Answer(t)
  <2>1. pc[t] \in {"write", "answer"} /\ pc'[t] = "done"
    BY <1>1, <1>6, Ending DEF Reconciled, Answer
  <2> QED
    BY <1>1, <2>1, TellsQuiet DEF Under, Pristine, Apt
<1> QED
  BY <1>2, <1>3, <1>4, <1>5, <1>6

LEMMA TellsFound ==
    ASSUME OrderInv, NEW t \in Task, Step(t), Tells(t), FindHit(t) \/ FindMiss(t) \/ FindFails(t)
    PROVE  Tells(t)'
<1>1. /\ TypeOK /\ Orderly(t) /\ UNCHANGED <<links, did, before, job>> /\ pc[t] = "find"
      /\ pc'[t] \in Sorts \cup {"done"}
  BY SortsNext DEF OrderInv, AllOrderly, FindHit, FindMiss, FindFails, gatewayVars
<1>2. Spotless(t)' => Apt(t)'
  <2>1. CASE FindHit(t)
    <3>1. \A l, f : GoesOn(t, l, f) => pc'[t] \in {"name", "find", "done"}
      BY <1>1, Ending DEF GoesOn, First
    <3>2. pc'[t] # "create"
      BY <1>1, <2>1, <3>1, Ending DEF FindHit, Found
    <3> QED
      BY <1>1, <2>1, <3>2, HitTarget DEF Apt
  <2>2. CASE FindMiss(t)
    <3>1. \A l, f : GoesOn(t, l, f) => pc'[t] \in {"name", "find", "done"}
      BY <1>1, Ending DEF GoesOn, First
    <3>2. pc'[t] # "delete" /\ (pc'[t] = "create" => UNCHANGED todo)
      BY <1>1, <2>2, <3>1, Ending DEF FindMiss, NotFound
    <3>3. pc'[t] = "create" => Current(t)' = Current(t)
      BY <3>2 DEF Current
    <3> QED
      BY <1>1, <2>2, <3>2, <3>3, MissTarget DEF Apt, Spotless
  <2>3. CASE FindFails(t)
    BY <2>3 DEF FindFails, Met, Spotless
  <2> QED
    BY <2>1, <2>2, <2>3
<1> QED
  BY <1>1, <1>2, TellsQuiet DEF Under, Pristine, Sorts, Is

\* A sync that writes gets further from the links it began with
LEMMA TellsWritten ==
    ASSUME KnowledgeInv, NEW t \in Task, Step(t), Tells(t), Associate(t) \/ Disassociate(t)
    PROVE  Tells(t)'
<1>1. /\ OrderInv /\ TypeOK /\ Orderly(t) /\ UNCHANGED <<job, wanted, before>> /\ pc[t] = "write"
  BY DEF KnowledgeInv, OrderInv, AllOrderly, Associate, Disassociate
<1>2. Is(t, Syncs) /\ ~Is(t, {"grant"}) /\ ~Is(t, {"revoke"}) /\ ~Is(t, {"exists", "auditor"})
  BY <1>1, Kinds DEF Orderly, Course, Is, Lists, Queries, Syncs
<1>3. CASE pc'[t] = "done"
  BY <1>1, <1>3, Ending, TellsFailed DEF Associate, Disassociate, Post
<1>4. CASE pc'[t] # "done"
  <2> SUFFICES ASSUME Spotless(t)' PROVE Tells(t)'
    BY DEF Tells
  <2>1. Spotless(t)
    BY <1>1, OwnStep DEF Spotless, Grows
  <2>2. seen[t] = links
    BY <1>1, <2>1 DEF KnowledgeInv, AllKnow, Knows, Knowing, Spotless
  <2>3. links \ before[t] \subseteq wanted[t] /\ (before[t] \ links) \cap wanted[t] = {}
    BY <1>1, <2>1 DEF Tells, Monotone
  <2>4. ASSUME NEW i, NEW outcome, Post(t, i, outcome)
        PROVE  pc'[t] = "write" /\ links' = outcome /\ did'[t]
    BY <1>1, <1>4, <2>4, Ending DEF Post, Does, TypeOK
  <2>5. \/ \E i \in wanted[t] \ links : pc'[t] = "write" /\ links' = links \cup {i} /\ did'[t]
        \/ \E i \in links \ wanted[t] : pc'[t] = "write" /\ links' = links \ {i} /\ did'[t]
    <3>1. CASE Associate(t)
      BY <2>2, <2>4, <3>1 DEF Associate
    <3>2. CASE Disassociate(t)
      BY <2>2, <2>4, <3>2 DEF Disassociate
    <3> QED
      BY <3>1, <3>2
  <2>6. links' # before[t] /\ links' \ before[t] \subseteq wanted[t] /\ (before[t] \ links') \cap wanted[t] = {}
    BY <2>3, <2>5
  <2> QED
    BY <1>1, <1>2, <2>5, <2>6 DEF Tells, Under, Pristine, Monotone, Apt, Succeeded, Is
<1> QED
  BY <1>3, <1>4

\* So does a task that grants or revokes; the auditor's is the only write of its task
LEMMA TellsChanged ==
    ASSUME OrderInv, NEW t \in Task, Step(t), Tells(t), Create(t) \/ Delete(t)
    PROVE  Tells(t)'
<1>1. /\ TypeOK /\ Orderly(t) /\ UNCHANGED <<job, before>> /\ pc[t] \in {"create", "delete"}
      /\ pc[t] \in Sorts /\ pc'[t] \in Sorts \cup {"done"}
  BY SortsNext DEF OrderInv, AllOrderly, Create, Delete
<1>2. CASE Fails(t)
  BY <1>1, <1>2, Ending, TellsFailed
<1>3. CASE ~Fails(t)
  <2> SUFFICES ASSUME Spotless(t)' PROVE Tells(t)'
    BY DEF Tells
  <2>1. Spotless(t) /\ (pc'[t] = "done" => after'[t] = links')
    BY <1>1, OwnStep DEF Spotless, Grows
  <2>2. Apt(t) /\ Monotone(t) /\ (Pristine(t) => links = before[t])
    BY <2>1 DEF Tells
  <2>3. \E l, f : GoesOn(t, l, f)
    BY <1>3 DEF Create, Delete, DeleteFails
  <2>4. /\ pc'[t] \in {"name", "find", "done"}
        /\ Is(t, {"auditor"}) => pc'[t] = "done"
    <3>1. Current(t) \in todo[t] /\ (Is(t, {"auditor"}) => todo[t] \subseteq {Auditor})
      BY <1>1, CurrentOK DEF Orderly, Remaining
    <3> QED
      BY <1>1, <2>3, <3>1, Ending DEF GoesOn, First
  <2>5. ~Is(t, {"exists"}) /\ (Is(t, {"grant"}) => pc[t] = "create") /\ (Is(t, {"revoke"}) => pc[t] = "delete")
    BY <1>1 DEF Orderly, Course
  <2>6. ~Is(t, Syncs) /\ ~Is(t, Queries)
    BY <1>1, SortsOK
  <2>7. Is(t, {"grant"}) \/ Is(t, {"revoke"}) \/ Is(t, {"auditor"})
    BY <1>1, <2>5, <2>6, Kinds DEF Is, Lists
  <2>8. CASE Create(t)
    <3>1. /\ Target(t) = cache[Current(t)] /\ Target(t) \notin links
      BY <1>1, <2>2, <2>8, TargetOK DEF Create, Apt, Known
    <3>2. links' = links \cup {Target(t)} /\ did'[t]
      BY <1>1, <1>3, <2>8 DEF Create, Does, TypeOK
    <3>3. before[t] \subseteq links
      BY <1>1, <2>2, <2>5, <2>7, <2>8 DEF Monotone, Pristine, Under, Create, Is
    <3>4. links' # before[t] /\ before[t] \subseteq links'
      BY <3>1, <3>2, <3>3
    <3>5. ~Is(t, {"revoke"})
      BY <2>5, <2>8 DEF Create
    <3> QED
      BY <1>1, <2>1, <2>4, <2>5, <3>2, <3>4, <3>5
      DEF Tells, Under, Pristine, Monotone, Apt, Succeeded, Is
  <2>9. CASE Delete(t)
    <3>1. wanted[t] = {cache[Current(t)]} /\ wanted[t] \subseteq links
      BY <1>1, <2>1, <2>2, <2>9 DEF Delete, Orderly, Aimed, Apt, Spotless
    <3>2. t \notin met'
      BY DEF Spotless
    <3>3. links' = links \ wanted[t] /\ did'[t]
      BY <1>1, <2>9, <3>1, <3>2 DEF Delete, Does, Met, TypeOK
    <3>4. links \subseteq before[t]
      BY <1>1, <2>2, <2>5, <2>7, <2>9 DEF Monotone, Pristine, Under, Delete, Is
    <3>5. links' # before[t] /\ links' \subseteq before[t]
      BY <3>1, <3>3, <3>4
    <3>6. ~Is(t, {"grant"})
      BY <2>5, <2>9 DEF Delete
    <3> QED
      BY <1>1, <2>1, <2>4, <2>5, <3>3, <3>5, <3>6
      DEF Tells, Under, Pristine, Monotone, Apt, Succeeded, Is
  <2> QED
    BY <2>8, <2>9
<1> QED
  BY <1>2, <1>3

\* A task that goes on with a name it could not resolve promises nothing any more
LEMMA TellsBlurred ==
    ASSUME OrderInv, NEW t \in Task, FindBlurred(t) \/ CreateBlurred(t) \/ Evict(t)
    PROVE  Tells(t)'
BY BlurredStale DEF Tells, Spotless

TellingInv == KnowledgeInv /\ \A t \in Task : Tells(t)

LEMMA TellingStep == TellingInv /\ [Next]_vars => TellingInv'
<1> SUFFICES ASSUME TellingInv, [Next]_vars, NEW u \in Task PROVE Tells(u)'
  BY KnowledgeStep DEF TellingInv
<1>1. KnowledgeInv /\ OrderInv /\ Tells(u)
  BY DEF TellingInv, KnowledgeInv
<1>2. ASSUME Step(u) PROVE Tells(u)'
  BY <1>1, <1>2, TellsBegun, TellsCalled, TellsFound, TellsWritten, TellsChanged,
     TellsBlurred DEF Step, Act
<1>3. ASSUME NEW t \in Task \ {u}, Step(t) PROVE Tells(u)'
  BY <1>1, <1>3, StepOthers, TellsKept
<1>4. CASE ForeignWrite \/ UNCHANGED vars
  BY <1>1, <1>4, ForeignOthers, TellsKept
<1> QED
  BY <1>2, <1>3, <1>4 DEF Next

\* Whatever the order of the writes: an undisturbed task says that it changed a link if and
\* only if the links are not what they were when it began.
THEOREM ChangeToldAlways == Spec => []ChangeTold
<1>1. Init => TellingInv
  <2> SUFFICES ASSUME Init, NEW t \in Task PROVE Tells(t)
    BY KnowledgeInit DEF TellingInv
  <2>1. pc[t] = "new" /\ ~did[t]
    BY DEF Init
  <2> QED
    BY <2>1 DEF Init, Tells, Under, Pristine, Monotone, Apt, Succeeded
<1>2. TellingInv => ChangeTold
  <2> SUFFICES ASSUME TellingInv, NEW t \in Task, Undisturbed(t), t \notin met, ~report[t].failed
               PROVE  did[t] = (after[t] # before[t])
    BY DEF ChangeTold
  <2>1. did[t] <=> after[t] # before[t]
    BY DEF TellingInv, Tells, Spotless, Undisturbed, Succeeded
  <2>2. did[t] \in BOOLEAN
    BY DEF TellingInv, KnowledgeInv, OrderInv, TypeOK
  <2> QED
    BY <2>1, <2>2
<1> QED
  BY <1>1, <1>2, TellingStep, PTL DEF Spec

=============================================================================
