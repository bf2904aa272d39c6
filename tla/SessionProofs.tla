---------------------------- MODULE SessionProofs ----------------------------
(* Theorems about Session for any number of calls, attempts, versions,     *)
(* answers and faults.                                                     *)
EXTENDS Session, TLAPS

-----------------------------------------------------------------------------
(* Types                                                                   *)

\* A version the collection ships, or none, comes out of whatever was answered
LEMMA ResolvedOK ==
    ASSUME NEW raw \in Version \cup {None}
    PROVE  Resolved(raw) \in Version \cup {None}
BY SessionAssumption DEF Resolved

LEMMA DetectedOK ==
    ASSUME NEW ping \in Answer, NEW root \in Answer
    PROVE  Detected(ping, root) \in Version \cup {None}
<1>1. ping \in Probe /\ root \in Probe
  BY SessionAssumption
<1>2. /\ ping.header \in Version \cup {None}
      /\ root.header \in Version \cup {None}
      /\ root.body \in Version \cup {None}
  BY <1>1 DEF Probe
<1>3. /\ Resolved(ping.header) \in Version \cup {None}
      /\ Resolved(root.header) \in Version \cup {None}
      /\ Resolved(root.body) \in Version \cup {None}
  BY <1>2, ResolvedOK
<1>4. RootVersion(root) \in Version \cup {None}
  BY <1>3 DEF RootVersion
<1>5. <<1>> \in Version
  BY DEF Version
<1> QED
  BY <1>3, <1>4, <1>5 DEF Detected

LEMMA PinOK ==
    ASSUME TypeOK, NEW ping \in Answer, NEW root \in Answer, Pin(Detected(ping, root))
    PROVE  version' \in Version \cup {None} /\ confirmed' \subseteq Version
<1> DEFINE found == Detected(ping, root)
<1>1. found \in Version \cup {None}
  BY DetectedOK
<1>2. version' = (IF found = None THEN version ELSE found) /\ confirmed' = confirmed \cup ({found} \ {None})
  BY DEF Pin
<1> HIDE DEF found
<1> QED
  BY <1>1, <1>2 DEF TypeOK

LEMMA ReturnedOK ==
    ASSUME NEW known \in Version \cup {None}
    PROVE  Returned(known) \in Version
<1>1. <<1>> \in Version
  BY DEF Version
<1>2. Latest \in Version
  BY <1>1, SessionAssumption
<1> QED
  BY <1>2 DEF Returned

\* Where the calls are, and what they have come to
CallsOK ==
    /\ pc \in [Call -> {"new", "route", "detect", "stamp", "send", "recover", "probe", "resend", "done"}]
    /\ attempt \in [Call -> 1 .. MaxAttempts]
    /\ outcome \in [Call -> {"none", "ok", "unauthorized", "lost", "transient", "client"}]

LEMMA GotoOK ==
    ASSUME TypeOK, NEW c \in Call,
           NEW point \in {"route", "detect", "stamp", "send", "recover", "probe", "resend"}, Goto(c, point)
    PROVE  CallsOK'
BY DEF TypeOK, Goto, CallsOK

LEMMA EndOK ==
    ASSUME TypeOK, NEW c \in Call,
           NEW result \in {"ok", "unauthorized", "lost", "transient", "client"}, End(c, result)
    PROVE  CallsOK'
BY DEF TypeOK, End, CallsOK

LEMMA SendsOK ==
    ASSUME TypeOK, NEW c \in Call, NEW n \in Nat, Sends(c, n)
    PROVE  sent' \in [Call -> Nat]
BY DEF TypeOK, Sends

LEMMA InitTypeOK == Init => TypeOK
<1> SUFFICES ASSUME Init PROVE TypeOK
  OBVIOUS
<1>1. attempt \in [Call -> 1 .. MaxAttempts]
  BY SessionAssumption DEF Init
<1>2. flips \in 0 .. MaxFlips
  BY SessionAssumption DEF Init
<1>3. sent \in [Call -> Nat] /\ ran \in [Call -> Nat]
  BY DEF Init
<1> QED
  BY <1>1, <1>2, <1>3 DEF Init, TypeOK

LEMMA RequestTypeOK ==
    ASSUME TypeOK, NEW c \in Call, Succeeds(c) \/ Rejected(c) \/ Lost(c) \/ Unauthorized(c)
    PROVE  TypeOK'
<1>1. sent' \in [Call -> Nat]
  BY SendsOK DEF Succeeds, Rejected, Lost, Unauthorized, Requesting
<1>2. ran' \in [Call -> Nat]
  BY DEF Succeeds, Rejected, Lost, Unauthorized, TypeOK
<1>3. CallsOK'
  <2>1. CASE Succeeds(c)
    BY <2>1, EndOK DEF Succeeds
  <2>2. CASE Rejected(c)
    BY <2>2, EndOK DEF Rejected
  <2>3. CASE Lost(c)
    <3>1. CASE Retries(c)
      BY <2>3, <3>1, SessionAssumption DEF Lost, Retries, CallsOK, TypeOK
    <3>2. CASE ~Retries(c)
      BY <2>3, <3>2, EndOK DEF Lost
    <3> QED
      BY <3>1, <3>2
  <2>4. CASE Unauthorized(c)
    BY <2>4, EndOK, GotoOK DEF Unauthorized
  <2> QED
    BY <2>1, <2>2, <2>3, <2>4
<1>4. troubled' \subseteq Call
  BY DEF Succeeds, Rejected, Lost, Unauthorized, Trouble, TypeOK
<1>5. UNCHANGED <<config, boot, sessionVars, gatewayVars, confirmed>>
  BY DEF Succeeds, Rejected, Lost, Unauthorized
<1> QED
  BY <1>1, <1>2, <1>3, <1>4, <1>5 DEF TypeOK, CallsOK, config, sessionVars, gatewayVars

LEMMA RouteTypeOK ==
    ASSUME TypeOK, NEW c \in Call, Start(c) \/ Route(c) \/ Detect(c) \/ Stamp(c)
    PROVE  TypeOK'
<1>1. CASE Start(c)
  <2>1. CallsOK'
    BY <1>1, EndOK, GotoOK DEF Start
  <2> QED
    BY <1>1, <2>1 DEF Start, TypeOK, CallsOK, config, gatewayVars
<1>2. CASE Route(c)
  <2>1. CallsOK'
    BY <1>2, GotoOK DEF Route
  <2> QED
    BY <1>2, <2>1 DEF Route, TypeOK, CallsOK, config, sessionVars, gatewayVars
<1>3. CASE Detect(c)
  <2>1. CallsOK'
    BY <1>3, GotoOK DEF Detect
  <2>2. /\ version' \in Version \cup {None} /\ confirmed' \subseteq Version
        /\ stamp' \in Version \cup {None}
    <3>1. PICK ping \in Answer, root \in Answer :
            IF client = "direct" /\ kind[c] = "search"
            THEN /\ IF Detected(ping, root) = None
                    THEN version' = <<1>> /\ UNCHANGED confirmed ELSE Pin(Detected(ping, root))
                 /\ stamp' = version'
            ELSE Pin(Detected(ping, root)) /\ UNCHANGED stamp
      BY <1>3 DEF Detect
    <3>2. <<1>> \in Version
      BY DEF Version
    <3> QED
      BY <3>1, <3>2, PinOK DEF TypeOK
  <2>3. sent' \in [Call -> Nat]
    BY <1>3, SendsOK DEF Detect, ProbeRequests
  <2> QED
    BY <1>3, <2>1, <2>2, <2>3 DEF Detect, TypeOK, CallsOK, config, gatewayVars
<1>4. CASE Stamp(c)
  <2>1. CallsOK'
    BY <1>4, GotoOK DEF Stamp
  <2>2. version' \in Version \cup {None} /\ confirmed' \subseteq Version /\ sent' \in [Call -> Nat]
    <3>1. CASE version = None
      <4>1. PICK ping \in Answer, root \in Answer :
              Sends(c, ProbeRequests(ping)) /\ Pin(Detected(ping, root))
        BY <1>4, <3>1 DEF Stamp
      <4>2. sent' \in [Call -> Nat]
        BY <4>1, SendsOK DEF ProbeRequests
      <4> QED
        BY <4>1, <4>2, PinOK
    <3>2. CASE version # None
      BY <1>4, <3>2 DEF Stamp, TypeOK
    <3> QED
      BY <3>1, <3>2
  <2>3. stamp' \in Version
    BY <1>4, <2>2, ReturnedOK DEF Stamp
  <2> QED
    BY <1>4, <2>1, <2>2, <2>3 DEF Stamp, TypeOK, CallsOK, config, gatewayVars
<1> QED
  BY <1>1, <1>2, <1>3, <1>4

LEMMA RecoverTypeOK ==
    ASSUME TypeOK, NEW c \in Call, Recover(c) \/ Reauthenticate(c)
    PROVE  TypeOK'
<1>1. CASE Recover(c)
  <2>1. CallsOK'
    BY <1>1, GotoOK DEF Recover
  <2> QED
    BY <1>1, <2>1 DEF Recover, TypeOK, CallsOK, config, gatewayVars
<1>2. CASE Reauthenticate(c)
  <2>1. CallsOK' /\ authLock' = None
    BY <1>2, GotoOK, EndOK DEF Reauthenticate, Release
  <2>2. sent' \in [Call -> Nat]
    BY <1>2, SendsOK DEF Reauthenticate
  <2> QED
    BY <1>2, <2>1, <2>2 DEF Reauthenticate, TypeOK, CallsOK, config, gatewayVars
<1> QED
  BY <1>1, <1>2

LEMMA BootTypeOK ==
    ASSUME TypeOK, BootAuthenticate \/ BootVersion
    PROVE  TypeOK'
<1>1. CASE BootAuthenticate
  BY <1>1 DEF BootAuthenticate, TypeOK, config, callVars, gatewayVars
<1>2. CASE BootVersion
  <2>1. version' \in Version \cup {None} /\ confirmed' \subseteq Version
    BY <1>2, PinOK DEF BootVersion
  <2>2. stamp' \in Version
    BY <1>2, <2>1, ReturnedOK DEF BootVersion
  <2> QED
    BY <1>2, <2>1, <2>2 DEF BootVersion, TypeOK, config, callVars, gatewayVars
<1> QED
  BY <1>1, <1>2

LEMMA FlipTypeOK == TypeOK /\ Flip => TypeOK'
BY SessionAssumption DEF Flip, Active, TypeOK, config, sessionVars, callVars

\* Every variable stays in its range, whichever way calls, recoveries and the constructor
\* interleave.
THEOREM TypeCorrect == Spec => []TypeOK
<1>1. TypeOK /\ [Next]_vars => TypeOK'
  <2> SUFFICES ASSUME TypeOK, [Next]_vars PROVE TypeOK'
    OBVIOUS
  <2>1. CASE BootAuthenticate \/ BootVersion
    BY <2>1, BootTypeOK
  <2>2. ASSUME NEW c \in Call, Step(c) PROVE TypeOK'
    BY <2>2, RequestTypeOK, RouteTypeOK, RecoverTypeOK DEF Step
  <2>3. CASE Flip
    BY <2>3, FlipTypeOK
  <2>4. CASE UNCHANGED vars
    BY <2>4 DEF TypeOK, vars, config, sessionVars, callVars, gatewayVars
  <2> QED
    BY <2>1, <2>2, <2>3, <2>4 DEF Next
<1> QED
  BY InitTypeOK, <1>1, PTL DEF Spec

-----------------------------------------------------------------------------
(* How often a call sends its request, and how often it is carried out     *)

\* What a call had spent when its current attempt began: its probes, and three requests for
\* each attempt that is over
Before(c) == Probes(c) + 3 * (attempt[c] - 1)

\* What a call has spent, where it stands
Spent(c) ==
    /\ pc[c] \in {"new", "route", "detect"} => attempt[c] = 1 /\ sent[c] = 0
    /\ pc[c] = "stamp" => attempt[c] = 1 /\ sent[c] <= 2 /\ client = "direct" /\ kind[c] = "write"
    /\ pc[c] = "send" => sent[c] <= Before(c)
    /\ pc[c] \in {"recover", "probe"} => sent[c] <= Before(c) + 1
    /\ pc[c] = "resend" => sent[c] <= Before(c) + (IF client = "direct" THEN 1 ELSE 2)
    /\ pc[c] = "done" => sent[c] <= Before(c) + (IF ~Recovers(c) THEN 1
                                                ELSE IF client = "direct" THEN 2 ELSE 3)

\* Only searches of the service get a second attempt, only calls of _make_request a repetition
OnceOnly(c) ==
    /\ client = "direct" \/ ~Recovers(c) => attempt[c] = 1
    /\ ~Recovers(c) => pc[c] \notin {"recover", "probe", "resend"}
    /\ kind[c] = "write" => ran[c] <= 1 /\ (pc[c] # "done" => ran[c] = 0)

\* A call that was given up for want of an answer was out of attempts
GaveUp(c) ==
    /\ pc[c] # "done" => outcome[c] = "none"
    /\ outcome[c] = "lost" /\ client = "service" /\ kind[c] = "search" => attempt[c] = MaxAttempts

CountInv == \A c \in Call : Spent(c) /\ OnceOnly(c) /\ GaveUp(c)

\* A step touches the counters of the call that takes it alone
LEMMA OthersKeep ==
    ASSUME TypeOK, CountInv, NEW c \in Call, Step(c), NEW d \in Call, d # c
    PROVE  (Spent(d) /\ OnceOnly(d) /\ GaveUp(d))'
<1>1. /\ pc'[d] = pc[d] /\ attempt'[d] = attempt[d] /\ outcome'[d] = outcome[d]
      /\ sent'[d] = sent[d] /\ ran'[d] = ran[d]
      /\ UNCHANGED <<client, kind>>
  <2>1. CASE Start(c) \/ Route(c) \/ Detect(c) \/ Stamp(c)
    BY <2>1 DEF Start, Route, Detect, Stamp, Goto, End, Sends, TypeOK, config
  <2>2. CASE Succeeds(c) \/ Rejected(c) \/ Lost(c) \/ Unauthorized(c)
    BY <2>2 DEF Succeeds, Rejected, Lost, Unauthorized, Requesting, Goto, End, Sends, TypeOK, config
  <2>3. CASE Recover(c) \/ Reauthenticate(c)
    BY <2>3 DEF Recover, Reauthenticate, Goto, End, Sends, TypeOK, config
  <2> QED
    BY <2>1, <2>2, <2>3 DEF Step
<1> QED
  BY <1>1 DEF CountInv, Spent, Before, Probes, OnceOnly, GaveUp, Recovers

LEMMA RouteCounts ==
    ASSUME TypeOK, CountInv, NEW c \in Call, Start(c) \/ Route(c) \/ Detect(c) \/ Stamp(c)
    PROVE  (Spent(c) /\ OnceOnly(c) /\ GaveUp(c))'
<1> USE DEF Spent, Before, Probes, OnceOnly, GaveUp, Recovers
<1>1. CASE Start(c)
  BY <1>1 DEF CountInv, Start, Goto, End, TypeOK, config
<1>2. CASE Route(c)
  BY <1>2 DEF CountInv, Route, Goto, TypeOK, config
<1>3. CASE Detect(c)
  <2>1. /\ sent'[c] \in {1, 2} /\ attempt'[c] = 1
        /\ pc'[c] = "send" \/ (pc'[c] = "stamp" /\ client = "direct" /\ kind[c] = "write")
    BY <1>3 DEF CountInv, Detect, Goto, Sends, ProbeRequests, TypeOK
  <2> QED
    BY <1>3, <2>1 DEF CountInv, Detect, Goto, TypeOK, config
<1>4. CASE Stamp(c)
  <2>1. /\ sent'[c] <= sent[c] + 2 /\ sent[c] \in Nat /\ sent'[c] \in Nat
        /\ attempt'[c] = 1 /\ pc'[c] = "send"
    BY <1>4 DEF CountInv, Stamp, Goto, Sends, ProbeRequests, TypeOK
  <2> QED
    BY <1>4, <2>1 DEF CountInv, Stamp, Goto, TypeOK, config
<1> QED
  BY <1>1, <1>2, <1>3, <1>4

LEMMA RequestCounts ==
    ASSUME TypeOK, CountInv, NEW c \in Call, Succeeds(c) \/ Rejected(c) \/ Lost(c) \/ Unauthorized(c)
    PROVE  (Spent(c) /\ OnceOnly(c) /\ GaveUp(c))'
<1> USE DEF Spent, Before, Probes, OnceOnly, GaveUp, Recovers
<1>1. sent'[c] = sent[c] + 1 /\ sent[c] \in Nat /\ attempt[c] \in Nat /\ pc[c] \in {"send", "resend"}
  BY DEF Succeeds, Rejected, Lost, Unauthorized, Requesting, Sends, TypeOK
<1>2. CASE Succeeds(c)
  BY <1>1, <1>2 DEF CountInv, Succeeds, End, TypeOK, config
<1>3. CASE Rejected(c)
  BY <1>1, <1>3, SessionAssumption DEF CountInv, Rejected, End, TypeOK, config
<1>4. CASE Lost(c)
  <2>1. kind[c] = "write" => ran'[c] \in {0, 1}
    BY <1>1, <1>4 DEF CountInv, Lost, TypeOK
  <2>2. CASE Retries(c)
    BY <1>1, <1>4, <2>1, <2>2, SessionAssumption DEF CountInv, Lost, Retries, TypeOK, config
  <2>3. CASE ~Retries(c)
    <3>1. /\ pc'[c] = "done" /\ outcome'[c] = "lost" /\ attempt'[c] = attempt[c]
          /\ UNCHANGED <<client, kind>>
      BY <1>1, <1>4, <2>3 DEF Lost, End, TypeOK, config
    <3>2. Spent(c) /\ OnceOnly(c) /\ attempt[c] \in 1 .. MaxAttempts
      BY DEF CountInv, TypeOK
    <3>3. Spent(c)'
      BY <1>1, <3>1, <3>2, SessionAssumption
    <3>4. OnceOnly(c)'
      BY <1>1, <2>1, <3>1, <3>2
    <3>5. GaveUp(c)'
      BY <1>1, <2>3, <3>1, <3>2, SessionAssumption DEF Retries
    <3> QED
      BY <3>3, <3>4, <3>5
  <2> QED
    BY <2>2, <2>3
<1>5. CASE Unauthorized(c)
  BY <1>1, <1>5 DEF CountInv, Unauthorized, End, Goto, TypeOK, config
<1> QED
  BY <1>2, <1>3, <1>4, <1>5

LEMMA RecoverCounts ==
    ASSUME TypeOK, CountInv, NEW c \in Call, Recover(c) \/ Reauthenticate(c)
    PROVE  (Spent(c) /\ OnceOnly(c) /\ GaveUp(c))'
<1> USE DEF Spent, Before, Probes, OnceOnly, GaveUp, Recovers
<1>1. CASE Recover(c)
  BY <1>1 DEF CountInv, Recover, Goto, TypeOK, config
<1>2. CASE Reauthenticate(c)
  <2>1. /\ sent'[c] \in {sent[c], sent[c] + 1} /\ sent[c] \in Nat /\ attempt[c] \in Nat
        /\ client = "direct" => sent'[c] = sent[c]
    BY <1>2 DEF Reauthenticate, Sends, TypeOK
  <2> QED
    BY <1>2, <2>1 DEF CountInv, Reauthenticate, Goto, End, TypeOK, config
<1> QED
  BY <1>1, <1>2

LEMMA CountInvariant == Spec => []CountInv
<1>1. Init => CountInv
  BY DEF Init, CountInv, Spent, Before, Probes, OnceOnly, GaveUp
<1>2. TypeOK /\ CountInv /\ [Next]_vars => CountInv'
  <2> SUFFICES ASSUME TypeOK, CountInv, [Next]_vars PROVE CountInv'
    OBVIOUS
  <2>1. ASSUME NEW c \in Call, Step(c) PROVE CountInv'
    <3>1. (Spent(c) /\ OnceOnly(c) /\ GaveUp(c))'
      BY <2>1, RouteCounts, RequestCounts, RecoverCounts DEF Step
    <3> QED
      BY <2>1, <3>1, OthersKeep DEF CountInv
  <2>2. CASE UNCHANGED <<config, callVars>>
    BY <2>2 DEF CountInv, Spent, Before, Probes, OnceOnly, GaveUp, Recovers, config, callVars
  <2> QED
    BY <2>1, <2>2 DEF Next, BootAuthenticate, BootVersion, Flip, vars
<1> QED
  BY <1>1, <1>2, TypeCorrect, PTL DEF Spec

\* However timeouts, 401s, recoveries and failed detections alternate, no call sends more
\* requests than its budget (execute, _make_request, retry_http_request).
THEOREM SendsAreBounded == Spec => []RequestsBounded
<1>1. TypeOK /\ CountInv => RequestsBounded
  <2> SUFFICES ASSUME TypeOK, CountInv, NEW c \in Call PROVE sent[c] <= Budget(c)
    BY DEF RequestsBounded
  <2>1. /\ attempt[c] \in 1 .. MaxAttempts /\ sent[c] \in Nat /\ MaxAttempts \in Nat
        /\ client \in {"service", "direct"} /\ Probes(c) \in {2, 4}
    BY SessionAssumption DEF TypeOK, Probes
  <2>2. pc[c] \in {"new", "route", "detect", "stamp", "send", "recover", "probe", "resend", "done"}
    BY DEF TypeOK
  <2>3. Spent(c) /\ OnceOnly(c)
    BY DEF CountInv
  <2>4. CASE ~Recovers(c)
    BY <2>1, <2>2, <2>3, <2>4 DEF Spent, Before, OnceOnly, Budget
  <2>5. CASE Recovers(c) /\ client = "direct"
    <3>1. attempt[c] = 1 /\ Before(c) = Probes(c) /\ Budget(c) = Probes(c) + 2
      BY <2>1, <2>3, <2>5 DEF Before, OnceOnly, Budget
    <3> QED
      BY <2>1, <2>2, <2>3, <2>5, <3>1 DEF Spent
  <2>6. CASE Recovers(c) /\ client = "service"
    BY <2>1, <2>2, <2>3, <2>6 DEF Spent, Before, Budget
  <2> QED
    BY <2>1, <2>4, <2>5, <2>6
<1> QED
  BY <1>1, TypeCorrect, CountInvariant, PTL

\* A create, update or delete is carried out at most once, whatever is lost and however
\* often the session is authenticated again.
THEOREM WritesAreNotRepeated == Spec => []WritesRunOnce
<1>1. CountInv => WritesRunOnce
  BY DEF CountInv, OnceOnly, WritesRunOnce
<1> QED
  BY <1>1, CountInvariant, PTL

\* The service gives up on a request without an answer only after max_attempts attempts.
THEOREM AttemptsAreUsed == Spec => []RetriedBeforeGivingUp
<1>1. CountInv => RetriedBeforeGivingUp
  BY DEF CountInv, GaveUp, RetriedBeforeGivingUp
<1> QED
  BY <1>1, CountInvariant, PTL

-----------------------------------------------------------------------------
(* Credentials                                                             *)

\* The constructor has not finished before the first call of the service; then its session
\* has the header the credentials allow.  The direct client has it before the call goes on.
Prepared ==
    /\ boot # "up" => client = "service" /\ \A c \in Call : pc[c] = "new"
    /\ boot # "authenticate" /\ client = "service" /\ creds => header
    /\ client = "direct" => \A c \in Active : creds /\ header

\* An untroubled call is on its straight way, with credentials the gateway accepts
StraightOn ==
    \A c \in Call \ troubled :
        /\ pc[c] \in {"new", "route", "detect", "stamp", "send", "done"}
        /\ pc[c] \in {"route", "detect", "stamp", "send"} => welcome /\ creds /\ header
        /\ pc[c] = "done" => outcome[c] = "ok"

AuthInv == Prepared /\ StraightOn

LEMMA StartAuth ==
    ASSUME TypeOK, AuthInv, NEW c \in Call, Start(c)
    PROVE  AuthInv'
<1>1. boot = "up" /\ UNCHANGED <<boot, client, creds, welcome>>
  BY DEF Start, config, gatewayVars
<1>2. header' = (header \/ (client = "direct" /\ creds))
  BY DEF Start
<1>3. \A d \in Call \ {c} : pc'[d] = pc[d] /\ outcome'[d] = outcome[d]
  BY DEF Start, Goto, End, TypeOK
<1>4. pc'[c] = IF client = "direct" /\ ~creds THEN "done" ELSE "route"
  BY DEF Start, Goto, End, TypeOK
<1>5. Prepared'
  BY <1>1, <1>2, <1>3, <1>4 DEF AuthInv, Prepared, Active
<1>6. troubled \subseteq troubled' /\ (c \notin troubled' => welcome /\ creds)
  BY DEF Start
<1>7. StraightOn'
  <2> SUFFICES ASSUME NEW d \in Call \ troubled'
               PROVE  (/\ pc[d] \in {"new", "route", "detect", "stamp", "send", "done"}
                       /\ pc[d] \in {"route", "detect", "stamp", "send"} => welcome /\ creds /\ header
                       /\ pc[d] = "done" => outcome[d] = "ok")'
    BY DEF StraightOn
  <2>1. CASE d = c
    BY <1>1, <1>2, <1>4, <1>6, <2>1 DEF AuthInv, Prepared, TypeOK
  <2>2. CASE d # c
    BY <1>1, <1>2, <1>3, <1>6, <2>2 DEF AuthInv, StraightOn
  <2> QED
    BY <2>1, <2>2
<1> QED
  BY <1>5, <1>7 DEF AuthInv

\* A step after the start: the session keeps its header, the others stay as they are
LEMMA StepAuth ==
    ASSUME TypeOK, AuthInv, NEW c \in Call, Step(c), ~Start(c)
    PROVE  AuthInv'
<1>1. /\ UNCHANGED <<boot, client, creds, welcome>>
      /\ header => header'
      /\ c \in Active
  <2>1. CASE Recover(c)
    <3>1. header' = (header \/ creds)
      BY <2>1 DEF Recover
    <3>2. UNCHANGED <<boot, client, creds, welcome>> /\ c \in Active
      BY <2>1 DEF Recover, Active, config, gatewayVars
    <3> QED
      BY <3>1, <3>2, Zenon
  <2>2. CASE Route(c) \/ Detect(c) \/ Stamp(c) \/ Reauthenticate(c)
    <3>1. header' = header
      BY <2>2 DEF Route, Detect, Stamp, Reauthenticate, sessionVars
    <3>2. UNCHANGED <<boot, client, creds, welcome>> /\ c \in Active
      BY <2>2 DEF Route, Detect, Stamp, Reauthenticate, Active, config, gatewayVars
    <3> QED
      BY <3>1, <3>2, Zenon
  <2>3. CASE Succeeds(c) \/ Rejected(c) \/ Lost(c) \/ Unauthorized(c)
    BY <2>3 DEF Succeeds, Rejected, Lost, Unauthorized, Requesting, Active, config, sessionVars, gatewayVars
  <2> QED
    BY <2>1, <2>2, <2>3 DEF Step
<1>2. \A d \in Call \ {c} : pc'[d] = pc[d] /\ outcome'[d] = outcome[d]
  BY DEF Step, Route, Detect, Stamp, Succeeds, Rejected, Lost, Unauthorized, Recover,
         Reauthenticate, Goto, End, TypeOK
<1>3. Prepared'
  <2>1. boot = "up"
    BY <1>1 DEF AuthInv, Prepared, Active, TypeOK
  <2>2. ASSUME client = "direct" PROVE creds /\ header'
    BY <1>1, <2>2 DEF AuthInv, Prepared
  <2>3. client = "service" /\ creds => header'
    BY <1>1, <2>1 DEF AuthInv, Prepared
  <2> QED
    BY <1>1, <2>1, <2>2, <2>3 DEF Prepared
<1>4. troubled' \in {troubled, troubled \cup {c}}
  BY DEF Step, Route, Detect, Stamp, Succeeds, Rejected, Lost, Unauthorized, Recover,
         Reauthenticate, Trouble
<1>5. ASSUME c \notin troubled'
      PROVE  /\ welcome /\ creds /\ header
             /\ \/ pc'[c] \in {"detect", "stamp", "send"}
                \/ pc'[c] = "done" /\ outcome'[c] = "ok"
  <2>1. c \notin troubled /\ pc[c] \in {"route", "detect", "stamp", "send"} /\ welcome /\ creds /\ header
    BY <1>1, <1>4, <1>5 DEF AuthInv, StraightOn, Active
  <2>2. ~Rejected(c) /\ ~Lost(c) /\ ~Unauthorized(c) /\ ~Recover(c) /\ ~Reauthenticate(c)
    BY <1>5, <2>1 DEF Rejected, Lost, Unauthorized, Recover, Reauthenticate, Trouble
  <2>3. Route(c) \/ Detect(c) \/ Stamp(c) \/ Succeeds(c)
    BY <2>2 DEF Step
  <2> QED
    BY <2>1, <2>3 DEF Route, Detect, Stamp, Succeeds, Goto, End, TypeOK
<1>6. StraightOn'
  <2> SUFFICES ASSUME NEW d \in Call \ troubled'
               PROVE  (/\ pc[d] \in {"new", "route", "detect", "stamp", "send", "done"}
                       /\ pc[d] \in {"route", "detect", "stamp", "send"} => welcome /\ creds /\ header
                       /\ pc[d] = "done" => outcome[d] = "ok")'
    BY DEF StraightOn
  <2>1. CASE d = c
    BY <1>1, <1>4, <1>5, <2>1 DEF AuthInv, StraightOn, Active
  <2>2. CASE d # c
    BY <1>1, <1>2, <1>4, <2>2 DEF AuthInv, StraightOn
  <2> QED
    BY <2>1, <2>2
<1> QED
  BY <1>3, <1>6 DEF AuthInv

LEMMA AuthInvariant == Spec => []AuthInv
<1>1. Init => AuthInv
  BY DEF Init, AuthInv, Prepared, StraightOn, Active
<1>2. TypeOK /\ AuthInv /\ [Next]_vars => AuthInv'
  <2> SUFFICES ASSUME TypeOK, AuthInv, [Next]_vars PROVE AuthInv'
    OBVIOUS
  <2>1. CASE BootAuthenticate \/ BootVersion
    <3>1. \A c \in Call : pc[c] = "new"
      BY <2>1 DEF BootAuthenticate, BootVersion, AuthInv, Prepared
    <3>2. client = "service" /\ UNCHANGED <<client, creds, pc, troubled>>
      BY <2>1 DEF BootAuthenticate, BootVersion, AuthInv, Prepared, config, callVars
    <3>3. StraightOn'
      BY <3>1, <3>2 DEF StraightOn
    <3>4. CASE BootAuthenticate
      BY <3>1, <3>2, <3>3, <3>4 DEF BootAuthenticate, AuthInv, Prepared
    <3>5. CASE BootVersion
      BY <3>1, <3>2, <3>3, <3>5 DEF BootVersion, AuthInv, Prepared, Active, config, callVars
    <3> QED
      BY <2>1, <3>4, <3>5
  <2>2. ASSUME NEW c \in Call, Step(c) PROVE AuthInv'
    BY <2>2, StartAuth, StepAuth
  <2>3. CASE Flip
    BY <2>3 DEF Flip, AuthInv, Prepared, StraightOn, Active, config, sessionVars, callVars, TypeOK
  <2>4. CASE UNCHANGED vars
    BY <2>4 DEF AuthInv, Prepared, StraightOn, Active, vars, config, sessionVars, callVars, gatewayVars
  <2> QED
    BY <2>1, <2>2, <2>3, <2>4 DEF Next
<1> QED
  BY <1>1, <1>2, TypeCorrect, PTL DEF Spec

\* A call during which nothing went wrong succeeds, however the constructor's own
\* authentication, earlier calls and concurrent recoveries went.
THEOREM UntroubledSucceed == Spec => []UntroubledCallsSucceed
<1>1. AuthInv => UntroubledCallsSucceed
  BY DEF AuthInv, StraightOn, UntroubledCallsSucceed
<1> QED
  BY <1>1, AuthInvariant, PTL

-----------------------------------------------------------------------------
(* Versions                                                                *)

\* The service's header is set when its constructor is done, and differs from the version
\* it keeps only as a guess; where it does not, no call comes to detect anything.
Stamped ==
    client = "service" =>
        /\ version # None => version \in confirmed
        /\ boot = "up" => stamp # None
        /\ boot # "up" => version = None /\ stamp = None
        /\ boot = "up" /\ stamp # Latest =>
                version = stamp /\ \A c \in Call : pc[c] \notin {"detect", "stamp"}
        /\ \A c \in Call : pc[c] # "stamp"

LEMMA BootStamps ==
    ASSUME TypeOK, AuthInv, Stamped, BootVersion
    PROVE  Stamped'
<1>1. /\ client = "service" /\ UNCHANGED <<client, pc>> /\ boot' = "up"
      /\ version = None /\ \A c \in Call : pc[c] = "new"
  BY DEF BootVersion, AuthInv, Prepared, Stamped, config, callVars
<1>2. PICK ping \in Answer, root \in Answer :
        Pin(Detected(ping, root)) /\ stamp' = Returned(version')
  BY DEF BootVersion
<1>3. version' # None => version' \in confirmed'
  BY <1>1, <1>2 DEF Pin
<1>4. stamp' # None
  <2>1. version' \in Version \cup {None} /\ None \notin Version
    BY <1>2, PinOK, SessionAssumption
  <2> QED
    BY <1>2, <2>1, ReturnedOK
<1> QED
  BY <1>1, <1>2, <1>3, <1>4 DEF Stamped, Returned

LEMMA StepStamps ==
    ASSUME TypeOK, AuthInv, Stamped, NEW c \in Call, Step(c)
    PROVE  Stamped'
<1>1. UNCHANGED <<client, boot>> /\ boot = "up" /\ \A d \in Call \ {c} : pc'[d] = pc[d]
  <2>1. UNCHANGED <<client, boot>> /\ \A d \in Call \ {c} : pc'[d] = pc[d]
    BY DEF Step, Start, Route, Detect, Stamp, Succeeds, Rejected, Lost, Unauthorized, Recover,
           Reauthenticate, Requesting, Goto, End, TypeOK, config
  <2>2. boot = "up"
    <3>1. CASE Start(c)
      BY <3>1 DEF Start
    <3>2. CASE ~Start(c)
      BY <3>2 DEF AuthInv, Prepared, Step, Route, Detect, Stamp, Succeeds, Rejected, Lost,
                  Unauthorized, Recover, Reauthenticate, Requesting, TypeOK
    <3> QED
      BY <3>1, <3>2
  <2> QED
    BY <2>1, <2>2
<1>2. CASE client = "direct"
  BY <1>1, <1>2 DEF Stamped
<1>3. CASE client = "service" /\ Detect(c)
  <2>1. pc[c] = "detect" /\ pc'[c] = "send" /\ stamp' = stamp /\ stamp = Latest
    BY <1>1, <1>3 DEF Detect, Goto, Stamped, TypeOK
  <2>2. version' # None => version' \in confirmed'
    BY <1>3 DEF Detect, Pin, Stamped
  <2> QED
    BY <1>1, <2>1, <2>2 DEF Stamped
<1>4. CASE client = "service" /\ ~Detect(c)
  <2>1. ~Stamp(c)
    BY <1>4 DEF Stamp, Stamped
  <2>2. UNCHANGED <<version, stamp, confirmed>>
    BY <1>4, <2>1 DEF Step, Start, Route, Succeeds, Rejected, Lost, Unauthorized, Recover,
                      Reauthenticate, sessionVars
  <2>3. pc'[c] # "stamp" /\ (pc'[c] = "detect" => version = None)
    BY <1>4, <2>1 DEF Step, Start, Route, Succeeds, Rejected, Lost, Unauthorized, Recover,
                      Reauthenticate, Goto, End, TypeOK
  <2> QED
    BY <1>1, <2>2, <2>3 DEF Stamped
<1> QED
  BY <1>2, <1>3, <1>4 DEF TypeOK

\* What the service keeps as its version was an answer of the gateway (get_api_version), and
\* its X-API-Version header says another only as the guess of the constructor.
THEOREM OnlyAnswersArePinned == Spec => []GuessNotPinned
<1>1. Init => Stamped
  BY DEF Init, Stamped
<1>2. TypeOK /\ AuthInv /\ Stamped /\ [Next]_vars => Stamped'
  <2> SUFFICES ASSUME TypeOK, AuthInv, Stamped, [Next]_vars PROVE Stamped'
    OBVIOUS
  <2>1. CASE BootAuthenticate
    BY <2>1 DEF BootAuthenticate, Stamped, config, callVars
  <2>2. CASE BootVersion
    BY <2>2, BootStamps
  <2>3. ASSUME NEW c \in Call, Step(c) PROVE Stamped'
    BY <2>3, StepStamps
  <2>4. CASE UNCHANGED <<client, boot, version, stamp, confirmed, pc>>
    BY <2>4 DEF Stamped
  <2> QED
    BY <2>1, <2>2, <2>3, <2>4 DEF Next, Flip, vars, config, sessionVars, callVars
<1>3. TypeOK /\ Stamped => GuessNotPinned
  BY DEF TypeOK, Stamped, GuessNotPinned
<1> QED
  BY <1>1, <1>2, <1>3, TypeCorrect, AuthInvariant, PTL DEF Spec

=============================================================================
