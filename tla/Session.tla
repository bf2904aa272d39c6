------------------------------- MODULE Session -------------------------------
(***************************************************************************)
(* Calls over one authenticated HTTP session.  The session is that of a    *)
(* PlatformService, which the threads of a manager process share, or that  *)
(* of a DirectHTTPClient, which one task uses on its own.                  *)
(*                                                                         *)
(* Modelled are the version detection that precedes a call, the recovery   *)
(* from a 401 under _auth_lock, and the retries of retry_http_request.     *)
(* What a call asks for is abstracted to its kind: "search" goes through   *)
(* _make_request in both clients, "write" (create, update, delete) in the  *)
(* direct client only: PlatformService sends it on the bare session.       *)
(***************************************************************************)
EXTENDS Naturals, Sequences, FiniteSets

CONSTANTS
    Call,         \* RPC calls, one thread each; or the calls of one task
    None,         \* "no version", "nobody"
    Supported,    \* gateway versions the collection ships, <<1>>, <<2>>, ...
    Latest,       \* the one a failed detection guesses: get_latest_version, or <<1>>
    Answer,       \* what the ping and root endpoints may answer
    Faults,       \* what may happen to a request: see FaultKinds
    MaxAttempts,  \* RetryConfig.max_attempts
    MaxFlips      \* bound on how often the gateway changes its mind on the credentials

FaultKinds == {"lost", "transient", "client"}
Version == Seq(Nat) \ {<<>>}

\* A probe's answer: did it arrive with a 2xx status, and which versions do its
\* X-API-Version header and the current_version of its body name
Probe == [ok : BOOLEAN, header : Version \cup {None}, body : Version \cup {None}]

ASSUME SessionAssumption ==
    /\ None \notin Call
    /\ None \notin Version
    /\ Supported \subseteq Version
    /\ Latest \in Supported \cup {<<1>>}
    /\ Answer \subseteq Probe
    /\ Faults \subseteq FaultKinds
    /\ MaxAttempts \in Nat \ {0}
    /\ MaxFlips \in Nat

VARIABLES
    client,    \* which client this is
    creds,     \* were a token, or a username and a password, configured?
    boot,      \* where PlatformService.__init__ is
    header,    \* does the session carry an Authorization header?
    version,   \* api_versions["gateway"], None while unknown
    stamp,     \* the X-API-Version header of the session, None while it has none
    authLock,  \* the holder of _auth_lock
    kind,      \* what each call is
    pc,        \* where it is
    attempt,   \* the attempt of the retry loop, from 1
    outcome,   \* how it ended
    welcome,   \* does the gateway accept the credentials now?
    flips,     \* how often it still changes that
    sent,      \* history: requests the call has sent
    ran,       \* history: how often the gateway carried the call out
    confirmed, \* history: versions that answers of the gateway confirmed
    troubled   \* history: calls that met a fault or an unwelcoming gateway

config == <<client, creds, kind>>
sessionVars == <<header, version, stamp, authLock>>
callVars == <<pc, attempt, outcome, sent, ran>>
gatewayVars == <<welcome, flips>>
vars == <<config, boot, sessionVars, callVars, gatewayVars, confirmed, troubled>>

TypeOK ==
    /\ client \in {"service", "direct"}
    /\ creds \in BOOLEAN
    /\ boot \in {"authenticate", "version", "up"}
    /\ header \in BOOLEAN
    /\ version \in Version \cup {None}
    /\ stamp \in Version \cup {None}
    /\ authLock \in Call \cup {None}
    /\ kind \in [Call -> {"search", "write"}]
    /\ pc \in [Call -> {"new", "route", "detect", "stamp", "send", "recover", "probe", "resend", "done"}]
    /\ attempt \in [Call -> 1 .. MaxAttempts]
    /\ outcome \in [Call -> {"none", "ok", "unauthorized", "lost", "transient", "client"}]
    /\ welcome \in BOOLEAN
    /\ flips \in 0 .. MaxFlips
    /\ sent \in [Call -> Nat]
    /\ ran \in [Call -> Nat]
    /\ confirmed \subseteq Version
    /\ troubled \subseteq Call

Init ==
    /\ client \in {"service", "direct"}
    /\ creds \in BOOLEAN
    /\ boot = IF client = "service" THEN "authenticate" ELSE "up"
    /\ header = FALSE
    /\ version = None
    /\ stamp = None
    /\ authLock = None
    /\ kind \in [Call -> {"search", "write"}]
    /\ pc = [c \in Call |-> "new"]
    /\ attempt = [c \in Call |-> 1]
    /\ outcome = [c \in Call |-> "none"]
    /\ welcome \in BOOLEAN
    /\ flips = MaxFlips
    /\ sent = [c \in Call |-> 0]
    /\ ran = [c \in Call |-> 0]
    /\ confirmed = {}
    /\ troubled = {}

Active == {c \in Call : pc[c] \notin {"new", "done"}}

-----------------------------------------------------------------------------
(* Version detection                                                       *)

\* A version string is taken as it is or for its major number, if that is supported
Resolved(raw) ==
    IF raw \in Supported THEN raw
    ELSE IF raw # None /\ <<raw[1]>> \in Supported THEN <<raw[1]>> ELSE None

\* Tier 2, and the only tier of the other services: the header, then the body
RootVersion(root) ==
    CASE ~root.ok -> None
      [] root.ok /\ Resolved(root.header) # None -> Resolved(root.header)
      [] OTHER -> Resolved(root.body)

\* Does the first tier decide?  A ping that arrives without a header confirms v1.
PingDecides(ping) == ping.ok /\ (Resolved(ping.header) # None \/ <<1>> \in Supported)

Detected(ping, root) ==
    CASE ~PingDecides(ping) -> RootVersion(root)
      [] PingDecides(ping) /\ Resolved(ping.header) # None -> Resolved(ping.header)
      [] OTHER -> <<1>>

ProbeRequests(ping) == IF PingDecides(ping) THEN 1 ELSE 2

\* Mutant of Pin: the fallback is kept like a detected version
PinFallback(found) ==
    /\ version' = IF found = None THEN <<1>> ELSE found
    /\ confirmed' = confirmed \cup ({found} \ {None})

\* get_api_version: what was detected is kept, the fallback is not
Pin(found) ==
    /\ version' = IF found = None THEN version ELSE found
    /\ confirmed' = confirmed \cup ({found} \ {None})

\* What get_api_version returns, then: the guess of a failed detection included
Returned(known) == IF known = None THEN Latest ELSE known

\* Mutant of BootAuthenticate: the header is set once the probe has succeeded
BootAuthenticateLate ==
    /\ boot = "authenticate"
    /\ boot' = "version"
    /\ header' \in {FALSE, creds}
    /\ UNCHANGED <<config, version, stamp, authLock, callVars, gatewayVars, confirmed, troubled>>

\* The constructor authenticates; if that fails it goes on.  Either way the header is set.
BootAuthenticate ==
    /\ boot = "authenticate"
    /\ boot' = "version"
    /\ header' = creds
    /\ UNCHANGED <<config, version, stamp, authLock, callVars, gatewayVars, confirmed, troubled>>

\* The session's header gets what is returned, for good: nothing sets it again
BootVersion ==
    /\ boot = "version"
    /\ boot' = "up"
    /\ \E ping \in Answer, root \in Answer : Pin(Detected(ping, root))
    /\ stamp' = Returned(version')
    /\ UNCHANGED <<config, header, authLock, callVars, gatewayVars, troubled>>

-----------------------------------------------------------------------------
(* Steps shared by all calls                                               *)

Goto(c, point) ==
    /\ pc' = [pc EXCEPT ![c] = point]
    /\ UNCHANGED <<attempt, outcome>>

End(c, result) ==
    /\ pc' = [pc EXCEPT ![c] = "done"]
    /\ outcome' = [outcome EXCEPT ![c] = result]
    /\ UNCHANGED attempt

Sends(c, n) == sent' = [sent EXCEPT ![c] = @ + n]

Trouble(c) == troubled' = troubled \cup {c}

\* Does the call go through _make_request, with its recovery from a 401?
Recovers(c) == client = "direct" \/ kind[c] = "search"

\* Mutant of Retries: the direct client retries, too
RetriesAnyClient(c) == Recovers(c) /\ attempt[c] < MaxAttempts

\* Mutant of Retries: only the repetition after a 401 is counted
RetriesUncounted(c) == client = "service" /\ Recovers(c) /\ pc[c] = "send"

\* Mutant of Retries: a timeout is final
RetriesNothing(c) == FALSE

\* Is an exception of the request, as opposed to an error status, met with another
\* attempt?  Only PlatformService._make_request wears the decorator.
Retries(c) == client = "service" /\ Recovers(c) /\ attempt[c] < MaxAttempts

\* The manager serves a call once the service is there; a direct client does one call
\* at a time and sets its header, if it can, before the first
Start(c) ==
    /\ pc[c] = "new"
    /\ boot = "up"
    /\ client = "direct" => Active = {}
    /\ header' = (header \/ (client = "direct" /\ creds))
    /\ IF client = "direct" /\ ~creds THEN End(c, "unauthorized") ELSE Goto(c, "route")
    /\ troubled' = IF welcome /\ creds THEN troubled ELSE troubled \cup {c}
    /\ UNCHANGED <<config, boot, version, stamp, authLock, sent, ran, gatewayVars, confirmed>>

\* _build_url needs the version of the service
Route(c) ==
    /\ pc[c] = "route"
    /\ Goto(c, IF version = None THEN "detect" ELSE "send")
    /\ UNCHANGED <<config, boot, sessionVars, sent, ran, gatewayVars, confirmed, troubled>>

\* search_api of the direct client falls back to v1, keeps that and sets the header.  Its
\* execute comes to the header next, if the session has none.
Detect(c) ==
    /\ pc[c] = "detect"
    /\ \E ping \in Answer, root \in Answer :
        LET found == Detected(ping, root) IN
        /\ Sends(c, ProbeRequests(ping))
        /\ IF client = "direct" /\ kind[c] = "search"
           THEN /\ IF found = None THEN version' = <<1>> /\ UNCHANGED confirmed ELSE Pin(found)
                /\ stamp' = version'
           ELSE Pin(found) /\ UNCHANGED stamp
    /\ Goto(c, IF client = "direct" /\ kind[c] = "write" /\ stamp = None THEN "stamp" ELSE "send")
    /\ UNCHANGED <<config, boot, header, authLock, ran, gatewayVars, troubled>>

\* execute asks for the version again to set the header: a guess was not kept, so the
\* gateway is probed a second time
Stamp(c) ==
    /\ pc[c] = "stamp"
    /\ IF version = None
       THEN \E ping \in Answer, root \in Answer :
                Sends(c, ProbeRequests(ping)) /\ Pin(Detected(ping, root))
       ELSE UNCHANGED <<version, confirmed, sent>>
    /\ stamp' = Returned(version')
    /\ Goto(c, "send")
    /\ UNCHANGED <<config, boot, header, authLock, ran, gatewayVars, troubled>>

-----------------------------------------------------------------------------
(* The request and its repetition after a recovered 401                    *)

Requesting(c) == pc[c] \in {"send", "resend"} /\ Sends(c, 1)

Succeeds(c) ==
    /\ Requesting(c)
    /\ header /\ welcome
    /\ End(c, "ok")
    /\ ran' = [ran EXCEPT ![c] = @ + 1]
    /\ UNCHANGED <<config, boot, sessionVars, gatewayVars, confirmed, troubled>>

\* An error status, of the client's or of the gateway's making.  raise_for_status has
\* raised before the decorator looks at the status, and what it raised is not retryable.
Rejected(c) ==
    /\ Requesting(c)
    /\ header /\ welcome
    /\ \E status \in Faults \cap {"transient", "client"} : End(c, status)
    /\ Trouble(c)
    /\ UNCHANGED <<config, boot, sessionVars, ran, gatewayVars, confirmed>>

\* No answer arrives, whether or not the gateway carried the call out
Lost(c) ==
    /\ Requesting(c)
    /\ "lost" \in Faults
    /\ \/ UNCHANGED ran
       \/ header /\ welcome /\ ran' = [ran EXCEPT ![c] = @ + 1]
    /\ IF Retries(c)
       THEN /\ pc' = [pc EXCEPT ![c] = "send"]
            /\ attempt' = [attempt EXCEPT ![c] = @ + 1]
            /\ UNCHANGED outcome
       ELSE End(c, "lost")
    /\ Trouble(c)
    /\ UNCHANGED <<config, boot, sessionVars, gatewayVars, confirmed>>

\* 401: recovered from once per attempt
Unauthorized(c) ==
    /\ Requesting(c)
    /\ ~(header /\ welcome)
    /\ IF pc[c] = "send" /\ Recovers(c) THEN Goto(c, "recover") ELSE End(c, "unauthorized")
    /\ UNCHANGED <<config, boot, sessionVars, ran, gatewayVars, confirmed, troubled>>

-----------------------------------------------------------------------------
(* _handle_auth_error.  No store is ever given a refresh token, so          *)
(* _refresh_token returns False and every recovery re-authenticates.        *)

\* _authenticate, up to its GET of the base URL
Recover(c) ==
    /\ pc[c] = "recover"
    /\ authLock = None
    /\ authLock' = c
    /\ header' = (header \/ creds)
    /\ Goto(c, "probe")
    /\ UNCHANGED <<config, boot, version, stamp, sent, ran, gatewayVars, confirmed, troubled>>

\* Mutant of Release: the lock is let go after a successful probe only
ReleaseSuccess(recovered) == authLock' = IF recovered THEN None ELSE authLock

\* with self._auth_lock
Release(recovered) == authLock' = None

\* The service's GET may be answered whatever the gateway thinks of the credentials; the
\* direct client sends none.  Without credentials both raise.
Reauthenticate(c) ==
    /\ pc[c] = "probe"
    /\ \E recovered \in IF client = "direct" THEN {creds} ELSE {creds, FALSE} :
        /\ Release(recovered)
        /\ IF recovered THEN Goto(c, "resend") ELSE End(c, "unauthorized")
    /\ Sends(c, IF client = "service" /\ creds THEN 1 ELSE 0)
    /\ UNCHANGED <<config, boot, header, version, stamp, ran, gatewayVars, confirmed, troubled>>

\* The gateway stops or starts accepting the credentials
Flip ==
    /\ flips > 0
    /\ flips' = flips - 1
    /\ welcome' = ~welcome
    /\ troubled' = IF welcome THEN troubled \cup Active ELSE troubled
    /\ UNCHANGED <<config, boot, sessionVars, callVars, confirmed>>

Step(c) ==
    \/ Start(c) \/ Route(c) \/ Detect(c) \/ Stamp(c)
    \/ Succeeds(c) \/ Rejected(c) \/ Lost(c) \/ Unauthorized(c)
    \/ Recover(c) \/ Reauthenticate(c)

Finished == \A c \in Call : pc[c] = "done"

Next ==
    \/ BootAuthenticate
    \/ BootVersion
    \/ \E c \in Call : Step(c)
    \/ Flip
    \/ Finished /\ UNCHANGED vars

\* Threads and the constructor make progress: every request has a timeout
Fairness == WF_vars(BootAuthenticate) /\ WF_vars(BootVersion) /\ \A c \in Call : WF_vars(Step(c))

Spec == Init /\ [][Next]_vars /\ Fairness

-----------------------------------------------------------------------------
(* Properties                                                              *)

\* The requests a call may spend on the version: two for each detection, of which a write
\* of the direct client may need two
Probes(c) == IF client = "direct" /\ kind[c] = "write" THEN 4 ELSE 2

\* The most requests a call may send: the probes, and per attempt the request, the
\* service's GET of the base URL and the repetition
Budget(c) ==
    Probes(c) + CASE ~Recovers(c) -> 1
                  [] Recovers(c) /\ client = "direct" -> 2
                  [] OTHER -> 3 * MaxAttempts

\* However timeouts, 401s, recoveries and failed detections alternate, a call sends a
\* bounded number of requests (execute, _make_request, retry_http_request).
RequestsBounded == \A c \in Call : sent[c] <= Budget(c)

\* A call that writes is carried out at most once, although searches are repeated and
\* 401s recovered from: the gateway did nothing when it said 401.
WritesRunOnce == \A c \in Call : kind[c] = "write" => ran[c] <= 1

\* A call of the service that gives up for want of an answer has used all its attempts,
\* also when a 401 came in between.
RetriedBeforeGivingUp ==
    \A c \in Call :
        client = "service" /\ kind[c] = "search" /\ outcome[c] = "lost" => attempt[c] = MaxAttempts

\* A call during which nothing went wrong succeeds, however the constructor's own
\* authentication, earlier calls and concurrent recoveries went.
UntroubledCallsSucceed ==
    \A c \in Call : pc[c] = "done" /\ c \notin troubled => outcome[c] = "ok"

\* PlatformService names a version in its URLs only when an answer of the gateway confirmed
\* it (get_api_version: the fallback is not cached).  The X-API-Version header of its
\* session differs from that only as the guess of a failed detection in the constructor:
\* such a guess stays in the header for the life of the manager.
GuessNotPinned ==
    client = "service" =>
        /\ version # None => version \in confirmed
        /\ stamp # version => stamp = Latest

\* Every call ends: nobody keeps _auth_lock, no retry goes on for ever.
CallsEnd == \A c \in Call : <>(pc[c] = "done")

=============================================================================
