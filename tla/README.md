# Verification of the `ansible.platform` collection

TLA+ models, TLC runs and TLAPS proofs for the Ansible collection
`ansible.platform` (Ansible Automation Platform gateway and controller
resources). The reference is the code under `src/`; paths below are relative to
the repository root `src/`.

## The system

A playbook task runs an *action plugin* in a forked Ansible worker. The plugin
asks the *connection plugin* for a client; in the persistent mode the client
talks over a Unix socket to a *manager process* that all workers of the playbook
share and that keeps one authenticated HTTP session to the *gateway*.

| Component | Source | State | Operations | What is hard | What makes it correct |
|---|---|---|---|---|---|
| Acquisition of the manager | `plugins/connection/http.py`, `plugin_utils/manager/process_manager.py`, `rpc_client.py` | socket file, `.meta` file, lock file, manager processes | reuse check, stale check, cleanup by name, flock, spawn, startup wait, `.meta` write, connect | workers race on files without a lock; non-atomic `.meta`; every step can fail or be killed | one manager per identity, no leaked lock, every call ends, a settled manager is kept, nothing outlives the playbook |
| Manager process | `plugin_utils/manager/manager_process.py` | socket, service container, ready event, threads | bind, initialise in the background, serve, idle exit, owner watchdog, signals | three independent ways to leave, racing with new clients at the same path | leaves when the owner does; serves only when initialised; removes only its own files |
| `PlatformService`: activity, session, authentication | `plugin_utils/manager/platform_manager.py` 68–333, `platform/credential_manager.py` | activity clock, shutdown flag, token, session headers | record activity, 401 recovery, refresh, re-authenticate | concurrent RPC threads; calls longer than the idle timeout | no active client is cut off; recovery tried once |
| HTTP retry | `platform/retry.py`, `platform/exceptions.py` | attempt counter | retry, classify, back off | which errors reach which branch | what is retryable is retried, at most `max_attempts` times |
| `PlatformService`: resources | `platform_manager.py` 496–1367, `platform/base_client.py` | lookup cache, versions | find, create, update, delete, associate, copy, search, paginate | non-atomic read then write; stale cache; partial failure | converges to the requested state, reports `changed` truthfully |
| Resource task | `plugins/action/base_action.py` 1091–1413 and the plugins that extend it | the task's result | present, absent, exists, enforced, check mode | exceptions of the read are read as "not there" | idempotent; reports what is true |
| Ephemeral and direct clients | `http.py` 150–285, `platform/direct_client.py`, `plugins/lookup/gateway_api.py` | a process or a session per task | spawn, call, terminate | nobody may be left to end the process | no process outlives its task |
| Registry and loader | `platform/registry.py`, `platform/loader.py` | table of versions | choose a compatible version | ordering of versions | the best supported version is chosen |
| Transforms and dataclasses | `plugin_utils/api/`, `plugin_utils/ansible_models/` | none | field mappings | – | – |

Interaction: workers share with each other, and with managers, only the files of
one socket path (`<dir>/manager_<uid>_<host>_<hash>.sock`, `.meta`, `.lock`); client and
service interact by calls over `multiprocessing.managers`; service and gateway by
HTTP. The component list with its modelling status, and the list of hazards with
the line where each one bites, are in `PROJECT.json`.

## Modules

| Module | Models | Uses |
|---|---|---|
| `ManagerService` | the promise: one provider, every client is served | – |
| `PersistentManager` | how workers obtain the manager of a playbook | implements `ManagerService` when workers are serial |
| `ManagerLifetime` | one manager process from its start to its end, with time | – |
| `Session` | one authenticated session: versions, 401, retries | – |
| `ResourceTask` | one object: what a resource task does to the gateway | – |
| `FieldTasks`, `Resources` | one object's values in their three forms; the fields of 27 resources | `MCFieldTasks` joins the two |
| `LinkTasks` | sets of links: role assignments, associations, searches; the name cache | – |
| `PersistentManagerProofs`, `PersistentManagerSerial`, `ResourceTaskProofs`, `SessionProofs`, `LifetimeProofs`, `LinkProofs`, `LinkEffectProofs`, `FieldTaskProofs` | the theorems | the module each is named for |

The modules meet at their interfaces: `ManagerLifetime` refines what is one
step in `PersistentManager` (`IdleShutdown`, `Sigterm`, `Watchdog`); every
request of `ResourceTask`, `FieldTasks` and `LinkTasks` is one call of
`Session`, whose failures are their faults; `FieldTasks` opens the values that
`ResourceTask` compares for equality.

Left: `ManagerLifetime` as a refinement of the managers of `PersistentManager`;
`state: find`, renaming and moving; an abstract specification of `ResourceTask` (a
task that ends without failure is one atomic step).

## `PersistentManager`: how a playbook obtains its manager

Each worker runs `_get_persistent_client` once. `pc[w]` is its place in that
function, `cand[w]` the manager whose authkey it holds, `w \in own` says that it
spawned that manager itself (and so keeps its `Popen` object, see `PidExists`),
`lock` the holder of the flock. `sock` is the manager whose socket the path names
and `meta` the manager whose pid and authkey the `.meta` file holds, `Torn` while
the file is open for writing. `life[m]` is the state of a manager process:
`starting`, `bound` (socket there, service not yet), `ready`, `broken` (service
failed), `closing` and `unlinking` (idle exit), `locked` (a signal handler that holds
`_shutdown_lock`), `wedged` (a second signal there), `stopping`, `dead`;
`owner[m]` is the process its watchdog looks at.

| Code | Actions |
|---|---|
| reuse check, `http.py` 322–345 and again 363–382 | `Peek`, `Probe`, `ReadMeta`, `Dial`, `GetProxy`; the second pass differs only in where a failure leads, so both are the same actions and `lock = w` tells them apart (`NoReuse`, `ConnectFailed`) |
| `cleanup_old_socket`, on both passes and before a spawn | `UnlinkSock`, `UnlinkMeta` |
| `flock`, finally clause | `Flock`, `Unlock`, `Quit` |
| spawn, startup wait, `.meta`, connect, `http.py` 387–446 | `Launch`, `AwaitSocket`, `OpenMeta`, `WriteMeta`, then `Dial`, `GetProxy` |
| the task's first RPC, `rpc_client.py` 72–93 | `FirstCall` |
| `manager_process.main` | `Bind`, `InitService`, `IdleShutdown`, `IdleUnlinkSock`, `IdleExit`, `Sigterm`, `SigtermAgain`, `SigtermExit`, `Watchdog` |
| the rest of the world | `Kill` (a worker dies anywhere), `OwnerExit` |

Abstractions. One identity is modelled: managers of different identities share
no file. The authkey is random per spawn, so a manager stands for its key.
`exists()` and `unlink()` of one path are one action, and so are the two
`exists()` of the reuse check: a step of another process in between gives an
outcome the merged action gives too, before or after it. `bind` and `listen` are
one action. The 5 s and 60 s waits may give up at any moment once the
corresponding fault ("start", "init") is allowed, and never otherwise. Reuse of
a pid, a `PermissionError` of the liveness probe and the `.survive` flag of the
test harness are not modelled. A worker is one task; the next task of the
playbook is the next worker. A worker that was killed or failed no longer holds
an unreaped child, one that is alive does.

`Faults` selects what the environment may do and `Leftover` which files earlier
runs may have left; both are constants, so the theorems can say under which of
them they hold.

`ManagerService` is the abstract promise: at any time at most one *provider*, a
client only ever gets the current provider, and, fairly, every client is served.

## `ResourceTask`: what a resource task does to the gateway

All tasks are about one name, the value of the lookup field; ids are never
reused. An object is its optional fields. `pc[t]` is the task's place in `run()`:
`find`, then one of `create`, `fetch`, `patch`, `delete`, each of which is one HTTP
request; `target[t]` is the id its find returned, `current[t]` what
`_update_resource` read before its PATCH, `report[t]` the flags of its result.

| Code | Actions and operators |
|---|---|
| `_prepare_action` and `run()`, up to the first request, `base_action.py` 380–427, 1112–1136 | `Begin`, `Validated` |
| `_find_resource` and the four branches on its outcome, `base_action.py` 1138–1255 | `FindHit`, `FindMiss`, `FindFails`; `NotThere` is the branch for "no such object", which most states also take for any exception |
| `_should_update` | `ShouldUpdate` |
| check mode, `base_action.py` 1262–1287 | `Proceed` |
| `_create_resource`, `_execute_operations` | `Create`, `Fresh`, `Writes` |
| `_update_resource`: second read, merge, PATCH, comparison | `Fetch`, `Body`, `Patch`, `Differs` |
| `_delete_resource` | `Delete` |
| result or exception handler | `End` |
| the gateway and its other clients | `Patched`, `Fault`, `ForeignWrite` |

A task runs through a manager or on a `DirectHTTPClient` (`rt_tasks` has both).
The direct client looks for the object again before an update and a delete
(`Refound`), compares before it writes and reads back afterwards (`DirectFetch`,
`Told`), merges nothing, so it does not undo foreign writes, and takes a garbled
answer to a write for success. Its comment says that `""` is included on update so
that `enforced` can clear a field; the code skips `""`.

A request can be refused, its answer lost after it took effect, or its answer not
be JSON (`FaultKinds`); the three differ because a JSON error is a `ValueError`,
which `enforced` takes for "not found", and because DELETE does not parse its
answer. With `Duplicates` the gateway accepts a second object of the name, as it
does for resources whose lookup field is not unique; otherwise it answers 400.
`before`, `after`, `met` and `crossed` are history variables that no action reads:
the objects when the task began and ended, the tasks one of whose requests went
wrong and those during which somebody else wrote.

`Default` are the defaults that a module's documentation gives its fields. The
validator puts them into the parameters of a task that omits the field
(`base_action.py` 404–412), and from there on nothing tells the two apart:
`_should_update` compares a default, `asdict(resource)` (333–351) sends it, and a
PATCH writes it over what the object holds. So a `http_port` task that gives only
`name` and `number` turns `use_https` off, although
`docs/02-action-plugin-pattern.md` 96–98 says that unspecified optional fields are
left untouched; the docstring of `_build_ansible_data` (336–339) tells plugins to
override it against just that, and the plugins of these resources do not.
`UnmentionedKept` is therefore about the fields that are neither mentioned nor
defaulted.

Abstractions. Normalising values before a comparison, names against ids of foreign
keys, read-only fields and the filtering of the output are left out: the model
compares fields for equality. An update always has something to send, because a
task reaches it only with a given field that differs.

## `Session`: one authenticated session

Calls (`pc[c]`) share one session: its `Authorization` header, the version it
believes in, its `X-API-Version` header (`stamp`), `_auth_lock`. The client is a
`PlatformService`, used by several threads at once, or a `DirectHTTPClient`, one
call at a time.

| Code | Actions and operators |
|---|---|
| `PlatformService.__init__`, `_authenticate`, `_detect_api_version` | `BootAuthenticate`, `BootVersion` |
| `_build_url`, `get_api_version`, detection by ping, then by the root | `Route`, `Detect`, `Resolved`, `RootVersion`, `Detected`, `Pin`, `Returned` |
| `DirectHTTPClient.execute`, which sets the `X-API-Version` header, 829–834 | `Stamp` |
| `_make_request` under `retry_http_request`, `classify_exception` | `Succeeds`, `Rejected`, `Lost`, `Retries` |
| 401: `_handle_auth_error` under `_auth_lock` | `Unauthorized`, `Recover`, `Reauthenticate`, `Release` |
| the gateway changes its mind on the credentials | `Flip` |

Only `search_api` goes through `_make_request` in the service; creates, updates
and deletes go out on the bare session and are neither retried nor recovered. No
store is ever given a refresh token, so a recovery is always a new
authentication. A version is a sequence of numbers; which classes a version
selects is not modelled. Back-off delays are time only.

What the model had to follow, against docs and comments: `retry.py` 150–155 calls
5xx and 429 retryable, but `raise_for_status` raises before the decorator sees the
status, and `classify_exception` makes of it a plain `PlatformError` (or, for a 401,
a `TypeError`), so error statuses are never tried again. `get_api_version` falls
back to the latest version (`Latest`), which `_detect_api_version` says never
happens. `base_client.py` 76–81 says that a guess is not cached, so that the next
call detects again "instead of permanently using a guess". This holds of the
version in the URLs of a service. But its constructor writes what
`get_api_version` returned, a guess or not, into the session's `X-API-Version`
header (`platform_manager.py` 104–105), and nothing sets that header again: a guess
stays there for the life of the manager. `GuessNotPinned` says both. The direct
client's `search_api` keeps its guess altogether (730–736), so that property is about
the service. And as a guess is not cached, a direct client's `execute` that has just
failed to detect the version (829) detects it once more for the header (832–834): up
to four probes before the request, which `Probes` counts. Two threads
that detect at once may see different versions; the later one stays.

## `ManagerLifetime`: one manager process, second by second

`pc[t]` and `wait[t]` are the place of each thread (`main`, idle monitor, watchdog,
and the thread that serves a client's `shutdown_manager`) and how long it still
sleeps; `idle` is the time since `record_activity`, `closing` is
`_shutdown_requested`, `lock` `_shutdown_lock`; `target` says whether the owner's pid
(or the `.survive` file) is there, gone, or given to another process.

| Code | Actions |
|---|---|
| `main()`, `_init_service` | `Serve`, `InitService` |
| `signal_handler` | `Signal` |
| `_shutdown_service`, `PlatformService.shutdown`, `os._exit` | `Proceed`, `Enter`, `Leave`, `Exit` |
| `_idle_monitor`, `should_exit_for_idle`, `_compute_poll_interval` | `Check`, `ShouldExit`, `Poll` |
| `_owner_watchdog` | `Look`, `Period` |
| `execute` and `_make_request`, `record_activity` | `Call`, `Touch`, `Return` |
| time, the rest of the world | `Tick`, `OwnerGone`, `Reuse` |

Time passes only when no thread can go on (`Due`). `IdleCutsOnlyLongOrLate` states
precisely what the idle exit may cut off, since activity is recorded when a call
starts and not when it ends. Documented otherwise: `docs/11` gives a poll
interval of 360 s for a timeout of 3600 s (the code caps it at 60); the "10 %
worst-case overshoot" does not hold under the floor of 5 s; `shutdown` "signals
the manager process to exit", but nothing exits, and the idle exit is disabled from
then on: such a process ends with its owner only. `server.shutdown()` raises a
`TypeError` that is swallowed. A second SIGTERM that arrives while the handler of
the first holds `_shutdown_lock` wedges the main thread for ever (`Wedged`), which
every property here excepts by name.

## `LinkTasks`: links, one request at a time

The gateway holds names (`id`), things that are alive, a set of links, and the
things with an assignment of another user or another role (`others`). A job
wants the links of some names: the lists of `role_user_assignment` and
`role_team_assignment` (`grant`, `revoke`, `exists`; `typed` if the objects are given
by name and type), the auditor role of `user`, the associations of `job_template`
and `inventory_source`; `list` and `one` are the searches of `gateway_api` and
`job_list`. `cache` is the lookup cache of the manager, which nothing ever leaves.

| Code | Actions and operators |
|---|---|
| the common state machine before the links | `Begin`, `Crud`, `OnlyReports` |
| `lookup_resource_id`, `_lookup_resource_ids`, `resolve` of a typed object | `Known`, `Remember`, `Resolve`, `Identify`, `Target` |
| `_resolve_fk` and `from_ansible_data` of `role_user_assignment` | `Named`, `Lenient`, `Clear`, `Blurs`, `Aim` |
| `search_api`, `_collect_pages` | `ReadPage`, `TooMany`, `Counted`, `Follows`, `Answer` |
| `manage_associations` | `Associate`, `Disassociate`, `Reconciled` |
| the loops over assignments, `_handle_platform_auditor` | `FindHit`, `FindMiss`, `FindFails`, `Create`, `Delete`, `GoesOn` |
| the same for a user's assignment with an unresolved name | `FindBlurred`, `CreateBlurred`, `Evict` |
| the gateway and its other clients, which are not under the collection's control | `Place`, `OnPage`, `HasNext`, `Post`, `ForeignLink`, `ForeignRename` |

A page is read from the links as they are at that moment, so pages shift under a
reader when links change. Faults: a request is refused, its answer is lost, the
last page names the first as the next. Not modelled: cyclic pages that are empty
(the code would read them for ever), the cut of a batch of names at the length
of a URL, typed objects of other services (looked up without the cache), the
comparison of a role's content type with the type of an object, and that the cache of
the manager is cleared when it shuts down. `whom` is the name of the role or of the
user, if one of them is not given by id; the two behave alike. `stale` and
`crossed` are history variables: `stale` the tasks that used a name which has moved
since it was resolved, or that went on with a name they could not resolve at all,
`crossed` those during which somebody else wrote.

**Names that are not resolved.** `role_user_assignment` lets no failed lookup stop it:
`_resolve_fk` (`role_user_assignment.py` 17–34) answers `None` to an unknown name, and
to a refused request as well. An unresolved role or user is left out of the body
and of the filters (66–82); an object's name is looked for among organizations and
then, also if that lookup was only refused, among teams (or the other way round),
whose ids are of another kind (98–112; `Twin`). The find then lists the assignments
of everybody to that object and takes the first (`platform_manager.py` 918–935). A
task in state present takes it for its own and reports "unchanged" without granting
anything; one in state absent deletes it; if none is found, a create without role
or user is an error, one for the twin is not. `LinkedAsAsked` and `ChangeTold` except
such tasks by name (`stale`), and `ResolvedKeepOthers` proves that only they take
away what belongs to others; `links_strangers` shows that they do.

Seen while modelling: `role_user_assignment`, `role_team_assignment` and, if the user
itself needs no change, the auditor role of `user` write in check mode, although
`docs/05-design-principles.md` 242 says that every plugin respects it
(`SyncsRespectCheckMode` is about the two plugins that do). A failure after some
assignments were made reports `changed` as FALSE. Errors of a revocation are
swallowed. An object of a team assignment that cannot be resolved ends the whole
task, also one that revokes; for a user it is skipped.

## `FieldTasks` and `Resources`: three forms of one value

A value is written in a task, sent to the API and read back in forms that need
not agree: a reference is a name or digits in the task, a number in the request,
and digits, a number or a name when read. `FieldTasks` has the comparisons and
conversions between forms, `Resources` the fields of each transform mixin as records
that say which form is used where. A task in state present runs twice on its own.

| Code | Operators and actions |
|---|---|
| `_should_update`, `job_template`'s and `settings`' own | `Differs`, `Looked`, `SettingDiffers`, `Outstanding` |
| `_prepare_action`: documented defaults | `Validated`, `Defaulted`, `RouteFlags` |
| `from_ansible_data`, with names that cannot be resolved, and flags it refuses together | `Sent`, `Raises`, `Clashes` |
| `from_api` | `Shown` |
| `_update_resource`: merge, `get_fields_to_null_for_update`, PATCH | `Merged`, `Body`, `Flattened`, `Update` |
| its comparison afterwards | `Noticed`, `Changed` |
| `_create_resource` | `Fresh`, `Create` |

A field with a documented default is never omitted (`Validated`, as in
`ResourceTask`): the flags of `http_port`, `route`, `service` and `ui_plugin_route`,
`remove_users` and `configuration` of `authenticator`, `revoke` of
`authenticator_map`, `pkce_required` of `application`. An object that holds another
value is reset by a task that does not mention the field. `route` refuses mutual TLS
with gateway authentication (`api/gateway/v1/route.py` 67–71); as the latter defaults
to true, a task that gives only `enable_mtls: true` always fails (`Clashes`, one of the
reasons in `Hopeless`).

`AsAsked` and `RerunIsQuiet` except by name what the code does not do, and so list
its blind spots: text against digits is taken for "unknown, no change"
(`Overlooked`), so a reference read back as digits is never moved to another
*name* while no other field differs, and a text of digits is never overwritten by
words; a name nobody has is dropped for some references and passes as unchanged
(`Ignored`); hidden values, `redirect_uris`, `organizations` of users, team organizations
given by id and settings spelled otherwise than Python prints them report
`changed` on every run (`Restless`); a `feature_flag` or `authenticator_user` that does
not exist is reported as changed though there is no operation that creates it and
nothing was sent (`Pretended`), where the documentation of `authenticator_user`
says it will be created.

Left out: renaming and moving (a rerun of such a task finds nothing under the old
name and creates a twin), `authenticator.slug`, the order of keys in a group's JSON,
the checks of `action/route.py` before a request, `service.gateway_path` on create, and
the options of a move of an authenticator user.

## What the runs show

| Run | Instance | Shows |
|---|---|---|
| `pm_serial` | 3 workers one after the other (`forks = 1`), 3 managers, no faults, every leftover in which an earlier manager is either gone or in service | never two managers (`OneLiveManager`), no task fails (`NoTaskFails`), and the protocol implements `ManagerService` with its liveness (`ImplementsService`) |
| `pm_parallel` | 3 parallel workers, 4 managers, no faults, every leftover | when all workers have finished, exactly one manager is published (`Converged`); a manager that is published, ready and not about to be removed stays so (`SettledForever`) |
| `pm_faults` | 2 parallel workers, 3 managers, every fault, the files of a dead manager | `SpawnSerialized`, `LockHeldInside`; under fairness, `EveryCallEnds` and, but for managers that a second signal has wedged, `NoManagerOutlivesPlaybook` |
| `pm_cold_race` | 3 parallel workers, no faults, no files | `OneLiveManager` is violated |
| `rt_tasks` | 2 tasks, each in any state, with any of 3 sets of fields, one of which has a documented default, with or without check mode; every fault, duplicates, one foreign write | what a task reports is what it did: `PresentMeansPresent`, `UnmentionedKept`, `ChangedIsTruthful`; `RerunIsNoop`; a second object of the name needs a failed request or two writers (`DuplicatesNeedTrouble`); check mode writes nothing and foretells the report (`CheckModeWritesNothing`, `CheckModeForetells`) |
| `session` | 2 calls, any client, 4 possible answers to a probe, every fault, 1 change of the gateway's mind, 3 attempts | `RequestsBounded`, `WritesRunOnce`, `RetriedBeforeGivingUp`, `UntroubledCallsSucceed`, `GuessNotPinned`; under fairness, `CallsEnd` |
| `life` | one process, a timeout of 2 s or none, with or without a watchdog, a client, 2 signals, a pid that is reused | `OvershootBounded`, `IdleCutsOnlyLongOrLate`, `OrphanBounded`; under fairness, `OwnerExitEnds`, `IdleEnds` |
| `links` | 11 pairs of jobs, 2 names, one of which may be unknown, 3 ids, every fault, one foreign write | `LinkedAsAsked`, `ChangeTold`, `SameWishConverges`, `SyncsRespectCheckMode`; under fairness, `TasksEnd` |
| `fields` | every resource, up to three kinds of its fields at a time, every object and task, two runs | `AsAsked`, `RerunIsQuiet` |
| `rt_absence` | tasks in state absent or exists, requests may be refused | `AbsenceIsObserved` is violated |
| `rt_lost_update` | tasks in state present, no faults, one foreign write | `UpdatesOnlyMentioned` is violated |
| `links_strangers` | one task that revokes a role given by its name, requests may be refused | `OthersKept` is violated |

Why these bounds. Three workers are the least for which one holds the lock, one
waits for it and one is on the unlocked path. A manager is spawned only under the
lock and by a worker that never spawns again, so workers + 1 managers are all
that can ever be needed (`pm_parallel`, `pm_faults`); in the serial run three
suffice since only one is spawned. In `pm_faults` liveness and 2 workers already
give some 170 000 states; starting from the files of a dead manager, the other
leftovers arise in the run itself by kills, idle exits and failed `.meta` writes.
`pm_parallel` uses the symmetry of workers; its only action property is symmetric
in them and no liveness is checked there.

In the `rt_` runs `MaxId` is one initial object plus one per task and foreign
write, so it never stops a creation. Two fields and two values tell a mentioned field from an
unmentioned one and a set value from an empty one; in `rt_tasks` the second field has a
documented default, in the two violations no field has one. Two tasks are the least for a
rerun and for a duplicate, and one foreign write for each crossing. Tasks stop when
they are done, so these runs do not check for deadlock; they check no liveness
and use the symmetry of tasks.

`session`: two calls are the least for a recovery that another one waits for; three
attempts let a 401 come before, between and after timeouts; the credentials
are accepted or refused at first, and one flip turns that round during any request. The
gateway supports two versions, and a failed detection guesses the second (`Latest`),
so that a guess differs from what a later ping confirms. `life`: `ReadyWait` is 2 s instead of 60,
the timeout of 2 s is polled every 5 s, so that the floor of the interval shows; the
mode `survive` differs in the period only and is left to the proofs, as are more
clients; two signals are the least that wedge. `links`: pages of one object make
every listing of two links a paged one; `MaxObjects` = 2 stops a listing whose pages
are cyclic, or that three links fill, as the code's limit does; each
pair sets two tasks on the same wish, on opposite ones, or one to read what the
other writes; in two of them a role or user is given by the name `b`. That name may be
unknown, or that of a team, too, with the id of `a` (`Twin`), and somebody else is
assigned to `a` (`Strangers`): the least for a find to go astray either way. `fields`: fields that differ in name only are interchangeable, so
one of each kind stands for all; three at a time, because the comparison of one
field decides whether another is sent, and a third is merged or nulled. Values are
two words and one number, which tell text from digits; references have two
objects and a name nobody has. Nobody else writes and no request fails there:
`ResourceTask` has both.

**What the other violations show.** `rt_absence`: any exception of the find, a
refused connection as well as "not found", makes state absent report "already
absent" without failure, and state exists report FALSE (`base_action.py` 1148,
1205). `rt_lost_update`: the PATCH of a task in state present repeats the values just
read of the fields it does not mention (`platform_manager.py` 642), so it undoes a
write of another client between the read and the PATCH. `links_strangers`: a task that
revokes a role it names, where the name is unknown or its lookup is refused once,
deletes the first assignment anybody has to the object, although
`docs/10-case-study-aap-platform.md` 88 says that role, user and object together
identify an assignment.

Known from the code, without a run: `docs/02-action-plugin-pattern.md` 156–158 says
that state enforced resets omitted optional fields. The code sets them to `None`
in the merged state and `_should_update` skips `None`, so an object whose given
fields match is left with whatever its other fields hold (`base_action.py` 1243).
When they do not match, line 1252 keeps only the keys for which
`hasattr(MODEL_CLASS, k)`: a dataclass has no class attribute for a required field such as
`name`, so the constructor raises and the task fails. `ResourceTask` takes both ways
(`Outdated`, `FindHit`).

**The race `pm_cold_race` finds.** `http.py` 349–351 says that exactly one worker
spawns while the others wait and then find its manager. But the fast path runs
without the lock: a worker that reads the `.meta` file between `open("w")` and the
end of `json.dump` gets a JSON error and calls `cleanup_old_socket`, which removes
the socket and the `.meta` of the manager just spawned. The spawner's connect then
fails, its task fails, and the next holder of the lock spawns a second manager;
the first stays, unreachable, until the watchdog ends it. `pm_parallel` shows that
the damage is bounded: the last worker always leaves one published manager.

**Fairness.** Weak fairness of each worker's next statement and of each manager's
next step, since both are processes the kernel schedules; none for beginning a
task, for kills, idle exits, signals or the end of an owner. `flock` needs no
strong fairness here: a worker that waits competes with finitely many others, each
of which takes the lock once. `Session`: weak fairness of the constructor and of each
call, whose requests all have a timeout; none for the gateway. `ManagerLifetime`: weak
fairness of the threads and of time, none for clients or signals. `LinkTasks`: weak
fairness of each task's next step, because a request is answered or times out.

## What is proved

All theorems hold for any sets of workers and managers. `ConstantsAssumption`
only says that `None` and `Torn` are not managers or workers and that the other
constants are in their ranges.

- `TypeCorrect`: `Spec => []TypeOK`, one lemma for workers, one for managers.
- `SpawnsNeverOverlap`, `LockNeverLeaks`: `Spec => []SpawnSerialized` and
  `Spec => []LockHeldInside`, for every choice of faults. The inductive invariant
  `LockInv` says that a worker at a spawn point holds the lock, that a worker in
  `own` is between the spawn and its first call, and that the lock's holder is
  inside its call. Neither property is inductive alone: that a spawner which
  connects still holds the lock needs the second conjunct.
- `SettledStaysSettled`: without faults, `Spec => SettledForever`. `CalmInv` says
  that no manager is leaving and that only the playbook may have ended.
- `OneManagerWhenSerial`: without faults, with one worker at a time and usual
  leftovers, `Spec => []OneLiveManager`. `OneLiveManager` says nothing of how a
  worker about to spawn knows that nobody is alive; `SerialInv` adds it: every
  live manager is either *arriving*, known to the one active worker, or *in
  service*, found by the next one.
- `RaceConverges`: without faults, and with at least one worker, `Spec =>
  []Converged` for any leftovers. Two invariants carry it. `RaceInv`: a starting
  manager has the path to itself and a spawner that waits for it (`StartInv`);
  what a spawned manager then loses, it loses to a worker that cleans up without
  the lock and will look again under it (`SpawnInv`). `RepairInv`: as long as no
  manager is published, some worker cannot return before it has looked under the
  lock or has spawned (`Undecided`). Both hold only while the playbook runs, and
  so does `Converged`.
- `EveryTaskIsServed`: under the assumptions of `OneManagerWhenSerial`, `Spec =>
  []NoTaskFails`. `ServedInv` adds that an attached worker reaches its manager, which
  is ready; that a spawner reaches its own is `RaceInv` with nobody else active.
- `StepsImplementService`: under the same assumptions, every initial state of
  `PersistentManager` is one of `ManagerService` and every step is a step of it or a
  stutter. With the fairness of `ManagerService`, which TLC checks, this is
  `ImplementsService`.

For `ResourceTask`, for any tasks, fields, values, requests and faults;
`ResourceAssumption` says that the special values are no fields' values and that
the other constants are in their ranges:

- `TaskTypeCorrect`: `Spec => []TypeOK`. `TypeOK` is not inductive: what a fetch
  stores is an object only if the id it uses came from find. `TaskInv` adds that
  (`TargetKnown`) and that a task in check mode never reaches a writing request
  (`CheckStops`).
- `CheckModeIsSafe`: `Spec => CheckModeWritesNothing`, from `TaskInv`.
- `PresentIsKept`: `Spec => []PresentMeansPresent`. The lemma `EndsPresent` follows
  the three ways in which such a task can end well (nothing to do, POST, PATCH);
  the invariant adds that only a task in state absent comes to DELETE.
- `UnmentionedIsKept`, `ChangedIsTrue`, `CheckModeIsForesight`,
  `RerunChangesNothing`, `DuplicatesMeanTrouble`: the other invariants of `rt_tasks`.
  All of them compare the objects a task ended with to those it began with, so
  `EffectInv` says that a running task nobody crossed still sees the objects it
  began with, and why it is where it is (`Sees`, `Reason`); what such a task has
  done when it ends, in one of three ways or not at all (`Effect`: `Made`,
  `Updated`, `Removed`); and that there is one object at most while nobody has met
  trouble (`Lone`).

`RerunIsNoop` takes for granted that there was one object of the name at most when
the first of the two tasks began (`Sole`). The proof needs it, and so do three tasks
in TLC: one whose find goes wrong creates a duplicate, and state absent then
deletes one object at a time, so that its rerun deletes the second. Two tasks are too
few to show this.

For `Session`, for any calls, attempts, answers and faults (`SessionAssumption`): all
its safety properties. `CountInv` relates, for each call, what it has sent to its
attempt and place (`Spent`: each place has its own allowance, which is why the
budget alone is not inductive), says that a write the gateway carried out is over
(`OnceOnly`), and that a search is only given up on its last attempt (`GaveUp`).
`AuthInv` says that the header is there once the constructor or the direct client
has prepared it (`Prepared`) and that a call nobody troubled never leaves the
straight path (`StraightOn`); `UntroubledSucceed` follows. Theorems: `TypeCorrect`,
`SendsAreBounded`, `WritesAreNotRepeated`, `AttemptsAreUsed`, `UntroubledSucceed`,
`OnlyAnswersArePinned`. The bound of `SendsAreBounded` counts both detections of a
direct client's write; `OnlyAnswersArePinned` is about the version in the URLs, and
says of the header that it differs from it only as the constructor's guess.

For `ManagerLifetime`, for any clients, timeouts, waits, signals and modes
(`LifetimeAssumption`): all its safety properties. That nothing happens after the
exit is a lemma (`ExitIsFinal`), and so is that no time passes while the shutdown
lock is held (`NoTimeInside`, from `LockInv`); without it a monitor that waits for the
lock could overshoot. `OvershootInv` bounds `idle` by what the monitor still sleeps,
`CutInv` the length of each call from below by `idle`, `OrphanInv` the owner's absence by
what the watchdog still sleeps or waits. Theorems: `LifeTypeCorrect`,
`OvershootIsBounded`, `OnlyLongOrLateAreCut`, `OrphanIsBounded`.

For `LinkTasks`, for any tasks, names, page size and faults, and any finite set of ids
(`LinkAssumption`): all its state invariants and its action property, in two modules.
`OrderInv` adds to `TypeOK` what each task keeps by itself (`Orderly`): the course of
its kind, the object it aims at, its tally, and the bound on what it has read.
`KnowledgeInv` is about the tasks whose links nobody else changed since they began:
every link on a page behind such a task has been seen (`Reading`). This rests on
`Place`, the rank of a link in the listing: no two links share a place, so a page
never holds more than `PageSize` and none is skipped. When the listing ends the task
then knows all the links (`Knowing`). `ConvergenceInv` gives the three ways the
tasks of one wish can stand: nobody has written and nothing was crossed, or one of
them leads and nothing undoes its wish (`Leads`), or the wish is fulfilled.
`TellingInv` says that a synchronisation only links what it wants and only unlinks what it does not
(`Monotone`), so that it has written exactly when the links differ from those it
began with. Theorems: `LinksTypeCorrect`, `ChecksWriteNothing`,
`LinkedAsAskedAlways`, `SameWishConvergesAlways`, `ChangeToldAlways`,
`ResolvedKeepOthers`. A task that went on with a name it could not resolve is `stale`
from then on, so that the first and the third say nothing of it; the last one shows
that nothing but that leads to somebody else's assignment: only a step in `evict`
changes `others`, and only `FindBlurred` leads there (lemma `BlurredStale`).

For `FieldTasks`, for resources with any number of fields and values: all its
invariants. `ResourceAssumption` (`IsResource`) lists what the resources of the
collection have in common and what the proofs use: which forms a field that is read
in a given form may be written in (`IsReadable`); that only plain fields bar
others, and only plain ones are barred (`BarsAreFlat`); and that no resource has
both a field that may call for an update without being noticed in its answer
(`IsMuffled`) and one that may be noticed without calling for an update
(`IsTouchy`): together they would report a change that is none on a rerun. TLC
evaluates it for the instances of the run and, as `CollectionAssumption`, for every
resource of `Resources` with all its fields, so the theorems hold of the 27
resources as they are, where `fields` takes three fields at a time. `TaskInv`
follows the two runs of a task: what brought it to its place (`Control`), what each
run did (`AsAsked`), and between the runs what the first has left (`Interval`,
`Between`): no object and no way to create it, nothing outstanding, an object whose
creation could not carry every field, or the fields as the task asks (`Met`). From
`Met` the second run's PATCH stores what is there (`RerunStores`). Theorems:
`FieldTypesHold`, `RunsDoAsAsked`, `RerunsAreQuiet`.

Every invariant of the passing runs is proved, and so are their action
properties. Model-checked only: liveness under fairness (`EveryCallEnds`,
`NoManagerOutlivesPlaybook`, `CallsEnd`, `OwnerExitEnds`, `IdleEnds`, `TasksEnd`, and the
fairness of `ManagerService` in `ImplementsService`), which is out of the prover's
reach, and the four violations. TLC has also checked `RaceInv`, `RepairInv`, `ServedInv` and
the parts of `FieldTasks`' `TaskInv` as invariants on the instances of the runs;
they are no invariants of the runs because each is implied by a theorem.

## What is not modelled

Components with status `not_modelled` in `PROJECT.json`, each with its reason.
Of the modelled ones: the plugin `token`, which always creates; `copy_from` and
`survey_spec` of `job_template` (`copy_resource`, `manage_sub_resource`); the
order of writing endpoints within one operation, since every mixin has one at most;
the shaping of results; the file
system scan of the registry and the choice of classes by the loader.
Known limits of `PersistentManager`: a worker whose playbook process was killed is
reparented, and the manager it then spawns watches pid 1 for ever (`owner =
"init"`); `NoManagerOutlivesPlaybook` is about managers that watch the playbook. A second
SIGTERM (or SIGINT) that arrives while the handler of the first holds `_shutdown_lock`
(`platform_manager.py` 113, 1381) waits for that lock in the thread that holds it, and
so does the watchdog (`wedged`): such a process outlives its playbook, still answers
calls, and is excepted by name. `ManagerLifetime` has the same state among its
threads.
A manager borrowed from another playbook ends with that playbook (fault "owner").
`_get_or_spawn_persistent_manager` in `base_action.py` 512–677 is not called from
anywhere and has no model.
