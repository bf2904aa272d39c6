----------------------------- MODULE Resources ------------------------------
(***************************************************************************)
(* The fields of the collection's resources, for module FieldTasks: one    *)
(* definition per transform mixin, its from_ansible_data, the fields of    *)
(* its operations and its from_api taken together; what from_ansible_data  *)
(* resolves or withholds has one of its own in the longer mixins.  The     *)
(* names of objects and read-only fields are left out.                     *)
(***************************************************************************)
EXTENDS FiniteSets

Referents == {"red", "blue"}
Numerals == {"42"}
Words == Referents \cup Numerals
Always == {"create", "update"}

Plain(n) ==
    [name |-> n, values |-> Words, forms |-> {"own"}, read |-> "own", miss |-> "never",
     sent |-> Always, needed |-> FALSE, default |-> {}, shuns |-> {}, key |-> FALSE,
     named |-> FALSE, mutable |-> FALSE, bars |-> [v \in Words |-> {}]]

Two(n, forms, read) ==
    [Plain(n) EXCEPT !.values = Referents, !.forms = forms, !.read = read]

\* Strings; numbers, flags, lists and dictionaries stored as such
Text(names) == {Plain(n) : n \in names}
Typed(names) == {Two(n, {"typed"}, "typed") : n \in names}

\* With a documented default, called "red" whatever it is
Defaulted(names) == {[f EXCEPT !.default = {"red"}] : f \in Typed(names)}

\* A dictionary stored as JSON text; a list stored as text with spaces
Json(names) == {Two(n, {"dict"}, "text") : n \in names}
Joined(names) == {Two(n, {"list"}, "text") : n \in names}

\* References to other objects, by name or id
Reference(names, miss, read) ==
    {[Two(n, {"text", "digits"}, read) EXCEPT !.miss = miss] : n \in names}

Needed(fields) == {[f EXCEPT !.needed = TRUE] : f \in fields}

\* References that find filters by
Key(n, miss, read) ==
    {[f EXCEPT !.key = TRUE] : f \in Needed(Reference({n}, miss, read))}

SentBy(operations, fields) == {[f EXCEPT !.sent = operations] : f \in fields}

Unkeyed(fields) == [kind |-> "plain", fields |-> fields]
Keyed(fields) == [kind |-> "keyed", fields |-> fields]
NeverCreated(fields) == [kind |-> "given", fields |-> SentBy({"update"}, fields)]
-----------------------------------------------------------------------------
(* Gateway                                                                 *)

Authenticator == Unkeyed(
    Text({"type"})
    \cup Typed({"enabled", "create_objects", "order"})
    \cup Defaulted({"remove_users", "configuration"})
    \cup Reference({"auto_migrate_users_to"}, "dropped", "digits"))

\* _MAP_TYPE_EXCLUDED_FIELDS
Excluded ==
    [allow        |-> {"role", "team", "organization"},
     is_superuser |-> {"role", "team", "organization"},
     organization |-> {"team"},
     role         |-> {"team", "organization"},
     team         |-> {}]

AuthenticatorMap == Keyed(
    Key("authenticator", "zero", "digits")
    \cup {[Plain("map_type") EXCEPT !.values = DOMAIN Excluded, !.bars = Excluded]}
    \cup Text({"team", "organization", "role"}) \cup Typed({"triggers", "order"})
    \cup Defaulted({"revoke"}))

CACertificate == Unkeyed(Text({"pem_data", "sha256", "related_id_reference"}))

HttpPort == Unkeyed(Typed({"number"}) \cup Defaulted({"use_https", "is_api_port"}))

Organization == Unkeyed(Text({"description"}))

RoleDefinition == Unkeyed(Text({"description", "content_type"}) \cup Typed({"permissions"}))

RouteReferences == Reference({"http_port", "service_cluster"}, "dropped", "number")

\* The gateway authenticates by default, without mutual TLS; a route cannot have both
RouteFlags ==
    Defaulted({"is_service_https", "enable_gateway_auth"})
    \cup {[f EXCEPT !.shuns = {<<"blue", "enable_gateway_auth", "red">>}] :
            f \in Defaulted({"enable_mtls"})}

Route == Unkeyed(
    Text({"description", "gateway_path", "service_path", "node_tags"})
    \cup Typed({"is_internal_route", "reject_failed_basic_auth", "service_port",
                "idle_timeout_seconds", "request_timeout_seconds"})
    \cup RouteFlags
    \cup RouteReferences)

ServiceReferences == Reference({"http_port", "service_cluster"}, "dropped", "number")

Service == Unkeyed(
    Text({"description", "api_slug", "service_path", "node_tags"})
    \cup Typed({"is_internal_route", "reject_failed_basic_auth", "service_port", "order",
                "idle_timeout_seconds", "request_timeout_seconds"})
    \cup Defaulted({"is_service_https", "enable_gateway_auth", "enable_mtls"})
    \cup ServiceReferences)

ServiceCluster == Unkeyed(
    Text({"auth_type", "upstream_hostname", "dns_discovery_type", "dns_lookup_family"})
    \cup Typed({"outlier_detection_enabled", "outlier_detection_consecutive_5xx",
                "outlier_detection_interval_seconds",
                "outlier_detection_base_ejection_time_seconds",
                "outlier_detection_max_ejection_percent",
                "outlier_detection_split_external_local_origin_errors",
                "outlier_detection_consecutive_local_origin_failure",
                "health_checks_enabled", "health_check_timeout_seconds",
                "health_check_interval_seconds", "health_check_unhealthy_threshold",
                "health_check_healthy_threshold", "healthy_panic_threshold"})
    \cup Reference({"service_type"}, "dropped", "digits"))

ServiceKey == Unkeyed(Typed({"is_active"}))

ServiceNode == Unkeyed(
    Text({"address", "tags"})
    \cup {[f EXCEPT !.mutable = TRUE] : f \in Reference({"service_cluster"}, "dropped", "digits")})

ServiceType == Unkeyed(Text({"ping_url", "login_path", "logout_path", "service_index_path"}))

Team == Keyed(Key("organization", "raised", "text") \cup Text({"description"}))

UIPluginRouteReferences == Reference({"http_port", "service_cluster"}, "dropped", "number")

UIPluginRoute == Unkeyed(
    Text({"description", "ui_plugin_path", "node_tags"})
    \cup Typed({"service_port", "order", "idle_timeout_seconds", "request_timeout_seconds"})
    \cup Defaulted({"is_service_https"})
    \cup UIPluginRouteReferences)

\* A password is sent whenever it is given, or never, as update_secrets says
UserPassword == {Two("password", {"forced", "spared"}, "hidden")}

\* organizations is resolved and compared, but no operation has it
User == Unkeyed(
    Text({"email", "first_name", "last_name"}) \cup Typed({"is_superuser"})
    \cup SentBy({"update"}, Typed({"associated_authenticators"}))
    \cup UserPassword \cup SentBy({}, Reference({"organizations"}, "raised", "hidden")))

ApplicationReferences ==
    Key("organization", "raw", "number") \cup Reference({"user"}, "dropped", "number")

Application == Keyed(
    ApplicationReferences
    \cup Text({"description", "algorithm", "authorization_grant_type", "client_type",
               "app_url"})
    \cup Typed({"skip_authorization"}) \cup Defaulted({"pkce_required"})
    \cup Joined({"redirect_uris", "post_logout_redirect_uris"}))

FeatureFlag == NeverCreated(Text({"value"}))

\* Its update is a move; one without a new authenticator is refused, as one to a name
\* would be.  The options of the move are left out.
AuthenticatorUser == NeverCreated(
    Needed(Reference({"authenticator"}, "raw", "digits"))
    \cup {[Plain("new_uid") EXCEPT !.read = "hidden"]})

\* A flag may be spelled as a text, "true"
Settings == [kind |-> "settings",
             fields |-> Text({"text"}) \cup {Two("flag", {"typed", "spelled"}, "typed")}]

-----------------------------------------------------------------------------
(* Controller                                                              *)

ControllerCredentialType == Unkeyed(
    Text({"description", "kind"}) \cup Typed({"inputs", "injectors"}))

CredentialInputSource == Keyed(
    Key("target_credential", "raised", "digits")
    \cup Reference({"source_credential"}, "raised", "digits")
    \cup Text({"description"}) \cup Typed({"metadata"}))

Group == Keyed(
    Key("inventory", "raised", "digits") \cup Text({"description"}) \cup Json({"variables"}))

Host == Keyed(
    Key("inventory", "raised", "digits") \cup Text({"description", "instance_id"})
    \cup Typed({"enabled"}) \cup Json({"variables"}))

InstanceGroup == Unkeyed(
    Reference({"credential"}, "raised", "digits") \cup Text({"pod_spec_override"})
    \cup Typed({"is_container_group", "policy_instance_percentage",
                "policy_instance_minimum", "max_concurrent_jobs", "max_forks",
                "policy_instance_list"}))

\* organization is no key of find: a label is found whatever its organization is
Label == Unkeyed(Reference({"organization"}, "raised", "digits"))

InventorySourceReferences ==
    Key("inventory", "raised", "digits")
    \cup Reference({"credential", "execution_environment", "source_project"},
                   "raised", "digits")

InventorySource == Keyed(
    InventorySourceReferences
    \cup Text({"description", "source", "source_path", "scm_branch", "enabled_var",
               "enabled_value", "host_filter", "limit"})
    \cup Typed({"overwrite", "overwrite_vars", "timeout", "verbosity", "update_on_launch",
                "update_cache_timeout"})
    \cup Json({"source_vars"}))

JobTemplateReferences ==
    {[f EXCEPT !.named = TRUE] :
        f \in Reference({"inventory", "project", "execution_environment",
                         "webhook_credential"}, "raised", "text")}

JobTemplate == Unkeyed(
    JobTemplateReferences
    \cup Text({"description", "job_type", "playbook", "scm_branch", "limit", "job_tags",
               "skip_tags", "start_at_task", "host_config_key", "webhook_service",
               "opa_query_path"})
    \cup Typed({"extra_vars", "forks", "verbosity", "timeout", "job_slice_count",
                "force_handlers", "use_fact_cache", "survey_enabled", "become_enabled",
                "diff_mode", "allow_simultaneous", "prevent_instance_group_fallback",
                "ask_on_launch"}))

Resources ==
    {Authenticator, AuthenticatorMap, AuthenticatorUser, CACertificate, FeatureFlag, HttpPort,
     Organization, RoleDefinition, Route, Service, ServiceCluster, ServiceKey, ServiceNode,
     ServiceType, Settings, Team, UIPluginRoute, User, Application,
     ControllerCredentialType, CredentialInputSource, Group, Host, InstanceGroup, Label,
     InventorySource, JobTemplate}
=============================================================================
