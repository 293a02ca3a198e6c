------------------------------ MODULE RestTools ------------------------------
(***************************************************************************)
(* The requests the REST servers make for their tools: for each tool the    *)
(* arguments its parameter struct admits and the request its method builds. *)
(*                                                                          *)
(* A request is a method, a path and the arguments it carries.  A path is a *)
(* sequence of pieces, literal or filled with an argument; `query` maps an  *)
(* argument to the key it travels under, `defaulted` are keys sent with a   *)
(* default when the argument is left out, `body` are arguments sent in a    *)
(* JSON body, `local` ones are used on the answer and never sent.  A        *)
(* `checked` tool also looks at argument values before it asks (see each    *)
(* server's table).  What the values are, apart from what they do to a      *)
(* path, is left out; a flag that is sent only when true counts as left out *)
(* when false.                                                              *)
(*                                                                          *)
(* X_variant, next to X, is a deliberately faulty variant of X.             *)
(***************************************************************************)
EXTENDS Naturals, Sequences

Lit(s) == <<"literal", s>>
Arg(p) == <<"argument", p>>  (* a string, through path_segment              *)
Num(p) == <<"number", p>>    (* an i64, formatted as it is                  *)
Lits(s) == [i \in 1..Len(s) |-> Lit(s[i])]

\* An argument struct: every one of them denies unknown fields.
Params(req, opt) == [required |-> req, optional |-> opt]
NoArguments == Params({}, {})

\* Arguments that travel under their own names, or under those keys gives.
Same(names) == [n \in names |-> n]
Under(names, keys) == [n \in names |-> IF n \in DOMAIN keys THEN keys[n] ELSE n]

\* The tools of two tables of different names.
Both(f, g) == [n \in DOMAIN f \cup DOMAIN g |-> IF n \in DOMAIN f THEN f[n] ELSE g[n]]

Ask(method, path, params, query, body) ==
  [method |-> method, path |-> path, params |-> params, query |-> query, body |-> body,
   defaulted |-> {}, local |-> {}, checked |-> FALSE]
Get(path, params, query) == Ask("GET", path, params, query, {})
Read(path) == Get(path, NoArguments, Same({}))

-----------------------------------------------------------------------------
(* Prometheus.                                                             *)

PromParams ==
  [query |-> Params({"query"}, {"time"}),
   query_range |-> Params({"query", "start", "end", "step"}, {}),
   series |-> Params({"selectors"}, {"start", "end"}),
   label_values |-> Params({"label"}, {}),
   targets |-> Params({}, {"state"}),
   rules |-> Params({}, {"rule_type"}),
   metadata |-> Params({}, {"metric"})]

Selectors == [selectors |-> "match[]"]
PromPath(rest) == Lits(<<"api", "v1">>) \o rest

PromTools ==
  LET P == PromParams IN
  [query |-> Get(PromPath(Lits(<<"query">>)), P.query, Same({"query", "time"})),
   query_range |-> Get(PromPath(Lits(<<"query_range">>)), P.query_range,
                       Same({"query", "start", "end", "step"})),
   series |-> Get(PromPath(Lits(<<"series">>)), P.series, Under({"selectors", "start", "end"}, Selectors)),
   labels |-> Read(PromPath(Lits(<<"labels">>))),
   label_values |-> Get(PromPath(<<Lit("label"), Arg("label"), Lit("values")>>),
                        P.label_values, Same({})),
   targets |-> Get(PromPath(Lits(<<"targets">>)), P.targets, Same({"state"})),
   alerts |-> Read(PromPath(Lits(<<"alerts">>))),
   rules |-> Get(PromPath(Lits(<<"rules">>)), P.rules, Under({"rule_type"}, [rule_type |-> "type"])),
   metadata |-> Get(PromPath(Lits(<<"metadata">>)), P.metadata, Same({"metric"})),
   tsdb_status |-> Read(PromPath(Lits(<<"status", "tsdb">>))),
   build_info |-> Read(PromPath(Lits(<<"status", "buildinfo">>)))]

-----------------------------------------------------------------------------
(* Loki.                                                                   *)

Window == {"start", "end"}

LokiParams ==
  [query |-> Params({"query"}, {"time", "limit", "direction"}),
   query_range |-> Params({"query"}, Window \cup {"limit", "step", "direction"}),
   labels |-> Params({}, Window),
   label_values |-> Params({"label"}, Window),
   series |-> Params({"selectors"}, Window),
   index_stats |-> Params({"query"}, Window)]

LokiPath(rest) == Lits(<<"loki", "api", "v1">>) \o rest

LokiTools ==
  LET P == LokiParams IN
  [query |-> [Get(LokiPath(Lits(<<"query">>)), P.query,
                  Same({"query", "limit", "time", "direction"})) EXCEPT !.defaulted = {"limit"}],
   query_range |-> [Get(LokiPath(Lits(<<"query_range">>)), P.query_range,
                        Same({"query", "limit", "step", "direction"} \cup Window))
                    EXCEPT !.defaulted = {"limit"}],
   labels |-> Get(LokiPath(Lits(<<"labels">>)), P.labels, Same(Window)),
   label_values |-> Get(LokiPath(<<Lit("label"), Arg("label"), Lit("values")>>),
                        P.label_values, Same(Window)),
   series |-> Get(LokiPath(Lits(<<"series">>)), P.series, Under({"selectors"} \cup Window, Selectors)),
   index_stats |-> Get(LokiPath(Lits(<<"index", "stats">>)), P.index_stats,
                       Same({"query"} \cup Window))]

-----------------------------------------------------------------------------
(* Proxmox Backup Server.  The node is configured and goes through          *)
(* path_segment like an argument.  task_log is the module TaskLog.          *)

PbsParams ==
  [store |-> Params({"store"}, {}),
   groups |-> Params({"store"}, {"namespace"}),
   snapshots |-> Params({"store"}, {"namespace", "backup_type", "backup_id"}),
   tasks |-> Params({}, {"limit", "errors_only", "running", "since"}),
   task |-> Params({"upid"}, {})]

PbsPath(rest) == Lits(<<"api2", "json">>) \o rest
Datastore(what) == PbsPath(<<Lit("admin"), Lit("datastore"), Arg("store"), Lit(what)>>)
OfNode(rest) == PbsPath(<<Lit("nodes"), Lit("node")>> \o rest)

PbsDatastoreTools ==
  LET P == PbsParams IN
  [list_datastores |-> Read(PbsPath(Lits(<<"admin", "datastore">>))),
   datastore_status |-> Get(Datastore("status"), P.store, Same({})),
   list_groups |-> Get(Datastore("groups"), P.groups, Under({"namespace"}, [namespace |-> "ns"])),
   list_snapshots |-> Get(Datastore("snapshots"), P.snapshots,
                          Under(P.snapshots.optional,
                                [namespace |-> "ns", backup_type |-> "backup-type",
                                 backup_id |-> "backup-id"]))]

PbsTaskTools ==
  LET P == PbsParams IN
  [list_tasks |-> [Get(OfNode(Lits(<<"tasks">>)), P.tasks,
                       Under(P.tasks.optional, [errors_only |-> "errors"]))
                   EXCEPT !.defaulted = {"limit"}],
   task_status |-> Get(OfNode(<<Lit("tasks"), Arg("upid"), Lit("status")>>), P.task, Same({}))]

PbsStatusTools ==
  [gc_status |-> Read(PbsPath(Lits(<<"admin", "gc">>))),
   node_status |-> Read(OfNode(Lits(<<"status">>)))]

PbsTools == Both(PbsDatastoreTools, Both(PbsTaskTools, PbsStatusTools))

-----------------------------------------------------------------------------
(* Tempo.  `checked`: trace_id and push_window refuse values (TimeWindow).  *)
(* A trace ID is hex digits, so it is its own path segment.                 *)

TempoParams ==
  [search |-> Params({"q"}, Window \cup {"limit"}),
   trace |-> Params({"trace_id"}, Window \cup {"max_spans", "attributes", "raw"}),
   search_tags |-> Params({}, Window \cup {"scope", "q"}),
   search_tag_values |-> Params({"tag"}, Window \cup {"q"}),
   metrics_query_range |-> Params({"q"}, Window \cup {"step"})]

TempoTools ==
  LET P == TempoParams
      Windowed(path, params, query) ==
        [Get(path, params, Same(query \cup Window)) EXCEPT !.checked = TRUE]
  IN
  [search |-> [Windowed(Lits(<<"api", "search">>), P.search, {"q", "limit"})
               EXCEPT !.defaulted = {"limit"}],
   trace |-> [Windowed(<<Lit("api"), Lit("v2"), Lit("traces"), Num("trace_id")>>, P.trace, {})
              EXCEPT !.local = {"max_spans", "attributes", "raw"}],
   search_tags |-> Windowed(Lits(<<"api", "v2", "search", "tags">>), P.search_tags, {"scope", "q"}),
   search_tag_values |->
     Windowed(<<Lit("api"), Lit("v2"), Lit("search"), Lit("tag"), Arg("tag"), Lit("values")>>,
              P.search_tag_values, {"q"}),
   metrics_query_range |-> Windowed(Lits(<<"api", "metrics", "query_range">>),
                                    P.metrics_query_range, {"q", "step"}),
   status |-> Read(Lits(<<"api", "echo">>))]

\* What `status` asks, in order: only the first must answer.
TempoStatus == <<Read(Lits(<<"api", "echo">>)), Read(Lits(<<"ready">>)),
                 Read(Lits(<<"api", "status", "buildinfo">>))>>

-----------------------------------------------------------------------------
(* Alertmanager.  `checked`: create_silence refuses an empty matcher list.  *)

AlertParams ==
  LET states == {"active", "silenced", "inhibited"}
      filters == {"filter", "receiver"}
  IN
  [list_alerts |-> Params({}, states \cup filters \cup {"unprocessed"}),
   alert_groups |-> Params({}, states \cup filters),
   list_silences |-> Params({}, {"filter"}),
   silence |-> Params({"id"}, {}),
   create_silence |-> Params({"matchers", "ends_at", "created_by", "comment"}, {"starts_at"})]

AlertPath(rest) == Lits(<<"api", "v2">>) \o rest
Silence == AlertPath(<<Lit("silence"), Arg("id")>>)

\* Every optional filter travels under its own name.
push_filters(path, params) == Get(AlertPath(Lits(path)), params, Same(params.optional))

AlertReadTools ==
  LET P == AlertParams IN
  [list_alerts |-> push_filters(<<"alerts">>, P.list_alerts),
   alert_groups |-> push_filters(<<"alerts", "groups">>, P.alert_groups),
   list_silences |-> push_filters(<<"silences">>, P.list_silences),
   get_silence |-> Get(Silence, P.silence, Same({})),
   list_receivers |-> Read(AlertPath(Lits(<<"receivers">>))),
   status |-> Read(AlertPath(Lits(<<"status">>)))]

AlertSilenceTools ==
  LET create == AlertParams.create_silence IN
  [create_silence |-> [Ask("POST", AlertPath(Lits(<<"silences">>)), create, Same({}),
                           create.required \cup create.optional) EXCEPT !.checked = TRUE],
   expire_silence |-> Ask("DELETE", Silence, AlertParams.silence, Same({}), {})]

\* The write tools are registered only behind the gate.
AlertTools(allow_silence) ==
  IF allow_silence THEN Both(AlertReadTools, AlertSilenceTools) ELSE AlertReadTools

-----------------------------------------------------------------------------
(* Home Assistant.                                                         *)

HaParams ==
  [get_entity |-> Params({"entity_id"}, {}),
   call_service |-> Params({"domain", "service"}, {"entity_id", "service_data"}),
   set_state |-> Params({"entity_id", "state"}, {"attributes"}),
   render_template |-> Params({"template"}, {}),
   get_calendar_events |-> Params({"entity_id", "start", "end"}, {}),
   get_history |-> Params({"entity_ids"},
                          {"start_time", "end_time", "minimal_response", "no_attributes"})]

Api(rest) == <<Lit("api")>> \o rest
State == Api(<<Lit("states"), Arg("entity_id")>>)

HaStateTools ==
  LET P == HaParams IN
  [health_check |-> Read(Api(Lits(<<"">>))),
   get_config |-> Read(Api(Lits(<<"config">>))),
   get_states |-> Read(Api(Lits(<<"states">>))),
   get_entity |-> Get(State, P.get_entity, Same({})),
   set_state |-> Ask("POST", State, P.set_state, Same({}), {"state", "attributes"})]

HaServiceTools ==
  LET P == HaParams IN
  [get_services |-> Read(Api(Lits(<<"services">>))),
   call_service |-> Ask("POST", Api(<<Lit("services"), Arg("domain"), Arg("service")>>),
                        P.call_service, Same({}), {"entity_id", "service_data"}),
   render_template |-> Ask("POST", Api(Lits(<<"template">>)), P.render_template, Same({}),
                           {"template"})]

HaTimeTools ==
  LET P == HaParams IN
  [get_calendars |-> Read(Api(Lits(<<"calendars">>))),
   get_calendar_events |-> Get(Api(<<Lit("calendars"), Arg("entity_id")>>),
                               P.get_calendar_events, Same({"start", "end"})),
   check_config |-> Ask("POST", Api(Lits(<<"config", "core", "check_config">>)),
                        NoArguments, Same({}), {}),
   get_history |-> Get(Api(Lits(<<"history", "period">>)), P.get_history,
                       Under({"entity_ids", "end_time", "minimal_response", "no_attributes"},
                             [entity_ids |-> "filter_entity_id"]))]

\* Every tool hands its whole input to the client method of its name.
HaTools == Both(HaStateTools, Both(HaServiceTools, HaTimeTools))

\* get_history with a start time asks for a path of its own.
HistoryFrom == [HaTimeTools.get_history EXCEPT
                  !.path = Api(<<Lit("history"), Lit("period"), Arg("start_time")>>)]

\* Public methods of HaClient that no tool calls.
Entity == Params({"entity_id"}, {})
HaDelete == [delete_state |-> Ask("DELETE", State, Entity, Same({}), {})]
HaEvents ==
  [get_events |-> Read(Api(Lits(<<"events">>))),
   fire_event |-> Ask("POST", Api(<<Lit("events"), Arg("event_type")>>),
                      Params({"event_type"}, {"event_data"}), Same({}), {"event_data"})]
HaRaw ==
  [get_error_log |-> Read(Api(Lits(<<"error_log">>))),
   get_camera_image |-> Get(Api(<<Lit("camera_proxy"), Arg("entity_id")>>), Entity, Same({}))]

-----------------------------------------------------------------------------
(* Woodpecker.  step_logs' cap is used on the answer (StepLogs).            *)

Paging == {"page", "per_page"}
PagingKeys == [per_page |-> "perPage"]

WpParams ==
  LET repo == {"repo_id"}  pipeline == repo \cup {"number"} IN
  [list_repos |-> Params({}, {"all", "name"}),
   lookup_repo |-> Params({"owner", "name"}, {}),
   repo |-> Params(repo, {}),
   repo_pages |-> Params(repo, Paging),
   list_pipelines |-> Params(repo, Paging \cup {"branch", "event", "status", "ref",
                                                "before", "after"}),
   pipeline |-> Params(pipeline, {}),
   step_logs |-> Params(pipeline \cup {"step_id"}, {"max_lines"}),
   list_agents |-> Params({}, Paging),
   list_agent_tasks |-> Params({"agent_id"}, {})]

Repo(rest) == Api(<<Lit("repos"), Num("repo_id")>> \o rest)
Pipeline(rest) == Repo(<<Lit("pipelines"), Num("number")>> \o rest)

WpRepoTools ==
  LET P == WpParams IN
  [version |-> Read(Lits(<<"version">>)),
   healthz |-> Read(Lits(<<"healthz">>)),
   queue_info |-> Read(Api(Lits(<<"queue", "info">>))),
   list_repos |-> Get(Api(Lits(<<"user", "repos">>)), P.list_repos, Same({"all", "name"})),
   lookup_repo |-> Get(Api(<<Lit("repos"), Lit("lookup"), Arg("owner"), Arg("name")>>),
                       P.lookup_repo, Same({})),
   get_repo |-> Get(Repo(<<>>), P.repo, Same({})),
   list_branches |-> Get(Repo(Lits(<<"branches">>)), P.repo_pages, Under(Paging, PagingKeys)),
   list_pull_requests |-> Get(Repo(Lits(<<"pull_requests">>)), P.repo_pages, Under(Paging, PagingKeys))]

WpPipelineTools ==
  LET P == WpParams IN
  [list_pipelines |-> Get(Repo(Lits(<<"pipelines">>)), P.list_pipelines,
                          Under(P.list_pipelines.optional, PagingKeys)),
   get_pipeline |-> Get(Pipeline(<<>>), P.pipeline, Same({})),
   pipeline_config |-> Get(Pipeline(Lits(<<"config">>)), P.pipeline, Same({})),
   pipeline_metadata |-> Get(Pipeline(Lits(<<"metadata">>)), P.pipeline, Same({})),
   step_logs |-> [Get(Repo(<<Lit("logs"), Num("number"), Num("step_id")>>), P.step_logs, Same({}))
                  EXCEPT !.local = {"max_lines"}]]

WpServerTools ==
  LET P == WpParams IN
  [list_crons |-> Get(Repo(Lits(<<"cron">>)), P.repo_pages, Under(Paging, PagingKeys)),
   list_agents |-> Get(Api(Lits(<<"agents">>)), P.list_agents, Under(Paging, PagingKeys)),
   list_agent_tasks |-> Get(Api(<<Lit("agents"), Num("agent_id"), Lit("tasks")>>),
                            P.list_agent_tasks, Same({})),
   pipeline_feed |-> Read(Api(Lits(<<"user", "feed">>)))]

WpTools == Both(WpRepoTools, Both(WpPipelineTools, WpServerTools))
=============================================================================
