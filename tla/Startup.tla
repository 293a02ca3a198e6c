------------------------------- MODULE Startup -------------------------------
(***************************************************************************)
(* How each of the eight servers gets from its environment to a served     *)
(* address: Config::from_env, the client's `new`, the host allow-list on   *)
(* its way to rmcp, and the base URL on its way to the upstream.  An       *)
(* operator sets right whatever a refusal names and starts again.          *)
(*                                                                         *)
(* Whitespace around a value and a slash behind a host are left out, and   *)
(* so are the *_INSECURE flags and WP_MAX_LOG_LINES, which refuse nothing. *)
(***************************************************************************)
EXTENDS Naturals, Sequences, FiniteSetsExt

CONSTANTS Servers,     \* the servers started
          Settings,    \* what a variable may hold, by its name
          Spellings,   \* the ways a target host is spelled
          HostLists,   \* *_ALLOWED_HOSTS: {} unset, or {the entries}
          Built        \* allow-lists of configurations built without from_env

(* One name per kind of variable: HOST is pgmcp's PG_DATABASE_URL too,     *)
(* CREDENTIAL the token or key, LIMIT any of the numbers of pgmcp.         *)
Variables == {"HOST", "CREDENTIAL", "ORG_ID", "TIMEOUT_SECS",
              "CONNECT_TIMEOUT_SECS", "LIMIT"}

ASSUME ServersAssumption ==
  Servers \subseteq {"prom", "loki", "tempo", "am", "pbs", "wp", "ha", "pg"}

(* A spelling is what a value can be taken apart into; colons without       *)
(* brackets leave no way to tell a scheme or a port.                        *)
ASSUME SpellingAssumption ==
  \A h \in Spellings :
    /\ h \in [scheme : {"none", "http", "https"}, form : {"name", "literal", "bracketed"},
               port : Nat]
    /\ h.form = "literal" => h.scheme = "none" /\ h.port = 0

VARIABLES server,   \* the server under start
          env,      \* its variables: "unset", "blank", "zero", "junk" or "good"
          host,     \* how HOST is spelled when it is good
          raw,      \* *_ALLOWED_HOSTS
          phase,    \* "down", "refused" or "serving"
          named,    \* the variable the refusal names, if any
          allowed   \* Config::allowed_hosts

startupVars == <<server, env, host, raw, phase, named, allowed>>

-----------------------------------------------------------------------------
(* Config::from_env and Client::new: the checks a start goes through in    *)
(* the order of the code, each with the values it refuses.                 *)

Check(v, refused) == [variable |-> v, refused |-> refused, names |-> {v}]
Unnamed(v, refused) == [variable |-> v, refused |-> refused, names |-> {}]

HttpTimeouts_sameKey ==
  <<Check("TIMEOUT_SECS", {"zero", "junk"}),
    [variable |-> "CONNECT_TIMEOUT_SECS", refused |-> {"zero", "junk"},
     names |-> {"TIMEOUT_SECS"}]>>

HttpTimeouts ==
  <<Check("TIMEOUT_SECS", {"zero", "junk"}),
    Check("CONNECT_TIMEOUT_SECS", {"zero", "junk"})>>

Bearer == <<Check("CREDENTIAL", {"junk"})>>
Tenant == <<Check("ORG_ID", {"junk"})>>

Plain == <<Check("HOST", {"unset"})>> \o HttpTimeouts \o Bearer

checks ==
  [prom |-> Plain,
   am   |-> Plain,
   loki |-> Plain \o Tenant,
   tempo |-> Plain \o Tenant,
   pbs  |-> <<Check("HOST", {"unset"}), Check("CREDENTIAL", {"unset"})>>
            \o HttpTimeouts \o Bearer,
   wp   |-> <<Check("HOST", {"unset"}), Check("CREDENTIAL", {"unset", "blank"})>>
            \o HttpTimeouts \o Bearer,
   ha   |-> <<Check("HOST", {"unset"}), Check("CREDENTIAL", {"unset"}),
              Unnamed("HOST", {"blank", "junk"}), Unnamed("CREDENTIAL", {"junk"})>>,
   pg   |-> <<Check("HOST", {"unset"}), Check("LIMIT", {"blank", "junk"}),
              Check("HOST", {"blank", "junk"})>>]

Reads(s) == {checks[s][i].variable : i \in DOMAIN checks[s]}

(* The first check that refuses what the environment holds.                *)
Refusals(s, e) == {i \in DOMAIN checks[s] :
                     e[checks[s][i].variable] \in checks[s][i].refused}

-----------------------------------------------------------------------------
(* The host allow-list, from the variable to rmcp.  A list of entries is   *)
(* a sequence; rmcp is handed a set of names, and reads the empty one as   *)
(* any.                                                                    *)

Names(entries) == {entries[i] : i \in DOMAIN entries} \ {"blank"}

parse_allowed_hosts(list) == {Names(entries) : entries \in list} \ {{}}

Loopback == {"loopback"}

mcp_router_passthrough(list) == IF list = {} THEN Loopback ELSE UNION list

(* What rmcp is configured with: its loopback default unless a list that   *)
(* is not empty arrives.                                                   *)
mcp_router(list) == IF list \subseteq {{}} THEN Loopback ELSE UNION list

Accepts(hosts, h) == hosts = {} \/ h \in hosts

-----------------------------------------------------------------------------
(* The base URL.                                                           *)

Http == {"prom", "loki", "tempo", "am"}

DefaultPort == [prom |-> 9090, loki |-> 3100, tempo |-> 3200, am |-> 9093,
                pbs |-> 8007, wp |-> 0, ha |-> 0]
DefaultScheme(s) == IF s \in {"pbs", "wp"} THEN "https" ELSE "http"

(* Config::base_url: a spelling with its scheme, its port (0 for none) and *)
(* its host's form: "name", "literal" (::1) or "bracketed" ([::1]).        *)
normalize_common(h, port) ==
  [h EXCEPT !.scheme = "http",
            !.port = IF h.port # 0 \/ h.form # "name" THEN h.port ELSE port]

normalize_pbs(h) ==
  [h EXCEPT !.scheme = "https",
            !.form = IF h.form = "literal" THEN "bracketed" ELSE @,
            !.port = IF @ = 0 THEN DefaultPort["pbs"] ELSE @]

normalize_base_url_shared(s, h) ==
  IF h.scheme # "none" THEN h
  ELSE IF s \in Http \cup {"pbs"}
       THEN [normalize_common(h, DefaultPort[s]) EXCEPT !.scheme = DefaultScheme(s)]
  ELSE [h EXCEPT !.scheme = DefaultScheme(s)]

normalize_base_url(s, h) ==
  IF h.scheme # "none" THEN h
  ELSE IF s \in Http THEN normalize_common(h, DefaultPort[s])
  ELSE IF s = "pbs" THEN normalize_pbs(h)
  ELSE [h EXCEPT !.scheme = DefaultScheme(s)]

(* Where reqwest connects for a URL: nowhere for an IPv6 literal without   *)
(* brackets, the scheme's own port when none is given.                     *)
Address(url) ==
  IF url.form = "literal" THEN {}
  ELSE {<<url.scheme,
          IF url.port # 0 THEN url.port ELSE IF url.scheme = "http" THEN 80 ELSE 443>>}

-----------------------------------------------------------------------------
StartupInit ==
  /\ server \in Servers
  /\ env \in {e \in [Variables -> {"unset"} \cup UNION {Settings[v] : v \in Variables}] :
                \A v \in Variables :
                   e[v] \in IF v \in Reads(server) THEN Settings[v] ELSE {"unset"}}
  /\ host \in Spellings
  /\ raw \in HostLists
  /\ phase = "down" /\ named = {} /\ allowed = {}

(* main and run(): the whole way to a served address, or the first error.  *)
Start ==
  /\ phase = "down"
  /\ \/ /\ Refusals(server, env) = {}
        /\ phase' = "serving"
        /\ allowed' = parse_allowed_hosts(raw)
        /\ UNCHANGED named
     \/ /\ Refusals(server, env) # {}
        /\ phase' = "refused"
        /\ named' = checks[server][Min(Refusals(server, env))].names
        /\ UNCHANGED allowed
  /\ UNCHANGED <<server, env, host, raw>>

(* The router over a Config built by hand, as the end-to-end tests do.     *)
Route ==
  /\ phase = "down" /\ raw = {}
  /\ \E list \in Built : allowed' = list
  /\ phase' = "serving"
  /\ UNCHANGED <<server, env, host, raw, named>>

(* The operator sets right what the refusal names, and starts again.       *)
Correct ==
  /\ phase = "refused"
  /\ \E v \in named : env' = [env EXCEPT ![v] = "good"]
  /\ phase' = "down" /\ named' = {}
  /\ UNCHANGED <<server, host, raw, allowed>>

StartupNext == Start \/ Route \/ Correct

StartupSpec == StartupInit /\ [][StartupNext]_startupVars

(* A main that was started runs, and its operator acts on what it says.    *)
StartupFairSpec == StartupSpec /\ WF_startupVars(Start) /\ WF_startupVars(Correct)

-----------------------------------------------------------------------------
(* A start that is refused leads the operator, variable by variable, to    *)
(* one that is not: no message blames a variable that is right.  hamcp     *)
(* gives no name for a HOST or token that is set and cannot be used.       *)
FixedInTurn ==
  <>(phase = "serving" \/ (server = "ha" /\ phase = "refused" /\ named = {}))

(* A server answers exactly the Host headers it was told to, or loopback   *)
(* when it was told none: whatever blanks a list holds, and whether it     *)
(* came through from_env or not.                                           *)
Meant == IF raw # {} THEN UNION {Names(entries) : entries \in raw} ELSE UNION allowed

HostsAsListed ==
  phase = "serving" =>
     \A h \in {"named", "other", "foreign", "loopback"} :
        Accepts(mcp_router(allowed), h) <=>
           h \in (IF Meant = {} THEN Loopback ELSE Meant)

(* The upstream is asked where the operator meant: the scheme and the port *)
(* given, or else the server's defaults (a whole URL without a port means  *)
(* its scheme's), for names with every server and for IPv6 targets with    *)
(* pbsmcp.  The other servers add no port behind the colons of a literal.  *)
MeantAddress ==
  LET scheme == IF host.scheme = "none" THEN DefaultScheme(server) ELSE host.scheme
      default == IF host.scheme = "none" THEN DefaultPort[server] ELSE 0
      port == IF host.port # 0 THEN host.port ELSE default
  IN  {<<scheme, IF port # 0 THEN port ELSE IF scheme = "http" THEN 80 ELSE 443>>}

TargetIsMeant ==
  phase = "serving" /\ server # "pg" /\ (host.form = "name" \/ server = "pbs") =>
     Address(normalize_base_url(server, host)) = MeantAddress

=============================================================================
