------------------------------- MODULE Access -------------------------------
(***************************************************************************)
(* Who may do what over prosperod's HTTP API (crates/api: auth, lib.rs,     *)
(* handlers.rs, automations.rs, mcp.rs, openapi.rs; crates/core auth.rs;    *)
(* the command line's requests).  Tokens come from a file read when a       *)
(* server starts; a dashboard session is a signed cookie no server stores.  *)
(* What a server answers is a function of the state (Verdict), so the       *)
(* properties quantify over every request that could be made in it.         *)
(***************************************************************************)
EXTENDS Naturals, Sequences, FiniteSets

CONSTANTS
    Servers,       \* replicas of prosperod
    TokenFiles,    \* contents the tokens file may have: name -> [line, scope, hash]
    Installs,      \* deployments: auth, clustered, keyFile, plane, and budgets
    SessionTtl,    \* SESSION_TTL_SECS
    EventsDefault, EventsMax, \* EVENTS_DEFAULT and EVENTS_MAX of the MCP tool
    PageLimits,    \* limits an MCP client names
    MaxSeq         \* highest seq of the history it reads

Deployment == [auth : BOOLEAN, clustered : BOOLEAN, keyFile : BOOLEAN,
               plane : {"none", "sync", "async"}, store : BOOLEAN, edits : Nat, boots : Nat,
               seconds : Nat, signins : Nat, spawns : Nat, creations : Nat, events : Nat,
               sweeps : Nat]

NoToken == 0
ScopeRank == [read |-> 1, operate |-> 2, admin |-> 3]

ASSUME AccessAssumption ==
    /\ SessionTtl \in Nat \ {0}
    /\ EventsDefault \in Nat \ {0} /\ EventsMax \in Nat \ {0} /\ PageLimits \subseteq Nat
    /\ MaxSeq \in Nat
    /\ Installs \subseteq Deployment
    /\ \A f \in TokenFiles : \A m, n \in DOMAIN f :
          /\ f[n] \in [line : Nat, scope : DOMAIN ScopeRank, hash : Nat \ {NoToken}]
          /\ f[m].line = f[n].line => m = n

VARIABLES
    install,    \* the deployment, and what may still happen in it
    tokensFile, \* the tokens file on disk
    server,     \* per replica: up, the tokens it loaded, its session key
    now,        \* seconds
    jar,        \* cookies handed out and still held by a browser
    automation, \* the one automation: whether it exists, its posture, who made it
    agents,     \* agents spawned: posture, who chose it, whether it is there
    history,    \* seqs of the rows of one agent's event history
    reader      \* an MCP client paging through that history: next_from, the
                \* events it was given, and for the properties those that were
                \* stored behind next_from and those there were at its last call

accessVars == <<install, tokensFile, server, now, jar, automation, agents, history, reader>>

NoCookie == [name |-> "", expires |-> 0, mac |-> <<>>, issued |-> 0, hash |-> NoToken]
NoAutomation == [exists |-> FALSE, webhook |-> FALSE, posture |-> "supervised",
                 chosenBy |-> "", enabled |-> FALSE]
Hashes == UNION {{f[n].hash : n \in DOMAIN f} : f \in TokenFiles}

Budget(what) == install[what] > 0
Spend(what) == Budget(what) /\ install' = [install EXCEPT ![what] = @ - 1]

AccessInit ==
    /\ install \in Installs
    /\ tokensFile \in TokenFiles /\ DOMAIN tokensFile # {}
    /\ server = [r \in Servers |-> [up |-> FALSE, tokens |-> <<>>, key |-> 0]]
    /\ now = 0 /\ jar = {}
    /\ automation = NoAutomation /\ agents = <<>>
    /\ history = {}
    /\ reader = [from |-> 0, got |-> {}, late |-> {}, told |-> {}, done |-> FALSE]

(***************************************************************************)
(* Tokens and sessions.                                                     *)
(***************************************************************************)
(* TokenSet::authenticate: the first line with the token's hash. *)
Authenticate(r, token) ==
    LET tokens == server[r].tokens
        known == {n \in DOMAIN tokens : tokens[n].hash = token}
    IN  {n \in known : \A m \in known : tokens[n].line <= tokens[m].line}

Mac(key, name, expires, hash) == <<key, name, expires, hash>>

Sign(r, name, expires) ==
    [name |-> name, expires |-> expires, issued |-> now, hash |-> server[r].tokens[name].hash,
     mac |-> Mac(server[r].key, name, expires, server[r].tokens[name].hash)]

Verified(r, cookie) ==
    /\ cookie.expires > now
    /\ cookie.name \in DOMAIN server[r].tokens
    /\ cookie.mac = Mac(server[r].key, cookie.name, cookie.expires,
                        server[r].tokens[cookie.name].hash)

(* resolve_principal: a bearer token is never backed up by a cookie. *)
ResolvePrincipal(r, req) ==
    IF req.bearer # NoToken
    THEN {[name |-> n, scope |-> server[r].tokens[n].scope, via |-> "bearer"] :
              n \in Authenticate(r, req.bearer)}
    ELSE IF req.cookie # NoCookie /\ Verified(r, req.cookie)
         THEN {[name |-> req.cookie.name, scope |-> server[r].tokens[req.cookie.name].scope,
                via |-> "cookie"]}
         ELSE {}

(***************************************************************************)
(* The routes, as the router mounts them and as the scope table rates them. *)
(***************************************************************************)
Reads == {"GET", "HEAD"}
OpenRoutes == {"/healthz", "/readyz", "/", "/assets/{*path}", "/api/session",
               "/api/openapi.json"}
ReadRoutes == {"/api/metrics", "/api/capabilities", "/api/fleet", "/api/fleet/stream",
               "/api/usage", "/api/workspaces", "/api/workspaces/{workspace}/agents",
               "/api/agents/{id}", "/api/agents/{id}/events", "/api/agents/{id}/stream",
               "/api/automations", "/api/automations/{id}/runs"}
OperateRoutes == {"/api/workspaces/{workspace}/agents", "/api/agents/{id}/kill",
                  "/api/agents/{id}/respawn", "/api/agents/{id}/input",
                  "/api/agents/{id}/end-input", "/api/automations/{id}/run"}

(* Mutant: every POST under the automations is rated with firing one. *)
AccessByVerb(method, route) ==
    IF route \in OpenRoutes \/ <<method, route>> = <<"POST", "/api/automations/{id}/trigger">>
    THEN "open"
    ELSE IF method \in Reads /\ route \in ReadRoutes THEN "read"
    ELSE IF \/ method = "POST" /\ route \in OperateRoutes \cup {"/api/automations"}
            \/ <<method, route>> = <<"DELETE", "/api/agents/{id}">>
            \/ route = "/mcp"
         THEN "operate"
    ELSE "admin"

(* required_access. *)
RequiredAccess(method, route) ==
    IF route \in OpenRoutes \/ <<method, route>> = <<"POST", "/api/automations/{id}/trigger">>
    THEN "open"
    ELSE IF method \in Reads /\ route \in ReadRoutes THEN "read"
    ELSE IF \/ method = "POST" /\ route \in OperateRoutes
            \/ <<method, route>> = <<"DELETE", "/api/agents/{id}">>
            \/ route = "/mcp"
         THEN "operate"
    ELSE "admin"

Router == [
    GET |-> {"/", "/assets/{*path}", "/healthz", "/readyz", "/api/session",
             "/api/openapi.json", "/api/metrics", "/api/capabilities", "/api/fleet",
             "/api/fleet/stream", "/mcp", "/api/usage", "/api/workspaces",
             "/api/workspaces/{workspace}/agents", "/api/agents/{id}",
             "/api/agents/{id}/events", "/api/agents/{id}/stream", "/api/automations",
             "/api/automations/{id}/runs"},
    POST |-> {"/api/session", "/mcp", "/api/workspaces", "/api/workspaces/{workspace}/agents",
              "/api/agents/{id}/kill", "/api/agents/{id}/respawn", "/api/agents/{id}/input",
              "/api/agents/{id}/end-input", "/api/automations", "/api/automations/{id}/run",
              "/api/automations/{id}/trigger"},
    PUT |-> {"/api/workspaces/{name}/config", "/api/automations/{id}/enabled"},
    DELETE |-> {"/api/session", "/mcp", "/api/workspaces/{name}", "/api/agents/{id}",
                "/api/automations/{id}"}]

Request(bearer, cookie, page) == [bearer |-> bearer, cookie |-> cookie, page |-> page]

(* The middleware: what it answers, or "admitted" and the handler runs. *)
Verdict(r, method, route, req) ==
    LET need == RequiredAccess(method, route)
        who == ResolvePrincipal(r, req)
    IN IF ~ install.auth \/ need = "open" THEN "admitted"
       ELSE IF who = {} THEN "unauthorized"
       ELSE IF \/ \E p \in who : ScopeRank[p.scope] < ScopeRank[need]
               \/ /\ \E p \in who : p.via = "cookie"
                  /\ method \notin Reads /\ req.page # "own"
            THEN "forbidden"
       ELSE "admitted"

Requests == {Request(b, c, p) : b \in Hashes \cup {NoToken}, c \in jar \cup {NoCookie},
                                p \in {"own", "foreign"}}

(* The caller a handler is told of: "trusted" when auth is off, "signature" *)
(* when the route is open, else the scope of the principal.                  *)
CallersIn(r, req) ==
    IF ~ install.auth THEN {"trusted"} ELSE {p.scope : p \in ResolvePrincipal(r, req)}

Callers(method, route) ==
    UNION {UNION {CallersIn(r, req) :
                  req \in {q \in Requests : Verdict(r, method, route, q) = "admitted"}} :
           r \in {s \in Servers : server[s].up}}

(***************************************************************************)
(* The deployment.                                                          *)
(***************************************************************************)
EditTokensFile ==
    /\ Spend("edits")
    /\ tokensFile' \in TokenFiles \ {tokensFile}
    /\ UNCHANGED <<server, now, jar, automation, agents, history, reader>>

(* The configured key, or one the process draws at random. *)
SessionKey == IF install.keyFile THEN 1 ELSE 100 + install.boots

(* resolve_auth: a replica starts with the tokens of the file as it now is, *)
(* not without any, and in a cluster not without the shared key.             *)
StartServer(r) ==
    /\ ~ server[r].up /\ Spend("boots")
    /\ ~ install.auth \/ (DOMAIN tokensFile # {} /\ (install.keyFile \/ ~ install.clustered))
    /\ server' = [server EXCEPT ![r] =
           [up |-> TRUE, tokens |-> IF install.auth THEN tokensFile ELSE <<>>, key |-> SessionKey]]
    /\ UNCHANGED <<tokensFile, now, jar, automation, agents, history, reader>>

StopServer(r) ==
    /\ server[r].up
    /\ server' = [server EXCEPT ![r] = [up |-> FALSE, tokens |-> <<>>, key |-> 0]]
    /\ UNCHANGED <<install, tokensFile, now, jar, automation, agents, history, reader>>

SecondPasses ==
    /\ Spend("seconds") /\ now' = now + 1
    /\ UNCHANGED <<tokensFile, server, jar, automation, agents, history, reader>>

(* POST /api/session and DELETE /api/session. *)
SignInWith(r, token) ==
    /\ server[r].up /\ install.auth /\ Spend("signins")
    /\ \E n \in Authenticate(r, token) : jar' = jar \cup {Sign(r, n, now + SessionTtl)}
    /\ UNCHANGED <<tokensFile, server, now, automation, agents, history, reader>>

ClearCookie(cookie) ==
    /\ jar' = jar \ {cookie}
    /\ UNCHANGED <<install, tokensFile, server, now, automation, agents, history, reader>>

(***************************************************************************)
(* The handlers that change something.  chosenBy is the scope under which   *)
(* an agent's posture was decided.                                          *)
(***************************************************************************)
Postures == {"supervised", "unattended"}
Spawned(posture, chosenBy) ==
    Append(agents, [posture |-> posture, chosenBy |-> chosenBy, live |-> TRUE])
Elsewhere == UNCHANGED <<tokensFile, server, now, jar, history, reader>>

(* spawn_agent: unattended takes more than the route asks for. *)
MaySpawn(caller, posture) == posture = "unattended" => caller \in {"trusted", "admin"}

SpawnAgent ==
    /\ Spend("spawns")
    /\ \E caller \in Callers("POST", "/api/workspaces/{workspace}/agents"), posture \in Postures :
        /\ MaySpawn(caller, posture)
        /\ agents' = Spawned(posture, caller)
    /\ UNCHANGED automation /\ Elsewhere

(* prospero_spawn_agent: no argument names a posture. *)
McpSpawn ==
    /\ Spend("spawns")
    /\ \E caller \in Callers("POST", "/mcp") : agents' = Spawned("supervised", caller)
    /\ UNCHANGED automation /\ Elsewhere

(* respawn_agent, by the route or the tool: the same spec again. *)
RespawnAgent(i) ==
    /\ agents[i].live /\ Spend("spawns")
    /\ Callers("POST", "/api/agents/{id}/respawn") \cup Callers("POST", "/mcp") # {}
    /\ agents' = Append([agents EXCEPT ![i].live = FALSE],
                        [agents[i] EXCEPT !.live = TRUE])
    /\ UNCHANGED automation /\ Elsewhere

(* kill_agent and rm_agent. *)
EndAgent(i) ==
    /\ agents[i].live
    /\ \/ Callers("POST", "/api/agents/{id}/kill") # {}
       \/ Callers("DELETE", "/api/agents/{id}") # {}
       \/ Callers("POST", "/mcp") # {}
    /\ agents' = [agents EXCEPT ![i].live = FALSE]
    /\ UNCHANGED <<install, automation>> /\ Elsewhere

CreateAutomation ==
    /\ install.store /\ ~ automation.exists /\ Spend("creations")
    /\ \E caller \in Callers("POST", "/api/automations"), posture \in Postures,
          webhook \in BOOLEAN :
        automation' = [exists |-> TRUE, webhook |-> webhook, posture |-> posture,
                       chosenBy |-> caller, enabled |-> TRUE]
    /\ UNCHANGED agents /\ Elsewhere

DeleteAutomation ==
    /\ automation.exists
    /\ Callers("DELETE", "/api/automations/{id}") # {}
    /\ automation' = NoAutomation
    /\ UNCHANGED <<install, agents>> /\ Elsewhere

SetEnabled ==
    /\ automation.exists
    /\ Callers("PUT", "/api/automations/{id}/enabled") # {}
    /\ automation' = [automation EXCEPT !.enabled = ~ @]
    /\ UNCHANGED <<install, agents>> /\ Elsewhere

Fired == agents' = Spawned(automation.posture, automation.chosenBy)

(* run_now fires whatever the trigger, and a disabled automation too. *)
RunAutomation ==
    /\ automation.exists /\ Spend("spawns")
    /\ Callers("POST", "/api/automations/{id}/run") # {}
    /\ Fired
    /\ UNCHANGED automation /\ Elsewhere

(* trigger_webhook: a body signed with the key of this very automation. *)
TriggerAutomation ==
    /\ \E r \in Servers : server[r].up
    /\ automation.exists /\ automation.webhook /\ automation.enabled /\ Spend("spawns")
    /\ Fired
    /\ UNCHANGED automation /\ Elsewhere

(* The engine of a running replica, for a schedule. *)
ScheduleFires ==
    /\ \E r \in Servers : server[r].up
    /\ automation.exists /\ ~ automation.webhook /\ automation.enabled /\ Spend("spawns")
    /\ Fired
    /\ UNCHANGED automation /\ Elsewhere

(***************************************************************************)
(* Reading an agent's history a page at a time (prospero_agent_events).     *)
(***************************************************************************)
(* A row appears. Tasks number their events under a lock and append them     *)
(* outside it, an append may fail, a restart counts on from the highest row: *)
(* of a stream any seq it does not have may be the next to be stored.        *)
EventStored(n) ==
    /\ n \notin history /\ Spend("events") /\ history' = history \cup {n}
    /\ reader' = IF n < reader.from THEN [reader EXCEPT !.late = @ \cup {n}] ELSE reader
    /\ UNCHANGED <<tokensFile, server, now, jar, automation, agents>>

(* Retention takes the rows that are old; times do not follow the seqs.      *)
HistoryPruned(kept) ==
    /\ Spend("sweeps") /\ history' = kept
    /\ UNCHANGED <<tokensFile, server, now, jar, automation, agents, reader>>

Lesser(m, n) == IF m < n THEN m ELSE n
PageSize(limit) == Lesser(limit, EventsMax)

(* The first rows of a reply, and the seq behind the last of them. *)
Page(events, size) == {n \in events : Cardinality({m \in events : m <= n}) <= size}
NextFrom(page) == (CHOOSE n \in page : \A m \in page : m <= n) + 1

(* One call, from where the last reply said, with a limit or with that of    *)
(* the tool; a page of no event names no next_from.  The client stops at the *)
(* first page that is not truncated.                                         *)
ReadPage(limit) ==
    LET events == {n \in history : n >= reader.from}
        page == Page(events, PageSize(limit))
    IN /\ ~ reader.done
       /\ Callers("POST", "/mcp") # {}
       /\ reader' = [from |-> IF page = {} THEN reader.from ELSE NextFrom(page),
                     got |-> reader.got \cup page, late |-> reader.late, told |-> history,
                     done |-> ~ (Cardinality(events) > PageSize(limit))]
       /\ UNCHANGED <<install, tokensFile, server, now, jar, automation, agents, history>>

AccessNext ==
    \/ EditTokensFile \/ SecondPasses
    \/ \E r \in Servers : StartServer(r) \/ StopServer(r) \/ \E t \in Hashes : SignInWith(r, t)
    \/ \E c \in jar : ClearCookie(c)
    \/ SpawnAgent \/ McpSpawn \/ \E i \in DOMAIN agents : RespawnAgent(i) \/ EndAgent(i)
    \/ CreateAutomation \/ DeleteAutomation \/ SetEnabled
    \/ RunAutomation \/ TriggerAutomation \/ ScheduleFires
    \/ \E n \in 1..MaxSeq : EventStored(n)
    \/ \E kept \in SUBSET history : HistoryPruned(kept)
    \/ \E limit \in PageLimits \cup {EventsDefault} : ReadPage(limit)

(***************************************************************************)
(* What is published: the OpenAPI table, and the requests of the command    *)
(* line.  A row is the route, the scope it states and its success answers.  *)
(***************************************************************************)
Row(method, route, scope, answers) ==
    [method |-> method, route |-> route, scope |-> scope, answers |-> answers]

DocumentedProbes == {
    Row("GET", "/healthz", "open", {200}), Row("GET", "/readyz", "open", {200, 503}),
    Row("GET", "/api/session", "open", {200}), Row("POST", "/api/session", "open", {200}),
    Row("DELETE", "/api/session", "open", {204}),
    Row("GET", "/api/openapi.json", "open", {200})}

DocumentedFleet == {
    Row("GET", "/api/metrics", "read", {200}), Row("GET", "/api/capabilities", "read", {200}),
    Row("GET", "/api/fleet", "read", {200}), Row("GET", "/api/fleet/stream", "read", {200}),
    Row("GET", "/api/usage", "read", {200})}

DocumentedWorkspaces == {
    Row("GET", "/api/workspaces", "read", {200}),
    Row("POST", "/api/workspaces", "admin", {201, 202}),
    Row("DELETE", "/api/workspaces/{name}", "admin", {204}),
    Row("PUT", "/api/workspaces/{name}/config", "admin", {204, 202}),
    Row("GET", "/api/workspaces/{workspace}/agents", "read", {200}),
    Row("POST", "/api/workspaces/{workspace}/agents", "operate", {201})}

DocumentedAgents == {
    Row("GET", "/api/agents/{id}", "read", {200}),
    Row("DELETE", "/api/agents/{id}", "operate", {204}),
    Row("GET", "/api/agents/{id}/events", "read", {200}),
    Row("GET", "/api/agents/{id}/stream", "read", {200}),
    Row("POST", "/api/agents/{id}/kill", "operate", {202}),
    Row("POST", "/api/agents/{id}/respawn", "operate", {200}),
    Row("POST", "/api/agents/{id}/input", "operate", {202}),
    Row("POST", "/api/agents/{id}/end-input", "operate", {202})}

DocumentedAutomations == {
    Row("GET", "/api/automations", "read", {200}),
    Row("POST", "/api/automations", "admin", {201}),
    Row("DELETE", "/api/automations/{id}", "admin", {204}),
    Row("PUT", "/api/automations/{id}/enabled", "admin", {204}),
    Row("GET", "/api/automations/{id}/runs", "read", {200}),
    Row("POST", "/api/automations/{id}/run", "operate", {200}),
    Row("POST", "/api/automations/{id}/trigger", "signature", {200})}

Documented == DocumentedProbes \cup DocumentedFleet \cup DocumentedWorkspaces
              \cup DocumentedAgents \cup DocumentedAutomations

(* What the document says a row takes: an operation has the document's own   *)
(* security unless its scope is exactly "open"; the trigger's is "open (HMAC *)
(* signature)".                                                              *)
Security(row) == IF row.scope = "open" THEN {} ELSE {"bearer", "session"}

(* What the handlers answer when they succeed; 405 where the plane is missing. *)
WorkspaceAnswer(applied, enqueued) ==
    CASE install.plane = "none" -> 405 [] install.plane = "sync" -> applied [] OTHER -> enqueued

Succeeds(method, route) ==
    CASE <<method, route>> = <<"POST", "/api/workspaces">> -> WorkspaceAnswer(201, 202)
      [] route = "/api/workspaces/{name}" -> WorkspaceAnswer(204, 204)
      [] route = "/api/workspaces/{name}/config" -> WorkspaceAnswer(204, 202)
      [] <<method, route>> = <<"POST", "/api/workspaces/{workspace}/agents">> -> 201
      [] <<method, route>> = <<"DELETE", "/api/agents/{id}">> -> 204
      [] <<method, route>> = <<"DELETE", "/api/session">> -> 204
      [] route \in {"/api/agents/{id}/kill", "/api/agents/{id}/input",
                    "/api/agents/{id}/end-input"} -> 202
      [] route \in {"/api/automations", "/api/automations/{id}", "/api/automations/{id}/enabled",
                    "/api/automations/{id}/runs", "/api/automations/{id}/run",
                    "/api/automations/{id}/trigger"} ->
             IF ~ install.store THEN 405
             ELSE IF <<method, route>> = <<"POST", "/api/automations">> THEN 201
             ELSE IF route \in {"/api/automations/{id}", "/api/automations/{id}/enabled"} THEN 204
             ELSE 200
      [] OTHER -> 200

(* Capabilities: what the dashboard is told of the workspace plane. *)
Capabilities == [admin |-> install.plane # "none", async |-> install.plane = "async"]

FleetCommands == {
    <<"POST", "/api/workspaces">>, <<"GET", "/api/workspaces">>,
    <<"PUT", "/api/workspaces/{name}/config">>, <<"DELETE", "/api/workspaces/{name}">>,
    <<"POST", "/api/automations">>, <<"GET", "/api/automations">>,
    <<"POST", "/api/automations/{id}/run">>, <<"GET", "/api/automations/{id}/runs">>,
    <<"PUT", "/api/automations/{id}/enabled">>, <<"DELETE", "/api/automations/{id}">>}

AgentCommands == {
    <<"POST", "/api/workspaces/{workspace}/agents">>, <<"GET", "/api/usage">>,
    <<"GET", "/api/fleet">>, <<"GET", "/healthz">>, <<"GET", "/api/agents/{id}/stream">>,
    <<"POST", "/api/agents/{id}/kill">>, <<"POST", "/api/agents/{id}/respawn">>,
    <<"DELETE", "/api/agents/{id}">>, <<"POST", "/api/agents/{id}/input">>,
    <<"POST", "/api/agents/{id}/end-input">>, <<"GET", "/api/session">>}

(***************************************************************************)
(* Properties.                                                              *)
(***************************************************************************)
(* A credential works only as long as it should.  A cookie is honoured only *)
(* by a replica that has loaded the very token it was traded for, and only  *)
(* for SessionTtl from then; a token that was rotated or taken out of the   *)
(* file is nobody's from the restart on, and showing a good cookie beside   *)
(* it does not help (resolve_principal, session::verify).                   *)
CredentialsEnd ==
    \A r \in Servers : \A req \in Requests :
        server[r].up /\ ResolvePrincipal(r, req) # {} =>
            /\ req.bearer # NoToken =>
                   \E n \in DOMAIN server[r].tokens : server[r].tokens[n].hash = req.bearer
            /\ req.bearer = NoToken =>
                   /\ now < req.cookie.issued + SessionTtl
                   /\ \E n \in DOMAIN server[r].tokens :
                          n = req.cookie.name /\ server[r].tokens[n].hash = req.cookie.hash

(* In a cluster a session does not depend on the replica that answers, nor   *)
(* on restarts: every replica that has the token honours every unexpired     *)
(* cookie traded for it (the shared session key resolve_auth insists on).    *)
SessionsTravel ==
    install.clustered =>
        \A r \in Servers, c \in jar :
            /\ server[r].up /\ now < c.expires
            /\ c.name \in DOMAIN server[r].tokens
            /\ server[r].tokens[c.name].hash = c.hash
            => ResolvePrincipal(r, Request(NoToken, c, "own")) # {}

(* A request without a credential is admitted exactly where the document     *)
(* asks for none.                                                            *)
AsSecured(r, row) ==
    install.auth =>
        (Verdict(r, row.method, row.route, Request(NoToken, NoCookie, "foreign")) = "admitted"
         <=> Security(row) = {})

(* What is published of a route is how it answers: a token of the stated     *)
(* scope is admitted by every replica that has it and a lesser one is not,   *)
(* a request without one where the document asks for none (but the trigger:  *)
(* its scope is spelled "open (HMAC signature)", so that operation() leaves  *)
(* it the security that an open route "must not inherit"),                   *)
(* the success answer is a listed one unless this backend lacks the plane,   *)
(* and the command line asks only for published operations (openapi.rs       *)
(* ROUTES against required_access, the router and the handlers).             *)
AnswersAsPublished ==
    \A r \in {s \in Servers : server[s].up} :
        /\ \A row \in Documented :
            /\ row.route \in Router[row.method]
            /\ \/ Succeeds(row.method, row.route) \in row.answers
               \/ /\ Succeeds(row.method, row.route) = 405
                  /\ IF row \in DocumentedAutomations THEN ~ install.store ELSE ~ Capabilities.admin
            /\ \A h \in Hashes : \A n \in Authenticate(r, h) :
                  (Verdict(r, row.method, row.route, Request(h, NoCookie, "foreign")) = "admitted")
                  <=> \/ row.scope \in {"open", "signature"}
                      \/ ScopeRank[server[r].tokens[n].scope] >= ScopeRank[row.scope]
            /\ row.scope # "signature" => AsSecured(r, row)
        /\ \A command \in FleetCommands \cup AgentCommands :
            \E row \in Documented : command = <<row.method, row.route>>
        /\ Capabilities.async <=> Succeeds("POST", "/api/workspaces") = 202

(* An agent that runs without asking for permission was allowed to by an     *)
(* administrator, or by a deployment that trusts everyone: however long the  *)
(* chain of respawns, automations and webhooks through which it came to be   *)
(* (spawn_agent, create_automation's route, restart_agent).                  *)
UnattendedByAdmin ==
    \A i \in DOMAIN agents :
        agents[i].posture = "unattended" => agents[i].chosenBy \in {"trusted", "admin"}

(* Pages tell the whole history once, through limits of nothing, retention   *)
(* and rows that appear in any order: no event is in two of them, a row the  *)
(* client has gone past was in one or appeared behind it, and a client told   *)
(* that a page is the last one has all there was then, but what appeared     *)
(* behind it (prospero_agent_events' truncated, next_from).                  *)
PagesTellAll ==
    /\ \A n \in reader.got : n < reader.from
    /\ \A n \in history : n < reader.from => n \in reader.got \cup reader.late
    /\ reader.done => reader.told \subseteq reader.got \cup reader.late

(* What the API lets through and answers: as published, to a credential for  *)
(* as long and on as many replicas as it should work, unattended agents by   *)
(* an administrator alone, a history paged through without loss              *)
(* (resolve_principal, session::verify, resolve_auth, the handlers).         *)
AccessSound ==
    CredentialsEnd /\ SessionsTravel /\ AnswersAsPublished /\ UnattendedByAdmin /\ PagesTellAll

=============================================================================
