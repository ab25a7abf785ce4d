------------------------------ MODULE Registry ------------------------------
(***************************************************************************)
(* The workspaces a fleet of prosperods manages: the in-memory `Registry`   *)
(* (crates/core/src/registry.rs) of each replica over the shared `repos`    *)
(* table (config_store.rs), the fleet snapshot's workspaces, the cache of   *)
(* caliband clients, and the calibands themselves, one per root, each with  *)
(* the environment it was started with (crates/core/src/fleet.rs,           *)
(* discovery.rs).                                                           *)
(*                                                                          *)
(* A step is what a task does between two awaits. The registry's write lock *)
(* is held over more than one step only by a refresh and by a set_config.   *)
(***************************************************************************)
EXTENDS Integers, FiniteSets, ProviderEnv

CONSTANTS
    Hosts,          \* prosperod replicas, each with its poll loop
    Names,          \* workspace names
    Roots,          \* canonical workspace roots
    Calls,          \* API calls
    Scenarios,      \* what a behaviour starts from: the table, the calls that
                    \* will be made, the replicas that run and the faults spent
    DefaultEnv,     \* FleetConfig::default_env
    MaxStoreFaults  \* bound: statements, starts and shutdowns that fail

(* No configuration, no registration, no root, nobody, no daemon. *)
NoConfig == [provider |-> "absent", base |-> FALSE, key |-> "none", raw |-> Nothing]
NoRoot == "none"
Absent == [root |-> NoRoot, config |-> NoConfig]
Free == "free"
Down == ProviderVar :> "down"
NoAck == [at |-> "nobody", config |-> NoConfig]

VARIABLES
    table,      \* the `repos` table: name -> registration
    regs,       \* regs[h]: the in-memory registry
    snaps,      \* snaps[h]: the snapshot's workspaces, name -> root
    clients,    \* clients[h]: the cached clients, name -> the root they dial
    lock,       \* lock[h]: the holder of the registry's write lock
    daemons,    \* daemons[root]: the environment of its caliband, or Down
    request,    \* request[q]: what call q asks for
    job,        \* job[t]: where a poll loop or call is, and its locals
    acked,      \* history: acked[n], the last set of n, if nobody has written n since
    gone,       \* history: the names whose removal nobody has contradicted
    odd,        \* history: why a caliband may have another env than its config
    storeFaults

regVars == <<table, regs, snaps, clients, lock, daemons, request, job, acked, gone, odd, storeFaults>>

Jobs == Hosts \cup Calls

ASSUME CallsAssumption ==
    /\ Hosts \cap Calls = {} /\ MaxStoreFaults \in Nat
    /\ NoRoot \notin Roots /\ Free \notin Jobs

(* The rows of the table a behaviour starts from were validated when they   *)
(* were written.                                                            *)
Configs ==
    UNION {{s.table[n].config : n \in DOMAIN s.table}
           \cup {s.calls[q].config : q \in DOMAIN s.calls} : s \in Scenarios}
Registrations == [root : Roots, config : {cfg \in Configs : ValidateProviderConfig(cfg)}]

ASSUME ScenariosAssumption ==
    \A s \in Scenarios :
        /\ \A n \in DOMAIN s.table : s.table[n] \in Registrations
        /\ DOMAIN s.calls \subseteq Calls
        /\ \A q \in DOMAIN s.calls :
              s.calls[q].at \in Hosts /\ s.calls[q].name \in Names /\ s.calls[q].root \in Roots
        /\ s.spent \in 0..MaxStoreFaults

HostOf(t) == IF t \in Hosts THEN t ELSE request[t].at
Reg(t) == regs[HostOf(t)]
Registered(reg) == {n \in Names : reg[n] # Absent}

Idle == [pc |-> "idle", name |-> "none", root |-> NoRoot, copy |-> Absent,
         seen |-> [n \in Names |-> Absent], todo |-> {}]
Over == [Idle EXCEPT !.pc = "done"]
Goto(t, pc) == job' = [job EXCEPT ![t].pc = pc]

(* A poll loop goes on with its next workspace; a call is over. *)
Leave(t) ==
    job' = [job EXCEPT ![t] = IF t \in Calls THEN Over
                              ELSE [@ EXCEPT !.pc = "next", !.name = "none",
                                             !.root = NoRoot, !.copy = Absent]]

(* The registry lock, where it is taken and left within one step. *)
Unlocked(h) == lock[h] = Free

Breaks == storeFaults < MaxStoreFaults /\ storeFaults' = storeFaults + 1

(* Another name has a row with this root. *)
Aliasing(n, root) ==
    IF \E m \in Names \ {n} : root # NoRoot /\ table[m].root = root THEN {"aliased"} ELSE {}

(* FleetManager::with_seams: a replica starts from the table. *)
RegInit ==
    \E scenario \in Scenarios :
        /\ table = [n \in Names |-> IF n \in DOMAIN scenario.table THEN scenario.table[n]
                                    ELSE Absent]
        /\ regs = [h \in Hosts |-> table]
        /\ snaps = [h \in Hosts |-> [n \in Names |-> table[n].root]]
        /\ clients = [h \in Hosts |-> [n \in Names |-> NoRoot]]
        /\ lock = [h \in Hosts |-> Free]
        /\ daemons = [r \in Roots |-> Down]
        /\ request = scenario.calls
        /\ job = [t \in Jobs |-> IF t \in scenario.hosts \cup DOMAIN scenario.calls
                                 THEN Idle ELSE Over]
        /\ acked = [n \in Names |-> NoAck]
        /\ gone = {}
        /\ odd = UNION {Aliasing(n, table[n].root) : n \in Names}
        /\ storeFaults = scenario.spent

(* Calls that write n. *)
Writers(n) ==
    {q \in DOMAIN request : /\ request[q].name = n
                            /\ request[q].op \in {"add", "remove", "set"}
                            /\ job[q].pc \notin {"idle", "done"}}

(* A writer of n begins: what was promised of n before is open again. *)
Contradict(n) ==
    /\ acked' = [acked EXCEPT ![n] = NoAck]
    /\ gone' = gone \ {n}

(* The overlay caliband is spawned with. *)
EnvOf(cfg) == ResolveEnv(DefaultEnv, cfg)

(***************************************************************************)
(* add_workspace_with_config.                                               *)
(***************************************************************************)
(* Registry::add: the same name and root again is fine, another root for     *)
(* the name or another name for the root is a conflict.                      *)
Addable(reg, n, root) ==
    IF reg[n] # Absent THEN reg[n].root = root
    ELSE \A m \in Registered(reg) : reg[m].root # root

AddRegisters(q) ==
    LET n == request[q].name IN
    /\ job[q].pc = "idle" /\ request[q].op = "add" /\ Unlocked(request[q].at)
    /\ IF ValidateProviderConfig(request[q].config) /\ Addable(Reg(q), n, request[q].root)
       THEN LET record == [root |-> request[q].root, config |-> request[q].config]
            IN  /\ regs' = [regs EXCEPT ![request[q].at][n] = record]
                /\ job' = [job EXCEPT ![q] = [Idle EXCEPT !.pc = "upsert", !.name = n,
                                                          !.copy = record]]
                /\ Contradict(n)
       ELSE job' = [job EXCEPT ![q] = Over] /\ UNCHANGED <<regs, acked, gone>>
    /\ UNCHANGED <<table, snaps, clients, lock, daemons, request, odd, storeFaults>>

(* upsert_repo, without the lock: the copy taken when it was registered. *)
AddUpserts(q) ==
    /\ job[q].pc = "upsert"
    /\ table' = [table EXCEPT ![job[q].name] = job[q].copy]
    /\ odd' = odd \cup Aliasing(job[q].name, job[q].copy.root)
                  \cup (IF daemons[job[q].copy.root] \in {Down, EnvOf(job[q].copy.config)}
                        THEN {} ELSE {"not restarted"})
    /\ Goto(q, "push")
    /\ UNCHANGED <<regs, snaps, clients, lock, daemons, request, acked, gone,
                   storeFaults>>

AddUpsertFails(q) ==
    /\ job[q].pc = "upsert" /\ Breaks
    /\ Leave(q)
    /\ UNCHANGED <<table, regs, snaps, clients, lock, daemons, request, acked,
                   gone, odd>>

(* The snapshot's entry, if there is none; then poll_repo_once. *)
AddPushes(q) ==
    LET n == job[q].name IN
    /\ job[q].pc = "push"
    /\ snaps' = [snaps EXCEPT ![request[q].at][n] = IF @ = NoRoot THEN job[q].copy.root ELSE @]
    /\ Goto(q, "client")
    /\ UNCHANGED <<table, regs, clients, lock, daemons, request, acked, gone,
                   odd, storeFaults>>

(***************************************************************************)
(* remove_repo.                                                             *)
(***************************************************************************)
RemoveUnregisters(q) ==
    LET n == request[q].name IN
    /\ job[q].pc = "idle" /\ request[q].op = "remove" /\ Unlocked(request[q].at)
    /\ IF n \in Registered(Reg(q))
       THEN /\ regs' = [regs EXCEPT ![request[q].at][n] = Absent]
            /\ job' = [job EXCEPT ![q] = [Idle EXCEPT !.pc = "delete", !.name = n]]
            /\ Contradict(n)
       ELSE job' = [job EXCEPT ![q] = Over] /\ UNCHANGED <<regs, acked, gone>>
    /\ UNCHANGED <<table, snaps, clients, lock, daemons, request, odd, storeFaults>>

RemoveDeletes(q) ==
    /\ job[q].pc = "delete"
    /\ table' = [table EXCEPT ![job[q].name] = Absent]
    /\ gone' = IF Writers(job[q].name) = {q} THEN gone \cup {job[q].name} ELSE gone
    /\ Goto(q, "prune")
    /\ UNCHANGED <<regs, snaps, clients, lock, daemons, request, acked,
                   odd, storeFaults>>

RemoveDeleteFails(q) ==
    /\ job[q].pc = "delete" /\ Breaks
    /\ Leave(q)
    /\ UNCHANGED <<table, regs, snaps, clients, lock, daemons, request, acked,
                   gone, odd>>

(* What was derived from it goes once the removal is durable. *)
RemovePrunes(q) ==
    LET n == job[q].name
        h == request[q].at
    IN
    /\ job[q].pc = "prune"
    /\ snaps' = [snaps EXCEPT ![h][n] = NoRoot]
    /\ clients' = [clients EXCEPT ![h][n] = NoRoot]
    /\ Leave(q)
    /\ UNCHANGED <<table, regs, lock, daemons, request, acked, gone, odd, storeFaults>>

(***************************************************************************)
(* set_repo_config: the registry and the table under the lock (#85), then    *)
(* restart_caliband.                                                         *)
(***************************************************************************)
SetRegisters(q) ==
    LET n == request[q].name IN
    /\ job[q].pc = "idle" /\ request[q].op = "set" /\ Unlocked(request[q].at)
    /\ IF ValidateProviderConfig(request[q].config) /\ n \in Registered(Reg(q))
       THEN LET record == [Reg(q)[n] EXCEPT !.config = request[q].config]
            IN  /\ regs' = [regs EXCEPT ![request[q].at][n] = record]
                /\ lock' = [lock EXCEPT ![request[q].at] = q]
                /\ job' = [job EXCEPT ![q] = [Idle EXCEPT !.pc = "save", !.name = n,
                                                          !.copy = record]]
                /\ Contradict(n)
       ELSE job' = [job EXCEPT ![q] = Over] /\ UNCHANGED <<regs, lock, acked, gone>>
    /\ UNCHANGED <<table, snaps, clients, daemons, request, odd, storeFaults>>

SetSaves(q) ==
    LET n == job[q].name IN
    /\ job[q].pc = "save"
    /\ table' = [table EXCEPT ![n] = job[q].copy]
    /\ lock' = [lock EXCEPT ![request[q].at] = Free]
    /\ acked' = IF Writers(n) = {q} THEN [acked EXCEPT ![n] = [at |-> request[q].at,
                                                            config |-> job[q].copy.config]]
              ELSE acked
    /\ odd' = odd \cup Aliasing(n, job[q].copy.root)
    /\ Goto(q, "shutdown")
    /\ UNCHANGED <<regs, snaps, clients, daemons, request, gone, storeFaults>>

SetSaveFails(q) ==
    /\ job[q].pc = "save" /\ Breaks
    /\ lock' = [lock EXCEPT ![request[q].at] = Free]
    /\ Leave(q)
    /\ UNCHANGED <<table, regs, snaps, clients, daemons, request, acked, gone, odd>>

(* Mutant: the client is dropped and the daemon is left running. *)
RestartKeepsDaemon(q) ==
    LET n == job[q].name
        h == request[q].at
    IN
    /\ job[q].pc = "shutdown"
    /\ clients' = [clients EXCEPT ![h][n] = NoRoot]
    /\ Goto(q, "client")
    /\ UNCHANGED <<table, regs, snaps, lock, daemons, request, acked, gone, odd,
                   storeFaults>>

(* restart_caliband: shutdown, if a client is cached; the cached client is   *)
(* dropped, and the socket has gone within the wait for it.                  *)
RestartShutsDown(q) ==
    LET n == job[q].name
        h == request[q].at
        root == clients[h][n]
    IN
    /\ job[q].pc = "shutdown"
    /\ daemons' = IF root = NoRoot THEN daemons ELSE [daemons EXCEPT ![root] = Down]
    /\ odd' = IF root # job[q].copy.root THEN odd \cup {"not asked"} ELSE odd
    /\ clients' = [clients EXCEPT ![h][n] = NoRoot]
    /\ Goto(q, "client")
    /\ UNCHANGED <<table, regs, snaps, lock, request, acked, gone, storeFaults>>

(* restart_caliband whose shutdown is refused ("continuing"), or whose old   *)
(* daemon is still reachable when the wait for its socket ends               *)
(* ("proceeding"): the daemon lives on with the environment it has.          *)
RestartOutlived(q) ==
    LET n == job[q].name
        h == request[q].at
        root == clients[h][n]
    IN
    /\ job[q].pc = "shutdown" /\ Breaks
    /\ root # NoRoot /\ daemons[root] # Down
    /\ odd' = odd \cup {"outlived"}
                  \cup (IF root # job[q].copy.root THEN {"not asked"} ELSE {})
    /\ clients' = [clients EXCEPT ![h][n] = NoRoot]
    /\ Goto(q, "client")
    /\ UNCHANGED <<table, regs, snaps, lock, daemons, request, acked, gone>>

(***************************************************************************)
(* client_for, for the poll that ends an add or a restart, or is the loop's. *)
(***************************************************************************)
ClientCached(t) ==
    /\ job[t].pc = "client"
    /\ clients[HostOf(t)][job[t].name] # NoRoot
    /\ Leave(t)
    /\ UNCHANGED <<table, regs, snaps, clients, lock, daemons, request, acked,
                   gone, odd, storeFaults>>

ClientReadsRoot(t) ==
    /\ job[t].pc = "client" /\ Unlocked(HostOf(t))
    /\ clients[HostOf(t)][job[t].name] = NoRoot
    /\ IF job[t].name \in Registered(Reg(t))
       THEN job' = [job EXCEPT ![t].pc = "env", ![t].root = Reg(t)[job[t].name].root]
       ELSE Leave(t)
    /\ UNCHANGED <<table, regs, snaps, clients, lock, daemons, request, acked,
                   gone, odd, storeFaults>>

(* ensure_config_for. *)
ClientReadsEnv(t) ==
    /\ job[t].pc = "env" /\ Unlocked(HostOf(t))
    /\ IF job[t].name \in Registered(Reg(t))
       THEN job' = [job EXCEPT ![t].pc = "ensure", ![t].copy = Reg(t)[job[t].name]]
       ELSE Leave(t)
    /\ UNCHANGED <<table, regs, snaps, clients, lock, daemons, request, acked,
                   gone, odd, storeFaults>>

(* ensure_caliband: connect, or spawn one with the resolved environment, and *)
(* cache the client.                                                         *)
Ensure(t) ==
    LET root == job[t].root
        env == EnvOf(job[t].copy.config)
    IN
    /\ job[t].pc = "ensure"
    /\ daemons' = [daemons EXCEPT ![root] = IF @ = Down THEN env ELSE @]
    /\ odd' = IF table[job[t].name] # job[t].copy \/ root # job[t].copy.root
              THEN odd \cup {"late client"} ELSE odd
    /\ clients' = [clients EXCEPT ![HostOf(t)][job[t].name] = root]
    /\ Leave(t)
    /\ UNCHANGED <<table, regs, snaps, lock, request, acked, gone, storeFaults>>

(* The daemon does not start, or does not come up in time. *)
EnsureFails(t) ==
    /\ job[t].pc = "ensure" /\ Breaks
    /\ daemons[job[t].root] = Down
    /\ Leave(t)
    /\ UNCHANGED <<table, regs, snaps, clients, lock, daemons, request, acked,
                   gone, odd>>

(***************************************************************************)
(* poll_all_once: refresh_registry_from_store, then each workspace.         *)
(***************************************************************************)
(* Mutant: the table is read before the lock is taken, as before #85. *)
RefreshLocksLate(h) ==
    /\ job[h].pc = "idle"
    /\ job' = [job EXCEPT ![h].pc = "replace", ![h].seen = table]
    /\ UNCHANGED <<table, regs, snaps, clients, lock, daemons, request, acked,
                   gone, odd, storeFaults>>

RefreshLocks(h) ==
    /\ job[h].pc = "idle" /\ Unlocked(h)
    /\ lock' = [lock EXCEPT ![h] = h]
    /\ Goto(h, "list")
    /\ UNCHANGED <<table, regs, snaps, clients, daemons, request, acked, gone,
                   odd, storeFaults>>

RefreshLists(h) ==
    /\ job[h].pc = "list"
    /\ job' = [job EXCEPT ![h].pc = "replace", ![h].seen = table]
    /\ UNCHANGED <<table, regs, snaps, clients, lock, daemons, request, acked,
                   gone, odd, storeFaults>>

(* A failed read keeps the cached view. *)
RefreshListFails(h) ==
    /\ job[h].pc = "list" /\ Breaks
    /\ lock' = [lock EXCEPT ![h] = Free]
    /\ job' = [job EXCEPT ![h].pc = "next", ![h].todo = Registered(regs[h])]
    /\ UNCHANGED <<table, regs, snaps, clients, daemons, request, acked, gone, odd>>

RefreshReplaces(h) ==
    /\ job[h].pc = "replace" /\ lock[h] \in {h, Free}
    /\ regs' = [regs EXCEPT ![h] = job[h].seen]
    /\ lock' = [lock EXCEPT ![h] = Free]
    /\ Goto(h, "snapshot")
    /\ UNCHANGED <<table, snaps, clients, daemons, request, acked, gone, odd,
                   storeFaults>>

(* Mutant: the snapshot keeps what is gone. *)
RefreshSnapshotsAdds(h) ==
    /\ job[h].pc = "snapshot"
    /\ snaps' = [snaps EXCEPT ![h] =
                   [n \in Names |-> IF @[n] = NoRoot THEN job[h].seen[n].root ELSE @[n]]]
    /\ job' = [job EXCEPT ![h].pc = "names", ![h].seen = Idle.seen]
    /\ UNCHANGED <<table, regs, clients, lock, daemons, request, acked, gone,
                   odd, storeFaults>>

(* The snapshot drops what is gone and gets what is new; an entry that stays *)
(* keeps its root. Then the names to poll are read from the registry.        *)
RefreshSnapshots(h) ==
    /\ job[h].pc = "snapshot"
    /\ snaps' = [snaps EXCEPT ![h] =
                   [n \in Names |-> IF job[h].seen[n] = Absent THEN NoRoot
                                    ELSE IF @[n] = NoRoot THEN job[h].seen[n].root ELSE @[n]]]
    /\ job' = [job EXCEPT ![h].pc = "names", ![h].seen = Idle.seen]
    /\ UNCHANGED <<table, regs, clients, lock, daemons, request, acked, gone,
                   odd, storeFaults>>

PollLists(h) ==
    /\ job[h].pc = "names" /\ Unlocked(h)
    /\ job' = [job EXCEPT ![h].pc = "next", ![h].todo = Registered(regs[h])]
    /\ UNCHANGED <<table, regs, snaps, clients, lock, daemons, request, acked,
                   gone, odd, storeFaults>>

PollNext(h) ==
    /\ job[h].pc = "next"
    /\ IF job[h].todo = {} THEN job' = [job EXCEPT ![h] = Idle]
       ELSE \E n \in job[h].todo :
               job' = [job EXCEPT ![h].pc = "client", ![h].name = n, ![h].todo = @ \ {n}]
    /\ UNCHANGED <<table, regs, snaps, clients, lock, daemons, request, acked,
                   gone, odd, storeFaults>>

(***************************************************************************)
(* The whole.                                                               *)
(***************************************************************************)
ClientStep(t) ==
    \/ ClientCached(t) \/ ClientReadsRoot(t) \/ ClientReadsEnv(t)
    \/ Ensure(t) \/ EnsureFails(t)

PollStep(h) ==
    \/ RefreshLocks(h) \/ RefreshLists(h) \/ RefreshListFails(h) \/ RefreshReplaces(h)
    \/ RefreshSnapshots(h) \/ PollLists(h) \/ PollNext(h) \/ ClientStep(h)

CallStarts(q) ==
    AddRegisters(q) \/ RemoveUnregisters(q) \/ SetRegisters(q)

CallStep(q) ==
    \/ AddUpserts(q) \/ AddUpsertFails(q) \/ AddPushes(q)
    \/ RemoveDeletes(q) \/ RemoveDeleteFails(q) \/ RemovePrunes(q)
    \/ SetSaves(q) \/ SetSaveFails(q) \/ RestartShutsDown(q) \/ RestartOutlived(q)
    \/ ClientStep(q)

RegNext ==
    \/ \E h \in Hosts : PollStep(h)
    \/ \E q \in DOMAIN request : CallStarts(q) \/ CallStep(q)

(* The poll loop is a timer of a running daemon; a call that began goes on. *)
RegFairness ==
    /\ \A h \in Hosts : WF_regVars(PollStep(h))
    /\ \A q \in Calls : WF_regVars(q \in DOMAIN request /\ CallStep(q))

RegSpec == RegInit /\ [][RegNext]_regVars /\ RegFairness

(***************************************************************************)
(* Properties.                                                              *)
(***************************************************************************)
JobPCs == {"idle", "done", "upsert", "push", "delete", "prune", "save", "shutdown",
           "client", "env", "ensure", "list", "replace", "snapshot", "names", "next"}

(* Types; and no registration, in the table or in any replica's memory, has *)
(* an api_key_from_env that its provider would ignore.                      *)
RegTypeOK ==
    /\ \A t \in Jobs : job[t].pc \in JobPCs /\ job[t].todo \subseteq Names
    /\ \A h \in Hosts : lock[h] \in Jobs \cup {Free}
    /\ \A h \in Hosts, n \in Names : clients[h][n] \in Roots \cup {NoRoot}
    /\ \A n \in Names : \A record \in {table[n]} \cup {regs[h][n] : h \in Hosts} :
          record # Absent =>
              /\ record.root \in Roots
              /\ record.config.key = "none" \/ record.config.provider \in Keyed \cup {"none"}
    /\ storeFaults \in 0..MaxStoreFaults

(* A configuration that was set stays set, in the table and on the replica  *)
(* that set it, until another call writes the workspace: the poll loop's    *)
(* refresh does not "read stale durable state and clobber this write back"  *)
(* (set_repo_config_registry_only, #85).                                    *)
AckedConfigStands ==
    \A n \in Names : acked[n] # NoAck =>
        /\ table[n].config = acked[n].config
        /\ regs[acked[n].at][n].config = acked[n].config

(* A workspace whose removal was answered stays out of the table as long as *)
(* no other call writes it: refreshes that put it back into a replica's     *)
(* memory between the unregistration and the delete leave no durable trace. *)
RemovedStaysRemoved == \A n \in gone : table[n] = Absent

(* The caliband of a registered workspace runs with the environment of its  *)
(* registered configuration, but for the gaps the code leaves: no           *)
(* client of it was cached to send the shutdown with, the shutdown failed   *)
(* or the daemon outlived the wait for its end, a racing client_for went by *)
(* the registration it had read before, an add wrote the row of a caliband  *)
(* that runs with another configuration, or two names have had one root.    *)
CalibandEnvCurrent ==
    \A n \in Names :
        table[n] # Absent /\ Writers(n) = {} /\ odd = {} =>
            daemons[table[n].root] \in {Down, EnvOf(table[n].config)}

(* What a spawn is admitted on is what its agent gets: where                *)
(* validate_provider_env passes on the configuration a  *)
(* replica holds, the running caliband has the provider's key or needs none, *)
(* short of a writer at work, a replica that lags behind, and those gaps.   *)
SpawnHasKey ==
    \A h \in Hosts, n \in Names :
        LET cfg == regs[h][n].config
            env == daemons[table[n].root]
        IN  (/\ regs[h][n] = table[n] /\ table[n] # Absent
             /\ Writers(n) = {} /\ odd = {}
             /\ ValidateProviderEnv(cfg, EnvOf(cfg))
             /\ env # Down /\ cfg.provider \in Keyed /\ ~ cfg.base)
                => Has(env, KeyVar(cfg.provider))

(* Once the calls are over every running replica comes to know exactly the  *)
(* workspaces of the table, in its registry and in its snapshot, whoever    *)
(* added or removed them (#50).                                             *)
RegistryConverges ==
    (\A q \in Calls : job[q].pc \in {"idle", "done"}) ~>
        \/ \E q \in Calls : job[q].pc \notin {"idle", "done"}
        \/ \A h \in Hosts : job[h] # Over =>
              /\ regs[h] = table
              /\ \A n \in Names : snaps[h][n] = NoRoot <=> table[n] = Absent

(* "Reject a different name occupying the same root: two names for one root *)
(* alias a single caliband daemon" (Registry::add, #47).                    *)
OneNamePerRoot ==
    \A m, n \in Names :
        m # n /\ table[m] # Absent /\ table[n] # Absent => table[m].root # table[n].root

(* What a call was answered stands: a set configuration and a removal, until *)
(* another call writes the workspace (set_repo_config, remove_workspace).    *)
RegSound == RegTypeOK /\ AckedConfigStands /\ RemovedStaysRemoved

(* The environment of a workspace's caliband is that of its registered       *)
(* configuration, also as far as a spawn was admitted on it.                 *)
EnvCurrent == CalibandEnvCurrent /\ SpawnHasKey

==============================================================================
