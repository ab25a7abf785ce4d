----------------------------- MODULE FleetPoll -----------------------------
(***************************************************************************)
(* The poll loop of `FleetManager` (crates/core/src/fleet.rs) over one      *)
(* repo: list caliband's agents, diff them against the served snapshot,     *)
(* emit the differences, replace the snapshot, attach, enforce deadlines;   *)
(* and the requests that touch the same state, spawn, rm and kill.          *)
(*                                                                          *)
(* A poll is cut at its awaits: every emission, every request to caliband   *)
(* and every section under the snapshot lock is one step. Emission itself   *)
(* (Emitter) and the per-agent lease (Leases) are one step each here.       *)
(***************************************************************************)
EXTENDS Integers, Sequences, FiniteSets

CONSTANTS
    Pollers,       \* prosperod processes
    Nobody,         \* the lifecycle lease's owner when it is free
    Agents,         \* agent ids
    Budgets         \* bound: what may happen in one behaviour, a set of records:
                    \* changes (of an agent's status), outages (of caliband),
                    \* killFaults, expiries (of a live owner's lease), crashes,
                    \* removals, the replicas that run, the agents caliband
                    \* runs before prosperod starts and those of the others
                    \* whose spawn request has a timeout

ASSUME LeaseNobodyAssumption == Nobody \notin Pollers /\ Nobody \notin Agents
ASSUME BudgetsAssumption ==
    Budgets \subseteq [changes : Nat, outages : Nat, killFaults : Nat, expiries : Nat,
                       crashes : Nat, removals : Nat, run : SUBSET Pollers,
                       existing : SUBSET Agents, timed : SUBSET Agents]

VARIABLES
    cal,        \* cal[a]: the status in caliband's registry
    up,         \* caliband answers
    expired,    \* the agents whose deadline has passed
    told,        \* told[a]: what the events of a's stream tell a reader (see Told)
    healthLog,  \* the last RepoHealth of the repo's stream
    owner,      \* the holder of the repo's lifecycle lease
    snap,       \* snap[r][a]: the status in r's served snapshot
    health,     \* health[r]: the repo's health in r's snapshot
    recent,     \* recent[r]: recent_spawns
    attached,   \* attached[r]: the agents with an attach task
    deadlines,  \* deadlines[r]: the agents whose deadline r has in memory
    poll,       \* poll[r]: where r's poll is, and its local variables
    spawn,      \* spawn[a]: where the request that spawns a is, and on which replica
    rm,         \* rm[a]: where the request that removes a is, and on which replica
    down,       \* the replicas that are not running
    budget,     \* what may still happen
    mishaps     \* the kinds of fault that have happened

world == <<cal, up, expired>>
local == <<snap, health, recent, attached, deadlines>>
requests == <<spawn, rm>>
bounds == <<budget, mishaps>>
pollVars == <<cal, up, expired, told, healthLog, owner, snap, health, recent, attached,
              deadlines, poll, spawn, rm, down, budget, mishaps>>

Terminal == {"done", "killed"}
Live == {"running", "idle"}
Status == Live \cup Terminal \cup {"absent"}
None == [a \in Agents |-> "absent"]
Present(s) == {a \in Agents : s[a] # "absent"}

(* A stream is kept as what a reader knows from it: `status`, the last        *)
(* status it was told of ("known": told of the agent alone), `listed`, some   *)
(* poll reported it, `deadline`, a DeadlineSet, `timeouts`, the AgentTimedOut *)
(* events up to two, and `fits`, every StatusChanged so far started from the  *)
(* status the event before it led to. An AgentSpawned may come after what a   *)
(* poll has reported of the agent, and then says nothing new.                 *)
Untold == [status |-> "absent", listed |-> FALSE, deadline |-> FALSE,
           timeouts |-> 0, fits |-> TRUE]
Told(t, kind, from, to) ==
    CASE kind = "AgentSpawned" -> [t EXCEPT !.status = IF t.listed THEN @ ELSE "known"]
      [] kind = "DeadlineSet" -> [t EXCEPT !.deadline = TRUE]
      [] kind = "AgentTimedOut" -> [t EXCEPT !.timeouts = IF @ < 2 THEN @ + 1 ELSE @]
      [] kind = "AgentDiscovered" -> [t EXCEPT !.status = "known", !.listed = TRUE]
      [] kind = "AgentGone" -> [t EXCEPT !.status = "absent", !.listed = TRUE]
      [] kind = "StatusChanged" -> [t EXCEPT !.status = to, !.listed = TRUE,
                                             !.fits = @ /\ t.status \in {"known", from}]
EmitAbout(a, kind) == told' = [told EXCEPT ![a] = Told(@, kind, "absent", "absent")]

Idle == [pc |-> "idle", own |-> FALSE, records |-> None, prior |-> None,
         attachedNow |-> {}, todo |-> {}, victim |-> Nobody]
NoRequest == [pc |-> "idle", at |-> Nobody]

PollInit ==
    /\ budget \in Budgets
    /\ cal = [a \in Agents |-> IF a \in budget.existing THEN "running" ELSE "absent"]
    /\ up = TRUE /\ expired = {}
    /\ told = [a \in Agents |-> Untold] /\ healthLog = "healthy"
    /\ owner = Nobody
    /\ snap = [r \in Pollers |-> None]
    /\ health = [r \in Pollers |-> "healthy"]
    /\ recent = [r \in Pollers |-> {}]
    /\ attached = [r \in Pollers |-> {}]
    /\ deadlines = [r \in Pollers |-> {}]
    /\ poll = [r \in Pollers |-> Idle]
    /\ spawn = [a \in Agents |-> NoRequest]
    /\ rm = [a \in Agents |-> NoRequest]
    /\ down = Pollers \ budget.run
    /\ mishaps = {}

Timed == budget.timed

(* One of the things of this kind that may happen does. *)
Spend(what) == budget[what] > 0 /\ budget' = [budget EXCEPT ![what] = @ - 1]

(***************************************************************************)
(* poll_repo_once.                                                          *)
(***************************************************************************)
(* r's poll goes on as p. *)
Goes(r, p) == poll' = [poll EXCEPT ![r] = p]

(* try_acquire on the repo's own stream key: free or already ours. *)
Acquires(r) == owner \in {Nobody, r}

(* The lease, then the list. `own` and the list grow old together from here.  *)
PollList(r) ==
    /\ poll[r].pc = "idle" /\ r \notin down
    /\ up
    /\ owner' = IF Acquires(r) THEN r ELSE owner
    /\ Goes(r, [poll[r] EXCEPT !.pc = "prior", !.own = Acquires(r), !.records = cal])
    /\ UNCHANGED <<world, told, healthLog, local, requests, down, bounds>>

(* Discovery or list failed: mark_unreachable. *)
PollListFails(r) ==
    /\ poll[r].pc = "idle" /\ r \notin down
    /\ ~ up
    /\ owner' = IF Acquires(r) THEN r ELSE owner
    /\ health' = [health EXCEPT ![r] = "unreachable"]
    /\ Goes(r, [poll[r] EXCEPT !.pc = IF health[r] # "unreachable" /\ Acquires(r)
                                      THEN "unreachable" ELSE @])
    /\ UNCHANGED <<world, told, healthLog, snap, recent, attached, deadlines,
                   requests, down, bounds>>

EmitUnreachable(r) ==
    /\ poll[r].pc = "unreachable"
    /\ healthLog' = "unreachable"
    /\ Goes(r, Idle)
    /\ UNCHANGED <<world, told, owner, local, requests, down, bounds>>

(***************************************************************************)
(* reconcile.                                                               *)
(***************************************************************************)
(* Mutant: a peer that does not own the lifecycle lease emits too. *)
ChangedUngated(own, records, prior, attachedNow) ==
    {a \in Agents : /\ records[a] # prior[a]
                    /\ prior[a] = "absent" => a \notin attachedNow}

(* The agents it emits about. A new agent that is attached was spawned here  *)
(* and has its AgentSpawned.                                                 *)
Changed(own, records, prior, attachedNow) ==
    {a \in Agents : /\ own
                    /\ records[a] # prior[a]
                    /\ prior[a] = "absent" => a \notin attachedNow}

ReadPrior(r) ==
    /\ poll[r].pc = "prior"
    /\ Goes(r, [poll[r] EXCEPT
                  !.prior = snap[r],
                  !.attachedNow = attached[r],
                  !.todo = Changed(poll[r].own, poll[r].records, snap[r], attached[r]),
                  !.pc = "diff"])
    /\ UNCHANGED <<world, told, healthLog, owner, local, requests, down, bounds>>

EmitChange(a, old, new) ==
    told' = [told EXCEPT ![a] =
              IF old = "absent" THEN Told(@, "AgentDiscovered", old, new)
              ELSE IF new = "absent" THEN Told(@, "AgentGone", old, new)
              ELSE Told(@, "StatusChanged", old, new)]

(* The agents that are listed come before those that disappeared. *)
EmitDiff(r, a) ==
    /\ poll[r].pc = "diff" /\ a \in poll[r].todo
    /\ poll[r].records[a] = "absent" =>
          poll[r].todo \cap Present(poll[r].records) = {}
    /\ EmitChange(a, poll[r].prior[a], poll[r].records[a])
    /\ Goes(r, [poll[r] EXCEPT !.todo = @ \ {a}])
    /\ UNCHANGED <<world, healthLog, owner, local, requests, down, bounds>>

(* Mutant: what is listed is merged into the snapshot. *)
WriteSnapshotMerged(r) ==
    /\ poll[r].pc = "diff" /\ poll[r].todo = {}
    /\ snap' = [snap EXCEPT ![r] = [a \in Agents |->
                  IF poll[r].records[a] = "absent" THEN @[a] ELSE poll[r].records[a]]]
    /\ health' = [health EXCEPT ![r] = "healthy"]
    /\ Goes(r, [poll[r] EXCEPT
                  !.prior = None,
                  !.pc = IF health[r] = "unreachable" /\ poll[r].own
                         THEN "healthy" ELSE "recent"])
    /\ UNCHANGED <<world, told, healthLog, owner, recent, attached, deadlines,
                   requests, down, bounds>>

WriteSnapshot(r) ==
    /\ poll[r].pc = "diff" /\ poll[r].todo = {}
    /\ snap' = [snap EXCEPT ![r] = poll[r].records]
    /\ health' = [health EXCEPT ![r] = "healthy"]
    /\ Goes(r, [poll[r] EXCEPT
                  !.prior = None,
                  !.pc = IF health[r] = "unreachable" /\ poll[r].own
                         THEN "healthy" ELSE "recent"])
    /\ UNCHANGED <<world, told, healthLog, owner, recent, attached, deadlines,
                   requests, down, bounds>>

EmitHealthy(r) ==
    /\ poll[r].pc = "healthy"
    /\ healthLog' = "healthy"
    /\ Goes(r, [poll[r] EXCEPT !.pc = "recent"])
    /\ UNCHANGED <<world, told, owner, local, requests, down, bounds>>

(* start_attach: one replica holds an agent's stream lease. *)
Attach(r, as) ==
    attached' = [attached EXCEPT ![r] =
                   @ \cup {a \in as : \A q \in Pollers \ {r} : a \notin attached[q]}]

(* The snapshot now answers for the listed agents. *)
StillRecent(r) == recent[r] \ Present(poll[r].records)

(* Only the lifecycle lease's owner goes on to the deadlines. *)
Enforces(r) == poll[r].own

(* The live agents that had no attach task get one. *)
PruneRecentAndAttach(r) ==
    /\ poll[r].pc = "recent"
    /\ recent' = [recent EXCEPT ![r] = StillRecent(r)]
    /\ Attach(r, {a \in Agents : poll[r].records[a] \in Live} \ poll[r].attachedNow)
    /\ Goes(r, IF Enforces(r) THEN [Idle EXCEPT !.pc = "deadlines", !.own = poll[r].own]
               ELSE Idle)
    /\ UNCHANGED <<world, told, healthLog, owner, snap, health, deadlines,
                   requests, down, bounds>>

(***************************************************************************)
(* enforce_deadlines.                                                       *)
(***************************************************************************)
(* deadline_in: the log has a DeadlineSet for a. *)
DeadlineIn(a) == told[a].deadline

(* Mutant: only the deadlines this replica has set are enforced. *)
KnownDeadlinesLocal(r) == deadlines[r]

(* Deadlines this replica did not set are read back from the log. *)
KnownDeadlines(r) ==
    deadlines[r] \cup {a \in Agents : snap[r][a] \in Live /\ DeadlineIn(a)}

(* What is left of the poll once `todo` holds the agents still to be killed. *)
KillNext(r, todo) ==
    Goes(r, IF todo = {} THEN Idle
            ELSE [Idle EXCEPT !.pc = "due", !.own = poll[r].own, !.todo = todo])

FindExpired(r) ==
    /\ poll[r].pc = "deadlines"
    /\ deadlines' = [deadlines EXCEPT ![r] = KnownDeadlines(r)]
    /\ KillNext(r, {a \in KnownDeadlines(r) \cap expired : snap[r][a] \in Live})
    /\ UNCHANGED <<world, told, healthLog, owner, snap, health, recent, attached,
                   requests, down, bounds>>

(* The reason is recorded first. *)
EmitTimedOut(r, a) ==
    /\ poll[r].pc = "due" /\ a \in poll[r].todo
    /\ EmitAbout(a, "AgentTimedOut")
    /\ Goes(r, [poll[r] EXCEPT !.victim = a, !.todo = @ \ {a}, !.pc = "kill"])
    /\ UNCHANGED <<world, healthLog, owner, local, requests, down, bounds>>

Killed(a) == cal' = [cal EXCEPT ![a] = IF @ \in Live THEN "killed" ELSE @]

KillExpired(r) ==
    LET a == poll[r].victim IN
    /\ poll[r].pc = "kill" /\ up /\ cal[a] # "absent"
    /\ Killed(a)
    /\ deadlines' = [deadlines EXCEPT ![r] = @ \ {a}]
    /\ KillNext(r, poll[r].todo)
    /\ UNCHANGED <<up, expired, told, healthLog, owner, snap, health, recent, attached,
                   requests, down, bounds>>

(* The kill fails; the next poll tries again. *)
KillExpiredFails(r) ==
    /\ poll[r].pc = "kill"
    /\ IF up /\ cal[poll[r].victim] # "absent"
       THEN Spend("killFaults")
       ELSE UNCHANGED budget
    /\ mishaps' = mishaps \cup {"kill"}
    /\ KillNext(r, poll[r].todo)
    /\ UNCHANGED <<world, told, healthLog, owner, local, requests, down>>

(* attach_loop returned: the agent's stream has ended. *)
AttachExits(r, a) ==
    /\ a \in attached[r] /\ cal[a] \notin Live
    /\ attached' = [attached EXCEPT ![r] = @ \ {a}]
    /\ UNCHANGED <<world, told, healthLog, owner, snap, health, recent, deadlines, poll,
                   requests, down, bounds>>

(***************************************************************************)
(* spawn_agent, rm_agent, kill_agent.                                       *)
(***************************************************************************)
(* caliband creates the agent; the id is resolvable from here on. *)
SpawnAgent(r, a) ==
    /\ spawn[a].pc = "idle" /\ a \notin budget.existing
    /\ r \notin down /\ up
    /\ cal' = [cal EXCEPT ![a] = "running"]
    /\ recent' = [recent EXCEPT ![r] = @ \cup {a}]
    /\ spawn' = [spawn EXCEPT ![a] = [pc |-> "emit", at |-> r]]
    /\ UNCHANGED <<up, expired, told, healthLog, owner, snap, health, attached, deadlines,
                   poll, rm, down, bounds>>

SpawnEmit(a) ==
    LET r == spawn[a].at IN
    /\ spawn[a].pc = "emit"
    /\ EmitAbout(a, "AgentSpawned")
    /\ deadlines' = IF a \in Timed THEN [deadlines EXCEPT ![r] = @ \cup {a}] ELSE deadlines
    /\ spawn' = [spawn EXCEPT ![a].pc = IF a \in Timed THEN "deadline" ELSE "attach"]
    /\ UNCHANGED <<world, healthLog, owner, snap, health, recent, attached, poll, rm,
                   down, bounds>>

SpawnDeadline(a) ==
    /\ spawn[a].pc = "deadline"
    /\ EmitAbout(a, "DeadlineSet")
    /\ spawn' = [spawn EXCEPT ![a].pc = "attach"]
    /\ UNCHANGED <<world, healthLog, owner, local, poll, rm, down, bounds>>

SpawnAttach(a) ==
    /\ spawn[a].pc = "attach"
    /\ Attach(spawn[a].at, {a})
    /\ spawn' = [spawn EXCEPT ![a].pc = "done"]
    /\ UNCHANGED <<world, told, healthLog, owner, snap, health, recent, deadlines, poll, rm,
                   down, bounds>>

(* repo_of: the snapshot, or the agents just spawned. *)
RepoOf(r, a) == snap[r][a] # "absent" \/ a \in recent[r]

KillAgent(r, a) ==
    /\ r \notin down /\ up
    /\ RepoOf(r, a) /\ cal[a] \in Live
    /\ Spend("changes")
    /\ Killed(a)
    /\ UNCHANGED <<up, expired, told, healthLog, owner, local, poll, requests, down,
                   mishaps>>

RmAgent(r, a) ==
    /\ rm[a].pc = "idle" /\ r \notin down /\ up
    /\ RepoOf(r, a) /\ cal[a] # "absent"
    /\ Spend("removals")
    /\ cal' = [cal EXCEPT ![a] = "absent"]
    /\ recent' = [recent EXCEPT ![r] = @ \ {a}]
    /\ rm' = [rm EXCEPT ![a] = [pc |-> "prune", at |-> r]]
    /\ UNCHANGED <<up, expired, told, healthLog, owner, snap, health, attached, deadlines,
                   poll, spawn, down, mishaps>>

(* Mutant: the agent is pruned and the next poll is left to report it. *)
RmPruneSilently(a) ==
    /\ rm[a].pc = "prune"
    /\ snap' = [snap EXCEPT ![rm[a].at][a] = "absent"]
    /\ rm' = [rm EXCEPT ![a].pc = "done"]
    /\ UNCHANGED <<world, told, healthLog, owner, health, recent, attached, deadlines,
                   poll, spawn, down, bounds>>

(* Optimistically drop it from the snapshot. *)
RmPrune(a) ==
    LET r == rm[a].at IN
    /\ rm[a].pc = "prune"
    /\ snap' = [snap EXCEPT ![r][a] = "absent"]
    /\ rm' = [rm EXCEPT ![a].pc = IF snap[r][a] # "absent" THEN "acquire" ELSE "done"]
    /\ UNCHANGED <<world, told, healthLog, owner, health, recent, attached, deadlines,
                   poll, spawn, down, bounds>>

RmAcquire(a) ==
    LET r == rm[a].at IN
    /\ rm[a].pc = "acquire"
    /\ owner' = IF Acquires(r) THEN r ELSE owner
    /\ rm' = [rm EXCEPT ![a].pc = IF Acquires(r) THEN "emit" ELSE "done"]
    /\ UNCHANGED <<world, told, healthLog, local, poll, spawn, down, bounds>>

RmEmit(a) ==
    /\ rm[a].pc = "emit"
    /\ EmitAbout(a, "AgentGone")
    /\ rm' = [rm EXCEPT ![a].pc = "done"]
    /\ UNCHANGED <<world, healthLog, owner, local, poll, spawn, down, bounds>>

(***************************************************************************)
(* caliband, the clock, the lease table and the replicas.                   *)
(***************************************************************************)
AgentChanges(a) ==
    /\ Spend("changes")
    /\ cal[a] \in Live
    /\ \E s \in (Live \cup {"done"}) \ {cal[a]} : cal' = [cal EXCEPT ![a] = s]
    /\ UNCHANGED <<up, expired, told, healthLog, owner, local, poll, requests, down,
                   mishaps>>

CalibandDown ==
    /\ up /\ Spend("outages")
    /\ up' = FALSE
    /\ UNCHANGED <<cal, expired, told, healthLog, owner, local, poll, requests, down,
                   mishaps>>

CalibandUp ==
    /\ ~ up /\ up' = TRUE
    /\ UNCHANGED <<cal, expired, told, healthLog, owner, local, poll, requests, down, bounds>>

DeadlinePasses(a) ==
    /\ a \in Timed \ expired /\ spawn[a].pc # "idle"
    /\ expired' = expired \cup {a}
    /\ UNCHANGED <<cal, up, told, healthLog, owner, local, poll, requests, down, bounds>>

(* The heartbeat came too late. *)
LeaseExpires ==
    /\ owner # Nobody /\ owner \notin down
    /\ Spend("expiries")
    /\ mishaps' = mishaps \cup {"expiry"}
    /\ owner' = Nobody
    /\ UNCHANGED <<world, told, healthLog, local, poll, requests, down>>

(* The lease of a replica that is gone runs out. *)
DeadLeaseExpires ==
    /\ owner \in down
    /\ owner' = Nobody
    /\ UNCHANGED <<world, told, healthLog, local, poll, requests, down, bounds>>

(* What a request in flight on r leaves behind. *)
Abandoned(q, r) == [a \in Agents |-> IF q[a].at = r /\ q[a].pc # "idle"
                                     THEN [q[a] EXCEPT !.pc = "done"] ELSE q[a]]

CrashReplica(r) ==
    /\ r \notin down /\ Spend("crashes")
    /\ mishaps' = mishaps \cup {"crash"}
    /\ down' = down \cup {r}
    /\ snap' = [snap EXCEPT ![r] = None]
    /\ health' = [health EXCEPT ![r] = "healthy"]
    /\ recent' = [recent EXCEPT ![r] = {}]
    /\ attached' = [attached EXCEPT ![r] = {}]
    /\ deadlines' = [deadlines EXCEPT ![r] = {}]
    /\ poll' = [poll EXCEPT ![r] = Idle]
    /\ spawn' = Abandoned(spawn, r)
    /\ rm' = Abandoned(rm, r)
    /\ UNCHANGED <<world, told, healthLog, owner>>

(* with_seams: the snapshot starts with the repo and no agents. *)
Restart(r) ==
    /\ r \in down \cap budget.run
    /\ down' = down \ {r}
    /\ UNCHANGED <<world, told, healthLog, owner, local, poll, requests, bounds>>

PollStep(r) ==
    \/ PollList(r) \/ PollListFails(r) \/ EmitUnreachable(r)
    \/ ReadPrior(r) \/ (\E a \in Agents : EmitDiff(r, a))
    \/ WriteSnapshot(r) \/ EmitHealthy(r) \/ PruneRecentAndAttach(r)
    \/ FindExpired(r) \/ (\E a \in Agents : EmitTimedOut(r, a))
    \/ KillExpired(r) \/ KillExpiredFails(r)

RequestStep(a) ==
    \/ SpawnEmit(a) \/ SpawnDeadline(a) \/ SpawnAttach(a)
    \/ RmPrune(a) \/ RmAcquire(a) \/ RmEmit(a)

PollNext ==
    \/ \E r \in Pollers : PollStep(r) \/ CrashReplica(r) \/ Restart(r)
    \/ \E a \in Agents : RequestStep(a) \/ AgentChanges(a) \/ DeadlinePasses(a)
    \/ \E r \in Pollers, a \in Agents :
          SpawnAgent(r, a) \/ RmAgent(r, a) \/ KillAgent(r, a) \/ AttachExits(r, a)
    \/ CalibandDown \/ CalibandUp \/ LeaseExpires \/ DeadLeaseExpires

(* A running replica polls again and again, a request that was accepted is  *)
(* carried through, caliband comes back, a dead replica's lease runs out.   *)
PollFairness ==
    /\ \A r \in Pollers : WF_pollVars(PollStep(r))
    /\ \A a \in Agents : WF_pollVars(RequestStep(a))
    /\ WF_pollVars(CalibandUp)
    /\ WF_pollVars(DeadLeaseExpires)

PollSpec == PollInit /\ [][PollNext]_pollVars /\ PollFairness

(***************************************************************************)
(* Properties.                                                              *)
(***************************************************************************)
(* Every variable has its type, and only the owner of the lifecycle lease    *)
(* gets as far as enforce_deadlines.                                         *)
PollTypeOK ==
    /\ cal \in [Agents -> Status] /\ up \in BOOLEAN /\ expired \subseteq Timed
    /\ told \in [Agents -> [status : Status \cup {"known"}, listed : BOOLEAN,
                           deadline : BOOLEAN, timeouts : 0..2, fits : BOOLEAN]]
    /\ healthLog \in {"healthy", "unreachable"}
    /\ owner \in Pollers \cup {Nobody}
    /\ \A r \in Pollers :
          /\ snap[r] \in [Agents -> Status]
          /\ health[r] \in {"healthy", "unreachable"}
          /\ recent[r] \cup attached[r] \cup poll[r].todo \subseteq Agents
          /\ deadlines[r] \subseteq Timed
          /\ (poll[r].pc = "kill") = (poll[r].victim # Nobody)
          /\ poll[r].pc \in {"deadlines", "due", "kill"} => poll[r].own

(* Nothing has made the lifecycle lease change hands. *)
SameOwner == mishaps \subseteq {"kill"}

(* While one replica holds the lifecycle lease, the transitions in an        *)
(* agent's stream fit together: each StatusChanged starts from the status    *)
(* that the event before it led to, so no transition is written twice or by  *)
(* two replicas (poll_repo_once: "peers don't double-write the same          *)
(* transition"). An agent that is being removed is left out: a poll that     *)
(* was in flight reports its last transition after the AgentGone.            *)
StatusChain ==
    \A a \in Agents : SameOwner /\ rm[a].pc = "idle" => told[a].fits

(* While one replica holds the lifecycle lease, the log keeps up with its    *)
(* snapshot: in the end the reader of a stream believes what the owner       *)
(* serves, also after rm_agent pruned the snapshot behind a poll's back.     *)
(* An agent that no poll reported leaves no AgentGone; where no replica runs *)
(* there is nothing to keep up with.                                         *)
LogAgrees(r) ==
    /\ \A a \in Agents :
          told[a].listed =>
              \/ told[a].status = snap[r][a]
              \/ told[a].status = "known" /\ snap[r][a] # "absent"
    /\ healthLog = health[r]
LogKeepsUp ==
    <>(~ SameOwner) \/ <>[](\E r \in Pollers : owner = r /\ LogAgrees(r)) \/ budget.run = {}

(* Once caliband stops changing, every running replica serves exactly what   *)
(* caliband has, whatever stale list a poll was holding when an agent was    *)
(* spawned, removed or killed (rm_agent: "The next poll remains              *)
(* authoritative").                                                          *)
SnapshotConverges == <>[](\A r \in Pollers \ down : snap[r] = cal /\ health[r] = "healthy")

(* A deadline that reached the log is enforced while any replica runs:       *)
(* the agent does not outlive it forever, also when the replica that set it  *)
(* crashed or its kill failed (deadline.rs: "any replica that takes the      *)
(* agent over can read it back").                                            *)
DeadlineEnforced ==
    \A a \in Agents :
        (DeadlineIn(a) /\ a \in expired /\ cal[a] \in Live)
            ~> (cal[a] \notin Live \/ budget.run \subseteq down)

(* One replica acts on an expiry, once: while the lifecycle lease stays       *)
(* where it is and no kill fails, a stream has at most one AgentTimedOut      *)
(* (reconcile: "exactly one replica acts on an expiry").                      *)
TimedOutOnce == \A a \in Agents : mishaps = {} => told[a].timeouts <= 1

(* An agent that was spawned here can be named in a request from the moment  *)
(* spawn_agent has its id until it is removed: between them, the snapshot    *)
(* and recent_spawns never lose it (repo_of: "instead of 404ing on the       *)
(* registration race").                                                      *)
SpawnResolvable ==
    \A a \in Agents :
        spawn[a].pc # "idle" /\ cal[a] # "absent" /\ SameOwner => RepoOf(spawn[a].at, a)

(* One owner of the lifecycle lease writes each thing once: the transitions  *)
(* fit together and an expiry is acted on once; and an agent that was        *)
(* spawned is found (poll_repo_once, reconcile, repo_of).                    *)
PollSound == PollTypeOK /\ StatusChain /\ TimedOutOnce /\ SpawnResolvable

============================================================================
