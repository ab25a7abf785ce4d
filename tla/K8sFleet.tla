------------------------------ MODULE K8sFleet ------------------------------
(***************************************************************************)
(* The Kubernetes backend (crates/core/src/k8s/fleet.rs) over one           *)
(* CalibanTask name: the watch loop of every replica, the attach tasks it   *)
(* starts, and the requests that create, stop, restart or remove the task.  *)
(*                                                                          *)
(* A name lives through several incarnations, numbered by `uid`, which      *)
(* stands for metadata.uid and for metadata.creationTimestamp. An           *)
(* incarnation has one pod, the pod one caliband, and the caliband a list   *)
(* of agent records. A step is what the code does between two awaits, or    *)
(* under one lock; the lease of the agent and the observer lease are the    *)
(* two rows of Leases, each with its owner alone. The subscribers of the    *)
(* loop's changes are in FleetWatch.                                        *)
(***************************************************************************)
EXTENDS Integers, Sequences, FiniteSets

CONSTANTS
    Replicas,   \* prosperod processes
    Nobody,     \* the owner of a free lease; the caller of no request
    MaxUid,     \* bound: incarnations of the name
    MaxTasks,   \* bound: attach tasks of a replica that have not ended
    Budgets     \* bound: what may happen in one behaviour, a set of records:
                \* the replicas that run, the requests that are made, the ends
                \* an agent may come to, its turns (busy to idle and back), dialFaults, readFaults (of
                \* the store), expiries (of a live replica's leases), crashes,
                \* the attach tasks of a replica at a time

ASSUME NobodyIsNoReplica == Nobody \notin Replicas
ASSUME MaxUidAssumption == MaxUid \in Nat \ {0} /\ MaxTasks \in Nat \ {0}
ASSUME K8sBudgetsAssumption ==
    Budgets \subseteq [run : SUBSET Replicas,
                       requests : SUBSET {"ensure", "restart", "stop", "remove"},
                       ends : SUBSET {"done", "failed"}, tasks : 1..MaxTasks, turns : Nat, dialFaults : Nat, readFaults : Nat,
                       expiries : Nat, crashes : Nat]

VARIABLES
    cr,         \* the CalibanTask in the apiserver; uid 0: there is none
    pods,       \* pods[u]: the statuses of the records in u's caliband
    podsUp,     \* the incarnations whose pod answers
    uids,       \* how many incarnations there have been
    outcomes,   \* outcomes[u]: terminal StatusChanged events a poll wrote for u
    owner,      \* the agent's lease
    observer,   \* the lease on OBSERVER_STREAM_KEY
    known,      \* known[r]: the agent in r's `known` map; uid 0: absent
    terminal,   \* terminal[r]: the name is in the session plane's `terminal` set
    recorded,   \* recorded[r]: the name is in `terminal_recorded`
    lastUid,    \* lastUid[r]: the name's entry in `last_uids`
    slot,       \* slot[r]: the name's entry in `attached`; gen 0: absent
    tasks,      \* tasks[r]: the attach tasks
    poll,       \* poll[r]: where r's watch loop is, and its local variables
    req,        \* the request in progress
    budget,     \* what may still happen
    mishaps     \* what has happened of it that weakens a guarantee

cluster == <<cr, pods, podsUp, uids>>
leases == <<owner, observer>>
plane == <<terminal, slot, tasks>>
loopVars == <<known, recorded, lastUid>>
k8sVars == <<cr, pods, podsUp, uids, outcomes, owner, observer, known, terminal, recorded,
             lastUid, slot, tasks, poll, req, budget, mishaps>>

(***************************************************************************)
(* What a task and its pod look like from outside.                          *)
(***************************************************************************)
Finished == {"done", "failed"}
Status == {"spawning", "running", "idle"} \cup Finished
NoTask == [uid |-> 0, phase |-> "", deleting |-> FALSE, settled |-> "unknown"]
Created(u) == [uid |-> u, phase |-> "Pending", deleting |-> FALSE, settled |-> "unknown"]
NoSlot == [gen |-> 0, abort |-> FALSE]
Unknown == [uid |-> 0, status |-> "spawning"]

(* The operator's phases; one the mirror has no name for is a failure. *)
phase_to_status(phase) ==
    CASE phase \in {"", "Pending"} -> "spawning"
      [] phase = "Running" -> "running"
      [] phase = "Draining" -> "idle"
      [] phase = "Completed" -> "done"
      [] OTHER -> "failed"

(* Attachable: Running, with an endpoint, which the operator sets with it. *)
Attachable(phase) == phase = "Running"

agents_settled_condition(agents) ==
    IF agents = {} \/ ~ agents \subseteq Finished THEN "active"
    ELSE IF "failed" \in agents THEN "failed" ELSE "succeeded"

LiveIn(u) == {i \in DOMAIN pods[u] : pods[u][i] \notin Finished}

IdlePoll == [pc |-> "idle", uid |-> 0, phase |-> "", recreated |-> FALSE,
             change |-> "none", to |-> "spawning", refreshed |-> FALSE, gen |-> 0]
NoRequest == [kind |-> "none", at |-> Nobody, pc |-> "done"]

Init ==
    /\ budget \in Budgets
    /\ cr = Created(1) /\ uids = 1
    /\ pods = [u \in 1..MaxUid |-> <<>>] /\ podsUp = {}
    /\ outcomes = [u \in 1..MaxUid |-> 0]
    /\ owner = Nobody /\ observer = Nobody
    /\ known = [r \in Replicas |-> Unknown]
    /\ terminal = [r \in Replicas |-> FALSE]
    /\ recorded = [r \in Replicas |-> FALSE]
    /\ lastUid = [r \in Replicas |-> 0]
    /\ slot = [r \in Replicas |-> NoSlot]
    /\ tasks = [r \in Replicas |-> {}]
    /\ poll = [r \in Replicas |-> IdlePoll]
    /\ req = NoRequest
    /\ mishaps = {}

Spend(what) == budget[what] > 0 /\ budget' = [budget EXCEPT ![what] = @ - 1]
Mishap(what) == mishaps' = mishaps \cup {what}
Runs(r) == r \in budget.run

(***************************************************************************)
(* The world outside: the operator, the pods, the agents in them.           *)
(***************************************************************************)
OperatorRuns ==
    /\ cr.uid # 0 /\ cr.phase = "Pending" /\ ~ cr.deleting
    /\ cr' = [cr EXCEPT !.phase = "Running"]
    /\ podsUp' = podsUp \cup {cr.uid}
    /\ UNCHANGED <<pods, uids, outcomes, leases, loopVars, plane, poll, req, budget, mishaps>>

(* The operator learns from the condition alone that the agent is finished. *)
OperatorSettles ==
    /\ cr.phase = "Running" /\ cr.settled \in {"succeeded", "failed"}
    /\ cr' = [cr EXCEPT !.phase = IF @ = "Running" /\ cr.settled = "failed"
                                  THEN "Failed" ELSE "Completed"]
    /\ UNCHANGED <<pods, podsUp, uids, outcomes, leases, loopVars, plane, poll, req,
                   budget, mishaps>>

OperatorFinalizes ==
    /\ cr.deleting
    /\ cr' = NoTask
    /\ podsUp' = podsUp \ {cr.uid}
    /\ UNCHANGED <<pods, uids, outcomes, leases, loopVars, plane, poll, req, budget, mishaps>>

AgentTurns ==
    /\ Spend("turns")
    /\ \E u \in podsUp : \E i \in LiveIn(u) :
          pods' = [pods EXCEPT ![u][i] = IF @ = "idle" THEN "running" ELSE "idle"]
    /\ UNCHANGED <<cr, podsUp, uids, outcomes, leases, loopVars, plane, poll, req, mishaps>>

AgentFinishes ==
    /\ \E u \in podsUp : \E i \in LiveIn(u), end \in budget.ends :
          pods' = [pods EXCEPT ![u][i] = end]
    /\ UNCHANGED <<cr, podsUp, uids, outcomes, leases, loopVars, plane, poll, req,
                   budget, mishaps>>

(***************************************************************************)
(* spawn_watch_loop. A list that fails changes nothing.                     *)
(***************************************************************************)
(* Mutant: a recreation is not noticed. *)
NeverRecreated(r) == FALSE

recreated_names(r) == lastUid[r] # 0 /\ cr.uid # 0 /\ lastUid[r] # cr.uid

PollList(r) ==
    /\ poll[r].pc = "idle" /\ Runs(r)
    /\ lastUid' = [lastUid EXCEPT ![r] = cr.uid]
    /\ poll' = [poll EXCEPT ![r] = [IdlePoll EXCEPT
                    !.pc = "diff", !.uid = cr.uid, !.phase = cr.phase,
                    !.recreated = recreated_names(r)]]
    /\ UNCHANGED <<cluster, outcomes, leases, known, recorded, plane, req, budget, mishaps>>

(* The verdict of this incarnation is in; its pod is not asked again. The code *)
(* knows an incarnation by its creationTimestamp, which has whole seconds: two *)
(* within one are taken to be told apart, by the uid.                          *)
Settled(r) == known[r].uid = poll[r].uid /\ known[r].status \in Finished

(* Mutant: the record is looked up by the task's name, which caliband never    *)
(* heard of.                                                                   *)
AnswersByName(r) == FALSE

(* overlay_pod_status: the pod's first record, when there is one. *)
Answers(r) ==
    /\ Attachable(poll[r].phase) /\ ~ Settled(r)
    /\ poll[r].uid \in podsUp /\ pods[poll[r].uid] # <<>>

(* The diff against `known`, by name, with the status seen this time. *)
Diffed(r, status) ==
    [poll[r] EXCEPT
        !.pc = "observe", !.to = status,
        !.change = IF poll[r].uid = 0 THEN (IF known[r].uid # 0 THEN "gone" ELSE "none")
                   ELSE IF known[r].uid = 0 THEN "discovered"
                   ELSE IF known[r].status # status THEN "status" ELSE "none"]
Observed(r, status) ==
    /\ known' = [known EXCEPT ![r] = IF poll[r].uid = 0 THEN Unknown
                                     ELSE [uid |-> poll[r].uid, status |-> status]]
    /\ UNCHANGED <<cluster, outcomes, leases, recorded, lastUid, plane, req>>

PollDiff(r) ==
    /\ poll[r].pc = "diff"
    /\ IF Answers(r)
       THEN LET status == pods[poll[r].uid][1]
            IN  /\ poll' = [poll EXCEPT ![r] = [Diffed(r, status) EXCEPT !.refreshed = TRUE]]
                /\ Observed(r, status)
       ELSE LET status == IF Settled(r) THEN known[r].status
                          ELSE phase_to_status(poll[r].phase)
            IN  poll' = [poll EXCEPT ![r] = Diffed(r, status)] /\ Observed(r, status)
    /\ UNCHANGED <<budget, mishaps>>

(* The dial failed or timed out: the status of the phase is kept. *)
PollDiffUnanswered(r) ==
    /\ poll[r].pc = "diff" /\ Answers(r)
    /\ Spend("dialFaults")
    /\ LET status == phase_to_status(poll[r].phase)
       IN  poll' = [poll EXCEPT ![r] = Diffed(r, status)] /\ Observed(r, status)
    /\ UNCHANGED mishaps

(* The end of a pass, without an await: a task that is gone or was recreated   *)
(* takes its terminal mark with it; then the first two checks of attach.       *)
PollEnds(r) ==
    LET mark == terminal[r] /\ ~ poll[r].recreated /\ poll[r].change # "gone"
        queued == Attachable(poll[r].phase) /\ ~ mark /\ slot[r].gen = 0
    IN  /\ terminal' = [terminal EXCEPT ![r] = mark]
        /\ poll' = [poll EXCEPT ![r] =
                IF queued THEN [IdlePoll EXCEPT !.pc = "acquire", !.uid = poll[r].uid]
                ELSE IdlePoll]

(* Mutant: the lease is not asked for. *)
GrantsAnyone(holder, r) == TRUE

(* try_acquire: free or already ours. *)
Grantable(holder, r) == holder \in {Nobody, r}

PollObserve(r) ==
    /\ poll[r].pc = "observe"
    /\ IF Grantable(observer, r)
       THEN /\ observer' = r
            /\ poll' = [poll EXCEPT ![r].pc = "report"] /\ UNCHANGED terminal
       ELSE UNCHANGED observer /\ PollEnds(r)
    /\ UNCHANGED <<cluster, outcomes, owner, loopVars, slot, tasks, req, budget, mishaps>>

(* apply_status_condition: our own condition and nothing else of the status. *)
WithCondition(condition) == IF cr.uid = 0 THEN cr ELSE [cr EXCEPT !.settled = condition]

(* report_agents_settled: the condition goes to whatever has the name now. *)
PollReport(r) ==
    /\ poll[r].pc = "report"
    /\ cr' = IF poll[r].refreshed THEN WithCondition(agents_settled_condition({poll[r].to}))
             ELSE cr
    /\ poll' = [poll EXCEPT ![r].pc = "emit", ![r].refreshed = FALSE]
    /\ mishaps' = IF poll[r].refreshed /\ cr.uid \notin {0, poll[r].uid}
                  THEN mishaps \cup {"misreport"} ELSE mishaps
    /\ UNCHANGED <<pods, podsUp, uids, outcomes, leases, loopVars, plane, req, budget>>

(* Mutant: only the memory of this process is asked. *)
RecordedInMemory(r) == recorded[r]

already_recorded_terminal(r) == recorded[r] \/ \E u \in 1..MaxUid : outcomes[u] > 0

Emits(r) == poll[r].change = "status" /\ poll[r].to \in Finished

(* The history is read; the outcome is appended only after that. *)
PollEmit(r) ==
    /\ poll[r].pc = "emit"
    /\ recorded' = [recorded EXCEPT ![r] = @ \/ Emits(r)]
    /\ IF Emits(r) /\ ~ already_recorded_terminal(r)
       THEN poll' = [poll EXCEPT ![r].pc = "write"] /\ UNCHANGED terminal
       ELSE PollEnds(r)
    /\ UNCHANGED <<cluster, outcomes, leases, known, lastUid, slot, tasks, req, budget, mishaps>>

(* The history cannot be read: emit anyway. *)
PollEmitUnread(r) ==
    /\ poll[r].pc = "emit" /\ Emits(r) /\ ~ recorded[r]
    /\ Spend("readFaults") /\ Mishap("unread")
    /\ recorded' = [recorded EXCEPT ![r] = TRUE]
    /\ poll' = [poll EXCEPT ![r].pc = "write"]
    /\ UNCHANGED <<cluster, outcomes, leases, known, lastUid, plane, req>>

PollWrite(r) ==
    /\ poll[r].pc = "write"
    /\ outcomes' = [outcomes EXCEPT ![poll[r].uid] = IF @ < 2 THEN @ + 1 ELSE @]
    /\ PollEnds(r)
    /\ UNCHANGED <<cluster, leases, loopVars, slot, tasks, req, budget, mishaps>>

(***************************************************************************)
(* SessionPlane::attach and the task it starts.                             *)
(***************************************************************************)
AttachAcquire(r) ==
    /\ poll[r].pc = "acquire"
    /\ IF Grantable(owner, r)
       THEN owner' = r /\ poll' = [poll EXCEPT ![r].pc = "reserve"]
       ELSE UNCHANGED owner /\ poll' = [poll EXCEPT ![r] = IdlePoll]
    /\ UNCHANGED <<cluster, outcomes, observer, loopVars, plane, req, budget, mishaps>>

(* Generations are only compared with each other: a number no task or entry    *)
(* still has stands for the next value of the counter.                         *)
NewGeneration(r) ==
    CHOOSE g \in 1..MaxTasks : \A t \in tasks[r] : t.gen # g

AttachReserve(r) ==
    LET g == NewGeneration(r)
        task == [gen |-> g, pc |-> "resolve", uid |-> poll[r].uid, shutdown |-> FALSE]
    IN  /\ poll[r].pc = "reserve" /\ slot[r].gen = 0
        /\ Cardinality(tasks[r]) < budget.tasks
        /\ slot' = [slot EXCEPT ![r] = [gen |-> g, abort |-> FALSE]]
        /\ tasks' = [tasks EXCEPT ![r] = @ \cup {task}]
        /\ poll' = [poll EXCEPT ![r].pc = "register", ![r].gen = g]
        /\ UNCHANGED <<cluster, outcomes, leases, loopVars, terminal, req, budget, mishaps>>

(* The abort handle, if the reservation is still this one. *)
AttachRegister(r) ==
    /\ poll[r].pc = "register"
    /\ slot' = [slot EXCEPT ![r].abort = @ \/ slot[r].gen = poll[r].gen]
    /\ poll' = [poll EXCEPT ![r] = IdlePoll]
    /\ UNCHANGED <<cluster, outcomes, leases, loopVars, terminal, tasks, req,
                   budget, mishaps>>

Becomes(r, t, pc) == tasks' = [tasks EXCEPT ![r] = (@ \ {t}) \cup {[t EXCEPT !.pc = pc]}]

(* Mutant: the entry is dropped whoever's it is. *)
CleanupAnyway(r, t) == slot' = [slot EXCEPT ![r] = NoSlot]

cleanup_attach(r, t) == slot' = [slot EXCEPT ![r] = IF @.gen = t.gen THEN NoSlot ELSE @]

TaskEnds(r, t) == Becomes(r, t, "release") /\ cleanup_attach(r, t)

(* ensure_pod_agent: a live record is attached to, an empty pod is spawned in, *)
(* and an unreachable one is left to a later poll.                             *)
TaskResolves(r, t) ==
    /\ t.pc = "resolve"
    /\ CASE t.uid \notin podsUp -> TaskEnds(r, t)
         [] t.uid \in podsUp /\ LiveIn(t.uid) # {} -> Becomes(r, t, "stream") /\ UNCHANGED slot
         [] t.uid \in podsUp /\ pods[t.uid] = <<>> -> Becomes(r, t, "spawn") /\ UNCHANGED slot
         [] OTHER -> FALSE
    /\ UNCHANGED <<cluster, outcomes, leases, loopVars, terminal, poll, req,
                   budget, mishaps>>

(* Its only records are terminal: mark the name, so that no poll dials again. *)
TaskResolvesTerminal(r, t) ==
    /\ t.pc = "resolve"
    /\ t.uid \in podsUp /\ pods[t.uid] # <<>> /\ LiveIn(t.uid) = {}
    /\ terminal' = [terminal EXCEPT ![r] = TRUE]
    /\ TaskEnds(r, t)
    /\ UNCHANGED <<cluster, outcomes, leases, loopVars, poll, req, budget, mishaps>>

TaskDialFails(r, t) ==
    /\ t.pc \in {"resolve", "spawn"}
    /\ Spend("dialFaults")
    /\ TaskEnds(r, t)
    /\ UNCHANGED <<cluster, outcomes, leases, loopVars, terminal, poll, req, mishaps>>

TaskSpawns(r, t) ==
    /\ t.pc = "spawn"
    /\ IF t.uid \in podsUp
       THEN /\ pods' = [pods EXCEPT ![t.uid] = Append(@, "running")]
            /\ Becomes(r, t, "stream") /\ UNCHANGED slot
       ELSE TaskEnds(r, t) /\ UNCHANGED pods
    /\ UNCHANGED <<cr, podsUp, uids, outcomes, leases, loopVars, terminal, poll, req,
                   budget, mishaps>>

(* attach_loop returns: shut down, the agent finished, or the pod is gone and  *)
(* the reconnect budget is spent.                                              *)
TaskStreamEnds(r, t) ==
    /\ t.pc = "stream"
    /\ t.shutdown \/ t.uid \notin podsUp \/ LiveIn(t.uid) = {}
    /\ TaskEnds(r, t)
    /\ UNCHANGED <<cluster, outcomes, leases, loopVars, terminal, poll, req,
                   budget, mishaps>>

Released(r) == IF owner = r THEN Nobody ELSE owner

(* A release goes by the name: it also takes the row that the next attach of  *)
(* this replica was granted already.                                          *)
LateRelease(r) ==
    mishaps' = IF owner = r /\ (slot[r].gen # 0 \/ poll[r].pc = "reserve")
               THEN mishaps \cup {"late"} ELSE mishaps

TaskReleases(r, t) ==
    /\ t.pc = "release"
    /\ owner' = Released(r)
    /\ tasks' = [tasks EXCEPT ![r] = @ \ {t}]
    /\ LateRelease(r)
    /\ UNCHANGED <<cluster, outcomes, observer, loopVars, terminal, slot, poll, req, budget>>

(***************************************************************************)
(* The FleetProvider requests, one at a time, each on some replica.         *)
(***************************************************************************)
First == [ensure |-> "get", restart |-> "get", stop |-> "stop", remove |-> "stop"]

Request(kind, r) ==
    /\ req.pc = "done" /\ Runs(r)
    /\ kind \in budget.requests
    /\ budget' = [budget EXCEPT !.requests = @ \ {kind}]
    /\ req' = [kind |-> kind, at |-> r, pc |-> First[kind]]
    /\ UNCHANGED <<cluster, outcomes, leases, loopVars, plane, poll, mishaps>>

Then(pc) == req' = [req EXCEPT !.pc = pc]

(* ensure_agent looks first, to say whether it created the task; restart_agent *)
(* needs the old one.                                                          *)
RequestGet ==
    /\ req.pc = "get"
    /\ Then(IF req.kind = "ensure" THEN "apply" ELSE IF cr.uid = 0 THEN "done" ELSE "stop")
    /\ UNCHANGED <<cluster, outcomes, leases, loopVars, plane, poll, budget, mishaps>>

forget_terminal(r) == terminal' = [terminal EXCEPT ![r] = FALSE]

(* SessionPlane::stop up to its release: the entry goes, its task is told to   *)
(* shut down and, if the handle is there, killed, which may leave a spawn the  *)
(* pod has already received.                                                   *)
RequestStop ==
    LET r == req.at
        mine == {t \in tasks[r] : t.gen = slot[r].gen}
    IN  /\ req.pc = "stop"
        /\ slot' = [slot EXCEPT ![r] = NoSlot]
        /\ tasks' = [tasks EXCEPT ![r] =
                (@ \ mine) \cup IF slot[r].abort THEN {}
                                ELSE {[t EXCEPT !.shutdown = TRUE] : t \in mine}]
        /\ \/ UNCHANGED pods
           \/ \E t \in mine : /\ slot[r].abort /\ t.pc = "spawn" /\ t.uid \in podsUp
                              /\ pods' = [pods EXCEPT ![t.uid] = Append(@, "running")]
        /\ forget_terminal(r)
        /\ Then("release")
        /\ mishaps' = IF mine # {} THEN mishaps \cup {"stopped"} ELSE mishaps
        /\ UNCHANGED <<cr, podsUp, uids, outcomes, leases, loopVars, poll, budget>>

RequestRelease ==
    /\ req.pc = "release"
    /\ owner' = Released(req.at)
    /\ Then("delete")
    /\ LateRelease(req.at)
    /\ UNCHANGED <<cluster, outcomes, observer, loopVars, plane, poll, budget>>

(* Idempotent: a task that is gone already is no error. *)
Deleted == [cr EXCEPT !.deleting = cr.uid # 0]

RequestDelete ==
    /\ req.pc = "delete"
    /\ cr' = Deleted
    /\ Then(IF req.kind = "remove" THEN "done" ELSE "wait")
    /\ UNCHANGED <<pods, podsUp, uids, outcomes, leases, loopVars, plane, poll, budget, mishaps>>

(* Poll until it has gone, or give up: a restart is then an error. *)
RequestWait ==
    /\ req.pc = "wait"
    /\ \/ cr.uid = 0 /\ Then(IF req.kind = "restart" THEN "apply" ELSE "done")
       \/ cr.uid # 0 /\ Then("done")
    /\ UNCHANGED <<cluster, outcomes, leases, loopVars, plane, poll, budget, mishaps>>

(* Server-side apply creates the task, or updates it and leaves its status. *)
Apply ==
    IF cr.uid # 0 THEN UNCHANGED <<cr, uids>>
    ELSE /\ uids < MaxUid
         /\ uids' = uids + 1
         /\ cr' = Created(uids + 1)

RequestApply ==
    /\ req.pc = "apply"
    /\ Apply
    /\ Then("done")
    /\ UNCHANGED <<pods, podsUp, outcomes, leases, loopVars, plane, poll, budget, mishaps>>

(***************************************************************************)
(* Failures.                                                                *)
(***************************************************************************)
(* A replica restarts with nothing in memory; the rows it leased stay. *)
Crash(r) ==
    /\ Runs(r) /\ Spend("crashes") /\ Mishap("crash")
    /\ known' = [known EXCEPT ![r] = Unknown]
    /\ terminal' = [terminal EXCEPT ![r] = FALSE]
    /\ recorded' = [recorded EXCEPT ![r] = FALSE]
    /\ lastUid' = [lastUid EXCEPT ![r] = 0]
    /\ slot' = [slot EXCEPT ![r] = NoSlot]
    /\ tasks' = [tasks EXCEPT ![r] = {}]
    /\ poll' = [poll EXCEPT ![r] = IdlePoll]
    /\ req' = IF req.at = r THEN NoRequest ELSE req
    /\ UNCHANGED <<cluster, outcomes, leases>>

(* The row of a replica that renews it runs out only if the renewals stall. *)
LeaseExpires ==
    /\ Spend("expiries") /\ Mishap("expiry")
    /\ \/ owner # Nobody /\ owner' = Nobody /\ UNCHANGED observer
       \/ observer # Nobody /\ observer' = Nobody /\ UNCHANGED owner
    /\ UNCHANGED <<cluster, outcomes, loopVars, plane, poll, req>>

(* One that no task is left to renew or release, after a crash, does. *)
OrphanExpires ==
    /\ owner # Nobody /\ "crash" \in mishaps
    /\ tasks[owner] = {} /\ poll[owner].pc # "reserve"
    /\ owner' = Nobody
    /\ UNCHANGED <<cluster, outcomes, observer, loopVars, plane, poll, req, budget, mishaps>>

(***************************************************************************)
(* The specification.                                                       *)
(***************************************************************************)
Poll(r) ==
    \/ PollList(r) \/ PollDiff(r) \/ PollObserve(r) \/ PollReport(r) \/ PollEmit(r) \/ PollWrite(r)
    \/ AttachAcquire(r) \/ AttachReserve(r) \/ AttachRegister(r)
Task(r) == \E t \in tasks[r] :
    TaskResolves(r, t) \/ TaskResolvesTerminal(r, t) \/ TaskSpawns(r, t)
    \/ TaskStreamEnds(r, t) \/ TaskReleases(r, t)
Faults(r) ==
    \/ PollDiffUnanswered(r) \/ PollEmitUnread(r) \/ Crash(r)
    \/ \E t \in tasks[r] : TaskDialFails(r, t)
RequestStep ==
    RequestGet \/ RequestStop \/ RequestRelease \/ RequestDelete \/ RequestWait \/ RequestApply
Operator == OperatorRuns \/ OperatorSettles \/ OperatorFinalizes

Next ==
    \/ \E r \in Replicas : Poll(r) \/ Task(r) \/ Faults(r)
    \/ \E r \in Replicas, kind \in DOMAIN First : Request(kind, r)
    \/ RequestStep \/ Operator \/ AgentTurns \/ AgentFinishes
    \/ LeaseExpires \/ OrphanExpires

(* tokio runs every task that can go on; the operator reconciles; a row that   *)
(* is not renewed expires. Agents, requests and faults are not fair.           *)
Spec ==
    /\ Init /\ [][Next]_k8sVars
    /\ \A r \in Replicas : WF_k8sVars(Poll(r)) /\ WF_k8sVars(Task(r))
    /\ WF_k8sVars(RequestStep) /\ WF_k8sVars(Operator) /\ WF_k8sVars(OrphanExpires)

(***************************************************************************)
(* Properties.                                                              *)
(***************************************************************************)
(* Type correctness. *)
K8sTypeOK ==
    /\ cr \in [uid : 0..MaxUid, phase : {"", "Pending", "Running", "Completed", "Failed"},
               deleting : BOOLEAN, settled : {"unknown", "active", "succeeded", "failed"}]
    /\ \A u \in 1..MaxUid : \A i \in DOMAIN pods[u] : pods[u][i] \in Status
    /\ podsUp \subseteq 1..MaxUid /\ uids \in 1..MaxUid
    /\ outcomes \in [1..MaxUid -> 0..2]
    /\ owner \in Replicas \cup {Nobody} /\ observer \in Replicas \cup {Nobody}
    /\ known \in [Replicas -> [uid : 0..MaxUid, status : Status]]
    /\ terminal \in [Replicas -> BOOLEAN] /\ recorded \in [Replicas -> BOOLEAN]
    /\ lastUid \in [Replicas -> 0..MaxUid]
    /\ \A r \in Replicas : slot[r] \in [gen : 0..MaxTasks, abort : BOOLEAN]
    /\ \A r \in Replicas : tasks[r] \subseteq
          [gen : 1..MaxTasks, pc : {"resolve", "spawn", "stream", "release"}, uid : 1..MaxUid,
           shutdown : BOOLEAN]

(* #196: an agent's outcome is written once, whatever the number of replicas,  *)
(* restarts of a replica and failed dials, as long as its history can be read  *)
(* and the observer's lease does not run out under it.                         *)
OneOutcome ==
    mishaps \cap {"unread", "expiry"} = {} =>
        \A u, v \in 1..MaxUid : outcomes[u] <= 1 /\ (outcomes[u] + outcomes[v] > 1 => u = v)

(* One CalibanTask, one agent (#159): a pod never has a second agent unless a  *)
(* lease ran out or was released under its task, or an attach was stopped.     *)
OneAgentPerPod ==
    mishaps \cap {"stopped", "expiry", "crash", "late"} = {} =>
        \A u \in 1..MaxUid : Len(pods[u]) <= 1

(* #112: a task that may still stream is the one in the `attached` map, so a   *)
(* stop reaches it and a newer task is not evicted by an older one's exit.     *)
StopReaches ==
    \A r \in Replicas : \A t \in tasks[r] :
        t.pc # "release" /\ ~ t.shutdown => slot[r].gen = t.gen

(* #228: AgentsSettled is set on an incarnation only when its agent finished,  *)
(* unless the task was recreated between a poll's dial and its report.         *)
SettledHonest ==
    "misreport" \notin mishaps /\ cr.settled \in {"succeeded", "failed"}
        => pods[cr.uid] # <<>> /\ pods[cr.uid][1] \in Finished

(* #113, #170, #213: a Running incarnation is streamed, its agent finishes, or *)
(* it goes: no mark or entry left by an earlier incarnation suppresses it.     *)
NewIncarnationStreams ==
    \A u \in 1..MaxUid :
        (cr.uid = u /\ cr.phase = "Running")
            ~> (\/ cr.uid # u \/ cr.deleting \/ cr.phase # "Running"
                \/ \E r \in Replicas : \E t \in tasks[r] : t.uid = u /\ t.pc = "stream"
                \/ (pods[u] # <<>> /\ LiveIn(u) = {}))

(* #190: the outcome of the first incarnation reaches the log, when one        *)
(* replica observes it from start to end without a crash.                      *)
OutcomeRecorded ==
    (pods[1] # <<>> /\ pods[1][1] \in Finished /\ Cardinality(budget.run) = 1)
        ~> (outcomes[1] > 0 \/ cr.uid # 1 \/ cr.deleting \/ "crash" \in mishaps)

(* What is reported of an incarnation is what became of it, and once: its    *)
(* outcome in the log, AgentsSettled in its status.                          *)
OutcomeSound == K8sTypeOK /\ OneOutcome /\ SettledHonest

=============================================================================
