--------------------------- MODULE K8sFleetProofs ---------------------------
(***************************************************************************)
(* Proofs about K8sFleet, for any replicas, incarnations, attach tasks and  *)
(* budgets: a stop reaches the task that streams, a pod has one agent, and  *)
(* what is reported of an incarnation is what became of it, once.           *)
(***************************************************************************)
EXTENDS K8sFleet, FiniteSetTheorems, TLAPS

(***************************************************************************)
(* The inductive invariant, in five parts.                                  *)
(***************************************************************************)
Condition == {"unknown", "active", "succeeded", "failed"}
Phase == {"", "Pending", "Running", "Completed", "Failed"}
TaskState == [gen : 1..MaxTasks, pc : {"resolve", "spawn", "stream", "release"},
              uid : 1..MaxUid, shutdown : BOOLEAN]
PollState == [pc : {"idle", "diff", "observe", "report", "emit", "write", "acquire",
                    "reserve", "register"},
              uid : 0..MaxUid, phase : Phase, recreated : BOOLEAN,
              change : {"none", "gone", "discovered", "status"}, to : Status,
              refreshed : BOOLEAN, gen : 0..MaxTasks]
Budget == [run : SUBSET Replicas, requests : SUBSET {"ensure", "restart", "stop", "remove"},
           ends : SUBSET {"done", "failed"}, tasks : 1..MaxTasks, turns : Nat,
           dialFaults : Nat, readFaults : Nat, expiries : Nat, crashes : Nat]

(* The variables of the cluster, the leases and the bounds have their types.  *)
CrType ==
    /\ cr \in [uid : 0..MaxUid, phase : Phase, deleting : BOOLEAN, settled : Condition]
    /\ cr.uid = 0 => cr.phase = "" /\ cr.settled = "unknown"
    /\ uids \in 1..MaxUid
PodsType == pods \in [1..MaxUid -> Seq(Status)] /\ podsUp \subseteq 1..MaxUid
LedgerType ==
    /\ outcomes \in [1..MaxUid -> 0..2]
    /\ owner \in Replicas \cup {Nobody} /\ observer \in Replicas \cup {Nobody}
BoundsType ==
    /\ budget \in Budget
    /\ req \in [kind : {"none", "ensure", "restart", "stop", "remove"},
               at : Replicas \cup {Nobody},
               pc : {"done", "get", "stop", "release", "delete", "wait", "apply"}]
    /\ req.pc # "done" => req.at \in Replicas

(* So do those of the replicas; what a poll attaches to is an incarnation.   *)
ReplicaType ==
    /\ known \in [Replicas -> [uid : 0..MaxUid, status : Status]]
    /\ terminal \in [Replicas -> BOOLEAN] /\ recorded \in [Replicas -> BOOLEAN]
    /\ lastUid \in [Replicas -> 0..MaxUid]
    /\ poll \in [Replicas -> PollState]
    /\ \A r \in Replicas :
          /\ poll[r].phase = "Running" => poll[r].uid # 0
          /\ poll[r].pc \in {"acquire", "reserve"} => poll[r].uid # 0

AttachType ==
    /\ slot \in [Replicas -> [gen : 0..MaxTasks, abort : BOOLEAN]]
    /\ tasks \in [Replicas -> SUBSET TaskState]
    /\ \A r \in Replicas : IsFiniteSet(tasks[r])

(* No two tasks of a replica have one generation.                            *)
OwnGeneration ==
    \A r \in Replicas : \A t, s \in tasks[r] : t.gen = s.gen => t = s

(* Who reports holds the observer lease, and who is about to write found     *)
(* nothing written.                                                          *)
OneReporter ==
    /\ "expiry" \notin mishaps =>
          \A r \in Replicas : poll[r].pc \in {"report", "emit", "write"} => observer = r
    /\ mishaps \cap {"unread", "expiry"} = {} =>
          \A r \in Replicas : poll[r].pc = "write" => \A u \in 1..MaxUid : outcomes[u] = 0

(* What a poll saw in a pod is in it, and an end is final.                   *)
SeenInPod ==
    \A r \in Replicas :
        /\ poll[r].pc = "diff" => ~ poll[r].refreshed
        /\ poll[r].pc \in {"observe", "report"} /\ poll[r].refreshed =>
              /\ poll[r].uid # 0 /\ pods[poll[r].uid] # <<>>
              /\ poll[r].to \in Finished => pods[poll[r].uid][1] \in Finished

(* While no lease was taken from its task: who has a task that may still     *)
(* stream, or is about to start one, holds the agent's lease, and a task     *)
(* that is about to spawn found the pod empty.                               *)
Undisturbed == mishaps \cap {"stopped", "expiry", "crash", "late"} = {}
OneAttacher ==
    Undisturbed =>
        \A r \in Replicas :
            /\ poll[r].pc = "reserve" => owner = r
            /\ \A t \in tasks[r] : t.pc # "release" =>
                  /\ owner = r /\ ~ t.shutdown
                  /\ t.pc = "spawn" => pods[t.uid] = <<>>

K8sTypes == CrType /\ PodsType /\ LedgerType /\ BoundsType /\ ReplicaType /\ AttachType
K8sInv ==
    /\ K8sTypes
    /\ OwnGeneration /\ StopReaches
    /\ OneReporter /\ OneOutcome
    /\ SeenInPod /\ SettledHonest
    /\ OneAttacher /\ OneAgentPerPod

(***************************************************************************)
(* The steps, by what they change.                                          *)
(***************************************************************************)
(* The steps of a replica's tasks: to another place in attach_loop, or out    *)
(* of it with the entry.                                                     *)
TaskMoves(r, t) ==
    \/ t.pc \in {"resolve", "spawn"} /\ UNCHANGED slot
       /\ \E pc \in {"spawn", "stream"} : Becomes(r, t, pc)
    \/ t.pc # "release" /\ TaskEnds(r, t)

LEMMA TaskStepMoves ==
    ASSUME NEW r \in Replicas, NEW t \in tasks[r],
           TaskResolves(r, t) \/ TaskResolvesTerminal(r, t) \/ TaskDialFails(r, t)
           \/ TaskSpawns(r, t) \/ TaskStreamEnds(r, t)
    PROVE  TaskMoves(r, t)
<1>1. CASE TaskResolves(r, t)
  BY <1>1, Zenon DEF TaskResolves, TaskMoves
<1>2. CASE TaskResolvesTerminal(r, t)
  BY <1>2 DEF TaskResolvesTerminal, TaskMoves
<1>3. CASE TaskDialFails(r, t)
  BY <1>3 DEF TaskDialFails, TaskMoves
<1>4. CASE TaskSpawns(r, t)
  BY <1>4 DEF TaskSpawns, TaskMoves
<1>5. CASE TaskStreamEnds(r, t)
  BY <1>5 DEF TaskStreamEnds, TaskMoves
<1>6. QED
  BY <1>1, <1>2, <1>3, <1>4, <1>5

(***************************************************************************)
(* Types.                                                                   *)
(***************************************************************************)
LEMMA IdlePollType ==
    IdlePoll \in PollState /\ IdlePoll.pc = "idle" /\ IdlePoll.phase = ""
    /\ ~ IdlePoll.refreshed
  BY MaxUidAssumption DEF IdlePoll, PollState, Phase, Status

LEMMA InitTypes == Init => K8sTypes
<1> SUFFICES ASSUME Init
             PROVE  K8sTypes
  OBVIOUS
<1> USE MaxUidAssumption, K8sBudgetsAssumption, NobodyIsNoReplica
<1>1. CrType
  <2>1. cr \in [uid : 0..MaxUid, phase : Phase, deleting : BOOLEAN, settled : Condition]
    BY DEF Init, Created, Phase, Condition
  <2>2. cr.uid = 1 /\ uids = 1
    BY DEF Init, Created
  <2>3. QED
    BY <2>1, <2>2 DEF CrType
<1>2. PodsType /\ LedgerType /\ BoundsType
  BY DEF Init, PodsType, LedgerType, BoundsType, Budget, NoRequest
<1>3. ReplicaType
  <2>1. known \in [Replicas -> [uid : 0..MaxUid, status : Status]]
    BY DEF Init, Unknown, Status
  <2>2. poll = [r \in Replicas |-> IdlePoll]
    BY DEF Init
  <2>3. poll \in [Replicas -> PollState]
    BY <2>2, IdlePollType
  <2>4. \A r \in Replicas : poll[r].phase = "" /\ poll[r].pc = "idle"
    BY <2>2, IdlePollType
  <2>5. /\ terminal \in [Replicas -> BOOLEAN] /\ recorded \in [Replicas -> BOOLEAN]
        /\ lastUid \in [Replicas -> 0..MaxUid]
    BY DEF Init
  <2>6. QED
    BY <2>1, <2>3, <2>4, <2>5 DEF ReplicaType
<1>4. AttachType
  BY FS_EmptySet DEF Init, AttachType, NoSlot
<1>5. QED
  BY <1>1, <1>2, <1>3, <1>4 DEF K8sTypes

(* A generation that no task has.                                            *)
LEMMA NewGenerationIsNew ==
    ASSUME AttachType, NEW r \in Replicas, Cardinality(tasks[r]) < MaxTasks
    PROVE  /\ NewGeneration(r) \in 1..MaxTasks
           /\ \A t \in tasks[r] : t.gen # NewGeneration(r)
<1> USE MaxUidAssumption
<1>1. IsFiniteSet(tasks[r]) /\ tasks[r] \subseteq TaskState
  BY DEF AttachType
<1> DEFINE gens == {t.gen : t \in tasks[r]}
<1>2. IsFiniteSet(gens) /\ Cardinality(gens) <= Cardinality(tasks[r])
  <2>1. [t \in tasks[r] |-> t.gen] \in Surjection(tasks[r], gens)
    BY DEF Surjection
  <2>2. QED
    BY <1>1, <2>1, FS_Surjection
<1>3. Cardinality(1..MaxTasks) = MaxTasks /\ IsFiniteSet(1..MaxTasks)
  BY FS_Interval
<1>4. Cardinality(tasks[r]) \in Nat /\ Cardinality(gens) \in Nat
  BY <1>1, <1>2, FS_CardinalityType
<1>5. ~ 1..MaxTasks \subseteq gens
  <2> SUFFICES ASSUME 1..MaxTasks \subseteq gens
               PROVE  FALSE
    OBVIOUS
  <2> HIDE DEF gens
  <2>1. Cardinality(1..MaxTasks) <= Cardinality(gens)
    BY <1>2, FS_Subset, Zenon
  <2>2. QED
    BY <2>1, <1>2, <1>3, <1>4
<1>6. \E g \in 1..MaxTasks : \A t \in tasks[r] : t.gen # g
  BY <1>5
<1>7. QED
  BY <1>6, Zenon DEF NewGeneration

LEMMA NewGenerationInBounds ==
    ASSUME K8sTypes, NEW r \in Replicas, Cardinality(tasks[r]) < budget.tasks
    PROVE  /\ NewGeneration(r) \in 1..MaxTasks /\ NewGeneration(r) \in 0..MaxTasks
           /\ \A t \in tasks[r] : t.gen # NewGeneration(r)
<1>1. budget.tasks \in 1..MaxTasks /\ IsFiniteSet(tasks[r])
  BY DEF K8sTypes, BoundsType, Budget, AttachType
<1>2. Cardinality(tasks[r]) \in Nat
  BY <1>1, FS_CardinalityType
<1>3. Cardinality(tasks[r]) < MaxTasks
  BY <1>1, <1>2, MaxUidAssumption
<1>4. QED
  BY <1>3, NewGenerationIsNew, MaxUidAssumption DEF K8sTypes

LEMMA PollFromIdle ==
    ASSUME NEW u \in 0..MaxUid
    PROVE  LET p == [IdlePoll EXCEPT !.pc = "acquire", !.uid = u]
           IN  p \in PollState /\ p.pc = "acquire" /\ p.phase = "" /\ p.uid = u
<1>1. \A p \in PollState :
          LET q == [p EXCEPT !.pc = "acquire", !.uid = u]
          IN  q \in PollState /\ q.pc = "acquire" /\ q.phase = p.phase /\ q.uid = u
  BY DEF PollState
<1>2. QED
  BY <1>1, IdlePollType

(* The end of a pass leaves the loop idle or about to attach.                *)
LEMMA PollEndsType ==
    ASSUME ReplicaType, NEW r \in Replicas, PollEnds(r),
           UNCHANGED <<known, lastUid>>, recorded' \in [Replicas -> BOOLEAN]
    PROVE  ReplicaType'
<1> DEFINE mark == terminal[r] /\ ~ poll[r].recreated /\ poll[r].change # "gone"
           queued == Attachable(poll[r].phase) /\ ~ mark /\ slot[r].gen = 0
           next == IF queued THEN [IdlePoll EXCEPT !.pc = "acquire", !.uid = poll[r].uid]
                   ELSE IdlePoll
<1>1. terminal' = [terminal EXCEPT ![r] = mark] /\ poll' = [poll EXCEPT ![r] = next]
  BY DEF PollEnds
<1>2. mark \in BOOLEAN
  OBVIOUS
<1>3. queued => poll[r].uid # 0
  BY DEF ReplicaType, Attachable
<1> HIDE DEF mark, queued
<1>4. /\ next \in PollState /\ next.phase # "Running" /\ next.pc # "reserve"
      /\ next.pc = "acquire" => next.uid # 0
  <2>1. poll[r].uid \in 0..MaxUid
    BY DEF ReplicaType, PollState
  <2>2. CASE queued
    BY <2>1, <2>2, <1>3, PollFromIdle
  <2>3. CASE ~ queued
    BY <2>3, IdlePollType
  <2>4. QED
    BY <2>2, <2>3
<1> HIDE DEF next
<1>5. QED
  BY <1>1, <1>2, <1>4 DEF ReplicaType

(* Who changes which variable: the rest of the proof looks at these steps alone. *)
CrWriters ==
    \/ \E r \in Replicas : PollReport(r)
    \/ RequestDelete \/ RequestApply \/ OperatorRuns \/ OperatorSettles
    \/ OperatorFinalizes

PodsWriters ==
    \/ \E r \in Replicas : \E t \in tasks[r] :
           TaskSpawns(r, t)
    \/ RequestStop \/ AgentTurns \/ AgentFinishes

PodsUpWriters ==
    \/ OperatorRuns \/ OperatorFinalizes

OutcomesWriters ==
    \/ \E r \in Replicas : PollWrite(r)

OwnerWriters ==
    \/ \E r \in Replicas : AttachAcquire(r)
    \/ \E r \in Replicas : \E t \in tasks[r] :
           TaskReleases(r, t)
    \/ RequestRelease \/ LeaseExpires \/ OrphanExpires

ObserverWriters ==
    \/ \E r \in Replicas : PollObserve(r)
    \/ LeaseExpires

AttachedWriters ==
    \/ \E r \in Replicas : AttachReserve(r) \/ AttachRegister(r) \/ Crash(r)
    \/ \E r \in Replicas : \E t \in tasks[r] :
           TaskResolves(r, t) \/ TaskResolvesTerminal(r, t)
           \/ TaskDialFails(r, t) \/ TaskSpawns(r, t) \/ TaskStreamEnds(r, t)
           \/ TaskReleases(r, t)
    \/ RequestStop

PollWriters ==
    \/ \E r \in Replicas : PollList(r) \/ PollDiff(r) \/ PollDiffUnanswered(r)
           \/ PollObserve(r) \/ PollReport(r) \/ PollEmit(r)
           \/ PollEmitUnread(r) \/ PollWrite(r) \/ AttachAcquire(r)
           \/ AttachReserve(r) \/ AttachRegister(r) \/ Crash(r)

LoopWriters ==
    \/ \E r \in Replicas : PollList(r) \/ PollDiff(r) \/ PollDiffUnanswered(r)
           \/ PollObserve(r) \/ PollEmit(r) \/ PollEmitUnread(r)
           \/ PollWrite(r) \/ Crash(r)
    \/ \E r \in Replicas : \E t \in tasks[r] :
           TaskResolvesTerminal(r, t)
    \/ RequestStop

ReqWriters ==
    \/ \E r \in Replicas : Crash(r)
    \/ \E r \in Replicas, kind \in DOMAIN First : Request(kind, r)
    \/ RequestGet \/ RequestStop \/ RequestRelease \/ RequestDelete
    \/ RequestWait \/ RequestApply

BudgetWriters ==
    \/ \E r \in Replicas : PollDiffUnanswered(r) \/ PollEmitUnread(r) \/ Crash(r)
    \/ \E r \in Replicas : \E t \in tasks[r] :
           TaskDialFails(r, t)
    \/ \E r \in Replicas, kind \in DOMAIN First : Request(kind, r)
    \/ AgentTurns \/ LeaseExpires

MishapsWriters ==
    \/ \E r \in Replicas : PollReport(r) \/ PollEmitUnread(r) \/ Crash(r)
    \/ \E r \in Replicas : \E t \in tasks[r] :
           TaskReleases(r, t)
    \/ RequestStop \/ RequestRelease \/ LeaseExpires

OnlyWriters ==
    /\ UNCHANGED <<cr, uids>> \/ CrWriters
    /\ UNCHANGED pods \/ PodsWriters
    /\ UNCHANGED podsUp \/ PodsUpWriters
    /\ UNCHANGED outcomes \/ OutcomesWriters
    /\ UNCHANGED owner \/ OwnerWriters
    /\ UNCHANGED observer \/ ObserverWriters
    /\ UNCHANGED <<slot, tasks>> \/ AttachedWriters
    /\ UNCHANGED poll \/ PollWriters
    /\ UNCHANGED <<known, recorded, lastUid, terminal>> \/ LoopWriters
    /\ UNCHANGED req \/ ReqWriters
    /\ UNCHANGED budget \/ BudgetWriters
    /\ UNCHANGED mishaps \/ MishapsWriters

LEMMA Writers == Next => OnlyWriters
<1> SUFFICES ASSUME Next
             PROVE  OnlyWriters
  OBVIOUS
<1>1. ASSUME NEW r \in Replicas, PollList(r)
      PROVE  OnlyWriters
  <2>1. UNCHANGED <<cr, uids, pods, podsUp, outcomes, owner, observer, known,
                    terminal, recorded, slot, tasks, req, budget, mishaps>>
    BY <1>1 DEF PollList, cluster, leases, plane
  <2>2. QED
    BY <1>1, <2>1 DEF OnlyWriters, PollWriters, LoopWriters
<1>2. ASSUME NEW r \in Replicas, PollDiff(r)
      PROVE  OnlyWriters
  <2>1. UNCHANGED <<cr, uids, pods, podsUp, outcomes, owner, observer,
                    terminal, recorded, lastUid, slot, tasks, req, budget,
                    mishaps>>
    BY <1>2 DEF PollDiff, Observed, cluster, leases, plane
  <2>2. QED
    BY <1>2, <2>1 DEF OnlyWriters, PollWriters, LoopWriters
<1>3. ASSUME NEW r \in Replicas, PollDiffUnanswered(r)
      PROVE  OnlyWriters
  <2>1. UNCHANGED <<cr, uids, pods, podsUp, outcomes, owner, observer,
                    terminal, recorded, lastUid, slot, tasks, req, mishaps>>
    BY <1>3 DEF PollDiffUnanswered, Observed, cluster, leases, plane
  <2>2. QED
    BY <1>3, <2>1 DEF OnlyWriters, PollWriters, LoopWriters, BudgetWriters
<1>4. ASSUME NEW r \in Replicas, PollObserve(r)
      PROVE  OnlyWriters
  <2>1. UNCHANGED <<cr, uids, pods, podsUp, outcomes, owner, known, recorded,
                    lastUid, slot, tasks, req, budget, mishaps>>
    BY <1>4 DEF PollObserve, cluster, loopVars, PollEnds
  <2>2. QED
    BY <1>4, <2>1 DEF OnlyWriters, ObserverWriters, PollWriters, LoopWriters
<1>5. ASSUME NEW r \in Replicas, PollReport(r)
      PROVE  OnlyWriters
  <2>1. UNCHANGED <<uids, pods, podsUp, outcomes, owner, observer, known,
                    terminal, recorded, lastUid, slot, tasks, req, budget>>
    BY <1>5 DEF PollReport, leases, plane, loopVars
  <2>2. QED
    BY <1>5, <2>1 DEF OnlyWriters, CrWriters, PollWriters, MishapsWriters
<1>6. ASSUME NEW r \in Replicas, PollEmit(r)
      PROVE  OnlyWriters
  <2>1. UNCHANGED <<cr, uids, pods, podsUp, outcomes, owner, observer, known,
                    lastUid, slot, tasks, req, budget, mishaps>>
    BY <1>6 DEF PollEmit, cluster, leases, PollEnds
  <2>2. QED
    BY <1>6, <2>1 DEF OnlyWriters, PollWriters, LoopWriters
<1>7. ASSUME NEW r \in Replicas, PollEmitUnread(r)
      PROVE  OnlyWriters
  <2>1. UNCHANGED <<cr, uids, pods, podsUp, outcomes, owner, observer, known,
                    terminal, lastUid, slot, tasks, req>>
    BY <1>7 DEF PollEmitUnread, cluster, leases, plane
  <2>2. QED
    BY <1>7, <2>1 DEF OnlyWriters, PollWriters, LoopWriters, BudgetWriters, MishapsWriters
<1>8. ASSUME NEW r \in Replicas, PollWrite(r)
      PROVE  OnlyWriters
  <2>1. UNCHANGED <<cr, uids, pods, podsUp, owner, observer, known, recorded,
                    lastUid, slot, tasks, req, budget, mishaps>>
    BY <1>8 DEF PollWrite, cluster, leases, loopVars, PollEnds
  <2>2. QED
    BY <1>8, <2>1 DEF OnlyWriters, OutcomesWriters, PollWriters, LoopWriters
<1>9. ASSUME NEW r \in Replicas, AttachAcquire(r)
      PROVE  OnlyWriters
  <2>1. UNCHANGED <<cr, uids, pods, podsUp, outcomes, observer, known,
                    terminal, recorded, lastUid, slot, tasks, req, budget,
                    mishaps>>
    BY <1>9 DEF AttachAcquire, cluster, plane, loopVars
  <2>2. QED
    BY <1>9, <2>1 DEF OnlyWriters, OwnerWriters, PollWriters
<1>10. ASSUME NEW r \in Replicas, AttachReserve(r)
      PROVE  OnlyWriters
  <2>1. UNCHANGED <<cr, uids, pods, podsUp, outcomes, owner, observer, known,
                    terminal, recorded, lastUid, req, budget, mishaps>>
    BY <1>10 DEF AttachReserve, cluster, leases, loopVars
  <2>2. QED
    BY <1>10, <2>1 DEF OnlyWriters, AttachedWriters, PollWriters
<1>11. ASSUME NEW r \in Replicas, AttachRegister(r)
      PROVE  OnlyWriters
  <2>1. UNCHANGED <<cr, uids, pods, podsUp, outcomes, owner, observer, known,
                    terminal, recorded, lastUid, tasks, req, budget, mishaps>>
    BY <1>11 DEF AttachRegister, cluster, leases, loopVars
  <2>2. QED
    BY <1>11, <2>1 DEF OnlyWriters, AttachedWriters, PollWriters
<1>12. ASSUME NEW r \in Replicas, Crash(r)
      PROVE  OnlyWriters
  <2>1. UNCHANGED <<cr, uids, pods, podsUp, outcomes, owner, observer>>
    BY <1>12 DEF Crash, cluster, leases
  <2>2. QED
    BY <1>12, <2>1 DEF OnlyWriters, AttachedWriters, PollWriters, LoopWriters, ReqWriters, BudgetWriters, MishapsWriters
<1>13. ASSUME NEW r \in Replicas, NEW t \in tasks[r], TaskResolves(r, t)
      PROVE  OnlyWriters
  <2>1. UNCHANGED <<cr, uids, pods, podsUp, outcomes, owner, observer, known,
                    terminal, recorded, lastUid, poll, req, budget, mishaps>>
    BY <1>13 DEF TaskResolves, cluster, leases, loopVars, TaskEnds, cleanup_attach, Becomes
  <2>2. QED
    BY <1>13, <2>1 DEF OnlyWriters, AttachedWriters
<1>14. ASSUME NEW r \in Replicas, NEW t \in tasks[r], TaskResolvesTerminal(r, t)
      PROVE  OnlyWriters
  <2>1. UNCHANGED <<cr, uids, pods, podsUp, outcomes, owner, observer, known,
                    recorded, lastUid, poll, req, budget, mishaps>>
    BY <1>14 DEF TaskResolvesTerminal, cluster, leases, loopVars, TaskEnds, cleanup_attach, Becomes
  <2>2. QED
    BY <1>14, <2>1 DEF OnlyWriters, AttachedWriters, LoopWriters
<1>15. ASSUME NEW r \in Replicas, NEW t \in tasks[r], TaskDialFails(r, t)
      PROVE  OnlyWriters
  <2>1. UNCHANGED <<cr, uids, pods, podsUp, outcomes, owner, observer, known,
                    terminal, recorded, lastUid, poll, req, mishaps>>
    BY <1>15 DEF TaskDialFails, cluster, leases, loopVars, TaskEnds, cleanup_attach, Becomes
  <2>2. QED
    BY <1>15, <2>1 DEF OnlyWriters, AttachedWriters, BudgetWriters
<1>16. ASSUME NEW r \in Replicas, NEW t \in tasks[r], TaskSpawns(r, t)
      PROVE  OnlyWriters
  <2>1. UNCHANGED <<cr, uids, podsUp, outcomes, owner, observer, known,
                    terminal, recorded, lastUid, poll, req, budget, mishaps>>
    BY <1>16 DEF TaskSpawns, leases, loopVars, TaskEnds, cleanup_attach, Becomes
  <2>2. QED
    BY <1>16, <2>1 DEF OnlyWriters, PodsWriters, AttachedWriters
<1>17. ASSUME NEW r \in Replicas, NEW t \in tasks[r], TaskStreamEnds(r, t)
      PROVE  OnlyWriters
  <2>1. UNCHANGED <<cr, uids, pods, podsUp, outcomes, owner, observer, known,
                    terminal, recorded, lastUid, poll, req, budget, mishaps>>
    BY <1>17 DEF TaskStreamEnds, cluster, leases, loopVars, TaskEnds, cleanup_attach, Becomes
  <2>2. QED
    BY <1>17, <2>1 DEF OnlyWriters, AttachedWriters
<1>18. ASSUME NEW r \in Replicas, NEW t \in tasks[r], TaskReleases(r, t)
      PROVE  OnlyWriters
  <2>1. UNCHANGED <<cr, uids, pods, podsUp, outcomes, observer, known,
                    terminal, recorded, lastUid, slot, poll, req, budget>>
    BY <1>18 DEF TaskReleases, cluster, loopVars
  <2>2. QED
    BY <1>18, <2>1 DEF OnlyWriters, OwnerWriters, AttachedWriters, MishapsWriters
<1>19. ASSUME NEW r \in Replicas, NEW kind \in DOMAIN First, Request(kind, r)
      PROVE  OnlyWriters
  <2>1. UNCHANGED <<cr, uids, pods, podsUp, outcomes, owner, observer, known,
                    terminal, recorded, lastUid, slot, tasks, poll, mishaps>>
    BY <1>19 DEF Request, cluster, leases, plane, loopVars
  <2>2. QED
    BY <1>19, <2>1 DEF OnlyWriters, ReqWriters, BudgetWriters
<1>20. CASE RequestGet
  <2>1. UNCHANGED <<cr, uids, pods, podsUp, outcomes, owner, observer, known,
                    terminal, recorded, lastUid, slot, tasks, poll, budget,
                    mishaps>>
    BY <1>20 DEF RequestGet, cluster, leases, plane, loopVars, Then
  <2>2. QED
    BY <1>20, <2>1 DEF OnlyWriters, ReqWriters
<1>21. CASE RequestStop
  <2>1. UNCHANGED <<cr, uids, podsUp, outcomes, owner, observer, known,
                    recorded, lastUid, poll, budget>>
    BY <1>21 DEF RequestStop, leases, loopVars, Then, forget_terminal
  <2>2. QED
    BY <1>21, <2>1 DEF OnlyWriters, PodsWriters, AttachedWriters, LoopWriters, ReqWriters, MishapsWriters
<1>22. CASE RequestRelease
  <2>1. UNCHANGED <<cr, uids, pods, podsUp, outcomes, observer, known,
                    terminal, recorded, lastUid, slot, tasks, poll, budget>>
    BY <1>22 DEF RequestRelease, cluster, plane, loopVars, Then
  <2>2. QED
    BY <1>22, <2>1 DEF OnlyWriters, OwnerWriters, ReqWriters, MishapsWriters
<1>23. CASE RequestDelete
  <2>1. UNCHANGED <<uids, pods, podsUp, outcomes, owner, observer, known,
                    terminal, recorded, lastUid, slot, tasks, poll, budget,
                    mishaps>>
    BY <1>23 DEF RequestDelete, leases, plane, loopVars, Then
  <2>2. QED
    BY <1>23, <2>1 DEF OnlyWriters, CrWriters, ReqWriters
<1>24. CASE RequestWait
  <2>1. UNCHANGED <<cr, uids, pods, podsUp, outcomes, owner, observer, known,
                    terminal, recorded, lastUid, slot, tasks, poll, budget,
                    mishaps>>
    BY <1>24 DEF RequestWait, cluster, leases, plane, loopVars, Then
  <2>2. QED
    BY <1>24, <2>1 DEF OnlyWriters, ReqWriters
<1>25. CASE RequestApply
  <2>1. UNCHANGED <<pods, podsUp, outcomes, owner, observer, known, terminal,
                    recorded, lastUid, slot, tasks, poll, budget, mishaps>>
    BY <1>25 DEF RequestApply, leases, plane, loopVars, Then, Apply
  <2>2. QED
    BY <1>25, <2>1 DEF OnlyWriters, CrWriters, ReqWriters
<1>26. CASE OperatorRuns
  <2>1. UNCHANGED <<uids, pods, outcomes, owner, observer, known, terminal,
                    recorded, lastUid, slot, tasks, poll, req, budget,
                    mishaps>>
    BY <1>26 DEF OperatorRuns, leases, plane, loopVars
  <2>2. QED
    BY <1>26, <2>1 DEF OnlyWriters, CrWriters, PodsUpWriters
<1>27. CASE OperatorSettles
  <2>1. UNCHANGED <<uids, pods, podsUp, outcomes, owner, observer, known,
                    terminal, recorded, lastUid, slot, tasks, poll, req,
                    budget, mishaps>>
    BY <1>27 DEF OperatorSettles, leases, plane, loopVars
  <2>2. QED
    BY <1>27, <2>1 DEF OnlyWriters, CrWriters
<1>28. CASE OperatorFinalizes
  <2>1. UNCHANGED <<uids, pods, outcomes, owner, observer, known, terminal,
                    recorded, lastUid, slot, tasks, poll, req, budget,
                    mishaps>>
    BY <1>28 DEF OperatorFinalizes, leases, plane, loopVars
  <2>2. QED
    BY <1>28, <2>1 DEF OnlyWriters, CrWriters, PodsUpWriters
<1>29. CASE AgentTurns
  <2>1. UNCHANGED <<cr, uids, podsUp, outcomes, owner, observer, known,
                    terminal, recorded, lastUid, slot, tasks, poll, req,
                    mishaps>>
    BY <1>29 DEF AgentTurns, leases, plane, loopVars
  <2>2. QED
    BY <1>29, <2>1 DEF OnlyWriters, PodsWriters, BudgetWriters
<1>30. CASE AgentFinishes
  <2>1. UNCHANGED <<cr, uids, podsUp, outcomes, owner, observer, known,
                    terminal, recorded, lastUid, slot, tasks, poll, req,
                    budget, mishaps>>
    BY <1>30 DEF AgentFinishes, leases, plane, loopVars
  <2>2. QED
    BY <1>30, <2>1 DEF OnlyWriters, PodsWriters
<1>31. CASE LeaseExpires
  <2>1. UNCHANGED <<cr, uids, pods, podsUp, outcomes, known, terminal,
                    recorded, lastUid, slot, tasks, poll, req>>
    BY <1>31 DEF LeaseExpires, cluster, plane, loopVars
  <2>2. QED
    BY <1>31, <2>1 DEF OnlyWriters, OwnerWriters, ObserverWriters, BudgetWriters, MishapsWriters
<1>32. CASE OrphanExpires
  <2>1. UNCHANGED <<cr, uids, pods, podsUp, outcomes, observer, known,
                    terminal, recorded, lastUid, slot, tasks, poll, req,
                    budget, mishaps>>
    BY <1>32 DEF OrphanExpires, cluster, plane, loopVars
  <2>2. QED
    BY <1>32, <2>1 DEF OnlyWriters, OwnerWriters
<1>33. QED
  BY <1>1, <1>2, <1>3, <1>4, <1>5, <1>6, <1>7, <1>8, <1>9, <1>10, <1>11, <1>12,
     <1>13, <1>14, <1>15, <1>16, <1>17, <1>18, <1>19, <1>20, <1>21, <1>22, <1>23, <1>24,
     <1>25, <1>26, <1>27, <1>28, <1>29, <1>30, <1>31, <1>32
     DEF Next, Poll, Task, Faults, RequestStep, Operator

(***************************************************************************)
(* Types: the steps.                                                        *)
(***************************************************************************)
LEMMA NoTaskType ==
    NoTask \in [uid : 0..MaxUid, phase : Phase, deleting : BOOLEAN, settled : Condition]
  BY MaxUidAssumption DEF NoTask, Phase, Condition

LEMMA NextUid ==
    ASSUME NEW u \in 1..MaxUid, u < MaxUid
    PROVE  u + 1 \in 1..MaxUid /\ u + 1 \in 0..MaxUid /\ u + 1 # 0
  BY MaxUidAssumption

LEMMA CrStep == K8sTypes /\ Next => CrType'
<1> SUFFICES ASSUME K8sTypes, Next
             PROVE  CrType'
  OBVIOUS
<1>0. CrType
  BY DEF K8sTypes
<1> USE <1>0 DEF CrType
<1>1. CASE UNCHANGED <<cr, uids>>
  BY <1>1
<1>2. ASSUME NEW r \in Replicas, PollReport(r)
      PROVE  CrType'
  <2>1. WithCondition(agents_settled_condition({poll[r].to})) \in
            [uid : 0..MaxUid, phase : Phase, deleting : BOOLEAN, settled : Condition]
    BY DEF WithCondition, agents_settled_condition, Condition
  <2>2. /\ cr' \in [uid : 0..MaxUid, phase : Phase, deleting : BOOLEAN, settled : Condition]
        /\ cr'.uid = cr.uid /\ cr'.phase = cr.phase /\ uids' = uids
        /\ cr.uid = 0 => cr' = cr
    BY <1>2, <2>1 DEF PollReport, WithCondition, cluster
  <2>3. QED
    BY <2>2
<1>3. CASE RequestDelete
  BY <1>3 DEF RequestDelete, Deleted
<1>4. CASE RequestApply
  <2>1. \/ UNCHANGED <<cr, uids>>
        \/ uids < MaxUid /\ uids' = uids + 1 /\ cr' = Created(uids + 1)
    BY <1>4 DEF RequestApply, Apply
  <2>2. CASE uids < MaxUid /\ uids' = uids + 1 /\ cr' = Created(uids + 1)
    <3>1. uids + 1 \in 1..MaxUid /\ uids + 1 \in 0..MaxUid /\ uids + 1 # 0
      BY <2>2, NextUid
    <3>2. QED
      BY <2>2, <3>1 DEF Created, Phase, Condition
  <2>3. QED
    BY <1>1, <2>1, <2>2
<1>5. CASE OperatorRuns
  BY <1>5 DEF OperatorRuns, Phase
<1>6. CASE OperatorSettles
  BY <1>6 DEF OperatorSettles, Phase
<1>7. CASE OperatorFinalizes
  <2>1. cr' = NoTask /\ uids' = uids
    BY <1>7 DEF OperatorFinalizes
  <2>2. QED
    BY <2>1, NoTaskType DEF NoTask
<1>8. QED
  BY <1>1, <1>2, <1>3, <1>4, <1>5, <1>6, <1>7, Writers DEF OnlyWriters, CrWriters

LEMMA SeqExcept ==
    ASSUME NEW S, NEW s \in Seq(S), NEW i, NEW x \in S
    PROVE  [s EXCEPT ![i] = x] \in Seq(S)
<1>1. s \in [1..Len(s) -> S] /\ Len(s) \in Nat
  OBVIOUS
<1>2. [s EXCEPT ![i] = x] \in [1..Len(s) -> S]
  BY <1>1
<1>3. QED
  BY <1>1, <1>2

(* A record changes its status or is added; a pod comes and goes.            *)
LEMMA PodsStep == K8sTypes /\ Next => PodsType'
<1> SUFFICES ASSUME K8sTypes, Next
             PROVE  PodsType'
  OBVIOUS
<1>0. pods \in [1..MaxUid -> Seq(Status)] /\ podsUp \subseteq 1..MaxUid
  BY DEF K8sTypes, PodsType
<1>1. pods' \in [1..MaxUid -> Seq(Status)]
  <2>1. ASSUME NEW r \in Replicas, NEW t \in tasks[r], TaskSpawns(r, t)
        PROVE  pods' \in [1..MaxUid -> Seq(Status)]
    <3>1. pods' = pods \/ pods' = [pods EXCEPT ![t.uid] = Append(@, "running")]
      BY <2>1 DEF TaskSpawns
    <3>2. ASSUME NEW u, pods' = [pods EXCEPT ![u] = Append(@, "running")]
          PROVE  pods' \in [1..MaxUid -> Seq(Status)]
      <4>1. \A w \in 1..MaxUid : Append(pods[w], "running") \in Seq(Status)
        BY <1>0 DEF Status
      <4>2. QED
        BY <1>0, <3>2, <4>1
    <3>3. QED
      BY <1>0, <3>1, <3>2
  <2>2. CASE RequestStop
    <3>1. \/ pods' = pods
          \/ \E t \in tasks[req.at] : pods' = [pods EXCEPT ![t.uid] = Append(@, "running")]
      BY <2>2, Zenon DEF RequestStop
    <3>2. ASSUME NEW u, pods' = [pods EXCEPT ![u] = Append(@, "running")]
          PROVE  pods' \in [1..MaxUid -> Seq(Status)]
      <4>1. CASE u \in 1..MaxUid
        <5>1. Append(pods[u], "running") \in Seq(Status)
          BY <1>0, <4>1 DEF Status
        <5>2. QED
          BY <1>0, <3>2, <4>1, <5>1
      <4>2. CASE u \notin 1..MaxUid
        BY <1>0, <3>2, <4>2
      <4>3. QED
        BY <4>1, <4>2
    <3>3. QED
      BY <1>0, <3>1, <3>2
  <2>3. CASE AgentTurns
    <3>1. PICK u \in podsUp : \E i \in LiveIn(u) :
              pods' = [pods EXCEPT ![u][i] = IF @ = "idle" THEN "running" ELSE "idle"]
      BY <2>3 DEF AgentTurns
    <3>2. PICK i \in LiveIn(u) :
              pods' = [pods EXCEPT ![u][i] = IF @ = "idle" THEN "running" ELSE "idle"]
      BY <3>1
    <3>3. [pods[u] EXCEPT ![i] = IF @ = "idle" THEN "running" ELSE "idle"] \in Seq(Status)
      BY <1>0, SeqExcept DEF Status
    <3>4. QED
      BY <1>0, <3>2, <3>3
  <2>4. CASE AgentFinishes
    <3>1. PICK u \in podsUp : \E i \in LiveIn(u), end \in budget.ends :
              pods' = [pods EXCEPT ![u][i] = end]
      BY <2>4 DEF AgentFinishes
    <3>2. PICK i \in LiveIn(u), end \in budget.ends : pods' = [pods EXCEPT ![u][i] = end]
      BY <3>1
    <3>3. end \in Status
      BY DEF K8sTypes, BoundsType, Budget, Status, Finished
    <3>4. [pods[u] EXCEPT ![i] = end] \in Seq(Status)
      BY <1>0, <3>3, SeqExcept
    <3>5. QED
      BY <1>0, <3>2, <3>4
  <2>5. QED
    BY <1>0, <2>1, <2>2, <2>3, <2>4, Writers DEF OnlyWriters, PodsWriters
<1>2. podsUp' \subseteq 1..MaxUid
  <2>1. CASE OperatorRuns
    BY <1>0, <2>1 DEF OperatorRuns, K8sTypes, CrType
  <2>2. CASE OperatorFinalizes
    BY <1>0, <2>2 DEF OperatorFinalizes
  <2>3. QED
    BY <1>0, <2>1, <2>2, Writers DEF OnlyWriters, PodsUpWriters
<1>3. QED
  BY <1>1, <1>2 DEF PodsType

LEMMA LedgerStep == K8sTypes /\ Next => LedgerType'
<1> SUFFICES ASSUME K8sTypes, Next
             PROVE  LedgerType'
  OBVIOUS
<1>0. LedgerType
  BY DEF K8sTypes
<1>1. outcomes' \in [1..MaxUid -> 0..2]
  <2>1. ASSUME NEW r \in Replicas, PollWrite(r)
        PROVE  outcomes' \in [1..MaxUid -> 0..2]
    <3>1. outcomes' = [outcomes EXCEPT ![poll[r].uid] = IF @ < 2 THEN @ + 1 ELSE @]
      BY <2>1 DEF PollWrite
    <3>2. \A n \in 0..2 : (IF n < 2 THEN n + 1 ELSE n) \in 0..2
      OBVIOUS
    <3>3. QED
      BY <1>0, <3>1, <3>2 DEF LedgerType
  <2>2. QED
    BY <1>0, <2>1, Writers DEF OnlyWriters, OutcomesWriters, LedgerType
<1>2. owner' \in Replicas \cup {Nobody}
  <2>1. ASSUME NEW r \in Replicas, AttachAcquire(r)
        PROVE  owner' \in Replicas \cup {Nobody}
    BY <1>0, <2>1 DEF AttachAcquire, LedgerType
  <2>2. ASSUME NEW r \in Replicas, NEW t \in tasks[r], TaskReleases(r, t)
        PROVE  owner' \in Replicas \cup {Nobody}
    BY <1>0, <2>2 DEF TaskReleases, Released, LedgerType
  <2>3. CASE RequestRelease
    BY <1>0, <2>3 DEF RequestRelease, Released, LedgerType
  <2>4. CASE LeaseExpires \/ OrphanExpires
    BY <1>0, <2>4 DEF LeaseExpires, OrphanExpires, LedgerType
  <2>5. QED
    BY <1>0, <2>1, <2>2, <2>3, <2>4, Writers DEF OnlyWriters, OwnerWriters, LedgerType
<1>3. observer' \in Replicas \cup {Nobody}
  <2>1. ASSUME NEW r \in Replicas, PollObserve(r)
        PROVE  observer' \in Replicas \cup {Nobody}
    BY <1>0, <2>1 DEF PollObserve, LedgerType
  <2>2. CASE LeaseExpires
    BY <1>0, <2>2 DEF LeaseExpires, LedgerType
  <2>3. QED
    BY <1>0, <2>1, <2>2, Writers DEF OnlyWriters, ObserverWriters, LedgerType
<1>4. QED
  BY <1>1, <1>2, <1>3 DEF LedgerType

LEMMA SpendKeeps ==
    ASSUME budget \in Budget,
           NEW what \in {"turns", "dialFaults", "readFaults", "expiries", "crashes"},
           Spend(what)
    PROVE  budget' \in Budget
<1>1. budget[what] \in Nat /\ budget[what] > 0 /\ budget' = [budget EXCEPT ![what] = @ - 1]
  BY DEF Spend, Budget
<1>2. budget[what] - 1 \in Nat
  BY <1>1
<1>3. QED
  BY <1>1, <1>2 DEF Budget

LEMMA BoundsStep == K8sTypes /\ Next => BoundsType'
<1> SUFFICES ASSUME K8sTypes, Next
             PROVE  BoundsType'
  OBVIOUS
<1>0. BoundsType
  BY DEF K8sTypes
<1>1. budget' \in Budget
  <2>1. ASSUME NEW r \in Replicas, PollDiffUnanswered(r)
        PROVE  budget' \in Budget
    BY <1>0, <2>1, SpendKeeps DEF BoundsType, PollDiffUnanswered
  <2>2. ASSUME NEW r \in Replicas, PollEmitUnread(r)
        PROVE  budget' \in Budget
    BY <1>0, <2>2, SpendKeeps DEF BoundsType, PollEmitUnread
  <2>3. ASSUME NEW r \in Replicas, Crash(r)
        PROVE  budget' \in Budget
    BY <1>0, <2>3, SpendKeeps DEF BoundsType, Crash
  <2>4. ASSUME NEW r \in Replicas, NEW t \in tasks[r], TaskDialFails(r, t)
        PROVE  budget' \in Budget
    BY <1>0, <2>4, SpendKeeps DEF BoundsType, TaskDialFails
  <2>5. ASSUME NEW r \in Replicas, NEW kind \in DOMAIN First, Request(kind, r)
        PROVE  budget' \in Budget
    BY <1>0, <2>5 DEF Request, BoundsType, Budget
  <2>6. CASE AgentTurns
    BY <1>0, <2>6, SpendKeeps DEF BoundsType, AgentTurns
  <2>7. CASE LeaseExpires
    BY <1>0, <2>7, SpendKeeps DEF BoundsType, LeaseExpires
  <2>8. QED
    BY <1>0, <2>1, <2>2, <2>3, <2>4, <2>5, <2>6, <2>7, Writers DEF OnlyWriters, BudgetWriters, BoundsType
<1>2. /\ req' \in [kind : {"none", "ensure", "restart", "stop", "remove"},
                   at : Replicas \cup {Nobody},
                   pc : {"done", "get", "stop", "release", "delete", "wait", "apply"}]
      /\ req'.pc # "done" => req'.at \in Replicas
  <2>1. ASSUME NEW r \in Replicas, Crash(r)
        PROVE  req' = req \/ req' = NoRequest
    BY <2>1 DEF Crash
  <2>2. ASSUME NEW r \in Replicas, NEW kind \in DOMAIN First, Request(kind, r)
        PROVE  req' = [kind |-> kind, at |-> r, pc |-> First[kind]]
    BY <2>2 DEF Request
  <2>3. \A kind \in DOMAIN First :
            kind \in {"ensure", "restart", "stop", "remove"} /\ First[kind] \in {"get", "stop"}
    BY DEF First
  <2>4. ASSUME RequestStep
        PROVE  /\ req.pc # "done"
               /\ \E pc \in {"done", "stop", "release", "delete", "wait", "apply"} :
                     req' = [req EXCEPT !.pc = pc]
    <3>1. CASE RequestGet \/ RequestApply
      BY <3>1 DEF RequestGet, RequestApply, Then
    <3>2. CASE RequestStop \/ RequestRelease
      BY <3>2, Zenon DEF RequestStop, RequestRelease, Then
    <3>3. CASE RequestDelete \/ RequestWait
      BY <3>3 DEF RequestDelete, RequestWait, Then
    <3>4. QED
      BY <2>4, <3>1, <3>2, <3>3 DEF RequestStep
  <2>5. CASE RequestStep
    BY <1>0, <2>4, <2>5 DEF BoundsType
  <2>6. CASE UNCHANGED req \/ req' = NoRequest
    BY <1>0, <2>6 DEF BoundsType, NoRequest
  <2>7. ASSUME NEW r \in Replicas, NEW kind \in DOMAIN First, Request(kind, r)
        PROVE  /\ req' \in [kind : {"none", "ensure", "restart", "stop", "remove"},
                            at : Replicas \cup {Nobody},
                            pc : {"done", "get", "stop", "release", "delete", "wait", "apply"}]
               /\ req'.at \in Replicas
    BY <2>2, <2>3, <2>7
  <2>8. CASE UNCHANGED req
    BY <2>6, <2>8
  <2>9. QED
    BY <2>1, <2>5, <2>6, <2>7, <2>8, Writers DEF OnlyWriters, ReqWriters, RequestStep
<1>3. QED
  BY <1>1, <1>2 DEF BoundsType

(* A poll that moves to a well-formed state.                                 *)
LEMMA PollMovesTo ==
    ASSUME ReplicaType, NEW r \in Replicas, NEW p \in PollState,
           p.phase = "Running" => p.uid # 0,
           p.pc \in {"acquire", "reserve"} => p.uid # 0,
           poll' = [poll EXCEPT ![r] = p],
           known' \in [Replicas -> [uid : 0..MaxUid, status : Status]],
           terminal' \in [Replicas -> BOOLEAN], recorded' \in [Replicas -> BOOLEAN],
           lastUid' \in [Replicas -> 0..MaxUid]
    PROVE  ReplicaType'
  BY DEF ReplicaType

Listed(u, phase, again) ==
    [IdlePoll EXCEPT !.pc = "diff", !.uid = u, !.phase = phase, !.recreated = again]

LEMMA ListedPoll ==
    ASSUME NEW u \in 0..MaxUid, NEW phase \in Phase, NEW again \in BOOLEAN
    PROVE  /\ Listed(u, phase, again) \in PollState
           /\ Listed(u, phase, again).pc = "diff"
           /\ Listed(u, phase, again).phase = phase /\ Listed(u, phase, again).uid = u
           /\ ~ Listed(u, phase, again).refreshed
<1>1. \A q \in PollState :
          LET p == [q EXCEPT !.pc = "diff", !.uid = u, !.phase = phase, !.recreated = again]
          IN  /\ p \in PollState /\ p.pc = "diff" /\ p.phase = phase /\ p.uid = u
              /\ p.refreshed = q.refreshed
  BY DEF PollState
<1>2. QED
  BY <1>1, IdlePollType DEF Listed

LEMMA DiffedType ==
    ASSUME ReplicaType, NEW r \in Replicas, NEW status \in Status
    PROVE  /\ Diffed(r, status) \in PollState
           /\ Diffed(r, status).pc = "observe" /\ Diffed(r, status).to = status
           /\ Diffed(r, status).uid = poll[r].uid
           /\ Diffed(r, status).phase = poll[r].phase
           /\ Diffed(r, status).refreshed = poll[r].refreshed
<1> DEFINE change == IF poll[r].uid = 0 THEN (IF known[r].uid # 0 THEN "gone" ELSE "none")
                     ELSE IF known[r].uid = 0 THEN "discovered"
                     ELSE IF known[r].status # status THEN "status" ELSE "none"
<1>1. change \in {"none", "gone", "discovered", "status"}
  OBVIOUS
<1>2. Diffed(r, status) = [poll[r] EXCEPT !.pc = "observe", !.to = status, !.change = change]
  BY DEF Diffed
<1> HIDE DEF change
<1>3. \A q \in PollState :
          LET p == [q EXCEPT !.pc = "observe", !.to = status, !.change = change]
          IN  /\ p \in PollState /\ p.pc = "observe" /\ p.to = status
              /\ p.uid = q.uid /\ p.phase = q.phase /\ p.refreshed = q.refreshed
  BY <1>1 DEF PollState
<1>4. poll[r] \in PollState
  BY DEF ReplicaType
<1>5. QED
  BY <1>2, <1>3, <1>4

LEMMA ReplicaStep == K8sTypes /\ Next => ReplicaType'
<1> SUFFICES ASSUME K8sTypes, Next
             PROVE  ReplicaType'
  OBVIOUS
<1>0. ReplicaType
  BY DEF K8sTypes
<1>1. ASSUME NEW r \in Replicas, PollList(r)
      PROVE  ReplicaType'
  <2> DEFINE p == Listed(cr.uid, cr.phase, recreated_names(r))
  <2>1. /\ cr.uid \in 0..MaxUid /\ cr.phase \in Phase
        /\ cr.phase = "Running" => cr.uid # 0
    BY DEF K8sTypes, CrType
  <2>2. recreated_names(r) \in BOOLEAN
    BY DEF recreated_names
  <2>3. p \in PollState /\ p.pc = "diff" /\ p.phase = cr.phase /\ p.uid = cr.uid
    BY <2>1, <2>2, ListedPoll
  <2>4. poll' = [poll EXCEPT ![r] = p] /\ UNCHANGED <<known, terminal, recorded>>
    BY <1>1 DEF PollList, Listed, plane
  <2>5. lastUid' \in [Replicas -> 0..MaxUid]
    BY <1>0, <1>1, <2>1 DEF PollList, ReplicaType
  <2> HIDE DEF p
  <2>6. QED
    BY <1>0, <2>1, <2>3, <2>4, <2>5, PollMovesTo DEF ReplicaType
<1>2. ASSUME NEW r \in Replicas, NEW status \in Status, NEW p,
             p = Diffed(r, status) \/ p = [Diffed(r, status) EXCEPT !.refreshed = TRUE],
             poll' = [poll EXCEPT ![r] = p], Observed(r, status)
      PROVE  ReplicaType'
  <2>1. \A q \in PollState :
            LET x == [q EXCEPT !.refreshed = TRUE]
            IN  x \in PollState /\ x.pc = q.pc /\ x.phase = q.phase /\ x.uid = q.uid
    BY DEF PollState
  <2>2. p \in PollState /\ p.pc = "observe" /\ p.phase = poll[r].phase /\ p.uid = poll[r].uid
    <3> DEFINE d == Diffed(r, status)
    <3>1. d \in PollState /\ d.pc = "observe" /\ d.phase = poll[r].phase /\ d.uid = poll[r].uid
      BY <1>0, DiffedType
    <3> HIDE DEF d
    <3>2. p = d \/ p = [d EXCEPT !.refreshed = TRUE]
      BY <1>2, Zenon DEF d
    <3>3. QED
      BY <2>1, <3>1, <3>2
  <2>3. /\ poll[r].uid \in 0..MaxUid
        /\ poll[r].phase = "Running" => poll[r].uid # 0
    BY <1>0 DEF ReplicaType, PollState
  <2>4. known' \in [Replicas -> [uid : 0..MaxUid, status : Status]]
    <3>1. Unknown \in [uid : 0..MaxUid, status : Status]
      BY MaxUidAssumption DEF Unknown, Status
    <3>2. QED
      BY <1>0, <1>2, <2>3, <3>1 DEF Observed, ReplicaType
  <2>5. UNCHANGED <<terminal, recorded, lastUid>>
    BY <1>2 DEF Observed, plane
  <2>6. QED
    BY <1>0, <1>2, <2>2, <2>3, <2>4, <2>5, PollMovesTo DEF ReplicaType
<1>3. \A r \in Replicas : phase_to_status(poll[r].phase) \in Status /\ known[r].status \in Status
  BY <1>0 DEF phase_to_status, Status, Finished, ReplicaType
<1>4. ASSUME NEW r \in Replicas, PollDiff(r)
      PROVE  ReplicaType'
  <2>1. CASE Answers(r)
    <3>1. poll[r].uid \in podsUp /\ pods[poll[r].uid] # <<>>
      BY <2>1 DEF Answers
    <3>2. pods[poll[r].uid][1] \in Status
      <4>1. pods[poll[r].uid] \in Seq(Status)
        BY <3>1 DEF K8sTypes, PodsType
      <4>2. QED
        BY <3>1, <4>1
    <3>3. QED
      BY <1>2, <1>4, <2>1, <3>2 DEF PollDiff
  <2>2. CASE ~ Answers(r)
    BY <1>2, <1>3, <1>4, <2>2 DEF PollDiff
  <2>3. QED
    BY <2>1, <2>2
<1>5. ASSUME NEW r \in Replicas, PollDiffUnanswered(r)
      PROVE  ReplicaType'
  BY <1>2, <1>3, <1>5 DEF PollDiffUnanswered
<1>6. ASSUME NEW r \in Replicas, NEW pc \in {"report", "write", "emit", "reserve"},
             poll' = [poll EXCEPT ![r].pc = pc], pc = "reserve" => poll[r].pc = "acquire",
             recorded' \in [Replicas -> BOOLEAN], UNCHANGED <<known, terminal, lastUid>>
      PROVE  ReplicaType'
  <2> DEFINE p == [poll[r] EXCEPT !.pc = pc]
  <2>1. \A q \in PollState :
            LET x == [q EXCEPT !.pc = pc]
            IN  x \in PollState /\ x.pc = pc /\ x.phase = q.phase /\ x.uid = q.uid
    BY DEF PollState
  <2>2. p \in PollState /\ p.pc = pc /\ p.phase = poll[r].phase /\ p.uid = poll[r].uid
    BY <1>0, <2>1 DEF ReplicaType
  <2>3. poll' = [poll EXCEPT ![r] = p]
    BY <1>6
  <2> HIDE DEF p
  <2>4. QED
    BY <1>0, <1>6, <2>2, <2>3, PollMovesTo DEF ReplicaType
<1>7. ASSUME NEW r \in Replicas, PollObserve(r)
      PROVE  ReplicaType'
  <2>1. UNCHANGED <<known, recorded, lastUid>>
    BY <1>7 DEF PollObserve, loopVars
  <2>2. \/ poll' = [poll EXCEPT ![r].pc = "report"] /\ UNCHANGED terminal
        \/ PollEnds(r)
    BY <1>7 DEF PollObserve
  <2>3. QED
    BY <1>0, <1>6, <2>1, <2>2, PollEndsType DEF ReplicaType
<1>8. ASSUME NEW r \in Replicas, PollReport(r)
      PROVE  ReplicaType'
  <2>1. poll' = [poll EXCEPT ![r].pc = "emit", ![r].refreshed = FALSE]
        /\ UNCHANGED <<known, terminal, recorded, lastUid>>
    BY <1>8 DEF PollReport, loopVars, plane
  <2> DEFINE p == [poll[r] EXCEPT !.pc = "emit", !.refreshed = FALSE]
  <2>2. \A q \in PollState :
            LET x == [q EXCEPT !.pc = "emit", !.refreshed = FALSE]
            IN  x \in PollState /\ x.pc = "emit" /\ x.phase = q.phase /\ x.uid = q.uid
    BY DEF PollState
  <2>3. p \in PollState /\ p.pc = "emit" /\ p.phase = poll[r].phase /\ p.uid = poll[r].uid
    BY <1>0, <2>2 DEF ReplicaType
  <2>4. poll' = [poll EXCEPT ![r] = p]
    BY <1>0, <2>1, Zenon DEF ReplicaType
  <2> HIDE DEF p
  <2>5. QED
    BY <1>0, <2>1, <2>3, <2>4, PollMovesTo DEF ReplicaType
<1>9. ASSUME NEW r \in Replicas, PollEmit(r)
      PROVE  ReplicaType'
  <2>1. recorded' \in [Replicas -> BOOLEAN]
    BY <1>0, <1>9 DEF PollEmit, ReplicaType, Emits
  <2>2. UNCHANGED <<known, lastUid>>
    BY <1>9 DEF PollEmit
  <2>3. \/ poll' = [poll EXCEPT ![r].pc = "write"] /\ UNCHANGED terminal
        \/ PollEnds(r)
    BY <1>9 DEF PollEmit
  <2>4. QED
    BY <1>0, <1>6, <2>1, <2>2, <2>3, PollEndsType
<1>10. ASSUME NEW r \in Replicas, PollEmitUnread(r)
       PROVE  ReplicaType'
  <2>1. recorded' \in [Replicas -> BOOLEAN]
    BY <1>0, <1>10 DEF PollEmitUnread, ReplicaType
  <2>2. poll' = [poll EXCEPT ![r].pc = "write"] /\ UNCHANGED <<known, terminal, lastUid>>
    BY <1>10 DEF PollEmitUnread, plane
  <2>3. QED
    BY <1>6, <2>1, <2>2
<1>11. ASSUME NEW r \in Replicas, PollWrite(r)
       PROVE  ReplicaType'
  <2>1. UNCHANGED <<known, recorded, lastUid>> /\ PollEnds(r)
    BY <1>11 DEF PollWrite, loopVars
  <2>2. QED
    BY <1>0, <2>1, PollEndsType DEF ReplicaType
<1>12. ASSUME NEW r \in Replicas, poll' = [poll EXCEPT ![r] = IdlePoll],
              UNCHANGED <<known, terminal, recorded, lastUid>>
       PROVE  ReplicaType'
  BY <1>0, <1>12, IdlePollType DEF ReplicaType
<1>13. ASSUME NEW r \in Replicas, AttachAcquire(r)
       PROVE  ReplicaType'
  <2>1. UNCHANGED <<known, terminal, recorded, lastUid>> /\ poll[r].pc = "acquire"
    BY <1>13 DEF AttachAcquire, loopVars, plane
  <2>2. poll' = [poll EXCEPT ![r].pc = "reserve"] \/ poll' = [poll EXCEPT ![r] = IdlePoll]
    BY <1>13 DEF AttachAcquire
  <2>3. QED
    BY <1>0, <1>6, <1>12, <2>1, <2>2 DEF ReplicaType
<1>14. ASSUME NEW r \in Replicas, AttachReserve(r)
       PROVE  ReplicaType'
  <2>1. /\ poll' = [poll EXCEPT ![r].pc = "register", ![r].gen = NewGeneration(r)]
        /\ UNCHANGED <<known, terminal, recorded, lastUid>>
        /\ Cardinality(tasks[r]) < budget.tasks
    BY <1>14 DEF AttachReserve, loopVars
  <2>2. NewGeneration(r) \in 0..MaxTasks
    BY <2>1, NewGenerationInBounds
  <2> DEFINE g == NewGeneration(r)
             p == [poll[r] EXCEPT !.pc = "register", !.gen = g]
  <2> HIDE DEF g
  <2>3. \A q \in PollState :
            LET x == [q EXCEPT !.pc = "register", !.gen = g]
            IN  x \in PollState /\ x.pc = "register" /\ x.phase = q.phase /\ x.uid = q.uid
    <3>1. g \in 0..MaxTasks
      BY <2>2 DEF g
    <3>2. QED
      BY <3>1 DEF PollState
  <2>4. p \in PollState /\ p.pc = "register" /\ p.phase = poll[r].phase /\ p.uid = poll[r].uid
    BY <1>0, <2>3 DEF ReplicaType
  <2>5. poll' = [poll EXCEPT ![r] = p]
    BY <1>0, <2>1, Zenon DEF ReplicaType, g
  <2> HIDE DEF p
  <2>6. QED
    BY <1>0, <2>1, <2>4, <2>5, PollMovesTo DEF ReplicaType
<1>15. ASSUME NEW r \in Replicas, AttachRegister(r)
       PROVE  ReplicaType'
  BY <1>12, <1>15 DEF AttachRegister, loopVars
<1>16. ASSUME NEW r \in Replicas, Crash(r)
       PROVE  ReplicaType'
  <2>1. /\ known' = [known EXCEPT ![r] = Unknown]
        /\ terminal' = [terminal EXCEPT ![r] = FALSE]
        /\ recorded' = [recorded EXCEPT ![r] = FALSE]
        /\ lastUid' = [lastUid EXCEPT ![r] = 0]
        /\ poll' = [poll EXCEPT ![r] = IdlePoll]
    BY <1>16 DEF Crash
  <2>2. Unknown \in [uid : 0..MaxUid, status : Status] /\ 0 \in 0..MaxUid
    BY MaxUidAssumption DEF Unknown, Status
  <2>3. QED
    BY <1>0, <2>1, <2>2, IdlePollType DEF ReplicaType
<1>17. ASSUME UNCHANGED <<known, recorded, lastUid, poll>>,
              terminal' \in [Replicas -> BOOLEAN]
       PROVE  ReplicaType'
  BY <1>0, <1>17 DEF ReplicaType
<1>18. ASSUME NEW r \in Replicas, NEW t \in tasks[r], TaskResolvesTerminal(r, t)
       PROVE  ReplicaType'
  BY <1>0, <1>17, <1>18 DEF TaskResolvesTerminal, loopVars, ReplicaType
<1>19. CASE RequestStop
  <2>1. UNCHANGED <<known, recorded, lastUid, poll>>
        /\ terminal' = [terminal EXCEPT ![req.at] = FALSE]
    BY <1>19 DEF RequestStop, loopVars, forget_terminal
  <2>2. QED
    BY <1>0, <1>17, <2>1 DEF ReplicaType
<1>20. CASE UNCHANGED <<known, recorded, lastUid, terminal, poll>>
  BY <1>0, <1>17, <1>20 DEF ReplicaType
<1>21. QED
  BY <1>1, <1>4, <1>5, <1>7, <1>8, <1>9, <1>10, <1>11, <1>13, <1>14, <1>15, <1>16,
     <1>18, <1>19, <1>20, Writers DEF OnlyWriters, PollWriters, LoopWriters

(***************************************************************************)
(* The `attached` map and the tasks (#112).                                 *)
(***************************************************************************)
(* The entry and the tasks of one replica fit together.                      *)
Fit(entry, ts) ==
    /\ entry \in [gen : 0..MaxTasks, abort : BOOLEAN]
    /\ ts \subseteq TaskState /\ IsFiniteSet(ts)
    /\ \A t, s \in ts : t.gen = s.gen => t = s
    /\ \A t \in ts : t.pc # "release" /\ ~ t.shutdown => entry.gen = t.gen

LEMMA FitEach ==
    ASSUME AttachType, OwnGeneration, StopReaches, NEW r \in Replicas
    PROVE  Fit(slot[r], tasks[r])
  BY DEF AttachType, OwnGeneration, StopReaches, Fit

LEMMA FitAll ==
    ASSUME AttachType, OwnGeneration, StopReaches,
           NEW r \in Replicas, NEW entry, NEW ts, Fit(entry, ts),
           slot' = [slot EXCEPT ![r] = entry], tasks' = [tasks EXCEPT ![r] = ts]
    PROVE  AttachType' /\ OwnGeneration' /\ StopReaches'
<1>1. AttachType'
  BY DEF AttachType, Fit
<1>2. \A q \in Replicas : slot'[q] = IF q = r THEN entry ELSE slot[q]
  BY DEF AttachType
<1>3. \A q \in Replicas : tasks'[q] = IF q = r THEN ts ELSE tasks[q]
  BY DEF AttachType
<1>4. OwnGeneration'
  BY <1>3 DEF OwnGeneration, Fit
<1>5. StopReaches'
  BY <1>2, <1>3 DEF StopReaches, Fit
<1>6. QED
  BY <1>1, <1>4, <1>5

(* One task goes on, or ends with the entry if it is its own.                *)
LEMMA FitMoves ==
    ASSUME NEW entry, NEW ts, Fit(entry, ts), NEW t \in ts, t.pc # "release",
           NEW pc \in {"spawn", "stream", "release"}, NEW next,
           \/ next = entry /\ pc # "release"
           \/ next = (IF entry.gen = t.gen THEN NoSlot ELSE entry) /\ pc = "release"
    PROVE  Fit(next, (ts \ {t}) \cup {[t EXCEPT !.pc = pc]})
<1> DEFINE moved == [t EXCEPT !.pc = pc]
           others == ts \ {t}
<1>1. /\ moved \in TaskState /\ moved.gen = t.gen /\ moved.pc = pc
      /\ moved.shutdown = t.shutdown
  BY DEF Fit, TaskState
<1> HIDE DEF moved
<1>2. next \in [gen : 0..MaxTasks, abort : BOOLEAN]
  <2>1. NoSlot \in [gen : 0..MaxTasks, abort : BOOLEAN]
    BY MaxUidAssumption DEF NoSlot
  <2>2. entry \in [gen : 0..MaxTasks, abort : BOOLEAN]
    BY DEF Fit
  <2>3. QED
    BY <2>1, <2>2
<1>3. IsFiniteSet(others \cup {moved}) /\ others \cup {moved} \subseteq TaskState
  <2>1. IsFiniteSet(others)
    BY FS_Subset DEF Fit
  <2>2. QED
    BY <1>1, <2>1, FS_AddElement DEF Fit
<1>4. \A s \in others : s.gen # t.gen
  BY DEF Fit
<1>5. \A s \in others : s.pc # "release" /\ ~ s.shutdown => next.gen = s.gen
  BY <1>4 DEF Fit
<1>6. moved.pc # "release" /\ ~ moved.shutdown => next.gen = moved.gen
  BY <1>1 DEF Fit
<1>7. \A a, b \in others \cup {moved} : a.gen = b.gen => a = b
  BY <1>1, <1>4 DEF Fit
<1>8. QED
  BY <1>2, <1>3, <1>5, <1>6, <1>7 DEF Fit, moved

LEMMA AttachStep ==
    ASSUME K8sTypes, OwnGeneration, StopReaches, Next
    PROVE  AttachType' /\ OwnGeneration' /\ StopReaches'
<1> DEFINE Fits == AttachType /\ OwnGeneration /\ StopReaches
<1>0. Fits /\ slot = [r \in Replicas |-> slot[r]] /\ tasks = [r \in Replicas |-> tasks[r]]
  BY DEF K8sTypes, AttachType
<1>1. CASE UNCHANGED <<slot, tasks>>
  BY <1>0, <1>1 DEF AttachType, OwnGeneration, StopReaches
<1>2. ASSUME NEW r \in Replicas, AttachReserve(r)
      PROVE  Fits'
  <2> DEFINE g == NewGeneration(r)
             task == [gen |-> g, pc |-> "resolve", uid |-> poll[r].uid, shutdown |-> FALSE]
             entry == [gen |-> g, abort |-> FALSE]
  <2>1. /\ poll[r].pc = "reserve" /\ slot[r].gen = 0
        /\ slot' = [slot EXCEPT ![r] = entry]
        /\ tasks' = [tasks EXCEPT ![r] = tasks[r] \cup {task}]
        /\ Cardinality(tasks[r]) < budget.tasks
    BY <1>2 DEF AttachReserve
  <2>2. /\ g \in 1..MaxTasks /\ g \in 0..MaxTasks
        /\ \A t \in tasks[r] : t.gen # g
    BY <2>1, NewGenerationInBounds
  <2>3. poll[r].uid \in 1..MaxUid
    BY <2>1 DEF K8sTypes, ReplicaType, PollState
  <2> HIDE DEF g
  <2>4. task \in TaskState /\ task.gen = g /\ entry \in [gen : 0..MaxTasks, abort : BOOLEAN]
    BY <2>2, <2>3 DEF TaskState
  <2>5. \A t \in tasks[r] : t.pc = "release" \/ t.shutdown
    BY <1>0, <2>1, MaxUidAssumption DEF StopReaches, AttachType, TaskState
  <2>6. Fit(slot[r], tasks[r])
    BY <1>0, FitEach
  <2>7. IsFiniteSet(tasks[r] \cup {task})
    BY <2>6, FS_AddElement DEF Fit
  <2>8. Fit(entry, tasks[r] \cup {task})
    <3> HIDE DEF task
    <3>1. \A t, s \in tasks[r] \cup {task} : t.gen = s.gen => t = s
      BY <2>2, <2>4, <2>6 DEF Fit
    <3>2. QED
      BY <2>4, <2>5, <2>6, <2>7, <3>1 DEF Fit
  <2> HIDE DEF task, entry
  <2>9. QED
    BY <1>0, <2>1, <2>8, FitAll
<1>3. ASSUME NEW r \in Replicas, AttachRegister(r)
      PROVE  Fits'
  <2>1. slot' = [slot EXCEPT ![r].abort = @ \/ slot[r].gen = poll[r].gen] /\ tasks' = tasks
    BY <1>3 DEF AttachRegister
  <2>2. /\ slot' \in [Replicas -> [gen : 0..MaxTasks, abort : BOOLEAN]]
        /\ \A q \in Replicas : slot'[q].gen = slot[q].gen
    <3>1. slot \in [Replicas -> [gen : 0..MaxTasks, abort : BOOLEAN]]
      BY <1>0 DEF AttachType
    <3>2. \A q \in Replicas : slot[q].abort \in BOOLEAN
      BY <3>1
    <3>3. (slot[r].abort \/ slot[r].gen = poll[r].gen) \in BOOLEAN
      BY <3>2
    <3> DEFINE told == slot[r].abort \/ slot[r].gen = poll[r].gen
               entry == [slot[r] EXCEPT !.abort = told]
    <3>4. slot' = [slot EXCEPT ![r] = entry]
      BY <2>1
    <3>5. entry \in [gen : 0..MaxTasks, abort : BOOLEAN] /\ entry.gen = slot[r].gen
      BY <3>1, <3>3
    <3> HIDE DEF entry
    <3>6. QED
      BY <3>1, <3>4, <3>5
  <2>3. QED
    BY <1>0, <2>1, <2>2 DEF AttachType, OwnGeneration, StopReaches
<1>4. ASSUME NEW r \in Replicas, Crash(r)
      PROVE  Fits'
  <2>1. slot' = [slot EXCEPT ![r] = NoSlot] /\ tasks' = [tasks EXCEPT ![r] = {}]
    BY <1>4 DEF Crash
  <2>2. Fit(NoSlot, {})
    BY FS_EmptySet, MaxUidAssumption DEF Fit, NoSlot
  <2>3. QED
    BY <1>0, <2>1, <2>2, FitAll
<1>5. ASSUME NEW r \in Replicas, NEW t \in tasks[r], TaskMoves(r, t)
      PROVE  Fits'
  <2>1. t.pc # "release"
    BY <1>5 DEF TaskMoves
  <2>2. PICK pc \in {"spawn", "stream", "release"}, next \in {slot[r], NoSlot} :
            /\ \/ next = slot[r] /\ pc # "release"
               \/ next = (IF slot[r].gen = t.gen THEN NoSlot ELSE slot[r]) /\ pc = "release"
            /\ slot' = [slot EXCEPT ![r] = next]
            /\ tasks' = [tasks EXCEPT ![r] = (tasks[r] \ {t}) \cup {[t EXCEPT !.pc = pc]}]
    <3>1. CASE TaskEnds(r, t)
      BY <3>1, Zenon DEF TaskEnds, Becomes, cleanup_attach
    <3>2. ASSUME NEW pc \in {"spawn", "stream"}, Becomes(r, t, pc), UNCHANGED slot
          PROVE  /\ slot' = [slot EXCEPT ![r] = slot[r]]
                 /\ tasks' = [tasks EXCEPT ![r] = (tasks[r] \ {t}) \cup {[t EXCEPT !.pc = pc]}]
      BY <1>0, <3>2 DEF Becomes
    <3>3. QED
      BY <1>5, <3>1, <3>2 DEF TaskMoves
  <2>3. Fit(next, (tasks[r] \ {t}) \cup {[t EXCEPT !.pc = pc]})
    BY <1>0, <2>1, <2>2, FitEach, FitMoves
  <2>4. QED
    BY <1>0, <2>2, <2>3, FitAll
<1>6. ASSUME NEW r \in Replicas, NEW t \in tasks[r], TaskReleases(r, t)
      PROVE  Fits'
  <2>1. slot' = [slot EXCEPT ![r] = slot[r]] /\ tasks' = [tasks EXCEPT ![r] = tasks[r] \ {t}]
    BY <1>0, <1>6 DEF TaskReleases
  <2>2. Fit(slot[r], tasks[r]) /\ IsFiniteSet(tasks[r] \ {t})
    BY <1>0, FitEach, FS_Subset DEF Fit
  <2>3. Fit(slot[r], tasks[r] \ {t})
    BY <2>2 DEF Fit
  <2>4. QED
    BY <1>0, <2>1, <2>3, FitAll
<1>7. CASE RequestStop
  <2> DEFINE r == req.at
             mine == {t \in tasks[r] : t.gen = slot[r].gen}
             told == {[t EXCEPT !.shutdown = TRUE] : t \in mine}
             kept == (tasks[r] \ mine) \cup IF slot[r].abort THEN {} ELSE told
  <2>1. /\ req.pc = "stop"
        /\ slot' = [slot EXCEPT ![r] = NoSlot] /\ tasks' = [tasks EXCEPT ![r] = kept]
    BY <1>7, Zenon DEF RequestStop
  <2>2. r \in Replicas
    BY <2>1 DEF K8sTypes, BoundsType
  <2>3. Fit(slot[r], tasks[r])
    BY <1>0, <2>2, FitEach
  <2>4. \A t \in tasks[r] :
            LET s == [t EXCEPT !.shutdown = TRUE]
            IN  s \in TaskState /\ s.gen = t.gen /\ s.shutdown
    <3>1. \A t \in TaskState :
              LET s == [t EXCEPT !.shutdown = TRUE]
              IN  s \in TaskState /\ s.gen = t.gen /\ s.shutdown
      BY DEF TaskState
    <3>2. QED
      BY <2>3, <3>1 DEF Fit
  <2>5. /\ told \subseteq TaskState /\ IsFiniteSet(told)
        /\ \A s \in told : s.shutdown /\ s.gen = slot[r].gen
        /\ \A s, u \in told : s = u
    <3>0. /\ \A s \in told : \E t \in mine : s = [t EXCEPT !.shutdown = TRUE]
          /\ \A t \in mine : t \in tasks[r] /\ t.gen = slot[r].gen
      BY Zenon
    <3>1. told \subseteq TaskState /\ \A s \in told : s.shutdown /\ s.gen = slot[r].gen
      <4> HIDE DEF told, mine
      <4>1. QED
        BY <2>4, <3>0
    <3>2. \A t, s \in mine : t = s
      BY <2>3 DEF Fit
    <3>3. \A s, u \in told : s = u
      <4> HIDE DEF told, mine
      <4>1. QED
        BY <3>0, <3>2
    <3>4. IsFiniteSet(told)
      <4>1. CASE told = {}
        BY <4>1, FS_EmptySet
      <4>2. CASE told # {}
        <5>1. PICK s \in told : TRUE
          BY <4>2
        <5>2. told = {s}
          BY <3>3, <5>1
        <5>3. QED
          BY <5>2, FS_Singleton
      <4>3. QED
        BY <4>1, <4>2
    <3>5. QED
      BY <3>1, <3>3, <3>4
  <2>6. /\ tasks[r] \ mine \subseteq TaskState /\ IsFiniteSet(tasks[r] \ mine)
        /\ \A t \in tasks[r] \ mine : t.gen # slot[r].gen /\ (t.pc = "release" \/ t.shutdown)
    BY <2>3, FS_Subset DEF Fit
  <2>7. kept \subseteq TaskState /\ IsFiniteSet(kept)
    BY <2>5, <2>6, FS_Union, FS_EmptySet
  <2>8. \A t \in kept : t.pc = "release" \/ t.shutdown
    BY <2>5, <2>6
  <2>9. \A t, s \in kept : t.gen = s.gen => t = s
    <3>1. \A t \in kept : t \in tasks[r] \ mine \/ t \in told
      OBVIOUS
    <3> HIDE DEF kept, told, mine
    <3>2. QED
      BY <2>3, <2>5, <2>6, <3>1 DEF Fit
  <2>10. Fit(NoSlot, kept)
    BY <2>7, <2>8, <2>9, MaxUidAssumption DEF Fit, NoSlot
  <2> HIDE DEF kept, r
  <2>11. QED
    BY <1>0, <2>1, <2>2, <2>10, FitAll
<1>8. QED
  BY <1>1, <1>2, <1>3, <1>4, <1>5, <1>6, <1>7, Writers, TaskStepMoves
     DEF OnlyWriters, AttachedWriters

LEMMA TypesStep == K8sTypes /\ OwnGeneration /\ StopReaches /\ Next => K8sTypes'
  BY CrStep, PodsStep, LedgerStep, BoundsStep, ReplicaStep, AttachStep DEF K8sTypes

(***************************************************************************)
(* The watch loop, seen from one replica.                                   *)
(***************************************************************************)
LEMMA MishapsGrow == Next => mishaps \subseteq mishaps'
<1> SUFFICES ASSUME Next
             PROVE  mishaps \subseteq mishaps'
  OBVIOUS
<1>1. ASSUME NEW r \in Replicas, PollReport(r)
      PROVE  mishaps \subseteq mishaps'
  BY <1>1 DEF PollReport
<1>2. ASSUME NEW r \in Replicas, PollEmitUnread(r)
      PROVE  mishaps \subseteq mishaps'
  BY <1>2 DEF PollEmitUnread, Mishap
<1>3. ASSUME NEW r \in Replicas, Crash(r)
      PROVE  mishaps \subseteq mishaps'
  BY <1>3 DEF Crash, Mishap
<1>4. ASSUME NEW r \in Replicas, NEW t \in tasks[r], TaskReleases(r, t)
      PROVE  mishaps \subseteq mishaps'
  BY <1>4 DEF TaskReleases, LateRelease
<1>5. CASE RequestStop
  <2>1. \/ mishaps' = mishaps \/ mishaps' = mishaps \cup {"stopped"}
    BY <1>5, Zenon DEF RequestStop
  <2>2. QED
    BY <2>1
<1>6. CASE RequestRelease
  BY <1>6 DEF RequestRelease, LateRelease
<1>7. CASE LeaseExpires
  BY <1>7 DEF LeaseExpires, Mishap
<1>8. QED
  BY <1>1, <1>2, <1>3, <1>4, <1>5, <1>6, <1>7, Writers DEF OnlyWriters, MishapsWriters

(* Where a step may take the loop of r.                                      *)
PollPath(r) ==
    \/ poll'[r] = poll[r]
    \/ poll'[r].pc \in {"idle", "acquire", "register"}
    \/ poll'[r].pc = "diff" /\ ~ poll'[r].refreshed
    \/ /\ poll[r].pc = "diff" /\ poll'[r].pc = "observe" /\ poll'[r].uid = poll[r].uid
       /\ \/ poll'[r].refreshed = poll[r].refreshed
          \/ /\ poll[r].uid \in podsUp /\ pods[poll[r].uid] # <<>>
             /\ poll'[r].to = pods[poll[r].uid][1] /\ UNCHANGED pods
    \/ /\ poll[r].pc = "observe" /\ poll'[r] = [poll[r] EXCEPT !.pc = "report"]
       /\ Grantable(observer, r) /\ observer' = r
    \/ poll[r].pc = "report" /\ poll'[r].pc = "emit"
    \/ /\ poll[r].pc = "emit" /\ poll'[r].pc = "write"
       /\ ~ already_recorded_terminal(r) \/ "unread" \in mishaps'
    \/ /\ poll[r].pc = "acquire" /\ poll'[r].pc = "reserve"
       /\ Grantable(owner, r) /\ owner' = r

LEMMA PollEndsPath ==
    ASSUME ReplicaType, NEW r \in Replicas, PollEnds(r)
    PROVE  \A q \in Replicas :
               IF q = r THEN poll'[q].pc \in {"idle", "acquire"} ELSE poll'[q] = poll[q]
<1>1. PICK p : poll' = [poll EXCEPT ![r] = p] /\ p.pc \in {"idle", "acquire"}
  <2>1. PICK queued \in BOOLEAN :
            poll' = [poll EXCEPT ![r] =
                        IF queued THEN [IdlePoll EXCEPT !.pc = "acquire", !.uid = poll[r].uid]
                        ELSE IdlePoll]
    BY Zenon DEF PollEnds
  <2>2. [IdlePoll EXCEPT !.pc = "acquire", !.uid = poll[r].uid].pc = "acquire"
    BY PollFromIdle DEF ReplicaType, PollState
  <2>3. QED
    BY <2>1, <2>2, IdlePollType
<1>2. QED
  BY <1>1 DEF ReplicaType

LEMMA PollPaths == ASSUME K8sTypes, Next PROVE \A q \in Replicas : PollPath(q)
<1>0. ReplicaType
  BY DEF K8sTypes
<1> DEFINE Paths == \A q \in Replicas : PollPath(q)
<1>1. CASE UNCHANGED poll
  BY <1>1 DEF PollPath
<1>2. ASSUME NEW r \in Replicas, NEW p, poll' = [poll EXCEPT ![r] = p],
             poll'[r] = p => PollPath(r)
      PROVE  Paths
  <2>1. \A q \in Replicas : q # r => poll'[q] = poll[q]
    BY <1>0, <1>2 DEF ReplicaType
  <2>2. poll'[r] = p
    BY <1>0, <1>2 DEF ReplicaType
  <2>3. QED
    BY <1>2, <2>1, <2>2 DEF PollPath
<1>3. ASSUME NEW r \in Replicas, PollEnds(r)
      PROVE  Paths
  BY <1>0, <1>3, PollEndsPath DEF PollPath
<1>4. ASSUME NEW r \in Replicas, PollList(r)
      PROVE  Paths
  <2>1. cr.uid \in 0..MaxUid /\ cr.phase \in Phase /\ recreated_names(r) \in BOOLEAN
    BY DEF K8sTypes, CrType, recreated_names
  <2>2. poll' = [poll EXCEPT ![r] = Listed(cr.uid, cr.phase, recreated_names(r))]
    BY <1>4 DEF PollList, Listed
  <2>3. /\ Listed(cr.uid, cr.phase, recreated_names(r)).pc = "diff"
        /\ ~ Listed(cr.uid, cr.phase, recreated_names(r)).refreshed
    BY <2>1, ListedPoll
  <2>4. QED
    BY <1>2, <2>2, <2>3 DEF PollPath
<1>5. \A r \in Replicas : phase_to_status(poll[r].phase) \in Status /\ known[r].status \in Status
  BY <1>0 DEF phase_to_status, Status, Finished, ReplicaType
<1>6. ASSUME NEW r \in Replicas, NEW status \in Status, poll[r].pc = "diff",
             poll' = [poll EXCEPT ![r] = Diffed(r, status)]
      PROVE  Paths
  BY <1>0, <1>2, <1>6, DiffedType DEF PollPath
<1>7. ASSUME NEW r \in Replicas, PollDiff(r)
      PROVE  Paths
  <2>1. poll[r].pc = "diff" /\ UNCHANGED pods
    BY <1>7 DEF PollDiff, Observed, cluster
  <2>2. CASE Answers(r)
    <3> DEFINE status == pods[poll[r].uid][1]
               d == Diffed(r, status)
    <3>1. poll[r].uid \in podsUp /\ pods[poll[r].uid] # <<>>
      BY <2>2 DEF Answers
    <3>2. status \in Status
      <4>1. pods[poll[r].uid] \in Seq(Status)
        BY <3>1 DEF K8sTypes, PodsType
      <4>2. QED
        BY <3>1, <4>1
    <3>3. d \in PollState /\ d.pc = "observe" /\ d.to = status /\ d.uid = poll[r].uid
      BY <1>0, <3>2, DiffedType
    <3>4. poll' = [poll EXCEPT ![r] = [d EXCEPT !.refreshed = TRUE]]
      BY <1>7, <2>2 DEF PollDiff
    <3> HIDE DEF status, d
    <3>5. LET x == [d EXCEPT !.refreshed = TRUE]
          IN  x.pc = "observe" /\ x.to = status /\ x.uid = poll[r].uid
      BY <3>3 DEF PollState
    <3>6. QED
      BY <1>2, <2>1, <3>1, <3>4, <3>5 DEF PollPath, status
  <2>3. CASE ~ Answers(r)
    BY <1>5, <1>6, <1>7, <2>1, <2>3 DEF PollDiff
  <2>4. QED
    BY <2>2, <2>3
<1>8. ASSUME NEW r \in Replicas, PollDiffUnanswered(r)
      PROVE  Paths
  BY <1>5, <1>6, <1>8 DEF PollDiffUnanswered
<1>9. ASSUME NEW r \in Replicas, PollObserve(r)
      PROVE  Paths
  <2>1. CASE Grantable(observer, r)
    <3>1. /\ observer' = r /\ poll[r].pc = "observe"
          /\ poll' = [poll EXCEPT ![r] = [poll[r] EXCEPT !.pc = "report"]]
      BY <1>9, <2>1 DEF PollObserve
    <3>2. QED
      BY <1>2, <2>1, <3>1 DEF PollPath
  <2>2. CASE ~ Grantable(observer, r)
    BY <1>3, <1>9, <2>2 DEF PollObserve
  <2>3. QED
    BY <2>1, <2>2
<1>10. ASSUME NEW r \in Replicas, PollReport(r)
       PROVE  Paths
  <2>1. poll[r].pc = "report" /\ poll' = [poll EXCEPT ![r].pc = "emit", ![r].refreshed = FALSE]
    BY <1>10 DEF PollReport
  <2>2. \A q \in Replicas : IF q = r THEN poll'[q].pc = "emit" ELSE poll'[q] = poll[q]
    BY <1>0, <2>1 DEF ReplicaType, PollState
  <2>3. QED
    BY <2>1, <2>2 DEF PollPath
<1>11. ASSUME NEW r \in Replicas, PollEmit(r)
       PROVE  Paths
  <2>1. CASE Emits(r) /\ ~ already_recorded_terminal(r)
    <3>1. poll[r].pc = "emit" /\ poll' = [poll EXCEPT ![r] = [poll[r] EXCEPT !.pc = "write"]]
      BY <1>11, <2>1 DEF PollEmit
    <3>2. [poll[r] EXCEPT !.pc = "write"].pc = "write"
      BY <1>0 DEF ReplicaType, PollState
    <3>3. QED
      BY <1>2, <2>1, <3>1, <3>2 DEF PollPath
  <2>2. CASE ~ (Emits(r) /\ ~ already_recorded_terminal(r))
    BY <1>3, <1>11, <2>2 DEF PollEmit
  <2>3. QED
    BY <2>1, <2>2
<1>12. ASSUME NEW r \in Replicas, PollEmitUnread(r)
       PROVE  Paths
  <2>1. /\ poll[r].pc = "emit" /\ "unread" \in mishaps'
        /\ poll' = [poll EXCEPT ![r] = [poll[r] EXCEPT !.pc = "write"]]
    BY <1>12 DEF PollEmitUnread, Mishap
  <2>2. [poll[r] EXCEPT !.pc = "write"].pc = "write"
    BY <1>0 DEF ReplicaType, PollState
  <2>3. QED
    BY <1>2, <2>1, <2>2 DEF PollPath
<1>13. ASSUME NEW r \in Replicas, PollWrite(r)
       PROVE  Paths
  BY <1>3, <1>13 DEF PollWrite
<1>14. ASSUME NEW r \in Replicas, AttachAcquire(r)
       PROVE  Paths
  <2>1. CASE Grantable(owner, r)
    <3>1. /\ poll[r].pc = "acquire" /\ owner' = r
          /\ poll' = [poll EXCEPT ![r] = [poll[r] EXCEPT !.pc = "reserve"]]
      BY <1>14, <2>1 DEF AttachAcquire
    <3>2. [poll[r] EXCEPT !.pc = "reserve"].pc = "reserve"
      BY <1>0 DEF ReplicaType, PollState
    <3>3. QED
      BY <1>2, <2>1, <3>1, <3>2 DEF PollPath
  <2>2. CASE ~ Grantable(owner, r)
    BY <1>2, <1>14, <2>2, IdlePollType DEF AttachAcquire, PollPath
  <2>3. QED
    BY <2>1, <2>2
<1>15. ASSUME NEW r \in Replicas, AttachReserve(r)
       PROVE  Paths
  <2>1. poll' = [poll EXCEPT ![r].pc = "register", ![r].gen = NewGeneration(r)]
    BY <1>15 DEF AttachReserve
  <2>2. \A q \in Replicas : IF q = r THEN poll'[q].pc = "register" ELSE poll'[q] = poll[q]
    BY <1>0, <2>1 DEF ReplicaType, PollState
  <2>3. QED
    BY <2>2 DEF PollPath
<1>16. ASSUME NEW r \in Replicas, AttachRegister(r) \/ Crash(r)
       PROVE  Paths
  <2>1. poll' = [poll EXCEPT ![r] = IdlePoll]
    BY <1>16 DEF AttachRegister, Crash
  <2>2. QED
    BY <1>2, <2>1, IdlePollType DEF PollPath
<1>17. QED
  BY <1>1, <1>4, <1>7, <1>8, <1>9, <1>10, <1>11, <1>12, <1>13, <1>14, <1>15, <1>16,
     Writers DEF OnlyWriters, PollWriters

(***************************************************************************)
(* One outcome (#196): the observer lease and the log.                      *)
(***************************************************************************)
LEMMA ReporterStep ==
    ASSUME K8sTypes, OneReporter, OneOutcome, Next
    PROVE  OneReporter' /\ OneOutcome'
<1> DEFINE Reports(q) == poll[q].pc \in {"report", "emit", "write"}
           Reported(q) == poll'[q].pc \in {"report", "emit", "write"}
<1>0. /\ ReplicaType /\ outcomes \in [1..MaxUid -> 0..2]
      /\ mishaps \subseteq mishaps' /\ \A q \in Replicas : PollPath(q)
  BY PollPaths, MishapsGrow DEF K8sTypes, LedgerType
<1>1. ASSUME "expiry" \notin mishaps', NEW q \in Replicas, Reported(q)
      PROVE  observer' = q
  <2>1. "expiry" \notin mishaps /\ ~ LeaseExpires
    BY <1>0, <1>1 DEF LeaseExpires, Mishap
  <2>2. \A r \in Replicas : Reports(r) => observer = r
    BY <2>1 DEF OneReporter
  <2>3. UNCHANGED observer \/ \E r \in Replicas : PollObserve(r)
    BY <2>1, Writers DEF OnlyWriters, ObserverWriters
  <2>4. CASE Reports(q)
    <3>1. ASSUME NEW r \in Replicas, PollObserve(r)
          PROVE  observer' = observer
      BY <2>2, <2>4, <3>1, NobodyIsNoReplica DEF PollObserve, Grantable
    <3>2. QED
      BY <2>2, <2>3, <2>4, <3>1
  <2>5. CASE ~ Reports(q)
    BY <1>0, <1>1, <2>5 DEF PollPath
  <2>6. QED
    BY <2>4, <2>5
<1>2. ASSUME "unread" \notin mishaps', "expiry" \notin mishaps'
      PROVE  /\ \A q \in Replicas : poll'[q].pc = "write" => \A u \in 1..MaxUid : outcomes'[u] = 0
             /\ \A u, v \in 1..MaxUid :
                    outcomes'[u] <= 1 /\ (outcomes'[u] + outcomes'[v] > 1 => u = v)
  <2>1. "unread" \notin mishaps /\ "expiry" \notin mishaps
    BY <1>0, <1>2
  <2>2. /\ \A r \in Replicas : poll[r].pc = "write" => \A u \in 1..MaxUid : outcomes[u] = 0
        /\ \A u, v \in 1..MaxUid :
               outcomes[u] <= 1 /\ (outcomes[u] + outcomes[v] > 1 => u = v)
    BY <2>1 DEF OneReporter, OneOutcome
  <2>3. \A r, q \in Replicas : Reports(r) /\ Reports(q) => r = q
    BY <2>1 DEF OneReporter
  <2>4. ASSUME NEW r \in Replicas, PollWrite(r)
        PROVE  /\ \A q \in Replicas : poll'[q].pc # "write"
               /\ \A u, v \in 1..MaxUid :
                    outcomes'[u] <= 1 /\ (outcomes'[u] + outcomes'[v] > 1 => u = v)
    <3>1. /\ poll[r].pc = "write" /\ PollEnds(r)
          /\ outcomes' = [outcomes EXCEPT ![poll[r].uid] = IF @ < 2 THEN @ + 1 ELSE @]
      BY <2>4 DEF PollWrite
    <3>2. \A q \in Replicas : poll'[q].pc # "write"
      BY <1>0, <2>3, <3>1, PollEndsPath
    <3>3. \A u \in 1..MaxUid : outcomes[u] = 0
      BY <2>2, <3>1
    <3>4. \A u \in 1..MaxUid : outcomes'[u] = IF u = poll[r].uid THEN 1 ELSE 0
      BY <1>0, <3>1, <3>3
    <3>5. QED
      BY <3>2, <3>4
  <2>5. CASE UNCHANGED outcomes
    <3>1. ASSUME NEW q \in Replicas, poll'[q].pc = "write", poll[q].pc # "write"
          PROVE  \A u \in 1..MaxUid : outcomes[u] = 0
      <4>1. poll[q].pc \in {"emit"} /\ ~ already_recorded_terminal(q)
        <5>1. poll'[q] # poll[q] /\ poll'[q].pc = "write"
          BY <3>1
        <5>2. [poll[q] EXCEPT !.pc = "report"].pc = "report"
          BY <1>0 DEF ReplicaType, PollState
        <5>3. QED
          BY <1>0, <1>2, <5>1, <5>2 DEF PollPath
      <4>2. \A u \in 1..MaxUid : ~ outcomes[u] > 0
        BY <4>1 DEF already_recorded_terminal
      <4>3. QED
        BY <1>0, <4>2
    <3>2. QED
      BY <2>2, <2>5, <3>1
  <2>6. QED
    BY <2>4, <2>5, Writers DEF OnlyWriters, OutcomesWriters
<1>3. QED
  BY <1>1, <1>2 DEF OneReporter, OneOutcome

(***************************************************************************)
(* AgentsSettled (#228): what was seen in a pod stays true of it.           *)
(***************************************************************************)
(* A record that is there stays, and an end is final.                        *)
LEMMA EndsAreFinal ==
    ASSUME K8sTypes, Next, NEW u \in 1..MaxUid, pods[u] # <<>>
    PROVE  pods'[u] # <<>> /\ (pods[u][1] \in Finished => pods'[u][1] = pods[u][1])
<1>0. pods \in [1..MaxUid -> Seq(Status)] /\ podsUp \subseteq 1..MaxUid
  BY DEF K8sTypes, PodsType
<1>1. ASSUME NEW w, NEW x, pods' = [pods EXCEPT ![w] = Append(@, x)]
      PROVE  pods'[u] # <<>> /\ pods'[u][1] = pods[u][1]
  <2>1. CASE w = u
    <3>1. pods'[u] = Append(pods[u], x) /\ pods[u] \in Seq(Status) /\ Len(pods[u]) >= 1
      BY <1>0, <1>1, <2>1
    <3>2. QED
      BY <3>1
  <2>2. CASE w # u
    BY <1>0, <1>1, <2>2
  <2>3. QED
    BY <2>1, <2>2
<1>2. ASSUME NEW w \in podsUp, NEW i \in LiveIn(w), NEW x, pods' = [pods EXCEPT ![w][i] = x]
      PROVE  pods'[u] # <<>> /\ (pods[u][1] \in Finished => pods'[u][1] = pods[u][1])
  <2>1. CASE w = u
    <3>1. pods'[u] = [pods[u] EXCEPT ![i] = x] /\ pods[u] \in Seq(Status) /\ Len(pods[u]) >= 1
      BY <1>0, <1>2, <2>1
    <3>2. i \in 1..Len(pods[u]) /\ pods[u][i] \notin Finished
      BY <1>2, <2>1, <3>1 DEF LiveIn
    <3>3. pods'[u] # <<>>
      BY <3>1, <3>2
    <3>4. i # 1 => pods'[u][1] = pods[u][1]
      BY <3>1, <3>2
    <3>5. QED
      BY <3>2, <3>3, <3>4
  <2>2. CASE w # u
    BY <1>0, <1>2, <2>2
  <2>3. QED
    BY <2>1, <2>2
<1>3. ASSUME NEW r \in Replicas, NEW t \in tasks[r], TaskSpawns(r, t)
      PROVE  pods'[u] # <<>> /\ pods'[u][1] = pods[u][1]
  <2>1. UNCHANGED pods \/ pods' = [pods EXCEPT ![t.uid] = Append(@, "running")]
    BY <1>3 DEF TaskSpawns
  <2>2. QED
    BY <1>1, <2>1
<1>4. CASE RequestStop
  <2>1. UNCHANGED pods \/ \E w : pods' = [pods EXCEPT ![w] = Append(@, "running")]
    BY <1>4, Zenon DEF RequestStop
  <2>2. ASSUME NEW w, pods' = [pods EXCEPT ![w] = Append(@, "running")]
        PROVE  pods'[u] # <<>> /\ pods'[u][1] = pods[u][1]
    BY <1>1, <2>2
  <2>3. QED
    BY <2>1, <2>2
<1>5. CASE AgentTurns
  <2>1. \E w \in podsUp : \E i \in LiveIn(w) : \E x : pods' = [pods EXCEPT ![w][i] = x]
    BY <1>5, Zenon DEF AgentTurns
  <2>2. QED
    BY <1>2, <2>1
<1>6. CASE AgentFinishes
  <2>1. \E w \in podsUp : \E i \in LiveIn(w) : \E x : pods' = [pods EXCEPT ![w][i] = x]
    BY <1>6, Zenon DEF AgentFinishes
  <2>2. QED
    BY <1>2, <2>1
<1>7. QED
  BY <1>1, <1>3, <1>4, <1>5, <1>6, Writers DEF OnlyWriters, PodsWriters

LEMMA SeenStep ==
    ASSUME K8sTypes, SeenInPod, Next
    PROVE  SeenInPod'
<1>0. /\ ReplicaType /\ podsUp \subseteq 1..MaxUid /\ \A q \in Replicas : PollPath(q)
  BY PollPaths DEF K8sTypes, PodsType
<1> SUFFICES ASSUME NEW q \in Replicas
             PROVE  /\ poll'[q].pc = "diff" => ~ poll'[q].refreshed
                    /\ poll'[q].pc \in {"observe", "report"} /\ poll'[q].refreshed =>
                          /\ poll'[q].uid # 0 /\ pods'[poll'[q].uid] # <<>>
                          /\ poll'[q].to \in Finished => pods'[poll'[q].uid][1] \in Finished
  BY DEF SeenInPod
<1>1. poll[q].uid \in 0..MaxUid /\ poll[q] \in PollState
  BY <1>0 DEF ReplicaType, PollState
<1>2. ASSUME poll[q].pc \in {"observe", "report"}, poll[q].refreshed
      PROVE  /\ poll[q].uid # 0 /\ pods'[poll[q].uid] # <<>>
             /\ poll[q].to \in Finished => pods'[poll[q].uid][1] \in Finished
  BY <1>1, <1>2, EndsAreFinal DEF SeenInPod
<1>3. CASE poll'[q] = poll[q]
  BY <1>2, <1>3 DEF SeenInPod
<1>4. CASE poll[q].pc = "observe" /\ poll'[q] = [poll[q] EXCEPT !.pc = "report"]
  <2>1. /\ poll'[q].pc = "report" /\ poll'[q].uid = poll[q].uid /\ poll'[q].to = poll[q].to
        /\ poll'[q].refreshed = poll[q].refreshed
    BY <1>1, <1>4 DEF PollState
  <2>2. QED
    BY <1>2, <1>4, <2>1
<1>5. CASE /\ poll[q].pc = "diff" /\ poll'[q].pc = "observe" /\ poll'[q].uid = poll[q].uid
           /\ \/ poll'[q].refreshed = poll[q].refreshed
              \/ /\ poll[q].uid \in podsUp /\ pods[poll[q].uid] # <<>>
                 /\ poll'[q].to = pods[poll[q].uid][1] /\ UNCHANGED pods
  BY <1>0, <1>5 DEF SeenInPod
<1>6. CASE \/ poll'[q].pc \in {"idle", "acquire", "register", "emit", "write", "reserve"}
           \/ poll'[q].pc = "diff" /\ ~ poll'[q].refreshed
  BY <1>6
<1>7. QED
  BY <1>0, <1>3, <1>4, <1>5, <1>6 DEF PollPath

LEMMA SettledStep ==
    ASSUME K8sTypes, SeenInPod, SettledHonest, Next
    PROVE  SettledHonest'
<1>0. CrType /\ CrType' /\ ReplicaType /\ mishaps \subseteq mishaps'
  BY CrStep, MishapsGrow DEF K8sTypes
<1> SUFFICES ASSUME "misreport" \notin mishaps', cr'.settled \in {"succeeded", "failed"}
             PROVE  pods'[cr'.uid] # <<>> /\ pods'[cr'.uid][1] \in Finished
  BY DEF SettledHonest
<1>1. CASE cr'.uid = cr.uid /\ cr'.settled = cr.settled
  <2>1. cr.uid \in 1..MaxUid
    <3>1. cr.uid \in 0..MaxUid /\ cr.uid # 0
      BY <1>0, <1>1 DEF CrType
    <3>2. QED
      BY <3>1, MaxUidAssumption
  <2>2. pods[cr.uid] # <<>> /\ pods[cr.uid][1] \in Finished
    BY <1>0, <1>1 DEF SettledHonest
  <2>3. QED
    BY <1>1, <2>1, <2>2, EndsAreFinal
<1>2. ASSUME NEW r \in Replicas, PollReport(r)
      PROVE  pods'[cr'.uid] # <<>> /\ pods'[cr'.uid][1] \in Finished
  <2> DEFINE condition == agents_settled_condition({poll[r].to})
  <2>1. CASE cr' = cr
    BY <1>1, <2>1
  <2>2. CASE cr' # cr
    <3>1. poll[r].refreshed /\ cr' = WithCondition(condition) /\ poll[r].pc = "report"
      BY <1>2, <2>2 DEF PollReport
    <3>2. cr.uid # 0 /\ cr' = [cr EXCEPT !.settled = condition]
      BY <2>2, <3>1 DEF WithCondition
    <3>3. cr'.uid = cr.uid /\ cr'.settled = condition
      BY <1>0, <3>2 DEF CrType
    <3>4. cr.uid = poll[r].uid
      <4>1. cr.uid \in {0, poll[r].uid}
        BY <1>2, <3>1 DEF PollReport
      <4>2. QED
        BY <3>2, <4>1
    <3>5. poll[r].to \in Finished
      BY <3>3 DEF agents_settled_condition
    <3>6. pods[cr.uid] # <<>> /\ pods[cr.uid][1] \in Finished
      BY <3>1, <3>4, <3>5 DEF SeenInPod
    <3>7. pods' = pods
      BY <1>2 DEF PollReport
    <3>8. QED
      BY <3>3, <3>6, <3>7
  <2>3. QED
    BY <2>1, <2>2
<1>3. CASE RequestDelete
  <2>1. cr' = [cr EXCEPT !.deleting = cr.uid # 0]
    BY <1>3 DEF RequestDelete, Deleted
  <2>2. QED
    BY <1>0, <1>1, <2>1 DEF CrType
<1>4. CASE RequestApply
  <2>1. cr' = cr \/ cr'.settled = "unknown"
    BY <1>4 DEF RequestApply, Apply, Created
  <2>2. QED
    BY <1>1, <2>1
<1>5. CASE OperatorRuns
  <2>1. cr' = [cr EXCEPT !.phase = "Running"]
    BY <1>5 DEF OperatorRuns
  <2>2. QED
    BY <1>0, <1>1, <2>1 DEF CrType
<1>6. CASE OperatorSettles
  <2>1. \E phase : cr' = [cr EXCEPT !.phase = phase]
    BY <1>6 DEF OperatorSettles
  <2>2. QED
    BY <1>0, <1>1, <2>1 DEF CrType
<1>7. CASE OperatorFinalizes
  BY <1>7 DEF OperatorFinalizes, NoTask
<1>8. QED
  BY <1>1, <1>2, <1>3, <1>4, <1>5, <1>6, <1>7, Writers DEF OnlyWriters, CrWriters

(***************************************************************************)
(* One agent in a pod (#159): the lease, the entry and the spawn.           *)
(***************************************************************************)
(* While nothing was taken from a task, at most one task may still stream.   *)
LEMMA OneLiveTask ==
    ASSUME K8sTypes, OwnGeneration, StopReaches, OneAttacher, Undisturbed,
           NEW r \in Replicas, NEW t \in tasks[r], t.pc # "release",
           NEW q \in Replicas, NEW s \in tasks[q], s.pc # "release"
    PROVE  r = q /\ t = s
<1>1. r = q
  BY DEF OneAttacher
<1>2. t.gen = s.gen
  BY <1>1 DEF OneAttacher, StopReaches
<1>3. QED
  BY <1>1, <1>2 DEF OwnGeneration

LEMMA AttacherStep ==
    ASSUME K8sTypes, OwnGeneration, StopReaches, OneAttacher, OneAgentPerPod, Next
    PROVE  OneAttacher' /\ OneAgentPerPod'
<1>0. /\ ReplicaType /\ AttachType /\ mishaps \subseteq mishaps'
      /\ pods \in [1..MaxUid -> Seq(Status)] /\ podsUp \subseteq 1..MaxUid
      /\ \A q \in Replicas : PollPath(q)
  BY PollPaths, MishapsGrow DEF K8sTypes, PodsType
<1> SUFFICES ASSUME Undisturbed'
             PROVE  /\ \A q \in Replicas :
                          /\ poll'[q].pc = "reserve" => owner' = q
                          /\ \A s \in tasks'[q] : s.pc # "release" =>
                                /\ owner' = q /\ ~ s.shutdown
                                /\ s.pc = "spawn" => pods'[s.uid] = <<>>
                    /\ \A u \in 1..MaxUid : Len(pods'[u]) <= 1
  BY DEF OneAttacher, OneAgentPerPod, Undisturbed
<1>1. Undisturbed /\ ~ LeaseExpires /\ ~ OrphanExpires /\ \A r \in Replicas : ~ Crash(r)
  BY <1>0 DEF Undisturbed, LeaseExpires, OrphanExpires, Crash, Mishap
<1>2. /\ \A q \in Replicas : poll[q].pc = "reserve" => owner = q
      /\ \A q \in Replicas : \A s \in tasks[q] : s.pc # "release" =>
             owner = q /\ ~ s.shutdown /\ slot[q].gen = s.gen /\ s.gen # 0
      /\ \A q \in Replicas : \A s \in tasks[q] : s.pc = "spawn" => pods[s.uid] = <<>>
      /\ \A u \in 1..MaxUid : Len(pods[u]) <= 1
  <2>1. \A q \in Replicas : \A s \in tasks[q] : s.gen # 0
    BY <1>0, MaxUidAssumption DEF AttachType, TaskState
  <2>2. QED
    BY <1>1, <2>1 DEF OneAttacher, OneAgentPerPod, Undisturbed, StopReaches
<1>3. ASSUME NEW q \in Replicas, owner = q,
             \/ poll[q].pc = "reserve"
             \/ \E s \in tasks[q] : s.pc # "release"
      PROVE  owner' = q
  <2>1. ASSUME NEW r \in Replicas, AttachAcquire(r)
        PROVE  owner' = q
    BY <1>3, <2>1, NobodyIsNoReplica DEF AttachAcquire, Grantable
  <2>2. slot[q].gen # 0 \/ poll[q].pc = "reserve"
    BY <1>2, <1>3
  <2>3. ASSUME NEW r \in Replicas, LateRelease(r), owner' = Released(r)
        PROVE  owner' = q
    <3>1. owner = r => r = q
      BY <1>3
    <3>2. owner # r
      BY <2>2, <2>3, <3>1 DEF LateRelease, Undisturbed
    <3>3. QED
      BY <1>3, <2>3, <3>2 DEF Released
  <2>4. ASSUME NEW r \in Replicas, NEW t \in tasks[r], TaskReleases(r, t)
        PROVE  owner' = q
    BY <2>3, <2>4 DEF TaskReleases
  <2>5. CASE RequestRelease
    <3>1. req.at \in Replicas
      BY <2>5 DEF RequestRelease, K8sTypes, BoundsType
    <3>2. QED
      BY <2>3, <2>5, <3>1 DEF RequestRelease
  <2>6. QED
    BY <1>1, <1>3, <2>1, <2>4, <2>5, Writers DEF OnlyWriters, OwnerWriters
<1>4. ASSUME NEW q \in Replicas, poll'[q].pc = "reserve"
      PROVE  owner' = q
  <2>1. CASE poll'[q] = poll[q]
    BY <1>2, <1>3, <1>4, <2>1
  <2>2. CASE poll'[q] # poll[q]
    <3>1. [poll[q] EXCEPT !.pc = "report"].pc = "report"
      BY <1>0 DEF ReplicaType, PollState
    <3>2. QED
      BY <1>0, <1>4, <2>2, <3>1 DEF PollPath
  <2>3. QED
    BY <2>1, <2>2
<1>5. ASSUME ~ \E r \in Replicas : \E t \in tasks[r] : TaskSpawns(r, t)
      PROVE  \A u \in 1..MaxUid :
                 Len(pods'[u]) = Len(pods[u]) /\ (pods[u] = <<>> => pods'[u] = <<>>)
  <2>1. CASE RequestStop
    <3>1. {t \in tasks[req.at] : t.gen = slot[req.at].gen} = {}
      BY <1>1, <2>1 DEF RequestStop, Undisturbed
    <3>2. pods' = pods
      BY <2>1, <3>1, Zenon DEF RequestStop
    <3>3. QED
      BY <3>2
  <2>2. ASSUME NEW w \in podsUp, NEW i \in LiveIn(w), NEW x,
               pods' = [pods EXCEPT ![w][i] = x], NEW u \in 1..MaxUid
        PROVE  Len(pods'[u]) = Len(pods[u]) /\ (pods[u] = <<>> => pods'[u] = <<>>)
    <3>1. CASE w = u
      <4>1. pods'[u] = [pods[u] EXCEPT ![i] = x] /\ pods[u] \in Seq(Status)
        BY <1>0, <2>2, <3>1
      <4>2. DOMAIN pods'[u] = DOMAIN pods[u] /\ i \in DOMAIN pods[u]
        BY <2>2, <3>1, <4>1 DEF LiveIn
      <4>3. pods[u] # <<>>
        BY <4>2
      <4>4. Len(pods'[u]) = Len(pods[u])
        BY <4>1
      <4>5. QED
        BY <4>3, <4>4
    <3>2. CASE w # u
      BY <1>0, <2>2, <3>2
    <3>3. QED
      BY <3>1, <3>2
  <2>3. CASE AgentTurns \/ AgentFinishes
    <3>1. CASE AgentTurns
      <4>1. \E w \in podsUp : \E i \in LiveIn(w) : \E x : pods' = [pods EXCEPT ![w][i] = x]
        BY <3>1, Zenon DEF AgentTurns
      <4>2. QED
        BY <2>2, <4>1
    <3>2. CASE AgentFinishes
      <4>1. \E w \in podsUp : \E i \in LiveIn(w) : \E x : pods' = [pods EXCEPT ![w][i] = x]
        BY <3>2, Zenon DEF AgentFinishes
      <4>2. QED
        BY <2>2, <4>1
    <3>3. QED
      BY <2>3, <3>1, <3>2
  <2>4. CASE UNCHANGED pods
    BY <2>4
  <2>5. QED
    BY <1>5, <2>1, <2>3, <2>4, Writers DEF OnlyWriters, PodsWriters
<1> DEFINE Holds ==
        /\ \A q \in Replicas : \A s \in tasks'[q] : s.pc # "release" =>
              /\ owner' = q /\ ~ s.shutdown
              /\ s.pc = "spawn" => pods'[s.uid] = <<>>
        /\ \A u \in 1..MaxUid : Len(pods'[u]) <= 1
(* A live task is one that was, or comes from one or from the reservation.   *)
<1>6. ASSUME ~ \E r \in Replicas : \E t \in tasks[r] : TaskSpawns(r, t),
             \A q \in Replicas : \A s \in tasks'[q] : s.pc # "release" =>
                 \/ s \in tasks[q]
                 \/ /\ poll[q].pc = "reserve" \/ \E t \in tasks[q] : t.pc # "release"
                    /\ ~ s.shutdown /\ (s.pc = "spawn" => pods[s.uid] = <<>>)
      PROVE  Holds
  <2>1. \A q \in Replicas : \A s \in tasks'[q] : s.uid \in 1..MaxUid
    BY AttachStep DEF AttachType, TaskState
  <2>2. ASSUME NEW q \in Replicas, NEW s \in tasks'[q], s.pc # "release"
        PROVE  owner' = q /\ ~ s.shutdown /\ (s.pc = "spawn" => pods'[s.uid] = <<>>)
    <3>1. owner = q /\ ~ s.shutdown /\ (s.pc = "spawn" => pods[s.uid] = <<>>)
      BY <1>2, <1>6, <2>2
    <3>2. poll[q].pc = "reserve" \/ \E t \in tasks[q] : t.pc # "release"
      BY <1>6, <2>2
    <3>3. QED
      BY <1>3, <1>5, <1>6, <2>1, <3>1, <3>2
  <2>3. ASSUME NEW u \in 1..MaxUid
        PROVE  Len(pods'[u]) <= 1
    BY <1>2, <1>5, <1>6
  <2>4. QED
    BY <2>2, <2>3
<1>7. ASSUME NEW r \in Replicas, NEW t \in tasks[r], TaskSpawns(r, t)
      PROVE  Holds
  <2>1. t.pc = "spawn" /\ t.uid \in 1..MaxUid /\ pods[t.uid] = <<>>
    BY <1>0, <1>2, <1>7 DEF TaskSpawns, AttachType, TaskState
  <2>2. PICK pc \in {"stream", "release"} :
            tasks' = [tasks EXCEPT ![r] = (tasks[r] \ {t}) \cup {[t EXCEPT !.pc = pc]}]
    BY <1>7 DEF TaskSpawns, TaskEnds, Becomes
  <2>3. LET s == [t EXCEPT !.pc = pc] IN s.pc = pc /\ s.shutdown = t.shutdown
    BY <1>0 DEF AttachType, TaskState
  <2>4. tasks'[r] = (tasks[r] \ {t}) \cup {[t EXCEPT !.pc = pc]}
        /\ \A q \in Replicas : q # r => tasks'[q] = tasks[q]
    BY <1>0, <2>2 DEF AttachType
  <2>5. \A q \in Replicas : \A s \in tasks'[q] : s.pc # "release" =>
            /\ owner = q /\ ~ s.shutdown /\ s.pc # "spawn"
            /\ \E o \in tasks[q] : o.pc # "release"
    <3>1. ASSUME NEW q \in Replicas, NEW s \in tasks'[q], s.pc # "release", s \in tasks[q],
                 s # t \/ q # r
          PROVE  FALSE
      BY <1>1, <2>1, <3>1, OneLiveTask
    <3>2. QED
      BY <1>2, <2>1, <2>3, <2>4, <3>1
  <2>6. pods' = pods \/ pods' = [pods EXCEPT ![t.uid] = Append(@, "running")]
    BY <1>7 DEF TaskSpawns
  <2>7. ASSUME NEW u \in 1..MaxUid
        PROVE  Len(pods'[u]) <= 1
    <3>1. Len(Append(<<>>, "running")) = 1 /\ 1 <= 1
      OBVIOUS
    <3>2. pods'[u] = pods[u] \/ pods'[u] = Append(<<>>, "running")
      BY <1>0, <2>1, <2>6
    <3>3. Len(pods[u]) <= 1
      BY <1>2
    <3>4. QED
      BY <3>1, <3>2, <3>3, Zenon
  <2>8. QED
    BY <1>3, <2>5, <2>7
<1>8. ASSUME NEW r \in Replicas, AttachReserve(r),
             ~ \E q \in Replicas : \E t \in tasks[q] : TaskSpawns(q, t)
      PROVE  Holds
  <2> DEFINE task == [gen |-> NewGeneration(r), pc |-> "resolve", uid |-> poll[r].uid,
                      shutdown |-> FALSE]
  <2>1. poll[r].pc = "reserve" /\ tasks' = [tasks EXCEPT ![r] = tasks[r] \cup {task}]
    BY <1>8 DEF AttachReserve
  <2>2. task.pc = "resolve" /\ ~ task.shutdown
    OBVIOUS
  <2> HIDE DEF task
  <2>3. \A q \in Replicas : \A s \in tasks'[q] : s \in tasks[q] \/ (s = task /\ q = r)
    BY <1>0, <2>1 DEF AttachType
  <2>4. QED
    BY <1>6, <1>8, <2>1, <2>2, <2>3
<1>9. ASSUME NEW r \in Replicas, NEW t \in tasks[r], TaskMoves(r, t),
             ~ \E q \in Replicas : \E s \in tasks[q] : TaskSpawns(q, s),
             t.pc = "resolve" /\ Becomes(r, t, "spawn") => pods[t.uid] = <<>>
      PROVE  Holds
  <2>1. t.pc # "release" /\ ~ t.shutdown /\ owner = r
    BY <1>2, <1>9 DEF TaskMoves
  <2>2. PICK pc : /\ pc = "spawn" => pods[t.uid] = <<>>
                  /\ tasks' = [tasks EXCEPT ![r] = (tasks[r] \ {t}) \cup {[t EXCEPT !.pc = pc]}]
    <3>1. CASE TaskEnds(r, t)
      BY <3>1 DEF TaskEnds, Becomes
    <3>2. ASSUME NEW pc \in {"spawn", "stream"}, t.pc \in {"resolve", "spawn"}, Becomes(r, t, pc)
          PROVE  /\ pc = "spawn" => pods[t.uid] = <<>>
                 /\ tasks' = [tasks EXCEPT ![r] = (tasks[r] \ {t}) \cup {[t EXCEPT !.pc = pc]}]
      BY <1>2, <1>9, <3>2 DEF Becomes
    <3>3. QED
      BY <1>9, <3>1, <3>2 DEF TaskMoves
  <2>3. LET s == [t EXCEPT !.pc = pc]
        IN  s.pc = pc /\ s.shutdown = t.shutdown /\ s.uid = t.uid
    BY <1>0 DEF AttachType, TaskState
  <2>4. \A q \in Replicas : \A s \in tasks'[q] :
            s \in tasks[q] \/ (s = [t EXCEPT !.pc = pc] /\ q = r)
    BY <1>0, <2>2 DEF AttachType
  <2>5. QED
    BY <1>6, <1>9, <2>1, <2>2, <2>3, <2>4
<1>13. ASSUME ~ \E q \in Replicas : \E s \in tasks[q] : TaskSpawns(q, s),
              \A q \in Replicas : \A s \in tasks'[q] : s \in tasks[q] \/ s.pc = "release"
       PROVE  Holds
  BY <1>6, <1>13
<1> HIDE DEF Holds
<1>10. ASSUME AttachedWriters, ~ \E q \in Replicas : \E s \in tasks[q] : TaskSpawns(q, s)
       PROVE  Holds
  <2>1. ASSUME NEW r \in Replicas, NEW t \in tasks[r], TaskResolves(r, t)
        PROVE  Holds
    <3>1. ASSUME Becomes(r, t, "spawn")
          PROVE  pods[t.uid] = <<>>
      <4>1. CASE pods[t.uid] = <<>>
        BY <4>1
      <4>2. ASSUME NEW pc \in {"stream", "release"}, Becomes(r, t, pc)
            PROVE  FALSE
        <5>1. (tasks[r] \ {t}) \cup {[t EXCEPT !.pc = pc]}
              = (tasks[r] \ {t}) \cup {[t EXCEPT !.pc = "spawn"]}
          BY <1>0, <3>1, <4>2 DEF Becomes, AttachType
        <5>2. /\ [t EXCEPT !.pc = pc].pc = pc /\ [t EXCEPT !.pc = "spawn"].pc = "spawn"
              /\ [t EXCEPT !.pc = "spawn"].gen = t.gen
          BY <1>0 DEF AttachType, TaskState
        <5>3. [t EXCEPT !.pc = "spawn"] \in tasks[r] \ {t}
          BY <5>1, <5>2
        <5>4. QED
          BY <5>2, <5>3 DEF OwnGeneration
      <4>3. QED
        BY <2>1, <4>1, <4>2, Zenon DEF TaskResolves, TaskEnds
    <3>2. QED
      BY <1>9, <1>10, <2>1, <3>1, TaskStepMoves
  <2>2. ASSUME NEW r \in Replicas, NEW t \in tasks[r],
               TaskResolvesTerminal(r, t) \/ TaskDialFails(r, t) \/ TaskStreamEnds(r, t)
        PROVE  Holds
    <3>1. TaskEnds(r, t) /\ t.pc # "release"
      BY <2>2 DEF TaskResolvesTerminal, TaskDialFails, TaskStreamEnds
    <3>2. tasks' = [tasks EXCEPT ![r] = (tasks[r] \ {t}) \cup {[t EXCEPT !.pc = "release"]}]
      BY <3>1 DEF TaskEnds, Becomes
    <3>3. [t EXCEPT !.pc = "release"].pc = "release"
      BY <1>0 DEF AttachType, TaskState
    <3>4. \A q \in Replicas : \A s \in tasks'[q] : s \in tasks[q] \/ s.pc = "release"
      BY <1>0, <3>2, <3>3 DEF AttachType
    <3>5. QED
      BY <1>13, <1>10, <3>4
  <2>3. ASSUME NEW r \in Replicas, NEW t \in tasks[r], TaskReleases(r, t)
        PROVE  Holds
    <3>1. tasks' = [tasks EXCEPT ![r] = tasks[r] \ {t}]
      BY <2>3 DEF TaskReleases
    <3>2. \A q \in Replicas : \A s \in tasks'[q] : s \in tasks[q]
      BY <1>0, <3>1 DEF AttachType
    <3>3. QED
      BY <1>13, <1>10, <3>2
  <2>4. ASSUME NEW r \in Replicas, AttachRegister(r)
        PROVE  Holds
    <3>1. tasks' = tasks
      BY <2>4 DEF AttachRegister
    <3>2. QED
      BY <1>13, <1>10, <3>1
  <2>5. ASSUME RequestStop
        PROVE  Holds
    <3> DEFINE r == req.at
               mine == {t \in tasks[r] : t.gen = slot[r].gen}
    <3>1. mine = {}
      BY <1>1, <2>5 DEF RequestStop, Undisturbed
    <3>2. tasks' = [tasks EXCEPT ![r] = (tasks[r] \ mine) \cup
                       IF slot[r].abort THEN {} ELSE {[t EXCEPT !.shutdown = TRUE] : t \in mine}]
      BY <2>5, Zenon DEF RequestStop
    <3>3. {[t EXCEPT !.shutdown = TRUE] : t \in mine} = {}
      BY <3>1
    <3> HIDE DEF mine, r
    <3>4. \A q \in Replicas : \A s \in tasks'[q] : s \in tasks[q]
      BY <1>0, <3>2, <3>3 DEF AttachType
    <3>5. QED
      BY <1>13, <1>10, <3>4
  <2>6. QED
    BY <1>1, <1>8, <1>10, <2>1, <2>2, <2>3, <2>4, <2>5 DEF AttachedWriters
<1>11. ASSUME UNCHANGED <<slot, tasks>>,
              ~ \E q \in Replicas : \E s \in tasks[q] : TaskSpawns(q, s)
       PROVE  Holds
  BY <1>11, <1>13
<1>12. QED
  <2>1. Holds
    BY <1>7, <1>10, <1>11, Writers DEF OnlyWriters
  <2>2. QED
    BY <1>4, <2>1 DEF Holds

(***************************************************************************)
(* The invariant and the theorems.                                          *)
(***************************************************************************)
LEMMA InitK8sInv == Init => K8sInv
<1> SUFFICES ASSUME Init
             PROVE  K8sInv
  OBVIOUS
<1>1. K8sTypes
  BY InitTypes
<1>2. \A r \in Replicas : poll[r] = IdlePoll /\ tasks[r] = {}
  BY DEF Init
<1>3. cr.settled = "unknown"
  BY DEF Init, Created
<1>4. (\A u \in 1..MaxUid : pods[u] = <<>> /\ outcomes[u] = 0)
  BY DEF Init
<1>5. OwnGeneration /\ StopReaches /\ OneReporter /\ SeenInPod /\ OneAttacher
  BY <1>2, IdlePollType DEF OwnGeneration, StopReaches, OneReporter, SeenInPod, OneAttacher
<1>6. OneOutcome /\ SettledHonest /\ OneAgentPerPod
  BY <1>3, <1>4 DEF OneOutcome, SettledHonest, OneAgentPerPod
<1>7. QED
  BY <1>1, <1>5, <1>6 DEF K8sInv

LEMMA K8sInvStep == K8sInv /\ [Next]_k8sVars => K8sInv'
<1> SUFFICES ASSUME K8sInv, [Next]_k8sVars
             PROVE  K8sInv'
  OBVIOUS
<1>1. CASE UNCHANGED k8sVars
  <2>1. UNCHANGED <<cr, pods, podsUp, uids, outcomes, owner, observer, known, terminal,
                    recorded, lastUid, slot, tasks, poll, req, budget, mishaps>>
    BY <1>1 DEF k8sVars
  <2>2. CrType' /\ PodsType' /\ LedgerType' /\ BoundsType'
    BY <2>1 DEF K8sInv, K8sTypes, CrType, PodsType, LedgerType, BoundsType
  <2>3. ReplicaType' /\ AttachType'
    BY <2>1 DEF K8sInv, K8sTypes, ReplicaType, AttachType
  <2>4. OwnGeneration' /\ StopReaches' /\ OneReporter' /\ OneOutcome'
    BY <2>1 DEF K8sInv, OwnGeneration, StopReaches, OneReporter, OneOutcome
  <2>5. SeenInPod' /\ SettledHonest'
    BY <2>1 DEF K8sInv, SeenInPod, SettledHonest
  <2>6. OneAttacher' /\ OneAgentPerPod'
    BY <2>1 DEF K8sInv, OneAttacher, Undisturbed, OneAgentPerPod
  <2>7. QED
    BY <2>2, <2>3, <2>4, <2>5, <2>6 DEF K8sInv, K8sTypes
<1>2. CASE Next
  BY <1>2, TypesStep, AttachStep, ReporterStep, SeenStep, SettledStep, AttacherStep DEF K8sInv
<1>3. QED
  BY <1>1, <1>2

LEMMA K8sInvAlways == Spec => []K8sInv
  BY InitK8sInv, K8sInvStep, PTL DEF Spec

(* #112: whatever is started, stopped, restarted, killed or late, the task    *)
(* that may still stream is the one a stop finds.                            *)
THEOREM StopReachesHolds == Spec => []StopReaches
<1>1. K8sInv => StopReaches
  BY DEF K8sInv
<1>2. QED
  BY <1>1, K8sInvAlways, PTL

(* #159: with any number of replicas and attach tasks, a pod has one agent,   *)
(* as long as no lease is taken from a task and no attach is stopped.         *)
THEOREM OneAgentPerPodHolds == Spec => []OneAgentPerPod
<1>1. K8sInv => OneAgentPerPod
  BY DEF K8sInv
<1>2. QED
  BY <1>1, K8sInvAlways, PTL

(* #196, #228: an outcome is written once and what a task's status says of    *)
(* its agents is what became of them; with the types.                         *)
THEOREM OutcomeSoundHolds == Spec => []OutcomeSound
<1>1. ASSUME K8sTypes
      PROVE  K8sTypeOK
  <2>1. /\ cr \in [uid : 0..MaxUid, phase : {"", "Pending", "Running", "Completed", "Failed"},
                   deleting : BOOLEAN,
                   settled : {"unknown", "active", "succeeded", "failed"}]
        /\ uids \in 1..MaxUid
    BY <1>1 DEF K8sTypes, CrType, Phase, Condition
  <2>2. /\ \A u \in 1..MaxUid : \A i \in DOMAIN pods[u] : pods[u][i] \in Status
        /\ podsUp \subseteq 1..MaxUid
    BY <1>1 DEF K8sTypes, PodsType
  <2>3. \A r \in Replicas : slot[r] \in [gen : 0..MaxTasks, abort : BOOLEAN]
                           /\ tasks[r] \subseteq TaskState
    BY <1>1 DEF K8sTypes, AttachType
  <2>4. QED
    BY <1>1, <2>1, <2>2, <2>3 DEF K8sTypes, LedgerType, ReplicaType, TaskState, K8sTypeOK
<1>2. K8sInv => OutcomeSound
  BY <1>1 DEF K8sInv, OutcomeSound
<1>3. QED
  BY <1>2, K8sInvAlways, PTL

=============================================================================
