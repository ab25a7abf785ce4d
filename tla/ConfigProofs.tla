---------------------------- MODULE ConfigProofs ----------------------------
(***************************************************************************)
(* The two tenants of the config store, for every number of replicas and    *)
(* calls. Automations: a scheduled tick fires once, and a claim is never    *)
(* undone. Registry: what a call on a workspace was answered stands, and a  *)
(* caliband runs with its workspace's environment, but for the gaps of      *)
(* `odd`.                                                                   *)
(***************************************************************************)
EXTENDS Automations, Registry, FiniteSetTheorems, TLAPS

(***************************************************************************)
(* Automations.                                                             *)
(***************************************************************************)
TaskType == [pc : {"idle", "claim", "spawn", "record", "trim", "upsert", "delete", "done"},
             at : Nat, copy : Rows \cup {NoRow}]

(* The part of the types the argument needs: a tick loop holds a tick of the *)
(* schedule, a request about to write has a row to write.                    *)
Types ==
    /\ now \in Nat
    /\ row \in Rows \cup {NoRow}
    /\ task \in [Tasks -> TaskType]
    /\ fires \in [Schedule -> 0..2]
    /\ deleted \in BOOLEAN
    /\ \A c \in Tickers : task[c].pc \in {"claim", "spawn"} => task[c].at \in Schedule
    /\ \A c \in Tasks : task[c].pc = "upsert" => task[c].copy \in Rows

(* A tick loop that has won a tick and not yet spawned. *)
Holds(c, t) == task[c].pc = "spawn" /\ task[c].at = t

(* Of the replicas that saw a tick, one holds it or has spawned for it, and  *)
(* the row's last_fired_at has passed it.                                    *)
OneWinner ==
    ~ deleted =>
        /\ \A t \in Schedule :
              fires[t] # 0 => fires[t] = 1 /\ row \in Rows /\ t <= row.last
        /\ \A c \in Tickers, t \in Schedule :
              Holds(c, t) => fires[t] = 0 /\ row \in Rows /\ t <= row.last
        /\ \A c, d \in Tickers, t \in Schedule : Holds(c, t) /\ Holds(d, t) => c = d

IInv == Types /\ OneWinner

(* NoRow is not a row. *)
LEMMA NoRowIsNoRow == NoRow \notin Rows
  BY DEF NoRow, Rows

(* What ending a task does to the task table. *)
LEMMA EndTask ==
  ASSUME Types, NEW c \in Tasks, End(c)
  PROVE  /\ task' \in [Tasks -> TaskType]
         /\ \A d \in Tasks \ {c} : task'[d] = task[d]
         /\ task'[c].pc \in {"idle", "done"}
  BY DEF Types, End, Rest, Finished, TaskType

(* The initial states satisfy the invariant. *)
LEMMA InitIInv == Init => IInv
<1> SUFFICES ASSUME Init PROVE IInv
  OBVIOUS
<1>1. task \in [Tasks -> TaskType] /\ \A c \in Tasks : task[c].pc \in {"idle", "done"}
  BY DEF Init, Tasks, Rest, Finished, TaskType
<1>2. fires = [t \in Schedule |-> 0] /\ fires \in [Schedule -> 0..2]
  BY DEF Init
<1>3. row \in Rows \cup {NoRow}
  BY InitialRowsAssumption DEF Init
<1>4. Types
  BY <1>1, <1>2, <1>3 DEF Init, Types, Tasks
<1>5. OneWinner
  BY <1>1, <1>2 DEF OneWinner, Holds, Tasks
<1> QED BY <1>4, <1>5 DEF IInv

(* A step that leaves the row, the fires and `deleted` alone, moves one task  *)
(* and gives it nothing to spawn keeps the invariant.                         *)
LEMMA QuietStep ==
  ASSUME IInv, NEW c \in Tasks,
         UNCHANGED <<row, fires, deleted>>, now' \in Nat,
         task' \in [Tasks -> TaskType],
         \A d \in Tasks \ {c} : task'[d] = task[d],
         task'[c].pc = "spawn" => c \notin Tickers,
         c \in Tickers /\ task'[c].pc = "claim" => task'[c].at \in Schedule,
         task'[c].pc = "upsert" => task'[c].copy \in Rows
  PROVE  IInv'
<1>1. Types'
  BY DEF IInv, Types, Tasks
<1>2. OneWinner'
  <2>1. \A d \in Tickers, t \in Schedule : Holds(d, t)' => Holds(d, t)
    BY DEF Holds, Tasks
  <2> QED BY <2>1 DEF IInv, OneWinner
<1> QED BY <1>1, <1>2 DEF IInv

(* Claiming a tick: last_fired_at was below it, so nobody holds it or has     *)
(* fired for it.                                                              *)
LEMMA ClaimStep ==
  ASSUME IInv, NEW c \in Tickers, Claim(c)
  PROVE  IInv'
<1> DEFINE k == task[c].at
<1>1. /\ row \in Rows /\ row.last < k /\ k \in Schedule /\ k \in Nat
      /\ c \in Tasks /\ row.last \in Nat
  BY ScheduleAssumption DEF Claim, Claimable, IInv, Types, Tasks, Rows
<1>2. row' \in Rows /\ row'.last = k
  BY <1>1 DEF Claim, Rows
<1>3. /\ task' \in [Tasks -> TaskType] /\ task'[c].pc = "spawn" /\ task'[c].at = k
      /\ \A d \in Tasks \ {c} : task'[d] = task[d]
  BY <1>1 DEF Claim, IInv, Types, TaskType
<1>4. now' = now /\ fires' = fires /\ deleted' = deleted
  BY DEF Claim
<1>5. Types'
  BY <1>1, <1>2, <1>3, <1>4 DEF IInv, Types, Tasks
<1>6. OneWinner'
  <2> SUFFICES ASSUME ~ deleted PROVE OneWinner'
    BY <1>4 DEF OneWinner
  <2>1. \A t \in Schedule : fires[t] # 0 => fires[t] = 1 /\ t <= row.last /\ t \in Nat
    BY ScheduleAssumption DEF IInv, OneWinner
  <2>2. \A d \in Tickers, t \in Schedule :
            Holds(d, t) => fires[t] = 0 /\ t <= row.last /\ t \in Nat
    BY ScheduleAssumption DEF IInv, OneWinner
  <2>3. fires[k] = 0 /\ \A d \in Tickers : ~ Holds(d, k)
    BY <1>1, <2>1, <2>2 DEF IInv, Types
  <2>4. \A d \in Tickers, t \in Schedule : Holds(d, t)' => IF d = c THEN t = k ELSE Holds(d, t)
    BY <1>3 DEF Holds, Tasks
  <2>5. \A t \in Schedule : (t <= row.last /\ t \in Nat) => t <= row'.last
    BY <1>1, <1>2
  <2>6. \A t \in Schedule : fires'[t] # 0 => fires'[t] = 1 /\ row' \in Rows /\ t <= row'.last
    BY <1>2, <1>4, <2>1, <2>5
  <2>7. \A d \in Tickers, t \in Schedule :
            Holds(d, t)' => fires'[t] = 0 /\ row' \in Rows /\ t <= row'.last
    BY <1>1, <1>2, <1>4, <2>2, <2>3, <2>4, <2>5
  <2>8. \A d, e \in Tickers, t \in Schedule : Holds(d, t)' /\ Holds(e, t)' => d = e
    BY <2>3, <2>4 DEF IInv, OneWinner
  <2> QED BY <2>6, <2>7, <2>8 DEF OneWinner
<1> QED BY <1>5, <1>6 DEF IInv

(* A claim whose answer was lost: last_fired_at may move on, nobody holds     *)
(* the tick.                                                                  *)
LEMMA ClaimFailsStep ==
  ASSUME IInv, NEW c \in Tickers, ClaimFails(c)
  PROVE  IInv'
<1>1. /\ task' \in [Tasks -> TaskType] /\ task'[c].pc \in {"idle", "done"} /\ c \in Tasks
      /\ \A d \in Tasks \ {c} : task'[d] = task[d]
  BY EndTask DEF ClaimFails, IInv, Tasks
<1>2. task[c].at \in Nat
  BY DEF IInv, Types, TaskType, Tasks
<1>3. now' = now /\ fires' = fires /\ deleted' = deleted
  BY DEF ClaimFails
<1>4. \/ row' = row
      \/ row \in Rows /\ row' \in Rows /\ row.last <= row'.last
           /\ row.last \in Nat /\ row'.last \in Nat
  BY <1>2 DEF ClaimFails, Claimable, Rows
<1>5. Types'
  BY <1>1, <1>3, <1>4 DEF IInv, Types, Tasks
<1>6. \A d \in Tickers, t \in Schedule : Holds(d, t)' => Holds(d, t)
  BY <1>1 DEF Holds, Tasks
<1>7. \A t \in Schedule : (row \in Rows /\ t <= row.last) => (row' \in Rows /\ t <= row'.last)
  BY <1>4, ScheduleAssumption
<1>8. OneWinner'
  BY <1>3, <1>6, <1>7 DEF IInv, OneWinner
<1> QED BY <1>5, <1>8 DEF IInv

(* Spawning: a tick loop was the only one to hold its tick. *)
LEMMA SpawnStep ==
  ASSUME IInv, NEW c \in Tasks, Spawn(c)
  PROVE  IInv'
<1>1. /\ task' \in [Tasks -> TaskType] /\ task'[c].pc = "record"
      /\ \A d \in Tasks \ {c} : task'[d] = task[d]
  BY DEF Spawn, IInv, Types, TaskType
<1>2. now' = now /\ row' = row /\ deleted' = deleted
  BY DEF Spawn
<1>3. CASE c \notin Tickers
  <2>1. fires' = fires
    BY <1>3 DEF Spawn
  <2> QED BY <1>1, <1>2, <2>1, QuietStep DEF IInv, Types
<1>4. CASE c \in Tickers
  <2> DEFINE k == task[c].at
  <2>1. k \in Schedule /\ Holds(c, k)
    BY <1>4 DEF Spawn, IInv, Types, Holds
  <2>2. fires' = [fires EXCEPT ![k] = IF @ < 2 THEN @ + 1 ELSE @]
    BY <1>4 DEF Spawn
  <2>3. fires' \in [Schedule -> 0..2]
    BY <2>1, <2>2 DEF IInv, Types
  <2>4. Types'
    BY <1>1, <1>2, <2>3 DEF IInv, Types, Tasks
  <2>5. OneWinner'
    <3> SUFFICES ASSUME ~ deleted PROVE OneWinner'
      BY <1>2 DEF OneWinner
    <3>1. fires[k] = 0 /\ row \in Rows /\ k <= row.last
      BY <2>1, <1>4 DEF IInv, OneWinner
    <3>2. fires'[k] = 1 /\ \A t \in Schedule \ {k} : fires'[t] = fires[t]
      BY <2>1, <2>2, <3>1 DEF IInv, Types
    <3>3. \A d \in Tickers, t \in Schedule : Holds(d, t)' => d # c /\ Holds(d, t)
      BY <1>1 DEF Holds, Tasks
    <3>4. \A d \in Tickers, t \in Schedule : Holds(d, t)' => t # k
      BY <2>1, <3>3, <1>4 DEF IInv, OneWinner
    <3> QED BY <1>2, <3>1, <3>2, <3>3, <3>4 DEF IInv, OneWinner
  <2> QED BY <2>4, <2>5 DEF IInv
<1> QED BY <1>3, <1>4

(* Writing a row keeps last_fired_at; a row that is new has no fires behind  *)
(* it unless one was deleted.                                                *)
LEMMA UpsertStep ==
  ASSUME IInv, NEW c \in Requests, RequestUpserts(c)
  PROVE  IInv'
<1>1. /\ task' \in [Tasks -> TaskType] /\ task'[c].pc \in {"idle", "done"} /\ c \in Tasks
      /\ \A d \in Tasks \ {c} : task'[d] = task[d]
  BY EndTask DEF RequestUpserts, IInv, Tasks
<1>2. now' = now /\ fires' = fires /\ deleted' = deleted
  BY DEF RequestUpserts
<1>3. task[c].copy \in Rows
  BY DEF RequestUpserts, IInv, Types, Tasks
<1>4. row' \in Rows /\ (row \in Rows => row'.last = row.last)
  BY <1>3 DEF RequestUpserts, Upsert, Rows
<1>5. Types'
  BY <1>1, <1>2, <1>4 DEF IInv, Types, Tasks
<1>6. \A d \in Tickers, t \in Schedule : Holds(d, t)' => Holds(d, t)
  BY <1>1 DEF Holds, Tasks
<1>7. OneWinner'
  BY <1>2, <1>4, <1>6 DEF IInv, OneWinner
<1> QED BY <1>5, <1>7 DEF IInv

(* Deleting the row: what was claimed is forgotten, and `deleted` says so. *)
LEMMA DeleteStep ==
  ASSUME IInv, NEW c \in Requests, DeleteRow(c)
  PROVE  IInv'
<1>1. /\ task' \in [Tasks -> TaskType] /\ task'[c].pc \in {"idle", "done"} /\ c \in Tasks
      /\ \A d \in Tasks \ {c} : task'[d] = task[d]
  BY EndTask DEF DeleteRow, IInv, Tasks
<1>2. now' = now /\ fires' = fires /\ deleted' = TRUE /\ row' = NoRow
  BY DEF DeleteRow
<1>3. Types'
  BY <1>1, <1>2 DEF IInv, Types, Tasks
<1>4. OneWinner'
  BY <1>2 DEF OneWinner
<1> QED BY <1>3, <1>4 DEF IInv

(* Ending a task, when nothing else of the argument changes. *)
LEMMA EndStep ==
  ASSUME IInv, NEW c \in Tasks, End(c), UNCHANGED <<now, row, fires, deleted>>
  PROVE  IInv'
<1>1. /\ task' \in [Tasks -> TaskType] /\ task'[c].pc \in {"idle", "done"}
      /\ \A d \in Tasks \ {c} : task'[d] = task[d]
  BY EndTask DEF IInv
<1>2. now' \in Nat
  BY DEF IInv, Types
<1> QED BY <1>1, <1>2, QuietStep

(* The steps after the spawn, and a spawn that fails. *)
LEMMA FireSteps ==
  ASSUME IInv, NEW c \in Tasks, FireStep(c)
  PROVE  IInv'
<1> now \in Nat /\ task \in [Tasks -> TaskType]
  BY DEF IInv, Types
<1>1. CASE Spawn(c)
  BY <1>1, SpawnStep
<1>2. CASE SpawnFails(c)
  <2>1. /\ task' \in [Tasks -> TaskType] /\ task'[c].pc = "record"
        /\ \A d \in Tasks \ {c} : task'[d] = task[d]
    BY <1>2 DEF SpawnFails, TaskType
  <2>2. UNCHANGED <<row, fires, deleted>> /\ now' \in Nat
    BY <1>2 DEF SpawnFails
  <2> QED BY <2>1, <2>2, QuietStep
<1>3. CASE RecordRun(c)
  <2>1. /\ task' \in [Tasks -> TaskType] /\ task'[c].pc = "trim"
        /\ \A d \in Tasks \ {c} : task'[d] = task[d]
    BY <1>3 DEF RecordRun, TaskType
  <2>2. UNCHANGED <<row, fires, deleted>> /\ now' \in Nat
    BY <1>3 DEF RecordRun
  <2> QED BY <2>1, <2>2, QuietStep
<1>4. CASE RecordRunFails(c)
  BY <1>4, EndStep DEF RecordRunFails
<1>5. CASE TrimRuns(c)
  BY <1>5, EndStep DEF TrimRuns
<1> QED BY <1>1, <1>2, <1>3, <1>4, <1>5 DEF FireStep

(* Noticing a due tick gives a replica a tick of the schedule to claim. *)
LEMMA TickSteps ==
  ASSUME IInv, NEW c \in Tickers, TickStep(c)
  PROVE  IInv'
<1> c \in Tasks /\ now \in Nat /\ task \in [Tasks -> TaskType]
  BY DEF IInv, Types, Tasks
<1>1. CASE TickLists(c)
  <2>1. PICK t \in Schedule :
            task' = [task EXCEPT ![c] = [pc |-> "claim", at |-> t, copy |-> NoRow]]
    BY <1>1 DEF TickLists, Elapsed
  <2>2. /\ task' \in [Tasks -> TaskType] /\ task'[c].pc = "claim" /\ task'[c].at \in Schedule
        /\ \A d \in Tasks \ {c} : task'[d] = task[d]
    BY <2>1, ScheduleAssumption DEF TaskType
  <2>3. UNCHANGED <<row, fires, deleted>> /\ now' \in Nat
    BY <1>1 DEF TickLists
  <2> QED BY <2>2, <2>3, QuietStep
<1>2. CASE Claim(c)
  BY <1>2, ClaimStep
<1>3. CASE ClaimLost(c)
  BY <1>3, EndStep DEF ClaimLost
<1>4. CASE ClaimFails(c)
  BY <1>4, ClaimFailsStep
<1>5. CASE FireStep(c)
  BY <1>5, FireSteps
<1> QED BY <1>1, <1>2, <1>3, <1>4, <1>5 DEF TickStep

(* Requests: what one of them puts in the task table. *)
LEMMA RequestSteps ==
  ASSUME IInv, NEW q \in Requests, RequestStep(q)
  PROVE  IInv'
<1> DEFINE Put(e) == task' = [task EXCEPT ![q] = e]
<1> /\ q \in Tasks /\ q \notin Tickers /\ now \in Nat /\ task \in [Tasks -> TaskType]
    /\ row \in Rows \cup {NoRow}
  BY DistinctAssumption DEF IInv, Types, Tasks
<1>1. ASSUME NEW e \in TaskType, Put(e), UNCHANGED <<now, row, fires, deleted>>,
             e.pc = "upsert" => e.copy \in Rows
      PROVE  IInv'
  <2>1. /\ task' \in [Tasks -> TaskType] /\ task'[q] = e
        /\ \A d \in Tasks \ {q} : task'[d] = task[d]
    BY <1>1
  <2> QED BY <1>1, <2>1, QuietStep
<1>2. CASE SetEnabledReads(q)
  <2>1. CASE row \in Rows
    <3> DEFINE r == [row EXCEPT !.enabled = (Does[q] = "enable")]
               e == [pc |-> "upsert", at |-> 0, copy |-> r]
    <3>1. r \in Rows
      BY <2>1 DEF Rows
    <3>2. e \in TaskType /\ e.copy \in Rows
      BY <3>1 DEF TaskType
    <3>3. Put(e) /\ UNCHANGED <<now, row, fires, deleted>>
      BY <1>2, <2>1 DEF SetEnabledReads
    <3> HIDE DEF e
    <3> QED BY <3>2, <3>3, <1>1
  <2>2. CASE row \notin Rows
    BY <1>2, <2>2, EndStep DEF SetEnabledReads
  <2> QED BY <2>1, <2>2
<1>3. CASE CreateChecks(q)
  <2>1. CASE row = NoRow
    <3>1. PICK r \in [kind : {"cron", "webhook"}, enabled : BOOLEAN,
                      created : {now}, last : {0}] :
              Put([pc |-> "upsert", at |-> 0, copy |-> r])
      BY <1>3, <2>1 DEF CreateChecks
    <3>2. r \in Rows
      BY DEF Rows
    <3> DEFINE e == [pc |-> "upsert", at |-> 0, copy |-> r]
    <3>3. e \in TaskType /\ e.copy \in Rows
      BY <3>2 DEF TaskType
    <3>4. Put(e) /\ UNCHANGED <<now, row, fires, deleted>>
      BY <1>3, <3>1 DEF CreateChecks
    <3> HIDE DEF e
    <3> QED BY <3>3, <3>4, <1>1
  <2>2. CASE row # NoRow
    BY <1>3, <2>2, EndStep DEF CreateChecks
  <2> QED BY <2>1, <2>2
<1>4. CASE RequestUpserts(q)
  BY <1>4, UpsertStep
<1>5. CASE DeleteRuns(q)
  <2>1. /\ task' \in [Tasks -> TaskType] /\ task'[q].pc = "delete"
        /\ \A d \in Tasks \ {q} : task'[d] = task[d]
    BY <1>5 DEF DeleteRuns, TaskType
  <2>2. UNCHANGED <<row, fires, deleted>> /\ now' \in Nat
    BY <1>5 DEF DeleteRuns
  <2> QED BY <2>1, <2>2, QuietStep
<1>6. CASE DeleteRow(q)
  BY <1>6, DeleteStep
<1>7. CASE FireNow(q) \/ TriggerWebhook(q)
  <2> DEFINE e == [pc |-> "spawn", at |-> now, copy |-> NoRow]
  <2>1. e \in TaskType /\ e.pc # "upsert"
    BY DEF TaskType
  <2>2. UNCHANGED <<now, row, fires, deleted>> /\ (Put(e) \/ End(q))
    BY <1>7 DEF FireNow, TriggerWebhook
  <2> HIDE DEF e
  <2> QED BY <2>1, <2>2, <1>1, EndStep
<1>8. CASE FireStep(q)
  BY <1>8, FireSteps
<1> QED BY <1>2, <1>3, <1>4, <1>5, <1>6, <1>7, <1>8 DEF RequestStep

(* Every step keeps the invariant. *)
LEMMA NextIInv == IInv /\ [Next]_autoVars => IInv'
<1> SUFFICES ASSUME IInv, [Next]_autoVars PROVE IInv'
  OBVIOUS
<1>1. CASE Advance
  <2>1. UNCHANGED <<row, fires, deleted, task>> /\ now' \in Nat
    BY <1>1 DEF Advance, IInv, Types
  <2> QED BY <2>1 DEF IInv, Types, OneWinner, Holds
<1>2. ASSUME NEW c \in Tickers, TickStep(c) PROVE IInv'
  BY <1>2, TickSteps
<1>3. ASSUME NEW q \in Requests, RequestStep(q) PROVE IInv'
  BY <1>3, RequestSteps
<1>4. ASSUME NEW c \in Tasks, Crash(c) PROVE IInv'
  BY <1>4, EndStep DEF Crash
<1>5. CASE UNCHANGED autoVars
  BY <1>5 DEF autoVars, IInv, Types, OneWinner, Holds
<1> QED BY <1>1, <1>2, <1>3, <1>4, <1>5 DEF Next

(* The invariant holds throughout. *)
LEMMA IInvHolds == Spec => []IInv
  BY InitIInv, NextIInv, PTL DEF Spec

(* A scheduled tick spawns at most one agent, for every number of replicas   *)
(* and requests: claim_automation_fire is a test-and-set on last_fired_at    *)
(* that every other statement on the row respects.                           *)
THEOREM TickOnceHolds == Spec => []TickOnce
<1>1. IInv => TickOnce
  BY DEF IInv, OneWinner, TickOnce
<1> QED BY <1>1, IInvHolds, PTL

(* No statement of any request or replica moves last_fired_at back while the *)
(* row exists: upsert_automation leaves it alone and a claim only raises it. *)
THEOREM ClaimStandsHolds == Spec => ClaimStands
<1> DEFINE Kept == (row \in Rows /\ row' \in Rows) => row'.last >= row.last
<1>1. IInv /\ [Next]_autoVars => [Kept]_autoVars
  <2> SUFFICES ASSUME IInv, Next, row \in Rows, row' \in Rows PROVE row'.last >= row.last
    OBVIOUS
  <2>1. row.last \in Nat
    BY DEF Rows
  <2>2. CASE row' = row
    BY <2>1, <2>2
  <2>3. ASSUME NEW c \in Tickers, Claim(c) \/ ClaimFails(c) PROVE row'.last >= row.last
    <3>1. task[c].at \in Nat
      BY DEF IInv, Types, TaskType, Tasks
    <3> QED BY <2>1, <2>3, <3>1 DEF Claim, ClaimFails, Claimable, Rows
  <2>4. ASSUME NEW q \in Requests, RequestUpserts(q) PROVE row'.last >= row.last
    <3>1. task[q].copy \in Rows
      BY <2>4 DEF RequestUpserts, IInv, Types, Tasks
    <3> QED BY <2>1, <2>4, <3>1 DEF RequestUpserts, Upsert, Rows
  <2>5. ASSUME NEW q \in Requests, DeleteRow(q) PROVE row'.last >= row.last
    BY <2>5, NoRowIsNoRow DEF DeleteRow
  <2>6. \/ row' = row
        \/ \E c \in Tickers : Claim(c) \/ ClaimFails(c)
        \/ \E q \in Requests : RequestUpserts(q) \/ DeleteRow(q)
    BY DEF Next, Advance, TickStep, RequestStep, FireStep, Crash, TickLists, ClaimLost,
           Spawn, SpawnFails, RecordRun, RecordRunFails, TrimRuns, SetEnabledReads,
           CreateChecks, DeleteRuns, FireNow, TriggerWebhook
  <2> QED BY <2>2, <2>3, <2>4, <2>5, <2>6
<1> QED BY <1>1, IInvHolds, PTL DEF Spec, ClaimStands

----------------------------------------------------------------------------
(***************************************************************************)
(* The tables stay well formed and the history bounded.                     *)
(***************************************************************************)
(* Where a task is on its way to fire, or to record that it has. *)
Firing == {"claim", "spawn", "record", "trim"}

(* A fire is never of a time to come. *)
Timely == \A c \in Tasks : task[c].pc \in Firing => task[c].at <= now

Trimming == {c \in Tasks : task[c].pc = "trim"}

(* The history can be counted, and so can the trims still to come, however   *)
(* many requests there are: each step adds one at most.                      *)
HistoryInv == IsFiniteSet(runs) /\ IsFiniteSet(Trimming) /\ HistoryBounded

SoundInv == AutomationTypeOK /\ Timely /\ HistoryInv

(* What a step may put in the place of one task. *)
Entry(c, e) ==
    /\ e \in TaskType
    /\ e.pc \in Firing => e.at <= now
    /\ c \in Tickers /\ e.pc \in Firing => e.at \in Schedule

(* One task moves. *)
Moves(c) ==
    /\ \A d \in Tasks \ {c} : task'[d] = task[d]
    /\ task' \in [Tasks -> TaskType]
    /\ Entry(c, task'[c])

(* Ending a task, and going on with the fire in hand, are such moves. *)
LEMMA EndMoves ==
  ASSUME AutomationTypeOK, NEW c \in Tasks, End(c)
  PROVE  Moves(c) /\ task'[c].pc \in {"idle", "done"}
  BY DEF AutomationTypeOK, End, Rest, Finished, TaskType, Moves, Entry, Firing

LEMMA PutMoves ==
  ASSUME AutomationTypeOK, NEW c \in Tasks, NEW e, Entry(c, e), task' = [task EXCEPT ![c] = e]
  PROVE  Moves(c) /\ task'[c] = e
  BY DEF AutomationTypeOK, TaskType, Moves, Entry

LEMMA GoesOnMoves ==
  ASSUME AutomationTypeOK, Timely, NEW c \in Tasks, NEW p \in {"spawn", "record", "trim"},
         task[c].pc \in Firing, task' = [task EXCEPT ![c].pc = p]
  PROVE  Moves(c) /\ task'[c].pc = p /\ task'[c].at = task[c].at
  BY DEF AutomationTypeOK, Timely, TaskType, Moves, Entry, Firing

(* The steps that move a task, as far as the history is concerned. *)
Inserts(c) == RecordRun(c) /\ task[c].pc = "record" /\ task'[c].pc = "trim"

Trims(c) == TrimRuns(c) /\ task'[c].pc # "trim"

Fails(c) == runs' = runs /\ faults' = faults + 1 /\ faults < MaxFaults /\ task'[c].pc # "trim"

Spares(c) ==
    /\ runs' \in {runs, {}} /\ faults' \in {faults, faults + 1} /\ faults' <= MaxFaults
    /\ task[c].pc # "trim" /\ task'[c].pc # "trim"

MovesOn(c) == Moves(c) /\ now' = now /\ (Inserts(c) \/ Trims(c) \/ Fails(c) \/ Spares(c))

LEMMA FireMoves ==
  ASSUME AutomationTypeOK, Timely, NEW c \in Tasks, FireStep(c)
  PROVE  MovesOn(c)
<1>0. faults \in 0 .. MaxFaults /\ MaxFaults \in Nat
  BY AutomationBounds DEF AutomationTypeOK
<1>1. CASE Spawn(c) \/ SpawnFails(c)
  <2>1. task' = [task EXCEPT ![c].pc = "record"] /\ task[c].pc = "spawn"
    BY <1>1 DEF Spawn, SpawnFails
  <2>2. Moves(c) /\ task'[c].pc = "record"
    BY <2>1, GoesOnMoves DEF Firing
  <2> QED BY <1>0, <1>1, <2>1, <2>2 DEF Spawn, SpawnFails, Fault, MovesOn, Spares
<1>2. CASE RecordRun(c)
  <2>1. task' = [task EXCEPT ![c].pc = "trim"] /\ task[c].pc = "record" /\ now' = now
    BY <1>2 DEF RecordRun
  <2>2. Moves(c) /\ task'[c].pc = "trim"
    BY <2>1, GoesOnMoves DEF Firing
  <2> QED BY <1>2, <2>1, <2>2 DEF MovesOn, Inserts
<1>3. CASE RecordRunFails(c)
  <2>1. Moves(c) /\ task'[c].pc # "trim"
    BY <1>3, EndMoves DEF RecordRunFails
  <2> QED BY <1>3, <2>1 DEF RecordRunFails, Fault, MovesOn, Fails
<1>4. CASE TrimRuns(c)
  <2>1. Moves(c) /\ task'[c].pc # "trim" /\ now' = now
    BY <1>4, EndMoves DEF TrimRuns
  <2> QED BY <1>4, <2>1 DEF MovesOn, Trims
<1> QED BY <1>1, <1>2, <1>3, <1>4 DEF FireStep

LEMMA TickMoves ==
  ASSUME AutomationTypeOK, Timely, NEW c \in Tickers, TickStep(c)
  PROVE  MovesOn(c)
<1>0. faults \in 0 .. MaxFaults /\ MaxFaults \in Nat /\ c \in Tasks
  BY AutomationBounds DEF AutomationTypeOK, Tasks
<1>1. CASE TickLists(c)
  <2>1. PICK t \in Elapsed(row) :
            task' = [task EXCEPT ![c] = [pc |-> "claim", at |-> t, copy |-> NoRow]]
    BY <1>1 DEF TickLists
  <2> DEFINE e == [pc |-> "claim", at |-> t, copy |-> NoRow]
  <2>2. t \in Schedule /\ t \in Nat /\ t <= now
    BY ScheduleAssumption DEF Elapsed
  <2>3. Entry(c, e) /\ e.pc = "claim"
    BY <2>2 DEF Entry, TaskType
  <2>4. task' = [task EXCEPT ![c] = e]
    BY <2>1
  <2> HIDE DEF e
  <2>5. Moves(c) /\ task'[c].pc = "claim"
    BY <1>0, <2>3, <2>4, PutMoves
  <2> QED BY <1>0, <1>1, <2>5 DEF TickLists, MovesOn, Spares
<1>2. CASE Claim(c)
  <2>1. task' = [task EXCEPT ![c].pc = "spawn"] /\ task[c].pc = "claim"
    BY <1>2 DEF Claim
  <2>2. Moves(c) /\ task'[c].pc = "spawn"
    BY <1>0, <2>1, GoesOnMoves DEF Firing
  <2> QED BY <1>0, <1>2, <2>1, <2>2 DEF Claim, MovesOn, Spares
<1>3. CASE ClaimLost(c)
  BY <1>0, <1>3, EndMoves DEF ClaimLost, MovesOn, Spares
<1>4. CASE ClaimFails(c)
  BY <1>0, <1>4, EndMoves DEF ClaimFails, Fault, MovesOn, Spares
<1>5. CASE FireStep(c)
  BY <1>0, <1>5, FireMoves
<1> QED BY <1>1, <1>2, <1>3, <1>4, <1>5 DEF TickStep

LEMMA RequestMoves ==
  ASSUME AutomationTypeOK, Timely, NEW q \in Requests, RequestStep(q)
  PROVE  MovesOn(q)
<1>0. /\ faults \in 0 .. MaxFaults /\ MaxFaults \in Nat /\ q \in Tasks /\ q \notin Tickers
      /\ now \in Nat /\ row \in Rows \cup {NoRow}
  BY AutomationBounds, DistinctAssumption DEF AutomationTypeOK, Tasks
<1>1. ASSUME NEW e, Entry(q, e), e.pc # "trim", task[q].pc # "trim",
             task' = [task EXCEPT ![q] = e],
             now' = now, runs' \in {runs, {}}, faults' = faults
      PROVE  MovesOn(q)
  <2>1. Moves(q) /\ task'[q] = e
    BY <1>0, <1>1, PutMoves
  <2>2. Spares(q)
    BY <1>0, <1>1, <2>1 DEF Spares
  <2> QED BY <1>1, <2>1, <2>2 DEF MovesOn
<1>2. CASE SetEnabledReads(q)
  <2>1. CASE row \in Rows
    <3> DEFINE r == [row EXCEPT !.enabled = (Does[q] = "enable")]
               e == [pc |-> "upsert", at |-> 0, copy |-> r]
    <3>1. r \in Rows
      BY <2>1 DEF Rows
    <3>2. Entry(q, e) /\ e.pc = "upsert"
      BY <3>1 DEF Entry, TaskType, Firing
    <3>3. task' = [task EXCEPT ![q] = e] /\ UNCHANGED <<now, runs, faults>> /\ task[q].pc = "idle"
      BY <1>2, <2>1 DEF SetEnabledReads
    <3> HIDE DEF e
    <3> QED BY <3>2, <3>3, <1>1
  <2>2. CASE row \notin Rows
    BY <1>0, <1>2, <2>2, EndMoves DEF SetEnabledReads, MovesOn, Spares
  <2> QED BY <2>1, <2>2
<1>3. CASE CreateChecks(q)
  <2>1. CASE row = NoRow
    <3>1. PICK r \in [kind : {"cron", "webhook"}, enabled : BOOLEAN,
                      created : {now}, last : {0}] :
              task' = [task EXCEPT ![q] = [pc |-> "upsert", at |-> 0, copy |-> r]]
      BY <1>3, <2>1 DEF CreateChecks
    <3>2. r \in Rows
      BY <1>0 DEF Rows
    <3> DEFINE e == [pc |-> "upsert", at |-> 0, copy |-> r]
    <3>3. Entry(q, e) /\ e.pc = "upsert"
      BY <3>2 DEF Entry, TaskType, Firing
    <3>4. task' = [task EXCEPT ![q] = e] /\ UNCHANGED <<now, runs, faults>> /\ task[q].pc = "idle"
      BY <1>3, <3>1 DEF CreateChecks
    <3> HIDE DEF e
    <3> QED BY <3>3, <3>4, <1>1
  <2>2. CASE row # NoRow
    BY <1>0, <1>3, <2>2, EndMoves DEF CreateChecks, MovesOn, Spares
  <2> QED BY <2>1, <2>2
<1>4. CASE RequestUpserts(q)
  BY <1>0, <1>4, EndMoves DEF RequestUpserts, MovesOn, Spares
<1>5. CASE DeleteRuns(q)
  <2>1. /\ Moves(q) /\ task'[q].pc = "delete"
    BY <1>0, <1>5 DEF DeleteRuns, AutomationTypeOK, TaskType, Moves, Entry, Firing
  <2> QED BY <1>0, <1>5, <2>1 DEF DeleteRuns, MovesOn, Spares
<1>6. CASE DeleteRow(q)
  BY <1>0, <1>6, EndMoves DEF DeleteRow, MovesOn, Spares
<1>7. CASE FireNow(q) \/ TriggerWebhook(q)
  <2> DEFINE e == [pc |-> "spawn", at |-> now, copy |-> NoRow]
  <2>1. Entry(q, e) /\ e.pc = "spawn"
    BY <1>0 DEF Entry, TaskType
  <2>2. /\ UNCHANGED <<now, runs, faults>> /\ task[q].pc = "idle"
        /\ task' = [task EXCEPT ![q] = e] \/ End(q)
    BY <1>7 DEF FireNow, TriggerWebhook
  <2> HIDE DEF e
  <2>3. CASE task' = [task EXCEPT ![q] = e]
    BY <2>1, <2>2, <2>3, <1>1
  <2>4. CASE End(q)
    BY <1>0, <2>2, <2>4, EndMoves DEF MovesOn, Spares
  <2> QED BY <2>2, <2>3, <2>4
<1>8. CASE FireStep(q)
  BY <1>0, <1>8, FireMoves
<1> QED BY <1>2, <1>3, <1>4, <1>5, <1>6, <1>7, <1>8 DEF RequestStep

LEMMA SomeoneMoves ==
  ASSUME AutomationTypeOK, Timely, Next
  PROVE  Advance \/ \E c \in Tasks : MovesOn(c)
<1>1. ASSUME NEW c \in Tasks, Crash(c) PROVE MovesOn(c)
  BY <1>1, EndMoves DEF Crash, Fault, MovesOn, Fails
<1> QED BY <1>1, TickMoves, RequestMoves DEF Next, Tasks

(* Only the clock adds to the ticks that were slept through. *)
LEMMA SleptStep ==
  ASSUME slept \subseteq Schedule, Next
  PROVE  slept' \subseteq Schedule
<1>1. CASE Advance
  BY <1>1 DEF Advance
<1>2. ASSUME NEW c \in Tasks, FireStep(c) PROVE slept' = slept
  BY <1>2 DEF FireStep, Spawn, SpawnFails, RecordRun, RecordRunFails, TrimRuns
<1>3. ASSUME NEW c \in Tickers, TickStep(c) PROVE slept' = slept
  BY <1>2, <1>3 DEF TickStep, TickLists, Claim, ClaimLost, ClaimFails, Tasks
<1>4. ASSUME NEW q \in Requests, RequestStep(q) PROVE slept' = slept
  BY <1>2, <1>4 DEF RequestStep, SetEnabledReads, CreateChecks, RequestUpserts, DeleteRuns,
                    DeleteRow, FireNow, TriggerWebhook, Tasks
<1>5. ASSUME NEW c \in Tasks, Crash(c) PROVE slept' = slept
  BY <1>5 DEF Crash
<1> QED BY <1>1, <1>3, <1>4, <1>5 DEF Next

(* The types hold on. *)
LEMMA TypesStep ==
  ASSUME IInv, AutomationTypeOK, Timely, Next
  PROVE  AutomationTypeOK' /\ Timely'
<1>0. /\ row' \in Rows \cup {NoRow} /\ fires' \in [Schedule -> 0..2] /\ deleted' \in BOOLEAN
      /\ slept' \subseteq Schedule
  BY NextIInv, SleptStep DEF IInv, Types, AutomationTypeOK
<1>1. CASE Advance
  <2>1. UNCHANGED <<task, runs, faults>> /\ now' = now + 1 /\ now' \in 0 .. MaxNow /\ now \in Nat
    BY <1>1, AutomationBounds DEF Advance, AutomationTypeOK
  <2>2. \A c \in Tasks : task[c].at \in Nat
    BY DEF AutomationTypeOK
  <2>3. Timely'
    BY <2>1, <2>2 DEF Timely
  <2>4. \A x \in runs : x.at \in 0 .. now' /\ x.by \in Tasks
    BY <2>1 DEF AutomationTypeOK
  <2> QED BY <1>0, <2>1, <2>3, <2>4 DEF AutomationTypeOK
<1>2. ASSUME NEW c \in Tasks, MovesOn(c) PROVE AutomationTypeOK' /\ Timely'
  <2>1. /\ now' = now /\ task' \in [Tasks -> TaskType] /\ Entry(c, task'[c])
        /\ \A d \in Tasks \ {c} : task'[d] = task[d]
    BY <1>2 DEF MovesOn, Moves
  <2>2. Timely'
    BY <2>1 DEF Timely, Entry
  <2>3. \A d \in Tickers : task'[d].pc \in Firing => task'[d].at \in Schedule
    BY <2>1 DEF AutomationTypeOK, Entry, Firing, Tasks
  <2>4. faults' \in 0 .. MaxFaults
    BY <1>2, AutomationBounds DEF MovesOn, Inserts, RecordRun, Trims, TrimRuns, Fails, Spares,
                                  AutomationTypeOK
  <2>5. \A x \in runs' : x.at \in 0 .. now /\ x.by \in Tasks
    <3>1. CASE Inserts(c)
      <4>1. runs' = runs \cup {[at |-> task[c].at, by |-> c]}
        BY <3>1 DEF Inserts, RecordRun
      <4>2. task[c].at \in 0 .. now
        BY <3>1 DEF Inserts, Timely, Firing, AutomationTypeOK
      <4> QED BY <4>1, <4>2 DEF AutomationTypeOK
    <3>2. CASE ~ Inserts(c)
      <4>1. runs' \subseteq runs
        BY <1>2, <3>2 DEF MovesOn, Trims, TrimRuns, Fails, Spares, NewestRuns
      <4> QED BY <4>1 DEF AutomationTypeOK
    <3> QED BY <3>1, <3>2
  <2> QED BY <1>0, <2>1, <2>2, <2>3, <2>4, <2>5 DEF AutomationTypeOK, TaskType, Firing
<1> QED BY <1>1, <1>2, SomeoneMoves

(* The history stays within its limit, the trims to come and the faults. *)
LEMMA HistoryStep ==
  ASSUME AutomationTypeOK, Timely, HistoryInv, Next
  PROVE  HistoryInv'
<1>0. /\ faults \in Nat /\ HistoryLimit \in Nat
      /\ Cardinality(runs) \in Nat /\ Cardinality(Trimming) \in Nat
      /\ Cardinality(runs) <= HistoryLimit + faults + Cardinality(Trimming)
  BY AutomationBounds, FS_CardinalityType DEF AutomationTypeOK, HistoryInv, HistoryBounded, Trimming
<1> DEFINE Bounded == Cardinality(runs') <= HistoryLimit + faults' + Cardinality(Trimming')
<1>1. SUFFICES IsFiniteSet(runs') /\ IsFiniteSet(Trimming') /\ Bounded
  BY DEF HistoryInv, HistoryBounded, Trimming
<1>2. CASE Advance
  <2>1. runs' = runs /\ faults' = faults /\ Trimming' = Trimming
    BY <1>2 DEF Advance, Trimming
  <2> QED BY <1>0, <2>1 DEF HistoryInv
<1>3. ASSUME NEW c \in Tasks, MovesOn(c) PROVE IsFiniteSet(runs') /\ IsFiniteSet(Trimming') /\ Bounded
  <2>1. /\ \A d \in Tasks \ {c} : task'[d] = task[d]
        /\ Inserts(c) \/ Trims(c) \/ Fails(c) \/ Spares(c)
    BY <1>3 DEF MovesOn, Moves
  <2>2. CASE Inserts(c)
    <3>1. Trimming' = Trimming \cup {c} /\ c \notin Trimming
      BY <2>1, <2>2 DEF Inserts, Trimming
    <3>2. faults' = faults /\ runs' = runs \cup {[at |-> task[c].at, by |-> c]}
      BY <2>2 DEF Inserts, RecordRun
    <3>3. /\ IsFiniteSet(Trimming') /\ Cardinality(Trimming') = Cardinality(Trimming) + 1
          /\ IsFiniteSet(runs') /\ Cardinality(runs') \in {Cardinality(runs), Cardinality(runs) + 1}
      BY <3>1, <3>2, FS_AddElement DEF HistoryInv
    <3> QED BY <1>0, <3>2, <3>3
  <2>3. CASE Trims(c)
    <3>1. c \in Trimming /\ Trimming' = Trimming \ {c}
      BY <2>1, <2>3 DEF Trims, TrimRuns, Trimming
    <3>2. faults' = faults /\ NewestRuns(runs')
      BY <2>3 DEF Trims, TrimRuns
    <3>3. runs' \in SUBSET runs /\ Cardinality(runs') <= HistoryLimit
      BY <1>0, <3>2 DEF NewestRuns
    <3>4. /\ IsFiniteSet(runs')
          /\ IsFiniteSet(Trimming') /\ Cardinality(Trimming') = Cardinality(Trimming) - 1
          /\ Cardinality(Trimming') \in Nat
      BY <3>1, <3>3, FS_RemoveElement, FS_Subset, FS_CardinalityType DEF HistoryInv
    <3>5. Cardinality(runs') \in Nat
      BY <3>4, FS_CardinalityType
    <3> QED BY <1>0, <3>2, <3>3, <3>4, <3>5
  <2>4. CASE Fails(c)
    <3>1. Trimming' = Trimming \ {c}
      BY <2>1, <2>4 DEF Fails, Trimming
    <3>2. /\ IsFiniteSet(Trimming')
          /\ Cardinality(Trimming') \in {Cardinality(Trimming), Cardinality(Trimming) - 1}
      BY <3>1, FS_RemoveElement DEF HistoryInv
    <3> QED BY <1>0, <2>4, <3>2 DEF Fails, HistoryInv
  <2>5. CASE Spares(c)
    <3>1. Trimming' = Trimming
      BY <2>1, <2>5 DEF Spares, Trimming
    <3>2. /\ IsFiniteSet(runs') /\ Cardinality(runs') \in {Cardinality(runs), 0}
          /\ faults' \in {faults, faults + 1}
      BY <2>5, FS_EmptySet DEF Spares, HistoryInv
    <3> QED BY <1>0, <3>1, <3>2 DEF HistoryInv
  <2> QED BY <2>1, <2>2, <2>3, <2>4, <2>5
<1> QED BY <1>2, <1>3, SomeoneMoves

(* The automations' tables stay well formed, and the history of runs stays    *)
(* bounded (record_run inserts and trims in two statements), for every        *)
(* number of replicas and requests and every number of crashes.               *)
THEOREM AutomationSoundHolds == Spec => []AutomationSound
<1>1. Init => SoundInv
  <2> SUFFICES ASSUME Init PROVE SoundInv
    OBVIOUS
  <2>1. IInv /\ \A c \in Tasks : task[c].pc \in {"idle", "done"}
    BY InitIInv DEF Init, Tasks, Rest, Finished
  <2>2. AutomationTypeOK
    BY <2>1, AutomationBounds DEF Init, AutomationTypeOK, IInv, Types, TaskType, Tasks
  <2>3. Timely /\ Trimming = {} /\ runs = {}
    BY <2>1 DEF Init, Timely, Firing, Trimming
  <2>4. Cardinality(runs) = 0 /\ Cardinality(Trimming) = 0
    BY <2>3, FS_EmptySet
  <2>5. HistoryBounded
    BY <2>4, AutomationBounds DEF Init, HistoryBounded, Trimming
  <2> QED BY <2>2, <2>3, <2>5, FS_EmptySet DEF SoundInv, HistoryInv
<1>2. IInv /\ SoundInv /\ [Next]_autoVars => SoundInv'
  <2> SUFFICES ASSUME IInv, SoundInv, [Next]_autoVars PROVE SoundInv'
    OBVIOUS
  <2>1. CASE Next
    BY <2>1, TypesStep, HistoryStep DEF SoundInv
  <2>2. CASE UNCHANGED autoVars
    BY <2>2 DEF autoVars, SoundInv, AutomationTypeOK, Timely, HistoryInv, HistoryBounded, Trimming
  <2> QED BY <2>1, <2>2
<1>3. SoundInv => AutomationSound
  BY DEF SoundInv, HistoryInv, AutomationSound
<1> QED BY <1>1, <1>2, <1>3, IInvHolds, PTL DEF Spec

----------------------------------------------------------------------------
(***************************************************************************)
(* Why a new automation waits: until a row is deleted its creation time      *)
(* stays what it was, since an edit writes back the one it read and the one  *)
(* create that could write another found no row; and a tick is claimed only  *)
(* if it is later than the row listed was created.                           *)
(***************************************************************************)
Editing(q) == task[q].pc = "upsert" /\ Does[q] # "create"
Creating(q) == task[q].pc = "upsert" /\ Does[q] = "create"

Patient ==
    ~ deleted =>
        /\ row \in Rows /\ row.last # 0 => row.created < row.last
        /\ \A c \in Tickers : task[c].pc = "claim" => row \in Rows /\ row.created < task[c].at
        /\ \A q \in Requests : Editing(q) => row \in Rows /\ task[q].copy.created = row.created
        /\ \A q \in Requests : Creating(q) => row = NoRow

(* A step that leaves the row alone, and whose task has nothing to claim or   *)
(* to write after it.                                                         *)
LEMMA PatientQuiet ==
  ASSUME IInv, Patient, NEW c \in Tasks, UNCHANGED <<row, deleted>>,
         \A d \in Tasks \ {c} : task'[d] = task[d],
         task'[c].pc \notin {"claim", "upsert"}
  PROVE  Patient'
  BY DEF Patient, Editing, Creating, Tasks

LEMMA PatientEnd ==
  ASSUME IInv, Patient, NEW c \in Tasks, End(c), UNCHANGED <<row, deleted>>
  PROVE  Patient'
<1>1. Types
  BY DEF IInv
<1> QED BY <1>1, EndTask, PatientQuiet

(* last_fired_at moves on to a tick that was due. *)
LEMMA PatientClaim ==
  ASSUME IInv, Patient, NEW c \in Tickers, task[c].pc = "claim", Claimable(task[c].at),
         row' = [row EXCEPT !.last = task[c].at], deleted' = deleted,
         \A d \in Tasks \ {c} : task'[d] = task[d],
         task'[c].pc \notin {"claim", "upsert"}
  PROVE  Patient'
<1>1. row \in Rows /\ task[c].at \in Nat
  BY DEF Claimable, IInv, Types, TaskType, Tasks
<1>2. row' \in Rows /\ row'.created = row.created /\ row'.last = task[c].at
  BY <1>1 DEF Rows
<1>3. row # NoRow /\ row' # NoRow
  BY <1>1, <1>2, NoRowIsNoRow
<1> QED BY <1>1, <1>2, <1>3 DEF Patient, Editing, Creating, Tasks

LEMMA PatientStep ==
  ASSUME OneCreator, IInv, Patient, [Next]_autoVars
  PROVE  Patient'
<1>0. /\ task \in [Tasks -> TaskType] /\ Tickers \subseteq Tasks /\ Requests \subseteq Tasks
      /\ row \in Rows \cup {NoRow} /\ NoRow \notin Rows
  BY NoRowIsNoRow DEF IInv, Types, Tasks
<1>1. ASSUME NEW c \in Tasks, FireStep(c) PROVE Patient'
  <2>1. CASE Spawn(c) \/ SpawnFails(c) \/ RecordRun(c)
    <3>1. /\ task'[c].pc \notin {"claim", "upsert"} /\ \A d \in Tasks \ {c} : task'[d] = task[d]
          /\ UNCHANGED <<row, deleted>>
      BY <1>0, <2>1 DEF Spawn, SpawnFails, RecordRun, TaskType
    <3> QED BY <3>1, PatientQuiet
  <2>2. CASE RecordRunFails(c) \/ TrimRuns(c)
    BY <2>2, PatientEnd DEF RecordRunFails, TrimRuns
  <2> QED BY <1>1, <2>1, <2>2 DEF FireStep
<1>2. ASSUME NEW c \in Tickers, TickLists(c) PROVE Patient'
  <2>1. PICK t \in Elapsed(row) :
            task' = [task EXCEPT ![c] = [pc |-> "claim", at |-> t, copy |-> NoRow]]
    BY <1>2 DEF TickLists
  <2>2. /\ task'[c].pc = "claim" /\ task'[c].at = t
        /\ \A d \in Tasks \ {c} : task'[d] = task[d]
    BY <1>0, <2>1
  <2>3. row \in Rows /\ UNCHANGED <<row, deleted>>
    BY <1>2 DEF TickLists
  <2>4. ~ deleted => row.created < t
    <3>1. t \in Nat /\ row.created \in Nat /\ row.last \in Nat /\ Anchor(row) < t
      BY <2>3, ScheduleAssumption DEF Elapsed, Rows
    <3> QED BY <2>3, <3>1 DEF Patient, Anchor
  <2>5. c \notin Requests
    BY DistinctAssumption
  <2> QED BY <1>0, <2>2, <2>3, <2>4, <2>5 DEF Patient, Editing, Creating
<1>3. ASSUME NEW c \in Tickers, Claim(c) PROVE Patient'
  <2>1. task'[c].pc = "spawn" /\ \A d \in Tasks \ {c} : task'[d] = task[d]
    BY <1>0, <1>3 DEF Claim, TaskType
  <2> QED BY <1>3, <2>1, PatientClaim DEF Claim
<1>4. ASSUME NEW c \in Tickers, ClaimFails(c) PROVE Patient'
  <2>1. task'[c].pc \notin {"claim", "upsert"} /\ \A d \in Tasks \ {c} : task'[d] = task[d]
    BY <1>0, <1>4, EndTask DEF ClaimFails, IInv
  <2>2. CASE row' = row
    BY <1>0, <1>4, <2>1, <2>2, PatientQuiet DEF ClaimFails
  <2>3. CASE Claimable(task[c].at) /\ row' = [row EXCEPT !.last = task[c].at]
    BY <1>4, <2>1, <2>3, PatientClaim DEF ClaimFails
  <2> QED BY <1>4, <2>2, <2>3 DEF ClaimFails
<1>5. ASSUME NEW c \in Tickers, ClaimLost(c) PROVE Patient'
  BY <1>0, <1>5, PatientEnd DEF ClaimLost
<1>6. ASSUME NEW q \in Requests, SetEnabledReads(q) PROVE Patient'
  <2>1. CASE row \in Rows
    <3> DEFINE r == [row EXCEPT !.enabled = (Does[q] = "enable")]
               e == [pc |-> "upsert", at |-> 0, copy |-> r]
    <3>1. r.created = row.created
      BY <2>1 DEF Rows
    <3>2. e.pc = "upsert" /\ e.copy.created = row.created
      BY <3>1
    <3>3. task' = [task EXCEPT ![q] = e] /\ UNCHANGED <<row, deleted>> /\ Does[q] # "create"
      BY <1>6, <2>1 DEF SetEnabledReads
    <3> HIDE DEF e
    <3>4. task'[q] = e /\ \A d \in Tasks \ {q} : task'[d] = task[d]
      BY <1>0, <3>3
    <3>5. q \notin Tickers
      BY DistinctAssumption
    <3> QED BY <1>0, <2>1, <3>2, <3>3, <3>4, <3>5 DEF Patient, Editing, Creating
  <2>2. CASE row \notin Rows
    BY <1>0, <1>6, <2>2, PatientEnd DEF SetEnabledReads
  <2> QED BY <2>1, <2>2
<1>7. ASSUME NEW q \in Requests, CreateChecks(q) PROVE Patient'
  <2>1. CASE row = NoRow
    <3>1. PICK r \in [kind : {"cron", "webhook"}, enabled : BOOLEAN,
                      created : {now}, last : {0}] :
              task' = [task EXCEPT ![q] = [pc |-> "upsert", at |-> 0, copy |-> r]]
      BY <1>7, <2>1 DEF CreateChecks
    <3>2. /\ task'[q].pc = "upsert" /\ \A d \in Tasks \ {q} : task'[d] = task[d]
          /\ UNCHANGED <<row, deleted>> /\ Does[q] = "create"
      BY <1>0, <1>7, <3>1 DEF CreateChecks
    <3>3. q \notin Tickers
      BY DistinctAssumption
    <3> QED BY <1>0, <2>1, <3>2, <3>3 DEF Patient, Editing, Creating
  <2>2. CASE row # NoRow
    BY <1>0, <1>7, <2>2, PatientEnd DEF CreateChecks
  <2> QED BY <2>1, <2>2
<1>8. ASSUME NEW q \in Requests, RequestUpserts(q) PROVE Patient'
  <2>1. /\ task'[q].pc \notin {"claim", "upsert"} /\ \A d \in Tasks \ {q} : task'[d] = task[d]
        /\ deleted' = deleted /\ task[q].pc = "upsert"
    BY <1>0, <1>8, EndTask DEF RequestUpserts, IInv
  <2>2. task[q].copy \in Rows
    BY <1>0, <2>1 DEF IInv, Types
  <2>3. /\ row' \in Rows /\ row'.created = task[q].copy.created
        /\ row'.last = IF row \in Rows THEN row.last ELSE 0
    BY <1>0, <1>8, <2>2 DEF RequestUpserts, Upsert, Rows
  <2>4. CASE Does[q] # "create"
    BY <1>0, <2>1, <2>3, <2>4 DEF Patient, Editing, Creating
  <2>5. CASE Does[q] = "create"
    <3>1. ~ deleted => row = NoRow
      BY <2>1, <2>5 DEF Patient, Creating
    <3>2. \A u \in Requests : Does[u] = "create" => u = q
      BY <2>5 DEF OneCreator
    <3> QED BY <1>0, <2>1, <2>3, <3>1, <3>2 DEF Patient, Editing, Creating
  <2> QED BY <2>4, <2>5
<1>9. ASSUME NEW q \in Requests, DeleteRuns(q) PROVE Patient'
  <2>1. /\ task'[q].pc = "delete" /\ \A d \in Tasks \ {q} : task'[d] = task[d]
        /\ UNCHANGED <<row, deleted>>
    BY <1>0, <1>9 DEF DeleteRuns, TaskType
  <2> QED BY <1>0, <2>1, PatientQuiet
<1>10. ASSUME NEW q \in Requests, DeleteRow(q) PROVE Patient'
  BY <1>10 DEF DeleteRow, Patient
<1>11. ASSUME NEW q \in Requests, FireNow(q) \/ TriggerWebhook(q) PROVE Patient'
  <2>1. CASE End(q)
    BY <1>0, <1>11, <2>1, PatientEnd DEF FireNow, TriggerWebhook
  <2>2. CASE task' = [task EXCEPT ![q] = [pc |-> "spawn", at |-> now, copy |-> NoRow]]
    BY <1>0, <1>11, <2>2, PatientQuiet DEF FireNow, TriggerWebhook
  <2> QED BY <1>11, <2>1, <2>2 DEF FireNow, TriggerWebhook
<1>12. ASSUME NEW c \in Tasks, Crash(c) PROVE Patient'
  BY <1>12, PatientEnd DEF Crash
<1>13. CASE Advance
  BY <1>13 DEF Advance, Patient, Editing, Creating
<1>14. CASE UNCHANGED autoVars
  BY <1>14 DEF autoVars, Patient, Editing, Creating
<1> QED
  BY <1>0, <1>1, <1>2, <1>3, <1>4, <1>5, <1>6, <1>7, <1>8, <1>9, <1>10, <1>11, <1>12, <1>13, <1>14
  DEF Next, TickStep, RequestStep

(* No tick from before an automation was created is ever claimed             *)
(* (due_fire falls back on created_at), for every number of replicas.        *)
THEOREM WaitsForNextTickHolds == Spec => WaitsForNextTick
<1> DEFINE Waits == (row \in Rows /\ row' \in Rows /\ row'.last # row.last /\ ~ deleted /\ OneCreator)
                       => row'.last > row.created
<1>1. Init => (OneCreator => Patient)
  <2> SUFFICES ASSUME Init PROVE Patient
    OBVIOUS
  <2>1. \A c \in Tasks : task[c].pc \in {"idle", "done"}
    BY DEF Init, Tasks, Rest, Finished
  <2>2. row.last = 0
    BY InitialRowsAssumption DEF Init
  <2> QED BY <2>1, <2>2 DEF Patient, Editing, Creating, Tasks
<1>2. IInv /\ (OneCreator => Patient) /\ [Next]_autoVars => (OneCreator => Patient)'
  BY PatientStep DEF OneCreator
<1>3. IInv /\ (OneCreator => Patient) /\ [Next]_autoVars => [Waits]_autoVars
  <2> SUFFICES ASSUME IInv, OneCreator, Patient, Next, row \in Rows, row' \in Rows,
                      row'.last # row.last, ~ deleted
               PROVE  row'.last > row.created
    OBVIOUS
  <2>1. row' # row
    OBVIOUS
  <2>2. ASSUME NEW c \in Tickers, Claim(c) \/ ClaimFails(c) PROVE row'.last > row.created
    <3>1. task[c].pc = "claim" /\ row' = [row EXCEPT !.last = task[c].at]
      BY <2>1, <2>2 DEF Claim, ClaimFails
    <3>2. row.created < task[c].at /\ row.created \in Nat /\ task[c].at \in Nat
      BY <3>1 DEF Patient, Rows, IInv, Types, TaskType, Tasks
    <3>3. row'.last = task[c].at
      BY <3>1 DEF Rows
    <3> QED BY <3>2, <3>3
  <2>3. ASSUME NEW q \in Requests, RequestUpserts(q) PROVE FALSE
    <3>1. task[q].copy \in Rows
      BY <2>3 DEF RequestUpserts, IInv, Types, Tasks
    <3> QED BY <2>3, <3>1 DEF RequestUpserts, Upsert, Rows
  <2>4. ASSUME NEW q \in Requests, DeleteRow(q) PROVE FALSE
    BY <2>4, NoRowIsNoRow DEF DeleteRow
  <2>5. \/ row' = row
        \/ \E c \in Tickers : Claim(c) \/ ClaimFails(c)
        \/ \E q \in Requests : RequestUpserts(q) \/ DeleteRow(q)
    BY DEF Next, Advance, TickStep, RequestStep, FireStep, Crash, TickLists, ClaimLost,
           Spawn, SpawnFails, RecordRun, RecordRunFails, TrimRuns, SetEnabledReads,
           CreateChecks, DeleteRuns, FireNow, TriggerWebhook
  <2> QED BY <2>1, <2>2, <2>3, <2>4, <2>5
<1> QED BY <1>1, <1>2, <1>3, IInvHolds, PTL DEF Spec, WaitsForNextTick


(***************************************************************************)
(* The registry.                                                            *)
(***************************************************************************)
Entries == Registrations \cup {Absent}
JobType == [pc : JobPCs, name : Names \cup {"none"}, root : Roots \cup {NoRoot},
            copy : Entries, seen : [Names -> Entries], todo : SUBSET Names]
HostPCs == {"idle", "done", "list", "replace", "snapshot", "names", "next",
            "client", "env", "ensure"}
CallPCs == {"idle", "done", "upsert", "push", "delete", "prune", "save", "shutdown",
            "client", "env", "ensure"}

(* Types; the requests are those of a scenario, and stay.                    *)
RegShape ==
    /\ \E s \in Scenarios : request = s.calls
    /\ table \in [Names -> Entries]
    /\ regs \in [Hosts -> [Names -> Entries]]
    /\ clients \in [Hosts -> [Names -> Roots \cup {NoRoot}]]
    /\ lock \in [Hosts -> Jobs \cup {Free}]
    /\ daemons = [r \in Roots |-> daemons[r]]
    /\ job \in [Jobs -> JobType]
    /\ acked = [n \in Names |-> acked[n]]
    /\ gone \subseteq Names
    /\ storeFaults \in 0..MaxStoreFaults

(* What a job holds where it is.                                             *)
JobOK(t) ==
    /\ t \in Hosts => job[t].pc \in HostPCs
    /\ t \in Calls => job[t].pc \in CallPCs
    /\ t \in Calls /\ job[t].pc \notin {"idle", "done"} =>
          /\ t \in DOMAIN request /\ job[t].name = request[t].name
          /\ request[t].op \in {"add", "remove", "set"}
    /\ job[t].pc \in {"client", "env", "ensure"} => job[t].name \in Names
    /\ job[t].pc \in {"env", "ensure"} => job[t].root \in Roots
    /\ job[t].pc \in {"upsert", "save", "shutdown"} => job[t].copy \in Registrations

(* The registry's lock is held over the await of a refresh and of a set; the *)
(* set finds in the registry what it put there.                              *)
HoldsLock(t) ==
    /\ t \in Hosts /\ job[t].pc \in {"list", "replace"} => lock[t] = t
    /\ t \in Calls /\ job[t].pc = "save" =>
          /\ lock[request[t].at] = t
          /\ regs[request[t].at][job[t].name] = job[t].copy

(* No call is about to write the row of n. *)
NoWriteOf(n, pcs) == \A q \in DOMAIN request : request[q].name = n => job[q].pc \notin pcs

(* A set that was answered: nobody is about to write the row, and a refresh  *)
(* of the replica that set it has read it.                                   *)
AckOK(n) ==
    acked[n] # NoAck =>
        /\ acked[n].at \in Hosts
        /\ table[n].config = acked[n].config
        /\ regs[acked[n].at][n].config = acked[n].config
        /\ NoWriteOf(n, {"upsert", "save", "delete"})
        /\ job[acked[n].at].pc = "replace" => job[acked[n].at].seen[n].config = acked[n].config

GoneOK(n) == n \in gone => table[n] = Absent /\ NoWriteOf(n, {"upsert", "save"})

(* No two rows have one root.                                                *)
Apart == \A m, n \in Names : m # n /\ table[m].root # NoRoot => table[m].root # table[n].root

(* A set that is about to shut the caliband of n down.                       *)
Restarting(n) ==
    \E q \in DOMAIN request : /\ request[q].name = n /\ job[q].pc = "shutdown"
                              /\ job[q].copy.root = table[n].root

RunsAsSet(n) ==
    table[n] # Absent =>
        \/ daemons[table[n].root] \in {Down, EnvOf(table[n].config)}
        \/ Restarting(n)

RegInv ==
    /\ RegShape
    /\ \A t \in Jobs : JobOK(t) /\ HoldsLock(t)
    /\ \A n \in Names : AckOK(n) /\ GoneOK(n)
    /\ odd = {} => Apart /\ \A n \in Names : RunsAsSet(n)

(* A step of t alone. *)
OnlyMoves(t) == job' \in [Jobs -> JobType] /\ \A u \in Jobs \ {t} : job'[u] = job[u]

(* What a scenario's calls are. *)
LEMMA RequestFacts ==
  ASSUME RegShape
  PROVE  /\ DOMAIN request \subseteq Calls
         /\ \A q \in DOMAIN request : /\ request[q].at \in Hosts /\ request[q].name \in Names
                                      /\ request[q].root \in Roots
                                      /\ request[q].config \in Configs
<1>1. PICK s \in Scenarios : request = s.calls
  BY DEF RegShape
<1> QED BY <1>1, ScenariosAssumption DEF Configs

(* A registration is no absence, and has a root. *)
LEMMA EntryFacts ==
  /\ Absent \in Entries /\ Absent \notin Registrations
  /\ \A e \in Entries : e # Absent => e \in Registrations
  /\ \A e \in Registrations : e.root \in Roots /\ e.root # NoRoot
  /\ \A e \in Entries : e.root \in Roots \cup {NoRoot}
  /\ Absent.root = NoRoot
<1>1. \A e \in Registrations : e.root \in Roots
  BY DEF Registrations
<1>2. Absent.root = NoRoot
  BY DEF Absent
<1> QED BY <1>1, <1>2, CallsAssumption DEF Entries

(* The states of a job at rest. *)
LEMMA RestFacts ==
  /\ Idle \in JobType /\ Idle.pc = "idle" /\ Idle.todo = {}
  /\ Idle.seen = [n \in Names |-> Absent] /\ Idle.copy = Absent
  /\ Over \in JobType /\ Over.pc = "done" /\ Over.todo = {}
<1>1. [n \in Names |-> Absent] \in [Names -> Entries]
  BY EntryFacts
<1>2. Idle \in JobType
  BY <1>1, EntryFacts DEF Idle, JobType, JobPCs
<1>3. Over \in JobType /\ Over.pc = "done" /\ Over.todo = {}
  BY <1>2 DEF Over, JobType, JobPCs, Idle
<1> QED BY <1>2, <1>3 DEF Idle

(* Moving a job on. *)
LEMMA GotoMoves ==
  ASSUME job \in [Jobs -> JobType], NEW t \in Jobs, NEW pc \in JobPCs, Goto(t, pc)
  PROVE  /\ OnlyMoves(t)
         /\ job'[t].pc = pc /\ job'[t].name = job[t].name /\ job'[t].root = job[t].root
         /\ job'[t].copy = job[t].copy /\ job'[t].seen = job[t].seen
<1> DEFINE moved == [job[t] EXCEPT !.pc = pc]
<1>1. moved \in JobType /\ moved.pc = pc /\ moved.name = job[t].name /\ moved.root = job[t].root
      /\ moved.copy = job[t].copy /\ moved.seen = job[t].seen
  BY DEF JobType
<1>2. job' = [job EXCEPT ![t] = moved]
  BY DEF Goto
<1> HIDE DEF moved
<1> QED BY <1>1, <1>2 DEF OnlyMoves

(* Leaving: a poll loop is at its next workspace, a call is over. *)
LEMMA LeaveMoves ==
  ASSUME job \in [Jobs -> JobType], NEW t \in Jobs, Leave(t)
  PROVE  /\ OnlyMoves(t)
         /\ job'[t].pc \in {"next", "done"}
         /\ t \in Calls => job'[t].pc = "done"
<1> DEFINE left == IF t \in Calls THEN Over
                   ELSE [job[t] EXCEPT !.pc = "next", !.name = "none",
                                       !.root = NoRoot, !.copy = Absent]
<1>1. left \in JobType /\ left.pc \in {"next", "done"} /\ (t \in Calls => left.pc = "done")
  <2>1. CASE t \in Calls
    BY <2>1, RestFacts
  <2>2. CASE t \notin Calls
    <3> DEFINE next == [job[t] EXCEPT !.pc = "next", !.name = "none", !.root = NoRoot, !.copy = Absent]
    <3>1. job[t] \in JobType /\ "next" \in JobPCs /\ Absent \in Entries
      BY EntryFacts DEF JobPCs
    <3>2. next \in JobType /\ next.pc = "next"
      BY <3>1 DEF JobType
    <3>3. left = next
      BY <2>2
    <3> HIDE DEF left, next
    <3> QED BY <3>2, <3>3, <2>2
  <2> QED BY <2>1, <2>2
<1>2. job' = [job EXCEPT ![t] = left]
  BY DEF Leave
<1> HIDE DEF left
<1> QED BY <1>1, <1>2 DEF OnlyMoves

(* A step of t that touches a replica only where nobody else has its lock    *)
(* leaves the other jobs as they should be.                                  *)
LEMMA OthersKeep ==
  ASSUME RegInv, NEW t \in Jobs, OnlyMoves(t), request' = request,
         \A h \in Hosts : \/ regs'[h] = regs[h] /\ lock'[h] = lock[h]
                          \/ lock[h] \in {Free, t},
         JobOK(t)', HoldsLock(t)'
  PROVE  \A u \in Jobs : JobOK(u)' /\ HoldsLock(u)'
<1> SUFFICES ASSUME NEW u \in Jobs \ {t} PROVE JobOK(u)' /\ HoldsLock(u)'
  OBVIOUS
<1>1. job'[u] = job[u] /\ JobOK(u) /\ HoldsLock(u)
  BY DEF OnlyMoves, RegInv
<1>2. JobOK(u)'
  BY <1>1 DEF JobOK
<1>3. u # Free
  BY CallsAssumption
<1>4. ASSUME u \in Hosts, job[u].pc \in {"list", "replace"} PROVE lock'[u] = u
  BY <1>1, <1>3, <1>4 DEF HoldsLock
<1>5. ASSUME u \in Calls, job[u].pc = "save"
      PROVE  lock'[request[u].at] = u /\ regs'[request[u].at] = regs[request[u].at]
  <2>1. u \in DOMAIN request
    BY <1>1, <1>5 DEF JobOK
  <2>2. request[u].at \in Hosts
    BY <2>1, RequestFacts DEF RegInv
  <2> QED BY <1>1, <1>3, <1>5, <2>2 DEF HoldsLock
<1> QED BY <1>1, <1>2, <1>4, <1>5 DEF HoldsLock

(* A step of t that does not touch the row of n, nor begins to write it,     *)
(* leaves what was promised of n.                                            *)
LEMMA RowUntouched ==
  ASSUME RegInv, NEW t \in Jobs, OnlyMoves(t), request' = request, NEW n \in Names,
         table'[n] = table[n], acked'[n] = acked[n], n \in gone' => n \in gone,
         acked[n] # NoAck => regs'[acked[n].at][n].config = acked[n].config,
         t \in DOMAIN request /\ request[t].name = n
            => job'[t].pc \notin {"upsert", "save", "delete"},
         t \in Hosts /\ job'[t].pc = "replace" => job'[t].seen[n] = table[n]
  PROVE  AckOK(n)' /\ GoneOK(n)'
<1>1. AckOK(n) /\ GoneOK(n)
  BY DEF RegInv
<1>2. \A q \in DOMAIN request : q \in Jobs
  BY RequestFacts DEF RegInv, Jobs
<1>3. ASSUME NoWriteOf(n, {"upsert", "save", "delete"})
      PROVE  NoWriteOf(n, {"upsert", "save", "delete"})'
  BY <1>2, <1>3 DEF NoWriteOf, OnlyMoves
<1>4. ASSUME NoWriteOf(n, {"upsert", "save"}) PROVE NoWriteOf(n, {"upsert", "save"})'
  BY <1>2, <1>4 DEF NoWriteOf, OnlyMoves
<1>5. ASSUME acked[n] # NoAck, job'[acked[n].at].pc = "replace"
      PROVE  job'[acked[n].at].seen[n].config = acked[n].config
  <2>1. acked[n].at \in Hosts /\ acked[n].at \in Jobs /\ table[n].config = acked[n].config
    BY <1>1, <1>5 DEF AckOK, Jobs
  <2>2. CASE acked[n].at = t
    BY <1>5, <2>1, <2>2
  <2>3. CASE acked[n].at # t
    BY <1>1, <1>5, <2>1, <2>3 DEF AckOK, OnlyMoves
  <2> QED BY <2>2, <2>3
<1>6. AckOK(n)'
  BY <1>1, <1>3, <1>5 DEF AckOK
<1>7. GoneOK(n)'
  BY <1>1, <1>4 DEF GoneOK
<1> QED BY <1>6, <1>7

(* A step of t that touches neither table nor daemons, and ends no restart,  *)
(* leaves the daemons as they should run.                                    *)
LEMMA RunsKeep ==
  ASSUME RegInv, NEW t \in Jobs, OnlyMoves(t), job[t].pc # "shutdown",
         UNCHANGED <<table, daemons, request, odd>>
  PROVE  (odd = {} => Apart /\ \A n \in Names : RunsAsSet(n))'
<1> SUFFICES ASSUME odd = {} PROVE Apart' /\ \A n \in Names : RunsAsSet(n)'
  OBVIOUS
<1>1. Apart'
  BY DEF RegInv, Apart
<1>2. ASSUME NEW n \in Names, Restarting(n) PROVE Restarting(n)'
  <2>1. PICK q \in DOMAIN request : /\ request[q].name = n /\ job[q].pc = "shutdown"
                                    /\ job[q].copy.root = table[n].root
    BY <1>2 DEF Restarting
  <2>2. q \in Jobs \ {t}
    BY <2>1, RequestFacts DEF RegInv, Jobs
  <2> QED BY <2>1, <2>2 DEF Restarting, OnlyMoves
<1>3. ASSUME NEW n \in Names PROVE RunsAsSet(n)'
  BY <1>2 DEF RegInv, RunsAsSet
<1> QED BY <1>1, <1>3

(* The types, for a step that leaves most of it. *)
LEMMA ShapeKeeps ==
  ASSUME RegInv, request' = request,
         table' \in [Names -> Entries], regs' \in [Hosts -> [Names -> Entries]],
         clients' \in [Hosts -> [Names -> Roots \cup {NoRoot}]],
         lock' \in [Hosts -> Jobs \cup {Free}], daemons' = [r \in Roots |-> daemons'[r]],
         job' \in [Jobs -> JobType], acked' = [n \in Names |-> acked'[n]],
         gone' \subseteq Names,
         storeFaults' = storeFaults \/ Breaks
  PROVE  RegShape'
<1>1. storeFaults' \in 0..MaxStoreFaults
  BY CallsAssumption DEF RegInv, RegShape, Breaks
<1> QED BY <1>1 DEF RegInv, RegShape

(* A step that moves a job and touches only the lock it has, or may take.    *)
LEMMA QuietRegStep ==
  ASSUME RegInv, NEW t \in Jobs, OnlyMoves(t),
         UNCHANGED <<table, regs, daemons, request, acked, gone, odd>>,
         storeFaults' = storeFaults \/ Breaks,
         clients' \in [Hosts -> [Names -> Roots \cup {NoRoot}]],
         lock' \in [Hosts -> Jobs \cup {Free}],
         \A h \in Hosts : lock'[h] = lock[h] \/ lock[h] \in {Free, t},
         JobOK(t)', HoldsLock(t)',
         job'[t].pc \notin {"upsert", "save", "delete"}, job[t].pc # "shutdown",
         job'[t].pc = "replace" => job'[t].seen = table
  PROVE  RegInv'
<1>1. RegShape'
  BY ShapeKeeps DEF OnlyMoves, RegInv, RegShape
<1>2. \A u \in Jobs : JobOK(u)' /\ HoldsLock(u)'
  BY OthersKeep
<1>3. ASSUME NEW n \in Names PROVE AckOK(n)' /\ GoneOK(n)'
  <2>1. acked[n] # NoAck => regs'[acked[n].at][n].config = acked[n].config
    BY DEF RegInv, AckOK
  <2> QED BY <2>1, RowUntouched
<1>4. (odd = {} => Apart /\ \A n \in Names : RunsAsSet(n))'
  BY RunsKeep
<1> QED BY <1>1, <1>2, <1>3, <1>4 DEF RegInv

(* A quiet step that leaves.                                                 *)
LEMMA QuietLeave ==
  ASSUME RegInv, NEW t \in Jobs, Leave(t), job[t].pc # "shutdown",
         UNCHANGED <<table, regs, daemons, request, acked, gone, odd>>,
         storeFaults' = storeFaults \/ Breaks,
         clients' \in [Hosts -> [Names -> Roots \cup {NoRoot}]],
         lock' \in [Hosts -> Jobs \cup {Free}],
         \A h \in Hosts : lock'[h] = lock[h] \/ lock[h] \in {Free, t}
  PROVE  RegInv'
<1>1. OnlyMoves(t) /\ job'[t].pc \in {"next", "done"} /\ (t \in Calls => job'[t].pc = "done")
  BY LeaveMoves DEF RegInv, RegShape
<1>2. JobOK(t)' /\ HoldsLock(t)'
  BY <1>1 DEF JobOK, HoldsLock, HostPCs, CallPCs
<1> QED BY <1>1, <1>2, QuietRegStep

(* The replica of a step. *)
LEMMA HostOfStep ==
  ASSUME RegInv, NEW t, t \in Hosts \/ t \in DOMAIN request
  PROVE  t \in Jobs /\ HostOf(t) \in Hosts
BY RequestFacts DEF RegInv, HostOf, Jobs

(* client_for before its spawn. *)
LEMMA ClientKeeps ==
  ASSUME RegInv, NEW t, t \in Hosts \/ t \in DOMAIN request,
         ClientCached(t) \/ ClientReadsRoot(t) \/ ClientReadsEnv(t) \/ EnsureFails(t)
  PROVE  RegInv'
<1>1. t \in Jobs /\ HostOf(t) \in Hosts /\ JobOK(t) /\ HoldsLock(t)
  BY HostOfStep DEF RegInv
<1>2. /\ UNCHANGED <<table, regs, daemons, request, acked, gone, odd, clients, lock>>
      /\ storeFaults' = storeFaults \/ Breaks
      /\ job[t].pc \in {"client", "env", "ensure"}
  BY DEF ClientCached, ClientReadsRoot, ClientReadsEnv, EnsureFails
<1>3. /\ clients' \in [Hosts -> [Names -> Roots \cup {NoRoot}]]
      /\ lock' \in [Hosts -> Jobs \cup {Free}]
      /\ \A h \in Hosts : lock'[h] = lock[h]
      /\ regs \in [Hosts -> [Names -> Entries]] /\ job \in [Jobs -> JobType]
  BY <1>2 DEF RegInv, RegShape
<1>4. CASE Leave(t)
  BY <1>1, <1>2, <1>3, <1>4, QuietLeave
<1>5. CASE ClientReadsRoot(t) /\ ~ Leave(t)
  <2> DEFINE read == Reg(t)[job[t].name]
             moved == [job[t] EXCEPT !.pc = "env", !.root = read.root]
  <2>1. job[t].pc = "client" /\ job[t].name \in Names /\ read # Absent
    BY <1>1, <1>5 DEF ClientReadsRoot, JobOK, Registered
  <2>2. read \in Registrations
    BY <1>1, <1>3, <2>1, EntryFacts DEF Reg
  <2>3. read.root \in Roots /\ "env" \in JobPCs
    BY <2>2, EntryFacts DEF JobPCs
  <2>4. job' = [job EXCEPT ![t] = moved]
    BY <1>5 DEF ClientReadsRoot
  <2> HIDE DEF read
  <2>5. moved \in JobType /\ moved.pc = "env" /\ moved.root = read.root /\ moved.name = job[t].name
    BY <1>1, <1>3, <2>3 DEF JobType
  <2> HIDE DEF moved
  <2>6. OnlyMoves(t) /\ job'[t] = moved
    BY <1>1, <1>3, <2>4, <2>5 DEF OnlyMoves
  <2>7. JobOK(t)' /\ HoldsLock(t)'
    BY <1>1, <1>2, <2>1, <2>3, <2>5, <2>6 DEF JobOK, HoldsLock, HostPCs, CallPCs
  <2> QED BY <1>1, <1>2, <1>3, <2>1, <2>5, <2>6, <2>7, QuietRegStep
<1>6. CASE ClientReadsEnv(t) /\ ~ Leave(t)
  <2> DEFINE read == Reg(t)[job[t].name]
             moved == [job[t] EXCEPT !.pc = "ensure", !.copy = read]
  <2>1. job[t].pc = "env" /\ job[t].name \in Names /\ job[t].root \in Roots
    BY <1>1, <1>6 DEF ClientReadsEnv, JobOK
  <2>2. read \in Entries /\ "ensure" \in JobPCs
    BY <1>1, <1>3, <2>1 DEF Reg, JobPCs
  <2>4. job' = [job EXCEPT ![t] = moved]
    BY <1>6 DEF ClientReadsEnv
  <2> HIDE DEF read
  <2>5. moved \in JobType /\ moved.pc = "ensure" /\ moved.root = job[t].root /\ moved.name = job[t].name
    BY <1>1, <1>3, <2>2 DEF JobType
  <2> HIDE DEF moved
  <2>6. OnlyMoves(t) /\ job'[t] = moved
    BY <1>1, <1>3, <2>4, <2>5 DEF OnlyMoves
  <2>7. JobOK(t)' /\ HoldsLock(t)'
    BY <1>1, <1>2, <2>1, <2>5, <2>6 DEF JobOK, HoldsLock, HostPCs, CallPCs
  <2> QED BY <1>1, <1>2, <1>3, <2>1, <2>5, <2>6, <2>7, QuietRegStep
<1> QED BY <1>4, <1>5, <1>6 DEF ClientCached, EnsureFails

(* ensure_caliband: it finds the daemon of the registration it read, or      *)
(* starts it with that registration's environment.                           *)
LEMMA EnsureKeeps ==
  ASSUME RegInv, NEW t, t \in Hosts \/ t \in DOMAIN request, Ensure(t)
  PROVE  RegInv'
<1> DEFINE root == job[t].root
           n0 == job[t].name
<1>1. t \in Jobs /\ HostOf(t) \in Hosts /\ JobOK(t) /\ HoldsLock(t)
  BY HostOfStep DEF RegInv
<1>2. job[t].pc = "ensure" /\ n0 \in Names /\ root \in Roots
  BY <1>1 DEF Ensure, JobOK
<1>3. /\ UNCHANGED <<table, regs, snaps, lock, request, acked, gone, storeFaults>>
      /\ clients' = [clients EXCEPT ![HostOf(t)][n0] = root]
      /\ daemons' = [daemons EXCEPT ![root] = IF @ = Down THEN EnvOf(job[t].copy.config) ELSE @]
      /\ Leave(t)
  BY DEF Ensure
<1>4. OnlyMoves(t) /\ job'[t].pc \in {"next", "done"} /\ (t \in Calls => job'[t].pc = "done")
  BY <1>1, <1>3, LeaveMoves DEF RegInv, RegShape
<1>5. JobOK(t)' /\ HoldsLock(t)'
  BY <1>4 DEF JobOK, HoldsLock, HostPCs, CallPCs
<1>6. \A u \in Jobs : JobOK(u)' /\ HoldsLock(u)'
  BY <1>1, <1>3, <1>4, <1>5, OthersKeep
<1>7. clients' \in [Hosts -> [Names -> Roots \cup {NoRoot}]]
  BY <1>1, <1>2, <1>3 DEF RegInv, RegShape
<1>8. daemons' = [r \in Roots |-> daemons'[r]]
  BY <1>2, <1>3 DEF RegInv, RegShape
<1>9. RegShape'
  BY <1>3, <1>4, <1>7, <1>8, ShapeKeeps DEF OnlyMoves, RegInv, RegShape
<1>10. ASSUME NEW n \in Names PROVE AckOK(n)' /\ GoneOK(n)'
  <2>1. acked[n] # NoAck => regs'[acked[n].at][n].config = acked[n].config
    BY <1>3 DEF RegInv, AckOK
  <2> QED BY <1>1, <1>3, <1>4, <2>1, RowUntouched
<1>11. ASSUME odd' = {} PROVE Apart' /\ \A n \in Names : RunsAsSet(n)'
  <2>1. odd = {} /\ table[n0] = job[t].copy /\ root = job[t].copy.root
    BY <1>11 DEF Ensure
  <2>2. Apart /\ \A n \in Names : RunsAsSet(n)
    BY <2>1 DEF RegInv
  <2>3. Apart'
    BY <1>3, <2>2 DEF Apart
  <2>4. root # NoRoot /\ daemons'[root] = IF daemons[root] = Down THEN EnvOf(table[n0].config) ELSE daemons[root]
    BY <1>2, <1>3, <2>1, CallsAssumption DEF RegInv, RegShape
  <2>5. ASSUME NEW n \in Names, table[n] # Absent PROVE RunsAsSet(n)'
    <3>1. CASE Restarting(n)
      <4>1. PICK q \in DOMAIN request : /\ request[q].name = n /\ job[q].pc = "shutdown"
                                        /\ job[q].copy.root = table[n].root
        BY <3>1 DEF Restarting
      <4>2. q \in Jobs \ {t}
        BY <1>2, <4>1, RequestFacts DEF RegInv, Jobs
      <4>3. Restarting(n)'
        BY <1>3, <1>4, <4>1, <4>2 DEF Restarting, OnlyMoves
      <4> QED BY <4>3 DEF RunsAsSet
    <3>2. CASE ~ Restarting(n) /\ table[n].root = root
      <4>1. n = n0
        BY <1>2, <2>1, <2>2, <2>4, <3>2 DEF Apart
      <4>2. daemons[root] \in {Down, EnvOf(table[n0].config)}
        BY <2>2, <2>5, <3>2, <4>1 DEF RunsAsSet
      <4>3. daemons'[root] \in {Down, EnvOf(table[n0].config)}
        BY <2>4, <4>2
      <4> QED BY <1>3, <3>2, <4>1, <4>3 DEF RunsAsSet
    <3>3. CASE ~ Restarting(n) /\ table[n].root # root
      <4>1. table[n].root \in Roots
        BY <2>5, EntryFacts DEF RegInv, RegShape
      <4>2. daemons'[table[n].root] = daemons[table[n].root]
        BY <1>3, <3>3, <4>1 DEF RegInv, RegShape
      <4> QED BY <1>3, <2>2, <2>5, <3>3, <4>2 DEF RunsAsSet
    <3> QED BY <3>1, <3>2, <3>3
  <2>6. ASSUME NEW n \in Names, table[n] = Absent PROVE RunsAsSet(n)'
    BY <1>3, <2>6 DEF RunsAsSet
  <2> QED BY <2>3, <2>5, <2>6
<1> QED BY <1>6, <1>9, <1>10, <1>11 DEF RegInv

(* The refresh and the walk over the workspaces, but for the replacement.    *)
LEMMA PollKeeps ==
  ASSUME RegInv, NEW h \in Hosts,
         \/ RefreshLocks(h) \/ RefreshLists(h) \/ RefreshListFails(h)
         \/ RefreshSnapshots(h) \/ PollLists(h) \/ PollNext(h)
  PROVE  RegInv'
<1>1. h \in Jobs /\ h \notin Calls /\ JobOK(h) /\ HoldsLock(h)
  BY CallsAssumption DEF RegInv, Jobs
<1>2. /\ UNCHANGED <<table, regs, daemons, request, acked, gone, odd, clients>>
      /\ storeFaults' = storeFaults \/ Breaks
      /\ job[h].pc # "shutdown"
  BY DEF RefreshLocks, RefreshLists, RefreshListFails, RefreshSnapshots, PollLists, PollNext
<1>3. /\ clients' \in [Hosts -> [Names -> Roots \cup {NoRoot}]]
      /\ lock \in [Hosts -> Jobs \cup {Free}] /\ table \in [Names -> Entries]
      /\ regs \in [Hosts -> [Names -> Entries]] /\ job \in [Jobs -> JobType]
  BY <1>2 DEF RegInv, RegShape
<1>4. /\ lock' \in [Hosts -> Jobs \cup {Free}]
      /\ \A g \in Hosts : lock'[g] = lock[g] \/ lock[g] \in {Free, h}
  <2>1. CASE lock' = lock
    BY <1>3, <2>1
  <2>2. CASE lock' = [lock EXCEPT ![h] = h] /\ Unlocked(h)
    BY <1>1, <1>3, <2>2 DEF Unlocked
  <2>3. CASE lock' = [lock EXCEPT ![h] = Free] /\ job[h].pc = "list"
    BY <1>1, <1>3, <2>3 DEF HoldsLock
  <2> QED BY <2>1, <2>2, <2>3 DEF RefreshLocks, RefreshLists, RefreshListFails,
                                  RefreshSnapshots, PollLists, PollNext
<1> DEFINE Moved(b) == /\ b \in JobType /\ job' = [job EXCEPT ![h] = b]
                       /\ b.pc \in {"list", "replace", "names", "next", "client", "idle"}
                       /\ b.pc \in {"list", "replace"} => lock'[h] = h
                       /\ b.pc = "replace" => b.seen = table
                       /\ b.pc = "client" => b.name \in Names
<1>5. ASSUME NEW b, Moved(b) PROVE RegInv'
  <2>1. OnlyMoves(h) /\ job'[h] = b
    BY <1>1, <1>3, <1>5 DEF OnlyMoves
  <2>2. JobOK(h)' /\ HoldsLock(h)'
    BY <1>1, <1>5, <2>1 DEF JobOK, HoldsLock, HostPCs
  <2> QED BY <1>1, <1>2, <1>3, <1>4, <1>5, <2>1, <2>2, QuietRegStep
<1>12. job[h] \in JobType /\ {"list", "replace", "names", "next", "client"} \subseteq JobPCs
  BY <1>1, <1>3 DEF JobPCs
<1>6. CASE RefreshLocks(h)
  <2> DEFINE b == [job[h] EXCEPT !.pc = "list"]
  <2>1. b \in JobType /\ b.pc = "list"
    BY <1>12 DEF JobType
  <2>2. job' = [job EXCEPT ![h] = b] /\ lock'[h] = h
    BY <1>3, <1>6 DEF RefreshLocks, Goto
  <2> HIDE DEF b
  <2>3. Moved(b)
    BY <2>1, <2>2
  <2> QED BY <1>5, <2>3
<1>7. CASE RefreshLists(h)
  <2> DEFINE b == [job[h] EXCEPT !.pc = "replace", !.seen = table]
  <2>1. b \in JobType /\ b.pc = "replace" /\ b.seen = table
    BY <1>3, <1>12 DEF JobType
  <2>2. job' = [job EXCEPT ![h] = b] /\ lock'[h] = h
    BY <1>1, <1>7 DEF RefreshLists, HoldsLock
  <2> HIDE DEF b
  <2>3. Moved(b)
    BY <2>1, <2>2
  <2> QED BY <1>5, <2>3
<1>8. CASE RefreshListFails(h) \/ PollLists(h)
  <2> DEFINE b == [job[h] EXCEPT !.pc = "next", !.todo = Registered(regs[h])]
  <2>1. b \in JobType /\ b.pc = "next"
    BY <1>12 DEF JobType, Registered
  <2>2. job' = [job EXCEPT ![h] = b]
    BY <1>8 DEF RefreshListFails, PollLists
  <2> HIDE DEF b
  <2>3. Moved(b)
    BY <2>1, <2>2
  <2> QED BY <1>5, <2>3
<1>9. CASE RefreshSnapshots(h)
  <2> DEFINE b == [job[h] EXCEPT !.pc = "names", !.seen = Idle.seen]
  <2>1. Idle.seen \in [Names -> Entries]
    BY RestFacts, EntryFacts
  <2>2. b \in JobType /\ b.pc = "names"
    BY <1>12, <2>1 DEF JobType
  <2>3. job' = [job EXCEPT ![h] = b]
    BY <1>9 DEF RefreshSnapshots
  <2> HIDE DEF b
  <2>4. Moved(b)
    BY <2>2, <2>3
  <2> QED BY <1>5, <2>4
<1>10. CASE PollNext(h) /\ job[h].todo = {}
  <2>1. Moved(Idle)
    BY <1>10, RestFacts DEF PollNext
  <2> QED BY <1>5, <2>1
<1>11. CASE PollNext(h) /\ job[h].todo # {}
  <2>1. PICK n \in job[h].todo :
              job' = [job EXCEPT ![h].pc = "client", ![h].name = n, ![h].todo = @ \ {n}]
    BY <1>11 DEF PollNext
  <2> DEFINE b == [job[h] EXCEPT !.pc = "client", !.name = n, !.todo = @ \ {n}]
  <2>2. n \in Names
    BY <1>12 DEF JobType
  <2>3. b \in JobType /\ b.pc = "client" /\ b.name = n
    BY <1>12, <2>2 DEF JobType
  <2>4. job' = [job EXCEPT ![h] = b]
    BY <2>1
  <2> HIDE DEF b
  <2>5. Moved(b)
    BY <2>2, <2>3, <2>4
  <2> QED BY <1>5, <2>5
<1> QED BY <1>6, <1>7, <1>8, <1>9, <1>10, <1>11

(* The refresh replaces the registry with what it read under the lock.       *)
LEMMA ReplaceKeeps ==
  ASSUME RegInv, NEW h \in Hosts, RefreshReplaces(h)
  PROVE  RegInv'
<1>1. h \in Jobs /\ h \notin Calls /\ JobOK(h) /\ HoldsLock(h)
  BY CallsAssumption DEF RegInv, Jobs
<1>2. /\ UNCHANGED <<table, daemons, request, acked, gone, odd, clients, storeFaults>>
      /\ job[h].pc = "replace" /\ lock[h] = h /\ Goto(h, "snapshot")
      /\ regs' = [regs EXCEPT ![h] = job[h].seen] /\ lock' = [lock EXCEPT ![h] = Free]
  BY <1>1 DEF RefreshReplaces, HoldsLock
<1>3. OnlyMoves(h) /\ job'[h].pc = "snapshot" /\ job[h].seen \in [Names -> Entries]
  BY <1>1, <1>2, GotoMoves DEF RegInv, RegShape, JobPCs, JobType
<1>4. JobOK(h)' /\ HoldsLock(h)'
  BY <1>1, <1>3 DEF JobOK, HoldsLock, HostPCs
<1>5. /\ regs' \in [Hosts -> [Names -> Entries]] /\ lock' \in [Hosts -> Jobs \cup {Free}]
      /\ regs'[h] = job[h].seen
      /\ \A g \in Hosts : \/ regs'[g] = regs[g] /\ lock'[g] = lock[g]
                          \/ lock[g] \in {Free, h}
  BY <1>2, <1>3 DEF RegInv, RegShape
<1>6. \A u \in Jobs : JobOK(u)' /\ HoldsLock(u)'
  BY <1>1, <1>2, <1>3, <1>4, <1>5, OthersKeep
<1>7. RegShape'
  BY <1>2, <1>3, <1>5, ShapeKeeps DEF OnlyMoves, RegInv, RegShape
<1>8. ASSUME NEW n \in Names PROVE AckOK(n)' /\ GoneOK(n)'
  <2>1. acked[n] # NoAck => regs'[acked[n].at][n].config = acked[n].config
    <3> SUFFICES ASSUME acked[n] # NoAck PROVE regs'[acked[n].at][n].config = acked[n].config
      OBVIOUS
    <3>1. AckOK(n)
      BY DEF RegInv
    <3>2. CASE acked[n].at = h
      BY <1>2, <1>5, <3>1, <3>2 DEF AckOK
    <3>3. CASE acked[n].at # h
      BY <1>2, <3>1, <3>3 DEF AckOK, RegInv, RegShape
    <3> QED BY <3>2, <3>3
  <2> QED BY <1>1, <1>2, <1>3, <2>1, RowUntouched, RequestFacts DEF RegInv
<1>9. (odd = {} => Apart /\ \A n \in Names : RunsAsSet(n))'
  BY <1>1, <1>2, <1>3, RunsKeep
<1> QED BY <1>6, <1>7, <1>8, <1>9 DEF RegInv

(* A call is answered, or begins to write its workspace: the registry first, *)
(* and what was promised of the workspace is open again.                     *)
LEMMA StartKeeps ==
  ASSUME RegInv, NEW q \in DOMAIN request, CallStarts(q)
  PROVE  RegInv'
<1> DEFINE h == request[q].at
           n0 == request[q].name
<1>1. /\ q \in Jobs /\ q \in Calls /\ q \notin Hosts /\ h \in Hosts /\ n0 \in Names
      /\ request[q].root \in Roots /\ request[q].config \in Configs /\ HostOf(q) = h
  BY RequestFacts, CallsAssumption DEF RegInv, Jobs, HostOf
<1>2. /\ UNCHANGED <<table, daemons, request, odd, clients, storeFaults>>
      /\ job[q].pc = "idle" /\ lock[h] = Free
      /\ request[q].op \in {"add", "remove", "set"}
  BY DEF CallStarts, AddRegisters, RemoveUnregisters, SetRegisters, Unlocked
<1>3. /\ regs \in [Hosts -> [Names -> Entries]] /\ job \in [Jobs -> JobType]
      /\ lock \in [Hosts -> Jobs \cup {Free}] /\ table \in [Names -> Entries]
      /\ clients' \in [Hosts -> [Names -> Roots \cup {NoRoot}]]
      /\ acked = [n \in Names |-> acked[n]]
      /\ RegShape
  BY <1>2 DEF RegInv, RegShape
<1> DEFINE Begins(b, record) ==
             /\ job' = [job EXCEPT ![q] = b] /\ b \in JobType
             /\ b.pc \in {"upsert", "delete", "save"} /\ b.name = n0
             /\ b.pc # "delete" => b.copy = record /\ record \in Registrations
             /\ record \in Entries
             /\ regs' = [regs EXCEPT ![h][n0] = record]
             /\ IF b.pc = "save" THEN lock' = [lock EXCEPT ![h] = q] ELSE lock' = lock
             /\ Contradict(n0)
<1>4. CASE job' = [job EXCEPT ![q] = Over] /\ UNCHANGED <<regs, lock, acked, gone>>
  <2>1. OnlyMoves(q) /\ job'[q] = Over
    BY <1>1, <1>3, <1>4, RestFacts DEF OnlyMoves
  <2>2. JobOK(q)' /\ HoldsLock(q)'
    BY <1>1, <2>1, RestFacts DEF JobOK, HoldsLock, CallPCs
  <2>3. lock' \in [Hosts -> Jobs \cup {Free}] /\ \A g \in Hosts : lock'[g] = lock[g]
    BY <1>3, <1>4
  <2> QED BY <1>1, <1>2, <1>3, <1>4, <2>1, <2>2, <2>3, RestFacts, QuietRegStep
<1>5. ASSUME NEW b, NEW record, Begins(b, record) PROVE RegInv'
  <2>1. OnlyMoves(q) /\ job'[q] = b
    BY <1>1, <1>3, <1>5 DEF OnlyMoves
  <2>2. /\ regs' \in [Hosts -> [Names -> Entries]] /\ lock' \in [Hosts -> Jobs \cup {Free}]
        /\ regs'[h][n0] = record
        /\ b.pc = "save" => lock'[h] = q
        /\ \A g \in Hosts : \/ regs'[g] = regs[g] /\ lock'[g] = lock[g]
                            \/ lock[g] \in {Free, q}
    BY <1>1, <1>2, <1>3, <1>5
  <2>3. JobOK(q)' /\ HoldsLock(q)'
    BY <1>1, <1>2, <1>5, <2>1, <2>2 DEF JobOK, HoldsLock, CallPCs
  <2>4. \A u \in Jobs : JobOK(u)' /\ HoldsLock(u)'
    BY <1>1, <1>2, <2>1, <2>2, <2>3, OthersKeep
  <2>5. acked' = [acked EXCEPT ![n0] = NoAck] /\ gone' = gone \ {n0}
    BY <1>5 DEF Contradict
  <2>6. /\ acked' = [n \in Names |-> acked'[n]] /\ acked'[n0] = NoAck
        /\ \A n \in Names \ {n0} : acked'[n] = acked[n]
    BY <1>1, <1>3, <2>5
  <2>7. /\ table' \in [Names -> Entries] /\ daemons' = [r \in Roots |-> daemons'[r]]
        /\ gone' \subseteq Names
    BY <1>2, <2>5 DEF RegInv, RegShape
  <2>8. RegShape'
    BY <1>2, <1>3, <2>1, <2>2, <2>6, <2>7, ShapeKeeps DEF OnlyMoves
  <2>9. ASSUME NEW n \in Names PROVE AckOK(n)' /\ GoneOK(n)'
    <3>1. CASE n = n0
      BY <2>5, <2>6, <3>1 DEF AckOK, GoneOK
    <3>2. CASE n # n0
      <4>1. AckOK(n)
        BY DEF RegInv
      <4>2. \A g \in Hosts : regs'[g][n] = regs[g][n]
        BY <1>1, <1>3, <1>5, <3>2
      <4>3. acked[n] # NoAck => regs'[acked[n].at][n].config = acked[n].config
        BY <4>1, <4>2 DEF AckOK
      <4>4. job'[q].pc # "replace" /\ (n \in gone' => n \in gone) /\ table'[n] = table[n]
        BY <1>2, <1>5, <2>1, <2>5
      <4> QED BY <1>1, <1>2, <2>1, <2>6, <3>2, <4>3, <4>4, RowUntouched
    <3> QED BY <3>1, <3>2
  <2>10. (odd = {} => Apart /\ \A n \in Names : RunsAsSet(n))'
    BY <1>1, <1>2, <2>1, RunsKeep
  <2> QED BY <2>4, <2>8, <2>9, <2>10 DEF RegInv
<1>6. CASE AddRegisters(q)
  <2> DEFINE record == [root |-> request[q].root, config |-> request[q].config]
             b == [Idle EXCEPT !.pc = "upsert", !.name = n0, !.copy = record]
  <2>1. CASE ~ (ValidateProviderConfig(request[q].config) /\ Addable(Reg(q), n0, request[q].root))
    BY <1>4, <1>6, <2>1 DEF AddRegisters
  <2>2. CASE ValidateProviderConfig(request[q].config) /\ Addable(Reg(q), n0, request[q].root)
    <3>1. record \in Registrations /\ record \in Entries
      BY <1>1, <2>2 DEF Registrations, Entries
    <3>2. /\ job' = [job EXCEPT ![q] = b] /\ regs' = [regs EXCEPT ![h][n0] = record]
          /\ Contradict(n0) /\ lock' = lock
      BY <1>6, <2>2 DEF AddRegisters
    <3> HIDE DEF record
    <3>3. b \in JobType /\ b.pc = "upsert" /\ b.name = n0 /\ b.copy = record
      BY <1>1, <3>1, RestFacts DEF JobType, JobPCs
    <3> HIDE DEF b
    <3>4. Begins(b, record)
      BY <3>1, <3>2, <3>3
    <3> QED BY <1>5, <3>4
  <2> QED BY <2>1, <2>2
<1>7. CASE RemoveUnregisters(q)
  <2> DEFINE b == [Idle EXCEPT !.pc = "delete", !.name = n0]
  <2>1. CASE n0 \notin Registered(Reg(q))
    BY <1>4, <1>7, <2>1 DEF RemoveUnregisters
  <2>2. CASE n0 \in Registered(Reg(q))
    <3>1. /\ job' = [job EXCEPT ![q] = b] /\ regs' = [regs EXCEPT ![h][n0] = Absent]
          /\ Contradict(n0) /\ lock' = lock
      BY <1>7, <2>2 DEF RemoveUnregisters
    <3>2. b \in JobType /\ b.pc = "delete" /\ b.name = n0
      BY <1>1, RestFacts DEF JobType, JobPCs
    <3> HIDE DEF b
    <3>3. Begins(b, Absent)
      BY <3>1, <3>2, EntryFacts
    <3> QED BY <1>5, <3>3
  <2> QED BY <2>1, <2>2
<1>8. CASE SetRegisters(q)
  <2> DEFINE old == Reg(q)[n0]
             record == [old EXCEPT !.config = request[q].config]
             b == [Idle EXCEPT !.pc = "save", !.name = n0, !.copy = record]
  <2>1. CASE ~ (ValidateProviderConfig(request[q].config) /\ n0 \in Registered(Reg(q)))
    BY <1>4, <1>8, <2>1 DEF SetRegisters
  <2>2. CASE ValidateProviderConfig(request[q].config) /\ n0 \in Registered(Reg(q))
    <3>1. old \in Registrations
      BY <1>1, <1>3, <2>2, EntryFacts DEF Reg, Registered
    <3>2. /\ job' = [job EXCEPT ![q] = b] /\ regs' = [regs EXCEPT ![h][n0] = record]
          /\ Contradict(n0) /\ lock' = [lock EXCEPT ![h] = q]
      BY <1>8, <2>2 DEF SetRegisters
    <3> HIDE DEF old
    <3>3. record \in Registrations /\ record \in Entries
      BY <1>1, <2>2, <3>1 DEF Registrations, Entries
    <3> HIDE DEF record
    <3>4. b \in JobType /\ b.pc = "save" /\ b.name = n0 /\ b.copy = record
      BY <1>1, <3>3, RestFacts DEF JobType, JobPCs
    <3> HIDE DEF b
    <3>5. Begins(b, record)
      BY <3>2, <3>3, <3>4
    <3> QED BY <1>5, <3>5
  <2> QED BY <2>1, <2>2
<1> QED BY <1>6, <1>7, <1>8 DEF CallStarts

(* A call at work has a workspace to work on.                                *)
LEMMA CallFacts ==
  ASSUME RegInv, NEW q \in DOMAIN request, job[q].pc \notin {"idle", "done"}
  PROVE  /\ q \in Jobs /\ q \in Calls /\ q \notin Hosts /\ request[q].at \in Hosts
         /\ job[q].name \in Names /\ job[q].name = request[q].name
         /\ request[q].op \in {"add", "remove", "set"}
         /\ job[q].pc \in {"upsert", "save", "shutdown"} =>
               job[q].copy \in Registrations /\ job[q].copy \in Entries
         /\ job \in [Jobs -> JobType] /\ HoldsLock(q)
<1>1. /\ q \in Jobs /\ q \in Calls /\ q \notin Hosts /\ request[q].at \in Hosts
      /\ request[q].name \in Names
  BY RequestFacts, CallsAssumption DEF RegInv, Jobs
<1>2. JobOK(q) /\ HoldsLock(q) /\ job \in [Jobs -> JobType]
  BY <1>1 DEF RegInv, RegShape
<1> QED BY <1>1, <1>2 DEF JobOK, Entries

(* The steps of a call that fail, or that touch neither table nor daemons.   *)
LEMMA CallQuietKeeps ==
  ASSUME RegInv, NEW q \in DOMAIN request,
         \/ AddUpsertFails(q) \/ AddPushes(q) \/ RemoveDeleteFails(q)
         \/ RemovePrunes(q) \/ SetSaveFails(q)
  PROVE  RegInv'
<1> DEFINE h == request[q].at
<1>1. /\ job[q].pc \in {"upsert", "push", "delete", "prune", "save"}
      /\ UNCHANGED <<table, regs, daemons, request, acked, gone, odd>>
      /\ storeFaults' = storeFaults \/ Breaks
  BY DEF AddUpsertFails, AddPushes, RemoveDeleteFails, RemovePrunes, SetSaveFails
<1>2. /\ q \in Jobs /\ q \in Calls /\ q \notin Hosts /\ h \in Hosts /\ job[q].name \in Names
      /\ job[q].name = request[q].name /\ job \in [Jobs -> JobType] /\ HoldsLock(q)
      /\ request[q].op \in {"add", "remove", "set"}
  BY <1>1, CallFacts
<1>3. clients' \in [Hosts -> [Names -> Roots \cup {NoRoot}]]
  <2>1. clients \in [Hosts -> [Names -> Roots \cup {NoRoot}]]
    BY DEF RegInv, RegShape
  <2>2. CASE RemovePrunes(q)
    <3>1. clients' = [clients EXCEPT ![h][job[q].name] = NoRoot]
      BY <2>2 DEF RemovePrunes
    <3> QED BY <1>2, <2>1, <3>1
  <2>3. CASE ~ RemovePrunes(q)
    <3>1. clients' = clients
      BY <2>3 DEF AddUpsertFails, AddPushes, RemoveDeleteFails, SetSaveFails
    <3> QED BY <2>1, <3>1
  <2> QED BY <2>2, <2>3
<1>4. /\ lock' \in [Hosts -> Jobs \cup {Free}]
      /\ \A g \in Hosts : lock'[g] = lock[g] \/ lock[g] \in {Free, q}
  <2>1. \/ lock' = lock
        \/ job[q].pc = "save" /\ lock' = [lock EXCEPT ![h] = Free]
    BY DEF AddUpsertFails, AddPushes, RemoveDeleteFails, RemovePrunes, SetSaveFails
  <2>2. lock \in [Hosts -> Jobs \cup {Free}]
    BY DEF RegInv, RegShape
  <2>3. job[q].pc = "save" => lock[h] = q
    BY <1>2 DEF HoldsLock
  <2> QED BY <1>2, <2>1, <2>2, <2>3
<1>5. CASE Leave(q)
  BY <1>1, <1>2, <1>3, <1>4, <1>5, QuietLeave
<1>6. CASE AddPushes(q)
  <2>1. /\ OnlyMoves(q) /\ job'[q].pc = "client" /\ job'[q].name = job[q].name
        /\ job[q].pc = "push"
    BY <1>2, <1>6, GotoMoves DEF AddPushes, JobPCs
  <2>2. JobOK(q)' /\ HoldsLock(q)'
    BY <1>1, <1>2, <2>1 DEF JobOK, HoldsLock, CallPCs
  <2> QED BY <1>1, <1>2, <1>3, <1>4, <2>1, <2>2, QuietRegStep
<1> QED BY <1>5, <1>6 DEF AddUpsertFails, RemoveDeleteFails, RemovePrunes, SetSaveFails

(* A step of t takes or leaves no lock but a free one and its own.           *)
OnlyLocks(t) ==
    /\ lock' \in [Hosts -> Jobs \cup {Free}]
    /\ \A g \in Hosts : lock'[g] = lock[g] \/ lock[g] \in {Free, t}

(* A step promises something of n at most.                                   *)
OnlyPromises(n) ==
    /\ acked' = [m \in Names |-> acked'[m]]
    /\ \A m \in Names \ {n} : acked'[m] = acked[m] /\ (m \in gone' => m \in gone)
    /\ gone' \subseteq gone \cup {n}

(* Of a write of the row of n by q, what holds in the state it leads to.     *)
Wrote(q, pc, n, record) ==
    /\ RegShape' /\ OnlyMoves(q) /\ job'[q].pc = pc /\ job'[q].copy = job[q].copy
    /\ \A u \in Jobs : JobOK(u)' /\ HoldsLock(u)'
    /\ \A m \in Names \ {n} : table'[m] = table[m] /\ AckOK(m)' /\ GoneOK(m)'
    /\ table'[n] = record

(* What a write of the row of n, by the call that is about to make it, has   *)
(* of the invariant for free.                                                *)
LEMMA WriteKeeps ==
  ASSUME RegInv, NEW q \in DOMAIN request, NEW n0 \in Names, n0 = job[q].name,
         NEW pc \in {"push", "prune", "shutdown"}, Goto(q, pc),
         job[q].pc \in {"upsert", "delete", "save"}, pc = "shutdown" => job[q].pc = "save",
         NEW record \in Entries, table' = [table EXCEPT ![n0] = record],
         OnlyLocks(q), OnlyPromises(n0),
         UNCHANGED <<regs, clients, daemons, request, storeFaults>>
  PROVE  Wrote(q, pc, n0, record)
<1> DEFINE h == request[q].at
<1>1. /\ q \in Jobs /\ q \in Calls /\ q \notin Hosts /\ h \in Hosts /\ n0 \in Names
      /\ n0 = request[q].name /\ job \in [Jobs -> JobType] /\ HoldsLock(q)
      /\ job[q].pc = "save" => job[q].copy \in Registrations
      /\ request[q].op \in {"add", "remove", "set"}
  BY CallFacts
<1>2. OnlyMoves(q) /\ job'[q].pc = pc /\ job'[q].name = n0 /\ job'[q].copy = job[q].copy
  <2>1. pc \in JobPCs
    BY DEF JobPCs
  <2> QED BY <1>1, <2>1, GotoMoves
<1>3. JobOK(q)' /\ HoldsLock(q)'
  BY <1>1, <1>2 DEF JobOK, HoldsLock, CallPCs
<1>5. \A u \in Jobs : JobOK(u)' /\ HoldsLock(u)'
  BY <1>1, <1>2, <1>3, OthersKeep DEF OnlyLocks
<1>6. /\ table' \in [Names -> Entries] /\ table'[n0] = record
      /\ \A n \in Names \ {n0} : table'[n] = table[n]
  BY <1>1 DEF RegInv, RegShape
<1>7. /\ regs' \in [Hosts -> [Names -> Entries]] /\ daemons' = [r \in Roots |-> daemons'[r]]
      /\ clients' \in [Hosts -> [Names -> Roots \cup {NoRoot}]] /\ gone' \subseteq Names
  BY DEF RegInv, RegShape, OnlyPromises
<1>8. RegShape'
  BY <1>2, <1>6, <1>7, ShapeKeeps DEF OnlyMoves, OnlyLocks, OnlyPromises
<1>9. ASSUME NEW n \in Names \ {n0} PROVE AckOK(n)' /\ GoneOK(n)'
  <2>1. acked[n] # NoAck => regs'[acked[n].at][n].config = acked[n].config
    BY DEF RegInv, AckOK
  <2> QED BY <1>1, <1>2, <1>6, <2>1, RowUntouched DEF OnlyPromises
<1> QED BY <1>2, <1>5, <1>6, <1>8, <1>9 DEF Wrote

(* Another workspace, whose row and caliband a write of n0 leaves.           *)
LEMMA RunsElsewhere ==
  ASSUME RegInv, odd = {}, NEW q \in Jobs, OnlyMoves(q), job[q].pc # "shutdown",
         NEW n \in Names, table'[n] = table[n], UNCHANGED <<daemons, request>>
  PROVE  RunsAsSet(n)'
<1>1. RunsAsSet(n)
  BY DEF RegInv
<1>2. ASSUME Restarting(n) PROVE Restarting(n)'
  <2>1. PICK u \in DOMAIN request : /\ request[u].name = n /\ job[u].pc = "shutdown"
                                    /\ job[u].copy.root = table[n].root
    BY <1>2 DEF Restarting
  <2>2. u \in Jobs \ {q}
    BY <2>1, RequestFacts DEF RegInv, Jobs
  <2> QED BY <2>1, <2>2 DEF Restarting, OnlyMoves
<1> QED BY <1>1, <1>2 DEF RunsAsSet

(* A row that no other row shares its root with keeps the rows apart.        *)
LEMMA ApartKeeps ==
  ASSUME Apart, NEW n0 \in Names, NEW record \in Entries, record.root # NoRoot => Aliasing(n0, record.root) = {},
         table'[n0] = record, \A n \in Names \ {n0} : table'[n] = table[n]
  PROVE  Apart'
<1>1. ASSUME NEW m \in Names \ {n0} PROVE record.root # NoRoot => table[m].root # record.root
  BY DEF Aliasing
<1> QED BY <1>1 DEF Apart

(* upsert_repo of an add: the row of a workspace without a caliband, or with *)
(* one that runs as the row says.                                            *)
LEMMA AddUpsertsKeeps ==
  ASSUME RegInv, NEW q \in DOMAIN request, AddUpserts(q)
  PROVE  RegInv'
<1>0. PICK n0 \in Names, record \in Entries : n0 = job[q].name /\ record = job[q].copy
  BY CallFacts DEF AddUpserts
<1>1. /\ job[q].pc = "upsert" /\ table' = [table EXCEPT ![n0] = record] /\ Goto(q, "push")
      /\ UNCHANGED <<regs, clients, lock, daemons, request, acked, gone, storeFaults>>
  BY <1>0 DEF AddUpserts
<1>2. /\ q \in Jobs /\ n0 \in Names /\ n0 = request[q].name
      /\ record \in Registrations /\ record \in Entries
  BY <1>0, <1>1, CallFacts
<1>3. OnlyLocks(q) /\ OnlyPromises(n0)
  BY <1>1 DEF RegInv, RegShape, OnlyLocks, OnlyPromises
<1>4. /\ RegShape' /\ OnlyMoves(q) /\ job'[q].pc = "push"
      /\ \A u \in Jobs : JobOK(u)' /\ HoldsLock(u)'
      /\ \A n \in Names \ {n0} : table'[n] = table[n] /\ AckOK(n)' /\ GoneOK(n)'
      /\ table'[n0] = record
  <2>1. Wrote(q, "push", n0, record)
    BY <1>0, <1>1, <1>2, <1>3, WriteKeeps
  <2> QED BY <2>1 DEF Wrote
<1>5. AckOK(n0)' /\ GoneOK(n0)'
  <2>1. AckOK(n0) /\ GoneOK(n0)
    BY <1>2 DEF RegInv
  <2>2. acked[n0] = NoAck /\ n0 \notin gone
    BY <1>1, <1>2, <2>1 DEF AckOK, GoneOK, NoWriteOf
  <2> QED BY <1>1, <2>2 DEF AckOK, GoneOK
<1>6. ASSUME odd' = {} PROVE Apart' /\ \A n \in Names : RunsAsSet(n)'
  <2>1. odd = {} /\ Aliasing(n0, record.root) = {} /\ daemons[record.root] \in {Down, EnvOf(record.config)}
    BY <1>0, <1>6 DEF AddUpserts
  <2>2. Apart'
    BY <1>2, <1>4, <2>1, ApartKeeps DEF RegInv
  <2>3. RunsAsSet(n0)'
    BY <1>1, <1>4, <2>1 DEF RunsAsSet
  <2>4. \A n \in Names \ {n0} : RunsAsSet(n)'
    BY <1>1, <1>2, <1>4, <2>1, RunsElsewhere
  <2> QED BY <2>2, <2>3, <2>4
<1> QED BY <1>4, <1>5, <1>6 DEF RegInv

(* delete_repo: no set of it is answered any more, and if no other call is   *)
(* at it, none will write it back.                                           *)
LEMMA RemoveDeletesKeeps ==
  ASSUME RegInv, NEW q \in DOMAIN request, RemoveDeletes(q)
  PROVE  RegInv'
<1>0. PICK n0 \in Names : n0 = job[q].name
  BY CallFacts DEF RemoveDeletes
<1>1. /\ job[q].pc = "delete" /\ table' = [table EXCEPT ![n0] = Absent] /\ Goto(q, "prune")
      /\ gone' = (IF Writers(n0) = {q} THEN gone \cup {n0} ELSE gone)
      /\ UNCHANGED <<regs, clients, lock, daemons, request, acked, odd, storeFaults>>
  BY <1>0 DEF RemoveDeletes
<1>2. q \in Jobs /\ n0 \in Names /\ n0 = request[q].name /\ Absent \in Entries
  BY <1>0, <1>1, CallFacts, EntryFacts
<1>3. OnlyLocks(q) /\ OnlyPromises(n0)
  BY <1>1 DEF RegInv, RegShape, OnlyLocks, OnlyPromises
<1>4. /\ RegShape' /\ OnlyMoves(q) /\ job'[q].pc = "prune"
      /\ \A u \in Jobs : JobOK(u)' /\ HoldsLock(u)'
      /\ \A n \in Names \ {n0} : table'[n] = table[n] /\ AckOK(n)' /\ GoneOK(n)'
      /\ table'[n0] = Absent
  <2>1. Wrote(q, "prune", n0, Absent)
    BY <1>0, <1>1, <1>2, <1>3, WriteKeeps
  <2> QED BY <2>1 DEF Wrote
<1>5. AckOK(n0)'
  <2>1. AckOK(n0)
    BY <1>2 DEF RegInv
  <2>2. acked[n0] = NoAck
    BY <1>1, <1>2, <2>1 DEF AckOK, NoWriteOf
  <2> QED BY <1>1, <2>2 DEF AckOK
<1>6. GoneOK(n0)'
  <2>1. GoneOK(n0)
    BY <1>2 DEF RegInv
  <2>2. ASSUME n0 \in gone', NEW u \in DOMAIN request, request[u].name = n0, u # q
        PROVE  job[u].pc \notin {"upsert", "save"}
    <3>1. CASE n0 \in gone
      BY <2>1, <2>2, <3>1 DEF GoneOK, NoWriteOf
    <3>2. CASE Writers(n0) = {q}
      <4>1. u \notin Writers(n0)
        BY <2>2, <3>2
      <4>2. job[u].pc \notin {"idle", "done"} => request[u].op \in {"add", "remove", "set"}
        BY CallFacts
      <4> QED BY <2>2, <4>1, <4>2 DEF Writers
    <3> QED BY <1>1, <2>2, <3>1, <3>2
  <2>3. \A u \in DOMAIN request : u # q => job'[u] = job[u]
    BY <1>4, RequestFacts DEF OnlyMoves, RegInv, Jobs
  <2>4. n0 \in gone' => NoWriteOf(n0, {"upsert", "save"})'
    BY <1>1, <1>4, <2>2, <2>3 DEF NoWriteOf
  <2> QED BY <1>4, <2>4 DEF GoneOK
<1>7. ASSUME odd' = {} PROVE Apart' /\ \A n \in Names : RunsAsSet(n)'
  <2>1. odd = {}
    BY <1>1, <1>7
  <2>2. Apart'
    BY <1>2, <1>4, <2>1, EntryFacts, ApartKeeps DEF RegInv
  <2>3. RunsAsSet(n0)'
    BY <1>4 DEF RunsAsSet
  <2>4. \A n \in Names \ {n0} : RunsAsSet(n)'
    BY <1>1, <1>2, <1>4, <2>1, RunsElsewhere
  <2> QED BY <2>2, <2>3, <2>4
<1> QED BY <1>4, <1>5, <1>6, <1>7 DEF RegInv

(* The table gets what the registry has had since the call took the lock.    *)
LEMMA SetSavesKeeps ==
  ASSUME RegInv, NEW q \in DOMAIN request, SetSaves(q)
  PROVE  RegInv'
<1>0. PICK n0 \in Names, record \in Entries : n0 = job[q].name /\ record = job[q].copy
  BY CallFacts DEF SetSaves
<1> DEFINE h == request[q].at
           answer == [at |-> h, config |-> record.config]
<1>1. /\ job[q].pc = "save" /\ table' = [table EXCEPT ![n0] = record] /\ Goto(q, "shutdown")
      /\ lock' = [lock EXCEPT ![h] = Free]
      /\ acked' = (IF Writers(n0) = {q} THEN [acked EXCEPT ![n0] = answer] ELSE acked)
      /\ odd' = odd \cup Aliasing(n0, record.root)
      /\ UNCHANGED <<regs, clients, daemons, request, gone, storeFaults>>
  BY <1>0 DEF SetSaves
<1>2. /\ q \in Jobs /\ n0 \in Names /\ n0 = request[q].name /\ h \in Hosts /\ q \in Calls
      /\ record \in Registrations /\ record \in Entries /\ q \notin Hosts /\ HoldsLock(q)
  BY <1>0, <1>1, CallFacts
<1> HIDE DEF answer
<1>3. /\ acked' = [n \in Names |-> acked'[n]]
      /\ \A n \in Names \ {n0} : acked'[n] = acked[n]
      /\ acked'[n0] = IF Writers(n0) = {q} THEN answer ELSE acked[n0]
  BY <1>1, <1>2 DEF RegInv, RegShape
<1>10. OnlyLocks(q) /\ OnlyPromises(n0)
  <2>1. lock \in [Hosts -> Jobs \cup {Free}]
    BY DEF RegInv, RegShape
  <2>2. lock[h] = q
    BY <1>1, <1>2 DEF HoldsLock
  <2>3. OnlyLocks(q)
    BY <1>1, <1>2, <2>1, <2>2 DEF OnlyLocks
  <2> QED BY <1>1, <1>3, <2>3 DEF OnlyPromises
<1>4. /\ RegShape' /\ OnlyMoves(q) /\ job'[q].pc = "shutdown" /\ job'[q].copy = record
      /\ \A u \in Jobs : JobOK(u)' /\ HoldsLock(u)'
      /\ \A n \in Names \ {n0} : table'[n] = table[n] /\ AckOK(n)' /\ GoneOK(n)'
      /\ table'[n0] = record
  <2>1. /\ Goto(q, "shutdown") /\ job[q].pc \in {"upsert", "delete", "save"}
        /\ job[q].pc = "save" /\ table' = [table EXCEPT ![n0] = record]
        /\ UNCHANGED <<regs, clients, daemons, request, storeFaults>>
    BY <1>1
  <2>2. Wrote(q, "shutdown", n0, record)
    BY <1>0, <1>10, <2>1, WriteKeeps
  <2> QED BY <1>0, <2>2 DEF Wrote
<1>5. AckOK(n0)'
  <2>1. AckOK(n0)
    BY <1>2 DEF RegInv
  <2>2. acked[n0] = NoAck
    BY <1>1, <1>2, <2>1 DEF AckOK, NoWriteOf
  <2>3. CASE Writers(n0) # {q}
    BY <1>3, <2>2, <2>3 DEF AckOK
  <2>4. CASE Writers(n0) = {q}
    <3>1. answer.at = h /\ answer.config = record.config /\ acked'[n0] = answer
      BY <1>3, <2>4 DEF answer
    <3>2. regs[h][n0] = record /\ lock[h] = q
      BY <1>0, <1>1, <1>2 DEF HoldsLock
    <3>3. ASSUME NEW u \in DOMAIN request, request[u].name = n0, u # q
          PROVE  job'[u].pc \notin {"upsert", "save", "delete"}
      <4>1. u \notin Writers(n0)
        BY <2>4, <3>3
      <4>2. job[u].pc \notin {"idle", "done"} => request[u].op \in {"add", "remove", "set"}
        BY CallFacts
      <4>3. job'[u] = job[u]
        BY <1>4, <3>3, RequestFacts DEF OnlyMoves, RegInv, Jobs
      <4> QED BY <3>3, <4>1, <4>2, <4>3 DEF Writers
    <3>4. NoWriteOf(n0, {"upsert", "save", "delete"})'
      BY <1>1, <1>4, <3>3 DEF NoWriteOf
    <3>5. job'[h].pc # "replace"
      <4>1. HoldsLock(h) /\ h \in Jobs /\ h # q
        BY <1>2 DEF RegInv, Jobs
      <4>2. job[h].pc # "replace"
        BY <1>2, <3>2, <4>1 DEF HoldsLock
      <4> QED BY <1>4, <4>1, <4>2 DEF OnlyMoves
    <3>6. regs' = regs /\ table'[n0] = record /\ h \in Hosts
      BY <1>1, <1>2, <1>4
    <3> HIDE DEF h
    <3> QED BY <3>1, <3>2, <3>4, <3>5, <3>6 DEF AckOK
  <2> QED BY <2>3, <2>4
<1>6. GoneOK(n0)'
  <2>1. GoneOK(n0)
    BY <1>2 DEF RegInv
  <2>2. n0 \notin gone
    BY <1>1, <1>2, <2>1 DEF GoneOK, NoWriteOf
  <2> QED BY <1>1, <2>2 DEF GoneOK
<1>7. ASSUME odd' = {} PROVE Apart' /\ \A n \in Names : RunsAsSet(n)'
  <2>1. odd = {} /\ Aliasing(n0, record.root) = {}
    BY <1>1, <1>7
  <2>2. Apart'
    BY <1>2, <1>4, <2>1, ApartKeeps DEF RegInv
  <2>3. Restarting(n0)'
    BY <1>1, <1>2, <1>4 DEF Restarting
  <2>4. \A n \in Names \ {n0} : RunsAsSet(n)'
    BY <1>1, <1>2, <1>4, <2>1, RunsElsewhere
  <2> QED BY <2>2, <2>3, <2>4 DEF RunsAsSet
<1> QED BY <1>4, <1>5, <1>6, <1>7 DEF RegInv

(* restart_caliband: the caliband that ran with the old environment is shut  *)
(* down, or it is noted that nobody could ask it.                            *)
LEMMA RestartKeeps ==
  ASSUME RegInv, NEW q \in DOMAIN request, RestartShutsDown(q)
  PROVE  RegInv'
<1>0. PICK n0 \in Names, record \in Registrations : n0 = job[q].name /\ record = job[q].copy
  BY CallFacts DEF RestartShutsDown
<1> DEFINE h == request[q].at
           root == clients[h][n0]
<1>1. /\ job[q].pc = "shutdown" /\ Goto(q, "client")
      /\ clients' = [clients EXCEPT ![h][n0] = NoRoot]
      /\ daemons' = (IF root = NoRoot THEN daemons ELSE [daemons EXCEPT ![root] = Down])
      /\ odd' = (IF root # record.root THEN odd \cup {"not asked"} ELSE odd)
      /\ UNCHANGED <<table, regs, lock, request, acked, gone, storeFaults>>
  BY <1>0 DEF RestartShutsDown
<1>2. /\ q \in Jobs /\ q \in Calls /\ q \notin Hosts /\ h \in Hosts /\ n0 = request[q].name
      /\ request[q].op \in {"add", "remove", "set"} /\ job \in [Jobs -> JobType]
  BY <1>0, <1>1, CallFacts
<1>3. /\ OnlyMoves(q) /\ job'[q].pc = "client" /\ job'[q].name = n0
  BY <1>0, <1>1, <1>2, GotoMoves DEF JobPCs
<1>4. JobOK(q)' /\ HoldsLock(q)'
  BY <1>1, <1>2, <1>3 DEF JobOK, HoldsLock, CallPCs
<1>5. \A u \in Jobs : JobOK(u)' /\ HoldsLock(u)'
  BY <1>1, <1>2, <1>3, <1>4, OthersKeep
<1>6. clients' \in [Hosts -> [Names -> Roots \cup {NoRoot}]]
  BY <1>1, <1>2 DEF RegInv, RegShape
<1>7. daemons' = [r \in Roots |-> daemons'[r]] /\ daemons = [r \in Roots |-> daemons[r]]
  <2>1. daemons = [r \in Roots |-> daemons[r]]
    BY DEF RegInv, RegShape
  <2>2. root \in Roots \cup {NoRoot}
    BY <1>2 DEF RegInv, RegShape
  <2> HIDE DEF root
  <2> QED BY <1>1, <2>1, <2>2
<1>8. RegShape'
  BY <1>1, <1>3, <1>6, <1>7, ShapeKeeps DEF OnlyMoves, RegInv, RegShape
<1>9. ASSUME NEW n \in Names PROVE AckOK(n)' /\ GoneOK(n)'
  <2>1. acked[n] # NoAck => regs'[acked[n].at][n].config = acked[n].config
    BY <1>1 DEF RegInv, AckOK
  <2> QED BY <1>1, <1>2, <1>3, <2>1, RowUntouched
<1>10. ASSUME odd' = {} PROVE Apart' /\ \A n \in Names : RunsAsSet(n)'
  <2>1. odd = {} /\ root = record.root /\ record.root \in Roots /\ record.root # NoRoot
    BY <1>1, <1>10, EntryFacts
  <2>2. daemons' = [daemons EXCEPT ![record.root] = Down]
    BY <1>1, <2>1
  <2>3. Apart /\ \A n \in Names : RunsAsSet(n)
    BY <2>1 DEF RegInv
  <2>4. Apart'
    BY <1>1, <2>3 DEF Apart
  <2>5. ASSUME NEW n \in Names, table[n] # Absent PROVE RunsAsSet(n)'
    <3>1. table[n].root \in Roots
      BY <2>5, EntryFacts DEF RegInv, RegShape
    <3>2. CASE table[n].root = record.root
      <4>1. daemons'[table[n].root] = Down
        BY <1>7, <2>1, <2>2, <3>2
      <4> QED BY <1>1, <4>1 DEF RunsAsSet
    <3>3. CASE table[n].root # record.root /\ Restarting(n)
      <4>1. PICK u \in DOMAIN request : /\ request[u].name = n /\ job[u].pc = "shutdown"
                                        /\ job[u].copy.root = table[n].root
        BY <3>3 DEF Restarting
      <4>2. u \in Jobs \ {q}
        BY <1>0, <3>3, <4>1, RequestFacts DEF RegInv, Jobs
      <4>3. Restarting(n)'
        BY <1>1, <1>3, <4>1, <4>2 DEF Restarting, OnlyMoves
      <4> QED BY <4>3 DEF RunsAsSet
    <3>4. CASE table[n].root # record.root /\ ~ Restarting(n)
      <4>1. daemons'[table[n].root] = daemons[table[n].root]
        BY <1>7, <2>2, <3>1, <3>4
      <4> QED BY <1>1, <2>3, <2>5, <3>4, <4>1 DEF RunsAsSet
    <3> QED BY <3>2, <3>3, <3>4
  <2>6. ASSUME NEW n \in Names, table[n] = Absent PROVE RunsAsSet(n)'
    BY <1>1, <2>6 DEF RunsAsSet
  <2> QED BY <2>4, <2>5, <2>6
<1> QED BY <1>5, <1>8, <1>9, <1>10 DEF RegInv

(* restart_caliband whose daemon lives on: this is noted, and the call goes  *)
(* on as if it had ended.                                                    *)
LEMMA OutlivedKeeps ==
  ASSUME RegInv, NEW q \in DOMAIN request, RestartOutlived(q)
  PROVE  RegInv'
<1>0. PICK n0 \in Names : n0 = job[q].name
  BY CallFacts DEF RestartOutlived
<1> DEFINE h == request[q].at
<1>1. /\ job[q].pc = "shutdown" /\ Goto(q, "client")
      /\ clients' = [clients EXCEPT ![h][n0] = NoRoot]
      /\ "outlived" \in odd'
      /\ Breaks
      /\ UNCHANGED <<table, regs, lock, daemons, request, acked, gone>>
  BY <1>0 DEF RestartOutlived
<1>2. /\ q \in Jobs /\ q \in Calls /\ q \notin Hosts /\ h \in Hosts /\ n0 = request[q].name
      /\ request[q].op \in {"add", "remove", "set"} /\ job \in [Jobs -> JobType]
  BY <1>0, <1>1, CallFacts
<1>3. /\ OnlyMoves(q) /\ job'[q].pc = "client" /\ job'[q].name = n0
  BY <1>0, <1>1, <1>2, GotoMoves DEF JobPCs
<1>4. JobOK(q)' /\ HoldsLock(q)'
  BY <1>1, <1>2, <1>3 DEF JobOK, HoldsLock, CallPCs
<1>5. \A u \in Jobs : JobOK(u)' /\ HoldsLock(u)'
  BY <1>1, <1>2, <1>3, <1>4, OthersKeep
<1>6. /\ clients' \in [Hosts -> [Names -> Roots \cup {NoRoot}]]
      /\ storeFaults' \in 0..MaxStoreFaults
  BY <1>1, <1>2, CallsAssumption DEF RegInv, RegShape, Breaks
<1>7. RegShape'
  BY <1>1, <1>3, <1>6, ShapeKeeps DEF OnlyMoves, RegInv, RegShape
<1>8. ASSUME NEW n \in Names PROVE AckOK(n)' /\ GoneOK(n)'
  <2>1. acked[n] # NoAck => regs'[acked[n].at][n].config = acked[n].config
    BY <1>1 DEF RegInv, AckOK
  <2> QED BY <1>1, <1>2, <1>3, <2>1, RowUntouched
<1> QED BY <1>1, <1>5, <1>7, <1>8 DEF RegInv

(* The initial states satisfy the invariant: no job works, no caliband runs, *)
(* and rows that share a root are noted.                                     *)
LEMMA RegInitInv == RegInit => RegInv
<1> SUFFICES ASSUME RegInit PROVE RegInv
  OBVIOUS
<1>1. PICK s \in Scenarios :
        /\ table = [n \in Names |-> IF n \in DOMAIN s.table THEN s.table[n] ELSE Absent]
        /\ regs = [h \in Hosts |-> table]
        /\ clients = [h \in Hosts |-> [n \in Names |-> NoRoot]]
        /\ lock = [h \in Hosts |-> Free]
        /\ daemons = [r \in Roots |-> Down]
        /\ request = s.calls
        /\ job = [t \in Jobs |-> IF t \in s.hosts \cup DOMAIN s.calls THEN Idle ELSE Over]
        /\ acked = [n \in Names |-> NoAck]
        /\ gone = {}
        /\ odd = UNION {Aliasing(n, table[n].root) : n \in Names}
        /\ storeFaults = s.spent
  BY DEF RegInit
<1>2. table \in [Names -> Entries]
  BY <1>1, ScenariosAssumption, EntryFacts DEF Entries
<1>3. job \in [Jobs -> JobType] /\ \A t \in Jobs : job[t].pc \in {"idle", "done"}
  BY <1>1, RestFacts
<1>4. storeFaults \in 0..MaxStoreFaults
  BY <1>1, ScenariosAssumption
<1>5. RegShape
  <2>1. regs \in [Hosts -> [Names -> Entries]]
    BY <1>1, <1>2
  <2>2. /\ clients \in [Hosts -> [Names -> Roots \cup {NoRoot}]]
        /\ lock \in [Hosts -> Jobs \cup {Free}]
        /\ daemons = [r \in Roots |-> daemons[r]] /\ acked = [n \in Names |-> acked[n]]
    BY <1>1
  <2> QED BY <1>1, <1>2, <1>3, <1>4, <2>1, <2>2 DEF RegShape
<1>6. \A t \in Jobs : JobOK(t) /\ HoldsLock(t)
  BY <1>3 DEF JobOK, HoldsLock, HostPCs, CallPCs
<1>7. \A n \in Names : AckOK(n) /\ GoneOK(n)
  BY <1>1 DEF AckOK, GoneOK
<1>8. ASSUME odd = {} PROVE Apart
  <2>1. \A m \in Names : Aliasing(m, table[m].root) = {}
    <3> SUFFICES ASSUME NEW m \in Names, NEW x \in Aliasing(m, table[m].root) PROVE FALSE
      OBVIOUS
    <3>1. x \in odd
      BY <1>1
    <3> QED BY <1>8, <3>1
  <2> QED BY <2>1 DEF Aliasing, Apart
<1>9. \A n \in Names : RunsAsSet(n)
  <2>1. ASSUME NEW n \in Names, table[n] # Absent PROVE table[n].root \in Roots
    BY <1>2, <2>1, EntryFacts
  <2> QED BY <1>1, <2>1 DEF RunsAsSet
<1> QED BY <1>5, <1>6, <1>7, <1>8, <1>9 DEF RegInv

(* Every step preserves the invariant. *)
LEMMA RegStepInv == RegInv /\ [RegNext]_regVars => RegInv'
<1> SUFFICES ASSUME RegInv, [RegNext]_regVars PROVE RegInv'
  OBVIOUS
<1>1. ASSUME NEW t, t \in Hosts \/ t \in DOMAIN request, ClientStep(t) PROVE RegInv'
  <2>1. CASE Ensure(t)
    BY <1>1, <2>1, EnsureKeeps
  <2>2. CASE ClientCached(t) \/ ClientReadsRoot(t) \/ ClientReadsEnv(t) \/ EnsureFails(t)
    BY <1>1, <2>2, ClientKeeps
  <2> QED BY <1>1, <2>1, <2>2 DEF ClientStep
<1>2. ASSUME NEW h \in Hosts, PollStep(h) PROVE RegInv'
  <2>1. CASE ClientStep(h)
    BY <1>1, <2>1
  <2>2. CASE RefreshReplaces(h)
    BY <2>2, ReplaceKeeps
  <2>3. CASE \/ RefreshLocks(h) \/ RefreshLists(h) \/ RefreshListFails(h)
             \/ RefreshSnapshots(h) \/ PollLists(h) \/ PollNext(h)
    BY <2>3, PollKeeps
  <2> QED BY <1>2, <2>1, <2>2, <2>3 DEF PollStep
<1>3. ASSUME NEW q \in DOMAIN request, CallStep(q) PROVE RegInv'
  <2>1. CASE ClientStep(q)
    BY <1>1, <2>1
  <2>2. CASE AddUpserts(q)
    BY <2>2, AddUpsertsKeeps
  <2>3. CASE RemoveDeletes(q)
    BY <2>3, RemoveDeletesKeeps
  <2>4. CASE SetSaves(q)
    BY <2>4, SetSavesKeeps
  <2>5. CASE RestartShutsDown(q)
    BY <2>5, RestartKeeps
  <2>6. CASE \/ AddUpsertFails(q) \/ AddPushes(q) \/ RemoveDeleteFails(q)
             \/ RemovePrunes(q) \/ SetSaveFails(q)
    BY <2>6, CallQuietKeeps
  <2>7. CASE RestartOutlived(q)
    BY <2>7, OutlivedKeeps
  <2> QED BY <1>3, <2>1, <2>2, <2>3, <2>4, <2>5, <2>6, <2>7 DEF CallStep
<1>4. CASE UNCHANGED regVars
  <2>1. RegShape'
    BY <1>4 DEF regVars, RegInv, RegShape
  <2>2. \A t \in Jobs : (JobOK(t) /\ HoldsLock(t))'
    BY <1>4 DEF regVars, RegInv, JobOK, HoldsLock
  <2>3. \A n \in Names : (AckOK(n) /\ GoneOK(n))'
    BY <1>4 DEF regVars, RegInv, AckOK, GoneOK, NoWriteOf
  <2>4. odd' = {} => (Apart /\ \A n \in Names : RunsAsSet(n))'
    BY <1>4 DEF regVars, RegInv, Apart, RunsAsSet, Restarting
  <2>. QED BY <2>1, <2>2, <2>3, <2>4 DEF RegInv
<1> QED BY <1>2, <1>3, <1>4, StartKeeps DEF RegNext

LEMMA RegInvHolds == RegSpec => []RegInv
<1> QED BY RegInitInv, RegStepInv, PTL DEF RegSpec

(* What a call was answered stands, for every number of replicas, names,     *)
(* roots and calls: a set configuration is that of the table and of the      *)
(* replica that set it, and a removed workspace has no row, until another    *)
(* call writes the workspace (set_repo_config, remove_workspace).            *)
THEOREM RegSoundHolds == RegSpec => []RegSound
<1>1. ASSUME RegInv PROVE RegSound
  <2>1. ASSUME NEW record \in Entries, record # Absent
        PROVE  /\ record.root \in Roots
               /\ record.config.key = "none" \/ record.config.provider \in Keyed \cup {"none"}
    <3>1. record \in Registrations
      BY <2>1, EntryFacts
    <3> QED BY <3>1 DEF Registrations, ValidateProviderConfig
  <2>2. RegTypeOK
    <3>1. /\ job \in [Jobs -> JobType] /\ lock \in [Hosts -> Jobs \cup {Free}]
          /\ clients \in [Hosts -> [Names -> Roots \cup {NoRoot}]]
          /\ table \in [Names -> Entries] /\ regs \in [Hosts -> [Names -> Entries]]
          /\ storeFaults \in 0..MaxStoreFaults
      BY <1>1 DEF RegInv, RegShape
    <3>2. \A t \in Jobs : job[t].pc \in JobPCs /\ job[t].todo \subseteq Names
      BY <3>1 DEF JobType
    <3>3. \A h \in Hosts : lock[h] \in Jobs \cup {Free}
      BY <3>1
    <3>4. \A h \in Hosts, n \in Names : clients[h][n] \in Roots \cup {NoRoot}
      BY <3>1
    <3>5. \A n \in Names : \A record \in {table[n]} \cup {regs[h][n] : h \in Hosts} : record \in Entries
      BY <3>1
    <3> QED BY <2>1, <3>1, <3>2, <3>3, <3>4, <3>5 DEF RegTypeOK
  <2>3. AckedConfigStands /\ RemovedStaysRemoved
    <3>1. \A n \in Names : AckOK(n) /\ GoneOK(n)
      BY <1>1 DEF RegInv
    <3>2. AckedConfigStands
      BY <3>1 DEF AckOK, AckedConfigStands
    <3>3. gone \subseteq Names
      BY <1>1 DEF RegInv, RegShape
    <3> QED BY <3>1, <3>2, <3>3 DEF GoneOK, RemovedStaysRemoved
  <2> QED BY <2>2, <2>3 DEF RegSound
<1> QED BY <1>1, RegInvHolds, PTL

(* The caliband of a registered workspace runs with the environment of its   *)
(* registered configuration, and has the key its spawn was admitted on, but  *)
(* for the gaps the code leaves (restart_caliband, client_for,               *)
(* validate_provider_env), whatever the environments are.                    *)
THEOREM EnvCurrentHolds == RegSpec => []EnvCurrent
<1>1. ASSUME RegInv PROVE EnvCurrent
  <2>1. ASSUME NEW n \in Names, table[n] # Absent, Writers(n) = {}, odd = {}
        PROVE  daemons[table[n].root] \in {Down, EnvOf(table[n].config)}
    <3>1. RunsAsSet(n)
      BY <1>1, <2>1 DEF RegInv
    <3>2. ASSUME Restarting(n) PROVE FALSE
      <4>1. PICK q \in DOMAIN request : request[q].name = n /\ job[q].pc = "shutdown"
        BY <3>2 DEF Restarting
      <4>2. q \in Writers(n)
        BY <1>1, <4>1, CallFacts DEF Writers
      <4> QED BY <2>1, <4>2
    <3> QED BY <2>1, <3>1, <3>2 DEF RunsAsSet
  <2>2. CalibandEnvCurrent
    BY <2>1 DEF CalibandEnvCurrent
  <2>3. SpawnHasKey
    <3> SUFFICES ASSUME NEW h \in Hosts, NEW n \in Names,
                        regs[h][n] = table[n], table[n] # Absent, Writers(n) = {}, odd = {},
                        ValidateProviderEnv(table[n].config, EnvOf(table[n].config)),
                        daemons[table[n].root] # Down,
                        table[n].config.provider \in Keyed, ~ table[n].config.base
                 PROVE  Has(daemons[table[n].root], KeyVar(table[n].config.provider))
      BY DEF SpawnHasKey
    <3>1. daemons[table[n].root] = EnvOf(table[n].config)
      BY <2>1
    <3>2. Has(EnvOf(table[n].config), KeyVar(table[n].config.provider))
      BY DEF ValidateProviderEnv
    <3> QED BY <3>1, <3>2
  <2> QED BY <2>2, <2>3 DEF EnvCurrent
<1> QED BY <1>1, RegInvHolds, PTL

=============================================================================
