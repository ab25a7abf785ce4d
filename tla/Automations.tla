---------------------------- MODULE Automations ----------------------------
(***************************************************************************)
(* One automation: the tick loops of `AutomationEngine`                     *)
(* (crates/core/src/automation.rs), one per replica, and the requests that   *)
(* create, edit, delete and fire it, over the shared `ConfigStore`          *)
(* (crates/core/src/config_store.rs, postgres_config_store.rs).              *)
(*                                                                          *)
(* Each SQL statement is one step, and any other step may come between: a    *)
(* tick loop acts on the row it listed, an edit writes back the row it read. *)
(* Time is a counter; the cron schedule is the set of its ticks.             *)
(***************************************************************************)
EXTENDS Integers, FiniteSets

CONSTANTS
    Tickers,        \* replicas, each with its tick loop
    Requests,       \* API requests
    Sessions,       \* the sets of requests that one behaviour may make, each once
    Does,           \* Does[q]: what request q asks for
    Schedule,       \* the times the cron expression names
    InitialRows,    \* the rows the table may start with
    HistoryLimit,   \* RUN_HISTORY_LIMIT
    MaxNow,         \* bound: time
    MaxFaults       \* bound: crashes, failed statements and failed spawns

Operations == {"enable", "disable", "delete", "create", "run", "trigger"}
ASSUME DoesAssumption == Does \in [Requests -> Operations]
ASSUME SessionsAssumption == Sessions \subseteq SUBSET Requests
ASSUME DistinctAssumption == Tickers \cap Requests = {}
ASSUME ScheduleAssumption == Schedule \subseteq Nat \ {0}
ASSUME AutomationBounds == HistoryLimit \in Nat \ {0} /\ MaxNow \in Nat /\ MaxFaults \in Nat

(* A row: the trigger's kind, enabled, created_at and last_fired_at; 0 is    *)
(* NULL. NoRow is a row that no automation has.                              *)
Rows == [kind : {"cron", "webhook"}, enabled : BOOLEAN, created : Nat, last : Nat]
NoRow == [kind |-> "none", enabled |-> FALSE, created |-> 0, last |-> 0]
ASSUME InitialRowsAssumption ==
    /\ InitialRows \subseteq Rows \cup {NoRow}
    /\ \A row \in InitialRows : row.last = 0

VARIABLES
    now,        \* the clock
    row,        \* the automation's row in `automations`
    runs,       \* its rows in `automation_runs`: fired_at and who fired it
    task,       \* task[c]: where a tick loop or request is, and what it holds
    fires,      \* fires[t]: agents spawned for scheduled tick t, up to two
    deleted,    \* a DELETE of the row was executed
    slept,      \* history variable: the ticks that passed while the row was disabled
    faults

autoVars == <<now, row, runs, task, fires, deleted, slept, faults>>

Tasks == Tickers \cup Requests
(* `at` is the tick or the time of a fire, `copy` the row that was read. *)
Rest == [pc |-> "idle", at |-> 0, copy |-> NoRow]
Finished == [pc |-> "done", at |-> 0, copy |-> NoRow]
(* A tick loop goes on to its next round; a request is made once. *)
End(c) == task' = [task EXCEPT ![c] = IF c \in Tickers THEN Rest ELSE Finished]
Fault == faults < MaxFaults /\ faults' = faults + 1

Init ==
    /\ now = 0
    /\ row \in InitialRows
    /\ runs = {}
    /\ \E session \in Sessions :
          task = [c \in Tasks |-> IF c \in Requests \ session THEN Finished ELSE Rest]
    /\ fires = [t \in Schedule |-> 0]
    /\ deleted = FALSE
    /\ slept = {}
    /\ faults = 0

(* Time passes, and a tick with it that the automation sleeps through. *)
Advance ==
    /\ now < MaxNow
    /\ now' = now + 1
    /\ slept' = IF row \in Rows /\ ~ row.enabled THEN slept \cup ({now + 1} \cap Schedule)
                ELSE slept
    /\ UNCHANGED <<row, runs, task, fires, deleted, faults>>

(***************************************************************************)
(* tick_automations.                                                        *)
(***************************************************************************)
(* The last fire if there was one, otherwise the creation time. *)
Anchor(r) == IF r.last # 0 THEN r.last ELSE r.created

(* Mutant: a tick is owed only at the time it names. *)
ElapsedNow(r) == {t \in Schedule : Anchor(r) < t /\ t = now}

(* due_fire: the ticks since the anchor; only the newest of them is owed. *)
Elapsed(r) == {t \in Schedule : Anchor(r) < t /\ t <= now}

(* The list, and the decision on the row it returned. *)
TickLists(c) ==
    /\ task[c].pc = "idle"
    /\ row \in Rows /\ row.enabled /\ row.kind = "cron"
    /\ \E t \in Elapsed(row) :
          /\ \A u \in Elapsed(row) : u <= t
          /\ task' = [task EXCEPT ![c] = [pc |-> "claim", at |-> t, copy |-> NoRow]]
    /\ UNCHANGED <<now, row, runs, fires, deleted, slept, faults>>

(* Mutant: the comparison lets the same tick be claimed again. *)
ClaimableAgain(t) == row \in Rows /\ row.last <= t

(* WHERE id = ? AND (last_fired_at IS NULL OR last_fired_at < ?) *)
Claimable(t) == row \in Rows /\ row.last < t

(* claim_automation_fire. *)
Claim(c) ==
    /\ task[c].pc = "claim" /\ Claimable(task[c].at)
    /\ row' = [row EXCEPT !.last = task[c].at]
    /\ task' = [task EXCEPT ![c].pc = "spawn"]
    /\ UNCHANGED <<now, runs, fires, deleted, slept, faults>>

(* Another replica has this tick, or the row is gone. *)
ClaimLost(c) ==
    /\ task[c].pc = "claim" /\ ~ Claimable(task[c].at)
    /\ End(c)
    /\ UNCHANGED <<now, row, runs, fires, deleted, slept, faults>>

(* The statement failed, before or after it took effect. *)
ClaimFails(c) ==
    /\ task[c].pc = "claim" /\ Fault
    /\ \/ UNCHANGED row
       \/ Claimable(task[c].at) /\ row' = [row EXCEPT !.last = task[c].at]
    /\ End(c)
    /\ UNCHANGED <<now, runs, fires, deleted, slept>>

(***************************************************************************)
(* run_automation and save_run, for tick loops and requests.                *)
(***************************************************************************)
Spawn(c) ==
    /\ task[c].pc = "spawn"
    /\ fires' = IF c \in Tickers
                THEN [fires EXCEPT ![task[c].at] = IF @ < 2 THEN @ + 1 ELSE @] ELSE fires
    /\ task' = [task EXCEPT ![c].pc = "record"]
    /\ UNCHANGED <<now, row, runs, deleted, slept, faults>>

(* The template did not fit the payload, or the spawn failed: the failure is *)
(* recorded and the claim stands.                                            *)
SpawnFails(c) ==
    /\ task[c].pc = "spawn" /\ Fault
    /\ task' = [task EXCEPT ![c].pc = "record"]
    /\ UNCHANGED <<now, row, runs, fires, deleted, slept>>

(* record_run: the insert. *)
RecordRun(c) ==
    /\ task[c].pc = "record"
    /\ runs' = runs \cup {[at |-> task[c].at, by |-> c]}
    /\ task' = [task EXCEPT ![c].pc = "trim"]
    /\ UNCHANGED <<now, row, fires, deleted, slept, faults>>

RecordRunFails(c) ==
    /\ task[c].pc = "record" /\ Fault
    /\ End(c)
    /\ UNCHANGED <<now, row, runs, fires, deleted, slept>>

(* Mutant: one run too many is kept. *)
NewestRunsOffByOne(kept) ==
    /\ kept \subseteq runs
    /\ Cardinality(kept) = IF Cardinality(runs) <= HistoryLimit THEN Cardinality(runs)
                           ELSE HistoryLimit + 1
    /\ \A x \in kept, y \in runs \ kept : y.at <= x.at

(* ORDER BY fired_at DESC LIMIT ?; runs that fired together are in any order. *)
NewestRuns(kept) ==
    /\ kept \subseteq runs
    /\ Cardinality(kept) = IF Cardinality(runs) < HistoryLimit THEN Cardinality(runs)
                           ELSE HistoryLimit
    /\ \A x \in kept, y \in runs \ kept : y.at <= x.at

TrimRuns(c) ==
    /\ task[c].pc = "trim"
    /\ \E kept \in SUBSET runs : NewestRuns(kept) /\ runs' = kept
    /\ End(c)
    /\ UNCHANGED <<now, row, fires, deleted, slept, faults>>

(***************************************************************************)
(* Requests.                                                                *)
(***************************************************************************)
(* Mutant: the edit writes back the last_fired_at it read. *)
UpsertWritesLast(r) == row' = r

(* upsert_automation: a new row has no last_fired_at, an old one keeps its. *)
Upsert(r) == row' = [r EXCEPT !.last = IF row \in Rows THEN row.last ELSE 0]

(* set_automation_enabled reads the row... *)
SetEnabledReads(q) ==
    /\ task[q].pc = "idle" /\ Does[q] \in {"enable", "disable"}
    /\ IF row \in Rows
       THEN task' = [task EXCEPT ![q] =
                       [pc |-> "upsert", at |-> 0,
                        copy |-> [row EXCEPT !.enabled = (Does[q] = "enable")]]]
       ELSE End(q)
    /\ UNCHANGED <<now, row, runs, fires, deleted, slept, faults>>

(* create_automation checks that there is none... *)
CreateChecks(q) ==
    /\ task[q].pc = "idle" /\ Does[q] = "create"
    /\ IF row = NoRow
       THEN \E body \in [kind : {"cron", "webhook"}, enabled : BOOLEAN,
                          created : {now}, last : {0}] :
               task' = [task EXCEPT ![q] = [pc |-> "upsert", at |-> 0, copy |-> body]]
       ELSE End(q)
    /\ UNCHANGED <<now, row, runs, fires, deleted, slept, faults>>

(* ... and each writes its row. *)
RequestUpserts(q) ==
    /\ task[q].pc = "upsert"
    /\ Upsert(task[q].copy)
    /\ End(q)
    /\ UNCHANGED <<now, runs, fires, deleted, slept, faults>>

(* delete_automation: the runs, then the row. *)
DeleteRuns(q) ==
    /\ task[q].pc = "idle" /\ Does[q] = "delete"
    /\ runs' = {}
    /\ task' = [task EXCEPT ![q].pc = "delete"]
    /\ UNCHANGED <<now, row, fires, deleted, slept, faults>>

DeleteRow(q) ==
    /\ task[q].pc = "delete"
    /\ row' = NoRow
    /\ deleted' = TRUE
    /\ End(q)
    /\ UNCHANGED <<now, runs, fires, slept, faults>>

(* fire_automation: whatever the trigger, enabled or not. *)
FireNow(q) ==
    /\ task[q].pc = "idle" /\ Does[q] = "run"
    /\ IF row \in Rows
       THEN task' = [task EXCEPT ![q] = [pc |-> "spawn", at |-> now, copy |-> NoRow]]
       ELSE End(q)
    /\ UNCHANGED <<now, row, runs, fires, deleted, slept, faults>>

(* trigger_webhook, on a request whose signature verifies. *)
TriggerWebhook(q) ==
    /\ task[q].pc = "idle" /\ Does[q] = "trigger"
    /\ IF row \in Rows /\ row.kind = "webhook" /\ row.enabled
       THEN task' = [task EXCEPT ![q] = [pc |-> "spawn", at |-> now, copy |-> NoRow]]
       ELSE End(q)
    /\ UNCHANGED <<now, row, runs, fires, deleted, slept, faults>>

(* The replica dies between two statements. *)
Crash(c) ==
    /\ task[c].pc \notin {"idle", "done"} /\ Fault
    /\ End(c)
    /\ UNCHANGED <<now, row, runs, fires, deleted, slept>>

FireStep(c) ==
    Spawn(c) \/ SpawnFails(c) \/ RecordRun(c) \/ RecordRunFails(c) \/ TrimRuns(c)

TickStep(c) ==
    TickLists(c) \/ Claim(c) \/ ClaimLost(c) \/ ClaimFails(c) \/ FireStep(c)

RequestStep(q) ==
    \/ SetEnabledReads(q) \/ CreateChecks(q) \/ RequestUpserts(q)
    \/ DeleteRuns(q) \/ DeleteRow(q) \/ FireNow(q) \/ TriggerWebhook(q) \/ FireStep(q)

Next ==
    \/ Advance
    \/ \E c \in Tickers : TickStep(c)
    \/ \E q \in Requests : RequestStep(q)
    \/ \E c \in Tasks : Crash(c)

(* A tick loop runs again and again on every replica, and a request that has *)
(* begun goes on.                                                            *)
Fairness ==
    /\ \A c \in Tickers : WF_autoVars(TickStep(c))
    /\ \A q \in Requests : WF_autoVars(task[q].pc # "idle" /\ RequestStep(q))

Spec == Init /\ [][Next]_autoVars /\ Fairness

(***************************************************************************)
(* Properties.                                                              *)
(***************************************************************************)
(* Every variable has its type; a tick loop claims and fires only times the *)
(* schedule names.                                                          *)
AutomationTypeOK ==
    /\ now \in 0..MaxNow /\ faults \in 0..MaxFaults
    /\ row \in Rows \cup {NoRow}
    /\ \A x \in runs : x.at \in 0..now /\ x.by \in Tasks
    /\ task \in [Tasks -> [pc : {"idle", "claim", "spawn", "record", "trim", "upsert",
                                 "delete", "done"},
                           at : Nat, copy : Rows \cup {NoRow}]]
    /\ \A c \in Tickers : task[c].pc \in {"claim", "spawn", "record", "trim"} =>
                              task[c].at \in Schedule
    /\ fires \in [Schedule -> 0..2]
    /\ deleted \in BOOLEAN
    /\ slept \subseteq Schedule

(* A scheduled tick spawns at most one agent, whichever replicas notice it   *)
(* and however late they act on the list they read (claim_automation_fire:   *)
(* "exactly one is told to act"), and what was spawned is on record as       *)
(* claimed. Deleting the automation forgets what was claimed, so it is left  *)
(* out.                                                                      *)
TickOnce ==
    ~ deleted => \A t \in Schedule :
        fires[t] # 0 => fires[t] = 1 /\ row \in Rows /\ t <= row.last

(* Two creates of one id may both find no row (create_automation). *)
OneCreator == \A q, u \in Requests : Does[q] = "create" /\ Does[u] = "create" => q = u

(* A new automation waits for its next tick: no replica claims a tick from   *)
(* before it was created (due_fire: "instead of firing the instant it is     *)
(* saved"). A second create that races the first may overwrite its row with  *)
(* a later creation time, so it is left out, as a deletion is.               *)
WaitsForNextTick ==
    [][(row \in Rows /\ row' \in Rows /\ row'.last # row.last /\ ~ deleted /\ OneCreator)
          => row'.last > row.created]_autoVars

(* While the row exists its last_fired_at never goes back: an edit that read *)
(* the row before a claim does not undo the claim (upsert_automation: "Does  *)
(* not write last_fired_at").                                                *)
ClaimStands ==
    [][(row \in Rows /\ row' \in Rows) => row'.last >= row.last]_autoVars

(* No tick that passes while the automation is enabled is passed over: it is *)
(* claimed, alone or with the later one it coalesced into, as long as some   *)
(* replica runs and nobody disables the automation first. Of a tick that     *)
(* passed while it was disabled nothing is promised here (NothingReplayed).  *)
NoTickSkipped ==
    \A t \in Schedule :
        (/\ row \in Rows /\ row.enabled /\ row.kind = "cron"
         /\ Anchor(row) < t /\ t <= now /\ t \notin slept)
            ~> (row = NoRow \/ ~ row.enabled \/ row.last >= t)

(* "Disabling and re-enabling does not replay the ticks that elapsed         *)
(* meanwhile" (set_automation_enabled): no agent is spawned for a tick that  *)
(* passed while the automation was disabled. The code breaks it: the anchor  *)
(* stays where it was, so the newest of these ticks is due once the          *)
(* automation is enabled.                                                    *)
NothingReplayed == \A t \in slept : fires[t] = 0

(* The run history is bounded although each run is inserted and trimmed in   *)
(* two statements: it exceeds the limit by the trims that are still to come  *)
(* or that a crash prevented, no more (record_run: "history stays bounded    *)
(* even if nothing ever reads it").                                          *)
HistoryBounded ==
    Cardinality(runs) <=
        HistoryLimit + faults + Cardinality({c \in Tasks : task[c].pc = "trim"})

(* The tables of the automations stay well formed, the history among them    *)
(* bounded (record_run).                                                     *)
AutomationSound == AutomationTypeOK /\ HistoryBounded

(* Every tick that passes while the automation is enabled is claimed, and    *)
(* none from before it was created (due_fire).                               *)
TicksKept == WaitsForNextTick /\ NoTickSkipped

============================================================================
