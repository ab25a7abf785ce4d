------------------------------ MODULE Emitter ------------------------------
(***************************************************************************)
(* The event pipeline of `Emitter` (crates/core/src/fleet.rs): every task   *)
(* of a prosperod replica that observes something calls `emit`, which       *)
(* allocates a per-stream `seq`, appends the event to the durable store     *)
(* and publishes it on the replica's live bus.                              *)
(*                                                                          *)
(* The model follows ONE stream key. The seq cache, the UNIQUE index and    *)
(* the high-water read are all per stream key, so streams do not interact.  *)
(* Several replicas may write the same stream (the API replica emits        *)
(* AgentSpawned while the lease owner emits the rest), and on one replica   *)
(* several tasks do: the poll loop (StatusChanged) and the attach task      *)
(* (Output, AgentFinished) of the same agent.                               *)
(*                                                                          *)
(* Every `.await` of the code is a step boundary. The seq cache lock is     *)
(* held for one step at a time, as in the code.                             *)
(***************************************************************************)
EXTENDS Integers, Sequences, FiniteSets, SequencesExt, FiniteSetsExt

CONSTANTS
    Replicas,       \* prosperod processes sharing one durable store
    Tasks,          \* tasks that call emit
    Home,           \* Home[t]: the replica task t runs on
    Script,         \* Script[t]: the kinds of event t emits, in order
    UniqueIndex,    \* the store has UNIQUE(stream_key, seq): SQL yes, JSONL no
    SeqConflictRetries,  \* SEQ_CONFLICT_RETRIES
    MaxAppendFaults,     \* bound: store errors of append
    MaxReadFaults,       \* bound: store errors of high_water
    MaxCrashes,          \* bound: replica crashes
    MaxPrunes            \* bound: retention sweeps

Kinds == {"output", "finished"}

ASSUME ReplicasAssumption == IsFiniteSet(Replicas)
ASSUME HomeAssumption == Home \in [Tasks -> Replicas]
ASSUME ScriptAssumption == Script \in [Tasks -> Seq(Kinds)]
ASSUME IndexAssumption == UniqueIndex \in BOOLEAN
ASSUME BoundsAssumption ==
    /\ SeqConflictRetries \in Nat
    /\ MaxAppendFaults \in Nat
    /\ MaxReadFaults \in Nat
    /\ MaxCrashes \in Nat
    /\ MaxPrunes \in Nat

VARIABLES
    seqs,       \* seqs[r]: the cached counter of the stream; 0 = no entry
    log,        \* the durable events of the stream
    prunedTo,   \* history variable: the highest seq that retention has deleted
    bus,        \* bus[r]: everything published on r's live bus since r started
    pc,         \* pc[t]: where t is in `emit`
    ev,         \* ev[t]: the event t is emitting
    seeded,     \* seeded[t]: the high-water t read on the slow path
    attempts,   \* attempts[t]: conflict retries of the current append
    emitted,    \* emitted[t]: calls of `emit` t has made
    appendFaults, readFaults, crashes, prunes

vars == <<seqs, log, prunedTo, bus, pc, ev, seeded, attempts, emitted,
          appendFaults, readFaults, crashes, prunes>>

faultVars == <<appendFaults, readFaults, crashes, prunes>>

(***************************************************************************)
(* A FleetEvent. `src` and `n` are its identity (the n-th call of emit by    *)
(* task src); a StorePersistFailed marker has kind "gap", the identity of   *)
(* the event that was lost, and its seq in `lost`.                          *)
(***************************************************************************)
Event == [seq : Nat, src : Tasks, n : Nat, kind : Kinds \cup {"gap"}, lost : Nat]

(* Between two calls of emit the locals of a task hold nothing. *)
NoEvent(t) == [seq |-> 0, src |-> t, n |-> 0, kind |-> "output", lost |-> 0]

SeqsOf(S) == {e.seq : e \in S}

(* Store::high_water: MAX(seq) over the rows still there, 0 if none. *)
HighWater == Max(SeqsOf(log) \cup {0})

PCs == {"idle", "next_seq", "high_water", "reseeded", "append", "publish", "publish_lost"}

Init ==
    /\ seqs = [r \in Replicas |-> 0]
    /\ log = {}
    /\ prunedTo = 0
    /\ bus = [r \in Replicas |-> <<>>]
    /\ pc = [t \in Tasks |-> "idle"]
    /\ ev = [t \in Tasks |-> NoEvent(t)]
    /\ seeded = [t \in Tasks |-> 0]
    /\ attempts = [t \in Tasks |-> 0]
    /\ emitted = [t \in Tasks |-> 0]
    /\ appendFaults \in 0..MaxAppendFaults /\ readFaults \in 0..MaxReadFaults
    /\ crashes \in 0..MaxCrashes /\ prunes \in 0..MaxPrunes

(***************************************************************************)
(* emit: the call. Its first act is next_event, i.e. next_seq.              *)
(***************************************************************************)
Emit(t) ==
    /\ pc[t] = "idle"
    /\ emitted[t] < Len(Script[t])
    /\ emitted' = [emitted EXCEPT ![t] = @ + 1]
    /\ ev' = [ev EXCEPT ![t] = [seq |-> 0, src |-> t, n |-> emitted[t] + 1,
                               kind |-> Script[t][emitted[t] + 1], lost |-> 0]]
    /\ pc' = [pc EXCEPT ![t] = "next_seq"]
    /\ UNCHANGED <<seqs, log, prunedTo, bus, seeded, attempts, faultVars>>

(* The counter becomes `next` and the event carries it. *)
Allocate(t, next) ==
    /\ seqs' = [seqs EXCEPT ![Home[t]] = next]
    /\ ev' = [ev EXCEPT ![t].seq = next]
    /\ pc' = [pc EXCEPT ![t] = "append"]

(* next_seq, fast path: the counter is cached. *)
NextSeqCached(t) ==
    /\ pc[t] = "next_seq"
    /\ seqs[Home[t]] # 0
    /\ Allocate(t, seqs[Home[t]] + 1)
    /\ UNCHANGED <<log, prunedTo, bus, seeded, attempts, emitted, faultVars>>

(* next_seq, first lock section misses: go and read the store, unlocked. *)
NextSeqMiss(t) ==
    /\ pc[t] = "next_seq"
    /\ seqs[Home[t]] = 0
    /\ pc' = [pc EXCEPT ![t] = "high_water"]
    /\ UNCHANGED <<seqs, log, prunedTo, bus, ev, seeded, attempts, emitted, faultVars>>

ReadHighWater(t) ==
    /\ pc[t] = "high_water"
    /\ seeded' = [seeded EXCEPT ![t] = HighWater]
    /\ pc' = [pc EXCEPT ![t] = "reseeded"]
    /\ UNCHANGED <<seqs, log, prunedTo, bus, ev, attempts, emitted, faultVars>>

(* The read failed: the code logs a warning and starts at 0. *)
ReadHighWaterFails(t) ==
    /\ pc[t] = "high_water"
    /\ readFaults < MaxReadFaults
    /\ readFaults' = readFaults + 1
    /\ seeded' = [seeded EXCEPT ![t] = 0]
    /\ pc' = [pc EXCEPT ![t] = "reseeded"]
    /\ UNCHANGED <<seqs, log, prunedTo, bus, ev, attempts, emitted,
                   appendFaults, crashes, prunes>>

(* Mutant: the second lock section trusts the read without re-checking. *)
NextSeqSeededBlindly(t) ==
    /\ pc[t] = "reseeded"
    /\ Allocate(t, seeded[t] + 1)
    /\ seeded' = [seeded EXCEPT ![t] = 0]
    /\ UNCHANGED <<log, prunedTo, bus, attempts, emitted, faultVars>>

(* next_seq, second lock section: re-check the cache, else use the read. *)
NextSeqSeeded(t) ==
    /\ pc[t] = "reseeded"
    /\ Allocate(t, IF seqs[Home[t]] # 0 THEN seqs[Home[t]] + 1 ELSE seeded[t] + 1)
    /\ seeded' = [seeded EXCEPT ![t] = 0]
    /\ UNCHANGED <<log, prunedTo, bus, attempts, emitted, faultVars>>

(***************************************************************************)
(* append_with_seq_retry: Store::append succeeds, conflicts or fails.       *)
(***************************************************************************)
Conflicts(e) == UniqueIndex /\ e.seq \in SeqsOf(log)

AppendOk(t) ==
    /\ pc[t] = "append"
    /\ ~ Conflicts(ev[t])
    /\ log' = log \cup {ev[t]}
    /\ pc' = [pc EXCEPT ![t] = "publish"]
    /\ UNCHANGED <<seqs, prunedTo, bus, ev, seeded, attempts, emitted, faultVars>>

(* SeqConflict with retries left: reseed_seq, then next_seq again. *)
AppendConflict(t) ==
    /\ pc[t] = "append"
    /\ Conflicts(ev[t])
    /\ attempts[t] < SeqConflictRetries
    /\ attempts' = [attempts EXCEPT ![t] = @ + 1]
    /\ seqs' = [seqs EXCEPT ![Home[t]] = 0]
    /\ pc' = [pc EXCEPT ![t] = "next_seq"]
    /\ UNCHANGED <<log, prunedTo, bus, ev, seeded, emitted, faultVars>>

(* After an append error: the event is published all the same, and an       *)
(* ordinary one is followed by a gap marker.                                *)
AppendError(t) ==
    pc' = [pc EXCEPT ![t] = IF ev[t].kind = "gap" THEN "publish" ELSE "publish_lost"]

(* Mutant: the exhausted budget is reported as success. *)
AppendConflictSwallowed(t) ==
    /\ pc[t] = "append"
    /\ Conflicts(ev[t])
    /\ attempts[t] = SeqConflictRetries
    /\ pc' = [pc EXCEPT ![t] = "publish"]
    /\ UNCHANGED <<seqs, log, prunedTo, bus, ev, seeded, attempts, emitted, faultVars>>

(* SeqConflict with the retry budget spent: returned like any other error. *)
AppendConflictExhausted(t) ==
    /\ pc[t] = "append"
    /\ Conflicts(ev[t])
    /\ attempts[t] = SeqConflictRetries
    /\ AppendError(t)
    /\ UNCHANGED <<seqs, log, prunedTo, bus, ev, seeded, attempts, emitted, faultVars>>

(* Mutant: any store error is retried with a fresh seq. *)
AppendFailsRetried(t) ==
    /\ pc[t] = "append"
    /\ appendFaults < MaxAppendFaults
    /\ appendFaults' = appendFaults + 1
    /\ \/ log' = log
       \/ ~ Conflicts(ev[t]) /\ log' = log \cup {ev[t]}
    /\ pc' = [pc EXCEPT ![t] = "next_seq"]
    /\ UNCHANGED <<seqs, prunedTo, bus, ev, seeded, attempts, emitted,
                   readFaults, crashes, prunes>>

(***************************************************************************)
(* Any other store error. A store behind a connection can commit the row    *)
(* and still report an error, so the row may or may not be there; the code  *)
(* never retries, so it is not written twice.                               *)
(***************************************************************************)
AppendFails(t) ==
    /\ pc[t] = "append"
    /\ appendFaults < MaxAppendFaults
    /\ appendFaults' = appendFaults + 1
    /\ \/ log' = log
       \/ ~ Conflicts(ev[t]) /\ log' = log \cup {ev[t]}
    /\ AppendError(t)
    /\ UNCHANGED <<seqs, prunedTo, bus, ev, seeded, attempts, emitted,
                   readFaults, crashes, prunes>>

(***************************************************************************)
(* bus.publish, whatever became of the append. A marker that could not be   *)
(* persisted is only published.                                             *)
(***************************************************************************)
Publish(t) ==
    /\ pc[t] = "publish"
    /\ bus' = [bus EXCEPT ![Home[t]] = Append(@, ev[t])]
    /\ ev' = [ev EXCEPT ![t] = NoEvent(t)]
    /\ attempts' = [attempts EXCEPT ![t] = 0]
    /\ pc' = [pc EXCEPT ![t] = "idle"]
    /\ UNCHANGED <<seqs, log, prunedTo, seeded, emitted, faultVars>>

(* Publish, then emit_persist_gap starts a marker naming the lost seq. *)
PublishLost(t) ==
    /\ pc[t] = "publish_lost"
    /\ bus' = [bus EXCEPT ![Home[t]] = Append(@, ev[t])]
    /\ ev' = [ev EXCEPT ![t] = [seq |-> 0, src |-> t, n |-> ev[t].n,
                               kind |-> "gap", lost |-> ev[t].seq]]
    /\ attempts' = [attempts EXCEPT ![t] = 0]
    /\ pc' = [pc EXCEPT ![t] = "next_seq"]
    /\ UNCHANGED <<seqs, log, prunedTo, seeded, emitted, faultVars>>

(***************************************************************************)
(* A replica dies and restarts: its cache, its bus and its half-done emits   *)
(* are gone, the durable log stays.                                         *)
(***************************************************************************)
Crash(r) ==
    /\ crashes < MaxCrashes
    /\ crashes' = crashes + 1
    /\ seqs' = [seqs EXCEPT ![r] = 0]
    /\ bus' = [bus EXCEPT ![r] = <<>>]
    /\ pc' = [t \in Tasks |-> IF Home[t] = r THEN "idle" ELSE pc[t]]
    /\ ev' = [t \in Tasks |-> IF Home[t] = r THEN NoEvent(t) ELSE ev[t]]
    /\ seeded' = [t \in Tasks |-> IF Home[t] = r THEN 0 ELSE seeded[t]]
    /\ attempts' = [t \in Tasks |-> IF Home[t] = r THEN 0 ELSE attempts[t]]
    /\ UNCHANGED <<log, prunedTo, emitted,
                   appendFaults, readFaults, prunes>>

(***************************************************************************)
(* Store::prune: age-based retention deletes a prefix of the stream. The    *)
(* age is days and an emit takes milliseconds, so nothing younger than an   *)
(* event still being written is deleted.                                    *)
(***************************************************************************)
Prune ==
    /\ prunes < MaxPrunes
    /\ prunes' = prunes + 1
    /\ \E cut \in SeqsOf(log) :
          /\ \A t \in Tasks : pc[t] \in {"append", "publish", "publish_lost"} => cut < ev[t].seq
          /\ log' = {e \in log : e.seq > cut}
          /\ prunedTo' = Max({prunedTo, cut})
    /\ UNCHANGED <<seqs, bus, pc, ev, seeded, attempts, emitted,
                   appendFaults, readFaults, crashes>>

Step(t) ==
    \/ NextSeqCached(t) \/ NextSeqMiss(t)
    \/ ReadHighWater(t) \/ ReadHighWaterFails(t)
    \/ NextSeqSeeded(t)
    \/ AppendOk(t) \/ AppendConflict(t) \/ AppendConflictExhausted(t) \/ AppendFails(t)
    \/ Publish(t) \/ PublishLost(t)

Next ==
    \/ \E t \in Tasks : Emit(t) \/ Step(t)
    \/ \E r \in Replicas : Crash(r)
    \/ Prune

(* The runtime keeps polling a task that is inside `emit`. *)
Fairness == \A t \in Tasks : WF_vars(Step(t))

Spec == Init /\ [][Next]_vars /\ Fairness
----------------------------------------------------------------------------
Published(r) == Range(bus[r])

(***************************************************************************)
(* Types.                                                                   *)
(***************************************************************************)
TypeOK ==
    /\ seqs \in [Replicas -> Nat]
    /\ log \subseteq Event
    /\ prunedTo \in Nat
    /\ bus \in [Replicas -> Seq(Event)]
    /\ pc \in [Tasks -> PCs]
    /\ ev \in [Tasks -> Event]
    /\ seeded \in [Tasks -> Nat]
    /\ attempts \in [Tasks -> 0..SeqConflictRetries]
    /\ emitted \in [Tasks -> Nat]
    /\ appendFaults \in 0..MaxAppendFaults
    /\ readFaults \in 0..MaxReadFaults
    /\ crashes \in 0..MaxCrashes
    /\ prunes \in 0..MaxPrunes

(***************************************************************************)
(* The durable log never holds two events with one seq. On a store without  *)
(* the unique index (JsonlStore) nothing but the cache protocol of          *)
(* next_seq (record before append, re-check after the unlocked high-water   *)
(* read) keeps it so.                                                       *)
(***************************************************************************)
DurableSeqUnique ==
    \A e, f \in log : e.seq = f.seq => e = f

(***************************************************************************)
(* One task's events are durable in the order it emitted them, also after a *)
(* restart: the n of its rows grows with the seq (a gap marker follows the  *)
(* event it reports). A failed high_water read starts at 0 and may break it.*)
(* So may a conflict on a replica with a second writer: reseed_seq forgets  *)
(* the counter, and a task that read high_water long before seeds it anew   *)
(* with what it read then. So this is promised of a replica's only writer   *)
(* of the stream, and of every writer on a store that reports no conflict.  *)
(***************************************************************************)
InOrder(t) == UniqueIndex => \A u \in Tasks : Home[u] = Home[t] => u = t

DurableOrder ==
    readFaults = 0 =>
        \A e, f \in log :
            InOrder(e.src) /\ e.src = f.src /\ e.seq < f.seq => e.n <= f.n

(***************************************************************************)
(* Retrying a conflicting append never writes an event twice.               *)
(***************************************************************************)
DurableOnce ==
    \A e, f \in log :
        e.src = f.src /\ e.n = f.n /\ e.kind = f.kind => e = f

(***************************************************************************)
(* What a live subscriber saw is in history under the seq it saw, or a gap   *)
(* marker naming that seq has been published on the same bus, or the task   *)
(* is on its way to publishing one (#25: the marker keeps the live and the  *)
(* durable view from silently diverging).                                   *)
(***************************************************************************)
NoSilentLoss ==
    \A r \in Replicas : \A e \in Published(r) :
        e.kind # "gap" =>
            \/ e \in log \/ e.seq <= prunedTo
            \/ \E m \in Published(r) : m.kind = "gap" /\ m.lost = e.seq
            \/ \E t \in Tasks :
                  Home[t] = r /\ pc[t] # "idle" /\ ev[t].kind = "gap" /\ ev[t].lost = e.seq

(***************************************************************************)
(* Once nothing moves no emit is under way: conflicts are retried a bounded *)
(* number of times.                                                         *)
(***************************************************************************)
EmitsEnded == \A t \in Tasks : pc[t] = "idle"

(* What a stream owes its readers: its rows are well formed and in the order *)
(* of their seqs, and what a subscriber saw live is not silently missing     *)
(* from history, whatever fails in emit.                                     *)
EmitterSound == TypeOK /\ DurableOrder /\ NoSilentLoss

============================================================================
