------------------------------- MODULE Leases -------------------------------
(***************************************************************************)
(* Who drives one agent's stream in a cluster: `LeasedOwnership`            *)
(* (crates/core/src/leased_ownership.rs), a Postgres lease row per stream,  *)
(* and `start_attach` (crates/core/src/fleet.rs), which claims the lease,   *)
(* runs an attach task and releases the lease when the task ends.           *)
(*                                                                          *)
(* The model follows ONE stream key. The row's expiry is kept as the time   *)
(* left on the database's clock, the only clock the code compares it with.  *)
(* Each statement sent to Postgres is one step, each section under a lock   *)
(* (`held`, `attached`) is one step, and any other step may come between.   *)
(***************************************************************************)
EXTENDS Integers, FiniteSets

CONSTANTS
    Replicas,       \* prosperod processes, named by their replica id
    Nobody,         \* the owner when there is no row
    Callers,        \* tasks that call start_attach
    At,             \* At[c]: the replica c runs on
    Once,           \* the callers that call it once (spawn_agent), not per poll
    Ttl,            \* the lease's lifetime, in ticks
    MaxStalls,      \* bound: heartbeats so late that the lease expires
    MaxExits,       \* bound: attach tasks that end while the agent lives
    MaxCrashes,     \* bound: replica crashes
    MaxDbFaults     \* bound: statements that fail

ASSUME AtAssumption == At \in [Callers -> Replicas]
ASSUME NobodyAssumption == Nobody \notin Replicas
ASSUME TtlAssumption == Ttl \in Nat \ {0}
ASSUME LeaseBoundsAssumption ==
    /\ MaxStalls \in Nat /\ MaxExits \in Nat /\ MaxCrashes \in Nat /\ MaxDbFaults \in Nat

VARIABLES
    agent,      \* "live", or "finished": caliband reports a terminal status
    lease,      \* the row: owner_replica_id, epoch, time left until expires_at
    held,       \* held[r]: the epoch in r's in-memory mirror; 0 = no entry
    attached,   \* the replicas with the agent in their `attached` set
    pc,         \* pc[c]: where caller c is in start_attach
    got,        \* got[c]: the epoch the database returned to c
    running,    \* running[r]: attach tasks inside attach_loop
    releasing,  \* releasing[r]: attach tasks about to call release
    deleting,   \* deleting[r]: attach tasks about to delete the row
    hb, hbEpoch,\* hb[r]: where r's heartbeat is, and the epoch it is renewing
    down,       \* the replicas that are not running
    stalls, exits, crashes, dbFaults

leaseVars == <<agent, lease, held, attached, pc, got, running, releasing,
               deleting, hb, hbEpoch, down, stalls, exits, crashes, dbFaults>>

NoRow == [owner |-> Nobody, epoch |-> 0, left |-> 0]

Init ==
    /\ agent = "live"
    /\ lease = NoRow
    /\ held = [r \in Replicas |-> 0]
    /\ attached = {}
    /\ pc \in [Callers -> {"idle", "done"}]
    /\ got = [c \in Callers |-> 0]
    /\ running = [r \in Replicas |-> 0]
    /\ releasing = [r \in Replicas |-> 0]
    /\ deleting = [r \in Replicas |-> 0]
    /\ hb = [r \in Replicas |-> "idle"]
    /\ hbEpoch = [r \in Replicas |-> 0]
    /\ down = {}
    /\ stalls \in 0..MaxStalls /\ exits \in 0..MaxExits
    /\ crashes \in 0..MaxCrashes /\ dbFaults \in 0..MaxDbFaults

(***************************************************************************)
(* start_attach.                                                            *)
(***************************************************************************)
Return(c) == pc' = [pc EXCEPT ![c] = IF c \in Once THEN "done" ELSE "idle"]

(* A poll lists the agent as not terminal, or a spawn has just created it.  *)
Observe(c) ==
    /\ pc[c] = "idle" /\ At[c] \notin down
    /\ agent = "live"
    /\ pc' = [pc EXCEPT ![c] = "check"]
    /\ UNCHANGED <<agent, lease, held, attached, got, running, releasing,
                   deleting, hb, hbEpoch, down, stalls, exits, crashes, dbFaults>>

(* Already driving this agent locally? *)
CheckAttached(c) ==
    /\ pc[c] = "check"
    /\ IF At[c] \in attached THEN Return(c) ELSE pc' = [pc EXCEPT ![c] = "acquire"]
    /\ UNCHANGED <<agent, lease, held, attached, got, running, releasing,
                   deleting, hb, hbEpoch, down, stalls, exits, crashes, dbFaults>>

(* The ON CONFLICT ... WHERE of try_acquire: free, expired, or already ours. *)
Grantable(r) == lease.owner \in {Nobody, r} \/ lease.left = 0

(* The row it writes: our own epoch is kept, a steal bumps it, a new row      *)
(* starts at 1.                                                              *)
Granted(r) ==
    [owner |-> r,
     epoch |-> IF lease.owner = r THEN lease.epoch ELSE lease.epoch + 1,
     left |-> Ttl]

TryAcquire(c) ==
    /\ pc[c] = "acquire"
    /\ Grantable(At[c])
    /\ lease' = Granted(At[c])
    /\ got' = [got EXCEPT ![c] = Granted(At[c]).epoch]
    /\ pc' = [pc EXCEPT ![c] = "granted"]
    /\ UNCHANGED <<agent, held, attached, running, releasing, deleting,
                   hb, hbEpoch, down, stalls, exits, crashes, dbFaults>>

TryAcquireRefused(c) ==
    /\ pc[c] = "acquire"
    /\ ~ Grantable(At[c])
    /\ Return(c)
    /\ UNCHANGED <<agent, lease, held, attached, got, running, releasing,
                   deleting, hb, hbEpoch, down, stalls, exits, crashes, dbFaults>>

(* The statement failed, before or after it was committed: no lease. *)
TryAcquireFails(c) ==
    /\ pc[c] = "acquire"
    /\ dbFaults < MaxDbFaults
    /\ dbFaults' = dbFaults + 1
    /\ \/ UNCHANGED lease
       \/ Grantable(At[c]) /\ lease' = Granted(At[c])
    /\ Return(c)
    /\ UNCHANGED <<agent, held, attached, got, running, releasing,
                   deleting, hb, hbEpoch, down, stalls, exits, crashes>>

(* The rest of try_acquire: the mirror learns of the grant. *)
RecordHeld(c) ==
    /\ pc[c] = "granted"
    /\ held' = [held EXCEPT ![At[c]] = got[c]]
    /\ got' = [got EXCEPT ![c] = 0]
    /\ pc' = [pc EXCEPT ![c] = "insert"]
    /\ UNCHANGED <<agent, lease, attached, running, releasing, deleting,
                   hb, hbEpoch, down, stalls, exits, crashes, dbFaults>>

(* Mutant: the outcome of attached.insert is ignored. *)
SpawnAttachUnchecked(c) ==
    /\ pc[c] = "insert"
    /\ attached' = attached \cup {At[c]}
    /\ running' = [running EXCEPT ![At[c]] = @ + 1]
    /\ Return(c)
    /\ UNCHANGED <<agent, lease, held, got, releasing, deleting,
                   hb, hbEpoch, down, stalls, exits, crashes, dbFaults>>

(* attached.insert wins and the attach task is spawned. *)
SpawnAttach(c) ==
    /\ pc[c] = "insert"
    /\ At[c] \notin attached
    /\ attached' = attached \cup {At[c]}
    /\ running' = [running EXCEPT ![At[c]] = @ + 1]
    /\ Return(c)
    /\ UNCHANGED <<agent, lease, held, got, releasing, deleting,
                   hb, hbEpoch, down, stalls, exits, crashes, dbFaults>>

(* Lost the race to another start_attach: leave the shared lease to it. *)
LostRace(c) ==
    /\ pc[c] = "insert"
    /\ At[c] \in attached
    /\ Return(c)
    /\ UNCHANGED <<agent, lease, held, attached, got, running, releasing,
                   deleting, hb, hbEpoch, down, stalls, exits, crashes, dbFaults>>

(***************************************************************************)
(* The attach task's end: attached.remove, then release (mirror, then row). *)
(***************************************************************************)
AgentFinishes ==
    /\ agent = "live"
    /\ agent' = "finished"
    /\ UNCHANGED <<lease, held, attached, pc, got, running, releasing,
                   deleting, hb, hbEpoch, down, stalls, exits, crashes, dbFaults>>

LeaveAttached(r) ==
    /\ running[r] > 0
    /\ running' = [running EXCEPT ![r] = @ - 1]
    /\ attached' = attached \ {r}
    /\ releasing' = [releasing EXCEPT ![r] = @ + 1]
    /\ UNCHANGED <<agent, lease, held, pc, got, deleting,
                   hb, hbEpoch, down, stalls, crashes, dbFaults>>

(* attach_loop returns: the agent's stream ended with its terminal frame. *)
AttachEnds(r) ==
    /\ agent = "finished"
    /\ LeaveAttached(r)
    /\ UNCHANGED exits

(* attach_loop returns: the reconnection budget is spent, the agent lives. *)
AttachGivesUp(r) ==
    /\ agent = "live"
    /\ exits < MaxExits
    /\ exits' = exits + 1
    /\ LeaveAttached(r)

(* Mutant: release leaves the mirror alone. *)
ReleaseKeepsHeld(r) ==
    /\ releasing[r] > 0
    /\ releasing' = [releasing EXCEPT ![r] = @ - 1]
    /\ deleting' = [deleting EXCEPT ![r] = @ + 1]
    /\ UNCHANGED <<agent, lease, held, attached, pc, got, running,
                   hb, hbEpoch, down, stalls, exits, crashes, dbFaults>>

(* release, first half: the mirror. *)
ReleaseHeld(r) ==
    /\ releasing[r] > 0
    /\ releasing' = [releasing EXCEPT ![r] = @ - 1]
    /\ deleting' = [deleting EXCEPT ![r] = @ + 1]
    /\ held' = [held EXCEPT ![r] = 0]
    /\ UNCHANGED <<agent, lease, attached, pc, got, running,
                   hb, hbEpoch, down, stalls, exits, crashes, dbFaults>>

(* DELETE ... WHERE owner_replica_id = us: whatever the epoch. *)
DeleteRow(r) ==
    /\ deleting[r] > 0
    /\ deleting' = [deleting EXCEPT ![r] = @ - 1]
    /\ lease' = IF lease.owner = r THEN NoRow ELSE lease
    /\ UNCHANGED <<agent, held, attached, pc, got, running, releasing,
                   hb, hbEpoch, down, stalls, exits, crashes, dbFaults>>

DeleteRowFails(r) ==
    /\ deleting[r] > 0
    /\ dbFaults < MaxDbFaults
    /\ dbFaults' = dbFaults + 1
    /\ deleting' = [deleting EXCEPT ![r] = @ - 1]
    /\ UNCHANGED <<agent, lease, held, attached, pc, got, running, releasing,
                   hb, hbEpoch, down, stalls, exits, crashes>>

(***************************************************************************)
(* heartbeat: copy the mirror, renew, drop what could not be renewed.       *)
(***************************************************************************)
HeartbeatReads(r) ==
    /\ hb[r] = "idle" /\ r \notin down
    /\ held[r] # 0
    /\ hb' = [hb EXCEPT ![r] = "renew"]
    /\ hbEpoch' = [hbEpoch EXCEPT ![r] = held[r]]
    /\ UNCHANGED <<agent, lease, held, attached, pc, got, running, releasing,
                   deleting, down, stalls, exits, crashes, dbFaults>>

(* UPDATE ... WHERE owner_replica_id = us AND epoch = ours. *)
Renewable(r) == lease.owner = r /\ lease.epoch = hbEpoch[r]

(* Mutant: rows_affected is not looked at. *)
RenewUnchecked(r) ==
    /\ hb[r] = "renew"
    /\ lease' = IF Renewable(r) THEN [lease EXCEPT !.left = Ttl] ELSE lease
    /\ hb' = [hb EXCEPT ![r] = "idle"]
    /\ hbEpoch' = [hbEpoch EXCEPT ![r] = 0]
    /\ UNCHANGED <<agent, held, attached, pc, got, running, releasing,
                   deleting, down, stalls, exits, crashes, dbFaults>>

Renew(r) ==
    /\ hb[r] = "renew"
    /\ Renewable(r)
    /\ lease' = [lease EXCEPT !.left = Ttl]
    /\ hb' = [hb EXCEPT ![r] = "idle"]
    /\ hbEpoch' = [hbEpoch EXCEPT ![r] = 0]
    /\ UNCHANGED <<agent, held, attached, pc, got, running, releasing,
                   deleting, down, stalls, exits, crashes, dbFaults>>

(* No row was updated, or the statement failed: both count as lost. *)
RenewFails(r) ==
    /\ hb[r] = "renew"
    /\ \/ ~ Renewable(r) /\ UNCHANGED dbFaults
       \/ dbFaults < MaxDbFaults /\ dbFaults' = dbFaults + 1
    /\ hb' = [hb EXCEPT ![r] = "drop"]
    /\ hbEpoch' = [hbEpoch EXCEPT ![r] = 0]
    /\ UNCHANGED <<agent, lease, held, attached, pc, got, running, releasing,
                   deleting, down, stalls, exits, crashes>>

(* held.remove(key): whatever the mirror holds by now. *)
DropHeld(r) ==
    /\ hb[r] = "drop"
    /\ held' = [held EXCEPT ![r] = 0]
    /\ hb' = [hb EXCEPT ![r] = "idle"]
    /\ UNCHANGED <<agent, lease, attached, pc, got, running, releasing,
                   deleting, hbEpoch, down, stalls, exits, crashes, dbFaults>>

(***************************************************************************)
(* Time, and the death of replicas. A replica that comes back has its old   *)
(* id (resolve_replica_id: --replica-id or HOSTNAME) and none of its state. *)
(***************************************************************************)
Attended(r) == held[r] # 0 \/ \E c \in Callers : At[c] = r /\ pc[c] = "granted"

Expiring == lease.left = 1 /\ Attended(lease.owner)

(* A lease its owner attends expires only when the owner stalls for as long. *)
Tick ==
    /\ lease.left > 0
    /\ Expiring => stalls < MaxStalls
    /\ stalls' = IF Expiring THEN stalls + 1 ELSE stalls
    /\ lease' = [lease EXCEPT !.left = @ - 1]
    /\ UNCHANGED <<agent, held, attached, pc, got, running, releasing,
                   deleting, hb, hbEpoch, down, exits, crashes, dbFaults>>

Crash(r) ==
    /\ r \notin down
    /\ crashes < MaxCrashes
    /\ crashes' = crashes + 1
    /\ down' = down \cup {r}
    /\ held' = [held EXCEPT ![r] = 0]
    /\ attached' = attached \ {r}
    /\ pc' = [c \in Callers |-> IF At[c] # r THEN pc[c]
                                ELSE IF c \in Once \/ pc[c] = "done" THEN "done" ELSE "idle"]
    /\ got' = [c \in Callers |-> IF At[c] = r THEN 0 ELSE got[c]]
    /\ running' = [running EXCEPT ![r] = 0]
    /\ releasing' = [releasing EXCEPT ![r] = 0]
    /\ deleting' = [deleting EXCEPT ![r] = 0]
    /\ hb' = [hb EXCEPT ![r] = "idle"]
    /\ hbEpoch' = [hbEpoch EXCEPT ![r] = 0]
    /\ UNCHANGED <<agent, lease, stalls, exits, dbFaults>>

Restart(r) ==
    /\ r \in down
    /\ down' = down \ {r}
    /\ UNCHANGED <<agent, lease, held, attached, pc, got, running, releasing,
                   deleting, hb, hbEpoch, stalls, exits, crashes, dbFaults>>

Attach(c) ==
    \/ CheckAttached(c)
    \/ TryAcquire(c) \/ TryAcquireRefused(c) \/ TryAcquireFails(c)
    \/ RecordHeld(c) \/ SpawnAttach(c) \/ LostRace(c)

Release(r) == ReleaseHeld(r) \/ DeleteRow(r) \/ DeleteRowFails(r)

Heartbeat(r) == HeartbeatReads(r) \/ Renew(r) \/ RenewFails(r) \/ DropHeld(r)

Next ==
    \/ \E c \in Callers : Observe(c) \/ Attach(c)
    \/ \E r \in Replicas :
          \/ AttachEnds(r) \/ AttachGivesUp(r) \/ Release(r)
          \/ Heartbeat(r) \/ Crash(r) \/ Restart(r)
    \/ AgentFinishes \/ Tick

(***************************************************************************)
(* The poll loop and the heartbeat are timers of a running replica, started *)
(* tasks run on, and the database's clock advances. Nothing makes a task    *)
(* give up, a replica die or come back, or a statement fail.                *)
(***************************************************************************)
Fairness ==
    /\ \A c \in Callers : WF_leaseVars(Observe(c)) /\ WF_leaseVars(Attach(c))
    /\ \A r \in Replicas : WF_leaseVars(AttachEnds(r)) /\ WF_leaseVars(Release(r))
                           /\ WF_leaseVars(Heartbeat(r))
    /\ WF_leaseVars(Tick)

Spec == Init /\ [][Next]_leaseVars /\ Fairness
----------------------------------------------------------------------------
PCs == {"idle", "check", "acquire", "granted", "insert", "done"}

(***************************************************************************)
(* Types.                                                                   *)
(***************************************************************************)
LeaseTypeOK ==
    /\ agent \in {"live", "finished"}
    /\ lease \in [owner : Replicas \cup {Nobody}, epoch : Nat, left : 0..Ttl]
    /\ held \in [Replicas -> Nat]
    /\ attached \subseteq Replicas
    /\ pc \in [Callers -> PCs]
    /\ got \in [Callers -> Nat]
    /\ running \in [Replicas -> Nat]
    /\ releasing \in [Replicas -> Nat]
    /\ deleting \in [Replicas -> Nat]
    /\ hb \in [Replicas -> {"idle", "renew", "drop"}]
    /\ hbEpoch \in [Replicas -> Nat]
    /\ down \subseteq Replicas
    /\ stalls \in 0..MaxStalls /\ exits \in 0..MaxExits
    /\ crashes \in 0..MaxCrashes /\ dbFaults \in 0..MaxDbFaults

(***************************************************************************)
(* On one replica no two attach tasks drive the agent, though the poll loop *)
(* and spawn_agent race through start_attach and old tasks are still        *)
(* releasing: `attached` names exactly the replicas with a task inside      *)
(* attach_loop. Two would emit every frame twice.                           *)
(***************************************************************************)
AttachOnce ==
    \A r \in Replicas : running[r] = IF r \in attached THEN 1 ELSE 0

(***************************************************************************)
(* While the agent lives and a replica polls, somebody drives it or will: a *)
(* crashed owner, a task that gave up and a lost lease are all taken over.  *)
(***************************************************************************)
Polled == \E c \in Callers \ Once : pc[c] # "done" /\ At[c] \notin down

Failover == agent = "live" ~> (attached # {} \/ agent = "finished" \/ ~ Polled)

(***************************************************************************)
(* No lease is orphaned: one whose owner does not drive the agent is        *)
(* attached, given back, or left to expire, never heartbeated for ever.     *)
(***************************************************************************)
LeaseNotStuck ==
    \A r \in Replicas :
        (lease.owner = r /\ r \notin attached) ~>
            (lease.owner # r \/ lease.left = 0 \/ r \in attached)

(***************************************************************************)
(* A replica learns of a lost lease: `owns` does not stay true for a stream *)
(* whose row is gone or another's (leased_ownership.rs: "`renew` failing is *)
(* how a replica learns its lease was stolen").                             *)
(***************************************************************************)
LossNoticed ==
    \A r \in Replicas :
        (held[r] # 0 /\ lease.owner # r) ~> (held[r] = 0 \/ lease.owner = r)

(***************************************************************************)
(* Whoever drives the agent holds its lease (the comment in start_attach:   *)
(* "Its attach task holds (and, in clustered mode, heartbeats) the lease"). *)
(***************************************************************************)
WriterHoldsLease ==
    \A r \in attached : lease.owner = r

(* The lease moves to where it is needed: it is well formed, not orphaned,   *)
(* and a live agent is driven again (start_attach, try_acquire, renew).      *)
LeaseMoves == []LeaseTypeOK /\ LeaseNotStuck /\ Failover

============================================================================
