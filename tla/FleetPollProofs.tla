-------------------------- MODULE FleetPollProofs --------------------------
(***************************************************************************)
(* Proofs about FleetPoll, for any replicas, agents and budgets: one owner   *)
(* of the lifecycle lease writes each transition and each timeout once, and  *)
(* an agent that was spawned is found.                                       *)
(***************************************************************************)
EXTENDS FleetPoll, TLAPS

(***************************************************************************)
(* The inductive invariant.                                                 *)
(***************************************************************************)
Stream == [status : Status \cup {"known"}, listed : BOOLEAN, deadline : BOOLEAN,
           timeouts : 0..2, fits : BOOLEAN]
PollState == [pc : {"idle", "unreachable", "prior", "diff", "healthy", "recent",
                    "deadlines", "due", "kill"},
              own : BOOLEAN, records : [Agents -> Status], prior : [Agents -> Status],
              attachedNow : SUBSET Agents, todo : SUBSET Agents,
              victim : Agents \cup {Nobody}]
Request == [pc : {"idle", "emit", "deadline", "attach", "prune", "acquire", "done"},
            at : Pollers \cup {Nobody}]
Budget == [changes : Nat, outages : Nat, killFaults : Nat, expiries : Nat, crashes : Nat,
           removals : Nat, run : SUBSET Pollers, existing : SUBSET Agents,
           timed : SUBSET Agents]

(* The variables have their types; a deadline is that of an agent with one.  *)
WorldType ==
    /\ cal \in [Agents -> Status] /\ up \in BOOLEAN /\ expired \subseteq Timed
    /\ budget \in Budget
ToldType ==
    /\ told \in [Agents -> Stream] /\ healthLog \in {"healthy", "unreachable"}
    /\ \A a \in Agents : told[a].deadline => a \in Timed
LocalType ==
    /\ snap \in [Pollers -> [Agents -> Status]]
    /\ health \in [Pollers -> {"healthy", "unreachable"}]
    /\ recent \in [Pollers -> SUBSET Agents] /\ attached \in [Pollers -> SUBSET Agents]
    /\ deadlines \in [Pollers -> SUBSET Agents]
    /\ \A r \in Pollers : deadlines[r] \subseteq Timed
PollType ==
    /\ poll \in [Pollers -> PollState]
    /\ \A r \in Pollers :
          /\ (poll[r].pc = "kill") = (poll[r].victim # Nobody)
          /\ poll[r].pc \in {"deadlines", "due", "kill"} => poll[r].own
          /\ poll[r].pc \in {"due", "kill"} => poll[r].todo \subseteq expired
RequestType ==
    /\ spawn \in [Agents -> Request] /\ rm \in [Agents -> Request]
    /\ \A a \in Agents :
          /\ spawn[a].pc # "idle" => spawn[a].at \in Pollers
          /\ spawn[a].pc = "deadline" => a \in Timed
          /\ a \in expired => spawn[a].pc # "idle"
          /\ rm[a].pc # "idle" => rm[a].at \in Pollers
PollTypes == WorldType /\ ToldType /\ LocalType /\ PollType /\ RequestType

(* The places of a poll that works on a list.                                *)
Listing == {"prior", "diff", "healthy", "recent"}

(* While the lease has one owner, a poll that owns it is the owner's, and    *)
(* the owner's poll owns it from its list on.                                *)
OneOwner ==
    /\ owner \in Pollers \cup {Nobody}
    /\ \A a \in Agents : rm[a].pc \in {"prune", "acquire", "emit"} => rm[a].at \notin down
    /\ \A r \in Pollers : poll[r].pc = "diff" /\ poll[r].todo # {} => poll[r].own
    /\ SameOwner =>
          /\ owner \notin down
          /\ \A r \in Pollers :
                /\ poll[r].own => owner = r
                /\ poll[r].pc \in Listing => owner # Nobody /\ (owner = r => poll[r].own)

(* caliband has no agent before its spawn nor after its removal.             *)
Born(a) == a \in budget.existing \/ spawn[a].pc # "idle"
Lives ==
    \A a \in Agents :
        /\ cal[a] # "absent" \/ rm[a].pc # "idle" => Born(a)
        /\ rm[a].pc # "idle" => cal[a] = "absent"

(* Of an agent that nobody removes: who knows of it is not ahead of caliband, *)
(* a list not behind the snapshot it will replace, and a spawned agent is in  *)
(* the snapshot or among the recent spawns.                                   *)
Ahead(r, a) ==
    /\ snap[r][a] # "absent" => cal[a] # "absent"
    /\ poll[r].pc \in Listing /\ poll[r].records[a] # "absent"
          => cal[a] # "absent"
    /\ poll[r].pc \in {"prior", "diff"} /\ snap[r][a] # "absent"
          => poll[r].records[a] # "absent"
    /\ poll[r].pc = "diff" => poll[r].prior[a] = snap[r][a]
    /\ poll[r].pc \in {"healthy", "recent"} => snap[r][a] = poll[r].records[a]
Found == \A r \in Pollers, a \in Agents : rm[a].pc = "idle" => Ahead(r, a)

(* What the owner believes was last told of a: its snapshot, or the list once *)
(* the poll has nothing more to say of a.                                     *)
Believed(r, a) ==
    IF poll[r].pc = "diff" /\ a \notin poll[r].todo THEN poll[r].records[a] ELSE snap[r][a]
(* The stream of an agent that nobody removes is where the owner believes it. *)
Chain ==
    \A a \in Agents : SameOwner /\ rm[a].pc = "idle" =>
        /\ told[a].fits
        /\ told[a].listed \/ spawn[a].pc \in {"deadline", "attach"} =>
              told[a].status # "absent"
        /\ \A r \in Pollers : Acquires(r) =>
              /\ told[a].status \in {"known", Believed(r, a)}
              /\ a \in attached[r] => told[a].status # "absent"

(* After its timeout an agent is dead, or the owner is about to kill it; and  *)
(* the owner never again takes it for one that lives.                         *)
Spent(r, a) ==
    /\ cal[a] \in Live => poll[r].pc = "kill" /\ poll[r].victim = a
    /\ poll[r].pc \in Listing => poll[r].records[a] \notin Live
    /\ poll[r].pc \in {"healthy", "recent", "deadlines"} => snap[r][a] \notin Live
    /\ poll[r].pc \in {"due", "kill"} => a \notin poll[r].todo
Once ==
    \A a \in Agents : mishaps = {} /\ told[a].timeouts # 0 =>
        told[a].timeouts = 1 /\ a \in expired /\ owner # Nobody /\ Spent(owner, a)

PollInv == PollTypes /\ OneOwner /\ Lives /\ Found /\ SpawnResolvable /\ Chain /\ Once

(* Who changes which variable: the rest of the proof looks at these steps alone. *)
CalWriters ==
    \/ \E r \in Pollers : KillExpired(r)
    \/ \E a \in Agents : AgentChanges(a)
    \/ \E r \in Pollers, a \in Agents :
           SpawnAgent(r, a) \/ RmAgent(r, a) \/ KillAgent(r, a)

ClockWriters ==
    \/ \E a \in Agents : DeadlinePasses(a)
    \/ CalibandDown \/ CalibandUp

ToldWriters ==
    \/ \E a \in Agents : SpawnEmit(a) \/ SpawnDeadline(a) \/ RmEmit(a)
    \/ \E r \in Pollers, a \in Agents :
           EmitDiff(r, a) \/ EmitTimedOut(r, a)

HealthWriters ==
    \/ \E r \in Pollers : PollListFails(r) \/ EmitUnreachable(r) \/ WriteSnapshot(r)
           \/ EmitHealthy(r) \/ CrashReplica(r)

OwnerWriters ==
    \/ \E r \in Pollers : PollList(r) \/ PollListFails(r)
    \/ \E a \in Agents : RmAcquire(a)
    \/ LeaseExpires \/ DeadLeaseExpires

SnapWriters ==
    \/ \E r \in Pollers : WriteSnapshot(r) \/ CrashReplica(r)
    \/ \E a \in Agents : RmPrune(a)

RecentWriters ==
    \/ \E r \in Pollers : PruneRecentAndAttach(r) \/ CrashReplica(r)
    \/ \E r \in Pollers, a \in Agents :
           SpawnAgent(r, a) \/ RmAgent(r, a)

AttachedWriters ==
    \/ \E r \in Pollers : PruneRecentAndAttach(r) \/ CrashReplica(r)
    \/ \E a \in Agents : SpawnAttach(a)
    \/ \E r \in Pollers, a \in Agents :
           AttachExits(r, a)

DeadlinesWriters ==
    \/ \E r \in Pollers : FindExpired(r) \/ KillExpired(r) \/ CrashReplica(r)
    \/ \E a \in Agents : SpawnEmit(a)

PollWriters ==
    \/ \E r \in Pollers : PollList(r) \/ PollListFails(r) \/ EmitUnreachable(r)
           \/ ReadPrior(r) \/ WriteSnapshot(r) \/ EmitHealthy(r)
           \/ PruneRecentAndAttach(r) \/ FindExpired(r) \/ KillExpired(r)
           \/ KillExpiredFails(r) \/ CrashReplica(r)
    \/ \E r \in Pollers, a \in Agents :
           EmitDiff(r, a) \/ EmitTimedOut(r, a)

SpawnWriters ==
    \/ \E r \in Pollers : CrashReplica(r)
    \/ \E a \in Agents : SpawnEmit(a) \/ SpawnDeadline(a) \/ SpawnAttach(a)
    \/ \E r \in Pollers, a \in Agents :
           SpawnAgent(r, a)

RmWriters ==
    \/ \E r \in Pollers : CrashReplica(r)
    \/ \E a \in Agents : RmPrune(a) \/ RmAcquire(a) \/ RmEmit(a)
    \/ \E r \in Pollers, a \in Agents :
           RmAgent(r, a)

DownWriters ==
    \/ \E r \in Pollers : CrashReplica(r) \/ Restart(r)

BoundsWriters ==
    \/ \E r \in Pollers : KillExpiredFails(r) \/ CrashReplica(r)
    \/ \E a \in Agents : AgentChanges(a)
    \/ \E r \in Pollers, a \in Agents :
           RmAgent(r, a) \/ KillAgent(r, a)
    \/ CalibandDown \/ LeaseExpires

MishapsWriters ==
    \/ \E r \in Pollers : KillExpiredFails(r) \/ CrashReplica(r)
    \/ LeaseExpires

OnlyWriters ==
    /\ UNCHANGED cal \/ CalWriters
    /\ UNCHANGED <<up, expired>> \/ ClockWriters
    /\ UNCHANGED told \/ ToldWriters
    /\ UNCHANGED <<healthLog, health>> \/ HealthWriters
    /\ UNCHANGED owner \/ OwnerWriters
    /\ UNCHANGED snap \/ SnapWriters
    /\ UNCHANGED recent \/ RecentWriters
    /\ UNCHANGED attached \/ AttachedWriters
    /\ UNCHANGED deadlines \/ DeadlinesWriters
    /\ UNCHANGED poll \/ PollWriters
    /\ UNCHANGED spawn \/ SpawnWriters
    /\ UNCHANGED rm \/ RmWriters
    /\ UNCHANGED down \/ DownWriters
    /\ UNCHANGED budget \/ BoundsWriters
    /\ UNCHANGED mishaps \/ MishapsWriters

LEMMA Writers == PollNext => OnlyWriters
<1> SUFFICES ASSUME PollNext
             PROVE  OnlyWriters
  OBVIOUS
<1>1. ASSUME NEW r \in Pollers, PollList(r)
      PROVE  OnlyWriters
  <2>1. UNCHANGED <<cal, up, expired, told, healthLog, snap, health, recent,
                    attached, deadlines, spawn, rm, down, budget, mishaps>>
    BY <1>1 DEF PollList, world, local, requests, bounds, Goes
  <2>2. QED
    BY <1>1, <2>1
    DEF OnlyWriters, OwnerWriters, PollWriters
<1>2. ASSUME NEW r \in Pollers, PollListFails(r)
      PROVE  OnlyWriters
  <2>1. UNCHANGED <<cal, up, expired, told, healthLog, snap, recent, attached,
                    deadlines, spawn, rm, down, budget, mishaps>>
    BY <1>2 DEF PollListFails, world, requests, bounds, Goes
  <2>2. QED
    BY <1>2, <2>1
    DEF OnlyWriters, HealthWriters, OwnerWriters, PollWriters
<1>3. ASSUME NEW r \in Pollers, EmitUnreachable(r)
      PROVE  OnlyWriters
  <2>1. UNCHANGED <<cal, up, expired, told, owner, snap, health, recent,
                    attached, deadlines, spawn, rm, down, budget, mishaps>>
    BY <1>3 DEF EmitUnreachable, world, local, requests, bounds, Goes
  <2>2. QED
    BY <1>3, <2>1
    DEF OnlyWriters, HealthWriters, PollWriters
<1>4. ASSUME NEW r \in Pollers, ReadPrior(r)
      PROVE  OnlyWriters
  <2>1. UNCHANGED <<cal, up, expired, told, healthLog, owner, snap, health,
                    recent, attached, deadlines, spawn, rm, down, budget,
                    mishaps>>
    BY <1>4 DEF ReadPrior, world, local, requests, bounds, Goes
  <2>2. QED
    BY <1>4, <2>1
    DEF OnlyWriters, PollWriters
<1>5. ASSUME NEW r \in Pollers, WriteSnapshot(r)
      PROVE  OnlyWriters
  <2>1. UNCHANGED <<cal, up, expired, told, healthLog, owner, recent, attached,
                    deadlines, spawn, rm, down, budget, mishaps>>
    BY <1>5 DEF WriteSnapshot, world, requests, bounds, Goes
  <2>2. QED
    BY <1>5, <2>1
    DEF OnlyWriters, HealthWriters, SnapWriters, PollWriters
<1>6. ASSUME NEW r \in Pollers, EmitHealthy(r)
      PROVE  OnlyWriters
  <2>1. UNCHANGED <<cal, up, expired, told, owner, snap, health, recent,
                    attached, deadlines, spawn, rm, down, budget, mishaps>>
    BY <1>6 DEF EmitHealthy, world, local, requests, bounds, Goes
  <2>2. QED
    BY <1>6, <2>1
    DEF OnlyWriters, HealthWriters, PollWriters
<1>7. ASSUME NEW r \in Pollers, PruneRecentAndAttach(r)
      PROVE  OnlyWriters
  <2>1. UNCHANGED <<cal, up, expired, told, healthLog, owner, snap, health,
                    deadlines, spawn, rm, down, budget, mishaps>>
    BY <1>7 DEF PruneRecentAndAttach, world, requests, bounds, Goes, Attach
  <2>2. QED
    BY <1>7, <2>1
    DEF OnlyWriters, RecentWriters, AttachedWriters, PollWriters
<1>8. ASSUME NEW r \in Pollers, FindExpired(r)
      PROVE  OnlyWriters
  <2>1. UNCHANGED <<cal, up, expired, told, healthLog, owner, snap, health,
                    recent, attached, spawn, rm, down, budget, mishaps>>
    BY <1>8 DEF FindExpired, world, requests, bounds, KillNext
  <2>2. QED
    BY <1>8, <2>1
    DEF OnlyWriters, DeadlinesWriters, PollWriters
<1>9. ASSUME NEW r \in Pollers, KillExpired(r)
      PROVE  OnlyWriters
  <2>1. UNCHANGED <<up, expired, told, healthLog, owner, snap, health, recent,
                    attached, spawn, rm, down, budget, mishaps>>
    BY <1>9 DEF KillExpired, requests, bounds, KillNext, Killed
  <2>2. QED
    BY <1>9, <2>1
    DEF OnlyWriters, CalWriters, DeadlinesWriters, PollWriters
<1>10. ASSUME NEW r \in Pollers, KillExpiredFails(r)
      PROVE  OnlyWriters
  <2>1. UNCHANGED <<cal, up, expired, told, healthLog, owner, snap, health,
                    recent, attached, deadlines, spawn, rm, down>>
    BY <1>10 DEF KillExpiredFails, world, local, requests, Spend, KillNext
  <2>2. QED
    BY <1>10, <2>1
    DEF OnlyWriters, PollWriters, BoundsWriters, MishapsWriters
<1>11. ASSUME NEW r \in Pollers, CrashReplica(r)
      PROVE  OnlyWriters
  <2>1. UNCHANGED <<cal, up, expired, told, healthLog, owner>>
    BY <1>11 DEF CrashReplica, world, Spend
  <2>2. QED
    BY <1>11, <2>1
    DEF OnlyWriters, HealthWriters, SnapWriters, RecentWriters,
        AttachedWriters, DeadlinesWriters, PollWriters, SpawnWriters,
        RmWriters, DownWriters, BoundsWriters, MishapsWriters
<1>12. ASSUME NEW r \in Pollers, Restart(r)
      PROVE  OnlyWriters
  <2>1. UNCHANGED <<cal, up, expired, told, healthLog, owner, snap, health,
                    recent, attached, deadlines, poll, spawn, rm, budget,
                    mishaps>>
    BY <1>12 DEF Restart, world, local, requests, bounds
  <2>2. QED
    BY <1>12, <2>1
    DEF OnlyWriters, DownWriters
<1>13. ASSUME NEW r \in Pollers, NEW a \in Agents, EmitDiff(r, a)
      PROVE  OnlyWriters
  <2>1. UNCHANGED <<cal, up, expired, healthLog, owner, snap, health, recent,
                    attached, deadlines, spawn, rm, down, budget, mishaps>>
    BY <1>13 DEF EmitDiff, world, local, requests, bounds, Goes, EmitChange
  <2>2. QED
    BY <1>13, <2>1
    DEF OnlyWriters, ToldWriters, PollWriters
<1>14. ASSUME NEW r \in Pollers, NEW a \in Agents, EmitTimedOut(r, a)
      PROVE  OnlyWriters
  <2>1. UNCHANGED <<cal, up, expired, healthLog, owner, snap, health, recent,
                    attached, deadlines, spawn, rm, down, budget, mishaps>>
    BY <1>14 DEF EmitTimedOut, world, local, requests, bounds, Goes, EmitAbout
  <2>2. QED
    BY <1>14, <2>1
    DEF OnlyWriters, ToldWriters, PollWriters
<1>15. ASSUME NEW r \in Pollers, NEW a \in Agents, SpawnAgent(r, a)
      PROVE  OnlyWriters
  <2>1. UNCHANGED <<up, expired, told, healthLog, owner, snap, health,
                    attached, deadlines, poll, rm, down, budget, mishaps>>
    BY <1>15 DEF SpawnAgent, bounds
  <2>2. QED
    BY <1>15, <2>1
    DEF OnlyWriters, CalWriters, RecentWriters, SpawnWriters
<1>16. ASSUME NEW r \in Pollers, NEW a \in Agents, RmAgent(r, a)
      PROVE  OnlyWriters
  <2>1. UNCHANGED <<up, expired, told, healthLog, owner, snap, health,
                    attached, deadlines, poll, spawn, down, mishaps>>
    BY <1>16 DEF RmAgent, Spend
  <2>2. QED
    BY <1>16, <2>1
    DEF OnlyWriters, CalWriters, RecentWriters, RmWriters, BoundsWriters
<1>17. ASSUME NEW r \in Pollers, NEW a \in Agents, KillAgent(r, a)
      PROVE  OnlyWriters
  <2>1. UNCHANGED <<up, expired, told, healthLog, owner, snap, health, recent,
                    attached, deadlines, poll, spawn, rm, down, mishaps>>
    BY <1>17 DEF KillAgent, local, requests, Spend, Killed
  <2>2. QED
    BY <1>17, <2>1
    DEF OnlyWriters, CalWriters, BoundsWriters
<1>18. ASSUME NEW r \in Pollers, NEW a \in Agents, AttachExits(r, a)
      PROVE  OnlyWriters
  <2>1. UNCHANGED <<cal, up, expired, told, healthLog, owner, snap, health,
                    recent, deadlines, poll, spawn, rm, down, budget, mishaps>>
    BY <1>18 DEF AttachExits, world, requests, bounds
  <2>2. QED
    BY <1>18, <2>1
    DEF OnlyWriters, AttachedWriters
<1>19. ASSUME NEW a \in Agents, SpawnEmit(a)
      PROVE  OnlyWriters
  <2>1. UNCHANGED <<cal, up, expired, healthLog, owner, snap, health, recent,
                    attached, poll, rm, down, budget, mishaps>>
    BY <1>19 DEF SpawnEmit, world, bounds, EmitAbout
  <2>2. QED
    BY <1>19, <2>1
    DEF OnlyWriters, ToldWriters, DeadlinesWriters, SpawnWriters
<1>20. ASSUME NEW a \in Agents, SpawnDeadline(a)
      PROVE  OnlyWriters
  <2>1. UNCHANGED <<cal, up, expired, healthLog, owner, snap, health, recent,
                    attached, deadlines, poll, rm, down, budget, mishaps>>
    BY <1>20 DEF SpawnDeadline, world, local, bounds, EmitAbout
  <2>2. QED
    BY <1>20, <2>1
    DEF OnlyWriters, ToldWriters, SpawnWriters
<1>21. ASSUME NEW a \in Agents, SpawnAttach(a)
      PROVE  OnlyWriters
  <2>1. UNCHANGED <<cal, up, expired, told, healthLog, owner, snap, health,
                    recent, deadlines, poll, rm, down, budget, mishaps>>
    BY <1>21 DEF SpawnAttach, world, bounds, Attach
  <2>2. QED
    BY <1>21, <2>1
    DEF OnlyWriters, AttachedWriters, SpawnWriters
<1>22. ASSUME NEW a \in Agents, RmPrune(a)
      PROVE  OnlyWriters
  <2>1. UNCHANGED <<cal, up, expired, told, healthLog, owner, health, recent,
                    attached, deadlines, poll, spawn, down, budget, mishaps>>
    BY <1>22 DEF RmPrune, world, bounds
  <2>2. QED
    BY <1>22, <2>1
    DEF OnlyWriters, SnapWriters, RmWriters
<1>23. ASSUME NEW a \in Agents, RmAcquire(a)
      PROVE  OnlyWriters
  <2>1. UNCHANGED <<cal, up, expired, told, healthLog, snap, health, recent,
                    attached, deadlines, poll, spawn, down, budget, mishaps>>
    BY <1>23 DEF RmAcquire, world, local, bounds
  <2>2. QED
    BY <1>23, <2>1
    DEF OnlyWriters, OwnerWriters, RmWriters
<1>24. ASSUME NEW a \in Agents, RmEmit(a)
      PROVE  OnlyWriters
  <2>1. UNCHANGED <<cal, up, expired, healthLog, owner, snap, health, recent,
                    attached, deadlines, poll, spawn, down, budget, mishaps>>
    BY <1>24 DEF RmEmit, world, local, bounds, EmitAbout
  <2>2. QED
    BY <1>24, <2>1
    DEF OnlyWriters, ToldWriters, RmWriters
<1>25. ASSUME NEW a \in Agents, AgentChanges(a)
      PROVE  OnlyWriters
  <2>1. UNCHANGED <<up, expired, told, healthLog, owner, snap, health, recent,
                    attached, deadlines, poll, spawn, rm, down, mishaps>>
    BY <1>25 DEF AgentChanges, local, requests, Spend
  <2>2. QED
    BY <1>25, <2>1
    DEF OnlyWriters, CalWriters, BoundsWriters
<1>26. ASSUME NEW a \in Agents, DeadlinePasses(a)
      PROVE  OnlyWriters
  <2>1. UNCHANGED <<cal, up, told, healthLog, owner, snap, health, recent,
                    attached, deadlines, poll, spawn, rm, down, budget,
                    mishaps>>
    BY <1>26 DEF DeadlinePasses, local, requests, bounds
  <2>2. QED
    BY <1>26, <2>1
    DEF OnlyWriters, ClockWriters
<1>27. CASE CalibandDown
  <2>1. UNCHANGED <<cal, expired, told, healthLog, owner, snap, health, recent,
                    attached, deadlines, poll, spawn, rm, down, mishaps>>
    BY <1>27 DEF CalibandDown, local, requests, Spend
  <2>2. QED
    BY <1>27, <2>1
    DEF OnlyWriters, ClockWriters, BoundsWriters
<1>28. CASE CalibandUp
  <2>1. UNCHANGED <<cal, expired, told, healthLog, owner, snap, health, recent,
                    attached, deadlines, poll, spawn, rm, down, budget,
                    mishaps>>
    BY <1>28 DEF CalibandUp, local, requests, bounds
  <2>2. QED
    BY <1>28, <2>1
    DEF OnlyWriters, ClockWriters
<1>29. CASE LeaseExpires
  <2>1. UNCHANGED <<cal, up, expired, told, healthLog, snap, health, recent,
                    attached, deadlines, poll, spawn, rm, down>>
    BY <1>29 DEF LeaseExpires, world, local, requests, Spend
  <2>2. QED
    BY <1>29, <2>1
    DEF OnlyWriters, OwnerWriters, BoundsWriters, MishapsWriters
<1>30. CASE DeadLeaseExpires
  <2>1. UNCHANGED <<cal, up, expired, told, healthLog, snap, health, recent,
                    attached, deadlines, poll, spawn, rm, down, budget,
                    mishaps>>
    BY <1>30 DEF DeadLeaseExpires, world, local, requests, bounds
  <2>2. QED
    BY <1>30, <2>1
    DEF OnlyWriters, OwnerWriters
<1>31. QED
  BY <1>1, <1>2, <1>3, <1>4, <1>5, <1>6, <1>7, <1>8, <1>9, <1>10, <1>11, <1>12,
     <1>13, <1>14, <1>15, <1>16, <1>17, <1>18, <1>19, <1>20, <1>21, <1>22,
     <1>23, <1>24, <1>25, <1>26, <1>27, <1>28, <1>29, <1>30
     DEF PollNext, PollStep, RequestStep

(***************************************************************************)
(* Where a poll goes.                                                       *)
(***************************************************************************)
LEMMA IdleType ==
    /\ Idle \in PollState /\ Idle.pc = "idle" /\ Idle.victim = Nobody /\ ~ Idle.own
    /\ Idle.todo = {}
  BY DEF Idle, PollState, None, Status, Live, Terminal

(* A poll that is at p carries what the place asks for.                      *)
Fit(p) ==
    /\ p \in PollState
    /\ (p.pc = "kill") = (p.victim # Nobody)
    /\ p.pc \in {"deadlines", "due", "kill"} => p.own
    /\ p.pc \in {"due", "kill"} => p.todo \subseteq expired

(* One poll moves, and this is where.                                        *)
Moved(r, pc) ==
    /\ \A q \in Pollers : q # r => poll'[q] = poll[q]
    /\ Fit(poll'[r]) /\ poll'[r].pc = pc

LEMMA GoesFit ==
    ASSUME PollTypes, NEW r \in Pollers, NEW p, Goes(r, p), Fit(p)
    PROVE  Moved(r, p.pc) /\ poll'[r] = p /\ poll' \in [Pollers -> PollState]
  BY DEF PollTypes, PollType, Goes, Moved, Fit

LEMMA ListMoves ==
    ASSUME PollTypes, NEW r \in Pollers, PollList(r)
    PROVE  /\ Moved(r, "prior") /\ poll' \in [Pollers -> PollState]
           /\ poll'[r].own = Acquires(r) /\ poll'[r].records = cal
<1> DEFINE p == [poll[r] EXCEPT !.pc = "prior", !.own = Acquires(r), !.records = cal]
<1>1. Fit(poll[r]) /\ poll[r].pc = "idle" /\ cal \in [Agents -> Status]
  BY DEF PollTypes, PollType, WorldType, Fit, PollList
<1>2. Acquires(r) \in BOOLEAN
  BY DEF Acquires
<1>3. /\ p \in PollState /\ p.pc = "prior" /\ p.own = Acquires(r) /\ p.records = cal
      /\ p.victim = poll[r].victim
  BY <1>1, <1>2 DEF PollState, Fit
<1>4. Goes(r, p)
  BY DEF PollList
<1> HIDE DEF p
<1>5. Fit(p)
  BY <1>1, <1>3 DEF Fit
<1>6. QED
  BY <1>3, <1>4, <1>5, GoesFit

LEMMA ListFailMoves ==
    ASSUME PollTypes, NEW r \in Pollers, PollListFails(r)
    PROVE  /\ Moved(r, "idle") \/ Moved(r, "unreachable")
           /\ poll' \in [Pollers -> PollState]
           /\ poll'[r].own = poll[r].own
<1> DEFINE at == IF health[r] # "unreachable" /\ Acquires(r) THEN "unreachable" ELSE "idle"
           p == [poll[r] EXCEPT !.pc = at]
<1>1. Fit(poll[r]) /\ poll[r].pc = "idle"
  BY DEF PollTypes, PollType, Fit, PollListFails
<1>2. at \in {"idle", "unreachable"}
  OBVIOUS
<1>3. Goes(r, p)
  BY <1>1 DEF PollListFails
<1> HIDE DEF at
<1>4. /\ p \in PollState /\ p.pc = at /\ p.own = poll[r].own /\ p.victim = poll[r].victim
  BY <1>1, <1>2 DEF PollState, Fit
<1> HIDE DEF p
<1>5. Fit(p)
  BY <1>1, <1>2, <1>4 DEF Fit
<1>6. QED
  BY <1>2, <1>3, <1>4, <1>5, GoesFit

LEMMA UnreachableMoves ==
    ASSUME PollTypes, NEW r \in Pollers, EmitUnreachable(r)
    PROVE  Moved(r, "idle") /\ poll' \in [Pollers -> PollState] /\ poll'[r] = Idle
<1>1. Fit(Idle)
  BY IdleType DEF Fit
<1>2. QED
  BY <1>1, GoesFit, IdleType DEF EmitUnreachable

LEMMA ReadMoves ==
    ASSUME PollTypes, NEW r \in Pollers, ReadPrior(r)
    PROVE  /\ Moved(r, "diff") /\ poll' \in [Pollers -> PollState]
           /\ poll'[r].own = poll[r].own /\ poll'[r].records = poll[r].records
           /\ poll'[r].prior = snap[r]
           /\ poll'[r].todo = Changed(poll[r].own, poll[r].records, snap[r], attached[r])
<1> DEFINE todo == Changed(poll[r].own, poll[r].records, snap[r], attached[r])
           p == [poll[r] EXCEPT !.prior = snap[r], !.attachedNow = attached[r],
                                !.todo = todo, !.pc = "diff"]
<1>1. Fit(poll[r]) /\ poll[r].pc = "prior"
  BY DEF PollTypes, PollType, Fit, ReadPrior
<1>2. snap[r] \in [Agents -> Status] /\ attached[r] \subseteq Agents
  BY DEF PollTypes, LocalType
<1>3. todo \subseteq Agents
  BY DEF Changed
<1>4. Goes(r, p)
  BY DEF ReadPrior
<1> HIDE DEF todo
<1>5. /\ p \in PollState /\ p.pc = "diff" /\ p.own = poll[r].own /\ p.prior = snap[r]
      /\ p.records = poll[r].records /\ p.victim = poll[r].victim /\ p.todo = todo
  BY <1>1, <1>2, <1>3 DEF PollState, Fit
<1> HIDE DEF p
<1>6. Fit(p)
  BY <1>1, <1>5 DEF Fit
<1>7. QED
  BY <1>4, <1>5, <1>6, GoesFit DEF todo

LEMMA DiffMoves ==
    ASSUME PollTypes, NEW r \in Pollers, NEW a \in Agents, EmitDiff(r, a)
    PROVE  /\ Moved(r, "diff") /\ poll' \in [Pollers -> PollState]
           /\ poll'[r].own = poll[r].own /\ poll'[r].records = poll[r].records
           /\ poll'[r].prior = poll[r].prior /\ poll'[r].todo = poll[r].todo \ {a}
<1> DEFINE p == [poll[r] EXCEPT !.todo = @ \ {a}]
<1>1. Fit(poll[r]) /\ poll[r].pc = "diff"
  BY DEF PollTypes, PollType, Fit, EmitDiff
<1>2. Goes(r, p)
  BY DEF EmitDiff
<1>3. /\ p \in PollState /\ p.pc = "diff" /\ p.own = poll[r].own /\ p.prior = poll[r].prior
      /\ p.records = poll[r].records /\ p.victim = poll[r].victim
      /\ p.todo = poll[r].todo \ {a}
  BY <1>1 DEF PollState, Fit
<1> HIDE DEF p
<1>4. Fit(p)
  BY <1>1, <1>3 DEF Fit
<1>5. QED
  BY <1>2, <1>3, <1>4, GoesFit

LEMMA WriteMoves ==
    ASSUME PollTypes, NEW r \in Pollers, WriteSnapshot(r)
    PROVE  /\ Moved(r, "healthy") \/ Moved(r, "recent")
           /\ poll' \in [Pollers -> PollState]
           /\ poll'[r].own = poll[r].own /\ poll'[r].records = poll[r].records
<1> DEFINE at == IF health[r] = "unreachable" /\ poll[r].own THEN "healthy" ELSE "recent"
           p == [poll[r] EXCEPT !.prior = None, !.pc = at]
<1>1. Fit(poll[r]) /\ poll[r].pc = "diff"
  BY DEF PollTypes, PollType, Fit, WriteSnapshot
<1>2. at \in {"healthy", "recent"}
  OBVIOUS
<1>3. Goes(r, p)
  BY DEF WriteSnapshot
<1>4. None \in [Agents -> Status]
  BY DEF None, Status, Live, Terminal
<1> HIDE DEF at
<1>5. /\ p \in PollState /\ p.pc = at /\ p.own = poll[r].own
      /\ p.records = poll[r].records /\ p.victim = poll[r].victim
  BY <1>1, <1>2, <1>4 DEF PollState, Fit
<1> HIDE DEF p
<1>6. Fit(p)
  BY <1>1, <1>2, <1>5 DEF Fit
<1>7. QED
  BY <1>2, <1>3, <1>5, <1>6, GoesFit

LEMMA HealthyMoves ==
    ASSUME PollTypes, NEW r \in Pollers, EmitHealthy(r)
    PROVE  /\ Moved(r, "recent") /\ poll' \in [Pollers -> PollState]
           /\ poll'[r].own = poll[r].own /\ poll'[r].records = poll[r].records
<1> DEFINE p == [poll[r] EXCEPT !.pc = "recent"]
<1>1. Fit(poll[r]) /\ poll[r].pc = "healthy"
  BY DEF PollTypes, PollType, Fit, EmitHealthy
<1>2. Goes(r, p)
  BY DEF EmitHealthy
<1>3. /\ p \in PollState /\ p.pc = "recent" /\ p.own = poll[r].own
      /\ p.records = poll[r].records /\ p.victim = poll[r].victim
  BY <1>1 DEF PollState, Fit
<1> HIDE DEF p
<1>4. Fit(p)
  BY <1>1, <1>3 DEF Fit
<1>5. QED
  BY <1>2, <1>3, <1>4, GoesFit

LEMMA PruneMoves ==
    ASSUME PollTypes, NEW r \in Pollers, PruneRecentAndAttach(r)
    PROVE  /\ Moved(r, "deadlines") \/ Moved(r, "idle")
           /\ poll' \in [Pollers -> PollState] /\ (poll'[r].own => poll[r].own)
<1> DEFINE p == [Idle EXCEPT !.pc = "deadlines", !.own = poll[r].own]
<1>1. Fit(poll[r]) /\ poll[r].own \in BOOLEAN
  BY DEF PollTypes, PollType, PollState, Fit
<1>2. Goes(r, IF Enforces(r) THEN p ELSE Idle)
  BY DEF PruneRecentAndAttach
<1>3. /\ p \in PollState /\ p.pc = "deadlines" /\ p.own = poll[r].own /\ p.victim = Nobody
  BY <1>1, IdleType DEF PollState
<1> HIDE DEF p
<1>4. CASE Enforces(r)
  <2>1. Fit(p)
    BY <1>3, <1>4 DEF Fit, Enforces
  <2>2. QED
    BY <1>2, <1>3, <1>4, <2>1, GoesFit
<1>5. CASE ~ Enforces(r)
  <2>1. Fit(Idle)
    BY IdleType DEF Fit
  <2>2. QED
    BY <1>2, <1>5, <2>1, GoesFit, IdleType
<1>6. QED
  BY <1>4, <1>5

(* The poll ends, or has `todo` left to kill.                                *)
LEMMA KillMoves ==
    ASSUME PollTypes, NEW r \in Pollers, NEW todo \in SUBSET expired, KillNext(r, todo),
           poll[r].own
    PROVE  /\ Moved(r, "due") \/ Moved(r, "idle")
           /\ poll' \in [Pollers -> PollState]
           /\ poll'[r].todo = todo
<1> DEFINE p == [Idle EXCEPT !.pc = "due", !.own = poll[r].own, !.todo = todo]
<1>1. poll[r].own \in BOOLEAN /\ todo \subseteq Agents
  BY DEF PollTypes, PollType, PollState, WorldType, Timed, Budget
<1>2. Goes(r, IF todo = {} THEN Idle ELSE p)
  BY DEF KillNext
<1>3. /\ p \in PollState /\ p.pc = "due" /\ p.own = poll[r].own /\ p.victim = Nobody
      /\ p.todo = todo
  BY <1>1, IdleType DEF PollState
<1> HIDE DEF p
<1>4. CASE todo # {}
  <2>1. Fit(p)
    BY <1>3 DEF Fit
  <2>2. QED
    BY <1>2, <1>3, <1>4, <2>1, GoesFit
<1>5. CASE todo = {}
  <2>1. Fit(Idle)
    BY IdleType DEF Fit
  <2>2. QED
    BY <1>2, <1>5, <2>1, GoesFit, IdleType
<1>6. QED
  BY <1>4, <1>5

LEMMA TimedOutMoves ==
    ASSUME PollTypes, NEW r \in Pollers, NEW a \in Agents, EmitTimedOut(r, a)
    PROVE  /\ Moved(r, "kill") /\ poll' \in [Pollers -> PollState]
           /\ poll'[r].own = poll[r].own /\ poll'[r].victim = a
           /\ poll'[r].todo = poll[r].todo \ {a}
<1> DEFINE p == [poll[r] EXCEPT !.victim = a, !.todo = @ \ {a}, !.pc = "kill"]
<1>1. Fit(poll[r]) /\ poll[r].pc = "due"
  BY DEF PollTypes, PollType, Fit, EmitTimedOut
<1>2. Goes(r, p)
  BY DEF EmitTimedOut
<1>3. /\ p \in PollState /\ p.pc = "kill" /\ p.own = poll[r].own /\ p.victim = a
      /\ p.todo = poll[r].todo \ {a}
  BY <1>1 DEF PollState, Fit
<1> HIDE DEF p
<1>4. Fit(p)
  BY <1>1, <1>3, LeaseNobodyAssumption DEF Fit
<1>5. QED
  BY <1>2, <1>3, <1>4, GoesFit

(***************************************************************************)
(* What a stream tells after one more event.                                *)
(***************************************************************************)
LEMMA ToldSpawned ==
    ASSUME NEW t \in Stream, NEW from, NEW to
    PROVE  LET u == Told(t, "AgentSpawned", from, to)
           IN  /\ u \in Stream /\ u.status = IF t.listed THEN t.status ELSE "known"
               /\ u.listed = t.listed /\ u.fits = t.fits /\ u.timeouts = t.timeouts
               /\ u.deadline = t.deadline
  BY DEF Told, Stream

LEMMA ToldDeadline ==
    ASSUME NEW t \in Stream, NEW from, NEW to
    PROVE  LET u == Told(t, "DeadlineSet", from, to)
           IN  /\ u \in Stream /\ u.status = t.status
               /\ u.listed = t.listed /\ u.fits = t.fits /\ u.timeouts = t.timeouts
  BY DEF Told, Stream

LEMMA ToldTimedOut ==
    ASSUME NEW t \in Stream, NEW from, NEW to
    PROVE  LET u == Told(t, "AgentTimedOut", from, to)
           IN  /\ u \in Stream /\ u.status = t.status
               /\ u.listed = t.listed /\ u.fits = t.fits /\ u.deadline = t.deadline
               /\ u.timeouts # 0 /\ (t.timeouts = 0 => u.timeouts = 1)
<1> DEFINE n == IF t.timeouts < 2 THEN t.timeouts + 1 ELSE t.timeouts
           v == [t EXCEPT !.timeouts = n]
<1>1. t.timeouts \in 0..2
  BY DEF Stream
<1>2. n \in 0..2 /\ n # 0 /\ (t.timeouts = 0 => n = 1)
  BY <1>1
<1>3. Told(t, "AgentTimedOut", from, to) = v
  BY DEF Told
<1> HIDE DEF n
<1>4. /\ v \in Stream /\ v.status = t.status /\ v.listed = t.listed /\ v.fits = t.fits
      /\ v.deadline = t.deadline /\ v.timeouts = n
  BY <1>2 DEF Stream
<1>5. QED
  BY <1>2, <1>3, <1>4

LEMMA ToldDiscovered ==
    ASSUME NEW t \in Stream, NEW from, NEW to
    PROVE  LET u == Told(t, "AgentDiscovered", from, to)
           IN  /\ u \in Stream /\ u.status = "known" /\ u.fits = t.fits
               /\ u.timeouts = t.timeouts /\ u.deadline = t.deadline
  BY DEF Told, Stream

LEMMA ToldGone ==
    ASSUME NEW t \in Stream, NEW from, NEW to
    PROVE  LET u == Told(t, "AgentGone", from, to)
           IN  /\ u \in Stream /\ u.status = "absent" /\ u.fits = t.fits
               /\ u.timeouts = t.timeouts /\ u.deadline = t.deadline
  BY DEF Told, Stream, Status

LEMMA ToldChanged ==
    ASSUME NEW t \in Stream, NEW from, NEW to \in Status
    PROVE  LET u == Told(t, "StatusChanged", from, to)
           IN  /\ u \in Stream /\ u.status = to
               /\ u.fits = (t.fits /\ t.status \in {"known", from})
               /\ u.timeouts = t.timeouts /\ u.deadline = t.deadline
<1> DEFINE f == t.fits /\ t.status \in {"known", from}
           v == [t EXCEPT !.status = to, !.listed = TRUE, !.fits = f]
<1>1. f \in BOOLEAN
  BY DEF Stream
<1>2. Told(t, "StatusChanged", from, to) = v
  BY DEF Told
<1> HIDE DEF f
<1>3. /\ v \in Stream /\ v.status = to /\ v.fits = f /\ v.timeouts = t.timeouts
      /\ v.deadline = t.deadline
  BY <1>1 DEF Stream
<1>4. QED
  BY <1>2, <1>3 DEF f

(* One stream is written, and this is what it tells then.                    *)
ToldOnly(a, u) ==
    /\ told' = [told EXCEPT ![a] = u] /\ u \in Stream
    /\ u.deadline => a \in Timed

LEMMA ToldMoves ==
    ASSUME PollTypes, PollNext
    PROVE  \/ UNCHANGED told
           \/ \E a \in Agents, u \in Stream : ToldOnly(a, u)
<1>0. /\ told \in [Agents -> Stream] /\ \A a \in Agents : told[a].deadline => a \in Timed
      /\ \A a \in Agents : spawn[a].pc = "deadline" => a \in Timed
  BY DEF PollTypes, ToldType, RequestType
<1>1. ASSUME NEW a \in Agents, SpawnEmit(a)
      PROVE  ToldOnly(a, Told(told[a], "AgentSpawned", "absent", "absent"))
  BY <1>0, <1>1, ToldSpawned DEF SpawnEmit, EmitAbout, ToldOnly
<1>2. ASSUME NEW a \in Agents, SpawnDeadline(a)
      PROVE  ToldOnly(a, Told(told[a], "DeadlineSet", "absent", "absent"))
  BY <1>0, <1>2, ToldDeadline DEF SpawnDeadline, EmitAbout, ToldOnly
<1>3. ASSUME NEW a \in Agents, RmEmit(a)
      PROVE  ToldOnly(a, Told(told[a], "AgentGone", "absent", "absent"))
  BY <1>0, <1>3, ToldGone DEF RmEmit, EmitAbout, ToldOnly
<1>4. ASSUME NEW r \in Pollers, NEW a \in Agents, EmitTimedOut(r, a)
      PROVE  ToldOnly(a, Told(told[a], "AgentTimedOut", "absent", "absent"))
  BY <1>0, <1>4, ToldTimedOut DEF EmitTimedOut, EmitAbout, ToldOnly
<1>5. ASSUME NEW r \in Pollers, NEW a \in Agents, EmitDiff(r, a)
      PROVE  \E u \in Stream : ToldOnly(a, u)
  <2> DEFINE from == poll[r].prior[a]
             to == poll[r].records[a]
  <2>1. to \in Status
    BY DEF PollTypes, PollType, PollState
  <2> DEFINE u == IF from = "absent" THEN Told(told[a], "AgentDiscovered", from, to)
                  ELSE IF to = "absent" THEN Told(told[a], "AgentGone", from, to)
                  ELSE Told(told[a], "StatusChanged", from, to)
  <2>2. told' = [told EXCEPT ![a] = u]
    BY <1>0, <1>5 DEF EmitDiff, EmitChange
  <2>3. u \in Stream /\ u.deadline = told[a].deadline
    <3> HIDE DEF from, to
    <3>1. told[a] \in Stream
      BY <1>0
    <3>2. QED
      BY <2>1, <3>1, ToldDiscovered, ToldGone, ToldChanged
  <2> HIDE DEF u
  <2>4. QED
    BY <1>0, <2>2, <2>3 DEF ToldOnly
<1>6. QED
  BY <1>1, <1>2, <1>3, <1>4, <1>5, Writers DEF OnlyWriters, ToldWriters, ToldOnly

(***************************************************************************)
(* Types.                                                                   *)
(***************************************************************************)
LEMMA SpendKeeps ==
    ASSUME budget \in Budget,
           NEW what \in {"changes", "outages", "killFaults", "expiries", "crashes",
                         "removals"},
           Spend(what)
    PROVE  /\ budget' \in Budget /\ budget'.timed = budget.timed
           /\ budget'.existing = budget.existing
<1>1. budget[what] \in Nat /\ budget[what] > 0 /\ budget' = [budget EXCEPT ![what] = @ - 1]
  BY DEF Spend, Budget
<1>2. budget[what] - 1 \in Nat
  BY <1>1
<1>3. QED
  BY <1>1, <1>2 DEF Budget

LEMMA BudgetStep ==
    ASSUME PollTypes, PollNext
    PROVE  /\ budget' \in Budget /\ Timed' = Timed
           /\ budget'.existing = budget.existing
<1>0. budget \in Budget
  BY DEF PollTypes, WorldType
<1> DEFINE Kept == /\ budget' \in Budget /\ budget'.timed = budget.timed
                   /\ budget'.existing = budget.existing
<1>1. ASSUME NEW r \in Pollers, KillExpiredFails(r)
      PROVE  Kept
  <2>1. Spend("killFaults") \/ UNCHANGED budget
    BY <1>1, Zenon DEF KillExpiredFails
  <2>2. QED
    BY <1>0, <2>1, SpendKeeps
<1>2. ASSUME NEW r \in Pollers, CrashReplica(r)
      PROVE  Kept
  BY <1>0, <1>2, SpendKeeps DEF CrashReplica
<1>3. ASSUME NEW r \in Pollers, NEW a \in Agents, RmAgent(r, a) \/ KillAgent(r, a)
      PROVE  Kept
  BY <1>0, <1>3, SpendKeeps DEF RmAgent, KillAgent
<1>4. ASSUME NEW a \in Agents, AgentChanges(a)
      PROVE  Kept
  BY <1>0, <1>4, SpendKeeps DEF AgentChanges
<1>5. CASE CalibandDown \/ LeaseExpires
  <2>1. Kept
    BY <1>0, <1>5, SpendKeeps DEF CalibandDown, LeaseExpires
  <2>2. QED
    BY <2>1 DEF Timed
<1>6. CASE UNCHANGED budget
  BY <1>0, <1>6 DEF Timed
<1>7. QED
  BY <1>1, <1>2, <1>3, <1>4, <1>5, <1>6, Writers DEF OnlyWriters, BoundsWriters, Timed

(* The agents of the real statuses, and what a kill makes of them.           *)
LEMMA StatusFacts ==
    /\ Live \subseteq Status /\ "absent" \in Status /\ "running" \in Live
    /\ "absent" \notin Live /\ "killed" \in Status /\ "killed" \notin Live
    /\ "done" \in Status /\ "done" \notin Live
    /\ "known" \notin Status /\ "known" # "absent" /\ "killed" # "absent"
  BY DEF Live, Status, Terminal

(* caliband changes one agent, if any: it is spawned, lives on or ends.      *)
CalMoves(a, to) ==
    /\ cal' = [cal EXCEPT ![a] = to] /\ to \in Status
    /\ \/ to = "absent" /\ \E r \in Pollers : RmAgent(r, a)
       \/ to = "running" /\ \E r \in Pollers : SpawnAgent(r, a)
       \/ to # "absent" /\ cal[a] # "absent" /\ (to \in Live => cal[a] \in Live)

LEMMA CalStep ==
    ASSUME PollTypes, PollNext
    PROVE  UNCHANGED cal \/ \E a \in Agents, to \in Status : CalMoves(a, to)
<1>0. cal \in [Agents -> Status]
  BY DEF PollTypes, WorldType
<1>1. ASSUME NEW r \in Pollers, KillExpired(r)
      PROVE  \E a \in Agents, to \in Status : CalMoves(a, to)
  <2> DEFINE a == poll[r].victim
             to == IF cal[a] \in Live THEN "killed" ELSE cal[a]
  <2>1. a \in Agents
    BY <1>1 DEF KillExpired, PollTypes, PollType, PollState
  <2>2. cal[a] # "absent" /\ cal' = [cal EXCEPT ![a] = to]
    BY <1>0, <1>1, <2>1 DEF KillExpired, Killed
  <2> HIDE DEF a
  <2>3. to \in Status /\ to # "absent" /\ (to \in Live => cal[a] \in Live)
    BY <1>0, <2>1, <2>2, StatusFacts
  <2> HIDE DEF to
  <2>4. QED
    BY <2>1, <2>2, <2>3 DEF CalMoves
<1>2. ASSUME NEW r \in Pollers, NEW a \in Agents, KillAgent(r, a)
      PROVE  CalMoves(a, "killed")
  BY <1>0, <1>2, StatusFacts DEF KillAgent, Killed, CalMoves
<1>3. ASSUME NEW r \in Pollers, NEW a \in Agents, SpawnAgent(r, a)
      PROVE  CalMoves(a, "running")
  <2>1. cal' = [cal EXCEPT ![a] = "running"]
    BY <1>3 DEF SpawnAgent
  <2>2. QED
    BY <1>3, <2>1, StatusFacts DEF CalMoves
<1>4. ASSUME NEW r \in Pollers, NEW a \in Agents, RmAgent(r, a)
      PROVE  CalMoves(a, "absent")
  <2>1. cal' = [cal EXCEPT ![a] = "absent"]
    BY <1>4 DEF RmAgent
  <2>2. QED
    BY <1>4, <2>1, StatusFacts DEF CalMoves
<1>5. ASSUME NEW a \in Agents, AgentChanges(a)
      PROVE  \E to \in Status : CalMoves(a, to)
  <2>1. PICK to \in Live \cup {"done"} : cal[a] \in Live /\ cal' = [cal EXCEPT ![a] = to]
    BY <1>5 DEF AgentChanges
  <2>2. QED
    BY <2>1, StatusFacts DEF CalMoves
<1>6. QED
  BY <1>1, <1>2, <1>3, <1>4, <1>5, StatusFacts, Writers DEF OnlyWriters, CalWriters

LEMMA WorldStep == PollTypes /\ PollNext => WorldType' /\ expired \subseteq expired'
<1> SUFFICES ASSUME PollTypes, PollNext
             PROVE  WorldType' /\ expired \subseteq expired'
  OBVIOUS
<1>0. WorldType
  BY DEF PollTypes
<1>1. cal' \in [Agents -> Status]
  BY <1>0, CalStep DEF WorldType, CalMoves
<1>2. up' \in BOOLEAN /\ expired' \subseteq Timed /\ expired \subseteq expired'
  <2>1. ASSUME NEW a \in Agents, DeadlinePasses(a)
        PROVE  up' \in BOOLEAN /\ expired' \subseteq Timed /\ expired \subseteq expired'
    BY <1>0, <2>1 DEF WorldType, DeadlinePasses
  <2>2. CASE CalibandDown \/ CalibandUp
    BY <1>0, <2>2 DEF WorldType, CalibandDown, CalibandUp
  <2>3. QED
    BY <1>0, <2>1, <2>2, Writers DEF OnlyWriters, ClockWriters, WorldType
<1>3. QED
  BY <1>1, <1>2, BudgetStep DEF WorldType

LEMMA ToldStep == PollTypes /\ PollNext => ToldType'
<1> SUFFICES ASSUME PollTypes, PollNext
             PROVE  ToldType'
  OBVIOUS
<1>0. ToldType
  BY DEF PollTypes
<1>1. healthLog' \in {"healthy", "unreachable"}
  <2>1. ASSUME NEW r \in Pollers, EmitUnreachable(r) \/ EmitHealthy(r)
        PROVE  healthLog' \in {"healthy", "unreachable"}
    BY <2>1 DEF EmitUnreachable, EmitHealthy
  <2>2. ASSUME NEW r \in Pollers, PollListFails(r) \/ WriteSnapshot(r) \/ CrashReplica(r)
        PROVE  healthLog' = healthLog
    BY <2>2 DEF PollListFails, WriteSnapshot, CrashReplica
  <2>3. QED
    BY <1>0, <2>1, <2>2, Writers DEF OnlyWriters, HealthWriters, ToldType
<1>2. told' \in [Agents -> Stream] /\ \A a \in Agents : told'[a].deadline => a \in Timed
  BY <1>0, ToldMoves DEF ToldType, ToldOnly
<1>3. QED
  BY <1>1, <1>2, BudgetStep DEF ToldType

LEMMA LocalStep == PollTypes /\ PollNext => LocalType'
<1> SUFFICES ASSUME PollTypes, PollNext
             PROVE  LocalType'
  OBVIOUS
<1>0. LocalType
  BY DEF PollTypes
<1>n. None \in [Agents -> Status]
  BY DEF None, Status, Live, Terminal
<1>1. snap' \in [Pollers -> [Agents -> Status]]
  <2>1. ASSUME NEW r \in Pollers, WriteSnapshot(r)
        PROVE  snap' \in [Pollers -> [Agents -> Status]]
    BY <1>0, <2>1 DEF WriteSnapshot, LocalType, PollTypes, PollType, PollState
  <2>2. ASSUME NEW r \in Pollers, CrashReplica(r)
        PROVE  snap' \in [Pollers -> [Agents -> Status]]
    BY <1>0, <1>n, <2>2 DEF CrashReplica, LocalType
  <2>3. ASSUME NEW a \in Agents, RmPrune(a)
        PROVE  snap' \in [Pollers -> [Agents -> Status]]
    <3>1. snap' = [snap EXCEPT ![rm[a].at][a] = "absent"]
      BY <2>3 DEF RmPrune
    <3>2. QED
      BY <1>0, <3>1, StatusFacts DEF LocalType
  <2>4. QED
    BY <1>0, <2>1, <2>2, <2>3, Writers DEF OnlyWriters, SnapWriters, LocalType
<1>2. health' \in [Pollers -> {"healthy", "unreachable"}]
  <2>1. ASSUME NEW r \in Pollers, PollListFails(r) \/ WriteSnapshot(r) \/ CrashReplica(r)
        PROVE  health' \in [Pollers -> {"healthy", "unreachable"}]
    BY <1>0, <2>1 DEF LocalType, PollListFails, WriteSnapshot, CrashReplica
  <2>2. ASSUME NEW r \in Pollers, EmitUnreachable(r) \/ EmitHealthy(r)
        PROVE  health' = health
    BY <2>2 DEF EmitUnreachable, EmitHealthy, local
  <2>3. QED
    BY <1>0, <2>1, <2>2, Writers DEF OnlyWriters, HealthWriters, LocalType
<1>3. recent' \in [Pollers -> SUBSET Agents]
  <2>1. ASSUME NEW r \in Pollers, PruneRecentAndAttach(r) \/ CrashReplica(r)
        PROVE  recent' \in [Pollers -> SUBSET Agents]
    BY <1>0, <2>1 DEF LocalType, PruneRecentAndAttach, StillRecent, CrashReplica
  <2>2. ASSUME NEW r \in Pollers, NEW a \in Agents, SpawnAgent(r, a) \/ RmAgent(r, a)
        PROVE  recent' \in [Pollers -> SUBSET Agents]
    <3>1. recent' = [recent EXCEPT ![r] = @ \cup {a}] \/ recent' = [recent EXCEPT ![r] = @ \ {a}]
      BY <2>2 DEF SpawnAgent, RmAgent
    <3>2. QED
      BY <1>0, <3>1 DEF LocalType
  <2>3. QED
    BY <1>0, <2>1, <2>2, Writers DEF OnlyWriters, RecentWriters, LocalType
<1>4. attached' \in [Pollers -> SUBSET Agents]
  <2>1. ASSUME NEW r \in Pollers, NEW as \in SUBSET Agents, Attach(r, as)
        PROVE  attached' \in [Pollers -> SUBSET Agents]
    BY <1>0, <2>1 DEF LocalType, Attach
  <2>2. ASSUME NEW r \in Pollers, PruneRecentAndAttach(r)
        PROVE  attached' \in [Pollers -> SUBSET Agents]
    BY <2>1, <2>2 DEF PruneRecentAndAttach
  <2>3. ASSUME NEW r \in Pollers, CrashReplica(r)
        PROVE  attached' \in [Pollers -> SUBSET Agents]
    BY <1>0, <2>3 DEF LocalType, CrashReplica
  <2>4. ASSUME NEW a \in Agents, SpawnAttach(a)
        PROVE  attached' \in [Pollers -> SUBSET Agents]
    <3>1. spawn[a].at \in Pollers
      BY <2>4 DEF SpawnAttach, PollTypes, RequestType
    <3>2. QED
      BY <2>1, <2>4, <3>1 DEF SpawnAttach
  <2>5. ASSUME NEW r \in Pollers, NEW a \in Agents, AttachExits(r, a)
        PROVE  attached' \in [Pollers -> SUBSET Agents]
    BY <1>0, <2>5 DEF LocalType, AttachExits
  <2>6. QED
    BY <1>0, <2>2, <2>3, <2>4, <2>5, Writers DEF OnlyWriters, AttachedWriters, LocalType
<1>5. /\ deadlines' \in [Pollers -> SUBSET Agents]
      /\ \A r \in Pollers : deadlines'[r] \subseteq Timed
  <2>1. ASSUME NEW r \in Pollers, FindExpired(r)
        PROVE  deadlines' = [deadlines EXCEPT ![r] = KnownDeadlines(r)]
               /\ KnownDeadlines(r) \subseteq Agents /\ KnownDeadlines(r) \subseteq Timed
    BY <1>0, <2>1 DEF LocalType, FindExpired, KnownDeadlines, DeadlineIn, PollTypes, ToldType
  <2>2. ASSUME NEW r \in Pollers, KillExpired(r) \/ CrashReplica(r)
        PROVE  \E ds \in SUBSET deadlines[r] : deadlines' = [deadlines EXCEPT ![r] = ds]
    BY <1>0, <2>2 DEF LocalType, KillExpired, CrashReplica
  <2>3. ASSUME NEW a \in Agents, SpawnEmit(a)
        PROVE  \/ deadlines' = deadlines
               \/ /\ a \in Timed
                  /\ deadlines' = [deadlines EXCEPT ![spawn[a].at] = @ \cup {a}]
    <3>1. deadlines' = IF a \in Timed THEN [deadlines EXCEPT ![spawn[a].at] = @ \cup {a}]
                       ELSE deadlines
      BY <2>3, Zenon DEF SpawnEmit
    <3>2. QED
      BY <3>1
  <2>4. ASSUME NEW r \in Pollers, NEW ds \in SUBSET Agents, ds \subseteq Timed,
               deadlines' = [deadlines EXCEPT ![r] = ds]
        PROVE  /\ deadlines' \in [Pollers -> SUBSET Agents]
               /\ \A q \in Pollers : deadlines'[q] \subseteq Timed
    BY <1>0, <2>4 DEF LocalType
  <2>5. ASSUME NEW a \in Agents, a \in Timed, NEW r,
               deadlines' = [deadlines EXCEPT ![r] = @ \cup {a}]
        PROVE  /\ deadlines' \in [Pollers -> SUBSET Agents]
               /\ \A q \in Pollers : deadlines'[q] \subseteq Timed
    BY <1>0, <2>5 DEF LocalType
  <2>6. \A r \in Pollers : deadlines[r] \subseteq Agents /\ deadlines[r] \subseteq Timed
    BY <1>0 DEF LocalType
  <2>7. CASE UNCHANGED deadlines
    BY <1>0, <2>7 DEF LocalType
  <2>8. ASSUME NEW r \in Pollers, FindExpired(r) \/ KillExpired(r) \/ CrashReplica(r)
        PROVE  /\ deadlines' \in [Pollers -> SUBSET Agents]
               /\ \A q \in Pollers : deadlines'[q] \subseteq Timed
    BY <2>1, <2>2, <2>4, <2>6, <2>8
  <2>9. QED
    BY <2>3, <2>5, <2>7, <2>8, Writers DEF OnlyWriters, DeadlinesWriters
<1>6. QED
  BY <1>1, <1>2, <1>3, <1>4, <1>5, BudgetStep DEF LocalType

LEMMA CrashMoves ==
    ASSUME PollTypes, NEW r \in Pollers, CrashReplica(r)
    PROVE  Moved(r, "idle") /\ poll' \in [Pollers -> PollState] /\ poll'[r] = Idle
<1>1. Goes(r, Idle)
  BY DEF CrashReplica, Goes
<1>2. Fit(Idle)
  BY IdleType DEF Fit
<1>3. QED
  BY <1>1, <1>2, GoesFit, IdleType

(* What enforce_deadlines leaves to do.                                      *)
LEMMA EnforceMoves ==
    ASSUME PollTypes, NEW r \in Pollers
    PROVE  /\ FindExpired(r) =>
                 /\ Moved(r, "due") \/ Moved(r, "idle")
                 /\ poll' \in [Pollers -> PollState] /\ poll[r].pc = "deadlines"
                 /\ poll'[r].todo = {a \in KnownDeadlines(r) \cap expired : snap[r][a] \in Live}
           /\ KillExpired(r) \/ KillExpiredFails(r) =>
                 /\ Moved(r, "due") \/ Moved(r, "idle")
                 /\ poll' \in [Pollers -> PollState] /\ poll[r].pc = "kill"
                 /\ poll'[r].todo = poll[r].todo
<1>0. Fit(poll[r])
  BY DEF PollTypes, PollType, Fit
<1>1. ASSUME FindExpired(r)
      PROVE  /\ Moved(r, "due") \/ Moved(r, "idle")
             /\ poll' \in [Pollers -> PollState] /\ poll[r].pc = "deadlines"
             /\ poll'[r].todo = {a \in KnownDeadlines(r) \cap expired : snap[r][a] \in Live}
  <2> DEFINE todo == {a \in KnownDeadlines(r) \cap expired : snap[r][a] \in Live}
  <2>1. poll[r].pc = "deadlines" /\ KillNext(r, todo)
    BY <1>1 DEF FindExpired
  <2>2. todo \in SUBSET expired /\ poll[r].own
    BY <1>0, <2>1 DEF Fit
  <2> HIDE DEF todo
  <2>3. QED
    BY <2>1, <2>2, KillMoves DEF todo
<1>2. ASSUME KillExpired(r) \/ KillExpiredFails(r)
      PROVE  /\ Moved(r, "due") \/ Moved(r, "idle")
             /\ poll' \in [Pollers -> PollState] /\ poll[r].pc = "kill"
             /\ poll'[r].todo = poll[r].todo
  <2>1. poll[r].pc = "kill" /\ KillNext(r, poll[r].todo)
    BY <1>2, Zenon DEF KillExpired, KillExpiredFails
  <2>2. poll[r].todo \in SUBSET expired /\ poll[r].own
    BY <1>0, <2>1 DEF Fit
  <2>3. QED
    BY <2>1, <2>2, KillMoves
<1>3. QED
  BY <1>1, <1>2

LEMMA PollPaths ==
    ASSUME PollTypes, PollNext
    PROVE  \/ UNCHANGED poll
           \/ /\ poll' \in [Pollers -> PollState]
              /\ \E r \in Pollers : Moved(r, poll'[r].pc)
<1> DEFINE Path == /\ poll' \in [Pollers -> PollState]
                   /\ \E r \in Pollers : Moved(r, poll'[r].pc)
<1>1. ASSUME NEW r \in Pollers, PollList(r) \/ PollListFails(r) \/ EmitUnreachable(r)
      PROVE  Path
  BY <1>1, ListMoves, ListFailMoves, UnreachableMoves DEF Moved
<1>2. ASSUME NEW r \in Pollers, ReadPrior(r) \/ WriteSnapshot(r) \/ EmitHealthy(r)
      PROVE  Path
  BY <1>2, ReadMoves, WriteMoves, HealthyMoves DEF Moved
<1>3. ASSUME NEW r \in Pollers,
             PruneRecentAndAttach(r) \/ FindExpired(r) \/ KillExpired(r) \/ KillExpiredFails(r)
      PROVE  Path
  BY <1>3, PruneMoves, EnforceMoves DEF Moved
<1>4. ASSUME NEW r \in Pollers, CrashReplica(r)
      PROVE  Path
  BY <1>4, CrashMoves DEF Moved
<1>5. ASSUME NEW r \in Pollers, NEW a \in Agents, EmitDiff(r, a) \/ EmitTimedOut(r, a)
      PROVE  Path
  BY <1>5, DiffMoves, TimedOutMoves DEF Moved
<1>6. QED
  BY <1>1, <1>2, <1>3, <1>4, <1>5, Writers DEF OnlyWriters, PollWriters

LEMMA PollTypeStep == PollTypes /\ PollNext => PollType'
<1> SUFFICES ASSUME PollTypes, PollNext
             PROVE  PollType'
  OBVIOUS
<1>0. PollType /\ expired \subseteq expired'
  BY WorldStep DEF PollTypes
<1>1. CASE UNCHANGED poll
  BY <1>0, <1>1 DEF PollType
<1>2. ASSUME poll' \in [Pollers -> PollState], NEW r \in Pollers, NEW pc, Moved(r, pc)
      PROVE  PollType'
  BY <1>0, <1>2 DEF PollType, Moved, Fit
<1>3. QED
  BY <1>1, <1>2, PollPaths

(* A request is where it was, or its caller has just come from somewhere.    *)
LEMMA SpawnStep ==
    ASSUME PollTypes, PollNext
    PROVE  /\ spawn' \in [Agents -> Request]
           /\ \A a \in Agents :
                 /\ spawn'[a].pc # "idle" => spawn'[a].at \in Pollers
                 /\ spawn'[a].pc = "deadline" => a \in Timed
                 /\ spawn[a].pc # "idle" => spawn'[a].pc # "idle" /\ spawn'[a].at = spawn[a].at
<1>0. RequestType
  BY DEF PollTypes
<1> DEFINE Ok == /\ spawn' \in [Agents -> Request]
                 /\ \A a \in Agents :
                       /\ spawn'[a].pc # "idle" => spawn'[a].at \in Pollers
                       /\ spawn'[a].pc = "deadline" => a \in Timed
                       /\ spawn[a].pc # "idle" =>
                             spawn'[a].pc # "idle" /\ spawn'[a].at = spawn[a].at
<1>1. ASSUME NEW a \in Agents, NEW q \in Request, spawn' = [spawn EXCEPT ![a] = q],
             q.pc # "idle", q.at \in Pollers, q.pc = "deadline" => a \in Timed,
             spawn[a].pc # "idle" => q.at = spawn[a].at
      PROVE  Ok
  BY <1>0, <1>1 DEF RequestType
<1>2. ASSUME NEW a \in Agents, spawn[a].pc # "idle", NEW pc \in {"deadline", "attach", "done"},
             pc = "deadline" => a \in Timed, spawn' = [spawn EXCEPT ![a].pc = pc]
      PROVE  Ok
  <2>1. spawn[a] \in Request /\ spawn[a].at \in Pollers
    BY <1>0, <1>2 DEF RequestType
  <2>2. /\ [spawn[a] EXCEPT !.pc = pc] \in Request /\ [spawn[a] EXCEPT !.pc = pc].pc = pc
        /\ [spawn[a] EXCEPT !.pc = pc].at = spawn[a].at
    BY <1>2, <2>1 DEF Request
  <2>3. spawn' = [spawn EXCEPT ![a] = [spawn[a] EXCEPT !.pc = pc]]
    BY <1>2
  <2>4. QED
    BY <1>1, <1>2, <2>1, <2>2, <2>3
<1>3. ASSUME NEW r \in Pollers, NEW a \in Agents, SpawnAgent(r, a)
      PROVE  Ok
  <2>1. spawn[a].pc = "idle" /\ spawn' = [spawn EXCEPT ![a] = [pc |-> "emit", at |-> r]]
    BY <1>3 DEF SpawnAgent
  <2>2. [pc |-> "emit", at |-> r] \in Request
    BY DEF Request
  <2>3. QED
    BY <1>1, <2>1, <2>2
<1>4. ASSUME NEW a \in Agents, SpawnEmit(a)
      PROVE  Ok
  <2> DEFINE pc == IF a \in Timed THEN "deadline" ELSE "attach"
  <2>1. spawn[a].pc = "emit" /\ spawn' = [spawn EXCEPT ![a].pc = pc]
    BY <1>4, Zenon DEF SpawnEmit
  <2>2. pc \in {"deadline", "attach", "done"} /\ (pc = "deadline" => a \in Timed)
    OBVIOUS
  <2> HIDE DEF pc
  <2>3. QED
    BY <1>2, <2>1, <2>2
<1>5. ASSUME NEW a \in Agents, SpawnDeadline(a)
      PROVE  Ok
  <2>1. spawn[a].pc = "deadline" /\ spawn' = [spawn EXCEPT ![a].pc = "attach"]
    BY <1>5 DEF SpawnDeadline
  <2>2. QED
    BY <1>2, <2>1
<1>6. ASSUME NEW a \in Agents, SpawnAttach(a)
      PROVE  Ok
  <2>1. spawn[a].pc = "attach" /\ spawn' = [spawn EXCEPT ![a].pc = "done"]
    BY <1>6 DEF SpawnAttach
  <2>2. QED
    BY <1>2, <2>1
<1>7. ASSUME NEW r \in Pollers, CrashReplica(r)
      PROVE  Ok
  <2>1. spawn' = Abandoned(spawn, r)
    BY <1>7 DEF CrashReplica
  <2>2. \A q \in Request : LET p == [q EXCEPT !.pc = "done"]
                           IN  p \in Request /\ p.pc = "done" /\ p.at = q.at
    BY DEF Request
  <2>3. QED
    BY <1>0, <2>1, <2>2 DEF Abandoned, RequestType
<1>8. CASE UNCHANGED spawn
  BY <1>0, <1>8 DEF RequestType
<1>9. QED
  BY <1>3, <1>4, <1>5, <1>6, <1>7, <1>8, Writers DEF OnlyWriters, SpawnWriters

LEMMA RmStep ==
    ASSUME PollTypes, PollNext
    PROVE  /\ rm' \in [Agents -> Request]
           /\ \A a \in Agents :
                 /\ rm'[a].pc # "idle" => rm'[a].at \in Pollers
                 /\ rm[a].pc # "idle" => rm'[a].pc # "idle" /\ rm'[a].at = rm[a].at
<1>0. RequestType
  BY DEF PollTypes
<1> DEFINE Ok == /\ rm' \in [Agents -> Request]
                 /\ \A a \in Agents :
                       /\ rm'[a].pc # "idle" => rm'[a].at \in Pollers
                       /\ rm[a].pc # "idle" => rm'[a].pc # "idle" /\ rm'[a].at = rm[a].at
<1>1. ASSUME NEW a \in Agents, NEW q \in Request, rm' = [rm EXCEPT ![a] = q],
             q.pc # "idle", q.at \in Pollers, rm[a].pc # "idle" => q.at = rm[a].at
      PROVE  Ok
  BY <1>0, <1>1 DEF RequestType
<1>2. ASSUME NEW a \in Agents, rm[a].pc # "idle", NEW pc \in {"acquire", "emit", "done"},
             rm' = [rm EXCEPT ![a].pc = pc]
      PROVE  Ok
  <2>1. rm[a] \in Request /\ rm[a].at \in Pollers
    BY <1>0, <1>2 DEF RequestType
  <2>2. /\ [rm[a] EXCEPT !.pc = pc] \in Request /\ [rm[a] EXCEPT !.pc = pc].pc = pc
        /\ [rm[a] EXCEPT !.pc = pc].at = rm[a].at
    BY <1>2, <2>1 DEF Request
  <2>3. rm' = [rm EXCEPT ![a] = [rm[a] EXCEPT !.pc = pc]]
    BY <1>2
  <2>4. QED
    BY <1>1, <1>2, <2>1, <2>2, <2>3
<1>3. ASSUME NEW r \in Pollers, NEW a \in Agents, RmAgent(r, a)
      PROVE  Ok
  <2>1. rm[a].pc = "idle" /\ rm' = [rm EXCEPT ![a] = [pc |-> "prune", at |-> r]]
    BY <1>3 DEF RmAgent
  <2>2. [pc |-> "prune", at |-> r] \in Request
    BY DEF Request
  <2>3. QED
    BY <1>1, <2>1, <2>2
<1>4. ASSUME NEW a \in Agents, RmPrune(a)
      PROVE  Ok
  <2> DEFINE pc == IF snap[rm[a].at][a] # "absent" THEN "acquire" ELSE "done"
  <2>1. rm[a].pc = "prune" /\ rm' = [rm EXCEPT ![a].pc = pc]
    BY <1>4, Zenon DEF RmPrune
  <2>2. pc \in {"acquire", "emit", "done"}
    OBVIOUS
  <2> HIDE DEF pc
  <2>3. QED
    BY <1>2, <2>1, <2>2
<1>5. ASSUME NEW a \in Agents, RmAcquire(a)
      PROVE  Ok
  <2> DEFINE pc == IF Acquires(rm[a].at) THEN "emit" ELSE "done"
  <2>1. rm[a].pc = "acquire" /\ rm' = [rm EXCEPT ![a].pc = pc]
    BY <1>5, Zenon DEF RmAcquire
  <2>2. pc \in {"acquire", "emit", "done"}
    OBVIOUS
  <2> HIDE DEF pc
  <2>3. QED
    BY <1>2, <2>1, <2>2
<1>6. ASSUME NEW a \in Agents, RmEmit(a)
      PROVE  Ok
  <2>1. rm[a].pc = "emit" /\ rm' = [rm EXCEPT ![a].pc = "done"]
    BY <1>6 DEF RmEmit
  <2>2. QED
    BY <1>2, <2>1
<1>7. ASSUME NEW r \in Pollers, CrashReplica(r)
      PROVE  Ok
  <2>1. rm' = Abandoned(rm, r)
    BY <1>7 DEF CrashReplica
  <2>2. \A q \in Request : LET p == [q EXCEPT !.pc = "done"]
                           IN  p \in Request /\ p.pc = "done" /\ p.at = q.at
    BY DEF Request
  <2>3. QED
    BY <1>0, <2>1, <2>2 DEF Abandoned, RequestType
<1>8. CASE UNCHANGED rm
  BY <1>0, <1>8 DEF RequestType
<1>9. QED
  BY <1>3, <1>4, <1>5, <1>6, <1>7, <1>8, Writers DEF OnlyWriters, RmWriters

LEMMA RequestStepType == PollTypes /\ PollNext => RequestType'
<1> SUFFICES ASSUME PollTypes, PollNext
             PROVE  RequestType'
  OBVIOUS
<1>0. RequestType
  BY DEF PollTypes
<1>1. \A a \in Agents : a \in expired' => a \in expired \/ spawn[a].pc # "idle"
  <2>1. ASSUME NEW a \in Agents, DeadlinePasses(a)
        PROVE  expired' = expired \cup {a} /\ spawn[a].pc # "idle"
    BY <2>1 DEF DeadlinePasses
  <2>2. CASE CalibandDown \/ CalibandUp
    BY <2>2 DEF CalibandDown, CalibandUp
  <2>3. QED
    BY <2>1, <2>2, Writers DEF OnlyWriters, ClockWriters
<1>2. QED
  BY <1>0, <1>1, SpawnStep, RmStep, BudgetStep DEF RequestType

LEMMA PollTypesStep == PollTypes /\ PollNext => PollTypes'
  BY WorldStep, ToldStep, LocalStep, PollTypeStep, RequestStepType DEF PollTypes

(***************************************************************************)
(* The lease and the polls that own it.                                     *)
(***************************************************************************)
(* Faults are remembered: while the lease has one owner it neither expires    *)
(* nor loses its replica.                                                    *)
LEMMA MishapsGrow ==
    ASSUME PollNext
    PROVE  /\ mishaps \subseteq mishaps'
           /\ SameOwner' => ~ LeaseExpires /\ \A r \in Pollers : ~ CrashReplica(r)
           /\ mishaps' = {} => \A r \in Pollers : ~ KillExpiredFails(r)
<1>1. LeaseExpires => mishaps' = mishaps \cup {"expiry"}
  BY DEF LeaseExpires
<1>2. \A r \in Pollers : CrashReplica(r) => mishaps' = mishaps \cup {"crash"}
  BY DEF CrashReplica
<1>3. \A r \in Pollers : KillExpiredFails(r) => mishaps' = mishaps \cup {"kill"}
  BY DEF KillExpiredFails
<1>4. mishaps \subseteq mishaps'
  BY <1>1, <1>2, <1>3, Writers DEF OnlyWriters, MishapsWriters
<1>5. QED
  BY <1>1, <1>2, <1>3, <1>4 DEF SameOwner

LEMMA OneOwnerStays ==
    ASSUME PollTypes, OneOwner, PollNext
    PROVE  /\ owner' \in Pollers \cup {Nobody}
           /\ SameOwner' => SameOwner
           /\ SameOwner' => \/ owner' = owner
                            \/ owner = Nobody /\ owner' \in Pollers \ down
<1> DEFINE Stays == \/ owner' = owner
                    \/ owner = Nobody /\ owner' \in Pollers \ down
<1>1. ASSUME NEW r \in Pollers, r \notin down, owner' = IF Acquires(r) THEN r ELSE owner
      PROVE  Stays
  BY <1>1 DEF Acquires
<1>2. ASSUME NEW r \in Pollers, PollList(r) \/ PollListFails(r)
      PROVE  Stays
  BY <1>1, <1>2 DEF PollList, PollListFails
<1>3. ASSUME NEW a \in Agents, RmAcquire(a)
      PROVE  Stays
  <2>1. rm[a].pc = "acquire" /\ owner' = IF Acquires(rm[a].at) THEN rm[a].at ELSE owner
    BY <1>3, Zenon DEF RmAcquire
  <2>2. rm[a].at \in Pollers /\ rm[a].at \notin down
    BY <2>1 DEF PollTypes, RequestType, OneOwner
  <2>3. QED
    BY <1>1, <2>1, <2>2
<1>4. LeaseExpires \/ DeadLeaseExpires => owner' = Nobody
  BY DEF LeaseExpires, DeadLeaseExpires
<1>5. owner' \in Pollers \cup {Nobody}
  BY <1>2, <1>3, <1>4, Writers DEF OnlyWriters, OwnerWriters, OneOwner
<1>6. SameOwner' => SameOwner
  BY MishapsGrow DEF SameOwner
<1>7. SameOwner' => ~ DeadLeaseExpires
  BY <1>6 DEF DeadLeaseExpires, OneOwner
<1>8. SameOwner' => Stays
  BY <1>2, <1>3, <1>7, MishapsGrow, Writers DEF OnlyWriters, OwnerWriters
<1>9. QED
  BY <1>5, <1>6, <1>8

(* A poll that moved made a step of its own.                                 *)
LEMMA PollerSteps ==
    ASSUME PollTypes, PollNext, NEW r \in Pollers
    PROVE  \/ poll'[r] = poll[r]
           \/ PollList(r) \/ PollListFails(r) \/ EmitUnreachable(r) \/ ReadPrior(r)
           \/ WriteSnapshot(r) \/ EmitHealthy(r) \/ PruneRecentAndAttach(r)
           \/ FindExpired(r) \/ KillExpired(r) \/ KillExpiredFails(r) \/ CrashReplica(r)
           \/ \E a \in Agents : EmitDiff(r, a) \/ EmitTimedOut(r, a)
<1>1. ASSUME NEW q \in Pollers, q # r,
             \/ PollList(q) \/ PollListFails(q) \/ EmitUnreachable(q) \/ ReadPrior(q)
             \/ WriteSnapshot(q) \/ EmitHealthy(q) \/ PruneRecentAndAttach(q)
             \/ FindExpired(q) \/ KillExpired(q) \/ KillExpiredFails(q) \/ CrashReplica(q)
             \/ \E a \in Agents : EmitDiff(q, a) \/ EmitTimedOut(q, a)
      PROVE  poll'[r] = poll[r]
  BY <1>1, ListMoves, ListFailMoves, UnreachableMoves, ReadMoves, WriteMoves,
     HealthyMoves, PruneMoves, EnforceMoves, CrashMoves, DiffMoves, TimedOutMoves DEF Moved
<1>2. QED
  BY <1>1, Writers DEF OnlyWriters, PollWriters

(* A poll comes to own the lease, and to a list, by its first step alone.     *)
LEMMA OwnMoves ==
    ASSUME PollTypes, PollNext, NEW r \in Pollers
    PROVE  \/ PollList(r)
           \/ /\ poll'[r].own => poll[r].own
              /\ poll'[r].pc \in Listing =>
                    /\ poll[r].pc \in Listing /\ poll'[r].own = poll[r].own
                    /\ poll'[r].records = poll[r].records
<1> DEFINE Kept == /\ poll'[r].own => poll[r].own
                   /\ poll'[r].pc \in Listing =>
                         /\ poll[r].pc \in Listing /\ poll'[r].own = poll[r].own
                         /\ poll'[r].records = poll[r].records
<1>2. CASE poll'[r] = poll[r]
  BY <1>2
<1>3. CASE PollListFails(r) \/ EmitUnreachable(r) \/ CrashReplica(r)
  BY <1>3, ListFailMoves, UnreachableMoves, CrashMoves, IdleType DEF Moved, Listing
<1>4. CASE ReadPrior(r)
  BY <1>4, ReadMoves DEF ReadPrior, Listing
<1>5. CASE WriteSnapshot(r)
  BY <1>5, WriteMoves DEF WriteSnapshot, Listing
<1>6. CASE EmitHealthy(r)
  BY <1>6, HealthyMoves DEF EmitHealthy, Listing
<1>7. CASE PruneRecentAndAttach(r)
  BY <1>7, PruneMoves DEF Moved, Listing
<1>8. CASE FindExpired(r) \/ KillExpired(r) \/ KillExpiredFails(r)
  <2>1. poll[r].own
    BY <1>8, EnforceMoves DEF PollTypes, PollType
  <2>2. QED
    BY <1>8, <2>1, EnforceMoves DEF Moved, Listing
<1>9. ASSUME NEW a \in Agents, EmitDiff(r, a)
      PROVE  Kept
  BY <1>9, DiffMoves DEF EmitDiff, Listing
<1>10. ASSUME NEW a \in Agents, EmitTimedOut(r, a)
       PROVE  Kept
  BY <1>10, TimedOutMoves DEF Moved, Listing
<1>11. QED
  BY <1>2, <1>3, <1>4, <1>5, <1>6, <1>7, <1>8, <1>9, <1>10, PollerSteps

(* A poll is in its diff since it read the snapshot.                         *)
LEMMA DiffPaths ==
    ASSUME PollTypes, PollNext, NEW r \in Pollers, poll'[r].pc = "diff"
    PROVE  \/ poll'[r] = poll[r] \/ ReadPrior(r)
           \/ \E a \in Agents : EmitDiff(r, a)
  BY PollerSteps, ListMoves, ListFailMoves, UnreachableMoves, WriteMoves, HealthyMoves,
     PruneMoves, EnforceMoves, CrashMoves, TimedOutMoves DEF Moved

LEMMA OneOwnerStep == PollTypes /\ OneOwner /\ PollNext => OneOwner'
<1> SUFFICES ASSUME PollTypes, OneOwner, PollNext
             PROVE  OneOwner'
  OBVIOUS
<1>1. ASSUME NEW a \in Agents, rm'[a].pc \in {"prune", "acquire", "emit"}
      PROVE  rm'[a].at \notin down'
  <2>1. rm[a] \in Request
    BY DEF PollTypes, RequestType
  <2>2. ASSUME NEW r \in Pollers, CrashReplica(r)
        PROVE  rm'[a].at \notin down'
    <3>1. rm' = Abandoned(rm, r) /\ down' = down \cup {r}
      BY <2>2 DEF CrashReplica
    <3>2. [rm[a] EXCEPT !.pc = "done"].pc = "done"
      BY <2>1 DEF Request
    <3>3. rm'[a] = IF rm[a].at = r /\ rm[a].pc # "idle" THEN [rm[a] EXCEPT !.pc = "done"] ELSE rm[a]
      BY <3>1 DEF Abandoned
    <3>4. rm'[a] = rm[a] /\ rm[a].at # r
      BY <1>1, <3>2, <3>3
    <3>5. QED
      BY <1>1, <3>1, <3>4 DEF OneOwner
  <2>3. ASSUME \A r \in Pollers : ~ CrashReplica(r)
        PROVE  down' \subseteq down
    <3>1. ASSUME NEW r \in Pollers, Restart(r)
          PROVE  down' \subseteq down
      BY <3>1 DEF Restart
    <3>2. QED
      BY <2>3, <3>1, Writers DEF OnlyWriters, DownWriters
  <2>4. ASSUME NEW r \in Pollers, NEW b \in Agents, RmAgent(r, b)
        PROVE  rm'[a] = rm[a] \/ rm'[a].at \notin down
    <3>1. r \notin down /\ rm' = [rm EXCEPT ![b] = [pc |-> "prune", at |-> r]]
      BY <2>4 DEF RmAgent
    <3>2. QED
      BY <3>1 DEF PollTypes, RequestType
  <2>5. ASSUME NEW b \in Agents, RmPrune(b) \/ RmAcquire(b) \/ RmEmit(b)
        PROVE  rm'[a] = rm[a] \/ rm[a].pc \in {"prune", "acquire", "emit"}
    <3>1. rm[b].pc \in {"prune", "acquire", "emit"}
          /\ \E pc : rm' = [rm EXCEPT ![b].pc = pc]
      BY <2>5, Zenon DEF RmPrune, RmAcquire, RmEmit
    <3>2. QED
      BY <3>1 DEF PollTypes, RequestType
  <2>6. (\A r \in Pollers : ~ CrashReplica(r)) =>
            \/ rm'[a].at \notin down
            \/ rm'[a].at = rm[a].at /\ rm[a].pc \in {"prune", "acquire", "emit"}
    BY <1>1, <2>4, <2>5, RmStep, Writers DEF OnlyWriters, RmWriters
  <2>7. QED
    BY <2>2, <2>3, <2>6 DEF OneOwner
<1>2. ASSUME NEW r \in Pollers, poll'[r].pc = "diff", poll'[r].todo # {}
      PROVE  poll'[r].own
  <2>1. CASE ReadPrior(r)
    BY <1>2, <2>1, ReadMoves DEF Changed
  <2>2. ASSUME NEW a \in Agents, EmitDiff(r, a)
        PROVE  poll'[r].own
    BY <1>2, <2>2, DiffMoves DEF EmitDiff, OneOwner
  <2>3. CASE poll'[r] = poll[r]
    BY <1>2, <2>3 DEF OneOwner
  <2>4. QED
    BY <1>2, <2>1, <2>2, <2>3, DiffPaths
<1>3. ASSUME SameOwner'
      PROVE  /\ owner' \notin down'
             /\ \A r \in Pollers :
                   /\ poll'[r].own => owner' = r
                   /\ poll'[r].pc \in Listing => owner' # Nobody /\ (owner' = r => poll'[r].own)
  <2>1. SameOwner /\ down' \subseteq down
    <3>1. ASSUME NEW r \in Pollers, Restart(r)
          PROVE  down' \subseteq down
      BY <3>1 DEF Restart
    <3>2. QED
      BY <1>3, <3>1, MishapsGrow, OneOwnerStays, Writers DEF OnlyWriters, DownWriters
  <2>2. owner' \notin down'
    BY <1>3, <2>1, OneOwnerStays DEF OneOwner
  <2>3. ASSUME NEW r \in Pollers, PollList(r)
        PROVE  /\ poll'[r].own => owner' = r
               /\ owner' # Nobody /\ (owner' = r => poll'[r].own)
    <3>1. owner' = IF Acquires(r) THEN r ELSE owner
      BY <2>3 DEF PollList
    <3>2. QED
      BY <2>3, <3>1, ListMoves, LeaseNobodyAssumption DEF Acquires
  <2>4. ASSUME NEW r \in Pollers, ~ PollList(r)
        PROVE  /\ poll'[r].own => owner' = r
               /\ poll'[r].pc \in Listing => owner' # Nobody /\ (owner' = r => poll'[r].own)
    BY <1>3, <2>1, <2>4, OwnMoves, OneOwnerStays, LeaseNobodyAssumption DEF OneOwner
  <2>5. QED
    BY <2>2, <2>3, <2>4
<1>4. QED
  BY <1>1, <1>2, <1>3, OneOwnerStays DEF OneOwner

(***************************************************************************)
(* Agents that live, and who knows of them.                                 *)
(***************************************************************************)
LEMMA LivesStep == PollTypes /\ Lives /\ PollNext => Lives'
<1> SUFFICES ASSUME PollTypes, Lives, PollNext, NEW a \in Agents
             PROVE  /\ cal'[a] # "absent" \/ rm'[a].pc # "idle" => Born(a)'
                    /\ rm'[a].pc # "idle" => cal'[a] = "absent"
  BY DEF Lives
<1>0. cal \in [Agents -> Status] /\ rm \in [Agents -> Request] /\ spawn \in [Agents -> Request]
  BY DEF PollTypes, WorldType, RequestType
<1>1. Born(a) => Born(a)'
  BY SpawnStep, BudgetStep DEF Born
<1>2. ASSUME NEW r \in Pollers, SpawnAgent(r, a)
      PROVE  ~ Born(a) /\ Born(a)' /\ rm'[a] = rm[a]
  <2>1. spawn[a].pc = "idle" /\ a \notin budget.existing /\ rm' = rm
        /\ spawn' = [spawn EXCEPT ![a] = [pc |-> "emit", at |-> r]]
    BY <1>2 DEF SpawnAgent
  <2>2. spawn'[a].pc = "emit"
    BY <1>0, <2>1
  <2>3. QED
    BY <2>1, <2>2 DEF Born
<1>3. ASSUME NEW r \in Pollers, RmAgent(r, a)
      PROVE  cal[a] # "absent" /\ cal'[a] = "absent"
  BY <1>0, <1>3 DEF RmAgent
<1>4. rm'[a].pc # "idle" => rm[a].pc # "idle" \/ \E r \in Pollers : RmAgent(r, a)
  <2>1. ASSUME NEW r \in Pollers, NEW b \in Agents, RmAgent(r, b), a # b
        PROVE  rm'[a] = rm[a]
    <3>1. rm' = [rm EXCEPT ![b] = [pc |-> "prune", at |-> r]]
      BY <2>1 DEF RmAgent
    <3>2. QED
      BY <1>0, <2>1, <3>1
  <2>2. ASSUME NEW b \in Agents, RmPrune(b) \/ RmAcquire(b) \/ RmEmit(b)
        PROVE  rm'[a] = rm[a] \/ rm[a].pc # "idle"
    <3>1. rm[b].pc # "idle" /\ \E pc : rm' = [rm EXCEPT ![b].pc = pc]
      BY <2>2, Zenon DEF RmPrune, RmAcquire, RmEmit
    <3>2. QED
      BY <1>0, <3>1
  <2>3. ASSUME NEW r \in Pollers, CrashReplica(r)
        PROVE  rm'[a] = rm[a] \/ rm[a].pc # "idle"
    BY <2>3 DEF CrashReplica, Abandoned
  <2>4. QED
    BY <2>1, <2>2, <2>3, Writers DEF OnlyWriters, RmWriters
<1>5. cal'[a] # "absent" => cal[a] # "absent" \/ \E r \in Pollers : SpawnAgent(r, a)
  BY <1>0, CalStep DEF CalMoves
<1>6. QED
  BY <1>1, <1>2, <1>3, <1>4, <1>5 DEF Lives

(* Whoever is not being removed neither disappears nor leaves a snapshot but  *)
(* by a list.                                                                *)
LEMMA Untouched ==
    ASSUME PollTypes, PollNext, NEW a \in Agents, rm'[a].pc = "idle"
    PROVE  /\ rm[a].pc = "idle" /\ ~ RmPrune(a) /\ ~ RmEmit(a)
           /\ \A r \in Pollers : ~ RmAgent(r, a)
           /\ cal[a] # "absent" => cal'[a] # "absent"
           /\ \A r \in Pollers :
                 \/ snap'[r][a] = snap[r][a] \/ CrashReplica(r)
                 \/ WriteSnapshot(r) /\ snap'[r][a] = poll[r].records[a]
<1>0. /\ cal \in [Agents -> Status] /\ rm \in [Agents -> Request]
      /\ snap \in [Pollers -> [Agents -> Status]]
  BY DEF PollTypes, WorldType, RequestType, LocalType
<1>1. rm[a].pc = "idle"
  BY RmStep
<1>2. ~ RmPrune(a) /\ ~ RmEmit(a)
  BY <1>1 DEF RmPrune, RmEmit
<1>3. ASSUME NEW r \in Pollers, RmAgent(r, a)
      PROVE  FALSE
  <2>1. rm' = [rm EXCEPT ![a] = [pc |-> "prune", at |-> r]]
    BY <1>3 DEF RmAgent
  <2>2. QED
    BY <1>0, <2>1
<1>4. cal[a] # "absent" => cal'[a] # "absent"
  BY <1>0, <1>3, CalStep DEF CalMoves
<1>5. ASSUME NEW r \in Pollers
      PROVE  \/ snap'[r][a] = snap[r][a] \/ CrashReplica(r)
             \/ WriteSnapshot(r) /\ snap'[r][a] = poll[r].records[a]
  <2>1. ASSUME NEW q \in Pollers, CrashReplica(q), q # r
        PROVE  snap'[r] = snap[r]
    BY <1>0, <2>1 DEF CrashReplica
  <2>2. ASSUME NEW q \in Pollers, WriteSnapshot(q)
        PROVE  snap'[r] = IF q = r THEN poll[r].records ELSE snap[r]
    BY <1>0, <2>2 DEF WriteSnapshot
  <2>3. ASSUME NEW b \in Agents, RmPrune(b)
        PROVE  snap'[r][a] = snap[r][a]
    <3>1. snap' = [snap EXCEPT ![rm[b].at][b] = "absent"]
      BY <2>3 DEF RmPrune
    <3>2. b # a
      BY <1>2, <2>3
    <3>3. QED
      BY <1>0, <3>1, <3>2
  <2>4. QED
    BY <2>1, <2>2, <2>3, Writers DEF OnlyWriters, SnapWriters
<1>6. QED
  BY <1>1, <1>2, <1>3, <1>4, <1>5

LEMMA FoundStep == PollTypes /\ Found /\ PollNext => Found'
<1> SUFFICES ASSUME PollTypes, Found, PollNext, NEW r \in Pollers, NEW a \in Agents,
                    rm'[a].pc = "idle"
             PROVE  Ahead(r, a)'
  BY DEF Found
<1>0. Ahead(r, a) /\ (cal[a] # "absent" => cal'[a] # "absent")
  BY Untouched DEF Found
<1>1. ~ WriteSnapshot(r) /\ ~ CrashReplica(r) => snap'[r][a] = snap[r][a]
  BY Untouched
<1>2. CASE CrashReplica(r)
  <2>1. snap'[r][a] = "absent" /\ poll'[r].pc = "idle"
    <3>1. snap' = [snap EXCEPT ![r] = None]
      BY <1>2 DEF CrashReplica
    <3>2. QED
      BY <1>2, <3>1, CrashMoves, IdleType DEF None, PollTypes, LocalType
  <2>2. QED
    BY <2>1 DEF Ahead, Listing
<1>3. CASE WriteSnapshot(r)
  <2>1. poll[r].pc = "diff" /\ poll'[r].pc \in {"healthy", "recent"}
        /\ poll'[r].records = poll[r].records
    BY <1>3, WriteMoves DEF WriteSnapshot, Moved
  <2>2. snap'[r][a] = poll[r].records[a]
    BY <1>3 DEF WriteSnapshot, PollTypes, LocalType
  <2>3. QED
    BY <1>0, <2>1, <2>2 DEF Ahead, Listing
<1>4. CASE PollList(r)
  <2>1. snap'[r][a] = snap[r][a]
    BY <1>4 DEF PollList, local
  <2>2. poll'[r].pc = "prior" /\ poll'[r].records[a] = cal[a]
    BY <1>4, ListMoves DEF Moved
  <2>3. QED
    BY <1>0, <2>1, <2>2 DEF Ahead, Listing
<1>5. CASE ReadPrior(r)
  <2>1. snap'[r][a] = snap[r][a]
    BY <1>5 DEF ReadPrior, local
  <2>2. /\ poll[r].pc = "prior" /\ poll'[r].pc = "diff" /\ poll'[r].records = poll[r].records
        /\ poll'[r].prior[a] = snap[r][a]
    BY <1>5, ReadMoves DEF ReadPrior, Moved
  <2>3. QED
    BY <1>0, <2>1, <2>2 DEF Ahead, Listing
<1>6. ASSUME NEW b \in Agents, EmitDiff(r, b)
      PROVE  Ahead(r, a)'
  <2>1. snap'[r][a] = snap[r][a]
    BY <1>6 DEF EmitDiff, local
  <2>2. /\ poll[r].pc = "diff" /\ poll'[r].pc = "diff" /\ poll'[r].records = poll[r].records
        /\ poll'[r].prior = poll[r].prior
    BY <1>6, DiffMoves DEF EmitDiff, Moved
  <2>3. QED
    BY <1>0, <2>1, <2>2 DEF Ahead, Listing
<1>7. CASE EmitHealthy(r)
  <2>1. snap'[r][a] = snap[r][a]
    BY <1>7 DEF EmitHealthy, local
  <2>2. /\ poll[r].pc = "healthy" /\ poll'[r].pc = "recent"
        /\ poll'[r].records = poll[r].records
    BY <1>7, HealthyMoves DEF EmitHealthy, Moved
  <2>3. QED
    BY <1>0, <2>1, <2>2 DEF Ahead, Listing
<1>8. CASE poll'[r] = poll[r] /\ snap'[r][a] = snap[r][a]
  BY <1>0, <1>8 DEF Ahead
<1>9. CASE poll'[r].pc \notin Listing /\ snap'[r][a] = snap[r][a]
  BY <1>0, <1>9 DEF Ahead, Listing
<1>10. CASE \/ PollListFails(r) \/ EmitUnreachable(r) \/ PruneRecentAndAttach(r)
            \/ FindExpired(r) \/ KillExpired(r) \/ KillExpiredFails(r)
            \/ \E b \in Agents : EmitTimedOut(r, b)
  BY <1>1, <1>2, <1>3, <1>9, <1>10, ListFailMoves, UnreachableMoves, PruneMoves, EnforceMoves,
     TimedOutMoves DEF Moved, Listing
<1>11. QED
  BY <1>1, <1>2, <1>3, <1>4, <1>5, <1>6, <1>7, <1>8, <1>10, PollerSteps

(* How the request that spawns a goes on.                                    *)
LEMMA SpawnPaths ==
    ASSUME PollTypes, PollNext, NEW a \in Agents
    PROVE  \/ spawn'[a] = spawn[a]
           \/ \E r \in Pollers : SpawnAgent(r, a) /\ spawn'[a].pc = "emit" /\ spawn'[a].at = r
           \/ SpawnEmit(a) \/ SpawnDeadline(a)
           \/ SpawnAttach(a) /\ spawn'[a].pc = "done"
           \/ \E r \in Pollers : CrashReplica(r) /\ spawn[a].pc # "idle"
<1>0. spawn \in [Agents -> Request]
  BY DEF PollTypes, RequestType
<1>1. ASSUME NEW r \in Pollers, NEW b \in Agents, SpawnAgent(r, b)
      PROVE  /\ a # b => spawn'[a] = spawn[a]
             /\ a = b => spawn'[a].pc = "emit" /\ spawn'[a].at = r
  <2>1. spawn' = [spawn EXCEPT ![b] = [pc |-> "emit", at |-> r]]
    BY <1>1 DEF SpawnAgent
  <2>2. QED
    BY <1>0, <2>1
<1>2. ASSUME NEW b \in Agents, SpawnEmit(b) \/ SpawnDeadline(b) \/ SpawnAttach(b), b # a
      PROVE  spawn'[a] = spawn[a]
  <2>1. \E pc : spawn' = [spawn EXCEPT ![b].pc = pc]
    BY <1>2, Zenon DEF SpawnEmit, SpawnDeadline, SpawnAttach
  <2>2. QED
    BY <1>0, <1>2, <2>1
<1>3. ASSUME SpawnAttach(a)
      PROVE  spawn'[a].pc = "done"
  <2>1. spawn' = [spawn EXCEPT ![a].pc = "done"]
    BY <1>3 DEF SpawnAttach
  <2>2. QED
    BY <1>0, <2>1 DEF Request
<1>4. ASSUME NEW r \in Pollers, CrashReplica(r), spawn[a].pc = "idle"
      PROVE  spawn'[a] = spawn[a]
  BY <1>4 DEF CrashReplica, Abandoned
<1>5. QED
  BY <1>1, <1>2, <1>3, <1>4, Writers DEF OnlyWriters, SpawnWriters

LEMMA RecentPaths ==
    ASSUME PollTypes, PollNext, NEW a \in Agents, rm'[a].pc = "idle",
           NEW r \in Pollers, a \in recent[r]
    PROVE  \/ a \in recent'[r] \/ CrashReplica(r)
           \/ PruneRecentAndAttach(r) /\ poll[r].records[a] # "absent"
<1>0. recent \in [Pollers -> SUBSET Agents]
  BY DEF PollTypes, LocalType
<1>1. ASSUME NEW q \in Pollers, CrashReplica(q), q # r
      PROVE  a \in recent'[r]
  BY <1>0, <1>1 DEF CrashReplica
<1>2. ASSUME NEW q \in Pollers, PruneRecentAndAttach(q)
      PROVE  a \in recent'[r] \/ (q = r /\ poll[r].records[a] # "absent")
  <2>1. recent' = [recent EXCEPT ![q] = recent[q] \ Present(poll[q].records)]
    BY <1>2 DEF PruneRecentAndAttach, StillRecent
  <2>2. QED
    BY <1>0, <2>1 DEF Present
<1>3. ASSUME NEW q \in Pollers, NEW b \in Agents, SpawnAgent(q, b)
      PROVE  a \in recent'[r]
  <2>1. recent' = [recent EXCEPT ![q] = @ \cup {b}]
    BY <1>3 DEF SpawnAgent
  <2>2. QED
    BY <1>0, <2>1
<1>4. ASSUME NEW q \in Pollers, NEW b \in Agents, RmAgent(q, b)
      PROVE  a \in recent'[r]
  <2>1. recent' = [recent EXCEPT ![q] = @ \ {b}] /\ b # a
    BY <1>4, Untouched DEF RmAgent
  <2>2. QED
    BY <1>0, <2>1
<1>5. QED
  BY <1>1, <1>2, <1>3, <1>4, Writers DEF OnlyWriters, RecentWriters

LEMMA ResolvableStep ==
    PollTypes /\ Lives /\ Found /\ SpawnResolvable /\ PollNext => SpawnResolvable'
<1> SUFFICES ASSUME PollTypes, Lives, Found, SpawnResolvable, PollNext, NEW a \in Agents,
                    spawn'[a].pc # "idle", cal'[a] # "absent", SameOwner'
             PROVE  RepoOf(spawn[a].at, a)'
  BY DEF SpawnResolvable
<1>0. /\ cal \in [Agents -> Status] /\ recent \in [Pollers -> SUBSET Agents]
      /\ spawn \in [Agents -> Request]
  BY DEF PollTypes, WorldType, LocalType, RequestType
<1>1. rm'[a].pc = "idle" /\ SameOwner /\ \A r \in Pollers : ~ CrashReplica(r)
  BY LivesStep, MishapsGrow DEF Lives, SameOwner
<1>2. ASSUME NEW r \in Pollers, SpawnAgent(r, a), spawn'[a].at = r
      PROVE  RepoOf(spawn[a].at, a)'
  <2>1. recent' = [recent EXCEPT ![r] = @ \cup {a}]
    BY <1>2 DEF SpawnAgent
  <2>2. a \in recent'[r]
    BY <1>0, <2>1
  <2>3. QED
    BY <1>2, <2>2 DEF RepoOf
<1>3. ASSUME \A r \in Pollers : ~ (SpawnAgent(r, a) /\ spawn'[a].at = r)
      PROVE  RepoOf(spawn[a].at, a)'
  <2> DEFINE r == spawn[a].at
  <2>1. spawn[a].pc # "idle"
    BY <1>1, <1>3, SpawnPaths DEF SpawnEmit, SpawnDeadline, SpawnAttach
  <2>2. r \in Pollers /\ spawn'[a].at = r
    BY <2>1, SpawnStep DEF PollTypes, RequestType
  <2>3. cal[a] # "absent"
    <3>1. ASSUME NEW q \in Pollers, SpawnAgent(q, a)
          PROVE  FALSE
      BY <2>1, <3>1 DEF SpawnAgent
    <3>2. QED
      BY <1>0, <3>1, CalStep DEF CalMoves
  <2>4. RepoOf(r, a) /\ Ahead(r, a)
    BY <1>1, <2>1, <2>2, <2>3, Untouched DEF SpawnResolvable, Found
  <2> HIDE DEF r
  <2>5. snap[r][a] # "absent" => snap'[r][a] # "absent"
    BY <1>1, <2>2, <2>4, Untouched DEF Ahead, WriteSnapshot
  <2>6. a \in recent[r] => a \in recent'[r] \/ snap[r][a] # "absent"
    BY <1>1, <2>2, <2>4, RecentPaths DEF Ahead, PruneRecentAndAttach
  <2>7. QED
    BY <2>2, <2>4, <2>5, <2>6 DEF RepoOf
<1>4. QED
  BY <1>2, <1>3

(***************************************************************************)
(* The transitions fit together.                                            *)
(***************************************************************************)
(* What a step tells of an agent that nobody removes.                        *)
LEMMA ToldPaths ==
    ASSUME PollTypes, PollNext, NEW a \in Agents, rm'[a].pc = "idle"
    PROVE  /\ SpawnEmit(a) =>
                 told'[a] = Told(told[a], "AgentSpawned", "absent", "absent")
           /\ \A r \in Pollers : EmitTimedOut(r, a) =>
                 told'[a] = Told(told[a], "AgentTimedOut", "absent", "absent")
           /\ SpawnDeadline(a) =>
                 told'[a] = Told(told[a], "DeadlineSet", "absent", "absent")
           /\ \/ told'[a] = told[a]
              \/ SpawnEmit(a) \/ SpawnDeadline(a)
              \/ \E r \in Pollers : EmitTimedOut(r, a) \/ EmitDiff(r, a)
<1>0. told \in [Agents -> Stream]
  BY DEF PollTypes, ToldType
<1>1. ASSUME NEW b \in Agents, NEW kind, EmitAbout(b, kind)
      PROVE  told'[a] = IF a = b THEN Told(told[a], kind, "absent", "absent") ELSE told[a]
  BY <1>0, <1>1 DEF EmitAbout
<1>2. ASSUME NEW r \in Pollers, NEW b \in Agents, EmitDiff(r, b), b # a
      PROVE  told'[a] = told[a]
  <2>1. \E u : told' = [told EXCEPT ![b] = u]
    BY <1>0, <1>2, Zenon DEF EmitDiff, EmitChange
  <2>2. QED
    BY <1>0, <1>2, <2>1
<1>3. \A b \in Agents : /\ SpawnEmit(b) => EmitAbout(b, "AgentSpawned")
                        /\ SpawnDeadline(b) => EmitAbout(b, "DeadlineSet")
                        /\ RmEmit(b) => EmitAbout(b, "AgentGone")
                        /\ \A r \in Pollers : EmitTimedOut(r, b) => EmitAbout(b, "AgentTimedOut")
  BY DEF SpawnEmit, SpawnDeadline, RmEmit, EmitTimedOut
<1>4. \A b \in Agents : RmEmit(b) => told'[a] = told[a]
  BY <1>1, <1>3, Untouched
<1>5. \A b \in Agents : b # a /\ (SpawnEmit(b) \/ SpawnDeadline(b)) => told'[a] = told[a]
  BY <1>1, <1>3
<1>6. \A b \in Agents, r \in Pollers : b # a /\ EmitTimedOut(r, b) => told'[a] = told[a]
  BY <1>1, <1>3
<1>7. QED
  BY <1>1, <1>2, <1>3, <1>4, <1>5, <1>6, Writers DEF OnlyWriters, ToldWriters

(* A difference that is emitted starts where the stream was.                 *)
LEMMA DiffFits ==
    ASSUME PollTypes, OneOwner, Found, Chain, SameOwner, NEW r \in Pollers, NEW a \in Agents,
           rm[a].pc = "idle", EmitDiff(r, a)
    PROVE  /\ owner = r /\ told'[a].fits
           /\ told'[a].status \in {"known", poll[r].records[a]} /\ told'[a].status # "absent"
<1> DEFINE from == poll[r].prior[a]
           to == poll[r].records[a]
<1>1. poll[r].pc = "diff" /\ a \in poll[r].todo
  BY DEF EmitDiff
<1>2. owner = r
  BY <1>1 DEF OneOwner
<1>3. to \in Status /\ told[a] \in Stream
  BY DEF PollTypes, PollType, PollState, ToldType
<1>4. from = snap[r][a] /\ (from # "absent" => to # "absent")
  BY <1>1 DEF Found, Ahead
<1>5. told[a].fits /\ told[a].status \in {"known", from}
  BY <1>1, <1>2, <1>4 DEF Chain, Acquires, Believed
<1>6. told'[a] = IF from = "absent" THEN Told(told[a], "AgentDiscovered", from, to)
                 ELSE IF to = "absent" THEN Told(told[a], "AgentGone", from, to)
                 ELSE Told(told[a], "StatusChanged", from, to)
  BY DEF EmitDiff, EmitChange, PollTypes, ToldType
<1> HIDE DEF from
<1>7. /\ told'[a].fits /\ told'[a].status \in {"known", to} /\ told'[a].status # "absent"
  <2> HIDE DEF to
  <2>1. CASE from = "absent"
    BY <1>3, <1>5, <1>6, <2>1, ToldDiscovered
  <2>2. CASE from # "absent"
    <3>1. told'[a] = Told(told[a], "StatusChanged", from, to)
      BY <1>4, <1>6, <2>2
    <3>2. /\ told'[a].fits = (told[a].fits /\ told[a].status \in {"known", from})
          /\ told'[a].status = to
      BY <1>3, <3>1, ToldChanged
    <3>3. QED
      BY <1>4, <1>5, <2>2, <3>2
  <2>3. QED
    BY <2>1, <2>2
<1>8. QED
  BY <1>2, <1>7

(* What the owner believes moves by its reading and its telling alone.        *)
LEMMA BelievedPaths ==
    ASSUME PollTypes, PollNext, NEW r \in Pollers, NEW a \in Agents, rm'[a].pc = "idle",
           ~ CrashReplica(r)
    PROVE  \/ Believed(r, a)' = Believed(r, a)
           \/ ReadPrior(r) /\ Believed(r, a) = snap[r][a] /\ Believed(r, a)' =
                 IF a \in Changed(poll[r].own, poll[r].records, snap[r], attached[r])
                 THEN snap[r][a] ELSE poll[r].records[a]
           \/ EmitDiff(r, a) /\ Believed(r, a)' = poll[r].records[a]
<1>0. snap'[r][a] = snap[r][a] \/ (WriteSnapshot(r) /\ snap'[r][a] = poll[r].records[a])
  BY Untouched
<1>1. CASE WriteSnapshot(r)
  <2>1. poll[r].pc = "diff" /\ poll[r].todo = {} /\ poll'[r].pc \in {"healthy", "recent"}
    BY <1>1, WriteMoves DEF WriteSnapshot, Moved
  <2>2. snap'[r][a] = poll[r].records[a]
    BY <1>1 DEF WriteSnapshot, PollTypes, LocalType
  <2>3. QED
    BY <2>1, <2>2 DEF Believed
<1>2. CASE ReadPrior(r)
  BY <1>0, <1>2, ReadMoves DEF Believed, Moved, ReadPrior, WriteSnapshot
<1>3. ASSUME NEW b \in Agents, EmitDiff(r, b)
      PROVE  \/ Believed(r, a)' = Believed(r, a)
             \/ EmitDiff(r, a) /\ Believed(r, a)' = poll[r].records[a]
  <2>1. snap'[r][a] = snap[r][a]
    BY <1>3 DEF EmitDiff, local
  <2>2. /\ poll[r].pc = "diff" /\ poll'[r].pc = "diff" /\ poll'[r].records = poll[r].records
        /\ poll'[r].todo = poll[r].todo \ {b}
    BY <1>3, DiffMoves DEF Moved, EmitDiff
  <2>3. QED
    BY <1>3, <2>1, <2>2 DEF Believed
<1>4. CASE poll'[r] = poll[r] /\ ~ WriteSnapshot(r)
  BY <1>0, <1>4 DEF Believed
<1>5. ASSUME poll[r].pc # "diff", poll'[r].pc # "diff", ~ WriteSnapshot(r)
      PROVE  Believed(r, a)' = Believed(r, a)
  BY <1>0, <1>5 DEF Believed
<1>6. ASSUME ~ WriteSnapshot(r), ~ ReadPrior(r), \A b \in Agents : ~ EmitDiff(r, b)
      PROVE  poll'[r] = poll[r] \/ poll[r].pc # "diff"
  BY <1>6, PollerSteps DEF PollList, PollListFails, EmitUnreachable, EmitHealthy,
     PruneRecentAndAttach, FindExpired, KillExpired, KillExpiredFails, EmitTimedOut
<1>7. QED
  BY <1>1, <1>2, <1>3, <1>4, <1>5, <1>6, DiffPaths

LEMMA AttachedPaths ==
    ASSUME PollTypes, PollNext, NEW r \in Pollers, NEW a \in attached'[r]
    PROVE  \/ a \in attached[r]
           \/ SpawnAttach(a)
           \/ PruneRecentAndAttach(r) /\ poll[r].records[a] \in Live
<1>0. attached \in [Pollers -> SUBSET Agents]
  BY DEF PollTypes, LocalType
<1>1. ASSUME NEW q \in Pollers, NEW as, Attach(q, as)
      PROVE  a \in attached[r] \/ (q = r /\ a \in as)
  BY <1>0, <1>1 DEF Attach
<1>2. ASSUME NEW q \in Pollers, PruneRecentAndAttach(q)
      PROVE  a \in attached[r] \/ (q = r /\ poll[r].records[a] \in Live)
  BY <1>1, <1>2 DEF PruneRecentAndAttach
<1>3. ASSUME NEW q \in Pollers, CrashReplica(q)
      PROVE  a \in attached[r]
  BY <1>0, <1>3 DEF CrashReplica
<1>4. ASSUME NEW b \in Agents, SpawnAttach(b)
      PROVE  a \in attached[r] \/ a = b
  <2>1. spawn[b].at \in Pollers /\ Attach(spawn[b].at, {b})
    BY <1>4 DEF SpawnAttach, PollTypes, RequestType
  <2>2. QED
    BY <1>1, <2>1
<1>5. ASSUME NEW q \in Pollers, NEW b \in Agents, AttachExits(q, b)
      PROVE  a \in attached[r]
  BY <1>0, <1>5 DEF AttachExits
<1>6. QED
  BY <1>2, <1>3, <1>4, <1>5, Writers DEF OnlyWriters, AttachedWriters

LEMMA EmitBelieved ==
    ASSUME PollTypes, NEW r \in Pollers, NEW a \in Agents, EmitDiff(r, a)
    PROVE  Believed(r, a)' = poll[r].records[a]
  BY DiffMoves DEF Believed, Moved

LEMMA ChainStep ==
    PollTypes /\ OneOwner /\ Found /\ Chain /\ PollNext => Chain'
<1> SUFFICES ASSUME PollTypes, OneOwner, Found, Chain, PollNext, NEW a \in Agents,
                    SameOwner', rm'[a].pc = "idle"
             PROVE  /\ told'[a].fits
                    /\ told'[a].listed \/ spawn'[a].pc \in {"deadline", "attach"} =>
                          told'[a].status # "absent"
                    /\ \A r \in Pollers : Acquires(r)' =>
                          /\ told'[a].status \in {"known", Believed(r, a)'}
                          /\ a \in attached'[r] => told'[a].status # "absent"
  BY DEF Chain
<1>0. SameOwner /\ rm[a].pc = "idle" /\ \A r \in Pollers : ~ CrashReplica(r)
  BY Untouched, MishapsGrow, OneOwnerStays
<1>1. \A r \in Pollers : Acquires(r)' => Acquires(r)
  BY OneOwnerStays DEF Acquires
<1>2. /\ told[a].fits
      /\ told[a].listed \/ spawn[a].pc \in {"deadline", "attach"} => told[a].status # "absent"
      /\ \A r \in Pollers : Acquires(r) =>
            /\ told[a].status \in {"known", Believed(r, a)}
            /\ a \in attached[r] => told[a].status # "absent"
  BY <1>0 DEF Chain
<1>3. ASSUME \A r \in Pollers : ~ EmitDiff(r, a)
      PROVE  /\ told'[a].fits
             /\ told'[a].status = told[a].status
                \/ (SpawnEmit(a) /\ told'[a].status = "known")
             /\ told'[a].listed = told[a].listed
             /\ SpawnEmit(a) => told'[a].status # "absent"
  <2>1. told[a] \in Stream
    BY DEF PollTypes, ToldType
  <2>2. CASE SpawnEmit(a)
    BY <1>2, <2>1, <2>2, ToldPaths, ToldSpawned
  <2>3. CASE ~ SpawnEmit(a)
    BY <1>2, <1>3, <2>1, <2>3, ToldPaths, ToldDeadline, ToldTimedOut
  <2>4. QED
    BY <2>2, <2>3
(* A difference is told by the owner.                                        *)
<1>4. ASSUME NEW r \in Pollers, EmitDiff(r, a)
      PROVE  /\ owner = r /\ owner' = r /\ told'[a].fits
             /\ told'[a].status \in {"known", Believed(r, a)'}
             /\ told'[a].status # "absent"
  <2>1. owner' = owner
    BY <1>4 DEF EmitDiff
  <2>2. Believed(r, a)' = poll[r].records[a]
    BY <1>0, <1>4, EmitBelieved
  <2>3. QED
    BY <1>0, <1>4, <2>1, <2>2, DiffFits
<1>5. told'[a].fits
  BY <1>3, <1>4
<1>6. told[a].status # "absent" => told'[a].status # "absent"
  BY <1>3, <1>4
<1>7. told'[a].listed \/ spawn'[a].pc \in {"deadline", "attach"} => told'[a].status # "absent"
  <2>1. CASE \E r \in Pollers : EmitDiff(r, a)
    BY <1>4, <2>1
  <2>2. CASE \A r \in Pollers : ~ EmitDiff(r, a)
    <3>1. told'[a].listed => told'[a].status # "absent"
      BY <1>2, <1>3, <1>6, <2>2
    <3>2. spawn'[a].pc \in {"deadline", "attach"} => told'[a].status # "absent"
      BY <1>0, <1>2, <1>3, <1>6, <2>2, SpawnPaths DEF SpawnDeadline
    <3>3. QED
      BY <3>1, <3>2
  <2>3. QED
    BY <2>1, <2>2
<1>8. ASSUME NEW r \in Pollers, Acquires(r)'
      PROVE  told'[a].status \in {"known", Believed(r, a)'}
  <2>1. told[a].status \in {"known", Believed(r, a)}
    BY <1>1, <1>2, <1>8
  <2>2. CASE EmitDiff(r, a)
    BY <1>4, <2>2
  <2>3. ASSUME NEW q \in Pollers, q # r, EmitDiff(q, a)
        PROVE  FALSE
    BY <1>4, <1>8, <2>3, LeaseNobodyAssumption DEF Acquires
  <2>4. ASSUME \A q \in Pollers : ~ EmitDiff(q, a)
        PROVE  told'[a].status \in {"known", Believed(r, a)'}
    <3>1. CASE Believed(r, a)' = Believed(r, a)
      BY <1>3, <2>1, <2>4, <3>1
    <3>2. CASE /\ ReadPrior(r) /\ Believed(r, a) = snap[r][a]
               /\ Believed(r, a)' =
                     IF a \in Changed(poll[r].own, poll[r].records, snap[r], attached[r])
                     THEN snap[r][a] ELSE poll[r].records[a]
      <4>1. poll[r].own
        BY <1>0, <1>1, <1>8, <3>2, LeaseNobodyAssumption
        DEF ReadPrior, OneOwner, Listing, Acquires
      <4>2. \/ Believed(r, a)' = Believed(r, a)
            \/ Believed(r, a) = "absent" /\ a \in attached[r]
        BY <3>2, <4>1 DEF Changed
      <4>3. told[a].status = "known" \/ Believed(r, a)' = Believed(r, a)
        BY <1>1, <1>2, <1>8, <2>1, <4>2
      <4>4. QED
        BY <1>3, <2>1, <2>4, <4>3
    <3>3. QED
      BY <1>0, <2>4, <3>1, <3>2, BelievedPaths
  <2>5. QED
    BY <2>2, <2>3, <2>4
<1>9. ASSUME NEW r \in Pollers, Acquires(r)', a \in attached'[r]
      PROVE  told'[a].status # "absent"
  <2>1. CASE a \in attached[r] \/ SpawnAttach(a)
    BY <1>1, <1>2, <1>6, <1>9, <2>1 DEF SpawnAttach
  <2>2. CASE PruneRecentAndAttach(r) /\ poll[r].records[a] \in Live
    <3>1. poll[r].pc = "recent"
      BY <2>2 DEF PruneRecentAndAttach
    <3>2. Believed(r, a) = poll[r].records[a]
      BY <1>0, <3>1 DEF Believed, Found, Ahead
    <3>3. QED
      BY <1>1, <1>2, <1>6, <1>9, <2>2, <3>2, StatusFacts
  <2>3. QED
    BY <1>9, <2>1, <2>2, AttachedPaths
<1>10. QED
  BY <1>5, <1>7, <1>8, <1>9

(***************************************************************************)
(* One timeout.                                                             *)
(***************************************************************************)
LEMMA TimeoutPaths ==
    ASSUME PollTypes, PollNext, NEW a \in Agents
    PROVE  \/ told'[a].timeouts = told[a].timeouts
           \/ \E r \in Pollers :
                 /\ EmitTimedOut(r, a) /\ told'[a].timeouts # 0
                 /\ told[a].timeouts = 0 => told'[a].timeouts = 1
<1>0. told \in [Agents -> Stream] /\ told[a] \in Stream
  BY DEF PollTypes, ToldType
<1>1. ASSUME NEW b \in Agents, NEW u, told' = [told EXCEPT ![b] = u]
      PROVE  told'[a] = IF a = b THEN u ELSE told[a]
  BY <1>0, <1>1
<1>2. ASSUME NEW b \in Agents, SpawnEmit(b)
      PROVE  told'[a].timeouts = told[a].timeouts
  <2>1. told' = [told EXCEPT ![b] = Told(told[b], "AgentSpawned", "absent", "absent")]
    BY <1>0, <1>2 DEF SpawnEmit, EmitAbout
  <2>2. QED
    BY <1>0, <1>1, <2>1, ToldSpawned
<1>3. ASSUME NEW b \in Agents, SpawnDeadline(b)
      PROVE  told'[a].timeouts = told[a].timeouts
  <2>1. told' = [told EXCEPT ![b] = Told(told[b], "DeadlineSet", "absent", "absent")]
    BY <1>0, <1>3 DEF SpawnDeadline, EmitAbout
  <2>2. QED
    BY <1>0, <1>1, <2>1, ToldDeadline
<1>4. ASSUME NEW b \in Agents, RmEmit(b)
      PROVE  told'[a].timeouts = told[a].timeouts
  <2>1. told' = [told EXCEPT ![b] = Told(told[b], "AgentGone", "absent", "absent")]
    BY <1>0, <1>4 DEF RmEmit, EmitAbout
  <2>2. QED
    BY <1>0, <1>1, <2>1, ToldGone
<1>5. ASSUME NEW r \in Pollers, NEW b \in Agents, EmitDiff(r, b)
      PROVE  told'[a].timeouts = told[a].timeouts
  <2> DEFINE from == poll[r].prior[b]
             to == poll[r].records[b]
             u == IF from = "absent" THEN Told(told[b], "AgentDiscovered", from, to)
                  ELSE IF to = "absent" THEN Told(told[b], "AgentGone", from, to)
                  ELSE Told(told[b], "StatusChanged", from, to)
  <2>1. to \in Status /\ told[b] \in Stream
    BY <1>0 DEF PollTypes, PollType, PollState
  <2>2. told' = [told EXCEPT ![b] = u]
    BY <1>0, <1>5 DEF EmitDiff, EmitChange
  <2>3. u.timeouts = told[b].timeouts
    <3> HIDE DEF from, to
    <3>1. QED
      BY <2>1, ToldDiscovered, ToldGone, ToldChanged
  <2> HIDE DEF u
  <2>4. QED
    BY <1>1, <2>2, <2>3
<1>6. ASSUME NEW r \in Pollers, NEW b \in Agents, EmitTimedOut(r, b)
      PROVE  IF a = b
             THEN told'[a].timeouts # 0 /\ (told[a].timeouts = 0 => told'[a].timeouts = 1)
             ELSE told'[a].timeouts = told[a].timeouts
  <2>1. told' = [told EXCEPT ![b] = Told(told[b], "AgentTimedOut", "absent", "absent")]
    BY <1>0, <1>6 DEF EmitTimedOut, EmitAbout
  <2>2. QED
    BY <1>0, <1>1, <2>1, ToldTimedOut
<1>7. QED
  BY <1>2, <1>3, <1>4, <1>5, <1>6, Writers DEF OnlyWriters, ToldWriters

(* The owner does not take a spent agent for a live one again.               *)
LEMMA SpentStays ==
    ASSUME PollTypes, Lives, PollNext, mishaps' = {}, NEW r \in Pollers, NEW a \in Agents,
           Spent(r, a), a \in expired, \A q \in Pollers : ~ EmitTimedOut(q, a)
    PROVE  Spent(r, a)'
<1>0. /\ \A q \in Pollers : ~ KillExpiredFails(q) /\ ~ CrashReplica(q)
      /\ "absent" \notin Live /\ "killed" \notin Live
  BY MishapsGrow, StatusFacts DEF SameOwner
<1>1. cal'[a] \in Live => cal[a] \in Live
  <2>1. spawn[a].pc # "idle" /\ cal \in [Agents -> Status]
    BY DEF PollTypes, RequestType, WorldType
  <2>2. \A q \in Pollers : ~ SpawnAgent(q, a)
    BY <2>1 DEF SpawnAgent
  <2>3. QED
    BY <1>0, <2>1, <2>2, CalStep DEF CalMoves
<1>2. poll'[r].pc \in {"healthy", "recent", "deadlines"} => snap'[r][a] \notin Live
  <2>1. CASE WriteSnapshot(r)
    <3>1. snap'[r] = poll[r].records
      BY <2>1 DEF WriteSnapshot, PollTypes, LocalType
    <3>2. poll[r].records[a] \notin Live
      BY <2>1 DEF WriteSnapshot, Spent, Listing
    <3>3. QED
      BY <3>1, <3>2
  <2>2. CASE ~ WriteSnapshot(r)
    <3>1. ASSUME NEW q \in Pollers, WriteSnapshot(q)
          PROVE  snap'[r] = snap[r]
      BY <2>2, <3>1 DEF WriteSnapshot, PollTypes, LocalType
    <3>2. ASSUME NEW b \in Agents, RmPrune(b)
          PROVE  snap'[r][a] \in {snap[r][a], "absent"}
      <4>1. snap' = [snap EXCEPT ![rm[b].at][b] = "absent"]
        BY <3>2 DEF RmPrune
      <4>2. QED
        BY <4>1 DEF PollTypes, LocalType
    <3>3. snap'[r][a] \in {snap[r][a], "absent"}
      BY <1>0, <3>1, <3>2, Writers DEF OnlyWriters, SnapWriters
    <3>4. ASSUME poll'[r].pc \in {"healthy", "recent", "deadlines"}
          PROVE  poll[r].pc \in {"healthy", "recent", "deadlines"}
      BY <1>0, <2>2, <3>4, PollerSteps, ListMoves, ListFailMoves, UnreachableMoves, ReadMoves,
         EnforceMoves, DiffMoves, TimedOutMoves DEF Moved, EmitHealthy, PruneRecentAndAttach
    <3>5. poll[r].pc \in {"healthy", "recent", "deadlines"} => snap[r][a] \notin Live
      BY DEF Spent
    <3>6. QED
      BY <1>0, <3>3, <3>4, <3>5
  <2>3. QED
    BY <2>1, <2>2
<1>3. poll'[r].pc \in Listing => poll'[r].records[a] \notin Live
  <2>1. CASE PollList(r)
    BY <2>1, ListMoves DEF PollList, Spent
  <2>2. CASE ~ PollList(r)
    BY <2>2, OwnMoves DEF Spent
  <2>3. QED
    BY <2>1, <2>2
<1>4. cal'[a] \in Live => poll'[r].pc = "kill" /\ poll'[r].victim = a
  <2>1. SUFFICES ASSUME cal'[a] \in Live
                 PROVE  poll'[r] = poll[r]
    BY <1>1 DEF Spent
  <2>2. poll[r].pc = "kill" /\ poll[r].victim = a
    BY <1>1, <2>1 DEF Spent
  <2>3. ASSUME KillExpired(r)
        PROVE  FALSE
    <3>1. cal' = [cal EXCEPT ![a] = IF cal[a] \in Live THEN "killed" ELSE cal[a]]
      BY <2>2, <2>3 DEF KillExpired, Killed, PollTypes, WorldType
    <3>2. QED
      BY <1>0, <2>1, <3>1 DEF PollTypes, WorldType
  <2>4. QED
    BY <1>0, <2>2, <2>3, PollerSteps DEF PollList, PollListFails, EmitUnreachable, ReadPrior,
       WriteSnapshot, EmitHealthy, PruneRecentAndAttach, FindExpired, EmitDiff, EmitTimedOut
<1>5. poll'[r].pc \in {"due", "kill"} => a \notin poll'[r].todo
  <2>1. SUFFICES ASSUME poll'[r].pc \in {"due", "kill"}
                 PROVE  a \notin poll'[r].todo
    OBVIOUS
  <2>2. CASE poll'[r] = poll[r]
    BY <2>1, <2>2 DEF Spent
  <2>3. CASE FindExpired(r)
    BY <2>3, EnforceMoves DEF Spent
  <2>4. CASE KillExpired(r)
    BY <2>4, EnforceMoves DEF Spent
  <2>5. ASSUME NEW b \in Agents, EmitTimedOut(r, b)
        PROVE  a \notin poll'[r].todo
    BY <2>5, TimedOutMoves DEF Spent, EmitTimedOut
  <2>6. QED
    BY <1>0, <2>1, <2>2, <2>3, <2>4, <2>5, PollerSteps, ListMoves, ListFailMoves,
       UnreachableMoves, ReadMoves, WriteMoves, HealthyMoves, PruneMoves, DiffMoves
    DEF Moved
<1>6. QED
  BY <1>2, <1>3, <1>4, <1>5 DEF Spent

LEMMA OnceStep == PollTypes /\ OneOwner /\ Lives /\ Once /\ PollNext => Once'
<1> SUFFICES ASSUME PollTypes, OneOwner, Lives, Once, PollNext, NEW a \in Agents,
                    mishaps' = {}, told'[a].timeouts # 0
             PROVE  /\ told'[a].timeouts = 1 /\ a \in expired' /\ owner' # Nobody
                    /\ Spent(owner, a)'
  BY DEF Once
<1>0. mishaps = {} /\ SameOwner /\ SameOwner' /\ expired \subseteq expired'
  BY MishapsGrow, WorldStep DEF SameOwner
<1>1. ASSUME NEW r \in Pollers, EmitTimedOut(r, a)
      PROVE  /\ told'[a].timeouts = 1 /\ a \in expired' /\ owner' # Nobody
             /\ Spent(owner, a)'
  <2>1. poll[r].pc = "due" /\ a \in poll[r].todo /\ owner' = owner
    BY <1>1 DEF EmitTimedOut
  <2>2. owner = r /\ r # Nobody /\ a \in expired
    BY <1>0, <2>1, LeaseNobodyAssumption DEF OneOwner, PollTypes, PollType
  <2>3. told[a].timeouts = 0
    BY <1>0, <2>1, <2>2 DEF Once, Spent
  <2>4. told'[a].timeouts = 1
    BY <2>3, TimeoutPaths
  <2>5. Spent(r, a)'
    BY <1>1, TimedOutMoves DEF Spent, Moved, Listing
  <2>6. QED
    BY <1>0, <2>1, <2>2, <2>4, <2>5
<1>2. ASSUME \A r \in Pollers : ~ EmitTimedOut(r, a)
      PROVE  /\ told'[a].timeouts = 1 /\ a \in expired' /\ owner' # Nobody
             /\ Spent(owner, a)'
  <2>1. told'[a].timeouts = told[a].timeouts
    BY <1>2, TimeoutPaths
  <2>2. told[a].timeouts = 1 /\ a \in expired /\ owner # Nobody /\ Spent(owner, a)
    BY <1>0, <2>1 DEF Once
  <2>3. owner' = owner /\ owner \in Pollers
    BY <1>0, <2>2, OneOwnerStays DEF OneOwner
  <2>4. Spent(owner, a)'
    <3>1. ASSUME NEW r \in Pollers, r = owner
          PROVE  Spent(r, a)'
      BY <1>2, <2>2, <3>1, SpentStays
    <3>2. QED
      BY <2>3, <3>1
  <2>5. QED
    BY <1>0, <2>1, <2>2, <2>3, <2>4
<1>3. QED
  BY <1>1, <1>2

(***************************************************************************)
(* The invariant and the theorem.                                           *)
(***************************************************************************)
LEMMA InitPollInv == PollInit => PollInv
<1> SUFFICES ASSUME PollInit
             PROVE  PollInv
  OBVIOUS
<1>1. /\ \A r \in Pollers : poll[r] = Idle /\ attached[r] = {}
      /\ \A r \in Pollers, a \in Agents : snap[r][a] = "absent"
      /\ \A a \in Agents : /\ spawn[a].pc = "idle" /\ rm[a].pc = "idle"
                           /\ told[a].fits /\ told[a].status = "absent" /\ ~ told[a].listed
                           /\ told[a].timeouts = 0 /\ ~ told[a].deadline
  BY DEF PollInit, None, NoRequest, Untold
<1>2. PollTypes
  <2>1. WorldType
    BY BudgetsAssumption, StatusFacts DEF PollInit, WorldType, Budget
  <2>2. Untold \in Stream
    BY DEF Untold, Stream, Status
  <2>3. ToldType
    BY <1>1, <2>2 DEF PollInit, ToldType
  <2>4. LocalType
    BY StatusFacts DEF PollInit, LocalType, None
  <2>5. PollType
    BY <1>1, IdleType DEF PollInit, PollType
  <2>6. NoRequest \in Request
    BY DEF NoRequest, Request
  <2>7. RequestType
    BY <1>1, <2>6 DEF PollInit, RequestType
  <2>8. QED
    BY <2>1, <2>3, <2>4, <2>5, <2>7 DEF PollTypes
<1>3. OneOwner
  BY <1>1, IdleType, LeaseNobodyAssumption DEF PollInit, OneOwner, Listing
<1>4. Lives
  BY <1>1 DEF PollInit, Lives, Born
<1>5. Found /\ SpawnResolvable
  BY <1>1, IdleType DEF Found, Ahead, Listing, SpawnResolvable
<1>6. Chain /\ Once
  BY <1>1, IdleType DEF Chain, Believed, Once
<1>7. QED
  BY <1>2, <1>3, <1>4, <1>5, <1>6 DEF PollInv

LEMMA PollInvStep == PollInv /\ [PollNext]_pollVars => PollInv'
<1> SUFFICES ASSUME PollInv, [PollNext]_pollVars
             PROVE  PollInv'
  OBVIOUS
<1>1. CASE UNCHANGED pollVars
  <2>1. UNCHANGED <<cal, up, expired, told, healthLog, owner, snap, health, recent, attached,
                    deadlines, poll, spawn, rm, down, budget, mishaps>>
    BY <1>1 DEF pollVars
  <2>2. PollTypes'
    BY <2>1 DEF PollInv, PollTypes, WorldType, ToldType, LocalType, PollType, RequestType, Timed
  <2>3. OneOwner' /\ Lives'
    BY <2>1 DEF PollInv, OneOwner, SameOwner, Lives, Born
  <2>4. Found' /\ SpawnResolvable'
    BY <2>1 DEF PollInv, Found, Ahead, SpawnResolvable, SameOwner, RepoOf
  <2>5. Chain'
    BY <2>1 DEF PollInv, Chain, SameOwner, Acquires, Believed
  <2>6. Once'
    BY <2>1 DEF PollInv, Once, Spent
  <2>7. QED
    BY <2>2, <2>3, <2>4, <2>5, <2>6 DEF PollInv
<1>2. CASE PollNext
  BY <1>2, PollTypesStep, OneOwnerStep, LivesStep, FoundStep, ResolvableStep, ChainStep,
     OnceStep DEF PollInv
<1>3. QED
  BY <1>1, <1>2

(* One replica at a time speaks for a repo: while no lease is lost, the        *)
(* transitions in an agent's stream fit together and its timeout is recorded   *)
(* once; and a spawned agent is found; with the types.                        *)
THEOREM PollSoundHolds == PollSpec => []PollSound
<1>1. PollInv => PollSound
  <2> SUFFICES ASSUME PollInv
               PROVE  PollSound
    OBVIOUS
  <2>1. PollTypeOK
    <3>1. WorldType /\ ToldType /\ LocalType /\ PollType /\ OneOwner
      BY DEF PollInv, PollTypes
    <3>2. cal \in [Agents -> Status] /\ up \in BOOLEAN /\ expired \subseteq Timed
      BY <3>1 DEF WorldType
    <3>3. told \in [Agents -> Stream] /\ healthLog \in {"healthy", "unreachable"}
      BY <3>1 DEF ToldType
    <3>4. owner \in Pollers \cup {Nobody}
      BY <3>1 DEF OneOwner
    <3>5. \A r \in Pollers :
             /\ snap[r] \in [Agents -> Status]
             /\ health[r] \in {"healthy", "unreachable"}
             /\ recent[r] \cup attached[r] \subseteq Agents
             /\ deadlines[r] \subseteq Timed
      BY <3>1 DEF LocalType
    <3>6. \A r \in Pollers :
             /\ poll[r].todo \subseteq Agents
             /\ (poll[r].pc = "kill") = (poll[r].victim # Nobody)
             /\ poll[r].pc \in {"deadlines", "due", "kill"} => poll[r].own
      BY <3>1 DEF PollType, PollState
    <3>7. QED
      BY <3>2, <3>3, <3>4, <3>5, <3>6 DEF PollTypeOK, Stream
  <2>2. StatusChain
    BY DEF PollInv, Chain, StatusChain
  <2>3. TimedOutOnce
    BY DEF PollInv, PollTypes, ToldType, Stream, Once, TimedOutOnce
  <2>4. QED
    BY <2>1, <2>2, <2>3 DEF PollInv, PollSound
<1>2. QED
  BY <1>1, InitPollInv, PollInvStep, PTL DEF PollSpec

============================================================================
