------------------------------ MODULE MCLeases ------------------------------
(***************************************************************************)
(* Two replicas. r1 has a poll loop and the spawn request that created the  *)
(* agent, r2 a poll loop.                                                   *)
(***************************************************************************)
EXTENDS Leases

CONSTANTS r1, r2, poll1, spawn1, poll2

AtTwo == [c \in Callers |-> IF c = poll2 THEN r2 ELSE r1]

(* One replica under every fault, its poll loop racing the spawn request. *)
Alone ==
    /\ pc = [c \in Callers |-> IF c = poll2 THEN "done" ELSE "idle"]
    /\ stalls = 0 /\ crashes = 0 /\ exits = 0 /\ dbFaults = 0

(* Two polling replicas, a stall that costs a lease, and a crash. *)
Takeover ==
    /\ pc = [c \in Callers |-> IF c = spawn1 THEN "done" ELSE "idle"]
    /\ stalls = 0 /\ crashes = 0
    /\ exits = MaxExits /\ dbFaults = MaxDbFaults

(* No fault and punctual heartbeats: tasks only give up. *)
Calm ==
    /\ pc = [c \in Callers |-> IF c = spawn1 THEN "done" ELSE "idle"]
    /\ exits = 0
    /\ crashes = MaxCrashes /\ stalls = MaxStalls /\ dbFaults = MaxDbFaults

MCInit == (Alone \/ Takeover) /\ Init
MCSpec == MCInit /\ [][Next]_leaseVars /\ Fairness

CalmSpec == Calm /\ Spec

============================================================================
