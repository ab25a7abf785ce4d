----------------------------- MODULE MCK8sFleet -----------------------------
(***************************************************************************)
(* One task name, up to two replicas, two incarnations; each behaviour has  *)
(* some of: a request, a failed dial, a crash, a stalled lease.             *)
(***************************************************************************)
EXTENDS K8sFleet

CONSTANTS r1, r2

Calm == [run |-> {r1}, requests |-> {}, ends |-> {"done", "failed"}, tasks |-> 1,
         turns |-> 1, dialFaults |-> 1, readFaults |-> 0, expiries |-> 0, crashes |-> 0]
Busy == [Calm EXCEPT !.ends = {"done"}, !.turns = 0, !.dialFaults = 0]
Both == [Busy EXCEPT !.run = {r1, r2}]
Scenarios ==
    {Calm,
     [Calm EXCEPT !.crashes = 1, !.readFaults = 1, !.turns = 0],
     [Busy EXCEPT !.requests = {"restart"}],
     [Busy EXCEPT !.requests = {"restart"}, !.ends = {}, !.tasks = 2],
     [Busy EXCEPT !.requests = {"remove", "ensure"}, !.ends = {}, !.tasks = 2],
     [Busy EXCEPT !.requests = {"stop"}],
     [Both EXCEPT !.crashes = 1],
     [Both EXCEPT !.tasks = 2, !.dialFaults = 1, !.ends = {}],
     [Both EXCEPT !.expiries = 1, !.ends = {}]}

=============================================================================
