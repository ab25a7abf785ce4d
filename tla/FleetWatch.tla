----------------------------- MODULE FleetWatch -----------------------------
(***************************************************************************)
(* FleetProvider::watch_fleet, "an initial listing followed by live change  *)
(* events", as one subscriber sees it, over the two backends: K8sFleet's    *)
(* watch_fleet and FleetManager's watch_changes (crates/core/src).          *)
(*                                                                          *)
(* A pass of the backend's loop finds what is there, works out the changes  *)
(* and sends them on a broadcast channel. K8sFleet puts what it found in    *)
(* `known` first; FleetManager's reconcile writes its snapshot last, and on *)
(* a replica that is not the repo's owner the snapshot is written by a poll *)
(* of its own, so that the events may be anywhere ahead of it. The state of *)
(* an agent is Absent or a status, and `view` is what the changes add up to.*)
(***************************************************************************)
EXTENDS Integers, Sequences, FiniteSets

CONSTANTS
    Names,      \* agents: CalibanTask names, caliband ids
    Capacity,   \* of the broadcast channel
    Watches     \* what a behaviour starts from: records [backend, moves, subscribes]

ASSUME CapacityAssumption == Capacity \in Nat \ {0}
ASSUME WatchesAssumption ==
    Watches \subseteq [backend : {"k8s", "local"}, moves : Nat, subscribes : BOOLEAN]

VARIABLES
    backend,
    fleet,      \* fleet[n]: the agents there are
    found,      \* what the last pass of the loop found
    known,      \* K8sFleet's `known`, FleetManager's snapshot
    unsent,     \* the changes of the pass not sent yet
    watcher,    \* the subscription: "none", "subscribed", "live"
    feed,       \* the changes sent and not received
    overrun,    \* the channel has dropped changes since the last receive
    seen,       \* the names the seed told of (K8sFleet)
    view,       \* view[n]: what the subscriber was told
    origin,     \* who started an agent of FleetManager's: "none", "prospero", "other"
    left,       \* history variable: agents gone since the subscription
    unheard,    \* history variable: agents a change of which was sent too early for
                \* this subscriber, or dropped by the channel or event_to_change
    repeated,   \* history variable: a Discovered of an agent already in view
    moves       \* bound: what may still happen to the fleet

watchVars == <<backend, fleet, found, known, unsent, watcher, feed, overrun, seen, view,
               origin, left, unheard, repeated, moves>>

Absent == "absent"
State == {Absent, "idle", "running"}
Nowhere == [n \in Names |-> Absent]
There(f) == {n \in Names : f[n] # Absent}
K8s == backend = "k8s"

WatchInit ==
    \E w \in Watches :
        /\ backend = w.backend /\ moves = w.moves
        /\ watcher = IF w.subscribes THEN "none" ELSE "closed"
        /\ fleet = Nowhere /\ found = Nowhere /\ known = Nowhere
        /\ unsent = {} /\ feed = <<>> /\ overrun = FALSE /\ seen = {} /\ view = Nowhere
        /\ origin = [n \in Names |-> "none"] /\ left = {} /\ unheard = {} /\ repeated = FALSE

(***************************************************************************)
(* The fleet: an agent is applied or spawned, changes, is deleted or reaped.*)
(***************************************************************************)
FleetMoves ==
    /\ moves > 0 /\ moves' = moves - 1
    /\ \E n \in Names, s \in State :
          /\ s # fleet[n]
          /\ fleet' = [fleet EXCEPT ![n] = s]
          /\ IF fleet[n] = Absent /\ ~ K8s     \* caliband gives an id once
             THEN /\ origin[n] = "none"
                  /\ \E who \in {"prospero", "other"} : origin' = [origin EXCEPT ![n] = who]
             ELSE UNCHANGED origin
    /\ UNCHANGED <<backend, found, known, unsent, watcher, feed, overrun, seen, view, left,
                   unheard, repeated>>

(***************************************************************************)
(* The loop.                                                                *)
(***************************************************************************)
Change(n, from, to) ==
    [name |-> n, to |-> to,
     kind |-> IF from = Absent THEN "Discovered"
              ELSE IF to = Absent THEN "Gone" ELSE "StatusChanged"]

(* reconcile suppresses the discovery of an agent prospero has attached to. *)
Changes(from, to) ==
    {Change(n, from[n], to[n]) :
        n \in {m \in Names : from[m] # to[m] /\ (from[m] = Absent => origin[m] # "prospero")}}

(* A pass: list, diff. K8sFleet's `known` is the new list from here on. *)
Observe ==
    /\ unsent = {} /\ known = found
    /\ found' = fleet
    /\ unsent' = Changes(known, fleet)
    /\ known' = IF K8s THEN fleet ELSE known
    /\ left' = IF watcher = "none" THEN {} ELSE left \cup (There(known) \ There(fleet))
    /\ UNCHANGED <<backend, fleet, watcher, feed, overrun, seen, view, origin, unheard,
                   repeated, moves>>

(* reconcile's last act, or the poll of a replica that only listens. *)
WriteSnapshotLate ==
    /\ ~ K8s /\ known # found /\ unsent = {}
    /\ known' = found
    /\ UNCHANGED <<backend, fleet, found, unsent, watcher, feed, overrun, seen, view, origin,
                   left, unheard, repeated, moves>>

(* A full channel drops its oldest change. *)
Send ==
    /\ \E c \in unsent :
          /\ unsent' = unsent \ {c}
          /\ IF watcher \notin {"subscribed", "live"}
             THEN UNCHANGED <<feed, overrun, unheard>>
             ELSE IF Len(feed) < Capacity
             THEN feed' = Append(feed, c) /\ UNCHANGED <<overrun, unheard>>
             ELSE /\ feed' = Append(Tail(feed), c) /\ overrun' = TRUE
                  /\ unheard' = unheard \cup {Head(feed).name}
    /\ UNCHANGED <<backend, fleet, found, known, watcher, seen, view, origin, left, repeated,
                   moves>>

(***************************************************************************)
(* The subscription.                                                        *)
(***************************************************************************)
(* The receiver is registered at once; the rest runs when it is polled. *)
Subscribe ==
    /\ watcher = "none"
    /\ watcher' = "subscribed"
    /\ left' = {c.name : c \in {d \in unsent : d.kind = "Gone"}}
    /\ unheard' = {n \in Names : found[n] # known[n] /\ \A c \in unsent : c.name # n}
    /\ UNCHANGED <<backend, fleet, found, known, unsent, feed, overrun, seen, view, origin,
                   repeated, moves>>

(* The listing: a Discovered for every agent of `known`, or of the snapshot. *)
Seed ==
    /\ watcher = "subscribed"
    /\ watcher' = "live"
    /\ view' = known
    /\ seen' = IF K8s THEN There(known) ELSE {}
    /\ UNCHANGED <<backend, fleet, found, known, unsent, feed, overrun, origin, left, unheard,
                   repeated, moves>>

Tells(c, state) ==
    /\ view' = [view EXCEPT ![c.name] = state]
    /\ repeated' = (repeated \/ (c.kind = "Discovered" /\ view[c.name] # Absent))

Receives(c) == watcher = "live" /\ ~ overrun /\ feed # <<>> /\ c = Head(feed)
                /\ feed' = Tail(feed)

(* Mutant: the names of the seed are not kept. *)
PassesAll(c) ==
    /\ Receives(c) /\ K8s
    /\ Tells(c, c.to) /\ UNCHANGED <<seen, unheard>>
    /\ UNCHANGED <<backend, fleet, found, known, unsent, watcher, overrun, origin, left, moves>>

(* K8sFleet: a Discovered of a name the seed told of is dropped, once. *)
PassOn(c) ==
    /\ Receives(c) /\ K8s
    /\ IF c.kind = "Discovered" /\ c.name \in seen
       THEN seen' = seen \ {c.name} /\ UNCHANGED <<view, repeated>>
       ELSE Tells(c, c.to) /\ UNCHANGED seen
    /\ UNCHANGED <<backend, fleet, found, known, unsent, watcher, overrun, origin, left,
                   unheard, moves>>

(* event_to_change: the agent a discovery names is looked up in the snapshot, *)
(* for 250 ms, after which the change is dropped.                            *)
Translate(c) ==
    /\ Receives(c) /\ ~ K8s
    /\ IF c.kind # "Discovered" THEN Tells(c, c.to) /\ UNCHANGED unheard
       ELSE IF known[c.name] # Absent THEN Tells(c, known[c.name]) /\ UNCHANGED unheard
       ELSE unheard' = unheard \cup {c.name} /\ UNCHANGED <<view, repeated>>
    /\ UNCHANGED <<backend, fleet, found, known, unsent, watcher, overrun, seen, origin, left,
                   moves>>

(* Lagged: K8sFleet lists again, FleetManager goes on with what is left. *)
Relist ==
    /\ watcher = "live" /\ overrun
    /\ overrun' = FALSE
    /\ IF K8s
       THEN /\ view' = [n \in Names |-> IF known[n] = Absent THEN view[n] ELSE known[n]]
            /\ seen' = There(known)
       ELSE UNCHANGED <<view, seen>>
    /\ UNCHANGED <<backend, fleet, found, known, unsent, watcher, feed, origin, left, unheard,
                   repeated, moves>>

Watch == Seed \/ Relist \/ \E c \in {feed[i] : i \in DOMAIN feed} : PassOn(c) \/ Translate(c)
Loop == Observe \/ WriteSnapshotLate \/ Send

WatchNext == FleetMoves \/ Loop \/ Subscribe \/ Watch

WatchSpec == WatchInit /\ [][WatchNext]_watchVars

(***************************************************************************)
(* Properties.                                                              *)
(***************************************************************************)
WatchTypeOK ==
    /\ \A f \in {fleet, found, known, view} : f \in [Names -> State]
    /\ unsent \subseteq [name : Names, to : State, kind : {"Discovered", "Gone", "StatusChanged"}]
    /\ Len(feed) <= Capacity /\ overrun \in BOOLEAN
    /\ seen \subseteq Names /\ left \subseteq Names /\ unheard \subseteq Names

(* All that has been found has been sent and received. *)
CaughtUp ==
    watcher = "live" /\ known = found /\ unsent = {} /\ feed = <<>> /\ ~ overrun

(* What a subscriber of K8sFleet has been told is true of every agent that   *)
(* has not gone since it subscribed, also when it fell behind: no change     *)
(* falls between the listing and the tail (watch_fleet).                     *)
StayersAreKnown ==
    K8s /\ CaughtUp => \A n \in Names \ left : view[n] = known[n]

(* And of FleetManager's, of every agent whose changes were all passed on,   *)
(* except one prospero started, which is told of by its changes alone. An    *)
(* agent whose discovery was sent just before the subscription is in neither *)
(* the feed nor, until the pass ends, the snapshot (watch_changes).          *)
HeardIsTrue ==
    ~ K8s /\ CaughtUp => 
        \A n \in Names \ unheard : origin[n] # "prospero" => view[n] = known[n]

(* A subscriber of K8sFleet that keeps up is not told twice of one agent:    *)
(* "deduping the seed/tail overlap by id".                                   *)
ToldOnce == K8s /\ unheard = {} => ~ repeated

WatchSound == WatchTypeOK /\ StayersAreKnown /\ HeardIsTrue /\ ToldOnce

=============================================================================
