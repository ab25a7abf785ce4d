------------------------------- MODULE Daemon -------------------------------
(***************************************************************************)
(* One run of prosperod (crates/daemon/src/main.rs): what it checks before  *)
(* it touches anything, what it starts for each backend and topology, and   *)
(* how it drains after a signal: HTTP first, then the automation engine,    *)
(* then the poll loop, and the lease heartbeat last.  One tick of the clock *)
(* is half a second.                                                        *)
(***************************************************************************)
EXTENDS Naturals

CONSTANT Invocations   \* the command lines, with what they meet: requests, streams and
                       \* whether caliband may fall silent

ASSUME DaemonAssumption ==
    \A a \in Invocations : a.ttl \in Nat \ {0} /\ a.heartbeat \in Nat /\ a.silent \in BOOLEAN

VARIABLES
    args,     \* the command line
    phase,    \* where main is
    made,     \* what it has created or started on the way
    requests, \* requests being handled
    streams,  \* clients on an event stream, a stream being endless
    stop,     \* the two shutdown channels: the engine's and the manager's
    engine,   \* the automation loop: "off", "spawned", "tick", "sleep", "stopped"
    poll,     \* the poll loop, likewise; "cycle" is a poll in progress
    lease,    \* ticks before the lease of this replica lapses, 0 is none
    due,      \* ticks to the next heartbeat
    hung      \* whose call to caliband is never answered: "request", "engine",
              \* "poll"; "over" when the process that did not answer is gone

daemonVars == <<args, phase, made, requests, streams, stop, engine, poll, lease, due, hung>>

Clusters == args.database
Phases == {"start", "store", "backend", "bind", "serve", "drain", "engine", "poll",
           "gone", "refused", "failed", "killed"}

DaemonInit ==
    /\ args \in Invocations
    /\ phase = "start" /\ made = {}
    /\ requests = 0 /\ streams = 0
    /\ stop = {} /\ engine = "off" /\ poll = "off"
    /\ lease = 0 /\ due = 0 /\ hung = {}

(* resolve_auth. *)
AuthAccepted ==
    IF args.tokens = "none"
    THEN args.loopback \/ args.insecure
    ELSE /\ ~ args.insecure
         /\ args.tokens = "good"
         /\ \/ args.key = "good"
            \/ args.key = "none" /\ ~ Clusters

(* load_session_plane_tls, read_token_file and require_token_tls. *)
SessionPlaneAccepted == args.podToken => args.podTls

(* heartbeat_interval: a third of the lease, but a second at least. *)
Second == 2
HeartbeatInterval ==
    IF args.heartbeat > 0 THEN args.heartbeat
    ELSE IF args.ttl \div 3 < Second THEN Second ELSE args.ttl \div 3

(***************************************************************************)
(* Starting.                                                                *)
(***************************************************************************)
Check ==
    /\ phase = "start"
    /\ phase' = IF AuthAccepted /\ (args.backend = "k8s" => args.feature) THEN "store" ELSE "refused"
    /\ UNCHANGED <<args, made, requests, streams, stop, engine, poll, lease, due, hung>>

OpenStore ==
    /\ phase = "store"
    /\ made' = made \cup {"data_dir"}
    /\ \/ phase' = "backend"
       \/ phase' = "failed"
    /\ UNCHANGED <<args, requests, streams, stop, engine, poll, lease, due, hung>>

(* The local backend has a manager and its poll loop; a cluster has leases   *)
(* and their heartbeat; automations need a config store all replicas share.  *)
BuildBackend ==
    /\ phase = "backend"
    /\ \/ phase' = "failed" /\ UNCHANGED <<made, engine, poll, due>>
       \/ /\ args.backend = "k8s" => SessionPlaneAccepted
          /\ phase' = "bind"
          /\ made' = made \cup (IF args.backend = "local" THEN {"manager"} ELSE {})
                          \cup (IF Clusters THEN {"heartbeat"} ELSE {})
          /\ poll' = IF args.backend = "local" THEN "spawned" ELSE "off"
          /\ engine' = IF args.backend = "local" \/ Clusters THEN "spawned" ELSE "off"
          /\ due' = 0
    /\ UNCHANGED <<args, requests, streams, stop, lease, hung>>

Bind ==
    /\ phase = "bind" /\ phase' \in {"serve", "failed"}
    /\ UNCHANGED <<args, made, requests, streams, stop, engine, poll, lease, due, hung>>

(* No handler is installed before serve. *)
SignalEarly ==
    /\ phase \in {"start", "store", "backend", "bind"} /\ phase' = "killed"
    /\ UNCHANGED <<args, made, requests, streams, stop, engine, poll, lease, due, hung>>

(***************************************************************************)
(* Serving, and the background loops.  Nothing runs after main returns.      *)
(***************************************************************************)
Alive == phase \in {"bind", "serve", "drain", "engine", "poll"}

RequestArrives ==
    /\ phase = "serve" /\ requests < args.requests /\ requests' = requests + 1
    /\ UNCHANGED <<args, phase, made, streams, stop, engine, poll, lease, due, hung>>

RequestAnswered ==
    /\ phase \in {"serve", "drain"} /\ requests' = requests - 1
    /\ requests > (IF "request" \in hung THEN 1 ELSE 0)
    /\ UNCHANGED <<args, phase, made, streams, stop, engine, poll, lease, due, hung>>

StreamOpens ==
    /\ phase = "serve" /\ streams < args.streams /\ streams' = streams + 1
    /\ UNCHANGED <<args, phase, made, requests, stop, engine, poll, lease, due, hung>>

(* The client goes away.  The stream itself ends only when its bus is gone,  *)
(* and main, the router's state and the stream hold the bus.                 *)
StreamDropped ==
    /\ phase \in {"serve", "drain"} /\ streams > 0 /\ streams' = streams - 1
    /\ UNCHANGED <<args, phase, made, requests, stop, engine, poll, lease, due, hung>>

(* A caliband that takes the connection and never answers: no call of        *)
(* CalibandClient has a time-out, so who made it waits ...                   *)
Waits(who) ==
    \/ who = "request" /\ requests > 0
    \/ who = "engine" /\ args.backend = "local" /\ engine = "tick"
    \/ who = "poll" /\ poll = "cycle"

Hanging == hung \ {"over"} # {}

CalibandHangs(who) ==
    /\ Alive /\ args.silent /\ "over" \notin hung /\ Waits(who) /\ hung' = hung \cup {who}
    /\ UNCHANGED <<args, phase, made, requests, streams, stop, engine, poll, lease, due>>

(* ... until that process goes away and its connections with it.             *)
CalibandEnds ==
    /\ Alive /\ Hanging /\ hung' = {"over"}
    /\ UNCHANGED <<args, phase, made, requests, streams, stop, engine, poll, lease, due>>

(* AutomationEngine::run and FleetManager::run: a shutdown seen at the start *)
(* ends the loop at once, one seen in the pause ends it there, and a tick or *)
(* a cycle under way is finished first.                                      *)
EngineStep ==
    /\ Alive
    /\ \/ /\ engine = "spawned"
          /\ engine' = IF "engine" \in stop THEN "stopped" ELSE "tick"
       \/ engine = "tick" /\ "engine" \notin hung /\ engine' = "sleep"
       \/ engine = "sleep" /\ engine' = IF "engine" \in stop THEN "stopped" ELSE "tick"
    /\ UNCHANGED <<args, phase, made, requests, streams, stop, poll, lease, due, hung>>

PollStep ==
    /\ Alive
    /\ \/ /\ poll \in {"spawned", "sleep"} /\ "manager" \in stop
          /\ poll' = "stopped" /\ UNCHANGED lease
       \/ /\ poll \in {"spawned", "sleep"} /\ "manager" \notin stop
          /\ poll' = "cycle"
          /\ lease' = IF Clusters /\ lease = 0 THEN args.ttl ELSE lease
       \/ poll = "cycle" /\ "poll" \notin hung /\ poll' = "sleep" /\ UNCHANGED lease
    /\ UNCHANGED <<args, phase, made, requests, streams, stop, engine, due, hung>>

Heartbeat ==
    /\ Alive /\ "heartbeat" \in made /\ due = 0
    /\ due' = HeartbeatInterval
    /\ lease' = IF lease > 0 THEN args.ttl ELSE 0
    /\ UNCHANGED <<args, phase, made, requests, streams, stop, engine, poll, hung>>

(* Half a second, by the database's clock and by the timer of the heartbeat, *)
(* which is taken to fire when it is due.                                    *)
ClockTicks ==
    /\ Alive /\ lease > 0
    /\ "heartbeat" \in made => due > 0
    /\ lease' = lease - 1
    /\ due' = IF "heartbeat" \in made THEN due - 1 ELSE due
    /\ UNCHANGED <<args, phase, made, requests, streams, stop, engine, poll, hung>>

(***************************************************************************)
(* Draining.                                                                *)
(***************************************************************************)
Signal ==
    /\ phase = "serve" /\ phase' = "drain"
    /\ UNCHANGED <<args, made, requests, streams, stop, engine, poll, lease, due, hung>>

(* Mutant: the heartbeat is stopped first. *)
HttpDrainedFirst ==
    /\ phase = "drain" /\ requests = 0 /\ streams = 0
    /\ phase' = "engine" /\ stop' = {"engine"} /\ made' = made \ {"heartbeat"}
    /\ UNCHANGED <<args, requests, streams, engine, poll, lease, due, hung>>

(* serve returns when the last connection is done. *)
HttpDrained ==
    /\ phase = "drain" /\ requests = 0 /\ streams = 0
    /\ phase' = "engine" /\ stop' = {"engine"}
    /\ UNCHANGED <<args, made, requests, streams, engine, poll, lease, due, hung>>

EngineFinished == engine \in {"off", "stopped"}

(* Mutant: send instead of send_replace, lost when nobody has subscribed. *)
ToSubscribers == IF poll = "spawned" THEN stop ELSE stop \cup {"manager"}

(* FleetManager::begin_shutdown. *)
BeginShutdown == stop \cup {"manager"}

EngineAwaited ==
    /\ phase = "engine" /\ EngineFinished
    /\ phase' = "poll"
    /\ stop' = IF "manager" \in made THEN BeginShutdown ELSE stop
    /\ UNCHANGED <<args, made, requests, streams, engine, poll, lease, due, hung>>

(* The heartbeat is aborted, the leases are left to lapse. *)
PollAwaited ==
    /\ phase = "poll" /\ poll \in {"off", "stopped"}
    /\ phase' = "gone" /\ made' = made \ {"heartbeat"}
    /\ UNCHANGED <<args, requests, streams, stop, engine, poll, lease, due, hung>>

Draining == HttpDrained \/ EngineAwaited \/ PollAwaited

DaemonNext ==
    \/ Check \/ OpenStore \/ BuildBackend \/ Bind \/ SignalEarly
    \/ RequestArrives \/ RequestAnswered \/ StreamOpens \/ StreamDropped
    \/ EngineStep \/ PollStep \/ Heartbeat \/ ClockTicks
    \/ (\E who \in {"request", "engine", "poll"} : CalibandHangs(who)) \/ CalibandEnds
    \/ Signal \/ Draining

(* The runtime runs every task; a call that does not hang is answered, and   *)
(* nothing ends one that does; clients, signals and caliband are free.       *)
DaemonFairness ==
    /\ WF_daemonVars(EngineStep) /\ WF_daemonVars(PollStep)
    /\ WF_daemonVars(RequestAnswered) /\ WF_daemonVars(Draining)

(***************************************************************************)
(* Properties.                                                              *)
(***************************************************************************)
(* A command line that is refused has left nothing behind (main decides the  *)
(* authentication "before any side effects").                                *)
RefusedUntouched == phase = "refused" => made = {}

(* The lease of a replica does not lapse under a poll cycle of its own as    *)
(* long as the heartbeat is shorter than the lease, at work and to the end   *)
(* of the drain: the heartbeat is the last thing main stops.                 *)
LeaseOutlastsWork ==
    phase # "gone" /\ poll = "cycle" /\ Clusters /\ HeartbeatInterval < args.ttl => lease > 0

(* main returns with nothing half done: every accepted request answered, no  *)
(* automation between its claim and its record, no poll cycle cut short.     *)
LeavesNothingHalfDone ==
    phase = "gone" => requests = 0 /\ engine # "tick" /\ poll # "cycle"

(* From the command line to the exit: a refusal touches nothing, the lease   *)
(* outlasts the work it protects, and the work is done when main returns.    *)
DaemonSound == RefusedUntouched /\ LeaseOutlastsWork /\ LeavesNothingHalfDone

(* A signal brings the process down once no client holds a stream, however   *)
(* far its loops have come (begin_shutdown, "the signal sticks even if no    *)
(* task has subscribed yet"), unless a call to caliband hangs: main awaits   *)
(* the poll loop without a bound, the loop finishes its cycle, and no call   *)
(* of CalibandClient has a time-out.                                         *)
SignalBringsDown == (phase = "drain" /\ streams = 0) ~> (phase = "gone" \/ Hanging)

=============================================================================
