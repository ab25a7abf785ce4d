----------------------------- MODULE MCPipeline -----------------------------
(***************************************************************************)
(* Between caliband, the log and those who watch, one part at a time: the    *)
(* calls made of caliband, the poll of a repo, the task that streams an      *)
(* agent, an event on its way through emit, a subscriber of the fleet's      *)
(* changes. The other parts rest in a state in which they can do nothing.    *)
(***************************************************************************)
EXTENDS Emitter, AttachLoop, Session, FleetPoll, FleetWatch

CONSTANTS r1, r2, attach, api, c1, c2, worker, w1, w2

VARIABLE part

(* Two replicas that write one stream: r1 the agent's attach task, r2 a      *)
(* request.  The attach task emits three events, the last AgentFinished.     *)
HomeTwo == [t \in Tasks |-> IF t = api THEN r2 ELSE r1]
ScriptThree == [t \in Tasks |-> IF t = attach THEN <<"output", "output", "finished">>
                                              ELSE <<"output">>]

(* Two events around a frame that is not an event, then the terminal frame. *)
RunFour == <<"event", "quiet", "event", "finished">>

(* How client and caliband may be configured: a Unix socket, TLS and a token, *)
(* and the mistakes: the wrong CA or none in the file, an old token or none,  *)
(* only one side with TLS, a caliband that demands no token.                  *)
Plain == [family |-> "unix", tls |-> "none", token |-> "none",
          demands |-> [tls |-> FALSE, token |-> "none"]]
Secured == [family |-> "tcp", tls |-> "trusts", token |-> "t",
            demands |-> [tls |-> TRUE, token |-> "t"]]
Strangers == {[Secured EXCEPT !.tls = tls, !.token = tok] :
                tls \in {"trusts", "distrusts", "empty"}, tok \in {"t", "old", "none"}}
             \cup {[Secured EXCEPT !.tls = "none", !.token = "none"],
                   [Secured EXCEPT !.demands.tls = FALSE],
                   [Secured EXCEPT !.demands.token = "none"]}
Talker == [status |-> "running", interactive |-> TRUE]
Worker == [status |-> "idle", interactive |-> FALSE]

(* Two calls at a time, an agent that holds a conversation or one that does not. *)
D(op, on) == [op |-> op, on |-> on]
S(does, made, config, lost, again, changed) ==
    [does |-> does, made |-> made, setup |-> config, losses |-> lost, polls |-> again,
     moves |-> changed]
Two(p, q) == c1 :> p @@ c2 :> q
List == D("list", 0)
Sessions ==
    {S(Two(D("drain", 1), List), <<Talker>>, Secured, 1, 1, 1),
     S(Two(D("drain", 1), D("rm", 1)), <<Talker>>, Plain, 1, 0, 1),
     S(Two(D("drain", 1), D("input", 1)), <<Talker>>, Plain, 1, 0, 1),
     S(Two(D("input", 1), List), <<Talker>>, Secured, 1, 1, 1),
     S(Two(D("input", 1), List), <<Worker>>, Plain, 1, 0, 1),
     S(Two(D("input", 1), D("rm", 1)), <<Talker>>, Plain, 1, 0, 1),
     S(Two(D("respawn", 1), D("kill", 1)), <<Talker>>, Secured, 1, 0, 0),
     S(Two(D("respawn", 1), List), <<Talker>>, Secured, 2, 1, 1),
     S(Two(D("spawn", 0), List), <<Talker>>, Plain, 1, 1, 1),
     S(Two(D("spawn", 0), D("restart", 0)), <<Talker>>, Secured, 1, 0, 0)}
    \cup {S(c1 :> D(op, 1), <<Talker>>, st, 1, 0, 0) :
             op \in {"spawn", "kill", "input"}, st \in Strangers}

(* Up to two replicas and one agent, spawned through either of them with a   *)
(* timeout. Each behaviour has a status change and one of: a removal, an     *)
(* outage, a kill that fails, a lost lease, a crash.                         *)
Calm == [changes |-> 1, outages |-> 0, killFaults |-> 0, expiries |-> 0, crashes |-> 0,
         removals |-> 0, run |-> {r1}, existing |-> {}, timed |-> {worker}]
Alone == {Calm, [Calm EXCEPT !.removals = 1], [Calm EXCEPT !.outages = 1],
          [Calm EXCEPT !.killFaults = 1], [Calm EXCEPT !.crashes = 1]}
Both == [Calm EXCEPT !.run = {r1, r2}, !.changes = 0]
Cluster == {[Both EXCEPT !.changes = 1, !.timed = {}],
            [Both EXCEPT !.removals = 1, !.existing = {worker}, !.timed = {}],
            [Both EXCEPT !.expiries = 1], [Both EXCEPT !.crashes = 1]}
Off == [Calm EXCEPT !.changes = 0, !.run = {}, !.timed = {}]
AllBudgets == Alone \cup Cluster \cup {Off}

(* Three changes of two agents, a subscriber that comes at any time, and a    *)
(* channel that a second change makes it fall behind of.                      *)
W(side, changed, comes) == [backend |-> side, moves |-> changed, subscribes |-> comes]
AllWatches == {W("k8s", 3, TRUE), W("local", 3, TRUE), W("local", 0, FALSE)}

(* Nothing to ask; nothing to emit; an agent that ended before prosperod looked. *)
NoCalls == {S(<<>>, <<>>, Plain, 0, 0, 0)}
AllSessions == Sessions \cup NoCalls

SessionQuiet == \A c \in Calls : call[c].op = "none"
EmitterQuiet == Init /\ appendFaults = 0 /\ readFaults = 0 /\ crashes = 0 /\ prunes = 0
AttachQuiet ==
    /\ written = 0 /\ status = "terminal" /\ stage = "off"
    /\ frames_seen = 0 /\ before = 0 /\ idx = 0 /\ saw_terminal = 0 /\ attempt = 0
    /\ sent = <<>> /\ base = 0
    /\ deaf = 0 /\ lateStarts = 0 /\ drops = 0 /\ torn = 0 /\ shutdown = 0
PollQuiet == budget = Off
WatchQuiet == watcher = "closed"

(* Any three of the four faults of the emitter in one behaviour. *)
ThreeFaults == appendFaults + readFaults + crashes + prunes = 3

MCInit ==
    /\ SessionInit /\ PollInit /\ WatchInit
    /\ \/ /\ part = "emitter" /\ Init /\ ThreeFaults
          /\ AttachQuiet /\ SessionQuiet /\ PollQuiet /\ WatchQuiet
       \/ /\ part = "attach" /\ AttachInit
          /\ EmitterQuiet /\ SessionQuiet /\ PollQuiet /\ WatchQuiet
       \/ /\ part = "session" /\ ~ SessionQuiet
          /\ EmitterQuiet /\ AttachQuiet /\ PollQuiet /\ WatchQuiet
       \/ /\ part = "poll" /\ ~ PollQuiet
          /\ EmitterQuiet /\ AttachQuiet /\ SessionQuiet /\ WatchQuiet
       \/ /\ part = "watch" /\ ~ WatchQuiet
          /\ EmitterQuiet /\ AttachQuiet /\ SessionQuiet /\ PollQuiet

MCNext ==
    /\ UNCHANGED part
    /\ \/ part = "emitter" /\ Next /\ UNCHANGED <<attachVars, sessionVars, pollVars, watchVars>>
       \/ part = "attach" /\ AttachNext /\ UNCHANGED <<vars, sessionVars, pollVars, watchVars>>
       \/ part = "session" /\ SessionNext /\ UNCHANGED <<vars, attachVars, pollVars, watchVars>>
       \/ part = "poll" /\ PollNext /\ UNCHANGED <<vars, attachVars, sessionVars, watchVars>>
       \/ part = "watch" /\ WatchNext /\ UNCHANGED <<vars, attachVars, sessionVars, pollVars>>

MCSpec ==
    /\ MCInit /\ [][MCNext]_<<part, vars, attachVars, sessionVars, pollVars, watchVars>>
    /\ Fairness /\ AttachFairness /\ SessionFairness /\ PollFairness

(* Nothing stays under way: a call of caliband and a call of emit end, a run's *)
(* outcome is emitted, its task ends, and a shutdown stops the tasks           *)
(* (CalibandClient, emit, attach_loop).                                        *)
PipelineSettles ==
    <>[](CallsEnded /\ EmitsEnded /\ AttachSettled)

=============================================================================
