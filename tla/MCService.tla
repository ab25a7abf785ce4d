------------------------------ MODULE MCService ------------------------------
(***************************************************************************)
(* The server's face and its clients, one at a time: the dashboard's page,  *)
(* its stream pane and its workspace form, access to the API, delivery from *)
(* the store, the usage report and the daemon's life.  A behaviour is of    *)
(* one part; the others rest in a state in which they can do nothing.       *)
(***************************************************************************)
EXTENDS Dashboard, StreamPane, WorkspaceForm, Access, Delivery, Usage, Daemon

CONSTANTS ka, kb, wa, wb, ra, rb

VARIABLE part

(***************************************************************************)
(* Dashboard: watching a fleet through an outage; a page opened on a server  *)
(* that is down; an operator acting; a session that expires.                 *)
(***************************************************************************)
NoDesk == [open |-> FALSE, up |-> TRUE, scope |-> "off", ops |-> {}, presses |-> 0,
           changes |-> 0, faults |-> 0, expiries |-> 0, signins |-> 0]
Desk(scope, up) == [NoDesk EXCEPT !.open = TRUE, !.up = up, !.scope = scope]
Watching == [Desk("off", TRUE) EXCEPT !.changes = 2, !.faults = 1]
LateServer == [Desk("read", FALSE) EXCEPT !.faults = 1, !.ops = {"kill"}, !.presses = 1]
Operator == [Desk("operate", TRUE) EXCEPT !.ops = {"kill", "respawn", "end"}, !.presses = 2,
                                          !.changes = 1]
Expiring == [Desk("admin", TRUE) EXCEPT !.ops = {"workspace", "launch"}, !.presses = 1,
                                        !.expiries = 1, !.signins = 1]
AllDesks == {NoDesk, Watching, LateServer, Operator, Expiring}

DashQuiet == DashInit /\ budget = NoDesk

(***************************************************************************)
(* The pane: two tools at once; thinking; frames that do not decode.         *)
(***************************************************************************)
Entry(kind) == [kind |-> kind, tool |-> ""]
Uses(kind, tool) == [kind |-> kind, tool |-> tool]
Parallel == <<Entry("init"), Uses("tool", "a"), Entry("out"), Uses("tool", "b"), Uses("end", "b"),
              Entry("out"), Uses("end", "a"), Entry("finished")>>
Thinks == <<Entry("out"), Entry("think"), Entry("out"), Entry("out"), Uses("tool", "x"),
            Uses("end", ""), Entry("finished")>>
NoScript == [log |-> <<>>, bad |-> {}]
AllScripts == {NoScript} \cup {[log |-> Parallel, bad |-> b] : b \in {{}, {2}}}
                         \cup {[log |-> Thinks, bad |-> b] : b \in {{}, {3, 4}}}

PaneQuiet ==
    /\ script = NoScript /\ emitted = 0 /\ conn = Closed
    /\ pane = [entries |-> <<>>, last |-> 0, state |-> "closed"]
    /\ faults = [drops |-> 0, gaps |-> 0]

(***************************************************************************)
(* The workspace form: none, one or two providers there before.              *)
(***************************************************************************)
Provider(n, cred, base) == [name |-> n, cred |-> cred, base |-> base]
OneProvider == [providers |-> <<Provider("p", TRUE, TRUE)>>, sources |-> 1, default |-> "p",
                env |-> TRUE, isolation |-> TRUE]
TwoProviders == [OneProvider EXCEPT !.providers = Append(@, Provider("q", FALSE, TRUE)),
                                    !.default = "q", !.sources = 2]
FoundResources == {NoResource, OneProvider, TwoProviders}

FormQuiet == FormInit /\ cr = NoResource

(***************************************************************************)
(* Access: a cluster whose token file changes under its sessions; a cluster  *)
(* without the shared key; a standalone server; agents and an automation,    *)
(* with and without tokens; a history read in pages.                         *)
(***************************************************************************)
Token(line, scope, hash) == [line |-> line, scope |-> scope, hash |-> hash]
FullFile == ("ada" :> Token(1, "admin", 1)) @@ ("ops" :> Token(2, "operate", 2))
            @@ ("bot" :> Token(3, "read", 3))
TwiceListed == ("ada" :> Token(1, "admin", 1)) @@ ("ops" :> Token(3, "read", 4))
               @@ ("old" :> Token(4, "operate", 4))
FileVersions == {FullFile, TwiceListed, ("ada" :> Token(1, "admin", 1)), <<>>}
Standalone == [auth |-> TRUE, clustered |-> FALSE, keyFile |-> FALSE, plane |-> "sync",
               store |-> TRUE, edits |-> 0, boots |-> 1, seconds |-> 0, signins |-> 0,
               spawns |-> 0, creations |-> 0, events |-> 0, sweeps |-> 0]
Rollout == [Standalone EXCEPT !.clustered = TRUE, !.keyFile = TRUE, !.plane = "async",
                              !.edits = 1, !.boots = 3, !.seconds = 2, !.signins = 2]
Keyless == [Standalone EXCEPT !.clustered = TRUE, !.plane = "none", !.store = FALSE]
Restarted == [Standalone EXCEPT !.plane = "none", !.store = FALSE, !.edits = 1, !.boots = 2,
                                !.seconds = 1, !.signins = 1]
Launches == [Standalone EXCEPT !.spawns = 3, !.creations = 1]
Trusting == [Standalone EXCEPT !.auth = FALSE, !.spawns = 2, !.creations = 1]
Paging == [Standalone EXCEPT !.auth = FALSE, !.events = 4, !.sweeps = 1]
Deployments == {Rollout, Keyless, Restarted, Launches, Trusting, Paging}

AccessStarts == AccessInit /\ tokensFile = FullFile
AccessQuiet == AccessStarts /\ install = Keyless

(***************************************************************************)
(* Delivery: a standalone store, read from the start or from now; a cluster  *)
(* of two agents; a cluster's tail of one agent; with one task that writes a *)
(* stream, and with two.                                                    *)
(***************************************************************************)
Emits(n, m) == [k \in Keys |-> IF k = ka THEN n ELSE m]
LocalSite == [store |-> "sqlite", from |-> "start", rows |-> Emits(2, 1), writers |-> 1,
              prunes |-> 1, faults |-> 0, resumes |-> 1, who |-> "feed"]
NowSite == [LocalSite EXCEPT !.from = "now", !.rows = Emits(2, 0), !.writers = 2, !.prunes = 0,
                             !.faults = 1]
Cluster == [LocalSite EXCEPT !.store = "postgres", !.prunes = 0, !.faults = 1, !.resumes = 0]
BusyCluster == [Cluster EXCEPT !.rows = Emits(3, 0), !.writers = 2, !.faults = 0]
TailSite == [Cluster EXCEPT !.who = "tail"]
BusyTail == [TailSite EXCEPT !.rows = Emits(3, 0), !.writers = 2]
NoSite == [LocalSite EXCEPT !.rows = Emits(0, 0), !.prunes = 0, !.resumes = 0, !.who = "nobody"]
AllSites == {LocalSite, NowSite, Cluster, BusyCluster, TailSite, BusyTail, NoSite}

DeliveryQuiet == DeliveryInit /\ site = NoSite

(***************************************************************************)
(* Usage: times on and just off a second's boundary, over four days.         *)
(***************************************************************************)
At(d, s, n) == [day |-> d, sec |-> s, ns |-> n]
Instants == <<At(8, 10, 0), At(8, 10, 500000000), At(8, 10, 500123456),
              At(9, 10, 500120000), At(10, 10, 500000000), At(12, 0, 250000000)>>
Said(w, kind, n) == [workspace |-> w, kind |-> kind, cost |-> n, turns |-> n]
Reported == {Said(wa, "agent_finished", 3), Said(wb, "agent_finished", 4), Said(wa, "killed", 0),
             Said(wa, "agent_timed_out", 0), Said(wb, "output", 0)}
Junk == [form |-> "junk", at |-> At(1, 0, 0)]
Query(since, until, days) == [since |-> since, until |-> until, days |-> days]
Bounds == {Bound(At(8, 10, 0)), Bound(At(8, 10, 500000000)),
           Bound(At(8, 10, 500123000)),
           Bound(At(9, 0, 0))}
Asked == {Query(s, Absent, 0) : s \in Bounds} \cup {Query(s, u, 0) : s, u \in Bounds}
         \cup {Query(Absent, Absent, d) : d \in {0, 1, 2, 15}}
         \cup {Query(Junk, Absent, 0), Query(Absent, Junk, 1)}
SinceArg(f, n, unit, t) == [form |-> f, n |-> n, unit |-> unit, at |-> t]
SinceAsked ==
    {SinceArg(f, 0, "", At(1, 0, 0)) : f \in {"absent", "junk"}}
    \cup {SinceArg("count", n, u, At(1, 0, 0)) : n \in {0, 2, 14, 15}, u \in {"d", "w", "h"}}
    \cup {SinceArg("date", 0, "", At(8, 0, 0)), SinceArg("timestamp", 0, "", Instants[2])}

(***************************************************************************)
(* The daemon: standalone with a request and a stream; clusters; command     *)
(* lines that are refused; the Kubernetes backend.                           *)
(***************************************************************************)
Plain == [backend |-> "local", feature |-> TRUE, loopback |-> TRUE, insecure |-> FALSE,
          tokens |-> "none", key |-> "none", database |-> FALSE, podToken |-> FALSE,
          podTls |-> FALSE, ttl |-> 6, heartbeat |-> 0, requests |-> 0, streams |-> 0,
          silent |-> FALSE]
Serving == [Plain EXCEPT !.requests = 1, !.streams = 1]
Exposed == [Plain EXCEPT !.loopback = FALSE]
CommandLines ==
    {Serving, Exposed, [Plain EXCEPT !.requests = 2, !.silent = TRUE],
     [Exposed EXCEPT !.database = TRUE, !.tokens = "good", !.key = "good"],
     [Plain EXCEPT !.database = TRUE, !.tokens = "good"],
     [Plain EXCEPT !.database = TRUE, !.ttl = 2],
     [Plain EXCEPT !.tokens = "bad"],
     [Plain EXCEPT !.tokens = "good", !.insecure = TRUE],
     [Plain EXCEPT !.tokens = "good", !.key = "short"],
     [Plain EXCEPT !.backend = "k8s", !.feature = FALSE],
     [Plain EXCEPT !.backend = "k8s", !.podToken = TRUE],
     [Plain EXCEPT !.backend = "k8s", !.podToken = TRUE, !.podTls = TRUE, !.database = TRUE,
                   !.heartbeat = 3]}

DaemonQuiet ==
    /\ args = Exposed /\ phase = "refused" /\ made = {} /\ requests = 0 /\ streams = 0
    /\ stop = {} /\ engine = "off" /\ poll = "off" /\ lease = 0 /\ due = 0 /\ hung = {}

(***************************************************************************)
(* The sum.                                                                  *)
(***************************************************************************)
serviceVars == <<part, dashVars, paneVars, formVars, accessVars, deliveryVars, usageVars,
                 daemonVars>>

MCInit ==
    \/ /\ part = "dashboard" /\ DashInit /\ budget # NoDesk
       /\ PaneQuiet /\ FormQuiet /\ AccessQuiet /\ DeliveryQuiet /\ UsageInit /\ DaemonQuiet
    \/ /\ part = "pane" /\ PaneInit /\ script # NoScript
       /\ DashQuiet /\ FormQuiet /\ AccessQuiet /\ DeliveryQuiet /\ UsageInit /\ DaemonQuiet
    \/ /\ part = "form" /\ FormInit
       /\ DashQuiet /\ PaneQuiet /\ AccessQuiet /\ DeliveryQuiet /\ UsageInit /\ DaemonQuiet
    \/ /\ part = "access" /\ AccessStarts
       /\ DashQuiet /\ PaneQuiet /\ FormQuiet /\ DeliveryQuiet /\ UsageInit /\ DaemonQuiet
    \/ /\ part = "delivery" /\ DeliveryInit /\ site # NoSite
       /\ DashQuiet /\ PaneQuiet /\ FormQuiet /\ AccessQuiet /\ UsageInit /\ DaemonQuiet
    \/ /\ part = "usage" /\ UsageInit
       /\ DashQuiet /\ PaneQuiet /\ FormQuiet /\ AccessQuiet /\ DeliveryQuiet /\ DaemonQuiet
    \/ /\ part = "daemon" /\ DaemonInit
       /\ DashQuiet /\ PaneQuiet /\ FormQuiet /\ AccessQuiet /\ DeliveryQuiet /\ UsageInit

Rest == UNCHANGED part
MCNext ==
    \/ part = "dashboard" /\ DashNext /\ Rest
       /\ UNCHANGED <<paneVars, formVars, accessVars, deliveryVars, usageVars, daemonVars>>
    \/ part = "pane" /\ PaneNext /\ Rest
       /\ UNCHANGED <<dashVars, formVars, accessVars, deliveryVars, usageVars, daemonVars>>
    \/ part = "form" /\ FormNext /\ Rest
       /\ UNCHANGED <<dashVars, paneVars, accessVars, deliveryVars, usageVars, daemonVars>>
    \/ part = "access" /\ AccessNext /\ Rest
       /\ UNCHANGED <<dashVars, paneVars, formVars, deliveryVars, usageVars, daemonVars>>
    \/ part = "delivery" /\ DeliveryNext /\ Rest
       /\ UNCHANGED <<dashVars, paneVars, formVars, accessVars, usageVars, daemonVars>>
    \/ part = "usage" /\ UsageNext /\ Rest
       /\ UNCHANGED <<dashVars, paneVars, formVars, accessVars, deliveryVars, daemonVars>>
    \/ part = "daemon" /\ DaemonNext /\ Rest
       /\ UNCHANGED <<dashVars, paneVars, formVars, accessVars, deliveryVars, usageVars>>

MCSpec == MCInit /\ [][MCNext]_serviceVars
          /\ DashFairness /\ PaneFairness /\ DeliveryFairness /\ DaemonFairness

=============================================================================
