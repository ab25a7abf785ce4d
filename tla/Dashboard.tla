------------------------------ MODULE Dashboard ------------------------------
(***************************************************************************)
(* The dashboard in the browser (crates/dashboard/src/main.rs, ui.rs,       *)
(* api.rs, actions.rs, view_model.rs): sign-in, the loop that reads the     *)
(* fleet, the fleet stream that only asks for a refresh, the usage panel,   *)
(* and the dialogs through which an operator acts. Every request is one     *)
(* that the server, seen here from the outside, may serve, refuse or not    *)
(* answer; what is drawn from the state is left out, what decides which     *)
(* control is offered is kept.                                              *)
(***************************************************************************)
EXTENDS Naturals, FiniteSets

CONSTANTS
    Desks,      \* the situations a page is opened in: whether it is opened, the
                \* scope of the operator's token, whether prosperod answers at
                \* first, the operations tried, and how much may happen
    MaxOrphans  \* dialogs dismissed while their request is in flight

ASSUME DesksAssumption ==
    \A d \in Desks : d.scope \in {"off", "read", "operate", "admin"} /\ d.up \in BOOLEAN

VARIABLES
    srv,      \* prosperod: up, the agent's status, what was spent, the
              \* operator's credential and the scope it carries
    session,  \* ui.session: "checking", "out", or the scope signed in with
    load,     \* Load: kind, the agent as last read, whether it is stale
    loop,     \* where the loop of App is
    reply,    \* the answer of /api/fleet on its way to the loop
    bumped,   \* ui.refresh differs from the value the wait started from
    lastKey,  \* last_key: activity_key of the last snapshot
    beat,     \* waits slept through since the last usage heartbeat
    caps,     \* ui.caps.admin, and whether the probe has answered
    feed,     \* the fleet stream: "gate", "open" or "pause"
    backlog,  \* events the server sent on it that are not yet delivered
    usage,    \* the usage panel: a fetch asked for, and what is on screen
    modal,    \* ui.modal, and whether its request is in flight (busy)
    flight,   \* requests of dialogs the server has yet to handle
    orphans,  \* those whose dialog is gone
    odd,      \* how the page may come to offer what the server refuses
    refused,  \* the server has answered 403 since the last sign-in
    budget    \* what may still happen

dashVars == <<srv, session, load, loop, reply, bumped, lastKey, beat, caps, feed,
              backlog, usage, modal, flight, orphans, odd, refused, budget>>

Statuses == {"running", "idle", "done", "gone"}
Scopes == {"off", "read", "operate", "admin"}
Dialogs == {"none", "kill", "respawn", "remove", "end", "launch", "workspace"}
None == "none"

SignedIn == session \in Scopes
Rank(scope) == CASE scope = "read" -> 1 [] scope = "operate" -> 2 [] OTHER -> 3

(* Mutant: a control is shown whatever the scope of the session. *)
PermitsAll(state, need) == state \in Scopes

(* permits, for the page; "off" is SessionInfo::Disabled. *)
Permits(state, need) == state \in Scopes /\ Rank(state) >= Rank(need)

(* required_access, for the operations the page issues. *)
Need(op) == IF op = "workspace" THEN "admin" ELSE "operate"

(* The server's answer to a request that needs a scope. *)
Status(need) ==
    IF ~ srv.up THEN "error"
    ELSE IF srv.cookie = "dead" THEN "signed out"
    ELSE IF srv.cookie = "live" /\ Rank(srv.scope) < Rank(need) THEN "forbidden"
    ELSE "ok"

DashInit ==
    \E d \in Desks :
        /\ srv = [up |-> d.up, agent |-> "running", spend |-> 0, scope |-> d.scope,
                  cookie |-> IF d.scope = "off" THEN "off" ELSE "live"]
        /\ budget = d
        /\ session = IF d.open THEN "checking" ELSE "out"
        /\ load = [kind |-> "loading", agent |-> "gone", stale |-> FALSE]
        /\ loop = "gate" /\ reply = "none" /\ bumped = FALSE
        /\ lastKey = "never" /\ beat = 2
        /\ caps = [admin |-> FALSE, loaded |-> FALSE]
        /\ feed = "gate" /\ backlog = 0
        /\ usage = [asked |-> FALSE, shown |-> "loading"]
        /\ modal = [kind |-> None, busy |-> FALSE]
        /\ flight = 0 /\ orphans = 0 /\ odd = {} /\ refused = FALSE

(***************************************************************************)
(* prosperod and the network, from the page's side.                         *)
(***************************************************************************)
Spent(what) == budget[what] > 0 /\ budget' = [budget EXCEPT ![what] = @ - 1]
Announced == backlog' = IF feed = "open" THEN backlog + 1 ELSE backlog

FleetChanges ==
    /\ Spent("changes")
    /\ \/ \E s \in Statuses \ {srv.agent} :
            srv' = [srv EXCEPT !.agent = s, !.spend = IF s = "done" THEN 1 ELSE @] /\ Announced
       \/ srv' = [srv EXCEPT !.spend = 1] /\ UNCHANGED backlog      \* on another replica
    /\ UNCHANGED <<session, load, loop, reply, bumped, lastKey, beat, caps, feed, usage,
                   modal, flight, orphans, odd, refused>>

ServerFlips ==
    /\ Spent("faults")
    /\ srv' = [srv EXCEPT !.up = ~ @]
    /\ UNCHANGED <<session, load, loop, reply, bumped, lastKey, beat, caps, feed, backlog,
                   usage, modal, flight, orphans, odd, refused>>

(* The session expires or its token is revoked. *)
SessionExpires ==
    /\ srv.cookie = "live" /\ Spent("expiries")
    /\ srv' = [srv EXCEPT !.cookie = "dead"]
    /\ UNCHANGED <<session, load, loop, reply, bumped, lastKey, beat, caps, feed, backlog,
                   usage, modal, flight, orphans, odd, refused>>

(***************************************************************************)
(* Signing in and out.                                                      *)
(***************************************************************************)
(* The sign-in form replaces the page: a button's task goes with it, and a   *)
(* dialog is drawn afresh when the page is back, its request forgotten.      *)
PageLeft ==
    /\ modal' = [kind |-> IF modal.kind = "respawn" THEN None ELSE modal.kind, busy |-> FALSE]
    /\ orphans' = IF modal.busy THEN orphans + 1 ELSE orphans

(* The probe on mount. An unreachable server counts as one without auth:    *)
(* the fleet read is to surface the error.                                  *)
SessionFetched ==
    /\ session = "checking"
    /\ session' = CASE Status("read") = "ok" -> IF srv.cookie = "off" THEN "off" ELSE srv.scope
                    [] Status("read") = "signed out" -> "out"
                    [] OTHER -> "off"
    /\ odd' = IF Status("read") = "error" THEN odd \cup {"guessed"} ELSE odd
    /\ UNCHANGED <<srv, load, loop, reply, bumped, lastKey, beat, caps, feed, backlog,
                   usage, modal, flight, orphans, refused, budget>>

(* SignIn: any token the server knows. A dialog left open is still there. *)
SignIn ==
    /\ session = "out" /\ srv.up /\ srv.cookie # "off" /\ Spent("signins")
    /\ \E scope \in {"read", srv.scope} :
        /\ srv' = [srv EXCEPT !.cookie = "live", !.scope = scope]
        /\ session' = scope
    /\ bumped' = TRUE /\ usage' = [usage EXCEPT !.asked = TRUE]
    /\ odd' = (odd \ {"guessed"}) \cup IF modal.kind # None THEN {"leftover"} ELSE {}
    /\ refused' = FALSE
    /\ UNCHANGED <<load, loop, reply, lastKey, beat, caps, feed, backlog, modal,
                   flight, orphans>>

(* SessionBadge: best effort, then out. *)
SignOut ==
    /\ session \in Scopes \ {"off"} /\ Spent("signins")
    /\ srv' = [srv EXCEPT !.cookie = IF srv.up THEN "dead" ELSE @]
    /\ session' = "out" /\ PageLeft
    /\ UNCHANGED <<load, loop, reply, bumped, lastKey, beat, caps, feed, backlog, usage,
                   flight, odd, refused>>

(***************************************************************************)
(* The loop that reads the fleet.                                           *)
(***************************************************************************)
PassStarts ==
    /\ loop = "gate" /\ SignedIn
    /\ loop' = "fleet"
    /\ caps' = IF ~ caps.loaded /\ Status("read") = "ok"
               THEN [admin |-> TRUE, loaded |-> TRUE] ELSE caps
    /\ UNCHANGED <<srv, session, load, reply, bumped, lastKey, beat, feed, backlog, usage,
                   modal, flight, orphans, odd, refused, budget>>

(* fetch_fleet: the server reads its snapshot; the answer is on its way. *)
FleetAnswered ==
    /\ loop = "fleet"
    /\ reply' = IF Status("read") = "ok" THEN srv.agent ELSE Status("read")
    /\ loop' = "apply"
    /\ UNCHANGED <<srv, session, load, bumped, lastKey, beat, caps, feed, backlog, usage,
                   modal, flight, orphans, odd, refused, budget>>

(* activity_key: the fleet as read now is not the one last read. *)
ActivityMoved == lastKey # reply

(* What the row of an agent offers.                                        *)
controls_for(status) ==
    CASE status \in {"running", "idle"} -> {"kill"}
      [] status = "done" -> {"respawn", "remove"}
      [] OTHER -> {}

(* A respawn under way belongs to the row's button, and is dropped with it    *)
(* when the row's controls become others.                                    *)
ButtonGone == modal.kind = "respawn" /\ "respawn" \notin controls_for(reply)

(* The answer is applied: a snapshot, a sign-out, or an error that leaves   *)
(* the last good snapshot on screen. A moved activity key asks for usage,   *)
(* and so does the panel when it is drawn for the first time.                *)
FleetApplied ==
    /\ loop = "apply" /\ reply' = "none"
    /\ \/ /\ reply \in Statuses
          /\ load' = [kind |-> "ready", agent |-> reply, stale |-> FALSE]
          /\ lastKey' = reply
          /\ usage' = [usage EXCEPT !.asked = @ \/ ActivityMoved \/ load.kind # "ready"]
          /\ modal' = IF ButtonGone THEN [kind |-> None, busy |-> FALSE] ELSE modal
          /\ orphans' = IF ButtonGone /\ modal.busy THEN orphans + 1 ELSE orphans
          /\ loop' = "workspaces" /\ UNCHANGED session
       \/ /\ reply = "signed out"
          /\ session' = "out" /\ PageLeft
          /\ load' = [kind |-> "loading", agent |-> load.agent, stale |-> FALSE]
          /\ loop' = "gate" /\ UNCHANGED <<lastKey, usage>>
       \/ /\ reply = "error"
          /\ load' = IF load.kind = "ready" THEN [load EXCEPT !.stale = TRUE]
                     ELSE [load EXCEPT !.kind = "failed"]
          /\ loop' = "workspaces" /\ UNCHANGED <<session, lastKey, usage, modal, orphans>>
    /\ UNCHANGED <<srv, bumped, beat, caps, feed, backlog, flight, odd, refused, budget>>

(* /api/workspaces, whose failure is not shown; the usage heartbeat; and    *)
(* the wait begins by sampling `refresh`, so that a bump that came during   *)
(* the pass is not seen by it.                                              *)
WorkspacesFetched ==
    /\ loop = "workspaces"
    /\ IF beat >= 2
       THEN beat' = 0 /\ usage' = [usage EXCEPT !.asked = TRUE]
       ELSE UNCHANGED <<beat, usage>>
    /\ loop' = "wait" /\ bumped' = FALSE
    /\ UNCHANGED <<srv, session, load, reply, lastKey, caps, feed, backlog, modal, flight, orphans,
                   odd, refused, budget>>

(* Mutant: the wait ends on a bump only. *)
WaitForBump ==
    /\ loop = "wait" /\ bumped /\ loop' = "gate"
    /\ UNCHANGED <<srv, session, load, reply, bumped, lastKey, beat, caps, feed, backlog,
                   usage, modal, flight, orphans, odd, refused, budget>>

(* wait_for_tick: a bump, or POLL_INTERVAL, half of USAGE_HEARTBEAT. *)
WaitEnds ==
    /\ loop = "wait" /\ loop' = "gate"
    /\ beat' = IF bumped \/ beat >= 2 THEN beat ELSE beat + 1
    /\ UNCHANGED <<srv, session, load, reply, bumped, lastKey, caps, feed, backlog, usage,
                   modal, flight, orphans, odd, refused, budget>>

(* ErrorState's button: the placeholder is drawn, nothing is fetched. *)
RetryClicked ==
    /\ SignedIn /\ load.kind = "failed"
    /\ load' = [load EXCEPT !.kind = "loading"]
    /\ UNCHANGED <<srv, session, loop, reply, bumped, lastKey, beat, caps, feed, backlog,
                   usage, modal, flight, orphans, odd, refused, budget>>

(***************************************************************************)
(* The fleet stream, and the usage panel.                                   *)
(***************************************************************************)
(* follow_fleet, from=now: what happened before is not sent. *)
FeedOpens ==
    /\ feed = "gate" /\ SignedIn
    /\ feed' = IF Status("read") = "ok" THEN "open" ELSE "pause"
    /\ backlog' = 0
    /\ UNCHANGED <<srv, session, load, loop, reply, bumped, lastKey, beat, caps, usage,
                   modal, flight, orphans, odd, refused, budget>>

FeedDelivers ==
    /\ feed = "open" /\ backlog > 0
    /\ backlog' = backlog - 1 /\ bumped' = TRUE
    /\ UNCHANGED <<srv, session, load, loop, reply, lastKey, beat, caps, feed, usage, modal,
                   flight, orphans, odd, refused, budget>>

(* A proxy's timeout or a restart, then three seconds. *)
FeedDrops ==
    /\ \/ feed = "open" /\ Status("read") # "ok" /\ feed' = "pause"
       \/ feed = "pause" /\ feed' = "gate"
    /\ backlog' = 0
    /\ UNCHANGED <<srv, session, load, loop, reply, bumped, lastKey, beat, caps, usage, modal,
                   flight, orphans, odd, refused, budget>>

(* What the panel shows of the sum spent. *)
Amount == IF srv.spend = 0 THEN "nothing" ELSE "something"

(* The resource of UsagePanel; a 401 is shown as text. *)
UsageAnswered ==
    /\ usage.asked /\ SignedIn /\ load.kind = "ready"
    /\ usage' = [asked |-> FALSE,
                 shown |-> IF Status("read") = "ok" THEN Amount ELSE "error"]
    /\ UNCHANGED <<srv, session, load, loop, reply, bumped, lastKey, beat, caps, feed, backlog,
                   modal, flight, orphans, odd, refused, budget>>

(***************************************************************************)
(* The controls.                                                            *)
(***************************************************************************)
awaits_input(status) == status = "idle"

(* The rows, and the workspace's own buttons; is_launchable is taken to hold. *)
Offered(op) ==
    \/ op \in controls_for(load.agent)
    \/ op = "end" /\ awaits_input(load.agent)
    \/ op = "launch"
    \/ op = "workspace" /\ caps.admin

needs_confirmation(op) == op # "respawn"

(* A control is pressed. What needs no confirmation is sent at once, its     *)
(* button disabled meanwhile.                                                *)
Press(op) ==
    /\ SignedIn /\ load.kind = "ready" /\ modal.kind = None
    /\ op \in budget.ops /\ Spent("presses") /\ Permits(session, Need(op)) /\ Offered(op)
    /\ modal' = [kind |-> op, busy |-> ~ needs_confirmation(op)]
    /\ flight' = IF needs_confirmation(op) THEN flight ELSE flight + 1
    /\ UNCHANGED <<srv, session, load, loop, reply, bumped, lastKey, beat, caps, feed, backlog,
                   usage, orphans, odd, refused>>

(* Cancel is disabled while busy; Escape and the scrim are not. *)
Dismiss ==
    /\ modal.kind \notin {None, "respawn"} /\ SignedIn /\ load.kind = "ready"
    /\ modal.busy => orphans < MaxOrphans
    /\ modal' = [kind |-> None, busy |-> FALSE]
    /\ orphans' = IF modal.busy THEN orphans + 1 ELSE orphans
    /\ UNCHANGED <<srv, session, load, loop, reply, bumped, lastKey, beat, caps, feed, backlog,
                   usage, flight, odd, refused, budget>>

(* Confirm, Launch or Save. Only the launch form asks the session again. *)
Submit ==
    /\ modal.kind # None /\ ~ modal.busy /\ SignedIn /\ load.kind = "ready"
    /\ modal.kind = "launch" => Permits(session, "operate")
    /\ modal' = [modal EXCEPT !.busy = TRUE] /\ flight' = flight + 1
    /\ UNCHANGED <<srv, session, load, loop, reply, bumped, lastKey, beat, caps, feed, backlog,
                   usage, orphans, odd, refused, budget>>

(* What the operation does to the agent. *)
Effect(op) == CASE op \in {"kill", "end"} -> "done" [] op = "remove" -> "gone"
                [] op = "respawn" -> "running" [] OTHER -> srv.agent

(* A confirmation closes either way, a form on success only. *)
ConfirmDone == [kind |-> None, busy |-> FALSE]
FormDone(done) == IF done THEN [kind |-> None, busy |-> FALSE] ELSE [modal EXCEPT !.busy = FALSE]

(* run_action, or the form's own handler: a refresh on success, the banner   *)
(* or the form's error otherwise, the sign-in form on a 401.                 *)
OpAnswered ==
    /\ modal.busy /\ SignedIn
    /\ LET answer == Status(Need(modal.kind))
           done == answer = "ok"
       IN  /\ srv' = IF done THEN [srv EXCEPT !.agent = Effect(modal.kind)] ELSE srv
           /\ backlog' = IF done /\ feed = "open" THEN backlog + 1 ELSE backlog
           /\ bumped' = (bumped \/ done)
           /\ session' = IF answer = "signed out" THEN "out" ELSE session
           /\ refused' = (refused \/ answer = "forbidden")
           /\ flight' = flight - 1
           /\ modal' = IF modal.kind \in {"launch", "workspace"} THEN FormDone(done)
                       ELSE ConfirmDone
    /\ UNCHANGED <<load, loop, reply, lastKey, beat, caps, feed, usage, orphans, odd, budget>>

(* A request whose dialog is gone: served or refused, and nobody is told. *)
OrphanServed ==
    /\ orphans > 0 /\ orphans' = orphans - 1 /\ flight' = flight - 1
    /\ \/ \E op \in budget.ops : srv' = [srv EXCEPT !.agent = Effect(op)] /\ Announced
       \/ UNCHANGED <<srv, backlog>>
    /\ UNCHANGED <<session, load, loop, reply, bumped, lastKey, beat, caps, feed, usage, modal,
                   odd, refused, budget>>

DashNext ==
    \/ FleetChanges \/ ServerFlips \/ SessionExpires
    \/ SessionFetched \/ SignIn \/ SignOut
    \/ PassStarts \/ FleetAnswered \/ FleetApplied \/ WorkspacesFetched \/ WaitEnds
    \/ RetryClicked \/ FeedOpens \/ FeedDelivers \/ FeedDrops \/ UsageAnswered
    \/ \E op \in Dialogs : Press(op)
    \/ Dismiss \/ Submit \/ OpAnswered \/ OrphanServed

(* The browser runs the page's timers and settles its requests; nothing is  *)
(* assumed of the fleet stream, the operator or the server.                 *)
DashFairness ==
    /\ WF_dashVars(SessionFetched) /\ WF_dashVars(PassStarts) /\ WF_dashVars(FleetAnswered)
    /\ WF_dashVars(FleetApplied) /\ WF_dashVars(WorkspacesFetched) /\ WF_dashVars(WaitEnds)
    /\ WF_dashVars(UsageAnswered)

(***************************************************************************)
(* Properties.                                                              *)
(***************************************************************************)
(* The state of the page has its type. *)
DashTypeOK ==
    /\ srv \in [up : BOOLEAN, agent : Statuses, spend : 0..1, scope : Scopes,
                cookie : {"off", "live", "dead"}]
    /\ session \in Scopes \cup {"checking", "out"}
    /\ load \in [kind : {"loading", "ready", "failed"}, agent : Statuses, stale : BOOLEAN]
    /\ loop \in {"gate", "fleet", "apply", "workspaces", "wait"}
    /\ beat \in 0..2 /\ feed \in {"gate", "open", "pause"} /\ backlog \in Nat
    /\ usage \in [asked : BOOLEAN, shown : {"loading", "error", "nothing", "something"}]
    /\ modal \in [kind : Dialogs, busy : BOOLEAN] /\ orphans \in Nat /\ flight \in Nat

(* The screen never goes blank on a hiccup: what replaces a snapshot is a    *)
(* newer one, the same one marked stale, or the sign-in form (main.rs:       *)
(* "A failed refresh must never blank a working screen").                    *)
LastGoodKept ==
    [][load.kind = "ready" /\ load'.kind # "ready" => session' = "out"]_dashVars

(* The page offers no operation the server then refuses for its scope, but  *)
(* in the two ways known: the page opened while the server was unreachable  *)
(* and took it for one without auth, or a dialog stayed open while the      *)
(* operator signed in again.                                                 *)
RefusedOnlyOddly == refused => odd # {}

(* One dialog has one request in flight: another only runs beside it when   *)
(* the operator dismissed the first while it was working.                    *)
OneRequestPerDialog == flight <= orphans + 1

(* However bumps and passes interleave, an undisturbed page ends up showing *)
(* the fleet as it is: a bump lost to a pass under way, or to a fleet stream *)
(* that is down, costs a poll interval and no more.                          *)
Settled == srv.up /\ SignedIn /\ srv.cookie # "dead"
ViewCatchesUp ==
    <>[]Settled => <>[](load = [kind |-> "ready", agent |-> srv.agent, stale |-> FALSE])

(* The usage panel ends up showing what was spent, on this replica or on    *)
(* another.                                                                  *)
UsageCatchesUp == <>[]Settled => <>[](usage.shown = Amount)

(* A session that has ended is noticed, and the page asks to sign in. *)
ExpiryNoticed == <>[](srv.up /\ srv.cookie = "dead") => <>[](~ SignedIn)

(* What the page offers and sends: nothing the server refuses its scope, one *)
(* request for each dialog (run_action, ConfirmDialog, ui.rs's scope checks). *)
DashSound == DashTypeOK /\ RefusedOnlyOddly /\ OneRequestPerDialog

(* What the page shows: never less than it last knew, and in the end the     *)
(* fleet, its usage and the state of the session as they are.                *)
PageKeepsUp == LastGoodKept /\ ViewCatchesUp /\ UsageCatchesUp /\ ExpiryNoticed

==============================================================================
