---------------------------- MODULE ServiceProofs ----------------------------
(***************************************************************************)
(* The safety of the server's face, one component after the other: the life *)
(* of the daemon process, a page of the dashboard, access to the API,       *)
(* delivery out of the durable store, the pane that follows an agent, the   *)
(* workspace form, and the times usage is counted by.                       *)
(***************************************************************************)
EXTENDS Daemon, Dashboard, Access, Delivery, StreamPane, WorkspaceForm, Usage,
        FiniteSetTheorems, SequenceTheorems, WellFoundedInduction, TLAPS

(* A set of numbers has a least one, and a bounded one a greatest.           *)
LEMMA OldestIs ==
    ASSUME NEW S, S \subseteq Nat, S # {}
    PROVE  Oldest(S) \in S /\ \A j \in S : Oldest(S) <= j
<1>. DEFINE Less == OpToRel(<, Nat)
<1>1. \A x, y \in Nat : x < y => <<x, y>> \in Less
  BY DEF OpToRel
<1>2. IsWellFoundedOn(Less, Nat)
  BY NatLessThanWellFounded
<1>. HIDE DEF Less
<1>3. PICK x \in S : \A y \in S : ~ (<<y, x>> \in Less)
  BY <1>2, WFMin
<1>4. ASSUME NEW j \in S PROVE x <= j
  <2>1. j \in Nat /\ x \in Nat /\ ~ (<<j, x>> \in Less)
    BY <1>3
  <2>2. ~ (j < x)
    BY <1>1, <2>1
  <2>. QED BY <2>1, <2>2
<1>. QED BY <1>4 DEF Oldest

LEMMA GreatestExists ==
    ASSUME NEW S, S \subseteq Nat, S # {}, NEW bound \in Nat, \A m \in S : m <= bound
    PROVE  \E n \in S : \A m \in S : m <= n
<1>. DEFINE U == {u \in Nat : \A m \in S : m <= u}
            u == Oldest(U)
<1>1. u \in U /\ \A j \in U : u <= j
  BY OldestIs
<1>. HIDE DEF u
<1>2. SUFFICES ASSUME u \notin S PROVE FALSE
  BY <1>1
<1>3. u \in Nat /\ \A m \in S : m \in Nat /\ m <= u /\ m # u
  BY <1>1, <1>2
<1>4. u - 1 \in Nat /\ \A m \in S : m <= u - 1
  <2>1. PICK m \in S : TRUE
    OBVIOUS
  <2>2. m \in Nat /\ m <= u /\ m # u
    BY <1>3, <2>1
  <2>3. u - 1 \in Nat
    BY <1>3, <2>2
  <2>4. ASSUME NEW k \in S PROVE k <= u - 1
    BY <1>3
  <2>. QED BY <2>3, <2>4
<1>5. ~ (u <= u - 1)
  BY <1>3
<1>. QED BY <1>1, <1>4, <1>5

(***************************************************************************)
(* The daemon.                                                              *)
(***************************************************************************)
DaemonSpec == DaemonInit /\ [][DaemonNext]_daemonVars

(* Before the backend is built there is no loop and no lease, and before the *)
(* store is opened nothing at all.                                          *)
StartsClean ==
    /\ phase \in {"start", "refused"} => made = {}
    /\ phase \in {"start", "store", "backend", "refused"} => poll = "off" /\ lease = 0

(* A cluster's poll loop has a heartbeat beside it, a lease that is held     *)
(* outlives the wait for the next beat, and the wait is at most an interval. *)
HeartbeatRenews ==
    /\ poll # "off" /\ Clusters /\ phase # "gone" => "heartbeat" \in made
    /\ due <= HeartbeatInterval
    /\ lease > 0 => poll # "off"
    /\ lease > 0 /\ Clusters /\ HeartbeatInterval < args.ttl => lease > due
    /\ poll = "cycle" /\ Clusters /\ HeartbeatInterval < args.ttl => lease > 0

(* What each stage of the drain waited for stays as it was found.            *)
DrainOrder ==
    /\ phase \in {"engine", "poll", "gone"} => requests = 0
    /\ phase \in {"poll", "gone"} => EngineFinished
    /\ phase = "gone" => poll \in {"off", "stopped"}

DaemonTypeOK ==
    /\ args \in Invocations
    /\ lease \in Nat /\ due \in Nat /\ requests \in Nat

DaemonInv == DaemonTypeOK /\ StartsClean /\ HeartbeatRenews /\ DrainOrder

LEMMA HeartbeatIntervalType ==
    ASSUME args \in Invocations
    PROVE  HeartbeatInterval \in Nat /\ args.ttl \in Nat \ {0}
<1>1. args.ttl \in Nat \ {0} /\ args.heartbeat \in Nat
  BY DaemonAssumption
<1>2. args.ttl \div 3 \in Nat
  BY <1>1
<1>. QED BY <1>1, <1>2 DEF HeartbeatInterval, Second

LEMMA DaemonInvInit == DaemonInit => DaemonInv
<1>. SUFFICES ASSUME DaemonInit PROVE DaemonInv
  OBVIOUS
<1>1. HeartbeatInterval \in Nat
  BY HeartbeatIntervalType DEF DaemonInit
<1>. QED
  BY <1>1 DEF DaemonInit, DaemonInv, DaemonTypeOK, StartsClean, HeartbeatRenews, DrainOrder

LEMMA DaemonInvStep == DaemonInv /\ [DaemonNext]_daemonVars => DaemonInv'
<1>. SUFFICES ASSUME DaemonInv, [DaemonNext]_daemonVars PROVE DaemonInv'
  OBVIOUS
<1>0. /\ DaemonTypeOK /\ StartsClean /\ HeartbeatRenews /\ DrainOrder
      /\ HeartbeatInterval \in Nat /\ args.ttl \in Nat \ {0}
  BY HeartbeatIntervalType DEF DaemonInv, DaemonTypeOK
<1>1. args' = args
  BY DEF DaemonNext, Check, OpenStore, BuildBackend, Bind, SignalEarly, RequestArrives,
         RequestAnswered, StreamOpens, StreamDropped, EngineStep, PollStep, Heartbeat,
         ClockTicks, Signal, Draining, CalibandHangs, CalibandEnds,
         HttpDrained, EngineAwaited, PollAwaited, daemonVars
<1>2. HeartbeatInterval' = HeartbeatInterval /\ Clusters' = Clusters /\ args'.ttl = args.ttl
  BY <1>1 DEF HeartbeatInterval, Clusters
<1>3. DaemonTypeOK'
  <2>1. \/ requests' \in {requests, requests + 1}
        \/ requests > 0 /\ requests' = requests - 1
    <3>1. CASE RequestAnswered
      <4>1. requests > 0
        BY <1>0, <3>1 DEF RequestAnswered, DaemonTypeOK
      <4>. QED BY <3>1, <4>1 DEF RequestAnswered
    <3>2. CASE DaemonNext /\ ~ RequestAnswered
      BY <3>2
      DEF DaemonNext, Check, OpenStore, BuildBackend, Bind, SignalEarly, RequestArrives,
          StreamOpens, StreamDropped, EngineStep, PollStep, Heartbeat, ClockTicks, Signal,
          Draining, CalibandHangs, CalibandEnds, HttpDrained, EngineAwaited, PollAwaited
    <3>. QED BY <3>1, <3>2 DEF daemonVars
  <2>2. \/ lease' \in {0, lease, args.ttl}
        \/ lease > 0 /\ lease' = lease - 1
    BY DEF DaemonNext, Check, OpenStore, BuildBackend, Bind, SignalEarly, RequestArrives,
             RequestAnswered, StreamOpens, StreamDropped, EngineStep, PollStep, Heartbeat,
             ClockTicks, Signal, Draining, CalibandHangs, CalibandEnds, HttpDrained,
             EngineAwaited, PollAwaited, daemonVars
  <2>3. \/ due' \in {0, due, HeartbeatInterval}
        \/ due > 0 /\ due' = due - 1
    BY DEF DaemonNext, Check, OpenStore, BuildBackend, Bind, SignalEarly, RequestArrives,
             RequestAnswered, StreamOpens, StreamDropped, EngineStep, PollStep, Heartbeat,
             ClockTicks, Signal, Draining, CalibandHangs, CalibandEnds, HttpDrained,
             EngineAwaited, PollAwaited, daemonVars
  <2>. QED BY <1>0, <1>1, <2>1, <2>2, <2>3 DEF DaemonTypeOK
<1>4. StartsClean'
  BY <1>0
  DEF StartsClean, DaemonNext, Check, OpenStore, BuildBackend, Bind, SignalEarly, Alive,
      RequestArrives, RequestAnswered, StreamOpens, StreamDropped, EngineStep, PollStep,
      Heartbeat, ClockTicks, Signal, Draining, CalibandHangs, CalibandEnds,
      HttpDrained, EngineAwaited, PollAwaited,
      daemonVars
<1>5. DrainOrder'
  BY <1>0
  DEF DrainOrder, EngineFinished, DaemonNext, Check, OpenStore, BuildBackend, Bind,
      SignalEarly, Alive, RequestArrives, RequestAnswered, StreamOpens, StreamDropped,
      EngineStep, PollStep, Heartbeat, ClockTicks, Signal, Draining, CalibandHangs, CalibandEnds, HttpDrained,
      EngineAwaited, PollAwaited, daemonVars
<1>6. HeartbeatRenews'
  <2>1. CASE /\ UNCHANGED <<poll, lease, due>>
             /\ poll # "off" => phase # "gone" \/ phase' = "gone"
             /\ "heartbeat" \in made => "heartbeat" \in made' \/ phase' = "gone"
    <3>1. poll' # "off" /\ Clusters' /\ phase' # "gone" => "heartbeat" \in made'
      BY <1>0, <1>2, <2>1 DEF HeartbeatRenews
    <3>2. poll = "cycle" /\ Clusters /\ HeartbeatInterval < args.ttl => lease > 0
      BY <1>0 DEF HeartbeatRenews
    <3>. QED BY <1>0, <1>2, <2>1, <3>1, <3>2 DEF HeartbeatRenews
  <2>2. CASE BuildBackend
    <3>1. /\ lease' = 0 /\ poll' # "cycle"
          /\ poll' # "off" /\ Clusters => "heartbeat" \in made'
          /\ due' = due \/ due' = 0
      BY <1>0, <2>2 DEF BuildBackend, StartsClean
    <3>. QED BY <1>0, <1>2, <3>1 DEF HeartbeatRenews, DaemonTypeOK
  <2>3. CASE PollStep
    <3>1. /\ poll # "off" /\ poll' # "off" /\ phase' = phase /\ made' = made /\ due' = due
          /\ poll' = "cycle" => lease' = IF Clusters /\ lease = 0 THEN args.ttl ELSE lease
          /\ lease' = lease \/ (lease = 0 /\ lease' = args.ttl)
      BY <2>3 DEF PollStep
    <3>2. due <= HeartbeatInterval /\ due \in Nat /\ lease \in Nat
      BY <1>0 DEF HeartbeatRenews, DaemonTypeOK
    <3>3. HeartbeatInterval < args.ttl /\ lease' = args.ttl => lease' > due
      BY <1>0, <3>2
    <3>. QED BY <1>0, <1>2, <3>1, <3>2, <3>3 DEF HeartbeatRenews
  <2>4. CASE Heartbeat
    <3>1. /\ poll' = poll /\ phase' = phase /\ made' = made /\ due' = HeartbeatInterval
          /\ lease' = IF lease > 0 THEN args.ttl ELSE 0
      BY <2>4 DEF Heartbeat
    <3>. QED BY <1>0, <1>2, <3>1 DEF HeartbeatRenews
  <2>5. CASE ClockTicks
    <3>1. /\ poll' = poll /\ phase' = phase /\ made' = made /\ lease > 0 /\ lease' = lease - 1
          /\ "heartbeat" \in made => due > 0
          /\ due' = (IF "heartbeat" \in made THEN due - 1 ELSE due) /\ phase # "gone"
      BY <2>5 DEF ClockTicks, Alive
    <3>2. due \in Nat /\ lease \in Nat /\ due' <= due
      BY <1>0, <3>1 DEF DaemonTypeOK
    <3>3. Clusters => due > 0 /\ due' = due - 1
      BY <1>0, <3>1 DEF HeartbeatRenews
    <3>4. lease' > 0 /\ Clusters /\ HeartbeatInterval < args.ttl => lease' > due'
      BY <1>0, <3>1, <3>2, <3>3 DEF HeartbeatRenews
    <3>5. Clusters /\ HeartbeatInterval < args.ttl => lease' > 0
      BY <1>0, <3>1, <3>2, <3>3 DEF HeartbeatRenews
    <3>. QED BY <1>0, <1>2, <3>1, <3>2, <3>4, <3>5 DEF HeartbeatRenews
  <2>. QED
    BY <1>0, <2>1, <2>2, <2>3, <2>4, <2>5
    DEF DaemonNext, Check, OpenStore, Bind, SignalEarly, RequestArrives, RequestAnswered,
        StreamOpens, StreamDropped, EngineStep, Alive, Signal, Draining, CalibandHangs, CalibandEnds, HttpDrained,
        EngineAwaited, PollAwaited, daemonVars
<1>. QED BY <1>3, <1>4, <1>5, <1>6 DEF DaemonInv

(***************************************************************************)
(* Of every command line: a refusal touches nothing, the lease outlasts the *)
(* poll cycle it protects up to the end of the drain, and main returns with *)
(* nothing half done (main, FleetManager::run, the heartbeat task).         *)
(***************************************************************************)
THEOREM DaemonSoundHolds == DaemonSpec => []DaemonSound
<1>1. DaemonInv => DaemonSound
  BY DEF DaemonInv, DaemonTypeOK, StartsClean, HeartbeatRenews, DrainOrder, DaemonSound,
         RefusedUntouched, LeaseOutlastsWork, LeavesNothingHalfDone, EngineFinished
<1>. QED BY <1>1, DaemonInvInit, DaemonInvStep, PTL DEF DaemonSpec

(***************************************************************************)
(* The dashboard.                                                           *)
(***************************************************************************)
DashSpec == DashInit /\ [][DashNext]_dashVars

(* A request in flight belongs to the dialog that is busy or to one dismissed. *)
RequestsOwned ==
    /\ flight = orphans + (IF modal.busy THEN 1 ELSE 0)
    /\ modal.kind = None => ~ modal.busy

(* A page is signed in with the scope its cookie has, unless it guessed: then *)
(* it takes the server for one without auth.                                 *)
SessionExact ==
    /\ srv.cookie = "off" <=> srv.scope = "off"
    /\ SignedIn => session = srv.scope \/ ("guessed" \in odd /\ session = "off")

(* A dialog on a page with nothing odd is one its operator's scope permits.  *)
DialogPermitted ==
    odd = {} /\ modal.kind # None => Rank(srv.scope) >= Rank(Need(modal.kind))

DashInv ==
    /\ DashTypeOK /\ RequestsOwned /\ SessionExact /\ DialogPermitted /\ RefusedOnlyOddly

LEMMA RankBounds == \A scope : Rank(scope) \in 1..3
  BY DEF Rank

LEMMA DashInvInit == DashInit => DashInv
<1>. SUFFICES ASSUME NEW d \in Desks,
                     /\ srv = [up |-> d.up, agent |-> "running", spend |-> 0, scope |-> d.scope,
                               cookie |-> IF d.scope = "off" THEN "off" ELSE "live"]
                     /\ session \in {"checking", "out"}
                     /\ load = [kind |-> "loading", agent |-> "gone", stale |-> FALSE]
                     /\ loop = "gate" /\ beat = 2 /\ feed = "gate" /\ backlog = 0
                     /\ usage = [asked |-> FALSE, shown |-> "loading"]
                     /\ modal = [kind |-> None, busy |-> FALSE]
                     /\ flight = 0 /\ orphans = 0 /\ odd = {} /\ refused = FALSE
              PROVE  DashInv
  BY DEF DashInit
<1>1. d.scope \in Scopes /\ d.up \in BOOLEAN
  BY DesksAssumption DEF Scopes
<1>2. DashTypeOK
  BY <1>1 DEF DashTypeOK, Statuses, Scopes, Dialogs, None
<1>3. RequestsOwned /\ SessionExact /\ DialogPermitted /\ RefusedOnlyOddly
  BY <1>1 DEF RequestsOwned, SessionExact, SignedIn, Scopes, DialogPermitted, RefusedOnlyOddly
<1>. QED BY <1>2, <1>3 DEF DashInv

(* Which steps write what.                                                   *)
LEMMA DashWriters ==
    ASSUME DashNext
    PROVE  /\ \/ FleetChanges \/ ServerFlips \/ SessionExpires \/ SignIn \/ SignOut
              \/ OpAnswered \/ OrphanServed \/ srv' = srv
           /\ \/ SessionFetched \/ SignIn \/ SignOut \/ FleetApplied \/ OpAnswered
              \/ session' = session
           /\ FleetApplied \/ RetryClicked \/ load' = load
           /\ \/ PassStarts \/ FleetAnswered \/ FleetApplied \/ WorkspacesFetched \/ WaitEnds
              \/ UNCHANGED <<loop, beat>>
           /\ \/ FleetChanges \/ FeedOpens \/ FeedDelivers \/ FeedDrops \/ OpAnswered
              \/ OrphanServed \/ UNCHANGED <<feed, backlog>>
           /\ \/ SignIn \/ FleetApplied \/ WorkspacesFetched \/ UsageAnswered
              \/ usage' = usage
           /\ \/ SignOut \/ FleetApplied \/ (\E op \in Dialogs : Press(op)) \/ Dismiss
              \/ Submit \/ OpAnswered \/ OrphanServed
              \/ UNCHANGED <<modal, orphans, flight>>
           /\ SessionFetched \/ SignIn \/ odd' = odd
           /\ SignIn \/ OpAnswered \/ refused' = refused
<1>. USE DEF DashNext, FleetChanges, ServerFlips, SessionExpires, SessionFetched, SignIn, SignOut,
             PassStarts, FleetAnswered, FleetApplied, WorkspacesFetched, WaitEnds, RetryClicked,
             FeedOpens, FeedDelivers, FeedDrops, UsageAnswered, Press, Dismiss, Submit,
             OpAnswered, OrphanServed
<1>1. \/ FleetChanges \/ ServerFlips \/ SessionExpires \/ SignIn \/ SignOut
      \/ OpAnswered \/ OrphanServed \/ srv' = srv
  BY Zenon
<1>2. \/ SessionFetched \/ SignIn \/ SignOut \/ FleetApplied \/ OpAnswered
      \/ session' = session
  BY Zenon
<1>3. FleetApplied \/ RetryClicked \/ load' = load
  BY Zenon
<1>4. \/ PassStarts \/ FleetAnswered \/ FleetApplied \/ WorkspacesFetched \/ WaitEnds
      \/ UNCHANGED <<loop, beat>>
  BY Zenon
<1>5. \/ FleetChanges \/ FeedOpens \/ FeedDelivers \/ FeedDrops \/ OpAnswered
      \/ OrphanServed \/ UNCHANGED <<feed, backlog>>
  <2>1. \/ FleetChanges \/ FeedOpens \/ FeedDelivers \/ FeedDrops \/ OpAnswered
        \/ OrphanServed \/ feed' = feed
    BY Zenon
  <2>2. \/ FleetChanges \/ FeedOpens \/ FeedDelivers \/ FeedDrops \/ OpAnswered
        \/ OrphanServed \/ backlog' = backlog
    BY Zenon
  <2>. QED BY <2>1, <2>2
<1>6. \/ SignIn \/ FleetApplied \/ WorkspacesFetched \/ UsageAnswered
      \/ usage' = usage
  BY Zenon
<1>7. \/ SignOut \/ FleetApplied \/ (\E op \in Dialogs : Press(op)) \/ Dismiss
      \/ Submit \/ OpAnswered \/ OrphanServed
      \/ UNCHANGED <<modal, orphans, flight>>
  BY Zenon
<1>8. SessionFetched \/ SignIn \/ odd' = odd
  BY Zenon
<1>9. SignIn \/ OpAnswered \/ refused' = refused
  BY Zenon
<1>. QED BY <1>1, <1>2, <1>3, <1>4, <1>5, <1>6, <1>7, <1>8, <1>9

(* What becomes of the dialog and its request.                               *)
PageGone ==
    /\ modal' \in {[kind |-> k, busy |-> FALSE] : k \in {None, modal.kind}}
    /\ orphans' = IF modal.busy THEN orphans + 1 ELSE orphans
    /\ flight' = flight

Opened(op, busy) ==
    /\ modal.kind = None /\ modal' = [kind |-> op, busy |-> busy]
    /\ busy => op # None
    /\ flight' = IF busy THEN flight + 1 ELSE flight
    /\ orphans' = orphans

Dismissed ==
    /\ modal' = [kind |-> None, busy |-> FALSE]
    /\ orphans' = IF modal.busy THEN orphans + 1 ELSE orphans
    /\ flight' = flight

Posted ==
    /\ ~ modal.busy /\ modal' = [modal EXCEPT !.busy = TRUE] /\ modal.kind # None
    /\ flight' = flight + 1 /\ orphans' = orphans

Answered ==
    /\ modal.busy /\ modal' \in {[kind |-> None, busy |-> FALSE], [modal EXCEPT !.busy = FALSE]}
    /\ flight' = flight - 1 /\ orphans' = orphans

OrphanEnds ==
    /\ orphans > 0 /\ orphans' = orphans - 1 /\ flight' = flight - 1 /\ modal' = modal

LEMMA DialogSteps ==
    ASSUME DashNext
    PROVE  \/ UNCHANGED <<modal, orphans, flight>>
           \/ PageGone \/ Dismissed \/ Posted \/ Answered \/ OrphanEnds
           \/ \E op \in Dialogs, busy \in BOOLEAN : Press(op) /\ Opened(op, busy)
<1>1. CASE SignOut \/ FleetApplied
  <2>1. /\ flight' = flight
        /\ \/ PageLeft
           \/ UNCHANGED <<modal, orphans>>
           \/ /\ modal' = IF ButtonGone THEN [kind |-> None, busy |-> FALSE] ELSE modal
              /\ orphans' = IF ButtonGone /\ modal.busy THEN orphans + 1 ELSE orphans
    BY <1>1, Zenon DEF SignOut, FleetApplied
  <2>. QED BY <2>1 DEF PageLeft, PageGone, Dismissed
<1>2. ASSUME NEW op \in Dialogs, Press(op)
      PROVE  \E busy \in BOOLEAN : Press(op) /\ Opened(op, busy)
  <2>1. /\ modal.kind = None /\ modal' = [kind |-> op, busy |-> ~ needs_confirmation(op)]
        /\ flight' = (IF needs_confirmation(op) THEN flight ELSE flight + 1)
        /\ orphans' = orphans
    BY <1>2, Zenon DEF Press
  <2>2. needs_confirmation(op) \in BOOLEAN /\ (~ needs_confirmation(op) => op # None)
    BY DEF needs_confirmation, None
  <2>. QED BY <1>2, <2>1, <2>2 DEF Opened
<1>3. CASE Dismiss
  BY <1>3, Zenon DEF Dismiss, Dismissed
<1>4. CASE Submit
  BY <1>4, Zenon DEF Submit, Posted
<1>5. CASE OpAnswered
  <2>1. /\ modal.busy /\ flight' = flight - 1 /\ orphans' = orphans
        /\ \/ modal' = ConfirmDone
           \/ \E done \in {TRUE, FALSE} : modal' = FormDone(done)
    BY <1>5, Zenon DEF OpAnswered
  <2>. QED BY <2>1 DEF Answered, ConfirmDone, FormDone
<1>6. CASE OrphanServed
  BY <1>6, Zenon DEF OrphanServed, OrphanEnds
<1>. QED BY <1>1, <1>2, <1>3, <1>4, <1>5, <1>6, DashWriters

(* What each step makes of the types.                                        *)
LEMMA DashTypeStep ==
    ASSUME DashInv, DashNext
    PROVE  DashTypeOK'
<1>. USE DEF Statuses, Scopes, Dialogs, None
<1>0. DashTypeOK /\ RequestsOwned
  BY DEF DashInv
<1>1. srv' \in [up : BOOLEAN, agent : Statuses, spend : 0..1, scope : Scopes,
                cookie : {"off", "live", "dead"}]
  <2>1. srv \in [up : BOOLEAN, agent : Statuses, spend : 0..1, scope : Scopes,
                 cookie : {"off", "live", "dead"}]
    BY <1>0 DEF DashTypeOK
  <2>2. CASE FleetChanges
    <3>1. \/ srv' = [srv EXCEPT !.spend = 1]
          \/ \E s \in Statuses :
                srv' = [srv EXCEPT !.agent = s, !.spend = IF s = "done" THEN 1 ELSE @]
      BY <2>2, Zenon DEF FleetChanges
    <3>2. srv.spend \in 0..1
      BY <2>1
    <3>3. ASSUME NEW s \in Statuses, NEW n \in 0..1, srv' = [srv EXCEPT !.agent = s, !.spend = n]
          PROVE  srv' \in [up : BOOLEAN, agent : Statuses, spend : 0..1, scope : Scopes,
                           cookie : {"off", "live", "dead"}]
      BY <2>1, <3>3
    <3>4. ASSUME NEW s \in Statuses,
                 srv' = [srv EXCEPT !.agent = s, !.spend = IF s = "done" THEN 1 ELSE @]
          PROVE  srv' \in [up : BOOLEAN, agent : Statuses, spend : 0..1, scope : Scopes,
                           cookie : {"off", "live", "dead"}]
      <4>1. (IF s = "done" THEN 1 ELSE srv.spend) \in 0..1
        BY <3>2
      <4>. QED BY <3>3, <3>4, <4>1
    <3>. QED BY <2>1, <3>1, <3>4
  <2>3. CASE ServerFlips \/ SessionExpires
    BY <2>1, <2>3 DEF ServerFlips, SessionExpires
  <2>4. CASE SignIn \/ SignOut
    BY <2>1, <2>4 DEF SignIn, SignOut
  <2>5. CASE OpAnswered \/ OrphanServed
    BY <2>1, <2>5 DEF OpAnswered, OrphanServed, Effect
  <2>. QED BY <2>1, <2>2, <2>3, <2>4, <2>5, DashWriters
<1>2. session' \in Scopes \cup {"checking", "out"}
  <2>1. session \in Scopes \cup {"checking", "out"} /\ srv.scope \in Scopes
    BY <1>0 DEF DashTypeOK
  <2>2. CASE SessionFetched
    BY <2>1, <2>2 DEF SessionFetched
  <2>3. CASE SignIn \/ SignOut
    BY <2>1, <2>3 DEF SignIn, SignOut
  <2>4. CASE FleetApplied \/ OpAnswered
    <3>1. session' = session \/ session' = "out"
      BY <2>4, Zenon DEF FleetApplied, OpAnswered
    <3>. QED BY <2>1, <3>1
  <2>. QED BY <2>1, <2>2, <2>3, <2>4, DashWriters
<1>3. load' \in [kind : {"loading", "ready", "failed"}, agent : Statuses, stale : BOOLEAN]
  <2>1. load \in [kind : {"loading", "ready", "failed"}, agent : Statuses, stale : BOOLEAN]
    BY <1>0 DEF DashTypeOK
  <2>2. CASE FleetApplied
    <3>1. \/ reply \in Statuses /\ load' = [kind |-> "ready", agent |-> reply, stale |-> FALSE]
          \/ load' = [kind |-> "loading", agent |-> load.agent, stale |-> FALSE]
          \/ load' = IF load.kind = "ready" THEN [load EXCEPT !.stale = TRUE]
                     ELSE [load EXCEPT !.kind = "failed"]
      BY <2>2, Zenon DEF FleetApplied
    <3>2. CASE reply \in Statuses /\ load' = [kind |-> "ready", agent |-> reply, stale |-> FALSE]
      BY <3>2
    <3>3. CASE load' = [kind |-> "loading", agent |-> load.agent, stale |-> FALSE]
      BY <2>1, <3>3
    <3>4. CASE load' = IF load.kind = "ready" THEN [load EXCEPT !.stale = TRUE]
                       ELSE [load EXCEPT !.kind = "failed"]
      BY <2>1, <3>4
    <3>. QED BY <3>1, <3>2, <3>3, <3>4
  <2>3. CASE RetryClicked
    BY <2>1, <2>3 DEF RetryClicked
  <2>. QED BY <2>1, <2>2, <2>3, DashWriters
<1>4. loop' \in {"gate", "fleet", "apply", "workspaces", "wait"} /\ beat' \in 0..2
  <2>1. loop \in {"gate", "fleet", "apply", "workspaces", "wait"} /\ beat \in 0..2
    BY <1>0 DEF DashTypeOK
  <2>2. CASE PassStarts \/ FleetAnswered \/ FleetApplied
    BY <2>1, <2>2 DEF PassStarts, FleetAnswered, FleetApplied
  <2>3. CASE WorkspacesFetched \/ WaitEnds
    BY <2>1, <2>3 DEF WorkspacesFetched, WaitEnds
  <2>. QED BY <2>1, <2>2, <2>3, DashWriters
<1>5. feed' \in {"gate", "open", "pause"} /\ backlog' \in Nat
  <2>1. feed \in {"gate", "open", "pause"} /\ backlog \in Nat
    BY <1>0 DEF DashTypeOK
  <2>2. CASE FleetChanges \/ OpAnswered \/ OrphanServed
    <3>1. feed' = feed /\ (backlog' = backlog \/ backlog' = backlog + 1)
      BY <2>2, Zenon DEF FleetChanges, OpAnswered, OrphanServed, Announced
    <3>. QED BY <2>1, <3>1
  <2>3. CASE FeedOpens \/ FeedDelivers \/ FeedDrops
    BY <2>1, <2>3 DEF FeedOpens, FeedDelivers, FeedDrops
  <2>. QED BY <2>1, <2>2, <2>3, DashWriters
<1>6. usage' \in [asked : BOOLEAN, shown : {"loading", "error", "nothing", "something"}]
  <2>1. usage \in [asked : BOOLEAN, shown : {"loading", "error", "nothing", "something"}]
    BY <1>0 DEF DashTypeOK
  <2>2. CASE SignIn \/ FleetApplied \/ WorkspacesFetched
    <3>1. \/ usage' = usage
          \/ usage' = [usage EXCEPT !.asked = TRUE]
          \/ usage' = [usage EXCEPT !.asked = @ \/ ActivityMoved \/ load.kind # "ready"]
      BY <2>2, Zenon DEF SignIn, FleetApplied, WorkspacesFetched
    <3>2. ASSUME NEW asked \in BOOLEAN, usage' = [usage EXCEPT !.asked = asked]
          PROVE  usage' \in [asked : BOOLEAN,
                             shown : {"loading", "error", "nothing", "something"}]
      BY <2>1, <3>2
    <3>3. (usage.asked \/ ActivityMoved \/ load.kind # "ready") \in BOOLEAN
      BY DEF ActivityMoved
    <3>. QED BY <2>1, <3>1, <3>2, <3>3
  <2>3. CASE UsageAnswered
    BY <2>3 DEF UsageAnswered, Amount
  <2>. QED BY <2>1, <2>2, <2>3, DashWriters
<1>7. modal' \in [kind : Dialogs, busy : BOOLEAN] /\ orphans' \in Nat /\ flight' \in Nat
  <2>1. modal \in [kind : Dialogs, busy : BOOLEAN] /\ orphans \in Nat /\ flight \in Nat
    BY <1>0 DEF DashTypeOK
  <2>2. flight = orphans + (IF modal.busy THEN 1 ELSE 0)
    BY <1>0 DEF RequestsOwned
  <2>3. CASE PageGone \/ Dismissed
    <3>1. orphans' \in Nat /\ flight' \in Nat
      BY <2>1, <2>3 DEF PageGone, Dismissed
    <3>2. PICK k \in {None, modal.kind} : modal' = [kind |-> k, busy |-> FALSE]
      BY <2>3 DEF PageGone, Dismissed
    <3>. QED BY <2>1, <3>1, <3>2
  <2>4. ASSUME NEW op \in Dialogs, NEW busy \in BOOLEAN, Opened(op, busy)
        PROVE  modal' \in [kind : Dialogs, busy : BOOLEAN] /\ orphans' \in Nat /\ flight' \in Nat
    BY <2>1, <2>4 DEF Opened
  <2>5. CASE Posted
    <3>1. modal' = [modal EXCEPT !.busy = TRUE] /\ flight' \in Nat /\ orphans' \in Nat
      BY <2>1, <2>5 DEF Posted
    <3>. QED BY <2>1, <3>1
  <2>6. CASE Answered
    <3>1. flight \in Nat \ {0}
      BY <2>1, <2>2, <2>6 DEF Answered
    <3>2. modal' = [kind |-> None, busy |-> FALSE] \/ modal' = [modal EXCEPT !.busy = FALSE]
      BY <2>6 DEF Answered
    <3>3. modal' \in [kind : Dialogs, busy : BOOLEAN]
      <4>1. CASE modal' = [kind |-> None, busy |-> FALSE]
        BY <4>1
      <4>2. CASE modal' = [modal EXCEPT !.busy = FALSE]
        BY <2>1, <4>2
      <4>. QED BY <3>2, <4>1, <4>2
    <3>. QED BY <2>1, <2>6, <3>1, <3>3 DEF Answered
  <2>7. CASE OrphanEnds
    BY <2>1, <2>2, <2>7 DEF OrphanEnds
  <2>. QED BY <2>1, <2>3, <2>4, <2>5, <2>6, <2>7, DialogSteps
<1>. QED BY <1>1, <1>2, <1>3, <1>4, <1>5, <1>6, <1>7 DEF DashTypeOK

(* The operator's credential: a step but SignIn keeps its scope, and leaves it *)
(* as it was or dead, the latter when there was one.                         *)
CredentialKept ==
    /\ srv'.scope = srv.scope
    /\ srv'.cookie = srv.cookie \/ (srv.cookie # "off" /\ srv'.cookie = "dead")

LEMMA CredentialSteps ==
    ASSUME DashInv, DashNext
    PROVE  SignIn \/ CredentialKept
<1>1. /\ srv \in [up : BOOLEAN, agent : Statuses, spend : 0..1, scope : Scopes,
                  cookie : {"off", "live", "dead"}]
      /\ SessionExact
  BY DEF DashInv, DashTypeOK
<1>2. CASE srv' = srv
  BY <1>2 DEF CredentialKept
<1>3. CASE FleetChanges
  BY <1>1, <1>3 DEF FleetChanges, CredentialKept
<1>4. CASE ServerFlips
  BY <1>1, <1>4 DEF ServerFlips, CredentialKept
<1>5. CASE SessionExpires
  BY <1>1, <1>5 DEF SessionExpires, CredentialKept
<1>6. CASE SignOut
  <2>1. srv.cookie # "off"
    BY <1>1, <1>6 DEF SignOut, SessionExact, SignedIn, Scopes
  <2>2. srv' = [srv EXCEPT !.cookie = IF srv.up THEN "dead" ELSE srv.cookie]
    BY <1>6, Zenon DEF SignOut
  <2>. QED BY <1>1, <2>1, <2>2 DEF CredentialKept
<1>7. CASE OpAnswered \/ OrphanServed
  <2>1. srv' = srv \/ \E op : srv' = [srv EXCEPT !.agent = Effect(op)]
    BY <1>7, Zenon DEF OpAnswered, OrphanServed
  <2>. QED BY <1>1, <2>1 DEF CredentialKept
<1>. QED BY <1>2, <1>3, <1>4, <1>5, <1>6, <1>7, DashWriters

(* A request stays owned: by the dialog that is busy or by one dismissed.    *)
LEMMA RequestsOwnedStep ==
    ASSUME DashInv, DashNext
    PROVE  RequestsOwned'
<1>1. /\ modal \in [kind : Dialogs, busy : BOOLEAN] /\ orphans \in Nat /\ flight \in Nat
      /\ RequestsOwned
  BY DEF DashInv, DashTypeOK
<1>2. CASE UNCHANGED <<modal, orphans, flight>>
  BY <1>1, <1>2 DEF RequestsOwned
<1>3. CASE PageGone \/ Dismissed
  <2>1. PICK k \in {None, modal.kind} : modal' = [kind |-> k, busy |-> FALSE]
    BY <1>3 DEF PageGone, Dismissed
  <2>2. orphans' = (IF modal.busy THEN orphans + 1 ELSE orphans) /\ flight' = flight
    BY <1>3 DEF PageGone, Dismissed
  <2>. QED BY <1>1, <2>1, <2>2 DEF RequestsOwned
<1>4. ASSUME NEW op \in Dialogs, NEW busy \in BOOLEAN, Opened(op, busy)
      PROVE  RequestsOwned'
  BY <1>1, <1>4 DEF RequestsOwned, Opened
<1>5. CASE Posted
  <2>1. modal'.kind # None /\ modal'.busy
    BY <1>1, <1>5 DEF Posted
  <2>. QED BY <1>1, <1>5, <2>1 DEF RequestsOwned, Posted
<1>6. CASE Answered
  <2>1. ~ modal'.busy
    <3>1. CASE modal' = [kind |-> None, busy |-> FALSE]
      BY <3>1
    <3>2. CASE modal' = [modal EXCEPT !.busy = FALSE]
      BY <1>1, <3>2
    <3>. QED BY <1>6, <3>1, <3>2 DEF Answered
  <2>. QED BY <1>1, <1>6, <2>1 DEF RequestsOwned, Answered
<1>7. CASE OrphanEnds
  BY <1>1, <1>7 DEF RequestsOwned, OrphanEnds
<1>. QED BY <1>2, <1>3, <1>4, <1>5, <1>6, <1>7, DialogSteps

(* The scope the page holds stays that of its cookie.                        *)
LEMMA SessionExactStep ==
    ASSUME DashInv, DashNext
    PROVE  SessionExact'
<1>. USE DEF Scopes
<1>1. /\ srv \in [up : BOOLEAN, agent : Statuses, spend : 0..1, scope : Scopes,
                  cookie : {"off", "live", "dead"}]
      /\ SessionExact
  BY DEF DashInv, DashTypeOK
<1>2. CASE SignIn
  <2>1. PICK scope \in {"read", srv.scope} :
            /\ srv' = [srv EXCEPT !.cookie = "live", !.scope = scope]
            /\ session' = scope
    BY <1>2, Zenon DEF SignIn
  <2>2. srv'.cookie = "live" /\ srv'.scope = scope
    BY <1>1, <2>1
  <2>3. srv.cookie # "off"
    BY <1>2, Zenon DEF SignIn
  <2>4. scope # "off"
    BY <1>1, <2>3 DEF SessionExact
  <2>. QED BY <2>1, <2>2, <2>4 DEF SessionExact
<1>3. CASE SessionFetched
  <2>1. srv' = srv
    BY <1>3, Zenon DEF SessionFetched
  <2>2. Status("read") # "forbidden"
    BY RankBounds DEF Status, Rank
  <2>3. SignedIn' => session' = srv'.scope \/ ("guessed" \in odd' /\ session' = "off")
    BY <1>1, <1>3, <2>1, <2>2 DEF SessionFetched, SessionExact, SignedIn, Status
  <2>. QED BY <1>1, <2>1, <2>3 DEF SessionExact
<1>4. CASE CredentialKept /\ odd' = odd /\ (session' = session \/ session' = "out")
  BY <1>1, <1>4 DEF SessionExact, CredentialKept, SignedIn
<1>5. SignIn \/ SessionFetched \/ session' = session \/ session' = "out"
  BY DashWriters, Zenon DEF SignOut, FleetApplied, OpAnswered
<1>. QED BY <1>2, <1>3, <1>4, <1>5, CredentialSteps, DashWriters

(* A dialog stays one that its operator's scope permits.                     *)
LEMMA DialogPermittedStep ==
    ASSUME DashInv, DashNext
    PROVE  DialogPermitted'
<1>. SUFFICES ASSUME odd' = {}, modal'.kind # None
              PROVE  Rank(srv'.scope) >= Rank(Need(modal'.kind))
  BY DEF DialogPermitted, Rank, Need
<1>1. /\ modal \in [kind : Dialogs, busy : BOOLEAN] /\ SessionExact /\ DialogPermitted
  BY DEF DashInv, DashTypeOK
<1>2. ~ SignIn
  <2>. SUFFICES ASSUME SignIn PROVE FALSE
    OBVIOUS
  <2>1. /\ modal' = modal
        /\ odd' = (odd \ {"guessed"}) \cup IF modal.kind # None THEN {"leftover"} ELSE {}
    BY Zenon DEF SignIn
  <2>. QED BY <2>1
<1>3. srv'.scope = srv.scope
  BY <1>2, CredentialSteps DEF CredentialKept
<1>4. odd = {}
  <2>1. CASE SessionFetched
    BY <2>1 DEF SessionFetched
  <2>. QED BY <1>2, <2>1, DashWriters
<1>5. CASE modal'.kind = modal.kind
  BY <1>1, <1>3, <1>4, <1>5 DEF DialogPermitted
<1>6. ASSUME NEW op \in Dialogs, Press(op)
      PROVE  Rank(srv'.scope) >= Rank(Need(modal'.kind))
  <2>1. /\ SignedIn /\ Permits(session, Need(op))
        /\ modal' = [kind |-> op, busy |-> ~ needs_confirmation(op)]
    BY <1>6, Zenon DEF Press
  <2>2. session = srv.scope
    BY <1>1, <1>4, <2>1 DEF SessionExact
  <2>. QED BY <1>3, <2>1, <2>2 DEF Permits
<1>7. (\E op \in Dialogs : Press(op)) \/ modal'.kind \in {None, modal.kind}
  <2>1. CASE UNCHANGED <<modal, orphans, flight>>
    BY <2>1
  <2>2. CASE PageGone \/ Dismissed
    BY <2>2 DEF PageGone, Dismissed
  <2>3. CASE Posted
    BY <1>1, <2>3 DEF Posted
  <2>4. CASE Answered
    BY <1>1, <2>4 DEF Answered
  <2>5. CASE OrphanEnds
    BY <2>5 DEF OrphanEnds
  <2>. QED BY <2>1, <2>2, <2>3, <2>4, <2>5, DialogSteps
<1>. QED BY <1>5, <1>6, <1>7

(* Only an odd page is refused.                                              *)
LEMMA RefusedStep ==
    ASSUME DashInv, DashNext
    PROVE  RefusedOnlyOddly'
<1>1. RequestsOwned /\ DialogPermitted /\ RefusedOnlyOddly
  BY DEF DashInv
<1>2. CASE SignIn
  <2>1. ~ refused'
    BY <1>2, Zenon DEF SignIn
  <2>. QED BY <2>1 DEF RefusedOnlyOddly
<1>3. CASE OpAnswered
  <2>1. /\ modal.busy /\ odd' = odd
        /\ refused' = (refused \/ Status(Need(modal.kind)) = "forbidden")
    BY <1>3, Zenon DEF OpAnswered
  <2>2. Status(Need(modal.kind)) = "forbidden" => Rank(srv.scope) < Rank(Need(modal.kind))
    BY DEF Status
  <2>3. modal.kind # None
    BY <1>1, <2>1 DEF RequestsOwned
  <2>4. Status(Need(modal.kind)) = "forbidden" => odd # {}
    <3>1. Rank(srv.scope) \in 1..3 /\ Rank(Need(modal.kind)) \in 1..3
      BY RankBounds
    <3>. QED BY <1>1, <2>2, <2>3, <3>1 DEF DialogPermitted
  <2>. QED BY <1>1, <2>1, <2>4 DEF RefusedOnlyOddly
<1>4. CASE refused' = refused /\ ~ SignIn
  <2>1. odd \subseteq odd'
    <3>1. CASE SessionFetched
      BY <3>1 DEF SessionFetched
    <3>. QED BY <1>4, <3>1, DashWriters
  <2>. QED BY <1>1, <1>4, <2>1 DEF RefusedOnlyOddly
<1>. QED BY <1>2, <1>3, <1>4, DashWriters

LEMMA DashInvStep == DashInv /\ [DashNext]_dashVars => DashInv'
<1>. SUFFICES ASSUME DashInv, [DashNext]_dashVars
              PROVE  DashInv'
  OBVIOUS
<1>1. CASE DashNext
  BY <1>1, DashTypeStep, RequestsOwnedStep, SessionExactStep, DialogPermittedStep, RefusedStep
  DEF DashInv
<1>2. CASE UNCHANGED dashVars
  BY <1>2
  DEF dashVars, DashInv, DashTypeOK, RequestsOwned, SessionExact, SignedIn, DialogPermitted,
      RefusedOnlyOddly
<1>. QED BY <1>1, <1>2

(* The page offers nothing that the server refuses its scope, but on a page   *)
(* that guessed the server had no auth or kept a dialog open over a sign-in,  *)
(* and a dialog never has two requests under way (ui.rs's scope checks,       *)
(* ConfirmDialog, run_action).                                               *)
THEOREM DashSoundHolds == DashSpec => []DashSound
<1>1. DashInv => DashSound
  <2>. SUFFICES ASSUME DashInv PROVE DashSound
    OBVIOUS
  <2>1. /\ orphans \in Nat /\ flight = orphans + (IF modal.busy THEN 1 ELSE 0)
        /\ DashTypeOK /\ RefusedOnlyOddly
    BY DEF DashInv, DashTypeOK, RequestsOwned
  <2>2. OneRequestPerDialog
    BY <2>1 DEF OneRequestPerDialog
  <2>. QED BY <2>1, <2>2 DEF DashSound
<1>. QED BY <1>1, DashInvInit, DashInvStep, PTL DEF DashSpec

(* The screen never goes blank on a hiccup: what replaces a snapshot is a      *)
(* newer one, the same one marked stale, or the sign-in form (main.rs).       *)
THEOREM LastGoodKeptHolds == DashSpec => LastGoodKept
<1>1. ASSUME DashTypeOK, [DashNext]_dashVars, load.kind = "ready", load'.kind # "ready"
      PROVE  session' = "out"
  <2>1. load' # load
    BY <1>1
  <2>2. DashNext
    BY <1>1, <2>1, Zenon DEF dashVars
  <2>3. FleetApplied \/ RetryClicked
    BY <2>1, <2>2, Zenon, DashWriters
  <2>4. ~ RetryClicked
    BY <1>1 DEF RetryClicked
  <2>5. FleetApplied
    BY <2>3, <2>4
  <2>6. \/ load'.kind = "ready" \/ session' = "out"
        \/ load' = [load EXCEPT !.stale = TRUE]
    <3>1. \/ load' = [kind |-> "ready", agent |-> reply, stale |-> FALSE]
          \/ session' = "out"
          \/ load' = IF load.kind = "ready" THEN [load EXCEPT !.stale = TRUE]
                     ELSE [load EXCEPT !.kind = "failed"]
      BY <2>5, Zenon DEF FleetApplied
    <3>. QED BY <1>1, <3>1
  <2>7. load \in [kind : {"loading", "ready", "failed"}, agent : Statuses, stale : BOOLEAN]
    BY <1>1 DEF DashTypeOK
  <2>. QED BY <1>1, <2>6, <2>7
<1>2. DashInv => DashTypeOK
  BY DEF DashInv
<1>. QED BY <1>1, <1>2, DashInvInit, DashInvStep, PTL DEF DashSpec, LastGoodKept


(***************************************************************************)
(* Access to the API.                                                       *)
(***************************************************************************)
AccessSpec == AccessInit /\ [][AccessNext]_accessVars

Trusted == {"trusted", "admin"}
Choosers == {"", "trusted", "read", "operate", "admin"}

(* A server holds the tokens of some version of the file, none without auth, *)
(* and in a cluster the key that all share.                                  *)
ServersOK ==
    /\ install \in Deployment
    /\ tokensFile \in TokenFiles
    /\ server \in [Servers -> [up : BOOLEAN, tokens : TokenFiles \cup {<<>>}, key : Nat]]
    /\ \A r \in Servers :
        /\ ~ install.auth => server[r].tokens = <<>>
        /\ ~ server[r].up => server[r].tokens = <<>>
        /\ server[r].up /\ install.auth /\ install.clustered => server[r].key = 1

(* A cookie is signed for the token it was traded for, until SessionTtl later. *)
JarOK ==
    /\ now \in Nat
    /\ \A c \in jar :
        /\ c.issued \in Nat /\ c.expires = c.issued + SessionTtl
        /\ \E key \in Nat : /\ c.mac = Mac(key, c.name, c.expires, c.hash)
                            /\ install.clustered => key = 1

(* Whoever chose that an agent, or the automation, runs unattended could.    *)
ChosenAgents == {a \in [posture : Postures, chosenBy : Choosers, live : BOOLEAN] :
                     a.posture = "unattended" => a.chosenBy \in Trusted}
PostureChosen ==
    /\ automation \in [exists : BOOLEAN, webhook : BOOLEAN, posture : Postures,
                       chosenBy : Choosers, enabled : BOOLEAN]
    /\ automation.posture = "unattended" => automation.chosenBy \in Trusted
    /\ agents \in Seq(ChosenAgents)

(* The history is a set of seqs, and the client has gone past what it tells. *)
ReaderOK ==
    /\ history \subseteq 1..MaxSeq
    /\ reader \in [from : Nat, got : SUBSET Nat, late : SUBSET Nat, told : SUBSET Nat,
                   done : BOOLEAN]
    /\ PagesTellAll

AccessInv == ServersOK /\ JarOK /\ PostureChosen /\ ReaderOK

LEMMA AccessInvInit == AccessInit => AccessInv
<1>. SUFFICES ASSUME AccessInit PROVE AccessInv
  OBVIOUS
<1>1. install \in Deployment
  BY AccessAssumption DEF AccessInit
<1>2. ServersOK
  BY <1>1 DEF AccessInit, ServersOK
<1>3. JarOK
  BY DEF AccessInit, JarOK
<1>4. automation = NoAutomation /\ agents = <<>>
  BY DEF AccessInit
<1>5. PostureChosen
  <2>1. automation \in [exists : BOOLEAN, webhook : BOOLEAN, posture : Postures,
                        chosenBy : Choosers, enabled : BOOLEAN]
        /\ automation.posture # "unattended"
    BY <1>4 DEF NoAutomation, Postures, Choosers
  <2>2. agents \in Seq(ChosenAgents)
    BY <1>4
  <2>. QED BY <2>1, <2>2 DEF PostureChosen
<1>6. /\ history = {}
      /\ reader = [from |-> 0, got |-> {}, late |-> {}, told |-> {}, done |-> FALSE]
  BY DEF AccessInit
<1>7. ReaderOK
  BY <1>6 DEF ReaderOK, PagesTellAll
<1>. QED BY <1>2, <1>3, <1>5, <1>7 DEF AccessInv

(* What a budget pays for leaves the deployment what it is.                  *)
Budgets == {"edits", "boots", "seconds", "signins", "spawns", "creations", "events", "sweeps"}
SameSite ==
    /\ install' \in Deployment
    /\ install'.auth = install.auth /\ install'.clustered = install.clustered
    /\ install'.keyFile = install.keyFile

LEMMA SpendKeeps ==
    ASSUME install \in Deployment, NEW what \in Budgets, Spend(what)
    PROVE  SameSite
<1>1. install[what] \in Nat /\ install[what] > 0 /\ install' = [install EXCEPT ![what] = @ - 1]
  BY DEF Spend, Budget, Deployment, Budgets
<1>2. install[what] - 1 \in Nat
  BY <1>1
<1>3. ASSUME NEW n \in Nat, install' = [install EXCEPT ![what] = n] PROVE SameSite
  BY <1>3 DEF SameSite, Deployment, Budgets
<1>. QED BY <1>1, <1>2, <1>3

LEMMA SiteKept ==
    ASSUME AccessInv, AccessNext
    PROVE  SameSite
<1>1. install \in Deployment
  BY DEF AccessInv, ServersOK
<1>2. CASE install' = install
  BY <1>1, <1>2 DEF SameSite
<1>3. CASE \E what \in Budgets : Spend(what)
  BY <1>1, <1>3, SpendKeeps
<1>4. install' = install \/ \E what \in Budgets : Spend(what)
  BY Zenon
  DEF AccessNext, EditTokensFile, SecondPasses, EventStored, HistoryPruned, StartServer, StopServer,
      SignInWith, ClearCookie, SpawnAgent, McpSpawn, RespawnAgent, EndAgent, CreateAutomation,
      DeleteAutomation, SetEnabled, RunAutomation, TriggerAutomation, ScheduleFires, ReadPage,
      Budgets
<1>. QED BY <1>2, <1>3, <1>4
(* Which steps write what.                                                   *)
LEMMA AccessWriters ==
    ASSUME AccessNext
    PROVE  /\ \/ server' = server
              \/ \E r \in Servers : StartServer(r) \/ StopServer(r)
           /\ EditTokensFile \/ tokensFile' = tokensFile
           /\ SecondPasses \/ now' = now
           /\ \/ jar' = jar
              \/ \E r \in Servers, t \in Hashes : SignInWith(r, t)
              \/ \E c \in jar : ClearCookie(c)
           /\ \/ automation' = automation
              \/ CreateAutomation \/ DeleteAutomation \/ SetEnabled
           /\ \/ agents' = agents \/ Fired \/ SpawnAgent \/ McpSpawn
              \/ \E i \in DOMAIN agents : RespawnAgent(i) \/ EndAgent(i)
           /\ \/ history' = history /\ reader' = reader
              \/ \E n \in 1..MaxSeq : EventStored(n)
              \/ \E kept \in SUBSET history : HistoryPruned(kept)
              \/ \E limit \in PageLimits \cup {EventsDefault} : ReadPage(limit)
<1>. USE DEF AccessNext, EditTokensFile, SecondPasses, EventStored, HistoryPruned, StartServer,
             StopServer, SignInWith, ClearCookie, SpawnAgent, McpSpawn, RespawnAgent, EndAgent,
             CreateAutomation, DeleteAutomation, SetEnabled, RunAutomation, TriggerAutomation,
             ScheduleFires, ReadPage, Elsewhere
<1>1. server' = server \/ \E r \in Servers : StartServer(r) \/ StopServer(r)
  BY Zenon
<1>2. EditTokensFile \/ tokensFile' = tokensFile
  BY Zenon
<1>3. SecondPasses \/ now' = now
  BY Zenon
<1>4. \/ jar' = jar
      \/ \E r \in Servers, t \in Hashes : SignInWith(r, t)
      \/ \E c \in jar : ClearCookie(c)
  BY Zenon
<1>5. \/ automation' = automation
      \/ CreateAutomation \/ DeleteAutomation \/ SetEnabled
  BY Zenon
<1>6. \/ agents' = agents \/ Fired \/ SpawnAgent \/ McpSpawn
      \/ \E i \in DOMAIN agents : RespawnAgent(i) \/ EndAgent(i)
  BY Zenon
<1>7. \/ history' = history /\ reader' = reader
      \/ \E n \in 1..MaxSeq : EventStored(n)
      \/ \E kept \in SUBSET history : HistoryPruned(kept)
      \/ \E limit \in PageLimits \cup {EventsDefault} : ReadPage(limit)
  BY Zenon
<1>. QED BY <1>1, <1>2, <1>3, <1>4, <1>5, <1>6, <1>7

LEMMA ServersOKStep ==
    ASSUME AccessInv, AccessNext
    PROVE  ServersOK'
<1>1. ServersOK /\ SameSite
  BY SiteKept DEF AccessInv
<1>2. tokensFile' \in TokenFiles
  BY <1>1, AccessWriters DEF ServersOK, EditTokensFile
<1>3. CASE server' = server
  BY <1>1, <1>2, <1>3 DEF ServersOK, SameSite
<1>4. ASSUME NEW r \in Servers, StartServer(r)
      PROVE  ServersOK'
  <2>1. /\ ~ install.auth \/ install.keyFile \/ ~ install.clustered
        /\ server' = [server EXCEPT ![r] =
               [up |-> TRUE, tokens |-> IF install.auth THEN tokensFile ELSE <<>>,
                key |-> SessionKey]]
    BY <1>4, Zenon DEF StartServer
  <2>2. SessionKey \in Nat /\ (install.keyFile => SessionKey = 1)
    BY <1>1 DEF ServersOK, Deployment, SessionKey
  <2>. QED BY <1>1, <1>2, <2>1, <2>2 DEF ServersOK, SameSite
<1>5. ASSUME NEW r \in Servers, StopServer(r)
      PROVE  ServersOK'
  BY <1>1, <1>2, <1>5 DEF ServersOK, SameSite, StopServer
<1>. QED BY <1>3, <1>4, <1>5, AccessWriters

LEMMA JarOKStep ==
    ASSUME AccessInv, AccessNext
    PROVE  JarOK'
<1>1. ServersOK /\ JarOK /\ SameSite
  BY SiteKept DEF AccessInv
<1>2. now' \in Nat
  BY <1>1, AccessWriters DEF JarOK, SecondPasses
<1>3. CASE jar' \subseteq jar
  BY <1>1, <1>2, <1>3 DEF JarOK, SameSite
<1>4. ASSUME NEW r \in Servers, NEW t \in Hashes, SignInWith(r, t)
      PROVE  JarOK'
  <2>1. PICK n \in Authenticate(r, t) : jar' = jar \cup {Sign(r, n, now + SessionTtl)}
    BY <1>4, Zenon DEF SignInWith
  <2>2. server[r].up /\ install.auth
    BY <1>4, Zenon DEF SignInWith
  <2>3. server[r].key \in Nat /\ (install.clustered => server[r].key = 1)
    BY <1>1, <2>2 DEF ServersOK
  <2>. DEFINE c == Sign(r, n, now + SessionTtl)
  <2>4. /\ c.issued \in Nat /\ c.expires = c.issued + SessionTtl
        /\ c.mac = Mac(server[r].key, c.name, c.expires, c.hash)
    BY <1>1 DEF Sign, JarOK
  <2>. HIDE DEF c
  <2>5. ASSUME NEW d \in jar'
        PROVE  /\ d.issued \in Nat /\ d.expires = d.issued + SessionTtl
               /\ \E key \in Nat : /\ d.mac = Mac(key, d.name, d.expires, d.hash)
                                   /\ install.clustered => key = 1
    <3>1. d = c \/ d \in jar
      BY <2>1 DEF c
    <3>. QED BY <1>1, <2>3, <2>4, <3>1 DEF JarOK
  <2>. QED BY <1>1, <1>2, <2>5 DEF JarOK, SameSite
<1>5. ASSUME NEW c \in jar, ClearCookie(c)
      PROVE  jar' \subseteq jar
  BY <1>5 DEF ClearCookie
<1>. QED BY <1>3, <1>4, <1>5, AccessWriters

(* A caller a handler is told of is someone, and an administrator where the  *)
(* route asks for one.                                                       *)
LEMMA CallersAre ==
    ASSUME ServersOK, NEW method, NEW route, NEW caller \in Callers(method, route)
    PROVE  /\ caller \in Choosers
           /\ RequiredAccess(method, route) = "admin" => caller \in Trusted
<1>1. PICK r \in {s \in Servers : server[s].up} :
          caller \in UNION {CallersIn(r, req) :
              req \in {q \in Requests : Verdict(r, method, route, q) = "admitted"}}
  BY Zenon DEF Callers
<1>2. PICK req \in Requests :
          Verdict(r, method, route, req) = "admitted" /\ caller \in CallersIn(r, req)
  BY <1>1
<1>3. CASE ~ install.auth
  BY <1>2, <1>3 DEF CallersIn, Choosers, Trusted
<1>4. CASE install.auth
  <2>1. PICK p \in ResolvePrincipal(r, req) : caller = p.scope
    BY <1>2, <1>4 DEF CallersIn
  <2>2. PICK n \in DOMAIN server[r].tokens : caller = server[r].tokens[n].scope
    BY <2>1 DEF ResolvePrincipal, Authenticate, Verified
  <2>3. r \in Servers /\ server[r].tokens \in TokenFiles
    BY <1>1, <2>2 DEF ServersOK
  <2>4. caller \in DOMAIN ScopeRank
    BY <2>2, <2>3, AccessAssumption
  <2>5. CASE RequiredAccess(method, route) = "admin"
    <3>1. ~ \E x \in ResolvePrincipal(r, req) :
              ScopeRank[x.scope] < ScopeRank[RequiredAccess(method, route)]
      <4>. SUFFICES ASSUME NEW x \in ResolvePrincipal(r, req),
                           ScopeRank[x.scope] < ScopeRank[RequiredAccess(method, route)]
                    PROVE  Verdict(r, method, route, req) # "admitted"
        BY <1>2
      <4>1. RequiredAccess(method, route) # "open" /\ ResolvePrincipal(r, req) # {}
        BY <2>5
      <4>2. Verdict(r, method, route, req) = "forbidden"
        BY <1>4, <4>1 DEF Verdict
      <4>. QED BY <4>2
    <3>2. ~ (ScopeRank[caller] < ScopeRank["admin"])
      BY <2>1, <2>5, <3>1
    <3>3. caller = "admin"
      BY <2>4, <3>2 DEF ScopeRank
    <3>. QED BY <3>3 DEF Trusted, Choosers
  <2>. QED BY <2>4, <2>5 DEF ScopeRank, Choosers
<1>. QED BY <1>3, <1>4

LEMMA PostureChosenStep ==
    ASSUME AccessInv, AccessNext
    PROVE  PostureChosen'
<1>1. /\ automation \in [exists : BOOLEAN, webhook : BOOLEAN, posture : Postures,
                         chosenBy : Choosers, enabled : BOOLEAN]
      /\ automation.posture = "unattended" => automation.chosenBy \in Trusted
      /\ agents \in Seq(ChosenAgents) /\ ServersOK
  BY DEF AccessInv, PostureChosen
<1>2. /\ automation' \in [exists : BOOLEAN, webhook : BOOLEAN, posture : Postures,
                          chosenBy : Choosers, enabled : BOOLEAN]
      /\ automation'.posture = "unattended" => automation'.chosenBy \in Trusted
  <2>1. CASE automation' = automation
    BY <1>1, <2>1
  <2>2. CASE CreateAutomation
    <3>1. PICK caller \in Callers("POST", "/api/automations"), posture \in Postures,
               webhook \in BOOLEAN :
              automation' = [exists |-> TRUE, webhook |-> webhook, posture |-> posture,
                             chosenBy |-> caller, enabled |-> TRUE]
      BY <2>2, Zenon DEF CreateAutomation
    <3>2. RequiredAccess("POST", "/api/automations") = "admin"
      BY DEF RequiredAccess, OpenRoutes, ReadRoutes, OperateRoutes, Reads
    <3>3. caller \in Choosers /\ caller \in Trusted
      BY <1>1, <3>2, CallersAre
    <3>. QED BY <3>1, <3>3
  <2>3. CASE DeleteAutomation
    BY <2>3 DEF DeleteAutomation, NoAutomation, Postures, Choosers
  <2>4. CASE SetEnabled
    BY <1>1, <2>4 DEF SetEnabled
  <2>. QED BY <2>1, <2>2, <2>3, <2>4, AccessWriters
<1>3. agents' \in Seq(ChosenAgents)
  <2>1. CASE agents' = agents
    BY <1>1, <2>1
  <2>2. ASSUME NEW posture \in Postures, NEW caller \in Choosers,
               posture = "unattended" => caller \in Trusted,
               agents' = Spawned(posture, caller)
        PROVE  agents' \in Seq(ChosenAgents)
    <3>1. [posture |-> posture, chosenBy |-> caller, live |-> TRUE] \in ChosenAgents
      BY <2>2 DEF ChosenAgents
    <3>. QED BY <1>1, <2>2, <3>1, AppendProperties DEF Spawned
  <2>3. CASE Fired
    BY <1>1, <2>2, <2>3 DEF Fired
  <2>4. CASE SpawnAgent
    <3>1. PICK caller \in Callers("POST", "/api/workspaces/{workspace}/agents"),
               posture \in Postures :
              MaySpawn(caller, posture) /\ agents' = Spawned(posture, caller)
      BY <2>4, Zenon DEF SpawnAgent
    <3>2. caller \in Choosers
      BY <1>1, CallersAre
    <3>. QED BY <2>2, <3>1, <3>2 DEF MaySpawn, Trusted
  <2>5. CASE McpSpawn
    <3>1. PICK caller \in Callers("POST", "/mcp") : agents' = Spawned("supervised", caller)
      BY <2>5, Zenon DEF McpSpawn
    <3>2. caller \in Choosers
      BY <1>1, CallersAre
    <3>. QED BY <2>2, <3>1, <3>2 DEF Postures
  <2>6. ASSUME NEW i \in DOMAIN agents
        PROVE  /\ [agents EXCEPT ![i].live = FALSE] \in Seq(ChosenAgents)
               /\ [agents[i] EXCEPT !.live = TRUE] \in ChosenAgents
    <3>1. i \in 1..Len(agents) /\ agents[i] \in ChosenAgents
      BY <1>1, LenProperties, ElementOfSeq
    <3>. DEFINE e == [agents[i] EXCEPT !.live = FALSE]
    <3>2. e \in ChosenAgents /\ [agents[i] EXCEPT !.live = TRUE] \in ChosenAgents
      BY <3>1 DEF ChosenAgents
    <3>3. [agents EXCEPT ![i].live = FALSE] = [agents EXCEPT ![i] = e]
      OBVIOUS
    <3>. HIDE DEF e
    <3>. QED BY <1>1, <3>1, <3>2, <3>3, ExceptSeq
  <2>7. ASSUME NEW i \in DOMAIN agents, RespawnAgent(i)
        PROVE  agents' \in Seq(ChosenAgents)
    <3>1. agents' = Append([agents EXCEPT ![i].live = FALSE], [agents[i] EXCEPT !.live = TRUE])
      BY <2>7, Zenon DEF RespawnAgent
    <3>. QED BY <2>6, <3>1, AppendProperties
  <2>8. ASSUME NEW i \in DOMAIN agents, EndAgent(i)
        PROVE  agents' \in Seq(ChosenAgents)
    <3>1. agents' = [agents EXCEPT ![i].live = FALSE]
      BY <2>8, Zenon DEF EndAgent
    <3>. QED BY <2>6, <3>1
  <2>. QED BY <2>1, <2>3, <2>4, <2>5, <2>7, <2>8, AccessWriters
<1>. QED BY <1>2, <1>3 DEF PostureChosen

(* A page is a beginning of what there is, all of it where that fits.        *)
LEMMA PageIs ==
    ASSUME NEW events \in SUBSET (1..MaxSeq), NEW size \in Nat
    PROVE  LET page == Page(events, size)
           IN  /\ page \subseteq events
               /\ page # {} => /\ NextFrom(page) \in Nat
                               /\ \A n \in page : n < NextFrom(page)
                               /\ \A n \in events : n < NextFrom(page) => n \in page
               /\ ~ (Cardinality(events) > size) => page = events
<1>. DEFINE page == Page(events, size)
            upTo(n) == {m \in events : m <= n}
<1>0. MaxSeq \in Nat /\ events \subseteq Nat
  BY AccessAssumption
<1>1. IsFiniteSet(events) /\ Cardinality(events) \in Nat
  <2>1. \A n \in events : n <= MaxSeq
    BY <1>0
  <2>2. IsFiniteSet(events)
    BY <1>0, <2>1, FS_BoundedSetOfNaturals
  <2>. QED BY <2>2, FS_CardinalityType
<1>2. ASSUME NEW n, NEW k, upTo(n) \subseteq upTo(k)
      PROVE  /\ Cardinality(upTo(n)) \in Nat /\ Cardinality(upTo(k)) \in Nat
             /\ Cardinality(upTo(n)) <= Cardinality(upTo(k))
             /\ Cardinality(upTo(n)) <= Cardinality(events)
  <2>1. upTo(n) \subseteq events /\ upTo(k) \subseteq events
    OBVIOUS
  <2>. HIDE DEF upTo
  <2>2. IsFiniteSet(upTo(n)) /\ IsFiniteSet(upTo(k))
    BY <1>1, <2>1, FS_Subset
  <2>. QED BY <1>1, <1>2, <2>1, <2>2, FS_Subset, FS_CardinalityType
<1>3. page \subseteq events /\ \A n \in events : n \in page <=> Cardinality(upTo(n)) <= size
  BY DEF Page
<1>. HIDE DEF page
<1>4. ASSUME page # {}
      PROVE  /\ NextFrom(page) \in Nat
             /\ \A n \in page : n < NextFrom(page)
             /\ \A n \in events : n < NextFrom(page) => n \in page
  <2>. DEFINE top == CHOOSE n \in page : \A m \in page : m <= n
  <2>1. page \subseteq Nat /\ \A m \in page : m <= MaxSeq
    BY <1>0, <1>3
  <2>2. top \in page /\ \A m \in page : m <= top
    <3>1. \E n \in page : \A m \in page : m <= n
      BY <1>0, <1>4, <2>1, GreatestExists
    <3>. QED BY <3>1, Zenon
  <2>3. NextFrom(page) = top + 1
    BY DEF NextFrom
  <2>. HIDE DEF top
  <2>4. ASSUME NEW n \in events, n < top + 1 PROVE n \in page
    <3>1. n \in Nat /\ top \in Nat /\ n <= top
      BY <1>0, <2>1, <2>2, <2>4
    <3>2. upTo(n) \subseteq upTo(top)
      <4>1. ASSUME NEW m \in upTo(n) PROVE m \in upTo(top)
        <5>1. m \in events /\ m \in Nat /\ m <= n
          BY <1>0
        <5>2. m <= top
          BY <3>1, <5>1
        <5>. QED BY <5>1, <5>2
      <4>. HIDE DEF upTo
      <4>. QED BY <4>1
    <3>3. /\ Cardinality(upTo(n)) \in Nat /\ Cardinality(upTo(top)) \in Nat
          /\ Cardinality(upTo(n)) <= Cardinality(upTo(top))
      BY <1>2, <3>2
    <3>4. Cardinality(upTo(top)) <= size
      BY <1>3, <2>2
    <3>. HIDE DEF upTo
    <3>. QED BY <1>3, <3>3, <3>4
  <2>. QED BY <2>1, <2>2, <2>3, <2>4
<1>5. ASSUME ~ (Cardinality(events) > size) PROVE page = events
  <2>1. ASSUME NEW n \in events PROVE n \in page
    <3>1. /\ Cardinality(upTo(n)) \in Nat
          /\ Cardinality(upTo(n)) <= Cardinality(events)
      BY <1>2
    <3>. HIDE DEF upTo
    <3>. QED BY <1>1, <1>3, <1>5, <3>1
  <2>. QED BY <1>3, <2>1
<1>. QED BY <1>3, <1>4, <1>5 DEF page

(* The pages, whatever is stored, pruned or asked for between them.          *)
LEMMA ReaderOKStep ==
    ASSUME AccessInv, AccessNext
    PROVE  ReaderOK'
<1>1. /\ history \subseteq 1..MaxSeq
      /\ reader \in [from : Nat, got : SUBSET Nat, late : SUBSET Nat, told : SUBSET Nat,
                     done : BOOLEAN]
      /\ PagesTellAll /\ MaxSeq \in Nat
  BY AccessAssumption DEF AccessInv, ReaderOK
<1>2. CASE history' = history /\ reader' = reader
  BY <1>1, <1>2 DEF ReaderOK, PagesTellAll
<1>3. ASSUME NEW n \in 1..MaxSeq, EventStored(n)
      PROVE  ReaderOK'
  <2>1. /\ history' = history \cup {n}
        /\ reader' = IF n < reader.from THEN [reader EXCEPT !.late = @ \cup {n}] ELSE reader
    BY <1>3 DEF EventStored
  <2>2. /\ reader' \in [from : Nat, got : SUBSET Nat, late : SUBSET Nat, told : SUBSET Nat,
                        done : BOOLEAN]
        /\ reader'.from = reader.from /\ reader'.got = reader.got
        /\ reader'.told = reader.told /\ reader'.done = reader.done
        /\ reader.late \subseteq reader'.late /\ (n < reader.from => n \in reader'.late)
    BY <1>1, <2>1
  <2>3. history' \subseteq 1..MaxSeq
    BY <1>1, <2>1
  <2>4. PagesTellAll'
    BY <1>1, <2>1, <2>2 DEF PagesTellAll
  <2>. QED BY <2>2, <2>3, <2>4 DEF ReaderOK
<1>4. ASSUME NEW kept \in SUBSET history, HistoryPruned(kept)
      PROVE  ReaderOK'
  <2>1. history' = kept /\ reader' = reader
    BY <1>4 DEF HistoryPruned
  <2>. QED BY <1>1, <2>1 DEF ReaderOK, PagesTellAll
<1>5. ASSUME NEW limit \in PageLimits \cup {EventsDefault}, ReadPage(limit)
      PROVE  ReaderOK'
  <2>. DEFINE events == {n \in history : n >= reader.from}
              size == PageSize(limit)
              page == Page(events, size)
              next == IF page = {} THEN reader.from ELSE NextFrom(page)
              over == ~ (Cardinality(events) > size)
  <2>1. /\ history' = history
        /\ reader' = [from |-> next, got |-> reader.got \cup page, late |-> reader.late,
                      told |-> history, done |-> over]
    BY <1>5, Zenon DEF ReadPage
  <2>2. events \subseteq history /\ events \in SUBSET (1..MaxSeq) /\ events \subseteq Nat
        /\ history \subseteq Nat
    <3>1. history \subseteq Nat
      BY <1>1
    <3>2. events \subseteq history
      OBVIOUS
    <3>. HIDE DEF events
    <3>. QED BY <1>1, <3>1, <3>2
  <2>3. \A n \in history : n \in events \/ n < reader.from
    BY <1>1, <2>2
  <2>4. \A n \in events : n >= reader.from
    OBVIOUS
  <2>5. size \in Nat
    BY AccessAssumption DEF PageSize, Lesser
  <2>6. /\ page \subseteq events
        /\ page # {} => /\ NextFrom(page) \in Nat
                        /\ \A n \in page : n < NextFrom(page)
                        /\ \A n \in events : n < NextFrom(page) => n \in page
        /\ over => page = events
    <3>. HIDE DEF events, size
    <3>. QED BY <2>2, <2>5, PageIs
  <2>. HIDE DEF events, page, size, over
  <2>7. /\ next \in Nat /\ reader.from <= next
        /\ \A n \in page : n < next
        /\ \A n \in events : n < next => n \in page
    <3>1. CASE page = {}
      BY <1>1, <2>2, <2>4, <3>1
    <3>2. CASE page # {}
      <4>1. PICK n \in page : n \in events
        BY <2>6, <3>2
      <4>2. next = NextFrom(page)
        BY <3>2
      <4>. QED BY <1>1, <2>2, <2>4, <2>6, <3>2, <4>1, <4>2
    <3>. QED BY <3>1, <3>2
  <2>. HIDE DEF next
  <2>8. reader' \in [from : Nat, got : SUBSET Nat, late : SUBSET Nat, told : SUBSET Nat,
                     done : BOOLEAN]
    BY <1>1, <2>1, <2>2, <2>6, <2>7 DEF over
  <2>9. /\ reader'.from = next /\ reader'.got = reader.got \cup page
        /\ reader'.late = reader.late /\ reader'.told = history /\ reader'.done = over
    BY <2>1
  <2>10. \A n \in reader'.got : n < reader'.from
    BY <1>1, <2>7, <2>9 DEF PagesTellAll
  <2>11. \A n \in history : n < next => n \in reader'.got \cup reader'.late
    BY <1>1, <2>3, <2>7, <2>9 DEF PagesTellAll
  <2>12. over => history \subseteq reader'.got \cup reader'.late
    BY <1>1, <2>3, <2>6, <2>9 DEF PagesTellAll
  <2>13. PagesTellAll'
    BY <2>1, <2>9, <2>10, <2>11, <2>12 DEF PagesTellAll
  <2>. QED BY <1>1, <2>1, <2>8, <2>13 DEF ReaderOK
<1>. QED BY <1>2, <1>3, <1>4, <1>5, AccessWriters

LEMMA AccessInvStep == AccessInv /\ [AccessNext]_accessVars => AccessInv'
<1>. SUFFICES ASSUME AccessInv, [AccessNext]_accessVars
              PROVE  AccessInv'
  OBVIOUS
<1>1. CASE AccessNext
  BY <1>1, ServersOKStep, JarOKStep, PostureChosenStep, ReaderOKStep DEF AccessInv
<1>2. CASE UNCHANGED accessVars
  BY <1>2
  DEF accessVars, AccessInv, ServersOK, JarOK, PostureChosen, ReaderOK, PagesTellAll
<1>. QED BY <1>1, <1>2

(* What the invariant says of credentials.                                   *)
LEMMA CredentialsAreGood == AccessInv => CredentialsEnd
<1>. SUFFICES ASSUME AccessInv, NEW r \in Servers, NEW req \in Requests,
                     ResolvePrincipal(r, req) # {}
              PROVE  /\ req.bearer # NoToken =>
                            \E n \in DOMAIN server[r].tokens : server[r].tokens[n].hash = req.bearer
                     /\ req.bearer = NoToken =>
                            /\ now < req.cookie.issued + SessionTtl
                            /\ \E n \in DOMAIN server[r].tokens :
                                   n = req.cookie.name /\ server[r].tokens[n].hash = req.cookie.hash
  BY DEF CredentialsEnd
<1>1. CASE req.bearer # NoToken
  BY <1>1 DEF ResolvePrincipal, Authenticate
<1>2. CASE req.bearer = NoToken
  <2>. DEFINE c == req.cookie
  <2>1. c # NoCookie /\ Verified(r, c)
    BY <1>2 DEF ResolvePrincipal
  <2>2. c \in jar
    BY <2>1 DEF Requests, Request
  <2>. HIDE DEF c
  <2>3. PICK key \in Nat : c.mac = Mac(key, c.name, c.expires, c.hash)
    BY <2>2 DEF AccessInv, JarOK
  <2>4. c.expires = c.issued + SessionTtl /\ c.issued \in Nat /\ now \in Nat
    BY <2>2 DEF AccessInv, JarOK
  <2>5. server[r].tokens[c.name].hash = c.hash
    BY <2>1, <2>3 DEF Verified, Mac
  <2>6. now < c.issued + SessionTtl
    BY <2>1, <2>4, AccessAssumption DEF Verified
  <2>. QED BY <1>2, <2>1, <2>5, <2>6 DEF Verified, c
<1>. QED BY <1>1, <1>2

LEMMA SessionsDoTravel == AccessInv => SessionsTravel
<1>. SUFFICES ASSUME AccessInv, install.clustered, NEW r \in Servers, NEW c \in jar,
                     server[r].up, now < c.expires, c.name \in DOMAIN server[r].tokens,
                     server[r].tokens[c.name].hash = c.hash
              PROVE  ResolvePrincipal(r, Request(NoToken, c, "own")) # {}
  BY DEF SessionsTravel
<1>1. c.mac = Mac(1, c.name, c.expires, c.hash) /\ c.expires \in Nat \ {0} /\ now \in Nat
  BY AccessAssumption DEF AccessInv, JarOK
<1>2. server[r].tokens # <<>>
  OBVIOUS
<1>3. server[r].key = 1
  BY <1>2 DEF AccessInv, ServersOK
<1>4. Verified(r, c)
  BY <1>1, <1>3 DEF Verified
<1>5. c # NoCookie
  <2>1. NoCookie.expires = 0 /\ c.expires # 0
    BY <1>1 DEF NoCookie
  <2>. QED BY <2>1
<1>. QED BY <1>4, <1>5 DEF ResolvePrincipal, Request

(* What a token's bearer is answered.                                        *)
LEMMA BearerAdmitted ==
    ASSUME AccessInv, NEW r \in Servers, NEW h \in Hashes, NEW n \in Authenticate(r, h),
           NEW method, NEW route, RequiredAccess(method, route) \in {"open"} \cup DOMAIN ScopeRank
    PROVE  (Verdict(r, method, route, Request(h, NoCookie, "foreign")) = "admitted")
           <=> \/ RequiredAccess(method, route) = "open"
               \/ ScopeRank[server[r].tokens[n].scope] >= ScopeRank[RequiredAccess(method, route)]
<1>. DEFINE req == Request(h, NoCookie, "foreign")
            need == RequiredAccess(method, route)
            tokens == server[r].tokens
<1>1. n \in DOMAIN tokens /\ tokens[n].hash = h
  BY DEF Authenticate
<1>2. tokens \in TokenFiles /\ install.auth
  BY <1>1 DEF AccessInv, ServersOK
<1>3. /\ tokens[n] \in [line : Nat, scope : DOMAIN ScopeRank, hash : Nat \ {NoToken}]
      /\ \A m \in DOMAIN tokens :
            /\ tokens[m].line \in Nat
            /\ tokens[m].line = tokens[n].line => m = n
  BY <1>1, <1>2, AccessAssumption
<1>4. Authenticate(r, h) = {n}
  BY <1>1, <1>3 DEF Authenticate
<1>5. ResolvePrincipal(r, req) = {[name |-> n, scope |-> tokens[n].scope, via |-> "bearer"]}
  <2>1. req.bearer = h /\ h # NoToken
    BY <1>1, <1>3 DEF Request
  <2>. QED BY <1>4, <2>1 DEF ResolvePrincipal
<1>6. tokens[n].scope \in DOMAIN ScopeRank
  BY <1>3
<1>. HIDE DEF req, tokens, need
<1>7. need \in {"open"} \cup DOMAIN ScopeRank
  BY DEF need
<1>8. Verdict(r, method, route, req) =
          IF need = "open" THEN "admitted"
          ELSE IF ScopeRank[tokens[n].scope] < ScopeRank[need] THEN "forbidden" ELSE "admitted"
  <2>. DEFINE who == ResolvePrincipal(r, req)
  <2>1. /\ who # {} /\ ~ \E p \in who : p.via = "cookie"
        /\ (\E p \in who : ScopeRank[p.scope] < ScopeRank[need])
               <=> ScopeRank[tokens[n].scope] < ScopeRank[need]
    BY <1>5
  <2>. HIDE DEF who
  <2>2. Verdict(r, method, route, req) =
            IF need = "open" THEN "admitted"
            ELSE IF \E p \in who : ScopeRank[p.scope] < ScopeRank[need] THEN "forbidden"
            ELSE "admitted"
    BY <1>2, <2>1 DEF Verdict, need, who
  <2>. QED BY <2>1, <2>2
<1>9. need # "open" => ScopeRank[need] \in Nat /\ ScopeRank[tokens[n].scope] \in Nat
  BY <1>6, <1>7 DEF ScopeRank
<1>. QED BY <1>8, <1>9 DEF req, tokens, need

(* What a request without a credential is answered.                          *)
LEMMA AnonymousAdmitted ==
    ASSUME install.auth, NEW r, NEW method, NEW route
    PROVE  Verdict(r, method, route, Request(NoToken, NoCookie, "foreign")) = "admitted"
           <=> RequiredAccess(method, route) = "open"
<1>. DEFINE req == Request(NoToken, NoCookie, "foreign")
<1>1. ResolvePrincipal(r, req) = {}
  BY DEF ResolvePrincipal, Request
<1>. HIDE DEF req
<1>2. Verdict(r, method, route, req) =
          IF RequiredAccess(method, route) = "open" THEN "admitted" ELSE "unauthorized"
  BY <1>1 DEF Verdict
<1>. QED BY <1>2 DEF req

(* What a row's scope demands of the caller: a signature is no credential.   *)
Demand(row) == IF row.scope = "signature" THEN "open" ELSE row.scope

(* The rows that are published, against the router, the scope table and the  *)
(* handlers; `missing` is when the backend lacks what the row needs.         *)
AutomationRoutes == {"/api/automations", "/api/automations/{id}", "/api/automations/{id}/enabled",
                     "/api/automations/{id}/runs", "/api/automations/{id}/run",
                     "/api/automations/{id}/trigger"}

Published(row, missing) ==
    /\ row.route \in Router[row.method]
    /\ RequiredAccess(row.method, row.route) = Demand(row)
    /\ row.scope \in {"open", "signature"} \cup DOMAIN ScopeRank
    /\ \/ Succeeds(row.method, row.route) \in row.answers
       \/ Succeeds(row.method, row.route) = 405 /\ missing

Fleetwide(row) == Published(row, ~ Capabilities.admin) /\ row.route \notin AutomationRoutes
OfAutomation(row) == Published(row, ~ install.store) /\ row.route \in AutomationRoutes

(* Where the backend has no workspace plane there is no other answer.        *)
LEMMA PlaneAnswers ==
    ASSUME install.plane \in {"none", "sync", "async"}, NEW applied, NEW enqueued
    PROVE  \/ WorkspaceAnswer(applied, enqueued) \in {applied, enqueued}
           \/ WorkspaceAnswer(applied, enqueued) = 405 /\ ~ Capabilities.admin
<1>1. CASE install.plane = "none"
  BY <1>1 DEF WorkspaceAnswer, Capabilities
<1>2. CASE install.plane = "sync"
  BY <1>2 DEF WorkspaceAnswer
<1>3. CASE install.plane = "async"
  BY <1>3 DEF WorkspaceAnswer
<1>. QED BY <1>1, <1>2, <1>3

LEMMA AllPublished ==
    ASSUME install \in Deployment, NEW row \in Documented
    PROVE  IF row \in DocumentedAutomations THEN OfAutomation(row) ELSE Fleetwide(row)
<1>. USE DEF Published, Demand, Router, RequiredAccess, OpenRoutes, ReadRoutes, OperateRoutes, Reads,
             ScopeRank, Succeeds, WorkspaceAnswer, Capabilities, AutomationRoutes
<1>0. install.plane \in {"none", "sync", "async"} /\ install.store \in BOOLEAN
  BY DEF Deployment
<1>1. ASSUME NEW x \in DocumentedProbes PROVE Fleetwide(x)
  <2>. DEFINE r1 == Row("GET", "/healthz", "open", {200})
              r2 == Row("GET", "/readyz", "open", {200, 503})
              r3 == Row("GET", "/api/session", "open", {200})
              r4 == Row("POST", "/api/session", "open", {200})
              r5 == Row("DELETE", "/api/session", "open", {204})
              r6 == Row("GET", "/api/openapi.json", "open", {200})
  <2>1. Fleetwide(r1)
    BY DEF Fleetwide, Row
  <2>2. Fleetwide(r2)
    BY DEF Fleetwide, Row
  <2>3. Fleetwide(r3)
    BY DEF Fleetwide, Row
  <2>4. Fleetwide(r4)
    BY DEF Fleetwide, Row
  <2>5. Fleetwide(r5)
    BY DEF Fleetwide, Row
  <2>6. Fleetwide(r6)
    BY DEF Fleetwide, Row
  <2>7. x \in {r1, r2, r3, r4, r5, r6}
    BY Zenon DEF DocumentedProbes
  <2>. HIDE DEF r1, r2, r3, r4, r5, r6
  <2>. QED BY <2>1, <2>2, <2>3, <2>4, <2>5, <2>6, <2>7, Zenon
<1>2. ASSUME NEW x \in DocumentedFleet PROVE Fleetwide(x)
  <2>. DEFINE r1 == Row("GET", "/api/metrics", "read", {200})
              r2 == Row("GET", "/api/capabilities", "read", {200})
              r3 == Row("GET", "/api/fleet", "read", {200})
              r4 == Row("GET", "/api/fleet/stream", "read", {200})
              r5 == Row("GET", "/api/usage", "read", {200})
  <2>1. Fleetwide(r1)
    BY DEF Fleetwide, Row
  <2>2. Fleetwide(r2)
    BY DEF Fleetwide, Row
  <2>3. Fleetwide(r3)
    BY DEF Fleetwide, Row
  <2>4. Fleetwide(r4)
    BY DEF Fleetwide, Row
  <2>5. Fleetwide(r5)
    BY DEF Fleetwide, Row
  <2>6. x \in {r1, r2, r3, r4, r5}
    BY Zenon DEF DocumentedFleet
  <2>. HIDE DEF r1, r2, r3, r4, r5
  <2>. QED BY <2>1, <2>2, <2>3, <2>4, <2>5, <2>6, Zenon
<1>3. ASSUME NEW x \in DocumentedWorkspaces PROVE Fleetwide(x)
  <2>. DEFINE r1 == Row("GET", "/api/workspaces", "read", {200})
              r2 == Row("POST", "/api/workspaces", "admin", {201, 202})
              r3 == Row("DELETE", "/api/workspaces/{name}", "admin", {204})
              r4 == Row("PUT", "/api/workspaces/{name}/config", "admin", {204, 202})
              r5 == Row("GET", "/api/workspaces/{workspace}/agents", "read", {200})
              r6 == Row("POST", "/api/workspaces/{workspace}/agents", "operate", {201})
  <2>1. Fleetwide(r1)
    BY <1>0 DEF Fleetwide, Row
  <2>2. Fleetwide(r2)
    <3>1. Succeeds(r2.method, r2.route) = WorkspaceAnswer(201, 202)
      BY DEF Row
    <3>. HIDE DEF Succeeds, WorkspaceAnswer, Capabilities
    <3>2. \/ WorkspaceAnswer(201, 202) \in {201, 202}
          \/ WorkspaceAnswer(201, 202) = 405 /\ ~ Capabilities.admin
      BY <1>0, PlaneAnswers
    <3>3. r2.answers = {201, 202}
      BY DEF Row
    <3>4. /\ r2.route \in Router[r2.method] /\ r2.route \notin AutomationRoutes
          /\ RequiredAccess(r2.method, r2.route) = Demand(r2)
          /\ r2.scope \in {"open", "signature"} \cup DOMAIN ScopeRank
      BY DEF Row
    <3>. HIDE DEF r2, Demand, Router, RequiredAccess, AutomationRoutes, ScopeRank
    <3>5. \/ Succeeds(r2.method, r2.route) \in r2.answers
          \/ Succeeds(r2.method, r2.route) = 405 /\ ~ Capabilities.admin
      BY <3>1, <3>2, <3>3
    <3>. QED BY <3>4, <3>5, Zenon DEF Fleetwide
  <2>3. Fleetwide(r3)
    <3>1. Succeeds(r3.method, r3.route) = WorkspaceAnswer(204, 204)
      BY DEF Row
    <3>. HIDE DEF Succeeds, WorkspaceAnswer, Capabilities
    <3>2. \/ WorkspaceAnswer(204, 204) \in {204, 204}
          \/ WorkspaceAnswer(204, 204) = 405 /\ ~ Capabilities.admin
      BY <1>0, PlaneAnswers
    <3>3. r3.answers = {204}
      BY DEF Row
    <3>4. /\ r3.route \in Router[r3.method] /\ r3.route \notin AutomationRoutes
          /\ RequiredAccess(r3.method, r3.route) = Demand(r3)
          /\ r3.scope \in {"open", "signature"} \cup DOMAIN ScopeRank
      BY DEF Row
    <3>. HIDE DEF r3, Demand, Router, RequiredAccess, AutomationRoutes, ScopeRank
    <3>5. \/ Succeeds(r3.method, r3.route) \in r3.answers
          \/ Succeeds(r3.method, r3.route) = 405 /\ ~ Capabilities.admin
      BY <3>1, <3>2, <3>3
    <3>. QED BY <3>4, <3>5, Zenon DEF Fleetwide
  <2>4. Fleetwide(r4)
    <3>1. Succeeds(r4.method, r4.route) = WorkspaceAnswer(204, 202)
      BY DEF Row
    <3>. HIDE DEF Succeeds, WorkspaceAnswer, Capabilities
    <3>2. \/ WorkspaceAnswer(204, 202) \in {204, 202}
          \/ WorkspaceAnswer(204, 202) = 405 /\ ~ Capabilities.admin
      BY <1>0, PlaneAnswers
    <3>3. r4.answers = {204, 202}
      BY DEF Row
    <3>4. /\ r4.route \in Router[r4.method] /\ r4.route \notin AutomationRoutes
          /\ RequiredAccess(r4.method, r4.route) = Demand(r4)
          /\ r4.scope \in {"open", "signature"} \cup DOMAIN ScopeRank
      BY DEF Row
    <3>. HIDE DEF r4, Demand, Router, RequiredAccess, AutomationRoutes, ScopeRank
    <3>5. \/ Succeeds(r4.method, r4.route) \in r4.answers
          \/ Succeeds(r4.method, r4.route) = 405 /\ ~ Capabilities.admin
      BY <3>1, <3>2, <3>3
    <3>. QED BY <3>4, <3>5, Zenon DEF Fleetwide
  <2>5. Fleetwide(r5)
    BY <1>0 DEF Fleetwide, Row
  <2>6. Fleetwide(r6)
    BY <1>0 DEF Fleetwide, Row
  <2>7. x \in {r1, r2, r3, r4, r5, r6}
    BY Zenon DEF DocumentedWorkspaces
  <2>. HIDE DEF r1, r2, r3, r4, r5, r6
  <2>. QED BY <2>1, <2>2, <2>3, <2>4, <2>5, <2>6, <2>7, Zenon
<1>4. ASSUME NEW x \in DocumentedAgents PROVE Fleetwide(x)
  <2>. DEFINE r1 == Row("GET", "/api/agents/{id}", "read", {200})
              r2 == Row("DELETE", "/api/agents/{id}", "operate", {204})
              r3 == Row("GET", "/api/agents/{id}/events", "read", {200})
              r4 == Row("GET", "/api/agents/{id}/stream", "read", {200})
              r5 == Row("POST", "/api/agents/{id}/kill", "operate", {202})
              r6 == Row("POST", "/api/agents/{id}/respawn", "operate", {200})
              r7 == Row("POST", "/api/agents/{id}/input", "operate", {202})
              r8 == Row("POST", "/api/agents/{id}/end-input", "operate", {202})
  <2>1. Fleetwide(r1)
    BY DEF Fleetwide, Row
  <2>2. Fleetwide(r2)
    BY DEF Fleetwide, Row
  <2>3. Fleetwide(r3)
    BY DEF Fleetwide, Row
  <2>4. Fleetwide(r4)
    BY DEF Fleetwide, Row
  <2>5. Fleetwide(r5)
    BY DEF Fleetwide, Row
  <2>6. Fleetwide(r6)
    BY DEF Fleetwide, Row
  <2>7. Fleetwide(r7)
    BY DEF Fleetwide, Row
  <2>8. Fleetwide(r8)
    BY DEF Fleetwide, Row
  <2>9. x \in {r1, r2, r3, r4, r5, r6, r7, r8}
    BY Zenon DEF DocumentedAgents
  <2>. HIDE DEF r1, r2, r3, r4, r5, r6, r7, r8
  <2>. QED BY <2>1, <2>2, <2>3, <2>4, <2>5, <2>6, <2>7, <2>8, <2>9, Zenon
<1>5. ASSUME NEW x \in DocumentedAutomations PROVE OfAutomation(x)
  <2>. DEFINE r1 == Row("GET", "/api/automations", "read", {200})
              r2 == Row("POST", "/api/automations", "admin", {201})
              r3 == Row("DELETE", "/api/automations/{id}", "admin", {204})
              r4 == Row("PUT", "/api/automations/{id}/enabled", "admin", {204})
              r5 == Row("GET", "/api/automations/{id}/runs", "read", {200})
              r6 == Row("POST", "/api/automations/{id}/run", "operate", {200})
              r7 == Row("POST", "/api/automations/{id}/trigger", "signature", {200})
  <2>1. OfAutomation(r1)
    BY <1>0, ZenonT(30) DEF OfAutomation, Row
  <2>2. OfAutomation(r2)
    BY <1>0, ZenonT(30) DEF OfAutomation, Row
  <2>3. OfAutomation(r3)
    BY <1>0, ZenonT(30) DEF OfAutomation, Row
  <2>4. OfAutomation(r4)
    BY <1>0, ZenonT(30) DEF OfAutomation, Row
  <2>5. OfAutomation(r5)
    BY <1>0, ZenonT(30) DEF OfAutomation, Row
  <2>6. OfAutomation(r6)
    BY <1>0, ZenonT(30) DEF OfAutomation, Row
  <2>7. OfAutomation(r7)
    BY <1>0, ZenonT(30) DEF OfAutomation, Row
  <2>8. x \in {r1, r2, r3, r4, r5, r6, r7}
    BY Zenon DEF DocumentedAutomations
  <2>. HIDE DEF r1, r2, r3, r4, r5, r6, r7
  <2>. QED BY <2>1, <2>2, <2>3, <2>4, <2>5, <2>6, <2>7, <2>8, Zenon
<1>6. Fleetwide(row) => row.route \notin AutomationRoutes
  BY Zenon DEF Fleetwide
<1>7. OfAutomation(row) => row.route \in AutomationRoutes
  BY Zenon DEF OfAutomation
<1>. QED BY <1>1, <1>2, <1>3, <1>4, <1>5, <1>6, <1>7, Zenon DEF Documented

(* The command line asks for published operations only.                      *)
Listed(command) == \E row \in Documented : command = <<row.method, row.route>>

LEMMA RowOffers ==
    ASSUME NEW method, NEW route, NEW scope, NEW answers,
           Row(method, route, scope, answers) \in Documented
    PROVE  Listed(<<method, route>>)
<1>1. /\ Row(method, route, scope, answers).method = method
      /\ Row(method, route, scope, answers).route = route
  BY DEF Row
<1>. QED BY <1>1, Zenon DEF Listed

LEMMA FleetCommandsListed ==
    ASSUME NEW command \in FleetCommands
    PROVE  Listed(command)
<1>. DEFINE c1 == <<"POST", "/api/workspaces">>
            c2 == <<"GET", "/api/workspaces">>
            c3 == <<"PUT", "/api/workspaces/{name}/config">>
            c4 == <<"DELETE", "/api/workspaces/{name}">>
            c5 == <<"POST", "/api/automations">>
            c6 == <<"GET", "/api/automations">>
            c7 == <<"POST", "/api/automations/{id}/run">>
            c8 == <<"GET", "/api/automations/{id}/runs">>
            c9 == <<"PUT", "/api/automations/{id}/enabled">>
            c10 == <<"DELETE", "/api/automations/{id}">>
<1>1. Listed(c1)
  <2>. Row("POST", "/api/workspaces", "admin", {201, 202}) \in Documented
    BY DEF Documented, DocumentedWorkspaces
  <2>. QED BY RowOffers
<1>2. Listed(c2)
  <2>. Row("GET", "/api/workspaces", "read", {200}) \in Documented
    BY DEF Documented, DocumentedWorkspaces
  <2>. QED BY RowOffers
<1>3. Listed(c3)
  <2>. Row("PUT", "/api/workspaces/{name}/config", "admin", {204, 202}) \in Documented
    BY DEF Documented, DocumentedWorkspaces
  <2>. QED BY RowOffers
<1>4. Listed(c4)
  <2>. Row("DELETE", "/api/workspaces/{name}", "admin", {204}) \in Documented
    BY DEF Documented, DocumentedWorkspaces
  <2>. QED BY RowOffers
<1>5. Listed(c5)
  <2>. Row("POST", "/api/automations", "admin", {201}) \in Documented
    BY DEF Documented, DocumentedAutomations
  <2>. QED BY RowOffers
<1>6. Listed(c6)
  <2>. Row("GET", "/api/automations", "read", {200}) \in Documented
    BY DEF Documented, DocumentedAutomations
  <2>. QED BY RowOffers
<1>7. Listed(c7)
  <2>. Row("POST", "/api/automations/{id}/run", "operate", {200}) \in Documented
    BY DEF Documented, DocumentedAutomations
  <2>. QED BY RowOffers
<1>8. Listed(c8)
  <2>. Row("GET", "/api/automations/{id}/runs", "read", {200}) \in Documented
    BY DEF Documented, DocumentedAutomations
  <2>. QED BY RowOffers
<1>9. Listed(c9)
  <2>. Row("PUT", "/api/automations/{id}/enabled", "admin", {204}) \in Documented
    BY DEF Documented, DocumentedAutomations
  <2>. QED BY RowOffers
<1>10. Listed(c10)
  <2>. Row("DELETE", "/api/automations/{id}", "admin", {204}) \in Documented
    BY DEF Documented, DocumentedAutomations
  <2>. QED BY RowOffers
<1>11. command \in {c1, c2, c3, c4, c5, c6, c7, c8, c9, c10}
  BY Zenon DEF FleetCommands
<1>. HIDE DEF c1, c2, c3, c4, c5, c6, c7, c8, c9, c10
<1>. QED BY <1>1, <1>2, <1>3, <1>4, <1>5, <1>6, <1>7, <1>8, <1>9, <1>10, <1>11, Zenon

LEMMA AgentCommandsListed ==
    ASSUME NEW command \in AgentCommands
    PROVE  Listed(command)
<1>. DEFINE c1 == <<"POST", "/api/workspaces/{workspace}/agents">>
            c2 == <<"GET", "/api/usage">>
            c3 == <<"GET", "/api/fleet">>
            c4 == <<"GET", "/healthz">>
            c5 == <<"GET", "/api/agents/{id}/stream">>
            c6 == <<"POST", "/api/agents/{id}/kill">>
            c7 == <<"POST", "/api/agents/{id}/respawn">>
            c8 == <<"DELETE", "/api/agents/{id}">>
            c9 == <<"POST", "/api/agents/{id}/input">>
            c10 == <<"POST", "/api/agents/{id}/end-input">>
            c11 == <<"GET", "/api/session">>
<1>1. Listed(c1)
  <2>. Row("POST", "/api/workspaces/{workspace}/agents", "operate", {201}) \in Documented
    BY DEF Documented, DocumentedWorkspaces
  <2>. QED BY RowOffers
<1>2. Listed(c2)
  <2>. Row("GET", "/api/usage", "read", {200}) \in Documented
    BY DEF Documented, DocumentedFleet
  <2>. QED BY RowOffers
<1>3. Listed(c3)
  <2>. Row("GET", "/api/fleet", "read", {200}) \in Documented
    BY DEF Documented, DocumentedFleet
  <2>. QED BY RowOffers
<1>4. Listed(c4)
  <2>. Row("GET", "/healthz", "open", {200}) \in Documented
    BY DEF Documented, DocumentedProbes
  <2>. QED BY RowOffers
<1>5. Listed(c5)
  <2>. Row("GET", "/api/agents/{id}/stream", "read", {200}) \in Documented
    BY DEF Documented, DocumentedAgents
  <2>. QED BY RowOffers
<1>6. Listed(c6)
  <2>. Row("POST", "/api/agents/{id}/kill", "operate", {202}) \in Documented
    BY DEF Documented, DocumentedAgents
  <2>. QED BY RowOffers
<1>7. Listed(c7)
  <2>. Row("POST", "/api/agents/{id}/respawn", "operate", {200}) \in Documented
    BY DEF Documented, DocumentedAgents
  <2>. QED BY RowOffers
<1>8. Listed(c8)
  <2>. Row("DELETE", "/api/agents/{id}", "operate", {204}) \in Documented
    BY DEF Documented, DocumentedAgents
  <2>. QED BY RowOffers
<1>9. Listed(c9)
  <2>. Row("POST", "/api/agents/{id}/input", "operate", {202}) \in Documented
    BY DEF Documented, DocumentedAgents
  <2>. QED BY RowOffers
<1>10. Listed(c10)
  <2>. Row("POST", "/api/agents/{id}/end-input", "operate", {202}) \in Documented
    BY DEF Documented, DocumentedAgents
  <2>. QED BY RowOffers
<1>11. Listed(c11)
  <2>. Row("GET", "/api/session", "open", {200}) \in Documented
    BY DEF Documented, DocumentedProbes
  <2>. QED BY RowOffers
<1>12. command \in {c1, c2, c3, c4, c5, c6, c7, c8, c9, c10, c11}
  BY Zenon DEF AgentCommands
<1>. HIDE DEF c1, c2, c3, c4, c5, c6, c7, c8, c9, c10, c11
<1>. QED BY <1>1, <1>2, <1>3, <1>4, <1>5, <1>6, <1>7, <1>8, <1>9, <1>10, <1>11, <1>12, Zenon


(* Every row is answered as it says, to every credential of every replica.   *)
LEMMA AnswersAre == AccessInv => AnswersAsPublished
<1>. SUFFICES ASSUME AccessInv
              PROVE  AnswersAsPublished
  OBVIOUS
<1>1. install \in Deployment
  BY AccessAssumption DEF AccessInv, ServersOK
<1>2. ASSUME NEW r \in {s \in Servers : server[s].up}, NEW row \in Documented
      PROVE  /\ row.route \in Router[row.method]
             /\ \/ Succeeds(row.method, row.route) \in row.answers
                \/ /\ Succeeds(row.method, row.route) = 405
                   /\ IF row \in DocumentedAutomations THEN ~ install.store
                      ELSE ~ Capabilities.admin
             /\ \A h \in Hashes : \A n \in Authenticate(r, h) :
                   (Verdict(r, row.method, row.route, Request(h, NoCookie, "foreign")) = "admitted")
                   <=> \/ row.scope \in {"open", "signature"}
                       \/ ScopeRank[server[r].tokens[n].scope] >= ScopeRank[row.scope]
             /\ row.scope # "signature" => AsSecured(r, row)
  <2>1. PICK missing : /\ Published(row, missing)
                       /\ missing <=> IF row \in DocumentedAutomations THEN ~ install.store
                                      ELSE ~ Capabilities.admin
    BY <1>1, AllPublished, Zenon DEF OfAutomation, Fleetwide
  <2>2. ASSUME NEW h \in Hashes, NEW n \in Authenticate(r, h)
        PROVE  (Verdict(r, row.method, row.route, Request(h, NoCookie, "foreign")) = "admitted")
               <=> \/ row.scope \in {"open", "signature"}
                   \/ ScopeRank[server[r].tokens[n].scope] >= ScopeRank[row.scope]
    <3>1. /\ RequiredAccess(row.method, row.route) = Demand(row)
          /\ row.scope \in {"open", "signature"} \cup DOMAIN ScopeRank
      BY <2>1 DEF Published
    <3>3. RequiredAccess(row.method, row.route) \in {"open"} \cup DOMAIN ScopeRank
      BY <3>1 DEF Demand
    <3>2. (Verdict(r, row.method, row.route, Request(h, NoCookie, "foreign")) = "admitted")
          <=> \/ RequiredAccess(row.method, row.route) = "open"
              \/ ScopeRank[server[r].tokens[n].scope]
                     >= ScopeRank[RequiredAccess(row.method, row.route)]
      BY <3>3, BearerAdmitted
    <3>4. "open" \notin DOMAIN ScopeRank /\ "signature" \notin DOMAIN ScopeRank
      BY DEF ScopeRank
    <3>. QED BY <3>1, <3>2, <3>4 DEF Demand
  <2>3. ASSUME row.scope # "signature" PROVE AsSecured(r, row)
    <3>1. RequiredAccess(row.method, row.route) = row.scope
      BY <2>1, <2>3 DEF Published, Demand
    <3>2. Security(row) = {} <=> row.scope = "open"
      BY DEF Security
    <3>. QED BY <3>1, <3>2, AnonymousAdmitted DEF AsSecured
  <2>. QED BY <2>1, <2>2, <2>3, Zenon DEF Published
<1>3. \A command \in FleetCommands \cup AgentCommands :
          \E row \in Documented : command = <<row.method, row.route>>
  BY FleetCommandsListed, AgentCommandsListed, Zenon DEF Listed
<1>4. Capabilities.async <=> Succeeds("POST", "/api/workspaces") = 202
  <2>1. Succeeds("POST", "/api/workspaces") = WorkspaceAnswer(201, 202)
    BY DEF Succeeds
  <2>2. install.plane \in {"none", "sync", "async"}
    BY <1>1 DEF Deployment
  <2>3. WorkspaceAnswer(201, 202) = 202 <=> install.plane = "async"
    <3>1. install.plane = "none" => WorkspaceAnswer(201, 202) = 405
      BY DEF WorkspaceAnswer
    <3>2. install.plane = "sync" => WorkspaceAnswer(201, 202) = 201
      BY DEF WorkspaceAnswer
    <3>3. install.plane = "async" => WorkspaceAnswer(201, 202) = 202
      BY DEF WorkspaceAnswer
    <3>. QED BY <2>2, <3>1, <3>2, <3>3
  <2>4. Capabilities.async <=> install.plane = "async"
    BY DEF Capabilities
  <2>. QED BY <2>1, <2>3, <2>4
<1>. QED BY <1>2, <1>3, <1>4, ZenonT(60) DEF AnswersAsPublished

LEMMA UnattendedChosen == AccessInv => UnattendedByAdmin
<1>. SUFFICES ASSUME AccessInv, NEW i \in DOMAIN agents, agents[i].posture = "unattended"
              PROVE  agents[i].chosenBy \in {"trusted", "admin"}
  BY DEF UnattendedByAdmin
<1>1. agents \in Seq(ChosenAgents)
  BY DEF AccessInv, PostureChosen
<1>2. agents[i] \in ChosenAgents
  BY <1>1, LenProperties, ElementOfSeq
<1>. QED BY <1>2 DEF ChosenAgents, Trusted

(* Nothing is let through, answered, started or paged otherwise than it      *)
(* should, whatever the tokens files, replicas, deployment and budgets       *)
(* (resolve_principal, session::verify, resolve_auth, required_access, the   *)
(* route table of openapi.rs, spawn_agent, prospero_agent_events).           *)
THEOREM AccessSoundHolds == AccessSpec => []AccessSound
<1>1. AccessInit => AccessInv
  BY AccessInvInit
<1>2. AccessInv /\ [AccessNext]_accessVars => AccessInv'
  BY AccessInvStep
<1>3. AccessInv => AccessSound
  BY CredentialsAreGood, SessionsDoTravel, AnswersAre, UnattendedChosen
  DEF AccessSound, AccessInv, ReaderOK
<1>. QED BY <1>1, <1>2, <1>3, PTL DEF AccessSpec

(***************************************************************************)
(* Delivery.                                                                *)
(***************************************************************************)
DeliverySpec == DeliveryInit /\ [][DeliveryNext]_deliveryVars

SiteOK ==
    /\ site \in [store : {"sqlite", "postgres"}, from : {"start", "now"},
                 rows : [Keys -> Nat], writers : Nat, prunes : Nat, faults : Nat,
                 resumes : Nat, who : {"feed", "tail", "nobody"}]
    /\ drawn \in Nat

(* The rows that are stored: finitely many, each with an ordinal of its own  *)
(* among those drawn, and none beyond the highest its key has had visible.  *)
StoredRow == [ord : Nat, key : Keys, seq : Nat, late : BOOLEAN]
RowsOK ==
    /\ rows \subseteq StoredRow /\ IsFiniteSet(rows)
    /\ \A r \in rows : r.ord \in 1..drawn /\ r.seq \in 1..peak[r.key]
    /\ \A r, s \in rows : r.ord = s.ord => r = s

(* The numbers handed out are within the key's budget, what is visible and   *)
(* what is on its way within the numbers; only a cluster has inserts open,   *)
(* whose ordinals are drawn and nobody else's.                              *)
Write == [key : Keys, seq : Nat, ord : Nat, pc : {"numbered", "drawn", "ring"}]
WritesOK ==
    /\ numbered \in [Keys -> Nat] /\ peak \in [Keys -> Nat] /\ writes \subseteq Write
    /\ \A k \in Keys : peak[k] <= numbered[k] /\ numbered[k] <= site.rows[k]
    /\ \A w \in writes : w.seq \in 1..numbered[w.key]
    /\ \A w \in writes : w.pc = "drawn" =>
          /\ Clustered /\ w.ord \in 1..drawn
          /\ \A r \in rows : r.ord # w.ord
          /\ \A v \in writes : v.pc = "drawn" /\ v.ord = w.ord => v = w

StoreInv == SiteOK /\ RowsOK /\ WritesOK

(* The follower: what it has read and not sent lies beyond its cursor ...    *)
FollowerOK ==
    /\ DOMAIN follower = DOMAIN NoFeed
    /\ follower.phase \in {"off", "subscribed", "draining", "waiting"}
    /\ follower.cursor \in 0..drawn
    /\ follower.batch \subseteq StoredRow
    /\ follower.batch # {} => follower.phase = "draining"
    /\ follower.phase \in {"off", "subscribed"} => follower.cursor = 0
    /\ \A b \in follower.batch : follower.cursor < b.ord /\ b.ord <= drawn
    /\ \A b, d \in follower.batch : b.ord = d.ord => b = d

(* ... its client has received events in order, and while it is connected    *)
(* the cursor is where the last one was.                                    *)
Streaming == follower.phase \in {"draining", "waiting"}
ClientOK ==
    /\ client \in [got : Seq(StoredRow), start : Nat, fresh : BOOLEAN]
    /\ \A i \in 1..Len(client.got) : client.got[i].ord <= drawn
    /\ FeedOrder
    /\ client.got # <<>> \/ Streaming => ~client.fresh
    /\ Streaming => IF client.got = <<>> THEN follower.cursor <= client.start
                    ELSE follower.cursor = client.got[Len(client.got)].ord

(* Where ordinals become visible in order nothing stored is missing, neither *)
(* up to the last event received nor in what has been read.                 *)
NothingMissing ==
    ~Clustered =>
        /\ client.got # <<>> =>
              \A r \in rows : client.start < r.ord /\ r.ord <= client.got[Len(client.got)].ord
                 => r \in Range(client.got)
        /\ \A b \in follower.batch : \A r \in rows :
              follower.cursor < r.ord /\ r.ord <= b.ord => r \in follower.batch

FeedInv == FollowerOK /\ ClientOK /\ NothingMissing

(* The tail: the mark of its subscription never passes the last event sent;  *)
(* what it has still to go through lies beyond the one it is at, and has     *)
(* every stored event on the way that was not late.                         *)
Floor(t) == IF t.hears THEN t.mark ELSE t.last
TailType ==
    tail \in [phase : {"off", "open", "closed"}, last : Nat, mark : Nat, hears : BOOLEAN,
              pending : SUBSET Nat, bells : SUBSET Keys, got : Seq(Nat), deaf : BOOLEAN]
TailOK ==
    /\ tail.last <= peak[TailKey] /\ tail.mark <= tail.last
    /\ tail.bells # {} => tail.hears
    /\ \A s \in tail.pending : Floor(tail) < s /\ s <= peak[TailKey]
    /\ \A s \in tail.pending : \A r \in rows :
          r.key = TailKey /\ Floor(tail) < r.seq /\ r.seq <= s /\ ~r.late
             => r.seq \in tail.pending
    /\ TailExact

TailInv == TailType /\ TailOK

DeliveryInv == StoreInv /\ FeedInv /\ TailInv

(* The store. *)

SiteKeeps == site'.rows = site.rows /\ site'.store = site.store

LEMMA DeliverySiteStep ==
    ASSUME SiteOK, [DeliveryNext]_deliveryVars
    PROVE  SiteOK' /\ SiteKeeps /\ Clustered' = Clustered /\ drawn <= drawn'
<1>0. site.rows \in [Keys -> Nat] /\ drawn \in Nat
  BY DEF SiteOK
<1>3. drawn' \in Nat /\ drawn <= drawn'
  <2>1. drawn' = drawn \/ drawn' = drawn + 1
    BY DEF DeliveryNext, Delivers, deliveryVars, storeVars, Number, AppendLocal, Allocate, Commit,
       AppendFails, BecomesVisible, Notify, NotifyFails, PruneTo, ConnectFeed, Begin, BeginFrom,
       BeginNow, BeginNowFails, ReadBatch, ReadNothing, ReadFails, Yield, Listen, DoorbellReplay,
       DoorbellReplayFails, Wake, Disconnect, OpenTail, OpenTailBlind, SendHistory, ListenTail,
       TailRung, TailStep, TailReplayFails, TailIgnores
  <2>. QED BY <1>0, <2>1
<1>1. CASE site' = site
  BY <1>1, <1>3 DEF SiteKeeps, Clustered, SiteOK
<1>2. CASE \/ site.faults > 0 /\ site' = [site EXCEPT !.faults = @ - 1]
           \/ site.prunes > 0 /\ site' = [site EXCEPT !.prunes = @ - 1]
           \/ site.resumes > 0 /\ site' = [site EXCEPT !.resumes = @ - 1]
  <2>1. SiteKeeps /\ Clustered' = Clustered
    BY <1>2 DEF SiteKeeps, Clustered, SiteOK
  <2>3. SiteOK'
    BY <1>2, <1>3 DEF SiteOK
  <2>. QED BY <1>3, <2>1, <2>3
<1>. QED
  BY <1>1, <1>2 DEF DeliveryNext, Delivers, deliveryVars, Number, AppendLocal, Allocate, Commit,
     AppendFails, BecomesVisible, Notify, NotifyFails, PruneTo, ConnectFeed, Begin, BeginFrom,
     BeginNow, BeginNowFails, ReadBatch, ReadNothing, ReadFails, Yield, Listen, DoorbellReplay,
     DoorbellReplayFails, Wake, Disconnect, OpenTail, OpenTailBlind, SendHistory, ListenTail,
     TailRung, TailStep, TailReplayFails, TailIgnores

(* A number is handed out. *)
LEMMA NumberStore ==
    ASSUME StoreInv, SiteOK', SiteKeeps, NEW k \in Keys, Number(k)
    PROVE  StoreInv'
<1>. DEFINE new == [key |-> k, seq |-> numbered[k] + 1, ord |-> 0, pc |-> "numbered"]
<1>0. /\ SiteOK /\ RowsOK /\ WritesOK /\ site.rows \in [Keys -> Nat]
      /\ rows' = rows /\ peak' = peak /\ drawn' = drawn /\ writes' = writes \cup {new}
      /\ numbered' = [numbered EXCEPT ![k] = @ + 1] /\ numbered[k] < site.rows[k]
      /\ numbered \in [Keys -> Nat] /\ peak \in [Keys -> Nat]
  BY DEF StoreInv, Number, SiteOK, WritesOK
<1>1. /\ numbered' \in [Keys -> Nat] /\ numbered'[k] = numbered[k] + 1
      /\ \A j \in Keys : numbered[j] <= numbered'[j] /\ numbered'[j] <= site.rows[j]
                         /\ peak[j] <= numbered'[j]
  BY <1>0 DEF WritesOK
<1>2. new \in Write /\ new.key = k /\ new.seq = numbered[k] + 1 /\ new.pc # "drawn"
  BY <1>0 DEF Write
<1>. HIDE DEF new
<1>3. RowsOK'
  BY <1>0 DEF RowsOK, StoredRow
<1>4. \A w \in writes' : w.seq \in 1..numbered'[w.key]
  BY <1>0, <1>1, <1>2 DEF WritesOK, Write
<1>5. \A w \in writes' : w.pc = "drawn" => w \in writes
  BY <1>0, <1>2
<1>6. WritesOK'
  BY <1>0, <1>1, <1>2, <1>4, <1>5 DEF WritesOK, Write, SiteKeeps, Clustered
<1>. QED BY <1>3, <1>6 DEF StoreInv

LEMMA RingingIs ==
    ASSUME NEW w \in Write
    PROVE  Ringing(w) \in Write /\ Ringing(w).key = w.key /\ Ringing(w).seq = w.seq
           /\ Ringing(w).pc = "ring"
  BY DEF Ringing, Write

LEMMA DrawnIs ==
    ASSUME NEW w \in Write, NEW n \in Nat
    PROVE  LET new == [w EXCEPT !.ord = n, !.pc = "drawn"]
           IN  new \in Write /\ new.key = w.key /\ new.seq = w.seq /\ new.ord = n
               /\ new.pc = "drawn"
  BY DEF Write

(* An insert draws an ordinal nobody has. *)
LEMMA AllocateStore ==
    ASSUME StoreInv, SiteOK', SiteKeeps, NEW w \in writes, Allocate(w)
    PROVE  StoreInv'
<1>. DEFINE new == [w EXCEPT !.ord = NextOrdinal, !.pc = "drawn"]
<1>0. /\ SiteOK /\ RowsOK /\ WritesOK /\ drawn \in Nat /\ Clustered /\ w \in Write
      /\ rows' = rows /\ peak' = peak /\ numbered' = numbered /\ drawn' = drawn + 1
      /\ writes' = (writes \ {w}) \cup {new}
  BY DEF StoreInv, Allocate, SiteOK, WritesOK
<1>1. new \in Write /\ new.key = w.key /\ new.seq = w.seq /\ new.ord = drawn + 1 /\ new.pc = "drawn"
  <2>1. drawn + 1 \in Nat /\ NextOrdinal = drawn + 1
    BY <1>0 DEF NextOrdinal
  <2>2. new = [w EXCEPT !.ord = drawn + 1, !.pc = "drawn"]
    BY <2>1
  <2>. HIDE DEF new
  <2>. QED BY <1>0, <2>1, <2>2, DrawnIs
<1>. HIDE DEF new
<1>2. RowsOK'
  BY <1>0 DEF RowsOK, StoredRow
<1>3. ASSUME NEW v \in writes', v.pc = "drawn"
      PROVE  /\ v.ord \in 1..drawn' /\ \A r \in rows : r.ord # v.ord
             /\ \A u \in writes' : u.pc = "drawn" /\ u.ord = v.ord => u = v
  <2>1. \A u \in writes : u.pc = "drawn" => u.ord \in 1..drawn
    BY <1>0 DEF WritesOK
  <2>2. CASE v = new
    BY <2>1, <2>2, <1>0, <1>1 DEF RowsOK
  <2>3. CASE v # new
    <3>1. v \in writes
      BY <2>3, <1>0, <1>3
    <3>. QED BY <2>1, <3>1, <1>0, <1>1, <1>3 DEF WritesOK
  <2>. QED BY <2>2, <2>3
<1>4. \A v \in writes' : v \in Write /\ v.seq \in 1..numbered[v.key]
  BY <1>0, <1>1 DEF WritesOK
<1>5. Clustered' /\ \A k \in Keys : peak[k] <= numbered[k] /\ numbered[k] <= site'.rows[k]
  BY <1>0 DEF WritesOK, SiteKeeps, Clustered
<1>6. numbered' \in [Keys -> Nat] /\ peak' \in [Keys -> Nat]
  BY <1>0 DEF WritesOK
<1>7. WritesOK'
  BY <1>0, <1>3, <1>4, <1>5, <1>6 DEF WritesOK
<1>. QED BY <1>2, <1>7 DEF StoreInv

(* A row becomes visible under an ordinal nobody has. *)
LEMMA VisibleStore ==
    ASSUME StoreInv, SiteOK', SiteKeeps, NEW w \in writes, NEW n \in 1..drawn',
           drawn' \in Nat, drawn <= drawn', BecomesVisible(w, n),
           \A r \in rows : r.ord # n,
           \A v \in writes \ {w} : v.pc = "drawn" => v.ord # n
    PROVE  StoreInv'
<1>. DEFINE new == [ord |-> n, key |-> w.key, seq |-> w.seq, late |-> w.seq <= peak[w.key]]
            ring == Ringing(w)
<1>0. /\ SiteOK /\ RowsOK /\ WritesOK /\ drawn \in Nat /\ w \in Write /\ w.key \in Keys
      /\ w.seq \in 1..numbered[w.key] /\ w.seq \in Nat
      /\ rows' = rows \cup {new} /\ numbered' = numbered
      /\ writes' = (writes \ {w}) \cup {ring}
      /\ peak' = [peak EXCEPT ![w.key] = IF w.seq <= @ THEN @ ELSE w.seq]
      /\ numbered \in [Keys -> Nat] /\ peak \in [Keys -> Nat]
  BY DEF StoreInv, BecomesVisible, Publishes, SiteOK, WritesOK, Write
<1>1. /\ new \in StoredRow /\ new.ord = n /\ new.key = w.key /\ new.seq = w.seq
  BY <1>0 DEF StoredRow
<1>2. ring \in Write /\ ring.key = w.key /\ ring.seq = w.seq /\ ring.pc = "ring"
  BY <1>0, RingingIs
<1>. HIDE DEF new, ring
<1>3. /\ peak' \in [Keys -> Nat] /\ w.seq <= peak'[w.key]
      /\ \A k \in Keys : peak[k] <= peak'[k] /\ peak'[k] <= numbered[k]
  BY <1>0 DEF WritesOK
<1>4. RowsOK'
  <2>1. rows' \subseteq StoredRow /\ IsFiniteSet(rows')
    BY <1>0, <1>1, FS_AddElement DEF RowsOK
  <2>2. ASSUME NEW r \in rows' PROVE r.ord \in 1..drawn' /\ r.seq \in 1..peak'[r.key]
    <3>1. CASE r = new
      BY <3>1, <1>0, <1>1, <1>3
    <3>2. CASE r \in rows
      <4>1. r.ord \in 1..drawn /\ r.seq \in 1..peak[r.key] /\ r.key \in Keys
        BY <3>2, <1>0 DEF RowsOK, StoredRow
      <4>. QED BY <4>1, <1>0, <1>3
    <3>. QED BY <3>1, <3>2, <1>0
  <2>3. ASSUME NEW r \in rows', NEW s \in rows', r.ord = s.ord PROVE r = s
    BY <2>3, <1>0, <1>1 DEF RowsOK
  <2>. QED BY <2>1, <2>2, <2>3 DEF RowsOK
<1>5. WritesOK'
  <2>1. \A v \in writes' : v \in Write /\ v.seq \in 1..numbered[v.key]
    BY <1>0, <1>2 DEF WritesOK
  <2>2. ASSUME NEW v \in writes', v.pc = "drawn"
        PROVE  /\ Clustered' /\ v.ord \in 1..drawn' /\ \A r \in rows' : r.ord # v.ord
               /\ \A u \in writes' : u.pc = "drawn" /\ u.ord = v.ord => u = v
    <3>1. v \in writes \ {w}
      BY <2>2, <1>0, <1>2
    <3>2. /\ Clustered /\ v.ord \in 1..drawn /\ \A r \in rows : r.ord # v.ord
          /\ \A u \in writes : u.pc = "drawn" /\ u.ord = v.ord => u = v
      BY <2>2, <3>1, <1>0 DEF WritesOK
    <3>3. \A r \in rows' : r.ord # v.ord
      BY <2>2, <3>1, <3>2, <1>0, <1>1
    <3>4. \A u \in writes' : u.pc = "drawn" => u \in writes
      BY <1>0, <1>2
    <3>. QED BY <3>2, <3>3, <3>4, <1>0 DEF SiteKeeps, Clustered
  <2>3. \A k \in Keys : peak'[k] <= numbered'[k] /\ numbered'[k] <= site'.rows[k]
    BY <1>0, <1>3 DEF WritesOK, SiteKeeps
  <2>. QED BY <2>1, <2>2, <2>3, <1>0, <1>3 DEF WritesOK
<1>. QED BY <1>4, <1>5 DEF StoreInv

LEMMA AppendsStore ==
    ASSUME StoreInv, SiteOK', SiteKeeps, NEW w \in writes, AppendLocal(w) \/ Commit(w)
    PROVE  StoreInv'
<1>0. RowsOK /\ WritesOK /\ drawn \in Nat
  BY DEF StoreInv, SiteOK
<1>1. CASE AppendLocal(w)
  <2>1. ~Clustered /\ drawn' = drawn + 1 /\ BecomesVisible(w, drawn + 1)
    BY <1>1 DEF AppendLocal, NextOrdinal
  <2>2. \A r \in rows : r.ord # drawn + 1
    BY <1>0 DEF RowsOK
  <2>3. \A v \in writes : v.pc # "drawn"
    BY <1>0, <2>1 DEF WritesOK
  <2>. QED BY <1>0, <2>1, <2>2, <2>3, VisibleStore
<1>2. CASE Commit(w)
  <2>1. w.pc = "drawn" /\ drawn' = drawn /\ BecomesVisible(w, w.ord)
    BY <1>2 DEF Commit
  <2>2. /\ w.ord \in 1..drawn /\ \A r \in rows : r.ord # w.ord
        /\ \A v \in writes : v.pc = "drawn" /\ v.ord = w.ord => v = w
    BY <1>0, <2>1 DEF WritesOK
  <2>3. \A v \in writes \ {w} : v.pc = "drawn" => v.ord # w.ord
    BY <2>2
  <2>. QED BY <1>0, <2>1, <2>2, <2>3, VisibleStore
<1>. QED BY <1>1, <1>2

(* Every other step: rows may go, and writes may go or ring. *)
LEMMA QuietStore ==
    ASSUME StoreInv, SiteOK', SiteKeeps, rows' \subseteq rows, UNCHANGED <<peak, numbered, drawn>>,
           \A v \in writes' : v \in writes \/ \E w \in writes : v = Ringing(w)
    PROVE  StoreInv'
<1>0. RowsOK /\ WritesOK /\ drawn \in Nat
  BY DEF StoreInv, SiteOK
<1>1. IsFiniteSet(rows')
  BY <1>0, FS_Subset DEF RowsOK
<1>2. RowsOK'
  BY <1>0, <1>1 DEF RowsOK, StoredRow
<1>3. ASSUME NEW v \in writes'
      PROVE  v \in Write /\ v.seq \in 1..numbered[v.key] /\ (v.pc = "drawn" => v \in writes)
  <2>1. CASE v \in writes
    BY <2>1, <1>0 DEF WritesOK
  <2>2. CASE \E w \in writes : v = Ringing(w)
    <3>1. PICK w \in writes : v = Ringing(w)
      BY <2>2
    <3>. QED BY <3>1, <1>0, RingingIs DEF WritesOK
  <2>. QED BY <2>1, <2>2
<1>4. Clustered' = Clustered
  BY DEF SiteKeeps, Clustered
<1>5. WritesOK'
  BY <1>0, <1>3, <1>4 DEF WritesOK, SiteKeeps
<1>. QED BY <1>2, <1>5 DEF StoreInv

Stores ==
    \/ \E k \in Keys : Number(k)
    \/ \E w \in writes : AppendLocal(w) \/ Allocate(w) \/ Commit(w)

LEMMA OnlyTheseStore ==
    ASSUME [DeliveryNext]_deliveryVars, ~Stores
    PROVE  /\ rows' \subseteq rows /\ UNCHANGED <<peak, numbered, drawn>>
           /\ \A v \in writes' : v \in writes \/ \E w \in writes : v = Ringing(w)
<1>1. ASSUME NEW w \in writes, AppendFails(w) \/ Notify(w) \/ NotifyFails(w)
      PROVE  /\ rows' = rows /\ UNCHANGED <<peak, numbered, drawn>>
             /\ \A v \in writes' : v \in writes \/ v = Ringing(w)
  BY <1>1 DEF AppendFails, Publishes, Notify, NotifyFails, storeVars
<1>2. ASSUME NEW kept \in SUBSET rows, PruneTo(kept)
      PROVE  rows' \subseteq rows /\ UNCHANGED <<peak, numbered, drawn, writes>>
  BY <1>2 DEF PruneTo
<1>3. \/ UNCHANGED <<storeVars, writes>>
      \/ \E w \in writes : AppendFails(w) \/ Notify(w) \/ NotifyFails(w)
      \/ \E kept \in SUBSET rows : PruneTo(kept)
  BY DEF Stores, DeliveryNext, Delivers, deliveryVars, ConnectFeed, Begin, BeginFrom, BeginNow,
     BeginNowFails, ReadBatch, ReadNothing, ReadFails, Yield, Listen, DoorbellReplay,
     DoorbellReplayFails, Wake, Disconnect, OpenTail, OpenTailBlind, SendHistory, ListenTail,
     TailRung, TailStep, TailReplayFails, TailIgnores
<1>. QED BY <1>1, <1>2, <1>3 DEF storeVars

LEMMA StoreStep == StoreInv /\ [DeliveryNext]_deliveryVars => StoreInv'
<1>. SUFFICES ASSUME StoreInv, [DeliveryNext]_deliveryVars PROVE StoreInv'
  OBVIOUS
<1>0. SiteOK' /\ SiteKeeps
  BY DeliverySiteStep DEF StoreInv
<1>1. CASE Stores
  BY <1>0, <1>1, NumberStore, AllocateStore, AppendsStore DEF Stores
<1>2. CASE ~Stores
  BY <1>0, <1>2, OnlyTheseStore, QuietStore
<1>. QED BY <1>1, <1>2

(* The feed. *)

LEMMA FeedInvInit == DeliveryInit => FeedInv
<1>. SUFFICES ASSUME DeliveryInit PROVE FeedInv
  OBVIOUS
<1>1. site \in Sites /\ rows = {} /\ drawn = 0 /\ follower = NoFeed
      /\ client = [got |-> <<>>, start |-> 0, fresh |-> TRUE]
  BY DEF DeliveryInit
<1>2. FollowerOK
  BY <1>1 DEF FollowerOK, NoFeed
<1>3. ClientOK
  BY <1>1 DEF ClientOK, FeedOrder, Streaming, NoFeed
<1>4. NothingMissing
  BY <1>1 DEF NothingMissing
<1>. QED BY <1>2, <1>3, <1>4 DEF FeedInv

LEMMA GotRows ==
    ASSUME ClientOK
    PROVE  \A i \in 1..Len(client.got) : client.got[i] \in StoredRow /\ client.got[i].ord \in Nat
<1>1. client.got \in Seq(StoredRow)
  BY DEF ClientOK
<1>2. ASSUME NEW i \in 1..Len(client.got) PROVE client.got[i] \in StoredRow
  BY <1>1
<1>. QED BY <1>2 DEF StoredRow

(* A step that leaves the client, the cursor and the batch alone and adds    *)
(* rows only beyond the ordinals drawn so far.                              *)
LEMMA FeedQuiet ==
    ASSUME FeedInv, drawn \in Nat, drawn' \in Nat, drawn <= drawn', Clustered' = Clustered,
           ~Clustered => \A r \in rows' : r \in rows \/ (r.ord \in Nat /\ drawn < r.ord),
           client' = client, DOMAIN follower' = DOMAIN follower,
           follower'.cursor = follower.cursor, follower'.batch = follower.batch,
           follower'.phase = follower.phase
             \/ (follower.batch = {} /\ Streaming /\ Streaming')
    PROVE  FeedInv'
<1>0. FollowerOK /\ ClientOK /\ NothingMissing
  BY DEF FeedInv
<1>1. FollowerOK'
  <2>1. follower'.phase \in {"off", "subscribed", "draining", "waiting"}
    BY <1>0 DEF FollowerOK, Streaming
  <2>2. follower'.batch # {} => follower'.phase = "draining"
    BY <1>0 DEF FollowerOK, Streaming
  <2>3. follower'.phase \in {"off", "subscribed"} => follower'.cursor = 0
    BY <1>0 DEF FollowerOK, Streaming
  <2>4. follower'.cursor \in 0..drawn' /\ follower'.batch \subseteq StoredRow
    BY <1>0 DEF FollowerOK
  <2>5. \A b \in follower'.batch : follower'.cursor < b.ord /\ b.ord <= drawn'
    BY <1>0 DEF FollowerOK, StoredRow
  <2>6. \A b, d \in follower'.batch : b.ord = d.ord => b = d
    BY <1>0 DEF FollowerOK
  <2>. QED BY <2>1, <2>2, <2>3, <2>4, <2>5, <2>6, <1>0 DEF FollowerOK, StoredRow
<1>2. Streaming' = Streaming
  BY <1>0 DEF Streaming
<1>3. ClientOK'
  <2>1. \A i \in 1..Len(client.got) : client.got[i].ord <= drawn'
    BY <1>0, GotRows DEF ClientOK
  <2>. QED BY <2>1, <1>0, <1>2 DEF ClientOK, FeedOrder, StoredRow
<1>4. NothingMissing'
  <2>. SUFFICES ASSUME ~Clustered PROVE NothingMissing'
    BY DEF NothingMissing
  <2>1. ASSUME client.got # <<>>, NEW r \in rows', client.start < r.ord,
               r.ord <= client.got[Len(client.got)].ord
        PROVE  r \in Range(client.got)
    <3>1. client.got \in Seq(StoredRow) /\ Len(client.got) \in 1..Len(client.got)
      BY <2>1, <1>0 DEF ClientOK
    <3>2. client.got[Len(client.got)].ord <= drawn /\ client.got[Len(client.got)].ord \in Nat
      BY <3>1, <1>0, GotRows DEF ClientOK
    <3>3. r \in rows
      BY <2>1, <3>2
    <3>. QED BY <3>3, <2>1, <1>0 DEF NothingMissing
  <2>2. ASSUME NEW b \in follower.batch, NEW r \in rows', follower.cursor < r.ord, r.ord <= b.ord
        PROVE  r \in follower.batch
    <3>1. b.ord <= drawn /\ b.ord \in Nat
      BY <1>0 DEF FollowerOK, StoredRow
    <3>3. r \in rows
      BY <2>2, <3>1
    <3>. QED BY <3>3, <2>2, <1>0 DEF NothingMissing
  <2>. QED BY <2>1, <2>2 DEF NothingMissing
<1>. QED BY <1>1, <1>3, <1>4 DEF FeedInv

(* A connection: off again, or subscribed, with the cursor at nothing.       *)
LEMMA ConnectFeedFeed ==
    ASSUME StoreInv, FeedInv, ConnectFeed \/ Disconnect, Clustered' = Clustered
    PROVE  FeedInv'
<1>0. FollowerOK /\ ClientOK /\ NothingMissing /\ drawn \in Nat
  BY DEF FeedInv, StoreInv, SiteOK
<1>1. /\ rows' = rows /\ drawn' = drawn /\ client' = client
      /\ \/ follower' = [NoFeed EXCEPT !.phase = "subscribed", !.hears = ~Clustered]
         \/ follower' = NoFeed
  BY DEF storeVars, ConnectFeed, Disconnect
<1>2. /\ DOMAIN follower' = DOMAIN NoFeed /\ follower'.phase \in {"off", "subscribed"}
      /\ follower'.cursor = 0 /\ follower'.batch = {}
  <2>1. CASE follower' = NoFeed
    BY <2>1 DEF NoFeed
  <2>2. CASE follower' = [NoFeed EXCEPT !.phase = "subscribed", !.hears = ~Clustered]
    BY <2>2 DEF NoFeed
  <2>. QED BY <1>1, <2>1, <2>2
<1>3. FollowerOK'
  BY <1>0, <1>1, <1>2 DEF FollowerOK
<1>4. ClientOK'
  BY <1>0, <1>1, <1>2 DEF ClientOK, FeedOrder, Streaming
<1>5. NothingMissing'
  BY <1>0, <1>1, <1>2 DEF NothingMissing
<1>. QED BY <1>3, <1>4, <1>5 DEF FeedInv

(* The connection's cursor: at the last event its client has, at the place   *)
(* it starts from, or before that.                                          *)
LEMMA BeginFeed ==
    ASSUME StoreInv, FeedInv, Clustered' = Clustered, NEW n \in Nat, NEW c,
           rows' = rows, drawn' = drawn, follower.phase = "subscribed",
           follower' = [follower EXCEPT !.phase = "draining", !.cursor = n], client' = c,
           c.got = client.got, c \in [got : Seq(StoredRow), start : Nat, fresh : {FALSE}],
           n <= drawn,
           client.got = <<>> => n <= c.start,
           client.got # <<>> => n = client.got[Len(client.got)].ord /\ c.start = client.start
    PROVE  FeedInv'
<1>0. FollowerOK /\ ClientOK /\ NothingMissing /\ drawn \in Nat
  BY DEF FeedInv, StoreInv, SiteOK
<1>1. /\ DOMAIN follower' = DOMAIN NoFeed /\ follower'.phase = "draining"
      /\ follower'.cursor = n /\ follower'.batch = follower.batch
  BY <1>0 DEF FollowerOK, NoFeed
<1>2. follower.batch = {}
  BY <1>0 DEF FollowerOK
<1>3. FollowerOK'
  BY <1>0, <1>1, <1>2 DEF FollowerOK
<1>4. ClientOK'
  BY <1>0, <1>1 DEF ClientOK, FeedOrder, Streaming
<1>5. NothingMissing'
  BY <1>0, <1>1, <1>2 DEF NothingMissing
<1>. QED BY <1>3, <1>4, <1>5 DEF FeedInv

LEMMA LastGot ==
    ASSUME StoreInv, FeedInv, client.got # <<>>
    PROVE  client.got[Len(client.got)].ord \in 0..drawn
<1>1. client.got \in Seq(StoredRow) /\ Len(client.got) \in 1..Len(client.got)
  BY DEF FeedInv, ClientOK
<1>2. client.got[Len(client.got)] \in StoredRow /\ client.got[Len(client.got)].ord <= drawn
  BY <1>1 DEF FeedInv, ClientOK
<1>. QED BY <1>2 DEF StoredRow, StoreInv, SiteOK

LEMMA BeginAtFeed ==
    ASSUME StoreInv, FeedInv, Clustered' = Clustered, NEW n \in Nat, Begin(n),
           client.got = <<>> => n = 0,
           client.got # <<>> => n = client.got[Len(client.got)].ord
    PROVE  FeedInv'
<1>. DEFINE c == client'
<1>0. /\ client \in [got : Seq(StoredRow), start : Nat, fresh : BOOLEAN] /\ drawn \in Nat
      /\ client.got # <<>> => ~client.fresh
  BY DEF FeedInv, ClientOK, StoreInv, SiteOK
<1>1. /\ rows' = rows /\ drawn' = drawn /\ follower.phase = "subscribed"
      /\ follower' = [follower EXCEPT !.phase = "draining", !.cursor = n]
      /\ c = IF client.fresh THEN [client EXCEPT !.start = n, !.fresh = FALSE] ELSE client
  BY DEF storeVars, Begin
<1>2. n <= drawn
  BY <1>0, LastGot
<1>3. c.got = client.got /\ c \in [got : Seq(StoredRow), start : Nat, fresh : {FALSE}]
  BY <1>0, <1>1
<1>4. client.got = <<>> => n <= c.start
  BY <1>0, <1>1
<1>5. client.got # <<>> => c.start = client.start
  BY <1>0, <1>1
<1>6. client' = c
  OBVIOUS
<1>. HIDE DEF c
<1>. QED BY <1>1, <1>2, <1>3, <1>4, <1>5, <1>6, BeginFeed

LEMMA BeginsFeed ==
    ASSUME StoreInv, FeedInv, Clustered' = Clustered, BeginFrom \/ BeginNow \/ BeginNowFails
    PROVE  FeedInv'
<1>0. /\ client \in [got : Seq(StoredRow), start : Nat, fresh : BOOLEAN] /\ drawn \in Nat
  BY DEF FeedInv, ClientOK, StoreInv, SiteOK
<1>1. CASE BeginFrom
  <2>1. CASE client.got = <<>>
    BY <1>1, <2>1, BeginAtFeed DEF BeginFrom
  <2>2. CASE client.got # <<>>
    <3>1. client.got[Len(client.got)].ord \in Nat
      BY <2>2, LastGot, <1>0
    <3>. QED BY <1>1, <2>2, <3>1, BeginAtFeed DEF BeginFrom
  <2>. QED BY <2>1, <2>2
<1>2. CASE BeginNowFails
  BY <1>2, BeginAtFeed DEF BeginNowFails
<1>3. CASE BeginNow
  <2>. DEFINE c == client'
  <2>1. PICK n \in Ords(rows) \cup {0} :
           /\ follower' = [follower EXCEPT !.phase = "draining", !.cursor = n]
           /\ client' = [client EXCEPT !.start = n, !.fresh = FALSE]
    BY <1>3 DEF storeVars, BeginNow
  <2>2. n \in Nat /\ n <= drawn
    BY <1>0 DEF Ords, StoreInv, RowsOK
  <2>3. rows' = rows /\ drawn' = drawn /\ follower.phase = "subscribed" /\ client.got = <<>>
    BY <1>3 DEF storeVars, BeginNow
  <2>4. /\ c.got = client.got /\ c.start = n
        /\ c \in [got : Seq(StoredRow), start : Nat, fresh : {FALSE}]
    BY <1>0, <2>1, <2>2
  <2>5. client' = c /\ n <= c.start
    BY <2>2, <2>4
  <2>. HIDE DEF c
  <2>. QED BY <2>1, <2>2, <2>3, <2>4, <2>5, BeginFeed
<1>. QED BY <1>1, <1>2, <1>3

(* A read takes the events right after the cursor: where it has one it has   *)
(* every earlier one.                                                       *)
LEMMA ReadBatchFeed ==
    ASSUME StoreInv, FeedInv, Clustered' = Clustered, ReadBatch
    PROVE  FeedInv'
<1>. DEFINE B == ReplayFleet(follower.cursor)
<1>0. FollowerOK /\ ClientOK /\ NothingMissing /\ RowsOK /\ drawn \in Nat
  BY DEF FeedInv, StoreInv, SiteOK
<1>1. /\ rows' = rows /\ drawn' = drawn /\ client' = client /\ follower.phase = "draining"
      /\ follower' = [follower EXCEPT !.batch = B]
  BY DEF storeVars, ReadBatch
<1>2. B \subseteq rows /\ \A b \in B : follower.cursor < b.ord
  BY <1>0 DEF ReplayFleet, After, RowsOK, FollowerOK, StoredRow
<1>3. ASSUME NEW b \in B, NEW r \in rows, follower.cursor < r.ord, r.ord <= b.ord
      PROVE  r \in B
  <2>. DEFINE Before(x) == {s \in After(follower.cursor) : s.ord < x.ord}
  <2>1. b \in rows /\ b \in StoredRow /\ r \in StoredRow
    BY <1>0, <1>2 DEF RowsOK
  <2>2. IsFiniteSet(Before(b))
    BY <1>0, FS_Subset DEF After, RowsOK
  <2>3. Before(r) \subseteq Before(b)
    BY <1>0, <1>3, <2>1 DEF After, RowsOK, StoredRow
  <2>4. Cardinality(Before(r)) <= Cardinality(Before(b)) /\ IsFiniteSet(Before(r))
    BY <2>2, <2>3, FS_Subset
  <2>5. Cardinality(Before(r)) \in Nat /\ Cardinality(Before(b)) \in Nat
    BY <2>2, <2>4, FS_CardinalityType
  <2>6. Cardinality(Before(b)) < FeedBatch
    BY DEF ReplayFleet
  <2>7. Cardinality(Before(r)) < FeedBatch
    BY <2>4, <2>5, <2>6, DeliveryAssumption
  <2>8. r \in After(follower.cursor)
    BY <1>0, <1>3, <2>1 DEF After, FollowerOK, StoredRow
  <2>. QED BY <2>7, <2>8 DEF ReplayFleet
<1>. HIDE DEF B
<1>4. /\ DOMAIN follower' = DOMAIN NoFeed /\ follower'.phase = follower.phase
      /\ follower'.cursor = follower.cursor /\ follower'.batch = B
  BY <1>0, <1>1 DEF FollowerOK, NoFeed
<1>5. FollowerOK'
  <2>1. \A b \in B : b.ord <= drawn
    BY <1>0, <1>2 DEF RowsOK
  <2>2. \A b, d \in B : b.ord = d.ord => b = d
    BY <1>0, <1>2 DEF RowsOK
  <2>3. B \subseteq StoredRow
    BY <1>0, <1>2 DEF RowsOK
  <2>. QED BY <1>0, <1>1, <1>2, <1>4, <2>1, <2>2, <2>3 DEF FollowerOK, StoredRow
<1>6. ClientOK'
  BY <1>0, <1>1, <1>4 DEF ClientOK, FeedOrder, Streaming, StoredRow
<1>7. NothingMissing'
  BY <1>0, <1>1, <1>3, <1>4 DEF NothingMissing
<1>. QED BY <1>5, <1>6, <1>7 DEF FeedInv

(* The first of what was read goes out.                                      *)
LEMMA YieldFeed ==
    ASSUME StoreInv, FeedInv, Clustered' = Clustered, Yield
    PROVE  FeedInv'
<1>0. FollowerOK /\ ClientOK /\ NothingMissing /\ RowsOK /\ drawn \in Nat
  BY DEF FeedInv, StoreInv, SiteOK
<1>1. PICK c \in follower.batch :
        /\ First(c, follower.batch)
        /\ follower' = [follower EXCEPT !.cursor = c.ord, !.batch = @ \ {c}]
        /\ client' = [client EXCEPT !.got = Append(@, c)]
        /\ rows' = rows /\ drawn' = drawn
  BY DEF storeVars, Yield
<1>2. /\ c \in StoredRow /\ c.ord \in Nat /\ follower.cursor < c.ord /\ c.ord <= drawn
      /\ follower.phase = "draining" /\ \A b \in follower.batch : c.ord <= b.ord
  BY <1>0, <1>1 DEF FollowerOK, StoredRow, First
<1>3. /\ DOMAIN follower' = DOMAIN NoFeed /\ follower'.phase = "draining"
      /\ follower'.cursor = c.ord /\ follower'.batch = follower.batch \ {c}
  BY <1>0, <1>1, <1>2 DEF FollowerOK, NoFeed
<1>4. /\ client.got \in Seq(StoredRow) /\ client'.got = Append(client.got, c)
      /\ client' \in [got : Seq(StoredRow), start : Nat, fresh : BOOLEAN]
      /\ client'.start = client.start /\ client'.fresh = client.fresh
      /\ client'.got \in Seq(StoredRow) /\ client'.got # <<>>
      /\ Len(client'.got) = Len(client.got) + 1 /\ client'.got[Len(client.got) + 1] = c
      /\ \A i \in 1..Len(client.got) : client'.got[i] = client.got[i]
  <2>1. /\ client \in [got : Seq(StoredRow), start : Nat, fresh : BOOLEAN]
        /\ client.got \in Seq(StoredRow)
    BY <1>0 DEF ClientOK
  <2>2. client'.got = Append(client.got, c) /\ client'.start = client.start
        /\ client'.fresh = client.fresh
    BY <1>1, <2>1
  <2>3. Append(client.got, c) \in Seq(StoredRow)
    BY <1>2, <2>1
  <2>4. client' \in [got : Seq(StoredRow), start : Nat, fresh : BOOLEAN]
    BY <1>1, <2>1, <2>3
  <2>5. /\ Append(client.got, c) # <<>> /\ Len(Append(client.got, c)) = Len(client.got) + 1
        /\ Append(client.got, c)[Len(client.got) + 1] = c
        /\ \A i \in 1..Len(client.got) : Append(client.got, c)[i] = client.got[i]
    BY <1>2, <2>1
  <2>. QED BY <2>1, <2>2, <2>3, <2>4, <2>5
<1>5. FollowerOK'
  <2>1. \A b \in follower'.batch : c.ord < b.ord /\ b.ord <= drawn
    BY <1>0, <1>1, <1>2, <1>3 DEF FollowerOK, StoredRow
  <2>. QED BY <1>0, <1>1, <1>2, <1>3, <2>1 DEF FollowerOK, StoredRow
<1>6. client.got # <<>> => follower.cursor = client.got[Len(client.got)].ord
  BY <1>0, <1>2 DEF ClientOK, Streaming
<1>7. ClientOK'
  <2>1. \A i \in 1..Len(client'.got) : client'.got[i].ord <= drawn'
    BY <1>0, <1>1, <1>2, <1>4 DEF ClientOK
  <2>2. ASSUME NEW i \in 1..Len(client'.got) - 1
        PROVE  client'.got[i].ord < client'.got[i + 1].ord
    <3>1. CASE i = Len(client.got)
      <4>1. client.got # <<>> /\ i \in 1..Len(client.got)
        BY <3>1, <1>4
      <4>. QED BY <3>1, <4>1, <1>2, <1>4, <1>6
    <3>2. CASE i # Len(client.got)
      <4>1. i \in 1..Len(client.got) - 1 /\ i + 1 \in 1..Len(client.got) /\ i \in 1..Len(client.got)
        BY <3>2, <1>4
      <4>. QED BY <4>1, <1>4, <1>0 DEF ClientOK, FeedOrder
    <3>. QED BY <3>1, <3>2
  <2>3. ~client.fresh
    BY <1>0, <1>2 DEF ClientOK, Streaming
  <2>. QED BY <2>1, <2>2, <2>3, <1>3, <1>4 DEF ClientOK, FeedOrder, Streaming
<1>8. NothingMissing'
  <2>. SUFFICES ASSUME ~Clustered PROVE NothingMissing'
    BY DEF NothingMissing
  <2>0. ASSUME NEW r \in Range(client.got) PROVE r \in Range(client'.got)
    BY <1>4 DEF Range
  <2>1. ASSUME NEW r \in rows, client.start < r.ord, r.ord <= c.ord
        PROVE  r \in Range(client'.got)
    <3>0. r \in StoredRow /\ r.ord \in Nat /\ follower.cursor \in Nat
      BY <1>0 DEF RowsOK, FollowerOK, StoredRow
    <3>1. CASE follower.cursor < r.ord
      <4>1. r \in follower.batch
        BY <3>1, <2>1, <1>0 DEF NothingMissing
      <4>2. r = c
        BY <4>1, <2>1, <1>0, <1>2, <3>0 DEF FollowerOK
      <4>3. Len(client.got) + 1 \in DOMAIN client'.got
        BY <1>4
      <4>. QED BY <4>2, <4>3, <1>4 DEF Range
    <3>2. CASE r.ord <= follower.cursor
      <4>1. client.start \in Nat
        BY <1>0 DEF ClientOK
      <4>2. client.got # <<>>
        BY <3>0, <3>2, <4>1, <2>1, <1>0, <1>2 DEF ClientOK, Streaming
      <4>3. r \in Range(client.got)
        BY <4>2, <3>2, <2>1, <1>0, <1>6 DEF NothingMissing
      <4>. QED BY <4>3, <2>0
    <3>. QED BY <3>0, <3>1, <3>2
  <2>2. ASSUME NEW b \in follower'.batch, NEW r \in rows, c.ord < r.ord, r.ord <= b.ord
        PROVE  r \in follower'.batch
    <3>1. r \in StoredRow /\ r.ord \in Nat /\ follower.cursor \in Nat /\ b \in follower.batch
      BY <1>0, <1>3 DEF RowsOK, FollowerOK, StoredRow
    <3>2. r \in follower.batch
      BY <3>1, <2>2, <1>0, <1>2 DEF NothingMissing
    <3>3. r # c
      BY <2>2, <3>1, <1>2
    <3>. QED BY <3>2, <3>3, <1>3
  <2>. QED BY <2>1, <2>2, <1>1, <1>3, <1>4 DEF NothingMissing
<1>. QED BY <1>5, <1>7, <1>8 DEF FeedInv
(* What every other step does to the connection.                             *)
QuietFollower ==
    /\ DOMAIN follower' = DOMAIN follower
    /\ follower'.cursor = follower.cursor /\ follower'.batch = follower.batch
    /\ \/ follower'.phase = follower.phase
       \/ follower.batch = {} /\ Streaming /\ Streaming'

LEMMA RungFollower ==
    ASSUME FollowerOK, NEW k, follower' = FeedRung(follower, k)
    PROVE  QuietFollower
<1>0. DOMAIN follower = DOMAIN NoFeed
  BY DEF FollowerOK
<1>1. \/ follower' = [follower EXCEPT !.deaf = Clustered]
      \/ follower' = [follower EXCEPT !.bells = @ \cup {k}]
      \/ follower' = [follower EXCEPT !.items = @ + 1]
  BY DEF FeedRung
<1>2. CASE follower' = [follower EXCEPT !.deaf = Clustered]
  BY <1>0, <1>2 DEF QuietFollower, NoFeed
<1>3. CASE follower' = [follower EXCEPT !.bells = @ \cup {k}]
  BY <1>0, <1>3 DEF QuietFollower, NoFeed
<1>4. CASE follower' = [follower EXCEPT !.items = @ + 1]
  BY <1>0, <1>4 DEF QuietFollower, NoFeed
<1>. QED BY <1>1, <1>2, <1>3, <1>4

Feeds == \/ BeginFrom \/ BeginNow \/ BeginNowFails \/ ReadBatch \/ Yield
         \/ ConnectFeed \/ Disconnect

LEMMA OthersQuiet ==
    ASSUME FollowerOK, [DeliveryNext]_deliveryVars, ~Feeds
    PROVE  QuietFollower /\ client' = client
<1>0. DOMAIN follower = DOMAIN NoFeed
  BY DEF FollowerOK
<1>1. CASE follower' = follower /\ client' = client
  BY <1>1 DEF QuietFollower
<1>2. ASSUME NEW w \in writes, Notify(w) PROVE QuietFollower /\ client' = client
  BY <1>2, RungFollower DEF Notify
<1>3. ASSUME NEW w \in writes, NotifyFails(w) PROVE QuietFollower /\ client' = client
  BY <1>0, <1>3 DEF NotifyFails, QuietFollower, NoFeed
<1>4. ASSUME NEW k \in Keys, DoorbellReplayFails(k) PROVE QuietFollower /\ client' = client
  BY <1>0, <1>4 DEF DoorbellReplayFails, QuietFollower, NoFeed
<1>5. ASSUME NEW k \in Keys, DoorbellReplay(k) PROVE QuietFollower /\ client' = client
  BY <1>0, <1>5 DEF DoorbellReplay, QuietFollower, NoFeed
<1>6. CASE ReadNothing
  BY <1>0, <1>6 DEF ReadNothing, QuietFollower, NoFeed, Streaming
<1>7. CASE ReadFails
  BY <1>0, <1>7 DEF ReadFails, QuietFollower, NoFeed, Streaming
<1>8. CASE Listen
  BY <1>0, <1>8 DEF Listen, QuietFollower, NoFeed
<1>9. CASE Wake
  <2>1. follower.batch = {}
    BY <1>9 DEF Wake, FollowerOK
  <2>. QED BY <1>0, <1>9, <2>1 DEF Wake, QuietFollower, NoFeed, Streaming
<1>. QED
  BY <1>1, <1>2, <1>3, <1>4, <1>5, <1>6, <1>7, <1>8, <1>9 DEF Feeds, DeliveryNext, Delivers,
     deliveryVars, Number, AppendLocal, Allocate, Commit, BecomesVisible, AppendFails, PruneTo,
     OpenTail, OpenTailBlind, SendHistory, ListenTail, TailRung, TailStep, TailReplayFails,
     TailIgnores

(* Where ordinals are visible as they are drawn, the rows a step adds lie    *)
(* beyond them.                                                             *)
LEMMA RowsBeyond ==
    ASSUME StoreInv, [DeliveryNext]_deliveryVars, ~Clustered, NEW r \in rows'
    PROVE  r \in rows \/ (r.ord \in Nat /\ drawn < r.ord)
<1>0. drawn \in Nat
  BY DEF StoreInv, SiteOK
<1>1. CASE Stores
  <2>1. ASSUME NEW w \in writes, Allocate(w) PROVE FALSE
    BY <2>1 DEF Allocate
  <2>2. ASSUME NEW w \in writes, Commit(w) PROVE FALSE
    BY <2>2 DEF Commit, StoreInv, WritesOK
  <2>3. ASSUME NEW w \in writes, AppendLocal(w) PROVE r \in rows \/ r.ord = drawn + 1
    BY <2>3 DEF AppendLocal, BecomesVisible, NextOrdinal
  <2>4. ASSUME NEW k \in Keys, Number(k) PROVE r \in rows
    BY <2>4 DEF Number
  <2>. QED BY <1>0, <1>1, <2>1, <2>2, <2>3, <2>4 DEF Stores
<1>2. CASE ~Stores
  BY <1>2, OnlyTheseStore
<1>. QED BY <1>1, <1>2

LEMMA FeedStep == StoreInv /\ FeedInv /\ [DeliveryNext]_deliveryVars => FeedInv'
<1>. SUFFICES ASSUME StoreInv, FeedInv, [DeliveryNext]_deliveryVars PROVE FeedInv'
  OBVIOUS
<1>0. SiteOK /\ SiteOK' /\ Clustered' = Clustered /\ drawn <= drawn'
  BY DeliverySiteStep DEF StoreInv
<1>1. CASE Feeds
  BY <1>0, <1>1, BeginsFeed, ReadBatchFeed, YieldFeed, ConnectFeedFeed DEF Feeds
<1>2. CASE ~Feeds
  <2>1. QuietFollower /\ client' = client
    BY <1>2, OthersQuiet DEF FeedInv
  <2>2. drawn \in Nat /\ drawn' \in Nat
    BY <1>0 DEF SiteOK
  <2>3. ~Clustered => \A r \in rows' : r \in rows \/ (r.ord \in Nat /\ drawn < r.ord)
    BY RowsBeyond
  <2>. QED BY <1>0, <2>1, <2>2, <2>3, FeedQuiet DEF QuietFollower
<1>. QED BY <1>1, <1>2

(* The tail. *)

LEMMA TailInvInit == DeliveryInit => TailInv
<1>. SUFFICES ASSUME DeliveryInit PROVE TailInv
  OBVIOUS
<1>1. rows = {} /\ tail = NoTail /\ peak[TailKey] = 0
  BY DeliveryAssumption DEF DeliveryInit
<1>2. TailType
  BY <1>1 DEF TailType, NoTail
<1>3. TailOK
  BY <1>1 DEF TailOK, TailExact, NoTail, Floor
<1>. QED BY <1>2, <1>3 DEF TailInv

(* What a step may add to the agent's stored events is late, or lies beyond  *)
(* those that were visible before.                                          *)
TailRowsGrow ==
    /\ peak[TailKey] \in Nat /\ peak'[TailKey] \in Nat /\ peak[TailKey] <= peak'[TailKey]
    /\ \A r \in rows' : r.key = TailKey
          => r \in rows \/ r.late \/ (r.seq \in Nat /\ peak[TailKey] < r.seq)

LEMMA TailRowsStep ==
    ASSUME StoreInv, StoreInv', [DeliveryNext]_deliveryVars
    PROVE  TailRowsGrow
<1>0. peak \in [Keys -> Nat] /\ TailKey \in Keys /\ peak[TailKey] \in Nat /\ peak'[TailKey] \in Nat
  BY DeliveryAssumption DEF StoreInv, WritesOK
<1>1. CASE rows' \subseteq rows /\ peak' = peak
  BY <1>0, <1>1 DEF TailRowsGrow
<1>2. ASSUME NEW w \in writes, NEW n, BecomesVisible(w, n) PROVE TailRowsGrow
  <2>. DEFINE new == [ord |-> n, key |-> w.key, seq |-> w.seq, late |-> w.seq <= peak[w.key]]
  <2>0. w.key \in Keys /\ w.seq \in Nat /\ peak[w.key] \in Nat
    BY <1>0 DEF StoreInv, WritesOK, Write
  <2>1. /\ rows' = rows \cup {new}
        /\ peak' = [peak EXCEPT ![w.key] = IF w.seq <= @ THEN @ ELSE w.seq]
    BY <1>2 DEF BecomesVisible
  <2>2. new.key = w.key /\ new.seq = w.seq /\ (new.late <=> w.seq <= peak[w.key])
    OBVIOUS
  <2>. HIDE DEF new
  <2>3. peak[TailKey] <= peak'[TailKey]
    BY <1>0, <2>0, <2>1
  <2>4. new.key = TailKey => new.late \/ (new.seq \in Nat /\ peak[TailKey] < new.seq)
    BY <2>0, <2>2
  <2>. QED BY <1>0, <2>1, <2>3, <2>4 DEF TailRowsGrow
<1>3. CASE Stores
  BY <1>1, <1>2, <1>3 DEF Stores, Number, Allocate, AppendLocal, Commit
<1>4. CASE ~Stores
  BY <1>1, <1>4, OnlyTheseStore
<1>. QED BY <1>3, <1>4

(* A step that only rings the tail, or leaves it alone.                      *)
LEMMA TailQuiet ==
    ASSUME TailInv, TailRowsGrow, TailType', tail'.last = tail.last, tail'.mark = tail.mark,
           tail'.hears = tail.hears, tail'.pending = tail.pending, tail'.got = tail.got,
           tail'.bells # {} => tail'.hears
    PROVE  TailInv'
<1>0. TailType /\ TailOK /\ tail.last \in Nat /\ tail.mark \in Nat /\ tail.pending \subseteq Nat
  BY DEF TailInv, TailType
<1>1. Floor(tail') = Floor(tail)
  BY DEF Floor
<1>2. tail.last <= peak'[TailKey]
  BY <1>0 DEF TailOK, TailRowsGrow
<1>3. \A s \in tail.pending : Floor(tail) < s /\ s <= peak'[TailKey]
  BY <1>0 DEF TailOK, TailRowsGrow
<1>4. ASSUME NEW s \in tail.pending, NEW r \in rows', r.key = TailKey,
             Floor(tail) < r.seq, r.seq <= s, ~r.late
      PROVE  r \in rows /\ r.seq \in tail.pending
  <2>1. s <= peak[TailKey] /\ s \in Nat
    BY <1>0 DEF TailOK
  <2>2. r \in rows
    BY <1>4, <2>1 DEF TailRowsGrow
  <2>. QED BY <1>0, <1>4, <2>2 DEF TailOK
<1>5. ASSUME NEW r \in rows', r.key = TailKey, r.seq <= tail.last, ~r.late
      PROVE  r.seq \in Range(tail.got)
  <2>1. tail.last <= peak[TailKey]
    BY <1>0 DEF TailOK
  <2>2. r \in rows
    BY <1>0, <1>5, <2>1 DEF TailRowsGrow
  <2>. QED BY <1>0, <1>5, <2>2 DEF TailOK, TailExact
<1>6. TailExact'
  BY <1>0, <1>5 DEF TailOK, TailExact
<1>7. TailOK'
  BY <1>0, <1>1, <1>2, <1>3, <1>4, <1>6 DEF TailOK
<1>. QED BY <1>7 DEF TailInv
(* A read of what is stored beyond the floor.                                *)
LEMMA TailReads ==
    ASSUME StoreInv, TailType', rows' = rows, peak' = peak,
           \A s : s \in tail'.pending
                 <=> \E r \in rows : r.key = TailKey /\ r.seq = s /\ Floor(tail') < s,
           tail'.mark <= tail'.last, tail'.last <= peak[TailKey], TailExact',
           tail'.bells # {} => tail'.hears
    PROVE  TailInv'
<1>1. \A s \in tail'.pending : Floor(tail') < s /\ s <= peak[TailKey]
  BY DEF StoreInv, RowsOK
<1>2. TailOK'
  BY <1>1 DEF TailOK
<1>. QED BY <1>2 DEF TailInv

LEMMA OpenTailTail ==
    ASSUME StoreInv, TailInv, OpenTail
    PROVE  TailInv'
<1>0. /\ rows' = rows /\ peak' = peak
      /\ tail' = [NoTail EXCEPT !.phase = "open", !.pending = Replay(TailKey, 0)]
  BY DEF storeVars, OpenTail
<1>1. /\ tail'.last = 0 /\ tail'.mark = 0 /\ ~tail'.hears /\ tail'.got = <<>> /\ tail'.bells = {}
      /\ tail'.pending = Replay(TailKey, 0) /\ Floor(tail') = 0
  BY <1>0 DEF NoTail, Floor
<1>2. \A r \in rows : r.key = TailKey => r.seq \in 1..peak[TailKey]
  BY DEF StoreInv, RowsOK
<1>3. peak[TailKey] \in Nat
  BY DeliveryAssumption DEF StoreInv, WritesOK
<1>4. \A s : s \in tail'.pending
            <=> \E r \in rows : r.key = TailKey /\ r.seq = s /\ Floor(tail') < s
  BY <1>1, <1>2, <1>3 DEF Replay
<1>5. Replay(TailKey, 0) \in SUBSET Nat
  BY <1>2, <1>3 DEF Replay
<1>6. TailType'
  <2>1. tail' = [phase |-> "open", last |-> 0, mark |-> 0, hears |-> FALSE,
                 pending |-> Replay(TailKey, 0), bells |-> {}, got |-> <<>>, deaf |-> FALSE]
    BY <1>0 DEF NoTail
  <2>2. <<>> \in Seq(Nat) /\ {} \in SUBSET Keys
    OBVIOUS
  <2>. QED BY <1>5, <2>1, <2>2 DEF TailType
<1>7. TailExact'
  BY <1>0, <1>1, <1>2, <1>3 DEF TailExact
<1>. QED BY <1>0, <1>1, <1>3, <1>4, <1>6, <1>7, TailReads

LEMMA OpenBlindTail ==
    ASSUME StoreInv, TailInv, OpenTailBlind
    PROVE  TailInv'
<1>0. /\ rows' = rows /\ peak' = peak
      /\ tail' = [NoTail EXCEPT !.phase = "open", !.deaf = TRUE]
  BY DEF storeVars, OpenTailBlind
<1>1. /\ tail'.last = 0 /\ tail'.mark = 0 /\ ~tail'.hears /\ tail'.got = <<>> /\ tail'.bells = {}
      /\ tail'.pending = {}
  BY <1>0 DEF NoTail
<1>2. \A r \in rows : r.key = TailKey => r.seq \in 1..peak[TailKey]
  BY DEF StoreInv, RowsOK
<1>3. peak[TailKey] \in Nat
  BY DeliveryAssumption DEF StoreInv, WritesOK
<1>6. TailType'
  <2>1. tail' = [phase |-> "open", last |-> 0, mark |-> 0, hears |-> FALSE, pending |-> {},
                 bells |-> {}, got |-> <<>>, deaf |-> TRUE]
    BY <1>0 DEF NoTail
  <2>2. <<>> \in Seq(Nat) /\ {} \in SUBSET Keys /\ {} \in SUBSET Nat
    OBVIOUS
  <2>. QED BY <2>1, <2>2 DEF TailType
<1>7. TailExact'
  BY <1>0, <1>1, <1>2, <1>3 DEF TailExact
<1>8. TailOK'
  BY <1>0, <1>1, <1>3, <1>7 DEF TailOK
<1>. QED BY <1>6, <1>8 DEF TailInv

LEMMA TailRungTail ==
    ASSUME StoreInv, TailInv, TailRung
    PROVE  TailInv'
<1>0. /\ rows' = rows /\ peak' = peak /\ TailType /\ TailOK
      /\ tail' = [tail EXCEPT !.bells = {}, !.deaf = FALSE,
                              !.pending = Replay(TailKey, tail.mark + 1)]
      /\ tail.hears /\ tail.mark \in Nat
  BY DEF storeVars, TailRung, TailInv, TailOK, TailType
<1>1. /\ tail'.last = tail.last /\ tail'.mark = tail.mark /\ tail'.hears /\ tail'.got = tail.got
      /\ tail'.bells = {} /\ tail'.pending = Replay(TailKey, tail.mark + 1)
      /\ Floor(tail') = tail.mark
  BY <1>0 DEF TailType, Floor
<1>2. \A r \in rows : r.seq \in Nat
  BY DEF StoreInv, RowsOK, StoredRow
<1>4. \A s : s \in tail'.pending
            <=> \E r \in rows : r.key = TailKey /\ r.seq = s /\ Floor(tail') < s
  <2>1. \A r \in rows : r.seq >= tail.mark + 1 <=> tail.mark < r.seq
    BY <1>0, <1>2
  <2>2. \A s : s \in Replay(TailKey, tail.mark + 1)
               <=> \E r \in rows : r.key = TailKey /\ r.seq = s /\ r.seq >= tail.mark + 1
    BY DEF Replay
  <2>. QED BY <1>1, <2>1, <2>2
<1>5. Replay(TailKey, tail.mark + 1) \in SUBSET Nat
  BY <1>2 DEF Replay
<1>6. TailType'
  BY <1>0, <1>5 DEF TailType
<1>7. TailExact'
  BY <1>0, <1>1 DEF TailExact, TailOK
<1>8. tail'.mark <= tail'.last /\ tail'.last <= peak[TailKey]
  BY <1>0, <1>1 DEF TailOK
<1>. QED BY <1>0, <1>1, <1>4, <1>6, <1>7, <1>8, TailReads

(* The first of what is pending, beyond the last event sent, is sent: every  *)
(* stored event up to it was sent before or is the one.                     *)
LEMMA TailSends ==
    ASSUME StoreInv, TailInv, TailType', rows' = rows, peak' = peak,
           NEW s \in tail.pending, Least(s, tail.pending), tail.last < s, Floor(tail) <= tail.last,
           tail'.got = Append(tail.got, s), tail'.last = s, tail'.pending = tail.pending \ {s},
           tail'.mark <= s, Floor(tail') = s, tail'.bells # {} => tail'.hears
    PROVE  TailInv'
<1>0. /\ TailType /\ TailOK /\ tail.last \in Nat /\ tail.mark \in Nat
      /\ tail.pending \subseteq Nat /\ s \in Nat /\ tail.got \in Seq(Nat) /\ Floor(tail) \in Nat
      /\ peak[TailKey] \in Nat /\ rows \subseteq StoredRow
  BY DeliveryAssumption DEF TailInv, TailType, Floor, StoreInv, WritesOK, RowsOK
<1>1. \A t \in tail.pending : s <= t /\ Floor(tail) < t /\ t <= peak[TailKey]
  BY <1>0 DEF Least, TailOK
<1>2. ASSUME NEW t \in tail.pending, NEW r \in rows, r.key = TailKey,
             Floor(tail) < r.seq, r.seq <= t, ~r.late
      PROVE  r.seq \in tail.pending
  BY <1>0, <1>2 DEF TailOK
<1>3. \A t \in tail'.pending : s < t /\ t <= peak[TailKey]
  BY <1>0, <1>1
<1>4. ASSUME NEW t \in tail'.pending, NEW r \in rows, r.key = TailKey, s < r.seq, r.seq <= t,
             ~r.late
      PROVE  r.seq \in tail'.pending
  <2>1. r.seq \in Nat /\ Floor(tail) < r.seq /\ t \in tail.pending
    BY <1>0, <1>4 DEF StoredRow
  <2>2. r.seq \in tail.pending
    BY <1>2, <1>4, <2>1
  <2>. QED BY <1>0, <1>4, <2>1, <2>2
<1>5. /\ Len(tail'.got) = Len(tail.got) + 1 /\ tail'.got[Len(tail.got) + 1] = s
      /\ \A i \in 1..Len(tail.got) : tail'.got[i] = tail.got[i]
      /\ DOMAIN tail'.got = 1..Len(tail.got) + 1 /\ DOMAIN tail.got = 1..Len(tail.got)
      /\ Len(tail.got) \in Nat
  BY <1>0
<1>6. /\ \A i \in 1..Len(tail.got) - 1 : tail.got[i] < tail.got[i + 1]
      /\ \A i \in 1..Len(tail.got) : tail.got[i] \in 1..tail.last
      /\ \A r \in rows : r.key = TailKey /\ r.seq <= tail.last /\ ~r.late
                         => r.seq \in Range(tail.got)
  BY <1>0 DEF TailOK, TailExact
<1>7. TailExact'
  <2>1. ASSUME NEW i \in 1..Len(tail'.got) - 1 PROVE tail'.got[i] < tail'.got[i + 1]
    <3>1. CASE i = Len(tail.got)
      <4>1. i \in 1..Len(tail.got)
        BY <2>1, <3>1, <1>5
      <4>2. tail'.got[i] \in 1..tail.last
        BY <4>1, <1>5, <1>6
      <4>3. tail'.got[i + 1] = s
        BY <3>1, <1>5
      <4>. QED BY <4>2, <4>3, <1>0
    <3>2. CASE i # Len(tail.got)
      <4>1. i \in 1..Len(tail.got) - 1 /\ i \in 1..Len(tail.got) /\ i + 1 \in 1..Len(tail.got)
        BY <2>1, <3>2, <1>5
      <4>. QED BY <4>1, <1>5, <1>6
    <3>. QED BY <3>1, <3>2
  <2>2. ASSUME NEW i \in 1..Len(tail'.got) PROVE tail'.got[i] \in 1..s
    <3>1. CASE i = Len(tail.got) + 1
      BY <3>1, <1>0, <1>5
    <3>2. CASE i # Len(tail.got) + 1
      <4>1. i \in 1..Len(tail.got)
        BY <2>2, <3>2, <1>5
      <4>. QED BY <4>1, <1>0, <1>5, <1>6
    <3>. QED BY <3>1, <3>2
  <2>3. ASSUME NEW r \in rows, r.key = TailKey, r.seq <= s, ~r.late
        PROVE  r.seq \in Range(tail'.got)
    <3>0. r.seq \in Nat
      BY <1>0 DEF StoredRow
    <3>1. CASE r.seq <= tail.last
      <4>1. r.seq \in Range(tail.got)
        BY <2>3, <3>1, <1>6
      <4>. QED BY <4>1, <1>5 DEF Range
    <3>2. CASE tail.last < r.seq
      <4>1. r.seq \in tail.pending
        BY <2>3, <3>0, <3>2, <1>0, <1>2
      <4>2. r.seq = s
        BY <4>1, <2>3, <3>0, <1>0, <1>1
      <4>. QED BY <4>2, <1>5 DEF Range
    <3>. QED BY <3>0, <3>1, <3>2, <1>0
  <2>. QED BY <2>1, <2>2, <2>3 DEF TailExact
<1>8. TailOK'
  BY <1>0, <1>1, <1>3, <1>4, <1>7 DEF TailOK
<1>. QED BY <1>8 DEF TailInv

LEMMA ForwardedIs ==
    ASSUME TailType, NEW s \in Nat
    PROVE  /\ Forwarded(tail, s).got = Append(tail.got, s) /\ Forwarded(tail, s).last = s
           /\ Forwarded(tail, s).pending = tail.pending \ {s}
           /\ Forwarded(tail, s).hears = tail.hears /\ Forwarded(tail, s).mark = tail.mark
           /\ Forwarded(tail, s).bells = tail.bells
           /\ Forwarded(tail, s) \in [phase : {"off", "open", "closed"}, last : Nat, mark : Nat,
                 hears : BOOLEAN, pending : SUBSET Nat, bells : SUBSET Keys, got : Seq(Nat),
                 deaf : BOOLEAN]
<1>1. Append(tail.got, s) \in Seq(Nat) /\ tail.pending \ {s} \in SUBSET Nat
  BY DEF TailType
<1>2. (IF IsTerminal(s) THEN "closed" ELSE "open") \in {"off", "open", "closed"}
  OBVIOUS
<1>. QED BY <1>1, <1>2 DEF TailType, Forwarded

LEMMA SendHistoryTail ==
    ASSUME StoreInv, TailInv, SendHistory
    PROVE  TailInv'
<1>0. TailType /\ TailOK /\ rows' = rows /\ peak' = peak /\ ~tail.hears
  BY DEF storeVars, SendHistory, TailInv
<1>1. PICK s \in tail.pending : Least(s, tail.pending) /\ tail' = Forwarded(tail, s)
  BY DEF storeVars, SendHistory
<1>2. /\ s \in Nat /\ tail.last < s /\ tail.last \in Nat /\ tail.mark \in Nat
      /\ Floor(tail) = tail.last
      /\ tail.mark <= tail.last
  BY <1>0 DEF TailType, TailOK, Floor
<1>3. TailType'
  BY <1>0, <1>1, <1>2, ForwardedIs DEF TailType
<1>4. Floor(tail') = s
  BY <1>0, <1>1, <1>2, ForwardedIs DEF Floor
<1>5. tail'.bells # {} => tail'.hears
  BY <1>0, <1>1, <1>2, ForwardedIs DEF TailOK
<1>6. /\ tail'.got = Append(tail.got, s) /\ tail'.last = s /\ tail'.pending = tail.pending \ {s}
      /\ tail'.mark <= s
  <2>1. Forwarded(tail, s).mark = tail.mark /\ tail.mark <= s
    BY <1>0, <1>2, ForwardedIs
  <2>. QED BY <1>0, <1>1, <1>2, <2>1, ForwardedIs
<1>. QED BY <1>0, <1>1, <1>2, <1>3, <1>4, <1>5, <1>6, TailSends

LEMMA TailStepTail ==
    ASSUME StoreInv, TailInv, TailStep
    PROVE  TailInv'
<1>0. TailType /\ TailOK /\ rows' = rows /\ peak' = peak /\ tail.hears
  BY DEF storeVars, TailStep, TailInv
<1>1. PICK s \in tail.pending :
        /\ Least(s, tail.pending)
        /\ tail' = [(IF s > tail.last THEN Forwarded(tail, s)
                     ELSE [tail EXCEPT !.pending = @ \ {s}]) EXCEPT !.mark = s]
  BY DEF storeVars, TailStep
<1>2. s \in Nat /\ tail.last \in Nat /\ tail.mark \in Nat /\ Floor(tail) = tail.mark
      /\ tail.mark <= tail.last
  BY <1>0 DEF TailType, TailOK, Floor
<1>3. CASE s > tail.last
  <2>. DEFINE f == Forwarded(tail, s)
  <2>1. tail' = [f EXCEPT !.mark = s]
    BY <1>1, <1>3
  <2>2. /\ f.got = Append(tail.got, s) /\ f.last = s /\ f.pending = tail.pending \ {s}
        /\ f.hears = tail.hears /\ f.bells = tail.bells
        /\ f \in [phase : {"off", "open", "closed"}, last : Nat, mark : Nat,
                 hears : BOOLEAN, pending : SUBSET Nat, bells : SUBSET Keys, got : Seq(Nat),
                 deaf : BOOLEAN]
    BY <1>0, <1>2, ForwardedIs
  <2>. HIDE DEF f
  <2>3. TailType'
    BY <1>2, <2>1, <2>2 DEF TailType
  <2>4. /\ tail'.got = Append(tail.got, s) /\ tail'.last = s /\ tail'.pending = tail.pending \ {s}
        /\ tail'.mark = s /\ tail'.hears = tail.hears
    BY <1>2, <2>1, <2>2
  <2>5. Floor(tail') = s
    BY <1>0, <2>4 DEF Floor
  <2>6. tail.last < s /\ Floor(tail) <= tail.last /\ tail'.mark <= s
    BY <1>2, <1>3, <2>4
  <2>7. tail'.bells # {} => tail'.hears
    BY <1>0, <2>4
  <2>. QED BY <1>0, <1>1, <2>3, <2>4, <2>5, <2>6, <2>7, TailSends
<1>4. CASE ~(s > tail.last)
  <2>1. tail' = [[tail EXCEPT !.pending = @ \ {s}] EXCEPT !.mark = s]
    BY <1>1, <1>4
  <2>2. TailType'
    BY <1>0, <1>2, <2>1 DEF TailType
  <2>3. /\ tail'.got = tail.got /\ tail'.last = tail.last /\ tail'.pending = tail.pending \ {s}
        /\ tail'.mark = s /\ tail'.hears
    BY <1>0, <2>1 DEF TailType
  <2>4. Floor(tail') = s
    BY <2>3 DEF Floor
  <2>5. tail.pending \subseteq Nat /\ rows \subseteq StoredRow /\ s <= tail.last
    BY <1>0, <1>2, <1>4 DEF TailType, StoreInv, RowsOK
  <2>6. \A t \in tail'.pending : s < t /\ t <= peak[TailKey]
    BY <1>0, <1>1, <1>2, <2>3, <2>5 DEF TailOK, Least
  <2>7. ASSUME NEW t \in tail'.pending, NEW r \in rows, r.key = TailKey, s < r.seq, r.seq <= t,
               ~r.late
        PROVE  r.seq \in tail'.pending
    <3>1. Floor(tail) < s
      BY <1>0 DEF TailOK
    <3>2. r.seq \in Nat /\ Floor(tail) < r.seq
      BY <1>2, <2>5, <2>7, <3>1 DEF StoredRow
    <3>3. r.seq \in tail.pending
      BY <1>0, <2>3, <2>7, <3>2 DEF TailOK
    <3>. QED BY <2>3, <2>7, <3>2, <3>3, <1>2
  <2>8. TailExact'
    BY <1>0, <2>3 DEF TailOK, TailExact
  <2>9. TailOK'
    BY <1>0, <2>3, <2>4, <2>5, <2>6, <2>7, <2>8 DEF TailOK
  <2>. QED BY <2>2, <2>9 DEF TailInv
<1>. QED BY <1>3, <1>4

LEMMA ListenTailTail ==
    ASSUME StoreInv, TailInv, ListenTail
    PROVE  TailInv'
<1>0. TailType /\ TailOK /\ rows' = rows /\ peak' = peak /\ tail.pending = {}
      /\ tail' = [tail EXCEPT !.hears = TRUE, !.mark = 0]
  BY DEF storeVars, ListenTail, TailInv
<1>1. TailType'
  BY <1>0 DEF TailType
<1>2. /\ tail'.last = tail.last /\ tail'.mark = 0 /\ tail'.pending = {} /\ tail'.got = tail.got
      /\ tail'.hears /\ tail.last \in Nat
  BY <1>0 DEF TailType
<1>3. TailExact'
  BY <1>0, <1>2 DEF TailOK, TailExact
<1>4. TailOK'
  BY <1>0, <1>2, <1>3 DEF TailOK
<1>. QED BY <1>1, <1>4 DEF TailInv

Tails == OpenTail \/ OpenTailBlind \/ TailRung \/ SendHistory \/ TailStep \/ ListenTail

LEMMA TailRest ==
    ASSUME StoreInv, TailInv, [DeliveryNext]_deliveryVars, ~Tails
    PROVE  /\ TailType' /\ tail'.last = tail.last /\ tail'.mark = tail.mark
           /\ tail'.hears = tail.hears /\ tail'.pending = tail.pending /\ tail'.got = tail.got
           /\ tail'.bells # {} => tail'.hears
<1>0. TailType /\ TailOK
  BY DEF TailInv
<1>1. CASE tail' = tail
  BY <1>0, <1>1 DEF TailType, TailOK
<1>2. CASE tail' = [tail EXCEPT !.deaf = TRUE]
  BY <1>0, <1>2 DEF TailType, TailOK
<1>3. ASSUME NEW k \in Keys, tail.hears, tail' = [tail EXCEPT !.bells = @ \cup {k}]
      PROVE  /\ TailType' /\ tail'.last = tail.last /\ tail'.mark = tail.mark
             /\ tail'.hears = tail.hears /\ tail'.pending = tail.pending /\ tail'.got = tail.got
             /\ tail'.bells # {} => tail'.hears
  BY <1>0, <1>3 DEF TailType, TailOK
<1>4. CASE TailReplayFails
  BY <1>0, <1>4 DEF TailReplayFails, TailType
<1>5. CASE TailIgnores
  BY <1>0, <1>5 DEF TailIgnores, TailType
<1>6. ASSUME NEW w \in writes, Notify(w) \/ NotifyFails(w)
      PROVE  \/ tail' = tail \/ tail' = [tail EXCEPT !.deaf = TRUE]
             \/ tail.hears /\ tail' = [tail EXCEPT !.bells = @ \cup {w.key}]
  BY <1>6 DEF Notify, NotifyFails
<1>8. \A w \in writes : w.key \in Keys
  BY DEF StoreInv, WritesOK, Write
<1>7. \/ tail' = tail \/ TailReplayFails \/ TailIgnores
      \/ \E w \in writes : Notify(w) \/ NotifyFails(w)
  BY DEF Tails, DeliveryNext, Delivers, deliveryVars, Number, Allocate, AppendLocal, Commit,
     BecomesVisible, AppendFails, PruneTo, ConnectFeed, Begin, BeginFrom, BeginNow, BeginNowFails, ReadBatch,
     ReadNothing, ReadFails, Yield, Listen, DoorbellReplay, DoorbellReplayFails, Wake, Disconnect
<1>. QED BY <1>1, <1>2, <1>3, <1>4, <1>5, <1>6, <1>7, <1>8

LEMMA TailInvStep == StoreInv /\ TailInv /\ [DeliveryNext]_deliveryVars => TailInv'
<1>. SUFFICES ASSUME StoreInv, TailInv, [DeliveryNext]_deliveryVars PROVE TailInv'
  OBVIOUS
<1>1. CASE Tails
  BY <1>1, OpenTailTail, OpenBlindTail, TailRungTail, SendHistoryTail, TailStepTail,
     ListenTailTail DEF Tails
<1>2. CASE ~Tails
  BY <1>2, TailRest, TailQuiet, TailRowsStep, StoreStep
<1>. QED BY <1>1, <1>2

LEMMA DeliveryInvInit == DeliveryInit => DeliveryInv
<1>. SUFFICES ASSUME DeliveryInit PROVE DeliveryInv
  OBVIOUS
<1>1. /\ SiteOK /\ drawn = 0 /\ rows = {} /\ writes = {}
      /\ peak = [k \in Keys |-> 0] /\ numbered = [k \in Keys |-> 0]
  BY SitesAssumption DEF DeliveryInit, SiteOK
<1>2. RowsOK
  BY <1>1, FS_EmptySet DEF RowsOK
<1>3. WritesOK
  BY <1>1 DEF WritesOK, SiteOK
<1>. QED BY <1>1, <1>2, <1>3, FeedInvInit, TailInvInit DEF DeliveryInv, StoreInv

LEMMA DeliveryInvSound == DeliveryInv => FeedSound
<1>. SUFFICES ASSUME DeliveryInv PROVE FeedSound
  OBVIOUS
<1>0. /\ SiteOK /\ RowsOK /\ WritesOK /\ FollowerOK /\ ClientOK /\ NothingMissing
      /\ TailType /\ TailOK /\ TailKey \in Keys /\ site.rows \in [Keys -> Nat] /\ drawn \in Nat
  BY DeliveryAssumption DEF DeliveryInv, StoreInv, FeedInv, TailInv, SiteOK
<1>1. DeliveryTypeOK
  <2>1. \A k \in Keys : peak[k] \in Nat /\ site.rows[k] \in Nat /\ peak[k] <= site.rows[k]
    BY <1>0 DEF WritesOK
  <2>2. rows \subseteq [ord : 1..drawn, key : Keys, seq : Nat, late : BOOLEAN]
    BY <1>0 DEF RowsOK, StoredRow
  <2>3. \A r \in rows : r.seq \in 1..site.rows[r.key]
    BY <1>0, <2>1 DEF RowsOK, StoredRow
  <2>4. tail.mark <= site.rows[TailKey] /\ tail.phase \in {"off", "open", "closed"}
    BY <1>0, <2>1 DEF TailType, TailOK
  <2>. QED BY <1>0, <2>2, <2>3, <2>4 DEF DeliveryTypeOK, RowsOK, FollowerOK
<1>2. FeedComplete
  <2>. SUFFICES ASSUME ~Clustered, follower.phase # "off", NEW r \in rows, client.start < r.ord,
                       r.ord <= follower.cursor
                PROVE  r \in Range(client.got)
    BY DEF FeedComplete, FeedExactlyOnce
  <2>1. r.ord \in Nat /\ r.ord > 0 /\ client.start \in Nat /\ follower.cursor \in Nat
    BY <1>0 DEF RowsOK, ClientOK, FollowerOK
  <2>2. Streaming
    BY <1>0, <2>1 DEF FollowerOK, Streaming
  <2>3. client.got # <<>> /\ follower.cursor = client.got[Len(client.got)].ord
    BY <1>0, <2>1, <2>2 DEF ClientOK
  <2>. QED BY <1>0, <2>3 DEF NothingMissing
<1>. QED BY <1>0, <1>1, <1>2 DEF FeedSound, ClientOK, TailOK

(* What is delivered out of the durable store: the fleet feed sends events   *)
(* in the order of their cursors, none twice, over all its connections, and  *)
(* on sqlite leaves none out; the tail of an agent sends every stored event  *)
(* up to the one it is at that was not late. For any deployment, number of   *)
(* keys, of tasks that write a stream, and batch size.                      *)
THEOREM FeedSoundHolds == DeliverySpec => []FeedSound
<1>1. DeliveryInv /\ [DeliveryNext]_deliveryVars => DeliveryInv'
  BY StoreStep, FeedStep, TailInvStep DEF DeliveryInv
<1>2. DeliverySpec => []DeliveryInv
  BY <1>1, DeliveryInvInit, PTL DEF DeliverySpec
<1>. QED BY <1>2, DeliveryInvSound, PTL

(***************************************************************************)
(* The pane.                                                                *)
(***************************************************************************)
PaneSpec == PaneInit /\ [][PaneNext]_paneVars

(* The two folds over the entries, a function of how many are read.         *)
IsGrouping(f, es) ==
    f = [i \in 0..Len(es) |-> IF i = 0 THEN Nowhere ELSE GroupEntry(f[i - 1], es[i], i)]
Adds(shown, e) == IF e.n = 0 THEN shown ELSE Append(shown, e.n)
IsShowing(f, es) ==
    f = [i \in 0..Len(es) |-> IF i = 0 THEN <<>> ELSE Adds(f[i - 1], es[i])]

(* Each has a value at the end, and one only: what an entry more does to the *)
(* fold can be said without induction over the entries.                     *)
Grouped(es) ==
    /\ \E f : IsGrouping(f, es)
    /\ \A f, h : IsGrouping(f, es) /\ IsGrouping(h, es) => f[Len(es)] = h[Len(es)]
Showing(es) ==
    /\ \E f : IsShowing(f, es)
    /\ \A f, h : IsShowing(f, es) /\ IsShowing(h, es) => f[Len(es)] = h[Len(es)]

LEMMA GroupOf ==
    ASSUME NEW es, NEW f, Grouped(es), IsGrouping(f, es)
    PROVE  Group(es) = f[Len(es)]
<1>. DEFINE h == CHOOSE k : IsGrouping(k, es)
<1>1. IsGrouping(h, es)
  OBVIOUS
<1>2. Group(es) = h[Len(es)]
  BY Zenon DEF Group, IsGrouping
<1>. QED BY <1>1, <1>2 DEF Grouped

LEMMA ShownIs ==
    ASSUME NEW es, NEW f, Showing(es), IsShowing(f, es)
    PROVE  ShownOf(es) = f[Len(es)]
<1>. DEFINE h == CHOOSE k : IsShowing(k, es)
<1>1. IsShowing(h, es)
  OBVIOUS
<1>2. ShownOf(es) = h[Len(es)]
  BY Zenon DEF ShownOf, IsShowing, Adds
<1>. QED BY <1>1, <1>2 DEF Showing

LEMMA GroupNone == Grouped(<<>>) /\ Group(<<>>) = Nowhere
<1>. DEFINE f == [i \in 0..0 |-> Nowhere]
<1>1. IsGrouping(f, <<>>)
  BY DEF IsGrouping
<1>2. ASSUME NEW h, IsGrouping(h, <<>>) PROVE h[0] = Nowhere
  BY <1>2 DEF IsGrouping
<1>3. Grouped(<<>>)
  BY <1>1, <1>2 DEF Grouped
<1>. QED BY <1>1, <1>2, <1>3, GroupOf

LEMMA ShownNone == Showing(<<>>) /\ ShownOf(<<>>) = <<>>
<1>. DEFINE f == [i \in 0..0 |-> <<>>]
<1>1. IsShowing(f, <<>>)
  BY DEF IsShowing
<1>2. ASSUME NEW h, IsShowing(h, <<>>) PROVE h[0] = <<>>
  BY <1>2 DEF IsShowing
<1>3. Showing(<<>>)
  BY <1>1, <1>2 DEF Showing
<1>. QED BY <1>1, <1>2, <1>3, ShownIs

LEMMA GroupMore ==
    ASSUME NEW S, NEW es \in Seq(S), NEW e \in S, Grouped(es)
    PROVE  /\ Grouped(Append(es, e))
           /\ Group(Append(es, e)) = GroupEntry(Group(es), e, Len(es) + 1)
<1>. DEFINE n == Len(es)
            more == Append(es, e)
<1>1. n \in Nat /\ Len(more) = n + 1 /\ more[n + 1] = e /\ \A i \in 1..n : more[i] = es[i]
  OBVIOUS
<1>2. PICK f : IsGrouping(f, es)
  BY DEF Grouped
<1>3. Group(es) = f[n]
  BY <1>2, GroupOf
<1>4. PICK h : h = [i \in 0..(n + 1) |-> IF i = n + 1 THEN GroupEntry(f[n], e, n + 1) ELSE f[i]]
  OBVIOUS
<1>. HIDE DEF n, more
<1>5. IsGrouping(h, more)
  <2>1. ASSUME NEW i \in 0..(n + 1)
        PROVE  h[i] = IF i = 0 THEN Nowhere ELSE GroupEntry(h[i - 1], more[i], i)
    <3>1. CASE i = 0
      BY <1>1, <1>2, <1>4, <3>1 DEF IsGrouping, n
    <3>2. CASE i \in 1..n
      <4>1. h[i] = f[i] /\ h[i - 1] = f[i - 1]
        BY <1>1, <1>4, <3>2
      <4>2. f[i] = GroupEntry(f[i - 1], es[i], i)
        BY <1>1, <1>2, <3>2 DEF IsGrouping, n
      <4>. QED BY <1>1, <3>2, <4>1, <4>2
    <3>3. CASE i = n + 1
      BY <1>1, <1>4, <3>3
    <3>. QED BY <1>1, <3>1, <3>2, <3>3
  <2>. QED BY <1>1, <1>4, <2>1 DEF IsGrouping
<1>6. ASSUME NEW k, IsGrouping(k, more) PROVE k[n + 1] = GroupEntry(f[n], e, n + 1)
  <2>1. PICK r : r = [i \in 0..n |-> k[i]]
    OBVIOUS
  <2>2. \A i \in 0..(n + 1) :
           k[i] = IF i = 0 THEN Nowhere ELSE GroupEntry(k[i - 1], more[i], i)
    BY <1>1, <1>6 DEF IsGrouping
  <2>3. ASSUME NEW i \in 0..n
        PROVE  r[i] = IF i = 0 THEN Nowhere ELSE GroupEntry(r[i - 1], es[i], i)
    BY <1>1, <2>1, <2>2
  <2>4. IsGrouping(r, es)
    BY <2>1, <2>3 DEF IsGrouping, n
  <2>5. r[n] = f[n]
    BY <1>2, <2>4 DEF Grouped, n
  <2>. QED BY <1>1, <2>1, <2>2, <2>5
<1>7. Grouped(more)
  BY <1>1, <1>5, <1>6 DEF Grouped
<1>8. Group(more) = GroupEntry(f[n], e, n + 1)
  BY <1>1, <1>5, <1>6, <1>7, GroupOf
<1>. QED BY <1>3, <1>7, <1>8 DEF n, more

LEMMA ShownMore ==
    ASSUME NEW S, NEW es \in Seq(S), NEW e \in S, Showing(es)
    PROVE  /\ Showing(Append(es, e))
           /\ ShownOf(Append(es, e)) = Adds(ShownOf(es), e)
<1>. DEFINE n == Len(es)
            more == Append(es, e)
<1>1. n \in Nat /\ Len(more) = n + 1 /\ more[n + 1] = e /\ \A i \in 1..n : more[i] = es[i]
  OBVIOUS
<1>2. PICK f : IsShowing(f, es)
  BY DEF Showing
<1>3. ShownOf(es) = f[n]
  BY <1>2, ShownIs
<1>4. PICK h : h = [i \in 0..(n + 1) |-> IF i = n + 1 THEN Adds(f[n], e) ELSE f[i]]
  OBVIOUS
<1>. HIDE DEF n, more
<1>5. IsShowing(h, more)
  <2>1. ASSUME NEW i \in 0..(n + 1)
        PROVE  h[i] = IF i = 0 THEN <<>> ELSE Adds(h[i - 1], more[i])
    <3>1. CASE i = 0
      BY <1>1, <1>2, <1>4, <3>1 DEF IsShowing, n
    <3>2. CASE i \in 1..n
      <4>1. h[i] = f[i] /\ h[i - 1] = f[i - 1]
        BY <1>1, <1>4, <3>2
      <4>2. f[i] = Adds(f[i - 1], es[i])
        BY <1>1, <1>2, <3>2 DEF IsShowing, n
      <4>. QED BY <1>1, <3>2, <4>1, <4>2
    <3>3. CASE i = n + 1
      BY <1>1, <1>4, <3>3
    <3>. QED BY <1>1, <3>1, <3>2, <3>3
  <2>. QED BY <1>1, <1>4, <2>1 DEF IsShowing
<1>6. ASSUME NEW k, IsShowing(k, more) PROVE k[n + 1] = Adds(f[n], e)
  <2>1. PICK r : r = [i \in 0..n |-> k[i]]
    OBVIOUS
  <2>2. \A i \in 0..(n + 1) :
           k[i] = IF i = 0 THEN <<>> ELSE Adds(k[i - 1], more[i])
    BY <1>1, <1>6 DEF IsShowing
  <2>3. ASSUME NEW i \in 0..n
        PROVE  r[i] = IF i = 0 THEN <<>> ELSE Adds(r[i - 1], es[i])
    BY <1>1, <2>1, <2>2
  <2>4. IsShowing(r, es)
    BY <2>1, <2>3 DEF IsShowing, n
  <2>5. r[n] = f[n]
    BY <1>2, <2>4 DEF Showing, n
  <2>. QED BY <1>1, <2>1, <2>2, <2>5
<1>7. Showing(more)
  BY <1>1, <1>5, <1>6 DEF Showing
<1>8. ShownOf(more) = Adds(f[n], e)
  BY <1>1, <1>5, <1>6, <1>7, ShownIs
<1>. QED BY <1>3, <1>7, <1>8 DEF n, more

(***************************************************************************)
(* What an entry does to the timeline: a segment more, the last one longer,  *)
(* a finish paired with an open call, or nothing.                           *)
(***************************************************************************)
Entry(K, T) == [n : Nat, kind : K, tool : T]
Drawn(K, T) == [kind : K, of : Seq(Nat), n : Nat, tool : T, finish : Nat]

TimelineType(g, K, T) ==
    /\ g \in [segs : Seq(Drawn(K, T)), out : Nat, think : Nat, calls : SUBSET Nat]
    /\ g.out \in {0, Len(g.segs)} /\ g.think \in {0, Len(g.segs)}
    /\ g.calls \subseteq 1..Len(g.segs)

NewSegment(g, h, e, i) ==
    /\ e.kind # "end"
    /\ h.segs = Append(g.segs, Segment(e, i))
    /\ h.calls = IF e.kind = "tool" THEN g.calls \cup {Len(g.segs) + 1} ELSE g.calls
LastLonger(g, h, e, i) ==
    /\ e.kind \notin {"end", "tool"} /\ Len(g.segs) > 0
    /\ h.segs = [g.segs EXCEPT ![Len(g.segs)].of = Append(@, i)]
    /\ h.calls = g.calls
CallDone(g, h, e) ==
    /\ e.kind = "end" /\ Paired(g, e) \in g.calls
    /\ h.segs = [g.segs EXCEPT ![Paired(g, e)].finish = e.n]
    /\ h.calls = g.calls \ {Paired(g, e)}
NoCall(g, h, e) == e.kind = "end" /\ g.calls = {} /\ h = g

LEMMA SegsMore ==
    ASSUME NEW D, NEW s \in Seq(D), NEW x \in D
    PROVE  /\ Append(s, x) \in Seq(D) /\ Len(Append(s, x)) = Len(s) + 1
           /\ Append(s, x)[Len(s) + 1] = x
           /\ \A k \in 1..Len(s) : Append(s, x)[k] = s[k]
  OBVIOUS

LEMMA ChunkDoes ==
    ASSUME NEW K, NEW T, NEW g, TimelineType(g, K, T), NEW e \in Entry(K, T), NEW i \in Nat,
           e.kind \in {"out", "think"}
    PROVE  LET h == Chunk(g, e, i)
           IN  /\ TimelineType(h, K, T)
               /\ NewSegment(g, h, e, i) \/ LastLonger(g, h, e, i)
<1>. DEFINE block == IF e.kind = "out" THEN g.out ELSE g.think
            at == IF block = 0 THEN Len(g.segs) + 1 ELSE block
            segs == IF block = 0 THEN Append(g.segs, Segment(e, i))
                    ELSE [g.segs EXCEPT ![block].of = Append(@, i)]
            h == [g EXCEPT !.segs = segs, !.out = IF e.kind = "out" THEN at ELSE 0,
                           !.think = IF e.kind = "think" THEN at ELSE 0]
<1>1. Chunk(g, e, i) = h
  BY DEF Chunk
<1>2. Segment(e, i) \in Drawn(K, T)
  BY DEF Segment, Drawn, Entry
<1>3. /\ g.segs \in Seq(Drawn(K, T)) /\ Len(g.segs) \in Nat /\ block \in {0, Len(g.segs)}
      /\ g.calls \subseteq 1..Len(g.segs)
  BY DEF TimelineType
<1>4. /\ h.segs = segs /\ h.out = (IF e.kind = "out" THEN at ELSE 0)
      /\ h.think = (IF e.kind = "think" THEN at ELSE 0) /\ h.calls = g.calls
  BY DEF TimelineType
<1>5. CASE block = 0
  <2>1. segs \in Seq(Drawn(K, T)) /\ Len(segs) = Len(g.segs) + 1 /\ at = Len(segs)
    BY <1>2, <1>3, <1>5, SegsMore
  <2>2. h.out \in {0, Len(segs)} /\ h.think \in {0, Len(segs)} /\ Len(segs) \in Nat
        /\ g.calls \subseteq 1..Len(segs)
    BY <1>3, <1>4, <2>1
  <2>. HIDE DEF segs, at, block
  <2>a. at \in Nat
    BY <2>1, <2>2
  <2>b. h \in [segs : Seq(Drawn(K, T)), out : Nat, think : Nat, calls : SUBSET Nat]
    BY <2>1, <2>a DEF TimelineType
  <2>. HIDE DEF h
  <2>3. TimelineType(h, K, T)
    BY <1>4, <2>1, <2>2, <2>b DEF TimelineType
  <2>4. NewSegment(g, h, e, i)
    BY <1>4, <1>5 DEF NewSegment, segs
  <2>. QED BY <1>1, <2>3, <2>4
<1>6. CASE block # 0
  <2>1. Len(g.segs) > 0 /\ block = Len(g.segs) /\ block \in DOMAIN g.segs
        /\ segs = [g.segs EXCEPT ![block].of = Append(@, i)] /\ at = block
    BY <1>3, <1>6
  <2>b. block \in 1..Len(g.segs) /\ block \in Nat
    BY <1>3, <2>1
  <2>. HIDE DEF block, at, segs
  <2>c. g.segs[block] \in Drawn(K, T)
    BY <1>3, <2>b
  <2>2. g.segs[block] \in Drawn(K, T) /\ g.segs[block].of \in Seq(Nat)
    BY <2>c DEF Drawn
  <2>3. Append(g.segs[block].of, i) \in Seq(Nat)
    BY <2>2
  <2>4. [g.segs[block] EXCEPT !.of = Append(@, i)] \in Drawn(K, T)
    BY <2>2, <2>3 DEF Drawn
  <2>5. segs \in Seq(Drawn(K, T)) /\ Len(segs) = Len(g.segs)
    BY <1>3, <2>1, <2>4
  <2>6. h.out \in {0, Len(segs)} /\ h.think \in {0, Len(segs)} /\ Len(segs) \in Nat
        /\ g.calls \subseteq 1..Len(segs)
    BY <1>3, <1>4, <2>1, <2>5
  <2>d. h \in [segs : Seq(Drawn(K, T)), out : Nat, think : Nat, calls : SUBSET Nat]
    <3>1. at \in Nat /\ g \in [segs : Seq(Drawn(K, T)), out : Nat, think : Nat, calls : SUBSET Nat]
      BY <2>1, <2>b DEF TimelineType
    <3>. QED BY <2>5, <3>1
  <2>. HIDE DEF h
  <2>7. TimelineType(h, K, T)
    BY <1>4, <2>5, <2>6, <2>d DEF TimelineType
  <2>8. LastLonger(g, h, e, i)
    BY <1>4, <2>1 DEF LastLonger
  <2>. QED BY <1>1, <2>7, <2>8
<1>. QED BY <1>5, <1>6

LEMMA OpensDoes ==
    ASSUME NEW K, NEW T, NEW g, TimelineType(g, K, T), NEW e \in Entry(K, T), NEW i \in Nat,
           e.kind # "end"
    PROVE  LET h == Opens(g, Segment(e, i))
           IN  TimelineType(h, K, T) /\ NewSegment(g, h, e, i)
<1>. DEFINE h == Opens(g, Segment(e, i))
<1>1. Segment(e, i) \in Drawn(K, T) /\ Segment(e, i).kind = e.kind
  BY DEF Segment, Drawn, Entry
<1>2. g.segs \in Seq(Drawn(K, T)) /\ Len(g.segs) \in Nat /\ g.calls \subseteq 1..Len(g.segs)
  BY DEF TimelineType
<1>3. /\ h.segs = Append(g.segs, Segment(e, i)) /\ h.out = 0 /\ h.think = 0
      /\ h.calls = IF e.kind = "tool" THEN g.calls \cup {Len(g.segs) + 1} ELSE g.calls
      /\ h = [segs |-> h.segs, out |-> h.out, think |-> h.think, calls |-> h.calls]
  BY <1>1 DEF Opens
<1>. HIDE DEF h
<1>4. h.segs \in Seq(Drawn(K, T)) /\ Len(h.segs) = Len(g.segs) + 1
  BY <1>1, <1>2, <1>3, SegsMore
<1>5. h.calls \subseteq 1..Len(h.segs)
  BY <1>2, <1>3, <1>4
<1>6. TimelineType(h, K, T)
  <2>1. h.segs \in Seq(Drawn(K, T)) /\ h.out \in Nat /\ h.think \in Nat /\ h.calls \in SUBSET Nat
    BY <1>2, <1>3, <1>4, <1>5
  <2>2. h \in [segs : Seq(Drawn(K, T)), out : Nat, think : Nat, calls : SUBSET Nat]
    BY <1>3, <2>1
  <2>. QED BY <1>3, <1>5, <2>2 DEF TimelineType
<1>. QED BY <1>3, <1>6 DEF NewSegment, h

LEMMA PairedIs ==
    ASSUME NEW g, g.calls \subseteq Nat, NEW e
    PROVE  /\ g.calls = {} => Paired(g, e) = 0
           /\ g.calls # {} => Paired(g, e) \in g.calls
           /\ \A i \in g.calls : e.tool # "" /\ g.segs[i].tool = e.tool
                 => Paired(g, e) \in g.calls /\ g.segs[Paired(g, e)].tool = e.tool
<1>. DEFINE own == {i \in g.calls : e.tool # "" /\ g.segs[i].tool = e.tool}
<1>1. Paired(g, e) = IF own # {} THEN Oldest(own)
                     ELSE IF g.calls = {} THEN 0 ELSE Oldest(g.calls)
  BY DEF Paired
<1>2. own # {} => Oldest(own) \in own
  BY OldestIs
<1>3. g.calls # {} => Oldest(g.calls) \in g.calls
  BY OldestIs
<1>. QED BY <1>1, <1>2, <1>3

LEMMA FinishDoes ==
    ASSUME NEW K, NEW T, NEW g, TimelineType(g, K, T), NEW e \in Entry(K, T), e.kind = "end"
    PROVE  LET h == Finish(g, e)
           IN  TimelineType(h, K, T) /\ (CallDone(g, h, e) \/ NoCall(g, h, e))
<1>. DEFINE p == Paired(g, e)
            h == [g EXCEPT !.segs[p].finish = e.n, !.calls = @ \ {p}]
<1>1. g.segs \in Seq(Drawn(K, T)) /\ Len(g.segs) \in Nat /\ g.calls \subseteq 1..Len(g.segs)
  BY DEF TimelineType
<1>2. CASE g.calls = {}
  <2>1. Paired(g, e) = 0
    BY <1>1, <1>2, PairedIs
  <2>2. Finish(g, e) = g
    BY <2>1 DEF Finish
  <2>. QED BY <1>2, <2>2 DEF NoCall
<1>3. CASE g.calls # {}
  <2>a. g.calls \subseteq Nat
    BY <1>1
  <2>b. p \in g.calls
    BY <1>3, <2>a, PairedIs
  <2>1. p \in g.calls /\ p \in 1..Len(g.segs) /\ p # 0 /\ p \in Nat
    BY <1>1, <2>b
  <2>2. Finish(g, e) = h
    BY <2>1 DEF Finish
  <2>. HIDE DEF p
  <2>3. /\ h.segs = [g.segs EXCEPT ![p].finish = e.n] /\ h.calls = g.calls \ {p}
        /\ h.out = g.out /\ h.think = g.think
    BY DEF TimelineType
  <2>4. g.segs[p] \in Drawn(K, T) /\ e.n \in Nat
    BY <1>1, <2>1 DEF Entry
  <2>5. [g.segs[p] EXCEPT !.finish = e.n] \in Drawn(K, T)
    BY <2>4 DEF Drawn
  <2>6. h.segs \in Seq(Drawn(K, T)) /\ Len(h.segs) = Len(g.segs)
    BY <1>1, <2>1, <2>3, <2>5
  <2>c. h \in [segs : Seq(Drawn(K, T)), out : Nat, think : Nat, calls : SUBSET Nat]
    BY <2>3, <2>6 DEF TimelineType
  <2>. HIDE DEF h
  <2>7. TimelineType(h, K, T)
    BY <1>1, <2>3, <2>6, <2>c DEF TimelineType
  <2>8. CallDone(g, h, e)
    BY <2>1, <2>3 DEF CallDone, p
  <2>. QED BY <2>2, <2>7, <2>8
<1>. QED BY <1>2, <1>3

LEMMA EntryDoes ==
    ASSUME NEW K, NEW T, NEW g, TimelineType(g, K, T), NEW e \in Entry(K, T), NEW i \in Nat
    PROVE  LET h == GroupEntry(g, e, i)
           IN  /\ TimelineType(h, K, T)
               /\ \/ NewSegment(g, h, e, i) \/ LastLonger(g, h, e, i)
                  \/ CallDone(g, h, e) \/ NoCall(g, h, e)
<1>1. CASE e.kind \in {"out", "think"}
  BY <1>1, ChunkDoes DEF GroupEntry
<1>2. CASE e.kind = "end"
  BY <1>2, FinishDoes DEF GroupEntry
<1>3. CASE e.kind \notin {"out", "think", "end"}
  BY <1>3, OpensDoes DEF GroupEntry
<1>. QED BY <1>1, <1>2, <1>3

(***************************************************************************)
(* The order of the timeline. The entries of a segment ascend, and so do    *)
(* those of one segment and the next; each entry that is no finish is in    *)
(* one.                                                                     *)
(***************************************************************************)
Ascends(g) ==
    /\ \A k \in 1..Len(g.segs) : \A a, b \in 1..Len(g.segs[k].of) :
          a < b => g.segs[k].of[a] < g.segs[k].of[b]
    /\ \A i, k \in 1..Len(g.segs) : i < k =>
          \A a \in 1..Len(g.segs[i].of) : \A b \in 1..Len(g.segs[k].of) :
             g.segs[i].of[a] < g.segs[k].of[b]
IsOf(g, es) ==
    \A k \in 1..Len(g.segs) : \A a \in 1..Len(g.segs[k].of) :
       g.segs[k].of[a] \in 1..Len(es) /\ es[g.segs[k].of[a]].kind # "end"
Covers(g, es) ==
    \A j \in 1..Len(es) : es[j].kind # "end" =>
       \E k \in 1..Len(g.segs) : \E a \in 1..Len(g.segs[k].of) : g.segs[k].of[a] = j
InOrder(g, es) == Ascends(g) /\ IsOf(g, es) /\ Covers(g, es)

(* As seen from the segments alone: the same, one more, or a longer last one. *)
SameOf(g, h) ==
    /\ Len(h.segs) = Len(g.segs)
    /\ \A k \in 1..Len(g.segs) : h.segs[k].of = g.segs[k].of
MoreOf(g, h, i) ==
    /\ Len(h.segs) = Len(g.segs) + 1 /\ h.segs[Len(g.segs) + 1].of = <<i>>
    /\ \A k \in 1..Len(g.segs) : h.segs[k].of = g.segs[k].of
LongerOf(g, h, i) ==
    /\ Len(h.segs) = Len(g.segs) /\ Len(g.segs) > 0
    /\ h.segs[Len(g.segs)].of = Append(g.segs[Len(g.segs)].of, i)
    /\ \A k \in 1..(Len(g.segs) - 1) : h.segs[k].of = g.segs[k].of

LEMMA OfIs ==
    ASSUME NEW K, NEW T, NEW g, TimelineType(g, K, T), NEW e \in Entry(K, T), NEW i \in Nat,
           NEW h
    PROVE  /\ NewSegment(g, h, e, i) => MoreOf(g, h, i)
           /\ LastLonger(g, h, e, i) => LongerOf(g, h, i)
           /\ CallDone(g, h, e) => SameOf(g, h)
           /\ NoCall(g, h, e) => SameOf(g, h)
<1>1. /\ g.segs \in Seq(Drawn(K, T)) /\ Len(g.segs) \in Nat /\ g.calls \subseteq 1..Len(g.segs)
      /\ DOMAIN g.segs = 1..Len(g.segs)
  BY DEF TimelineType
<1>2. \A k \in 1..Len(g.segs) : g.segs[k] \in Drawn(K, T)
  BY <1>1
<1>3. Segment(e, i) \in Drawn(K, T) /\ Segment(e, i).of = <<i>>
  BY DEF Segment, Drawn, Entry
<1>4. ASSUME NewSegment(g, h, e, i) PROVE MoreOf(g, h, i)
  BY <1>1, <1>3, <1>4, SegsMore DEF NewSegment, MoreOf
<1>5. ASSUME LastLonger(g, h, e, i) PROVE LongerOf(g, h, i)
  <2>1. Len(g.segs) \in 1..Len(g.segs) /\ Len(h.segs) = Len(g.segs)
    BY <1>1, <1>5 DEF LastLonger
  <2>2. h.segs[Len(g.segs)] = [g.segs[Len(g.segs)] EXCEPT !.of = Append(@, i)]
    BY <1>1, <1>5, <2>1 DEF LastLonger
  <2>3. h.segs[Len(g.segs)].of = Append(g.segs[Len(g.segs)].of, i)
    BY <1>2, <2>1, <2>2 DEF Drawn
  <2>4. \A k \in 1..(Len(g.segs) - 1) : h.segs[k].of = g.segs[k].of
    BY <1>1, <1>5 DEF LastLonger
  <2>. QED BY <1>5, <2>1, <2>3, <2>4 DEF LastLonger, LongerOf
<1>6. ASSUME CallDone(g, h, e) PROVE SameOf(g, h)
  <2>. DEFINE p == Paired(g, e)
  <2>1. p \in 1..Len(g.segs) /\ h.segs = [g.segs EXCEPT ![p].finish = e.n]
    BY <1>1, <1>6 DEF CallDone
  <2>. HIDE DEF p
  <2>2. Len(h.segs) = Len(g.segs) /\ h.segs[p] = [g.segs[p] EXCEPT !.finish = e.n]
    BY <1>1, <2>1
  <2>3. h.segs[p].of = g.segs[p].of
    BY <1>2, <2>1, <2>2 DEF Drawn
  <2>4. \A k \in 1..Len(g.segs) : k # p => h.segs[k] = g.segs[k]
    BY <1>1, <2>1
  <2>. QED BY <2>2, <2>3, <2>4 DEF SameOf
<1>7. ASSUME NoCall(g, h, e) PROVE SameOf(g, h)
  BY <1>7 DEF NoCall, SameOf
<1>. QED BY <1>4, <1>5, <1>6, <1>7

LEMMA OrderStep ==
    ASSUME NEW K, NEW T, NEW es \in Seq(Entry(K, T)), NEW e \in Entry(K, T),
           NEW g, NEW h, TimelineType(g, K, T), TimelineType(h, K, T), InOrder(g, es),
           \/ SameOf(g, h) /\ e.kind = "end"
           \/ MoreOf(g, h, Len(es) + 1) /\ e.kind # "end"
           \/ LongerOf(g, h, Len(es) + 1) /\ e.kind # "end"
    PROVE  InOrder(h, Append(es, e))
<1>. DEFINE m == Len(es)
            L == Len(g.segs)
            more == Append(es, e)
<1>1. m \in Nat /\ Len(more) = m + 1 /\ more[m + 1] = e /\ \A j \in 1..m : more[j] = es[j]
  OBVIOUS
<1>2. L \in Nat /\ \A k \in 1..L : g.segs[k].of \in Seq(Nat) /\ Len(g.segs[k].of) \in Nat
  <2>1. g.segs \in Seq(Drawn(K, T)) /\ Len(g.segs) \in Nat
    BY DEF TimelineType
  <2>2. \A k \in 1..L : g.segs[k] \in Drawn(K, T)
    BY <2>1
  <2>3. \A k \in 1..L : g.segs[k].of \in Seq(Nat)
    BY <2>2 DEF Drawn
  <2>. QED BY <2>1, <2>3
<1>3. /\ \A k \in 1..L : \A a, b \in 1..Len(g.segs[k].of) :
            a < b => g.segs[k].of[a] < g.segs[k].of[b]
      /\ \A i, k \in 1..L : i < k =>
            \A a \in 1..Len(g.segs[i].of) : \A b \in 1..Len(g.segs[k].of) :
               g.segs[i].of[a] < g.segs[k].of[b]
  BY DEF InOrder, Ascends
<1>4. \A j \in 1..m : es[j].kind # "end" =>
         \E k \in 1..L : \E a \in 1..Len(g.segs[k].of) : g.segs[k].of[a] = j
  BY DEF InOrder, Covers
<1>. HIDE DEF more, m, L
<1>5. ASSUME NEW k \in 1..L, NEW a \in 1..Len(g.segs[k].of)
      PROVE  /\ g.segs[k].of[a] \in 1..m /\ g.segs[k].of[a] \in Nat
             /\ g.segs[k].of[a] < m + 1 /\ g.segs[k].of[a] \in 1..Len(more)
             /\ more[g.segs[k].of[a]].kind # "end"
  <2>1. g.segs[k].of[a] \in 1..m /\ es[g.segs[k].of[a]].kind # "end"
    BY DEF InOrder, IsOf, m, L
  <2>2. \A x \in 1..m : x \in Nat /\ x < m + 1 /\ x \in 1..Len(more) /\ more[x] = es[x]
    BY <1>1
  <2>. QED BY <2>1, <2>2
<1>6. ASSUME SameOf(g, h), e.kind = "end" PROVE InOrder(h, more)
  <2>0. Len(h.segs) = L /\ \A k \in 1..L : h.segs[k].of = g.segs[k].of
    BY <1>6 DEF SameOf, L
  <2>1. Ascends(h)
    BY <1>3, <2>0 DEF Ascends
  <2>2. IsOf(h, more)
    BY <1>5, <2>0 DEF IsOf
  <2>3. Covers(h, more)
    <3>. SUFFICES ASSUME NEW j \in 1..Len(more), more[j].kind # "end"
                  PROVE  \E k \in 1..Len(h.segs) : \E a \in 1..Len(h.segs[k].of) :
                            h.segs[k].of[a] = j
      BY DEF Covers
    <3>1. j \in 1..m /\ es[j].kind # "end"
      BY <1>1, <1>6
    <3>2. PICK k \in 1..L : \E a \in 1..Len(g.segs[k].of) : g.segs[k].of[a] = j
      BY <1>4, <3>1
    <3>3. h.segs[k].of = g.segs[k].of
      BY <2>0
    <3>. QED BY <2>0, <3>2, <3>3
  <2>. QED BY <2>1, <2>2, <2>3 DEF InOrder
<1>7. ASSUME MoreOf(g, h, m + 1), e.kind # "end" PROVE InOrder(h, more)
  <2>1. /\ Len(h.segs) = L + 1 /\ h.segs[L + 1].of = <<m + 1>>
        /\ \A k \in 1..L : h.segs[k].of = g.segs[k].of
    BY <1>7 DEF MoreOf, L
  <2>2. ASSUME NEW k \in 1..(L + 1), NEW a \in 1..Len(h.segs[k].of)
        PROVE  \/ /\ k \in 1..L /\ a \in 1..Len(g.segs[k].of)
                  /\ h.segs[k].of = g.segs[k].of /\ h.segs[k].of[a] = g.segs[k].of[a]
               \/ k = L + 1 /\ a = 1 /\ h.segs[k].of[a] = m + 1
    <3>1. CASE k = L + 1
      <4>1. h.segs[k].of = <<m + 1>>
        BY <2>1, <3>1
      <4>2. a = 1
        BY <2>2, <4>1
      <4>. QED BY <3>1, <4>1, <4>2
    <3>2. CASE k \in 1..L
      BY <2>1, <2>2, <3>2
    <3>. QED BY <1>2, <2>2, <3>1, <3>2
  <2>3. Ascends(h)
    <3>1. ASSUME NEW k \in 1..(L + 1), NEW a \in 1..Len(h.segs[k].of),
                 NEW b \in 1..Len(h.segs[k].of), a < b
          PROVE  h.segs[k].of[a] < h.segs[k].of[b]
      <4>1. k \in 1..L /\ h.segs[k].of = g.segs[k].of
        BY <1>2, <2>2, <3>1
      <4>. QED BY <1>3, <3>1, <4>1
    <3>2. ASSUME NEW i \in 1..(L + 1), NEW k \in 1..(L + 1), i < k,
                 NEW a \in 1..Len(h.segs[i].of), NEW b \in 1..Len(h.segs[k].of)
          PROVE  h.segs[i].of[a] < h.segs[k].of[b]
      <4>0. i # L + 1
        BY <1>2, <3>2
      <4>1. /\ i \in 1..L /\ a \in 1..Len(g.segs[i].of)
            /\ h.segs[i].of[a] = g.segs[i].of[a]
        BY <2>2, <3>2, <4>0
      <4>. QED BY <1>3, <1>5, <2>2, <3>2, <4>1
    <3>. QED BY <2>1, <3>1, <3>2 DEF Ascends
  <2>4. IsOf(h, more)
    <3>1. m + 1 \in 1..Len(more) /\ more[m + 1].kind # "end"
      BY <1>1, <1>7
    <3>2. ASSUME NEW k \in 1..(L + 1), NEW a \in 1..Len(h.segs[k].of)
          PROVE  h.segs[k].of[a] \in 1..Len(more) /\ more[h.segs[k].of[a]].kind # "end"
      BY <1>5, <2>2, <3>1
    <3>. QED BY <2>1, <3>2 DEF IsOf
  <2>5. Covers(h, more)
    <3>. SUFFICES ASSUME NEW j \in 1..Len(more), more[j].kind # "end"
                  PROVE  \E k \in 1..Len(h.segs) : \E a \in 1..Len(h.segs[k].of) :
                            h.segs[k].of[a] = j
      BY DEF Covers
    <3>1. CASE j = m + 1
      <4>1. L + 1 \in 1..Len(h.segs) /\ 1 \in 1..Len(h.segs[L + 1].of)
            /\ h.segs[L + 1].of[1] = j
        BY <1>2, <2>1, <3>1
      <4>. QED BY <4>1
    <3>2. CASE j \in 1..m
      <4>1. PICK k \in 1..L : \E a \in 1..Len(g.segs[k].of) : g.segs[k].of[a] = j
        BY <1>1, <1>4, <3>2
      <4>2. k \in 1..Len(h.segs) /\ h.segs[k].of = g.segs[k].of
        BY <1>2, <2>1
      <4>. QED BY <4>1, <4>2
    <3>. QED BY <1>1, <3>1, <3>2
  <2>. QED BY <2>3, <2>4, <2>5 DEF InOrder
<1>8. ASSUME LongerOf(g, h, m + 1), e.kind # "end" PROVE InOrder(h, more)
  <2>. DEFINE w == Len(g.segs[L].of)
              last == g.segs[L].of
  <2>1. L \in 1..L /\ Len(h.segs) = L /\ last \in Seq(Nat) /\ w \in Nat
        /\ h.segs[L].of = Append(last, m + 1)
        /\ \A k \in 1..(L - 1) : h.segs[k].of = g.segs[k].of
    <3>1. /\ Len(h.segs) = L /\ L > 0 /\ h.segs[L].of = Append(last, m + 1)
          /\ \A k \in 1..(L - 1) : h.segs[k].of = g.segs[k].of
      BY <1>8 DEF LongerOf, L
    <3>2. L \in 1..L
      BY <1>2, <3>1
    <3>. QED BY <1>2, <3>1, <3>2
  <2>. HIDE DEF last
  <2>2. Len(Append(last, m + 1)) = Len(last) + 1 /\ Append(last, m + 1)[Len(last) + 1] = m + 1
        /\ \A a \in 1..Len(last) : Append(last, m + 1)[a] = last[a]
    BY <1>1, <2>1
  <2>3. Len(h.segs[L].of) = w + 1 /\ h.segs[L].of[w + 1] = m + 1
        /\ \A a \in 1..w : h.segs[L].of[a] = g.segs[L].of[a]
    BY <2>1, <2>2 DEF last
  <2>. HIDE DEF w
  <2>4. ASSUME NEW k \in 1..L, NEW a \in 1..Len(h.segs[k].of)
        PROVE  \/ a \in 1..Len(g.segs[k].of) /\ h.segs[k].of[a] = g.segs[k].of[a]
               \/ k = L /\ a = w + 1 /\ h.segs[k].of[a] = m + 1
    <3>1. CASE k = L
      <4>1. a \in 1..(w + 1)
        BY <2>3, <2>4, <3>1
      <4>2. CASE a = w + 1
        BY <2>3, <3>1, <4>2
      <4>3. CASE a \in 1..w
        BY <2>3, <3>1, <4>3 DEF w
      <4>. QED BY <2>1, <4>1, <4>2, <4>3
    <3>2. CASE k \in 1..(L - 1)
      BY <2>1, <2>4, <3>2
    <3>. QED BY <1>2, <2>4, <3>1, <3>2
  <2>5. Ascends(h)
    <3>1. ASSUME NEW k \in 1..L, NEW a \in 1..Len(h.segs[k].of),
                 NEW b \in 1..Len(h.segs[k].of), a < b
          PROVE  h.segs[k].of[a] < h.segs[k].of[b]
      <4>1. CASE k = L /\ b = w + 1
        <5>1. a \in 1..w
          BY <2>1, <3>1, <4>1
        <5>2. a \in 1..Len(g.segs[k].of) /\ h.segs[k].of[a] = g.segs[k].of[a]
              /\ h.segs[k].of[b] = m + 1
          BY <2>3, <4>1, <5>1 DEF w
        <5>. QED BY <1>5, <5>2
      <4>2. CASE b \in 1..Len(g.segs[k].of) /\ h.segs[k].of[b] = g.segs[k].of[b]
        <5>1. ~ (k = L /\ a = w + 1)
          BY <2>1, <3>1, <4>2 DEF w
        <5>2. a \in 1..Len(g.segs[k].of) /\ h.segs[k].of[a] = g.segs[k].of[a]
          BY <2>4, <5>1
        <5>. QED BY <1>3, <3>1, <4>2, <5>2
      <4>. QED BY <2>4, <4>1, <4>2
    <3>2. ASSUME NEW i \in 1..L, NEW k \in 1..L, i < k,
                 NEW a \in 1..Len(h.segs[i].of), NEW b \in 1..Len(h.segs[k].of)
          PROVE  h.segs[i].of[a] < h.segs[k].of[b]
      <4>0. i # L
        BY <1>2, <3>2
      <4>1. a \in 1..Len(g.segs[i].of) /\ h.segs[i].of[a] = g.segs[i].of[a]
        BY <2>4, <3>2, <4>0
      <4>2. CASE h.segs[k].of[b] = m + 1
        BY <1>5, <4>1, <4>2
      <4>3. CASE b \in 1..Len(g.segs[k].of) /\ h.segs[k].of[b] = g.segs[k].of[b]
        BY <1>3, <3>2, <4>1, <4>3
      <4>. QED BY <2>4, <4>2, <4>3
    <3>. QED BY <2>1, <3>1, <3>2 DEF Ascends
  <2>6. IsOf(h, more)
    <3>1. m + 1 \in 1..Len(more) /\ more[m + 1].kind # "end"
      BY <1>1, <1>8
    <3>2. ASSUME NEW k \in 1..L, NEW a \in 1..Len(h.segs[k].of)
          PROVE  h.segs[k].of[a] \in 1..Len(more) /\ more[h.segs[k].of[a]].kind # "end"
      BY <1>5, <2>4, <3>1
    <3>. QED BY <2>1, <3>2 DEF IsOf
  <2>7. Covers(h, more)
    <3>. SUFFICES ASSUME NEW j \in 1..Len(more), more[j].kind # "end"
                  PROVE  \E k \in 1..Len(h.segs) : \E a \in 1..Len(h.segs[k].of) :
                            h.segs[k].of[a] = j
      BY DEF Covers
    <3>1. CASE j = m + 1
      <4>1. w + 1 \in 1..Len(h.segs[L].of)
        BY <2>1, <2>3
      <4>. QED BY <2>1, <2>3, <3>1, <4>1
    <3>2. CASE j \in 1..m
      <4>0. PICK k \in 1..L : \E a \in 1..Len(g.segs[k].of) : g.segs[k].of[a] = j
        BY <1>1, <1>4, <3>2
      <4>1. PICK a \in 1..Len(g.segs[k].of) : g.segs[k].of[a] = j
        BY <4>0
      <4>2. a \in 1..Len(h.segs[k].of) /\ h.segs[k].of[a] = j
        <5>1. CASE k = L
          <6>1. a \in 1..w /\ a \in 1..(w + 1)
            <7>1. a \in 1..w
              BY <5>1 DEF w
            <7>. QED BY <2>1, <7>1
          <6>. QED BY <2>3, <4>1, <5>1, <6>1
        <5>2. CASE k \in 1..(L - 1)
          BY <2>1, <4>1, <5>2
        <5>. QED BY <1>2, <5>1, <5>2
      <4>. QED BY <2>1, <4>2
    <3>. QED BY <1>1, <3>1, <3>2
  <2>. QED BY <2>5, <2>6, <2>7 DEF InOrder
<1>. QED BY <1>6, <1>7, <1>8 DEF m, more

(***************************************************************************)
(* The tools of the timeline, of a log read without loss up to `last`: one   *)
(* segment for each call, the calls without a finish are the open ones, and  *)
(* a finish is a finish of the log with the id of the call, or with none. If *)
(* finishes carry ids none is lost.                                         *)
(***************************************************************************)
ToolSegs(g) == {k \in 1..Len(g.segs) : g.segs[k].kind = "tool"}

OfCall(n, tool, log, last) == n \in Those(log, "tool") /\ n <= last /\ tool = log[n].tool
ByFinish(finish, tool, log, last) ==
    finish # 0 => /\ finish \in Those(log, "end") /\ finish <= last
                  /\ log[finish].tool \in {tool, ""}

CallsDrawn(g, log, last) ==
    /\ \A i \in ToolSegs(g) : OfCall(g.segs[i].n, g.segs[i].tool, log, last)
    /\ \A i, j \in ToolSegs(g) : g.segs[i].n = g.segs[j].n => i = j
    /\ \A c \in Those(log, "tool") : c <= last => \E i \in ToolSegs(g) : g.segs[i].n = c
    /\ g.calls = {i \in ToolSegs(g) : g.segs[i].finish = 0}
FinishesDrawn(g, log, last) ==
    /\ \A i \in ToolSegs(g) : ByFinish(g.segs[i].finish, g.segs[i].tool, log, last)
    /\ \/ Nameless(log)
       \/ \A n \in Those(log, "end") : n <= last => \E i \in ToolSegs(g) : g.segs[i].finish = n
ToolsDrawn(g, log, last) == CallsDrawn(g, log, last) /\ FinishesDrawn(g, log, last)

SameTools(g, h) ==
    /\ ToolSegs(h) = ToolSegs(g) /\ h.calls = g.calls
    /\ \A k \in ToolSegs(g) : /\ h.segs[k].n = g.segs[k].n /\ h.segs[k].tool = g.segs[k].tool
                              /\ h.segs[k].finish = g.segs[k].finish

(* The entry of position n of a log. *)
EventOf(log, n) == [n |-> n, kind |-> log[n].kind, tool |-> log[n].tool]

LEMMA ToolsStay ==
    ASSUME NEW K, NEW T, NEW g, TimelineType(g, K, T), NEW e \in Entry(K, T), NEW i \in Nat,
           NEW h, e.kind # "tool",
           NewSegment(g, h, e, i) \/ LastLonger(g, h, e, i)
    PROVE  SameTools(g, h)
<1>1. g.segs \in Seq(Drawn(K, T)) /\ Len(g.segs) \in Nat
  BY DEF TimelineType
<1>2. \A k \in 1..Len(g.segs) : g.segs[k] \in Drawn(K, T)
  BY <1>1
<1>3. CASE NewSegment(g, h, e, i)
  <2>1. Segment(e, i) \in Drawn(K, T) /\ Segment(e, i).kind # "tool"
    BY DEF Segment, Drawn, Entry
  <2>2. /\ Len(h.segs) = Len(g.segs) + 1 /\ h.segs[Len(g.segs) + 1] = Segment(e, i)
        /\ \A k \in 1..Len(g.segs) : h.segs[k] = g.segs[k]
    BY <1>1, <1>3, <2>1, SegsMore DEF NewSegment
  <2>3. ToolSegs(h) = ToolSegs(g)
    BY <1>1, <2>1, <2>2 DEF ToolSegs
  <2>. QED BY <1>3, <2>2, <2>3 DEF SameTools, NewSegment, ToolSegs
<1>4. CASE LastLonger(g, h, e, i)
  <2>. DEFINE L == Len(g.segs)
  <2>1. L \in 1..L /\ h.segs = [g.segs EXCEPT ![L].of = Append(@, i)] /\ DOMAIN g.segs = 1..L
    BY <1>1, <1>4 DEF LastLonger
  <2>2. Len(h.segs) = L /\ h.segs[L] = [g.segs[L] EXCEPT !.of = Append(@, i)]
    BY <1>1, <2>1
  <2>3. \A k \in 1..L : k # L => h.segs[k] = g.segs[k]
    BY <2>1
  <2>4. /\ h.segs[L].kind = g.segs[L].kind /\ h.segs[L].n = g.segs[L].n
        /\ h.segs[L].tool = g.segs[L].tool /\ h.segs[L].finish = g.segs[L].finish
    BY <1>2, <2>1, <2>2 DEF Drawn
  <2>. HIDE DEF L
  <2>5. \A k \in 1..L : /\ h.segs[k].kind = g.segs[k].kind /\ h.segs[k].n = g.segs[k].n
                        /\ h.segs[k].tool = g.segs[k].tool
                        /\ h.segs[k].finish = g.segs[k].finish
    BY <2>3, <2>4
  <2>6. ToolSegs(h) = ToolSegs(g)
    BY <2>2, <2>5 DEF ToolSegs, L
  <2>. QED BY <1>4, <2>5, <2>6 DEF SameTools, LastLonger, ToolSegs, L
<1>. QED BY <1>3, <1>4

LEMMA LastLater ==
    ASSUME NEW log, NEW last \in Nat
    PROVE  /\ \A n, tool : OfCall(n, tool, log, last) => OfCall(n, tool, log, last + 1)
           /\ \A n, tool : ByFinish(n, tool, log, last) => ByFinish(n, tool, log, last + 1)
<1>1. \A n \in Those(log, "tool") \cup Those(log, "end") : n \in Nat /\ (n <= last => n <= last + 1)
  BY DEF Those
<1>. QED BY <1>1 DEF OfCall, ByFinish

LEMMA ToolsAfterOther ==
    ASSUME NEW log, NEW last \in Nat, NEW g, NEW h, ToolsDrawn(g, log, last), SameTools(g, h)
    PROVE  /\ ToolsDrawn(h, log, last)
           /\ last + 1 \in 1..Len(log) /\ log[last + 1].kind \notin {"tool", "end"}
                 => ToolsDrawn(h, log, last + 1)
<1>1. CallsDrawn(g, log, last) /\ FinishesDrawn(g, log, last)
  BY DEF ToolsDrawn
<1>2. CallsDrawn(h, log, last) /\ FinishesDrawn(h, log, last)
  <2>. USE <1>1 DEF SameTools
  <2>1. CallsDrawn(h, log, last)
    BY DEF CallsDrawn
  <2>2. \A k \in ToolSegs(h) : ByFinish(h.segs[k].finish, h.segs[k].tool, log, last)
    BY DEF FinishesDrawn
  <2>3. ASSUME ~ Nameless(log), NEW n \in Those(log, "end"), n <= last
        PROVE  \E k \in ToolSegs(h) : h.segs[k].finish = n
    BY <2>3 DEF FinishesDrawn
  <2>. QED BY <2>1, <2>2, <2>3 DEF FinishesDrawn
<1>3. ASSUME last + 1 \in 1..Len(log), log[last + 1].kind \notin {"tool", "end"}
      PROVE  ToolsDrawn(h, log, last + 1)
  <2>1. \A n \in Those(log, "tool") \cup Those(log, "end") : n \in Nat /\ n # last + 1
    BY <1>3 DEF Those
  <2>2. CallsDrawn(h, log, last + 1)
    BY <1>2, <2>1, LastLater DEF CallsDrawn
  <2>3. FinishesDrawn(h, log, last + 1)
    BY <1>2, <2>1, LastLater DEF FinishesDrawn
  <2>. QED BY <2>2, <2>3 DEF ToolsDrawn
<1>. QED BY <1>2, <1>3 DEF ToolsDrawn

LEMMA ToolsAfterCall ==
    ASSUME NEW K, NEW T, NEW log, NEW last \in Nat, last + 1 \in 1..Len(log),
           NEW g, TimelineType(g, K, T), EventOf(log, last + 1) \in Entry(K, T), NEW i \in Nat,
           NEW h, log[last + 1].kind = "tool", NewSegment(g, h, EventOf(log, last + 1), i),
           ToolsDrawn(g, log, last)
    PROVE  ToolsDrawn(h, log, last + 1)
<1>. DEFINE L == Len(g.segs)
            x == Segment(EventOf(log, last + 1), i)
<1>1. g.segs \in Seq(Drawn(K, T)) /\ L \in Nat
  BY DEF TimelineType
<1>2. x \in Drawn(K, T) /\ x.kind = "tool" /\ x.n = last + 1 /\ x.finish = 0
      /\ x.tool = log[last + 1].tool
  BY DEF Segment, Drawn, Entry, EventOf
<1>3. /\ Len(h.segs) = L + 1 /\ h.segs[L + 1] = x /\ h.calls = g.calls \cup {L + 1}
      /\ \A k \in 1..L : h.segs[k] = g.segs[k]
  BY <1>1, <1>2, SegsMore DEF NewSegment, EventOf
<1>. HIDE DEF x
<1>4. ToolSegs(h) = ToolSegs(g) \cup {L + 1} /\ ToolSegs(g) \subseteq 1..L
  <2>1. ToolSegs(g) \subseteq 1..L
    BY DEF ToolSegs
  <2>2. ToolSegs(h) = {k \in 1..(L + 1) : h.segs[k].kind = "tool"}
    BY <1>3 DEF ToolSegs
  <2>3. \A k \in 1..(L + 1) : k \in 1..L \/ k = L + 1
    BY <1>1
  <2>4. L + 1 \in 1..(L + 1) /\ 1..L \subseteq 1..(L + 1)
    BY <1>1
  <2>. HIDE DEF L
  <2>5. \A k \in 1..L : k \in ToolSegs(g) <=> h.segs[k].kind = "tool"
    BY <1>3 DEF ToolSegs, L
  <2>. QED BY <1>2, <1>3, <2>1, <2>2, <2>3, <2>4, <2>5
<1>. HIDE DEF L
<1>5. CallsDrawn(g, log, last) /\ FinishesDrawn(g, log, last)
  BY DEF ToolsDrawn
<1>6. \A n \in Those(log, "tool") \cup Those(log, "end") : n \in Nat
  BY DEF Those
<1>7. last + 1 \in Those(log, "tool") /\ last + 1 \notin Those(log, "end")
  BY DEF Those
<1>8. \A k \in ToolSegs(g) : h.segs[k] = g.segs[k] /\ k # L + 1 /\ g.segs[k].n # last + 1
  BY <1>1, <1>3, <1>4, <1>5, <1>6 DEF CallsDrawn, OfCall
<1>9. CallsDrawn(h, log, last + 1)
  <2>1. ASSUME NEW k \in ToolSegs(h)
        PROVE  OfCall(h.segs[k].n, h.segs[k].tool, log, last + 1)
    <3>1. CASE k = L + 1
      BY <1>2, <1>3, <1>7, <3>1 DEF OfCall
    <3>2. CASE k \in ToolSegs(g)
      BY <1>5, <1>8, <3>2, LastLater DEF CallsDrawn
    <3>. QED BY <1>4, <3>1, <3>2
  <2>2. ASSUME NEW k \in ToolSegs(h), NEW j \in ToolSegs(h), h.segs[k].n = h.segs[j].n
        PROVE  k = j
    <3>1. CASE k \in ToolSegs(g) /\ j \in ToolSegs(g)
      BY <1>5, <1>8, <2>2, <3>1 DEF CallsDrawn
    <3>2. \A s \in ToolSegs(h) : s \in ToolSegs(g) \/ s = L + 1
      BY <1>4
    <3>3. h.segs[L + 1].n = last + 1
      BY <1>2, <1>3
    <3>4. \A s \in ToolSegs(g) : h.segs[s].n # last + 1
      BY <1>8, Zenon
    <3>. QED BY <2>2, <3>1, <3>2, <3>3, <3>4, Zenon
  <2>3. ASSUME NEW c \in Those(log, "tool"), c <= last + 1
        PROVE  \E k \in ToolSegs(h) : h.segs[k].n = c
    <3>1. CASE c = last + 1
      BY <1>2, <1>3, <1>4, <3>1
    <3>2. CASE c <= last
      BY <1>4, <1>5, <1>8, <3>2 DEF CallsDrawn
    <3>. QED BY <1>6, <2>3, <3>1, <3>2
  <2>4. h.calls = {k \in ToolSegs(h) : h.segs[k].finish = 0}
    BY <1>2, <1>3, <1>4, <1>5, <1>8 DEF CallsDrawn
  <2>. QED BY <2>1, <2>2, <2>3, <2>4 DEF CallsDrawn
<1>10. FinishesDrawn(h, log, last + 1)
  <2>1. ASSUME NEW k \in ToolSegs(h)
        PROVE  ByFinish(h.segs[k].finish, h.segs[k].tool, log, last + 1)
    <3>1. CASE k = L + 1
      BY <1>2, <1>3, <3>1 DEF ByFinish
    <3>2. CASE k \in ToolSegs(g)
      BY <1>5, <1>8, <3>2, LastLater DEF FinishesDrawn
    <3>. QED BY <1>4, <3>1, <3>2
  <2>2. ASSUME ~ Nameless(log), NEW n \in Those(log, "end"), n <= last + 1
        PROVE  \E k \in ToolSegs(h) : h.segs[k].finish = n
    <3>1. n <= last
      BY <1>6, <1>7, <2>2
    <3>. QED BY <1>4, <1>5, <1>8, <2>2, <3>1 DEF FinishesDrawn
  <2>. QED BY <2>1, <2>2 DEF FinishesDrawn
<1>. QED BY <1>9, <1>10 DEF ToolsDrawn

LEMMA ToolsAfterFinish ==
    ASSUME NEW K, NEW T, NEW log, NEW last \in Nat, last + 1 \in 1..Len(log),
           NEW g, TimelineType(g, K, T), NEW h, TimelineType(h, K, T),
           log[last + 1].kind = "end",
           \/ CallDone(g, h, EventOf(log, last + 1)) \/ NoCall(g, h, EventOf(log, last + 1)),
           Named(log) \/ Nameless(log), ToolsDrawn(g, log, last)
    PROVE  ToolsDrawn(h, log, last + 1)
<1>. DEFINE e == EventOf(log, last + 1)
            p == Paired(g, e)
            n == last + 1
<1>1. /\ g.segs \in Seq(Drawn(K, T)) /\ Len(g.segs) \in Nat /\ g.calls \subseteq 1..Len(g.segs)
      /\ g.calls \subseteq Nat
  BY DEF TimelineType
<1>2. CallsDrawn(g, log, last) /\ FinishesDrawn(g, log, last)
  BY DEF ToolsDrawn
<1>3. /\ e.n = n /\ e.tool = log[n].tool /\ n \in Those(log, "end")
      /\ n \notin Those(log, "tool") /\ n # 0 /\ n \in Nat
      /\ \A m \in Those(log, "tool") \cup Those(log, "end") :
            m \in Nat /\ (m <= n <=> (m <= last \/ m = n))
  BY DEF EventOf, Those
<1>4. /\ g.calls = {} => p = 0
      /\ g.calls # {} => p \in g.calls
      /\ \A k \in g.calls : e.tool # "" /\ g.segs[k].tool = e.tool
            => p \in g.calls /\ g.segs[p].tool = e.tool
  BY <1>1, PairedIs
<1>. HIDE DEF e, p, n
(* A finish with an id finds its call open. *)
<1>5. ASSUME ~ Nameless(log) PROVE p \in g.calls /\ g.segs[p].tool = log[n].tool
  <2>1. Named(log) /\ log[n].tool # ""
    BY <1>3, <1>5 DEF Named
  <2>2. PICK m \in Those(log, "tool") : m < n /\ log[m].tool = log[n].tool
    BY <1>3, <2>1 DEF Named
  <2>3. m <= last
    BY <1>3, <2>2
  <2>4. PICK k \in ToolSegs(g) : g.segs[k].n = m
    BY <1>2, <2>3 DEF CallsDrawn
  <2>5. g.segs[k].tool = log[n].tool
    BY <1>2, <2>2, <2>4 DEF CallsDrawn, OfCall
  <2>6. g.segs[k].finish = 0
    <3>. SUFFICES ASSUME g.segs[k].finish # 0 PROVE FALSE
      OBVIOUS
    <3>1. /\ g.segs[k].finish \in Those(log, "end") /\ g.segs[k].finish <= last
          /\ log[g.segs[k].finish].tool \in {log[n].tool, ""}
      BY <1>2, <2>4, <2>5 DEF FinishesDrawn, ByFinish
    <3>2. log[g.segs[k].finish].tool = log[n].tool
      BY <2>1, <3>1 DEF Named
    <3>3. g.segs[k].finish = n
      BY <1>3, <2>1, <3>1, <3>2 DEF Named
    <3>. QED BY <3>1, <3>3 DEF n
  <2>7. k \in g.calls
    BY <1>2, <2>4, <2>6 DEF CallsDrawn
  <2>. QED BY <1>3, <1>4, <2>1, <2>5, <2>7
<1>6. CASE NoCall(g, h, e)
  <2>1. h = g /\ Nameless(log)
    BY <1>5, <1>6 DEF NoCall
  <2>2. CallsDrawn(h, log, n)
    BY <1>2, <1>3, <2>1, LastLater DEF CallsDrawn, n
  <2>3. FinishesDrawn(h, log, n)
    BY <1>2, <1>3, <2>1, LastLater DEF FinishesDrawn, n
  <2>. QED BY <2>2, <2>3 DEF ToolsDrawn, n
<1>7. CASE CallDone(g, h, e)
  <2>1. p \in g.calls /\ h.segs = [g.segs EXCEPT ![p].finish = n] /\ h.calls = g.calls \ {p}
    BY <1>3, <1>7 DEF CallDone, p
  <2>2. p \in 1..Len(g.segs) /\ p \in ToolSegs(g) /\ g.segs[p].finish = 0
    BY <1>1, <1>2, <2>1 DEF CallsDrawn
  <2>3. Len(h.segs) = Len(g.segs) /\ h.segs[p] = [g.segs[p] EXCEPT !.finish = n]
        /\ \A k \in 1..Len(g.segs) : k # p => h.segs[k] = g.segs[k]
    BY <1>1, <2>1, <2>2
  <2>4. g.segs[p] \in Drawn(K, T)
    BY <1>1, <2>2
  <2>5. /\ h.segs[p].kind = g.segs[p].kind /\ h.segs[p].n = g.segs[p].n
        /\ h.segs[p].tool = g.segs[p].tool /\ h.segs[p].finish = n
    BY <2>3, <2>4 DEF Drawn
  <2>6. /\ ToolSegs(h) = ToolSegs(g)
        /\ \A k \in ToolSegs(g) : /\ h.segs[k].n = g.segs[k].n /\ h.segs[k].tool = g.segs[k].tool
                                  /\ k # p => h.segs[k].finish = g.segs[k].finish
    <3>1. \A k \in 1..Len(g.segs) :
             /\ h.segs[k].kind = g.segs[k].kind /\ h.segs[k].n = g.segs[k].n
             /\ h.segs[k].tool = g.segs[k].tool
             /\ k # p => h.segs[k].finish = g.segs[k].finish
      BY <2>3, <2>5
    <3>2. ToolSegs(h) = ToolSegs(g)
      BY <2>3, <3>1 DEF ToolSegs
    <3>. QED BY <3>1, <3>2 DEF ToolSegs
  <2>7. CallsDrawn(h, log, n)
    <3>1. h.calls = {k \in ToolSegs(h) : h.segs[k].finish = 0}
      BY <1>2, <1>3, <2>1, <2>5, <2>6 DEF CallsDrawn
    <3>2. \A k \in ToolSegs(h) : OfCall(h.segs[k].n, h.segs[k].tool, log, n)
      BY <1>2, <2>6, LastLater DEF CallsDrawn, n
    <3>3. \A k, j \in ToolSegs(h) : h.segs[k].n = h.segs[j].n => k = j
      BY <1>2, <2>6 DEF CallsDrawn
    <3>4. \A c \in Those(log, "tool") : c <= n => \E k \in ToolSegs(h) : h.segs[k].n = c
      BY <1>2, <1>3, <2>6 DEF CallsDrawn
    <3>. QED BY <3>1, <3>2, <3>3, <3>4 DEF CallsDrawn
  <2>8. FinishesDrawn(h, log, n)
    <3>1. log[n].tool \in {g.segs[p].tool, ""}
      BY <1>3, <1>5 DEF Nameless
    <3>2. ASSUME NEW k \in ToolSegs(h)
          PROVE  ByFinish(h.segs[k].finish, h.segs[k].tool, log, n)
      <4>1. CASE k = p
        BY <1>3, <2>5, <3>1, <4>1 DEF ByFinish
      <4>2. CASE k # p
        BY <1>2, <2>6, <4>2, LastLater DEF FinishesDrawn, n
      <4>. QED BY <4>1, <4>2
    <3>3. ASSUME ~ Nameless(log), NEW m \in Those(log, "end"), m <= n
          PROVE  \E k \in ToolSegs(h) : h.segs[k].finish = m
      <4>1. CASE m = n
        BY <2>2, <2>5, <2>6, <4>1
      <4>2. CASE m <= last
        <5>1. PICK k \in ToolSegs(g) : g.segs[k].finish = m
          BY <1>2, <3>3, <4>2 DEF FinishesDrawn
        <5>2. m # 0
          BY DEF Those
        <5>. QED BY <2>2, <2>6, <5>1, <5>2
      <4>. QED BY <1>3, <3>3, <4>1, <4>2
    <3>. QED BY <3>2, <3>3 DEF FinishesDrawn
  <2>. QED BY <2>7, <2>8 DEF ToolsDrawn, n
<1>. QED BY <1>6, <1>7 DEF e

(***************************************************************************)
(* What the entries show, and how one more changes it.                      *)
(***************************************************************************)
Kinds(log) == {log[n].kind : n \in 1..Len(log)} \cup {"gap", "undecodable"}
Tools(log) == {log[n].tool : n \in 1..Len(log)} \cup {""}
EntryOf(log) == Entry(Kinds(log), Tools(log))

Marked(es, last) ==
    LET shown == ShownOf(es)
    IN  /\ Showing(es) /\ shown \in Seq(Nat)
        /\ last = IF shown = <<>> THEN 0 ELSE shown[Len(shown)]

Shows(es, last, s) ==
    /\ es \in Seq(EntryOf(s.log)) /\ Marked(es, last)
    /\ Grouped(es) /\ TimelineType(Group(es), Kinds(s.log), Tools(s.log)) /\ InOrder(Group(es), es)
    /\ s.bad = {} => ToolsDrawn(Group(es), s.log, last)

LEMMA NoticeShown ==
    ASSUME NEW s, NEW es, NEW last \in Nat, Shows(es, last, s), NEW e \in {Gap, Undecodable}
    PROVE  Shows(Append(es, e), last, s) /\ ShownOf(Append(es, e)) = ShownOf(es)
<1>. DEFINE K == Kinds(s.log)
            T == Tools(s.log)
            g == Group(es)
            i == Len(es) + 1
            h == GroupEntry(g, e, i)
            more == Append(es, e)
<1>1. e \in Entry(K, T) /\ e.n = 0 /\ e.kind \notin {"end", "tool"}
  <2>1. "gap" \in K /\ "undecodable" \in K /\ "" \in T
    BY DEF Kinds, Tools
  <2>. HIDE DEF K, T
  <2>2. Gap \in Entry(K, T) /\ Undecodable \in Entry(K, T)
    BY <2>1 DEF Gap, Undecodable, Entry
  <2>3. /\ Gap.n = 0 /\ Gap.kind \notin {"end", "tool"}
        /\ Undecodable.n = 0 /\ Undecodable.kind \notin {"end", "tool"}
    BY DEF Gap, Undecodable
  <2>. QED BY <2>2, <2>3
<1>2. es \in Seq(Entry(K, T)) /\ i \in Nat /\ more \in Seq(Entry(K, T))
  BY <1>1 DEF Shows, EntryOf
<1>3. Grouped(more) /\ Group(more) = h
  BY <1>1, <1>2, GroupMore DEF Shows
<1>4. Showing(more) /\ ShownOf(more) = ShownOf(es)
  BY <1>1, <1>2, ShownMore DEF Shows, Marked, Adds
<1>5. TimelineType(g, K, T) /\ InOrder(g, es)
  BY DEF Shows
<1>. HIDE DEF K, T, g, i, h
<1>6. TimelineType(h, K, T) /\ (NewSegment(g, h, e, i) \/ LastLonger(g, h, e, i))
  <2>1. TimelineType(h, K, T) /\ (\/ NewSegment(g, h, e, i) \/ LastLonger(g, h, e, i)
                                 \/ CallDone(g, h, e) \/ NoCall(g, h, e))
    BY <1>1, <1>2, <1>5, EntryDoes DEF h
  <2>. QED BY <1>1, <2>1 DEF CallDone, NoCall
<1>7. MoreOf(g, h, i) \/ LongerOf(g, h, i)
  BY <1>1, <1>2, <1>5, <1>6, OfIs
<1>8. InOrder(h, more)
  BY <1>1, <1>2, <1>5, <1>6, <1>7, OrderStep DEF i
<1>9. SameTools(g, h)
  BY <1>1, <1>2, <1>5, <1>6, ToolsStay
<1>10. s.bad = {} => ToolsDrawn(h, s.log, last)
  BY <1>9, ToolsAfterOther DEF Shows, g
<1>11. Marked(more, last)
  BY <1>4 DEF Marked, Shows
<1>. QED BY <1>2, <1>3, <1>4, <1>6, <1>8, <1>10, <1>11 DEF Shows, EntryOf, K, T

LEMMA EventShown ==
    ASSUME NEW s \in Scripts, NEW es, NEW last \in Nat, Shows(es, last, s),
           NEW n \in 1..Len(s.log), s.bad = {} => n = last + 1
    PROVE  /\ Shows(Append(es, EventOf(s.log, n)), n, s)
           /\ ShownOf(Append(es, EventOf(s.log, n))) = Append(ShownOf(es), n)
<1>. DEFINE K == Kinds(s.log)
            T == Tools(s.log)
            g == Group(es)
            i == Len(es) + 1
            e == EventOf(s.log, n)
            h == GroupEntry(g, e, i)
            more == Append(es, e)
<1>1. e \in Entry(K, T) /\ e.n = n /\ n # 0 /\ e.kind = s.log[n].kind /\ n \in Nat
  <2>0. n \in Nat /\ n # 0
    BY ScriptsAssumption
  <2>1. s.log[n].kind \in K
    BY DEF Kinds
  <2>2. s.log[n].tool \in T
    BY DEF Tools
  <2>. HIDE DEF K, T
  <2>. QED BY <2>0, <2>1, <2>2 DEF EventOf, Entry
<1>. HIDE DEF e
<1>2. es \in Seq(Entry(K, T)) /\ i \in Nat /\ more \in Seq(Entry(K, T))
  BY <1>1 DEF Shows, EntryOf
<1>3. Grouped(more) /\ Group(more) = h
  BY <1>1, <1>2, GroupMore DEF Shows
<1>4. Showing(more) /\ ShownOf(more) = Append(ShownOf(es), n)
  BY <1>1, <1>2, ShownMore DEF Shows, Marked, Adds
<1>5. TimelineType(g, K, T) /\ InOrder(g, es)
  BY DEF Shows
<1>. HIDE DEF K, T, g, i, h
<1>6. TimelineType(h, K, T) /\ (\/ NewSegment(g, h, e, i) \/ LastLonger(g, h, e, i)
                               \/ CallDone(g, h, e) \/ NoCall(g, h, e))
  BY <1>1, <1>2, <1>5, EntryDoes DEF h
<1>7. \/ SameOf(g, h) /\ e.kind = "end"
      \/ MoreOf(g, h, i) /\ e.kind # "end"
      \/ LongerOf(g, h, i) /\ e.kind # "end"
  <2>0. /\ NewSegment(g, h, e, i) => MoreOf(g, h, i)
        /\ LastLonger(g, h, e, i) => LongerOf(g, h, i)
        /\ CallDone(g, h, e) => SameOf(g, h)
        /\ NoCall(g, h, e) => SameOf(g, h)
    BY <1>1, <1>2, <1>5, OfIs
  <2>1. CASE NewSegment(g, h, e, i)
    BY <2>0, <2>1 DEF NewSegment
  <2>2. CASE LastLonger(g, h, e, i)
    BY <2>0, <2>2 DEF LastLonger
  <2>3. CASE CallDone(g, h, e) \/ NoCall(g, h, e)
    BY <2>0, <2>3 DEF CallDone, NoCall
  <2>. QED BY <1>6, <2>1, <2>2, <2>3
<1>8. InOrder(h, more)
  BY <1>1, <1>2, <1>5, <1>6, <1>7, OrderStep DEF i
<1>9. ASSUME s.bad = {} PROVE ToolsDrawn(h, s.log, n)
  <2>1. ToolsDrawn(g, s.log, last) /\ n = last + 1 /\ (Named(s.log) \/ Nameless(s.log))
    BY <1>9, ScriptsAssumption DEF Shows, g
  <2>2. CASE e.kind = "tool"
    <3>1. NewSegment(g, h, EventOf(s.log, last + 1), i)
      BY <1>6, <2>1, <2>2 DEF LastLonger, CallDone, NoCall, e
    <3>. QED BY <1>1, <1>2, <1>5, <2>1, <2>2, <3>1, ToolsAfterCall DEF e
  <2>3. CASE e.kind = "end"
    <3>1. \/ CallDone(g, h, EventOf(s.log, last + 1)) \/ NoCall(g, h, EventOf(s.log, last + 1))
      BY <1>6, <2>1, <2>3 DEF NewSegment, LastLonger, e
    <3>. QED BY <1>1, <1>5, <1>6, <2>1, <2>3, <3>1, ToolsAfterFinish
  <2>4. CASE e.kind \notin {"tool", "end"}
    <3>1. SameTools(g, h)
      BY <1>1, <1>2, <1>5, <1>6, <2>4, ToolsStay DEF CallDone, NoCall
    <3>. QED BY <1>1, <2>1, <2>4, <3>1, ToolsAfterOther
  <2>. QED BY <2>2, <2>3, <2>4
<1>10. Marked(more, n)
  <2>1. ShownOf(es) \in Seq(Nat)
    BY DEF Shows, Marked
  <2>2. \A shown \in Seq(Nat) : /\ Append(shown, n) \in Seq(Nat) /\ Append(shown, n) # <<>>
                                /\ Len(Append(shown, n)) = Len(shown) + 1
                                /\ Append(shown, n)[Len(shown) + 1] = n
    BY <1>1
  <2>. QED BY <1>4, <2>1, <2>2 DEF Marked
<1>. QED BY <1>2, <1>3, <1>4, <1>6, <1>8, <1>9, <1>10 DEF Shows, EntryOf, K, T, e

(***************************************************************************)
(* The invariant. What is queued on an open connection follows on what is    *)
(* shown, but for events that could not be read.                            *)
(***************************************************************************)
PaneStates == {"connecting", "live", "reconnecting", "closed"}

RunOK == script \in Scripts /\ emitted \in 0..Len(script.log)
GapsOK == faults.gaps \in 0..MaxGaps /\ conn.gaps \in 0..faults.gaps

ConnType == [open : BOOLEAN, next : Nat, events : Seq(Nat), gaps : Nat]

(* The next event the page reads. *)
Incoming == conn.next - Len(conn.events)
QueueOK ==
    /\ conn \in ConnType
    /\ ~ conn.open => conn = Closed
    /\ conn.open =>
          /\ conn.next <= emitted + 1 /\ pane.last < Incoming
          /\ \A i \in 1..Len(conn.events) : conn.events[i] = Incoming - 1 + i
          /\ (pane.last + 1)..(Incoming - 1) \subseteq script.bad
SessionOK ==
    /\ pane.last \in 0..emitted /\ pane.state \in PaneStates
    /\ pane = [entries |-> pane.entries, last |-> pane.last, state |-> pane.state]
    /\ Shows(pane.entries, pane.last, script)
PaneInv ==
    /\ RunOK /\ GapsOK /\ QueueOK /\ SessionOK
    /\ faults \in [drops : Nat, gaps : Nat]

LEMMA PaneInvInit == PaneInit => PaneInv
<1>. SUFFICES ASSUME PaneInit PROVE PaneInv
  OBVIOUS
<1>1. RunOK
  BY ScriptsAssumption DEF PaneInit, RunOK
<1>2. GapsOK /\ QueueOK /\ faults \in [drops : Nat, gaps : Nat]
  BY PaneAssumption DEF PaneInit, GapsOK, QueueOK, Closed, ConnType
<1>3. Shows(<<>>, 0, script)
  <2>1. <<>> \in Seq(EntryOf(script.log)) /\ <<>> \in Seq(Nat)
    OBVIOUS
  <2>2. Marked(<<>>, 0)
    BY <2>1, ShownNone DEF Marked
  <2>3. /\ Nowhere.segs = <<>> /\ Nowhere.calls = {} /\ Nowhere.out = 0 /\ Nowhere.think = 0
    BY DEF Nowhere
  <2>4. TimelineType(Nowhere, Kinds(script.log), Tools(script.log))
    BY DEF TimelineType, Nowhere
  <2>5. InOrder(Nowhere, <<>>)
    BY <2>3 DEF InOrder, Ascends, IsOf, Covers
  <2>6. ToolsDrawn(Nowhere, script.log, 0)
    <3>1. ToolSegs(Nowhere) = {}
      BY <2>3 DEF ToolSegs
    <3>2. \A n \in Those(script.log, "tool") \cup Those(script.log, "end") : ~ (n <= 0)
      BY DEF Those
    <3>. QED BY <2>3, <3>1, <3>2 DEF ToolsDrawn, CallsDrawn, FinishesDrawn
  <2>. QED BY <2>1, <2>2, <2>4, <2>5, <2>6, GroupNone DEF Shows
<1>4. SessionOK
  BY <1>1, <1>3 DEF PaneInit, SessionOK, RunOK, PaneStates
<1>. QED BY <1>1, <1>2, <1>4 DEF PaneInv

LEMMA ConnChanges ==
    ASSUME NEW c \in ConnType
    PROVE  /\ LET d == [c EXCEPT !.gaps = @ + 1]
              IN  /\ d \in ConnType /\ d.open = c.open /\ d.next = c.next /\ d.events = c.events
                  /\ d.gaps = c.gaps + 1
           /\ c.gaps > 0 =>
                 LET d == [c EXCEPT !.gaps = @ - 1]
                 IN  /\ d \in ConnType /\ d.open = c.open /\ d.next = c.next
                     /\ d.events = c.events /\ d.gaps = c.gaps - 1
           /\ LET d == [c EXCEPT !.next = @ + 1, !.events = Append(@, c.next)]
              IN  /\ d \in ConnType /\ d.open = c.open /\ d.next = c.next + 1
                  /\ d.events = Append(c.events, c.next) /\ d.gaps = c.gaps
           /\ c.events # <<>> =>
                 LET d == [c EXCEPT !.events = Tail(@)]
                 IN  /\ d \in ConnType /\ d.open = c.open /\ d.next = c.next
                     /\ d.events = Tail(c.events) /\ d.gaps = c.gaps
<1>0. c.gaps \in Nat /\ c.next \in Nat /\ c.events \in Seq(Nat)
  BY DEF ConnType
<1>1. c.gaps + 1 \in Nat /\ (c.gaps > 0 => c.gaps - 1 \in Nat) /\ c.next + 1 \in Nat
  BY <1>0
<1>2. Append(c.events, c.next) \in Seq(Nat) /\ (c.events # <<>> => Tail(c.events) \in Seq(Nat))
  BY <1>0
<1>3. /\ \A k \in Nat : LET d == [c EXCEPT !.gaps = k]
                       IN  /\ d \in ConnType /\ d.open = c.open /\ d.next = c.next
                           /\ d.events = c.events /\ d.gaps = k
      /\ \A q \in Seq(Nat) : LET d == [c EXCEPT !.events = q]
                            IN  /\ d \in ConnType /\ d.open = c.open /\ d.next = c.next
                                /\ d.events = q /\ d.gaps = c.gaps
      /\ \A k \in Nat : \A q \in Seq(Nat) :
            LET d == [c EXCEPT !.next = k, !.events = q]
            IN  /\ d \in ConnType /\ d.open = c.open /\ d.next = k
                /\ d.events = q /\ d.gaps = c.gaps
  BY DEF ConnType
<1>4. LET d == [c EXCEPT !.gaps = @ + 1]
      IN  /\ d \in ConnType /\ d.open = c.open /\ d.next = c.next /\ d.events = c.events
          /\ d.gaps = c.gaps + 1
  BY <1>1, <1>3
<1>5. c.gaps > 0 =>
         LET d == [c EXCEPT !.gaps = @ - 1]
         IN  /\ d \in ConnType /\ d.open = c.open /\ d.next = c.next
             /\ d.events = c.events /\ d.gaps = c.gaps - 1
  BY <1>1, <1>3
<1>6. LET d == [c EXCEPT !.next = @ + 1, !.events = Append(@, c.next)]
      IN  /\ d \in ConnType /\ d.open = c.open /\ d.next = c.next + 1
          /\ d.events = Append(c.events, c.next) /\ d.gaps = c.gaps
  BY <1>1, <1>2, <1>3
<1>7. c.events # <<>> =>
         LET d == [c EXCEPT !.events = Tail(@)]
         IN  /\ d \in ConnType /\ d.open = c.open /\ d.next = c.next
             /\ d.events = Tail(c.events) /\ d.gaps = c.gaps
  BY <1>2, <1>3
<1>. QED BY <1>4, <1>5, <1>6, <1>7

LEMMA RunStep == PaneInv /\ [PaneNext]_paneVars => RunOK' /\ script' = script /\ emitted <= emitted'
<1>. SUFFICES ASSUME PaneInv, [PaneNext]_paneVars
              PROVE  RunOK' /\ script' = script /\ emitted <= emitted'
  OBVIOUS
<1>0. RunOK /\ Len(script.log) \in Nat
  BY ScriptsAssumption DEF PaneInv, RunOK
<1>1. CASE AgentEmits
  BY <1>0, <1>1 DEF AgentEmits, RunOK
<1>2. CASE UNCHANGED <<script, emitted>>
  BY <1>0, <1>2 DEF RunOK
<1>. QED BY <1>1, <1>2 DEF PaneNext, paneVars, ServerSends, ServerLags, Connect, MessageArrives,
        GapArrives, ServerCloses, ConnectionLost

LEMMA GapsStep ==
    PaneInv /\ [PaneNext]_paneVars => GapsOK' /\ faults' \in [drops : Nat, gaps : Nat]
<1>. SUFFICES ASSUME PaneInv, [PaneNext]_paneVars
              PROVE  GapsOK' /\ faults' \in [drops : Nat, gaps : Nat]
  OBVIOUS
<1>0. /\ GapsOK /\ faults \in [drops : Nat, gaps : Nat] /\ MaxGaps \in Nat
      /\ conn \in ConnType
  BY PaneAssumption DEF PaneInv, QueueOK
<1>1. CASE ServerLags
  <2>1. /\ faults.gaps < MaxGaps /\ conn'.gaps = conn.gaps + 1
        /\ faults' = [faults EXCEPT !.gaps = @ + 1]
    BY <1>0, <1>1, ConnChanges DEF ServerLags
  <2>2. faults'.gaps = faults.gaps + 1 /\ faults' \in [drops : Nat, gaps : Nat]
    BY <1>0, <2>1
  <2>. QED BY <1>0, <2>1, <2>2 DEF GapsOK
<1>2. CASE ConnectionLost \/ ServerCloses \/ Connect
  BY <1>0, <1>2 DEF ConnectionLost, ServerCloses, Connect, Closed, GapsOK
<1>3. CASE ServerSends \/ MessageArrives \/ GapArrives
  <2>1. /\ faults' = faults
        /\ conn'.gaps = conn.gaps \/ (conn.gaps > 0 /\ conn'.gaps = conn.gaps - 1)
    <3>1. CASE ServerSends
      <4>1. /\ faults' = faults
            /\ conn' = [conn EXCEPT !.next = @ + 1, !.events = Append(@, conn.next)]
        BY <3>1 DEF ServerSends
      <4>2. conn \in ConnType /\ DOMAIN conn = {"open", "next", "events", "gaps"}
        BY <1>0 DEF ConnType
      <4>3. conn'.gaps = conn.gaps
        BY <4>1, <4>2
      <4>. QED BY <4>1, <4>3
    <3>2. CASE MessageArrives
      <4>1. faults' = faults /\ conn' = [conn EXCEPT !.events = Tail(@)]
        BY <3>2 DEF MessageArrives
      <4>2. conn \in ConnType /\ DOMAIN conn = {"open", "next", "events", "gaps"}
        BY <1>0 DEF ConnType
      <4>3. conn'.gaps = conn.gaps
        BY <4>1, <4>2
      <4>. QED BY <4>1, <4>3
    <3>3. CASE GapArrives
      BY <1>0, <3>3, ConnChanges DEF GapArrives
    <3>. QED BY <1>3, <3>1, <3>2, <3>3
  <2>. QED BY <1>0, <2>1 DEF GapsOK
<1>4. CASE AgentEmits \/ UNCHANGED paneVars
  BY <1>0, <1>4 DEF AgentEmits, paneVars, GapsOK
<1>. QED BY <1>1, <1>2, <1>3, <1>4 DEF PaneNext

(* Nothing is read: the entries stay, and the mark with them. *)
LEMMA SessionQuiet ==
    ASSUME PaneInv, script' = script, emitted <= emitted', RunOK',
           pane' = pane \/ pane' = Disconnected(pane)
    PROVE  SessionOK' /\ pane'.entries = pane.entries /\ pane'.last = pane.last
<1>0. SessionOK /\ emitted \in Nat /\ emitted' \in Nat
  BY DEF PaneInv, RunOK
<1>1. /\ pane'.entries = pane.entries /\ pane'.last = pane.last /\ pane'.state \in PaneStates
      /\ pane' = [entries |-> pane'.entries, last |-> pane'.last, state |-> pane'.state]
  <2>1. CASE pane' = pane
    BY <1>0, <2>1 DEF SessionOK
  <2>2. CASE pane' = [pane EXCEPT !.state = "reconnecting"]
    BY <1>0, <2>2 DEF SessionOK, PaneStates
  <2>. QED BY <2>1, <2>2 DEF Disconnected
<1>. QED BY <1>0, <1>1 DEF SessionOK

LEMMA QueueQuiet ==
    ASSUME PaneInv, [PaneNext]_paneVars, ~ MessageArrives, ~ GapArrives
    PROVE  QueueOK' /\ SessionOK' /\ pane'.entries = pane.entries
<1>0. /\ QueueOK /\ RunOK' /\ script' = script /\ emitted <= emitted'
      /\ emitted \in Nat /\ emitted' \in Nat /\ pane.last \in Nat /\ pane.last <= emitted
  BY RunStep DEF PaneInv, RunOK, SessionOK
<1>1. pane' = pane \/ pane' = Disconnected(pane)
  BY DEF PaneNext, paneVars, AgentEmits, ServerSends, ServerLags, Connect, ServerCloses,
     ConnectionLost
<1>2. SessionOK' /\ pane'.entries = pane.entries /\ pane'.last = pane.last
  BY <1>0, <1>1, SessionQuiet
<1>3. CASE AgentEmits \/ UNCHANGED paneVars
  <2>1. conn' = conn
    BY <1>3 DEF AgentEmits, paneVars
  <2>2. Incoming' = Incoming /\ conn.next \in Nat
    BY <1>0, <2>1 DEF Incoming, QueueOK, ConnType
  <2>3. conn.next <= emitted + 1 => conn.next <= emitted' + 1
    BY <1>0, <2>2
  <2>. QED BY <1>0, <1>2, <2>1, <2>2, <2>3 DEF QueueOK
<1>4. CASE ServerLags
  <2>1. /\ conn'.open = conn.open /\ conn'.next = conn.next /\ conn'.events = conn.events
        /\ conn.open
        /\ conn' \in ConnType
    BY <1>0, <1>4, ConnChanges DEF ServerLags, QueueOK
  <2>2. Incoming' = Incoming /\ conn.next \in Nat /\ emitted' = emitted
    BY <1>0, <1>4, <2>1 DEF Incoming, QueueOK, ConnType, ServerLags
  <2>. QED BY <1>0, <1>2, <2>1, <2>2 DEF QueueOK
<1>5. CASE ServerSends
  <2>1. /\ conn.open /\ conn.next <= emitted /\ conn.next \in Nat /\ conn.events \in Seq(Nat)
        /\ Len(conn.events) \in Nat
    BY <1>0, <1>5 DEF ServerSends, QueueOK, ConnType
  <2>2. /\ conn'.open /\ conn'.next = conn.next + 1 /\ conn'.events = Append(conn.events, conn.next)
        /\ conn' \in ConnType
    <3>1. /\ conn \in ConnType
          /\ conn' = [conn EXCEPT !.next = @ + 1, !.events = Append(@, conn.next)]
      BY <1>0, <1>5, Zenon DEF ServerSends, QueueOK
    <3>2. LET d == [conn EXCEPT !.next = @ + 1, !.events = Append(@, conn.next)]
          IN  d \in ConnType /\ d.open = conn.open /\ d.next = conn.next + 1
              /\ d.events = Append(conn.events, conn.next)
      BY <3>1, ConnChanges, Zenon
    <3>. QED BY <2>1, <3>1, <3>2, Zenon
  <2>3. /\ Len(conn'.events) = Len(conn.events) + 1
        /\ conn'.events[Len(conn.events) + 1] = conn.next
        /\ \A i \in 1..Len(conn.events) : conn'.events[i] = conn.events[i]
    BY <2>1, <2>2
  <2>4. Incoming' = Incoming
    <3>1. Incoming' = conn'.next - Len(conn'.events)
      BY DEF Incoming
    <3>2. Incoming' = (conn.next + 1) - (Len(conn.events) + 1)
      BY <2>2, <2>3, <3>1
    <3>3. \A x, y \in Nat : (x + 1) - (y + 1) = x - y
      OBVIOUS
    <3>. QED BY <2>1, <3>2, <3>3 DEF Incoming
  <2>5. ASSUME NEW i \in 1..Len(conn'.events) PROVE conn'.events[i] = Incoming - 1 + i
    <3>1. CASE i = Len(conn.events) + 1
      <4>1. \A x, y \in Nat : x - y - 1 + (y + 1) = x
        OBVIOUS
      <4>. QED BY <2>1, <2>3, <3>1, <4>1 DEF Incoming
    <3>2. CASE i \in 1..Len(conn.events)
      BY <1>0, <2>1, <2>3, <3>2 DEF QueueOK
    <3>. QED BY <2>1, <2>3, <3>1, <3>2
  <2>6. conn'.next <= emitted' + 1
    BY <1>0, <2>1, <2>2
  <2>. QED BY <1>0, <1>2, <2>1, <2>2, <2>4, <2>5, <2>6 DEF QueueOK
<1>6. CASE Connect
  <2>1. /\ conn' = [open |-> TRUE, next |-> pane.last + 1, events |-> <<>>, gaps |-> 0]
    BY <1>6 DEF Connect, ResumeFrom
  <2>2. /\ conn'.open /\ conn'.next = pane.last + 1 /\ conn'.events = <<>>
        /\ conn' \in ConnType
    BY <1>0, <2>1 DEF ConnType
  <2>3. Incoming' = pane.last + 1
    BY <1>0, <2>2 DEF Incoming
  <2>. QED BY <1>0, <1>2, <2>2, <2>3 DEF QueueOK
<1>7. CASE ServerCloses \/ ConnectionLost
  <2>1. conn' = Closed
    BY <1>7 DEF ServerCloses, ConnectionLost
  <2>. QED BY <1>2, <2>1 DEF QueueOK, Closed, ConnType
<1>. QED BY <1>2, <1>3, <1>4, <1>5, <1>6, <1>7 DEF PaneNext

LEMMA GapShown ==
    ASSUME PaneInv, GapArrives
    PROVE  QueueOK' /\ SessionOK' /\ ShownOf(pane'.entries) = ShownOf(pane.entries)
<1>0. /\ QueueOK /\ SessionOK /\ script' = script /\ emitted' = emitted /\ conn.open
      /\ conn' = [conn EXCEPT !.gaps = @ - 1] /\ conn.gaps > 0
      /\ pane' = [pane EXCEPT !.entries = Append(@, Gap)] /\ pane.last \in Nat
  BY DEF PaneInv, GapArrives, PushGap, SessionOK, RunOK
<1>1. /\ pane'.entries = Append(pane.entries, Gap) /\ pane'.last = pane.last
      /\ pane'.state = pane.state
      /\ pane' = [entries |-> pane'.entries, last |-> pane'.last, state |-> pane'.state]
  BY <1>0 DEF SessionOK
<1>2. Shows(pane'.entries, pane.last, script) /\ ShownOf(pane'.entries) = ShownOf(pane.entries)
  BY <1>0, <1>1, NoticeShown DEF SessionOK
<1>3. SessionOK'
  BY <1>0, <1>1, <1>2 DEF SessionOK
<1>4. /\ conn'.open = conn.open /\ conn'.next = conn.next /\ conn'.events = conn.events
      /\ conn' \in ConnType
  BY <1>0, ConnChanges DEF QueueOK
<1>5. QueueOK'
  BY <1>0, <1>1, <1>4 DEF QueueOK, Incoming
<1>. QED BY <1>2, <1>3, <1>5

(* A message read is the next one, and is shown unless it cannot be read.    *)
LEMMA MessageShown ==
    ASSUME PaneInv, MessageArrives
    PROVE  /\ QueueOK' /\ SessionOK'
           /\ \/ ShownOf(pane'.entries) = ShownOf(pane.entries)
              \/ \E n \in 1..Len(script.log) :
                    /\ n > pane.last /\ (pane.last + 1)..(n - 1) \subseteq script.bad
                    /\ ShownOf(pane'.entries) = Append(ShownOf(pane.entries), n)
<1>. DEFINE m == Incoming
<1>0. /\ QueueOK /\ SessionOK /\ RunOK /\ script' = script /\ emitted' = emitted /\ conn.open
      /\ conn' = [conn EXCEPT !.events = Tail(@)] /\ conn.events # <<>>
      /\ pane.last \in Nat /\ emitted \in Nat /\ Len(script.log) \in Nat
      /\ emitted <= Len(script.log)
  BY ScriptsAssumption DEF PaneInv, MessageArrives, SessionOK, RunOK
<1>1. /\ conn.events \in Seq(Nat) /\ Len(conn.events) \in Nat /\ Len(conn.events) > 0
      /\ conn.next \in Nat
  BY <1>0 DEF QueueOK, ConnType
<1>2. /\ Head(conn.events) = m /\ m \in Nat /\ pane.last < m /\ m <= emitted
      /\ m \in 1..Len(script.log)
  <2>1. Head(conn.events) = conn.events[1] /\ 1 \in 1..Len(conn.events)
    BY <1>1
  <2>2. pane.last < m /\ conn.next <= emitted + 1 /\ conn.events[1] = m - 1 + 1
    BY <1>0, <2>1 DEF QueueOK
  <2>3. m = conn.next - Len(conn.events) /\ m \in Int
    BY <1>1 DEF Incoming
  <2>. HIDE DEF m
  <2>a. m \in Nat /\ m # 0
    BY <1>0, <2>2, <2>3
  <2>b. m < conn.next
    BY <1>1, <2>3
  <2>4. m \in Nat /\ m <= emitted /\ m <= Len(script.log)
    BY <1>0, <1>1, <2>2, <2>a, <2>b
  <2>5. Head(conn.events) = m
    BY <2>1, <2>2, <2>4
  <2>. QED BY <1>0, <2>2, <2>4, <2>5
<1>3. /\ conn'.open /\ conn'.next = conn.next /\ conn'.events = Tail(conn.events)
      /\ conn' \in ConnType
  <2>1. conn \in ConnType
    BY <1>0 DEF QueueOK
  <2>2. LET d == [conn EXCEPT !.events = Tail(@)]
        IN  d \in ConnType /\ d.open = conn.open /\ d.next = conn.next
            /\ d.events = Tail(conn.events)
    BY <1>0, <2>1, ConnChanges, Zenon
  <2>. QED BY <1>0, <2>2, Zenon
<1>4. /\ Len(conn'.events) = Len(conn.events) - 1
      /\ \A i \in 1..Len(conn'.events) :
            conn'.events[i] = conn.events[i + 1] /\ i + 1 \in 1..Len(conn.events)
  BY <1>1, <1>3
<1>5. Incoming' = m + 1
  BY <1>1, <1>3, <1>4 DEF Incoming
<1>6. \A i \in 1..Len(conn'.events) : conn'.events[i] = m + i
  <2>1. \A i \in 1..Len(conn.events) : conn.events[i] = m - 1 + i
    BY <1>0 DEF QueueOK
  <2>. HIDE DEF m
  <2>2. ASSUME NEW i \in 1..Len(conn'.events) PROVE conn'.events[i] = m + i
    <3>1. i \in Nat /\ conn'.events[i] = m - 1 + (i + 1)
      BY <1>1, <1>4, <2>1
    <3>. QED BY <1>2, <3>1
  <2>. QED BY <2>2
<1>7. (pane.last + 1)..(m - 1) \subseteq script.bad /\ conn.next <= emitted + 1
  BY <1>0 DEF QueueOK
<1>. HIDE DEF m
<1>8. CASE m \in script.bad
  <2>1. pane' = [pane EXCEPT !.entries = Append(@, Undecodable)]
    BY <1>2, <1>8 DEF MessageArrives, PushUndecodable
  <2>2. /\ pane'.entries = Append(pane.entries, Undecodable) /\ pane'.last = pane.last
        /\ pane'.state = pane.state
        /\ pane' = [entries |-> pane'.entries, last |-> pane'.last, state |-> pane'.state]
    BY <1>0, <2>1 DEF SessionOK
  <2>3. Shows(pane'.entries, pane.last, script) /\ ShownOf(pane'.entries) = ShownOf(pane.entries)
    BY <1>0, <2>2, NoticeShown DEF SessionOK
  <2>4. SessionOK'
    BY <1>0, <2>2, <2>3 DEF SessionOK
  <2>5. (pane.last + 1)..m \subseteq script.bad
    BY <1>0, <1>2, <1>7, <1>8
  <2>6. (m + 1) - 1 = m /\ pane.last < m + 1
    BY <1>0, <1>2
  <2>7. QueueOK'
    BY <1>0, <1>3, <1>5, <1>6, <1>7, <2>2, <2>5, <2>6 DEF QueueOK
  <2>. QED BY <2>3, <2>4, <2>7
<1>9. CASE m \notin script.bad
  <2>0. pane' = Push(pane, m) /\ ~ (m <= pane.last)
    BY <1>0, <1>2, <1>9 DEF MessageArrives
  <2>1. pane' = [entries |-> Append(pane.entries, EventOf(script.log, m)), last |-> m,
                 state |-> IF Ended(m) THEN "closed" ELSE "live"]
    BY <2>0 DEF Push, Event, EventOf
  <2>2. /\ pane'.entries = Append(pane.entries, EventOf(script.log, m)) /\ pane'.last = m
        /\ pane'.state \in PaneStates
        /\ pane' = [entries |-> pane'.entries, last |-> pane'.last, state |-> pane'.state]
    BY <2>1 DEF PaneStates
  <2>3. script.bad = {} => m = pane.last + 1
    <3>1. m # pane.last + 1 => pane.last + 1 \in (pane.last + 1)..(m - 1)
      BY <1>0, <1>2
    <3>. QED BY <1>7, <3>1
  <2>4. /\ Shows(pane'.entries, m, script)
        /\ ShownOf(pane'.entries) = Append(ShownOf(pane.entries), m)
    BY <1>0, <1>2, <2>2, <2>3, EventShown DEF SessionOK, RunOK
  <2>5. SessionOK'
    BY <1>0, <1>2, <2>2, <2>4 DEF SessionOK
  <2>6. (m + 1)..m \subseteq script.bad /\ (m + 1) - 1 = m /\ m < m + 1
    BY <1>2
  <2>7. QueueOK'
    BY <1>0, <1>3, <1>5, <1>6, <1>7, <2>2, <2>6 DEF QueueOK
  <2>. QED BY <1>2, <1>7, <2>4, <2>5, <2>7
<1>. QED BY <1>8, <1>9

LEMMA PaneInvStep == PaneInv /\ [PaneNext]_paneVars => PaneInv'
<1>. SUFFICES ASSUME PaneInv, [PaneNext]_paneVars PROVE PaneInv'
  OBVIOUS
<1>1. RunOK' /\ GapsOK' /\ faults' \in [drops : Nat, gaps : Nat]
  BY RunStep, GapsStep
<1>2. QueueOK' /\ SessionOK'
  BY QueueQuiet, GapShown, MessageShown
<1>. QED BY <1>1, <1>2 DEF PaneInv

LEMMA PaneInvSound == PaneInv => PaneSound
<1>. SUFFICES ASSUME PaneInv PROVE PaneSound
  OBVIOUS
<1>. DEFINE g == Group(pane.entries)
            segs == g.segs
<1>0. /\ RunOK /\ GapsOK /\ QueueOK /\ SessionOK /\ Len(script.log) \in Nat /\ MaxGaps \in Nat
      /\ emitted \in Nat /\ emitted <= Len(script.log)
  BY ScriptsAssumption, PaneAssumption DEF PaneInv, RunOK
<1>1. PaneTypeOK
  <2>1. conn.next \in 0..(Len(script.log) + 1)
    BY <1>0 DEF QueueOK, Closed, ConnType
  <2>2. conn.gaps \in 0..MaxGaps
    BY <1>0 DEF GapsOK
  <2>. QED BY <1>0, <2>1, <2>2 DEF PaneTypeOK, RunOK, SessionOK, PaneStates
<1>2. Ascends(g) /\ IsOf(g, pane.entries) /\ Covers(g, pane.entries)
  BY <1>0 DEF SessionOK, Shows, InOrder
<1>3. \A i \in 1..Len(segs) : /\ segs[i].of \in Seq(Nat) /\ Len(segs[i].of) \in Nat
                              /\ Range(segs[i].of) = {segs[i].of[a] : a \in 1..Len(segs[i].of)}
  <2>1. g.segs \in Seq(Drawn(Kinds(script.log), Tools(script.log)))
    BY <1>0 DEF SessionOK, Shows, TimelineType
  <2>. HIDE DEF g
  <2>2. \A i \in 1..Len(g.segs) : g.segs[i] \in Drawn(Kinds(script.log), Tools(script.log))
    BY <2>1
  <2>3. \A i \in 1..Len(g.segs) : g.segs[i].of \in Seq(Nat)
    BY <2>2 DEF Drawn
  <2>4. \A f \in Seq(Nat) : Len(f) \in Nat /\ Range(f) = {f[a] : a \in 1..Len(f)}
    BY DEF Range
  <2>. QED BY <2>3, <2>4
<1>4. TimelineInOrder
  <2>. HIDE DEF g
  <2>1. \A i \in 1..Len(segs) : \A a, b \in 1..Len(segs[i].of) :
           a < b => segs[i].of[a] < segs[i].of[b]
    BY <1>2 DEF Ascends
  <2>2. \A i, k \in 1..Len(segs) : i < k =>
           \A x \in Range(segs[i].of) : \A y \in Range(segs[k].of) : x < y
    <3>1. ASSUME NEW i \in 1..Len(segs), NEW k \in 1..Len(segs), i < k,
                 NEW x \in Range(segs[i].of), NEW y \in Range(segs[k].of)
          PROVE  x < y
      <4>1. PICK a \in 1..Len(segs[i].of) : x = segs[i].of[a]
        BY <1>3
      <4>2. PICK b \in 1..Len(segs[k].of) : y = segs[k].of[b]
        BY <1>3
      <4>. QED BY <1>2, <3>1, <4>1, <4>2 DEF Ascends
    <3>. QED BY <3>1
  <2>3. UNION {Range(segs[i].of) : i \in 1..Len(segs)}
           = {j \in 1..Len(pane.entries) : pane.entries[j].kind # "end"}
    <3>1. ASSUME NEW i \in 1..Len(segs), NEW x \in Range(segs[i].of)
          PROVE  x \in 1..Len(pane.entries) /\ pane.entries[x].kind # "end"
      <4>1. PICK a \in 1..Len(segs[i].of) : x = segs[i].of[a]
        BY <1>3
      <4>. QED BY <1>2, <4>1 DEF IsOf
    <3>2. ASSUME NEW j \in 1..Len(pane.entries), pane.entries[j].kind # "end"
          PROVE  \E i \in 1..Len(segs) : j \in Range(segs[i].of)
      <4>1. PICK i \in 1..Len(segs) : \E a \in 1..Len(segs[i].of) : segs[i].of[a] = j
        BY <1>2, <3>2 DEF Covers
      <4>. QED BY <1>3, <4>1
    <3>. QED BY <3>1, <3>2
  <2>. QED BY <2>1, <2>2, <2>3 DEF TimelineInOrder, g
<1>5. ToolsOwnFinish
  <2>. SUFFICES ASSUME script.bad = {}, NEW i \in {k \in 1..Len(segs) : segs[k].kind = "tool"}
                PROVE  /\ segs[i].finish # 0 =>
                             script.log[segs[i].finish].tool \in {segs[i].tool, ""}
                       /\ \A n \in Those(script.log, "end") :
                             n <= pane.last /\ script.log[n].tool # ""
                               /\ script.log[n].tool = segs[i].tool => segs[i].finish = n
    BY DEF ToolsOwnFinish
  <2>1. /\ CallsDrawn(g, script.log, pane.last) /\ FinishesDrawn(g, script.log, pane.last)
        /\ i \in ToolSegs(g) /\ (Named(script.log) \/ Nameless(script.log))
    BY <1>0, ScriptsAssumption DEF SessionOK, Shows, ToolsDrawn, ToolSegs, RunOK
  <2>. HIDE DEF g
  <2>2. segs[i].finish # 0 => script.log[segs[i].finish].tool \in {segs[i].tool, ""}
    BY <2>1 DEF FinishesDrawn, ByFinish
  <2>3. ASSUME NEW n \in Those(script.log, "end"), n <= pane.last, script.log[n].tool # "",
               script.log[n].tool = segs[i].tool
        PROVE  segs[i].finish = n
    <3>1. Named(script.log) /\ ~ Nameless(script.log)
      BY <2>1, <2>3 DEF Nameless
    <3>2. PICK k \in ToolSegs(g) : segs[k].finish = n
      BY <2>1, <2>3, <3>1 DEF FinishesDrawn
    <3>3. segs[k].tool = segs[i].tool
      <4>1. n # 0
        BY DEF Those
      <4>. QED BY <2>1, <2>3, <3>2, <4>1 DEF FinishesDrawn, ByFinish
    <3>4. /\ segs[k].n \in Those(script.log, "tool") /\ segs[i].n \in Those(script.log, "tool")
          /\ script.log[segs[k].n].tool = script.log[segs[i].n].tool
      BY <2>1, <3>2, <3>3 DEF CallsDrawn, OfCall
    <3>5. segs[k].n = segs[i].n
      <4>1. \A m, n0 \in Those(script.log, "tool") :
               script.log[m].tool = script.log[n0].tool => m = n0
        BY <3>1 DEF Named
      <4>. QED BY <3>4, <4>1
    <3>6. k = i
      BY <2>1, <3>2, <3>5 DEF CallsDrawn
    <3>. QED BY <3>2, <3>6
  <2>. QED BY <2>2, <2>3
<1>. QED BY <1>1, <1>4, <1>5 DEF PaneSound

(* The pane of an agent: across lost connections, lag signals and frames     *)
(* that cannot be read, its timeline gives every entry once and in order,    *)
(* and, when all could be read, closes a tool call by its own finish. For    *)
(* any runs, and any number of drops and lag signals.                       *)
THEOREM PaneSoundHolds == PaneSpec => []PaneSound
<1>1. PaneSpec => []PaneInv
  BY PaneInvInit, PaneInvStep, PTL DEF PaneSpec
<1>. QED BY <1>1, PaneInvSound, PTL

LEMMA PaneTells ==
    ASSUME PaneInv, [PaneNext]_paneVars
    PROVE  [Reader!More]_(ShownOf(pane.entries))
<1>1. script' = script /\ RunOK /\ SessionOK
  BY RunStep DEF PaneInv
<1>2. CASE ShownOf(pane'.entries) = ShownOf(pane.entries)
  BY <1>2
<1>3. CASE \E n \in 1..Len(script.log) :
              /\ n > pane.last /\ (pane.last + 1)..(n - 1) \subseteq script.bad
              /\ ShownOf(pane'.entries) = Append(ShownOf(pane.entries), n)
  <2>1. PICK n \in 1..Len(script.log) :
              /\ n > pane.last /\ (pane.last + 1)..(n - 1) \subseteq script.bad
              /\ ShownOf(pane'.entries) = Append(ShownOf(pane.entries), n)
    BY <1>3
  <2>2. Reader!Latest = pane.last
    BY <1>1 DEF SessionOK, Shows, Marked, Reader!Latest
  <2>3. Reader!Show(n)
    BY <1>1, <2>1, <2>2, ScriptsAssumption DEF Reader!Show
  <2>. QED BY <2>1, <2>3 DEF Reader!More
<1>. QED BY <1>2, <1>3, QueueQuiet, GapShown, MessageShown

(* What the pane shows of a run is a telling of it: every step of the pane   *)
(* shows the next event, passing over none but those that cannot be read, or *)
(* leaves what is shown alone (stream.rs push, resume_from).                *)
THEOREM PaneTellsRun == PaneSpec => Reader!Told
<1>1. PaneInit => Reader!Begin
  BY ShownNone DEF PaneInit, Reader!Begin
<1>2. PaneSpec => []PaneInv
  BY PaneInvInit, PaneInvStep, PTL DEF PaneSpec
<1>. QED BY <1>1, <1>2, PaneTells, PTL DEF PaneSpec, Reader!Told

(* Nothing is queued behind the terminal event, and once it is on screen     *)
(* nothing is queued at all.                                                *)
NothingAfterEnd ==
    conn.open =>
        /\ \A n \in Incoming..(conn.next - 2) : ~ Ended(n)
        /\ pane.state = "closed" =>
              conn.events = <<>> /\ conn.next > 1 /\ Ended(conn.next - 1)

LEMMA NothingAfterEndStep ==
    ASSUME PaneInv, NothingAfterEnd, [PaneNext]_paneVars
    PROVE  NothingAfterEnd' /\ (pane.state = "closed" => pane'.state = "closed")
<1>0. /\ script' = script /\ conn \in ConnType /\ conn.next \in Nat /\ conn.events \in Seq(Nat)
      /\ Len(conn.events) \in Nat /\ conn.gaps \in Nat
      /\ pane = [entries |-> pane.entries, last |-> pane.last, state |-> pane.state]
      /\ pane.last \in Nat
  BY RunStep DEF PaneInv, QueueOK, ConnType, SessionOK
<1>1. \A n : Ended(n)' <=> Ended(n)
  BY <1>0 DEF Ended
<1>2. CASE AgentEmits \/ UNCHANGED paneVars
  <2>1. conn' = conn /\ pane' = pane
    BY <1>2 DEF AgentEmits, paneVars
  <2>. QED BY <1>0, <2>1 DEF NothingAfterEnd, Incoming, Ended
<1>3. CASE ServerLags \/ GapArrives
  <2>1. /\ conn.open /\ pane'.state = pane.state
        /\ conn'.open = conn.open /\ conn'.next = conn.next /\ conn'.events = conn.events
    <3>1. CASE ServerLags
      BY <1>0, <3>1, ConnChanges DEF ServerLags
    <3>2. CASE GapArrives
      <4>1. pane'.state = pane.state
        BY <1>0, <3>2 DEF GapArrives, PushGap
      <4>. QED BY <1>0, <3>2, <4>1, ConnChanges DEF GapArrives
    <3>. QED BY <1>3, <3>1, <3>2
  <2>. QED BY <1>0, <2>1 DEF NothingAfterEnd, Incoming, Ended
<1>4. CASE ServerSends
  <2>1. /\ conn.open /\ (conn.next > 1 => ~ Ended(conn.next - 1)) /\ pane' = pane
        /\ conn' = [conn EXCEPT !.next = @ + 1, !.events = Append(@, conn.next)]
    BY <1>4 DEF ServerSends
  <2>2. conn'.next = conn.next + 1 /\ conn'.events = Append(conn.events, conn.next)
    BY <1>0, <2>1, ConnChanges
  <2>3. Len(conn'.events) = Len(conn.events) + 1
    BY <1>0, <2>2
  <2>4. Incoming' = Incoming /\ Incoming \in Int
    <3>1. Incoming' = (conn.next + 1) - (Len(conn.events) + 1)
      BY <2>2, <2>3 DEF Incoming
    <3>2. \A x, y \in Nat : (x + 1) - (y + 1) = x - y /\ x - y \in Int
      OBVIOUS
    <3>. QED BY <1>0, <3>1, <3>2 DEF Incoming
  <2>5. pane.state # "closed"
    BY <2>1 DEF NothingAfterEnd
  <2>6. Incoming > 0
    BY <1>0, <2>1, <2>4 DEF PaneInv, QueueOK
  <2>7. ASSUME NEW n \in Incoming..((conn.next + 1) - 2) PROVE ~ Ended(n)
    <3>1. CASE n = conn.next - 1
      BY <1>0, <2>1, <2>4, <2>6, <3>1
    <3>2. CASE n # conn.next - 1
      <4>0. \A i \in Int : \A x \in Nat : \A k \in i..((x + 1) - 2) : k # x - 1 => k \in i..(x - 2)
        OBVIOUS
      <4>1. n \in Incoming..(conn.next - 2)
        BY <1>0, <2>4, <3>2, <4>0
      <4>. QED BY <2>1, <4>1 DEF NothingAfterEnd
    <3>. QED BY <3>1, <3>2
  <2>. QED BY <1>1, <2>1, <2>2, <2>4, <2>5, <2>7 DEF NothingAfterEnd
<1>5. CASE Connect
  <2>1. /\ pane.state # "closed" /\ pane' = pane
        /\ conn' = [open |-> TRUE, next |-> pane.last + 1, events |-> <<>>, gaps |-> 0]
    BY <1>5 DEF Connect, ShouldRetry, ResumeFrom
  <2>2. Incoming' = pane.last + 1 /\ conn'.next = pane.last + 1
    BY <1>0, <2>1 DEF Incoming
  <2>3. \A k \in Nat : \A n \in (k + 1)..((k + 1) - 2) : FALSE
    OBVIOUS
  <2>4. \A n \in (Incoming')..(conn'.next - 2) : FALSE
    BY <1>0, <2>2, <2>3
  <2>. QED BY <2>1, <2>4 DEF NothingAfterEnd
<1>6. CASE ServerCloses \/ ConnectionLost
  <2>1. conn' = Closed /\ pane' = Disconnected(pane)
    BY <1>6 DEF ServerCloses, ConnectionLost
  <2>2. pane.state = "closed" => pane' = pane
    BY <2>1 DEF Disconnected
  <2>. QED BY <2>1, <2>2 DEF NothingAfterEnd, Closed
<1>7. CASE MessageArrives
  <2>. DEFINE m == Incoming
  <2>1. /\ conn.open /\ conn.events # <<>> /\ conn' = [conn EXCEPT !.events = Tail(@)]
        /\ pane' = IF Head(conn.events) \in script.bad THEN PushUndecodable(pane)
                   ELSE Push(pane, Head(conn.events))
    BY <1>7 DEF MessageArrives
  <2>2. pane.state # "closed"
    BY <2>1 DEF NothingAfterEnd
  <2>3. /\ conn'.next = conn.next /\ conn'.events = Tail(conn.events) /\ conn'.open
        /\ conn' \in ConnType
    BY <1>0, <2>1, ConnChanges
  <2>4. Len(conn'.events) = Len(conn.events) - 1 /\ Len(conn.events) > 0
    BY <1>0, <2>1, <2>3
  <2>5. m = conn.next - Len(conn.events) /\ m \in Int /\ Incoming' = m + 1 /\ m < conn.next
    BY <1>0, <2>3, <2>4 DEF Incoming
  <2>6. Head(conn.events) = m /\ m > 0
    <3>1. Head(conn.events) = conn.events[1] /\ 1 \in 1..Len(conn.events)
      BY <1>0, <2>1, <2>4
    <3>2. conn.events[1] = m - 1 + 1 /\ pane.last < m
      BY <2>1, <3>1 DEF PaneInv, QueueOK
    <3>. QED BY <1>0, <2>5, <3>1, <3>2
  <2>7. \A n \in m..(conn.next - 2) : ~ Ended(n)
    BY <2>1 DEF NothingAfterEnd
  <2>. HIDE DEF m
  <2>8. \A n \in (m + 1)..(conn.next - 2) : ~ Ended(n)
    BY <1>0, <2>5, <2>7
  <2>9. ASSUME pane'.state = "closed"
        PROVE  conn'.events = <<>> /\ conn.next > 1 /\ Ended(conn.next - 1)
    <3>1. Ended(m)
      <4>1. CASE pane' = [pane EXCEPT !.entries = Append(@, Undecodable)]
        BY <1>0, <2>2, <2>9, <4>1
      <4>2. CASE pane' = pane
        BY <2>2, <2>9, <4>2
      <4>3. CASE pane' = [entries |-> Append(pane.entries, Event(m)), last |-> m,
                          state |-> IF Ended(m) THEN "closed" ELSE "live"]
        BY <2>9, <4>3
      <4>. QED BY <2>1, <2>6, <4>1, <4>2, <4>3 DEF PushUndecodable, Push
    <3>2. m = conn.next - 1
      <4>1. ~ (m \in m..(conn.next - 2))
        BY <2>7, <3>1
      <4>2. \A i \in Int : \A x \in Nat : i < x /\ ~ (i \in i..(x - 2)) => i = x - 1
        OBVIOUS
      <4>. QED BY <1>0, <2>5, <4>1, <4>2
    <3>3. Len(conn'.events) = 0 /\ conn'.events \in Seq(Nat)
      <4>1. conn'.events \in Seq(Nat)
        BY <2>3 DEF ConnType
      <4>2. Len(conn.events) = 1
        <5>1. conn.next \in Nat /\ Len(conn.events) \in Nat
          BY <1>0
        <5>2. conn.next - Len(conn.events) = conn.next - 1
          BY <2>5, <3>2
        <5>3. \A x, y \in Nat : x - y = x - 1 => y = 1
          OBVIOUS
        <5>. QED BY <5>1, <5>2, <5>3
      <4>. QED BY <2>4, <4>1, <4>2
    <3>. QED BY <1>0, <2>5, <2>6, <3>1, <3>2, <3>3
  <2>. QED BY <1>1, <2>2, <2>3, <2>5, <2>8, <2>9 DEF NothingAfterEnd
<1>. QED BY <1>2, <1>3, <1>4, <1>5, <1>6, <1>7 DEF PaneNext

(* A run that has finished stays finished: the server sends nothing behind   *)
(* the terminal event, so no frame, close or drop takes the pane out of      *)
(* "closed" (stream.rs push, disconnected).                                 *)
THEOREM FinishedIsFinalHolds == PaneSpec => FinishedIsFinal
<1>1. PaneInit => NothingAfterEnd
  BY DEF PaneInit, NothingAfterEnd, Closed
<1>2. PaneInv /\ NothingAfterEnd /\ [PaneNext]_paneVars =>
         NothingAfterEnd' /\ [pane.state = "closed" => pane'.state = "closed"]_paneVars
  BY NothingAfterEndStep
<1>3. PaneSpec => []PaneInv
  BY PaneInvInit, PaneInvStep, PTL DEF PaneSpec
<1>4. PaneSpec => []NothingAfterEnd
  BY <1>1, <1>2, <1>3, PTL DEF PaneSpec
<1>. QED BY <1>2, <1>3, <1>4, PTL DEF PaneSpec, FinishedIsFinal

(***************************************************************************)
(* Kept: the recursive function exists, as a function up to any position,    *)
(* and what it is at a position follows from what it is at the one before.   *)
(***************************************************************************)
KeptNext(f, s, keep, i) ==
    IF i = 0 THEN <<>> ELSE IF s[i] \in keep THEN Append(f[i - 1], s[i]) ELSE f[i - 1]
IsKeeping(f, s, keep, n) == f = [i \in 0..n |-> KeptNext(f, s, keep, i)]

LEMMA KeepingExists ==
    ASSUME NEW s, NEW keep, Len(s) \in Nat
    PROVE  \E f : IsKeeping(f, s, keep, Len(s))
<1>. DEFINE Bad == {n \in Nat : ~ \E f : IsKeeping(f, s, keep, n)}
<1>1. SUFFICES Bad = {}
  OBVIOUS
<1>2. SUFFICES ASSUME Bad # {} PROVE FALSE
  OBVIOUS
<1>. DEFINE n == Oldest(Bad)
<1>3. n \in Bad /\ \A j \in Bad : n <= j
  BY <1>2, OldestIs
<1>. HIDE DEF n
<1>4. n # 0
  <2>. DEFINE f == [i \in 0..0 |-> <<>>]
  <2>1. f = [i \in 0..0 |-> KeptNext(f, s, keep, i)]
    BY DEF KeptNext
  <2>2. IsKeeping(f, s, keep, 0)
    BY <2>1 DEF IsKeeping
  <2>. QED BY <1>3, <2>2
<1>5. n \in Nat /\ n - 1 \in Nat /\ n - 1 \notin Bad
  <2>1. n \in Nat
    BY <1>3
  <2>2. n - 1 \in Nat /\ ~ (n <= n - 1)
    BY <1>4, <2>1
  <2>. QED BY <1>3, <2>1, <2>2
<1>6. PICK g : IsKeeping(g, s, keep, n - 1)
  BY <1>5
<1>. DEFINE f == [i \in 0..n |-> IF i = n THEN KeptNext(g, s, keep, n) ELSE g[i]]
<1>7. ASSUME NEW i \in 0..n PROVE f[i] = KeptNext(f, s, keep, i)
  <2>1. CASE i = 0
    <3>1. g[0] = KeptNext(g, s, keep, 0)
      BY <1>5, <1>6 DEF IsKeeping
    <3>. QED BY <1>4, <2>1, <3>1 DEF KeptNext
  <2>2. CASE i # 0
    <3>1. i - 1 \in 0..n /\ i - 1 # n /\ f[i - 1] = g[i - 1]
      BY <1>5, <2>2
    <3>2. KeptNext(f, s, keep, i) = KeptNext(g, s, keep, i)
      BY <2>2, <3>1 DEF KeptNext
    <3>3. i # n => g[i] = KeptNext(g, s, keep, i)
      <4>1. ASSUME i # n PROVE i \in 0..(n - 1)
        BY <1>5, <4>1
      <4>. QED BY <1>6, <4>1 DEF IsKeeping
    <3>. QED BY <3>2, <3>3
  <2>. QED BY <2>1, <2>2
<1>8. IsKeeping(f, s, keep, n)
  BY <1>7 DEF IsKeeping
<1>. QED BY <1>3, <1>8

(* What it keeps, in order and nothing else; all of it, if all is to be kept. *)
KeptWell(t, s, keep, n) ==
    /\ t \in Seq({s[i] : i \in 1..n} \cap keep)
    /\ \A i \in 1..n : s[i] \in keep => \E j \in 1..Len(t) : t[j] = s[i]
    /\ (\A i \in 1..n : s[i] \in keep) => Len(t) = n /\ \A i \in 1..n : t[i] = s[i]

LEMMA KeptIs ==
    ASSUME NEW s, NEW keep, Len(s) \in Nat
    PROVE  KeptWell(Kept(s, keep), s, keep, Len(s))
<1>. DEFINE f == CHOOSE h : IsKeeping(h, s, keep, Len(s))
<1>1. Kept(s, keep) = f[Len(s)]
  BY Zenon DEF Kept, IsKeeping, KeptNext
<1>2. IsKeeping(f, s, keep, Len(s))
  BY KeepingExists
<1>3. \A i \in 0..Len(s) : f[i] = KeptNext(f, s, keep, i)
  BY <1>2 DEF IsKeeping
<1>. HIDE DEF f
<1>. DEFINE Bad == {n \in 0..Len(s) : ~ KeptWell(f[n], s, keep, n)}
<1>4. SUFFICES ASSUME Bad # {} PROVE FALSE
  BY <1>1
<1>. DEFINE n == Oldest(Bad)
<1>5. n \in Bad /\ \A j \in Bad : n <= j
  BY <1>4, OldestIs
<1>6. n \in 0..Len(s) /\ ~ KeptWell(f[n], s, keep, n)
  BY <1>5
<1>. HIDE DEF n
<1>7. n # 0
  <2>1. f[0] = <<>>
    BY <1>3 DEF KeptNext
  <2>2. KeptWell(<<>>, s, keep, 0)
    BY DEF KeptWell
  <2>. QED BY <1>6, <2>1, <2>2
<1>8. n - 1 \in 0..Len(s) /\ n - 1 \notin Bad
  BY <1>5, <1>6, <1>7
<1>. DEFINE t == f[n - 1]
<1>9. KeptWell(t, s, keep, n - 1)
  BY <1>8
<1>10. f[n] = IF s[n] \in keep THEN Append(t, s[n]) ELSE t
  BY <1>3, <1>6, <1>7 DEF KeptNext
<1>. HIDE DEF t
<1>11. KeptWell(f[n], s, keep, n)
  <2>. DEFINE old == {s[i] : i \in 1..(n - 1)} \cap keep
              new == {s[i] : i \in 1..n} \cap keep
  <2>1. t \in Seq(old) /\ old \subseteq new /\ t \in Seq(new) /\ Len(t) \in Nat
    BY <1>6, <1>7, <1>9 DEF KeptWell
  <2>2. \A i \in 1..n : i = n \/ i \in 1..(n - 1)
    BY <1>6
  <2>3. CASE s[n] \in keep
    <3>1. f[n] = Append(t, s[n])
      BY <1>10, <2>3
    <3>2. s[n] \in new
      BY <1>6, <1>7, <2>3
    <3>. HIDE DEF old, new
    <3>3. f[n] \in Seq(new) /\ Len(f[n]) = Len(t) + 1 /\ f[n][Len(t) + 1] = s[n]
          /\ \A j \in 1..Len(t) : f[n][j] = t[j]
      BY <2>1, <3>1, <3>2
    <3>4. ASSUME NEW i \in 1..n, s[i] \in keep PROVE \E j \in 1..Len(f[n]) : f[n][j] = s[i]
      <4>1. CASE i = n
        BY <2>1, <3>3, <4>1
      <4>2. CASE i \in 1..(n - 1)
        <5>1. PICK j \in 1..Len(t) : t[j] = s[i]
          BY <1>9, <3>4, <4>2 DEF KeptWell
        <5>2. j \in 1..Len(f[n]) /\ f[n][j] = s[i]
          BY <2>1, <3>3, <5>1
        <5>. QED BY <5>2
      <4>. QED BY <2>2, <4>1, <4>2
    <3>5. ASSUME \A i \in 1..n : s[i] \in keep
          PROVE  Len(f[n]) = n /\ \A i \in 1..n : f[n][i] = s[i]
      <4>1. \A i \in 1..(n - 1) : i \in 1..n
        BY <1>6
      <4>2. Len(t) = n - 1 /\ \A i \in 1..(n - 1) : t[i] = s[i]
        BY <1>9, <3>5, <4>1 DEF KeptWell
      <4>. QED BY <1>6, <2>2, <3>3, <4>2
    <3>. QED BY <3>3, <3>4, <3>5 DEF KeptWell, new
  <2>4. CASE s[n] \notin keep
    <3>1. f[n] = t
      BY <1>10, <2>4
    <3>2. n \in 1..n
      BY <1>6, <1>7
    <3>. QED BY <1>9, <2>1, <2>2, <2>4, <3>1, <3>2 DEF KeptWell
  <2>. QED BY <2>3, <2>4
<1>. QED BY <1>6, <1>11

(***************************************************************************)
(* The workspace form.                                                      *)
(***************************************************************************)
FormSpec == FormInit /\ [][FormNext]_formVars

Found == {ws \in WorkspaceSpec : ws = NoResource \/ WellFormed(ws)}
FormRow == [name : ProviderNames \cup {""}, padded : BOOLEAN,
            secret : {"blank", "named", "keyed"}, base : BOOLEAN]
Fields == {"providers", "sources", "default", "env"}
SourceRows == Seq({"blank", "partial", "full"})

FormOf == [open : BOOLEAN, providers : Seq(FormRow), sources : SourceRows,
           default : ProviderNames \cup {""}, env : BOOLEAN, touched : SUBSET Fields,
           based : Found]

FormTypeOK ==
    /\ cr \in Found /\ \E ws \in Found : seen = WorkspaceInfo(ws)
    /\ form \in FormOf

(* A part of the form that was not touched shows the resource it was opened on. *)
ShowsBased ==
    form.open /\ form.based # NoResource =>
        LET f == FromSummary(WorkspaceInfo(form.based).info)
        IN  /\ "sources" \notin form.touched => form.sources = f.sources
            /\ "providers" \notin form.touched => form.providers = f.providers
            /\ "default" \notin form.touched => form.default = f.default

FormInv == FormTypeOK /\ ShowsBased

LEMMA NoResourceFound == NoResource \in Found /\ Unread = WorkspaceInfo(NoResource)
<1>0. <<>> \in Seq(ProviderSpec) /\ Len(<<>>) = 0
  OBVIOUS
<1>1. NoResource \in Found
  BY <1>0 DEF Found, NoResource, WorkspaceSpec
<1>2. Unread = WorkspaceInfo(NoResource)
  <2>. DEFINE list == [i \in 1..Len(NoResource.providers) |->
                         [NoResource.providers[i] EXCEPT !.cred = FALSE]]
              creds == {NoResource.providers[i].name :
                          i \in {j \in 1..Len(NoResource.providers) :
                                   NoResource.providers[j].cred}}
  <2>1. NoResource.providers = <<>>
    BY DEF NoResource
  <2>2. creds = {}
    BY <1>0, <2>1
  <2>3. list = <<>>
    BY <1>0, <2>1
  <2>4. WorkspaceInfo(NoResource) =
          [info |-> [NoResource EXCEPT !.providers = list, !.env = FALSE, !.isolation = FALSE],
           creds |-> creds]
    BY DEF WorkspaceInfo
  <2>. HIDE DEF list, creds
  <2>5. ASSUME NEW r \in WorkspaceSpec, r.providers = <<>>, ~ r.env, ~ r.isolation
        PROVE  r = [r EXCEPT !.providers = <<>>, !.env = FALSE, !.isolation = FALSE]
    <3>1. r.env = FALSE /\ r.isolation = FALSE
      BY <2>5 DEF WorkspaceSpec
    <3>. QED BY <2>5, <3>1 DEF WorkspaceSpec
  <2>6. NoResource \in WorkspaceSpec /\ ~ NoResource.env /\ ~ NoResource.isolation
    BY <1>1 DEF Found, NoResource
  <2>. QED BY <2>1, <2>2, <2>3, <2>4, <2>5, <2>6 DEF Unread
<1>. QED BY <1>1, <1>2

(* What the page reads of a resource. *)
LEMMA InfoOf ==
    ASSUME NEW ws \in WorkspaceSpec
    PROVE  LET info == WorkspaceInfo(ws).info
           IN  /\ info \in WorkspaceSpec /\ info.sources = ws.sources
               /\ info.default = ws.default /\ Len(info.providers) = Len(ws.providers)
               /\ \A i \in 1..Len(ws.providers) :
                     /\ info.providers[i].name = ws.providers[i].name
                     /\ info.providers[i].base = ws.providers[i].base
<1>. DEFINE n == Len(ws.providers)
            list == [i \in 1..n |-> [ws.providers[i] EXCEPT !.cred = FALSE]]
            info == WorkspaceInfo(ws).info
<1>1. ws.providers \in Seq(ProviderSpec) /\ n \in Nat
      /\ \A i \in 1..n : ws.providers[i] \in ProviderSpec
  <2>1. ws.providers \in Seq(ProviderSpec)
    BY DEF WorkspaceSpec
  <2>. QED BY <2>1
<1>2. info = [ws EXCEPT !.providers = list, !.env = FALSE, !.isolation = FALSE]
  BY DEF WorkspaceInfo
<1>3. \A i \in 1..n : list[i] \in ProviderSpec /\ list[i].name = ws.providers[i].name
                      /\ list[i].base = ws.providers[i].base
  BY <1>1 DEF ProviderSpec
<1>4. list \in Seq(ProviderSpec) /\ Len(list) = n
  <2>1. list \in [1..n -> ProviderSpec]
    BY <1>3
  <2>. QED BY <1>1, <2>1, SeqDef
<1>. HIDE DEF list, n
<1>5. info \in WorkspaceSpec /\ info.sources = ws.sources /\ info.default = ws.default
      /\ info.providers = list
  BY <1>2, <1>4 DEF WorkspaceSpec
<1>. QED BY <1>3, <1>4, <1>5 DEF n

(* The form that is opened on it. *)
LEMMA SummaryOf ==
    ASSUME NEW info \in WorkspaceSpec
    PROVE  LET f == FromSummary(info)
           IN  /\ f \in [open : {TRUE}, providers : Seq(FormRow), sources : SourceRows,
                         default : ProviderNames \cup {""}, env : BOOLEAN,
                         touched : {{}}, based : {NoResource}]
               /\ info.providers # <<>> =>
                     /\ Len(f.providers) = Len(info.providers)
                     /\ \A i \in 1..Len(info.providers) :
                           /\ f.providers[i].name = info.providers[i].name
                           /\ f.providers[i].base = info.providers[i].base
               /\ info.sources # 0 =>
                     f.sources = [i \in 1..info.sources |-> "full"]
               /\ f.default = info.default
<1>. DEFINE f == FromSummary(info)
            n == Len(info.providers)
            cells == [i \in 1..n |-> [name |-> info.providers[i].name, padded |-> FALSE,
                                     secret |-> "blank", base |-> info.providers[i].base]]
<1>0. /\ info.providers \in Seq(ProviderSpec) /\ info.sources \in Nat
      /\ info.default \in ProviderNames \cup {""}
  BY DEF WorkspaceSpec
<1>b. info.env \in BOOLEAN
  BY DEF WorkspaceSpec
<1>1. n \in Nat /\ \A i \in 1..n : info.providers[i] \in ProviderSpec
  <2>1. info.providers \in Seq(ProviderSpec)
    BY <1>0
  <2>2. n \in Nat
    BY <2>1, LenProperties
  <2>3. \A i \in 1..n : info.providers[i] \in ProviderSpec
    BY <2>1, ElementOfSeq
  <2>. QED BY <2>2, <2>3
<1>2. \A i \in 1..n : cells[i] \in FormRow
  BY <1>1 DEF ProviderSpec, FormRow
<1>3. cells \in Seq(FormRow) /\ Len(cells) = n
  <2>1. cells \in [1..n -> FormRow]
    BY <1>2
  <2>. HIDE DEF cells, n
  <2>2. cells \in Seq(FormRow)
    BY <1>1, <2>1, SeqDef
  <2>. QED BY <1>1, <2>1, <2>2
<1>4. BlankRow \in FormRow /\ <<BlankRow>> \in Seq(FormRow)
  <2>1. BlankRow \in FormRow
    BY DEF BlankRow, FormRow
  <2>. QED BY <2>1
<1>5. <<"blank">> \in SourceRows /\ [i \in 1..info.sources |-> "full"] \in SourceRows
  <2>. DEFINE full == [i \in 1..info.sources |-> "full"]
  <2>1. full \in [1..info.sources -> {"blank", "partial", "full"}]
    OBVIOUS
  <2>. HIDE DEF full
  <2>2. full \in SourceRows
    BY <1>0, <2>1, SeqDef DEF SourceRows
  <2>3. <<"blank">> \in SourceRows
    BY DEF SourceRows
  <2>. QED BY <2>2, <2>3 DEF full
<1>6. /\ f.providers = IF info.providers = <<>> THEN <<BlankRow>> ELSE cells
      /\ f.sources = IF info.sources = 0 THEN <<"blank">> ELSE [i \in 1..info.sources |-> "full"]
      /\ f.default = info.default /\ f.env = info.env /\ f.open = TRUE /\ f.touched = {}
      /\ f.based = NoResource
      /\ f = [providers |-> f.providers, sources |-> f.sources, default |-> f.default,
              env |-> f.env, open |-> f.open, touched |-> f.touched, based |-> f.based]
  BY DEF FromSummary
<1>7. \A i \in 1..n : /\ cells[i].name = info.providers[i].name
                      /\ cells[i].base = info.providers[i].base
  OBVIOUS
<1>. HIDE DEF f, cells, n
<1>8. f.providers \in Seq(FormRow) /\ f.sources \in SourceRows
  BY <1>3, <1>4, <1>5, <1>6
<1>9. f \in [open : {TRUE}, providers : Seq(FormRow), sources : SourceRows,
             default : ProviderNames \cup {""}, env : BOOLEAN, touched : {{}}, based : {NoResource}]
  BY <1>0, <1>b, <1>6, <1>8
<1>10. info.providers # <<>> => Len(f.providers) = n /\ \A i \in 1..n : f.providers[i] = cells[i]
  BY <1>3, <1>6
<1>. QED BY <1>6, <1>7, <1>9, <1>10 DEF f, n

LEMMA NoFormType == NoForm \in FormOf
<1>1. <<>> \in Seq(FormRow) /\ <<>> \in SourceRows
  BY DEF SourceRows
<1>2. NoResource \in Found
  BY NoResourceFound
<1>. HIDE DEF SourceRows
<1>. QED BY <1>1, <1>2 DEF NoForm, FormOf

LEMMA FormInvInit == FormInit => FormInv
<1>. SUFFICES ASSUME FormInit PROVE FormInv
  OBVIOUS
<1>1. cr \in Found /\ NoResource \in Found
  BY ResourcesAssumption, NoResourceFound DEF FormInit, Found
<1>. QED
  BY <1>1, NoFormType, NoResourceFound
     DEF FormInit, FormInv, FormTypeOK, ShowsBased, NoForm

LEMMA LenOf == \A n \in Nat : \A S : \A t \in [1..n -> S] : t \in Seq(S) /\ Len(t) = n
<1>. SUFFICES ASSUME NEW n \in Nat, NEW S, NEW t \in [1..n -> S]
              PROVE  t \in Seq(S) /\ Len(t) = n
  OBVIOUS
<1>1. t \in Seq(S)
  BY SeqDef
<1>. QED BY <1>1

(* What the form sends. *)
NamedRows(f) == Kept(f.providers, {r \in Range(f.providers) : r.name # ""})
InfosOK(f) == f.providers \in Seq(FormRow) /\ f.sources \in SourceRows

LEMMA NamedRowsAre ==
    ASSUME NEW f, InfosOK(f)
    PROVE  /\ NamedRows(f) \in Seq(FormRow) /\ Len(NamedRows(f)) \in Nat
           /\ \A i \in 1..Len(NamedRows(f)) :
                 /\ NamedRows(f)[i] \in FormRow /\ NamedRows(f)[i].name \in ProviderNames
                 /\ \E j \in 1..Len(f.providers) : NamedRows(f)[i] = f.providers[j]
           /\ (\A j \in 1..Len(f.providers) : f.providers[j].name # "") =>
                 /\ Len(NamedRows(f)) = Len(f.providers)
                 /\ \A j \in 1..Len(f.providers) : NamedRows(f)[j] = f.providers[j]
<1>. DEFINE s == f.providers
            keep == {r \in Range(s) : r.name # ""}
            t == Kept(s, keep)
            own == {s[i] : i \in 1..Len(s)} \cap keep
<1>1. s \in Seq(FormRow) /\ Len(s) \in Nat /\ \A j \in 1..Len(s) : s[j] \in FormRow
  <2>1. s \in Seq(FormRow)
    BY DEF InfosOK
  <2>. QED BY <2>1, LenProperties, ElementOfSeq
<1>2. KeptWell(t, s, keep, Len(s))
  BY <1>1, KeptIs
<1>3. \A j \in 1..Len(s) : s[j] \in Range(s)
  BY <1>1 DEF Range
<1>. HIDE DEF t
<1>4. t \in Seq(own) /\ Len(t) \in Nat /\ \A i \in 1..Len(t) : t[i] \in own
  <2>1. t \in Seq(own)
    BY <1>2 DEF KeptWell
  <2>. QED BY <2>1, LenProperties, ElementOfSeq
<1>5. \A x \in own : x \in FormRow /\ x.name \in ProviderNames /\ \E j \in 1..Len(s) : x = s[j]
  BY <1>1 DEF FormRow
<1>6. t \in Seq(FormRow)
  <2>1. own \subseteq FormRow /\ t \in Seq(own)
    BY <1>4, <1>5
  <2>. HIDE DEF own
  <2>. QED BY <2>1
<1>7. (\A j \in 1..Len(s) : s[j].name # "") =>
         Len(t) = Len(s) /\ \A j \in 1..Len(s) : t[j] = s[j]
  BY <1>2, <1>3 DEF KeptWell
<1>8. NamedRows(f) = t
  BY DEF NamedRows, t
<1>. QED BY <1>4, <1>5, <1>6, <1>7, <1>8

LEMMA ConfigOf ==
    ASSUME NEW f, InfosOK(f), f.default \in ProviderNames \cup {""}
    PROVE  LET c == ToConfig(f)
           IN  /\ c.providers \in Seq(ProviderSpec) /\ c.sources \in Nat /\ c.env = f.env
               /\ Len(c.providers) = Len(NamedRows(f))
               /\ \A i \in 1..Len(c.providers) :
                     /\ c.providers[i].name = NamedRows(f)[i].name
                     /\ c.providers[i].base = NamedRows(f)[i].base
                     /\ c.providers[i].cred <=> NamedRows(f)[i].secret # "blank"
               /\ Names(c.providers) = Names(NamedRows(f))
               /\ c.default = IF f.default \in Names(NamedRows(f)) THEN f.default ELSE ""
               /\ f.sources \in Seq({"full"}) => c.sources = Len(f.sources)
<1>. DEFINE c == ToConfig(f)
            list == NamedRows(f)
            n == Len(list)
            specs == [i \in 1..n |-> [name |-> list[i].name, base |-> list[i].base,
                                      cred |-> list[i].secret # "blank"]]
            kept == Kept(f.sources, {"partial", "full"})
<1>1. n \in Nat /\ \A i \in 1..n : list[i] \in FormRow /\ list[i].name \in ProviderNames
  BY NamedRowsAre
<1>2. /\ c.providers = specs /\ c.sources = Len(kept) /\ c.env = f.env
      /\ c.default = IF f.default \in Names(list) THEN f.default ELSE ""
  BY DEF ToConfig, NamedRows
<1>. HIDE DEF c, list, kept
<1>3. \A i \in 1..n : specs[i] \in ProviderSpec /\ specs[i].name = list[i].name
  BY <1>1 DEF ProviderSpec, FormRow
<1>4. specs \in [1..n -> ProviderSpec]
  BY <1>3
<1>5. \A i \in 1..n : /\ specs[i].name = list[i].name /\ specs[i].base = list[i].base
                      /\ specs[i].cred <=> list[i].secret # "blank"
  OBVIOUS
<1>. HIDE DEF n, specs
<1>6. specs \in Seq(ProviderSpec) /\ Len(specs) = n
  <2>1. specs \in Seq(ProviderSpec)
    BY <1>1, <1>4, SeqDef
  <2>2. n \in Nat
    BY <1>1
  <2>. QED BY <1>4, <2>1, <2>2, LenOf
<1>7. Names(specs) = Names(list)
  BY <1>3, <1>6 DEF Names, n
<1>8. f.sources \in Seq({"blank", "partial", "full"})
  BY DEF InfosOK, SourceRows
<1>9. Len(f.sources) \in Nat /\ KeptWell(kept, f.sources, {"partial", "full"}, Len(f.sources))
  <2>1. Len(f.sources) \in Nat
    BY <1>8, LenProperties
  <2>. QED BY <2>1, KeptIs DEF kept
<1>10. Len(kept) \in Nat
  <2>1. kept \in Seq({f.sources[i] : i \in 1..Len(f.sources)} \cap {"partial", "full"})
    BY <1>9 DEF KeptWell
  <2>. QED BY <2>1, LenProperties
<1>11. ASSUME f.sources \in Seq({"full"}) PROVE Len(kept) = Len(f.sources)
  <2>1. \A i \in 1..Len(f.sources) : f.sources[i] \in {"partial", "full"}
    BY <1>11, ElementOfSeq
  <2>. QED BY <1>9, <2>1 DEF KeptWell
<1>. QED BY <1>2, <1>5, <1>6, <1>7, <1>10, <1>11 DEF c, list, n

LEMMA DistinctNames ==
    ASSUME NEW S, NEW list \in Seq(S),
           \A i, j \in 1..Len(list) : list[i].name = list[j].name => i = j
    PROVE  Cardinality(Names(list)) = Len(list)
<1>. DEFINE n == Len(list)
            f == [i \in 1..n |-> list[i].name]
<1>1. n \in Nat
  BY LenProperties
<1>2. f \in Bijection(1..n, Names(list))
  BY DEF Bijection, Injection, Surjection, IsInjective, Names
<1>3. ExistsBijection(1..n, Names(list))
  BY <1>2 DEF ExistsBijection
<1>. QED BY <1>1, <1>3, FS_CountingElements

(* What is saved. *)
LEMMA SavedIs ==
    ASSUME FormTypeOK, Save
    PROVE  cr' \in Found /\ WellFormed(cr')
<1>. DEFINE c == ToConfig(form)
<1>1. InfosOK(form) /\ form.default \in ProviderNames \cup {""} /\ form.env \in BOOLEAN
  BY DEF FormTypeOK, FormOf, InfosOK
<1>2. /\ c.providers \in Seq(ProviderSpec) /\ c.sources \in Nat /\ c.env = form.env
      /\ Names(c.providers) = Names(NamedRows(form))
      /\ c.default = IF form.default \in Names(NamedRows(form)) THEN form.default ELSE ""
  BY <1>1, ConfigOf
<1>3. c.sources > 0 /\ c.providers # <<>>
  BY DEF Save, ValidateK8sConfig
<1>4. \A i, j \in 1..Len(c.providers) : c.providers[i].name = c.providers[j].name => i = j
  BY DEF Save, Validate
<1>5. cr' = [providers |-> c.providers, sources |-> c.sources, default |-> c.default,
             env |-> c.env, isolation |-> FALSE]
  BY DEF Save, WorkspaceFromConfig
<1>. HIDE DEF c
<1>6. Cardinality(Names(c.providers)) = Len(c.providers)
  BY <1>2, <1>4, DistinctNames
<1>7. c.default \in Names(c.providers) \cup {""} /\ c.default \in ProviderNames \cup {""}
  BY <1>1, <1>2
<1>8. WellFormed(cr')
  BY <1>3, <1>5, <1>6, <1>7 DEF WellFormed
<1>9. cr' \in WorkspaceSpec
  BY <1>1, <1>2, <1>5, <1>7 DEF WorkspaceSpec
<1>. QED BY <1>8, <1>9 DEF Found

LEMMA TypedKeeps ==
    ASSUME FormInv, form.open, UNCHANGED <<cr, seen>>, NEW field \in Fields, NEW v,
           Typed(field, v),
           field = "providers" => v \in Seq(FormRow),
           field = "sources" => v \in SourceRows,
           field = "default" => v \in ProviderNames \cup {""},
           field = "env" => v \in BOOLEAN
    PROVE  FormInv'
<1>. DEFINE more == form.touched \cup {field}
<1>1. form \in FormOf /\ more \in SUBSET Fields
  BY DEF FormInv, FormTypeOK, FormOf
<1>2. form' = [[form EXCEPT ![field] = v] EXCEPT !.touched = more]
  BY DEF Typed
<1>3. /\ form' \in FormOf /\ form'.open = form.open /\ form'.based = form.based
      /\ form'.touched = more
      /\ \A x \in {"providers", "sources", "default"} \ {field} : form'[x] = form[x]
  <2>. HIDE DEF more
  <2>1. CASE field = "providers"
    BY <1>1, <1>2, <2>1 DEF FormOf
  <2>2. CASE field = "sources"
    BY <1>1, <1>2, <2>2 DEF FormOf
  <2>3. CASE field = "default"
    BY <1>1, <1>2, <2>3 DEF FormOf
  <2>4. CASE field = "env"
    BY <1>1, <1>2, <2>4 DEF FormOf
  <2>. QED BY <2>1, <2>2, <2>3, <2>4 DEF Fields
<1>4. FormTypeOK'
  BY <1>3 DEF FormInv, FormTypeOK, FormOf
<1>5. ShowsBased'
  <2>1. \A x \in {"providers", "sources", "default"} :
           x \notin form'.touched => x \notin form.touched /\ form'[x] = form[x]
    BY <1>3
  <2>. QED BY <1>3, <2>1 DEF FormInv, ShowsBased
<1>. QED BY <1>4, <1>5 DEF FormInv

LEMMA FormInvStep == FormInv /\ [FormNext]_formVars => FormInv'
<1>. SUFFICES ASSUME FormInv, [FormNext]_formVars PROVE FormInv'
  OBVIOUS
<1>0. cr \in Found /\ form \in FormOf /\ NoResource \in Found
      /\ form.providers \in Seq(FormRow) /\ form.sources \in SourceRows
  BY NoResourceFound DEF FormInv, FormTypeOK, FormOf
<1>1. CASE PageReads \/ ListFails
  <2>1. UNCHANGED <<cr, form>> /\ \E ws \in Found : seen' = WorkspaceInfo(ws)
    BY <1>0, <1>1, NoResourceFound DEF PageReads, ListFails
  <2>. QED BY <1>0, <2>1 DEF FormInv, FormTypeOK, ShowsBased, FormOf
<1>2. CASE OpenForm
  <2>1. PICK ws \in Found : seen = WorkspaceInfo(ws)
    BY DEF FormInv, FormTypeOK
  <2>. DEFINE info == seen.info
              f == FromSummary(info)
              based == IF seen = WorkspaceInfo(cr) THEN cr ELSE NoResource
  <2>2. info \in WorkspaceSpec
    BY <2>1, InfoOf DEF Found
  <2>3. f \in [open : {TRUE}, providers : Seq(FormRow), sources : SourceRows,
               default : ProviderNames \cup {""}, env : BOOLEAN, touched : {{}},
               based : {NoResource}]
    BY <2>2, SummaryOf
  <2>4. form' = [f EXCEPT !.based = based] /\ UNCHANGED <<cr, seen>>
    BY <1>2 DEF OpenForm
  <2>5. based \in Found /\ (based # NoResource => info = WorkspaceInfo(based).info)
    BY <1>0
  <2>. HIDE DEF f, based
  <2>6. form' \in FormOf
    BY <2>3, <2>4, <2>5 DEF FormOf
  <2>7. /\ form'.based = based /\ form'.sources = f.sources /\ form'.providers = f.providers
        /\ form'.default = f.default
    BY <2>3, <2>4
  <2>8. ShowsBased'
    BY <2>5, <2>7 DEF ShowsBased, f
  <2>. QED BY <1>0, <2>1, <2>4, <2>6, <2>8 DEF FormInv, FormTypeOK, FormOf
<1>3. CASE EditProviders
  <2>. DEFINE n == Len(form.providers)
  <2>1. form.open /\ UNCHANGED <<cr, seen>>
    BY <1>3 DEF EditProviders
  <2>2. n \in Nat /\ \A i \in 1..n : form.providers[i] \in FormRow
    BY <1>0, LenProperties, ElementOfSeq
  <2>3. "providers" \in Fields /\ "default" \in Fields
    BY DEF Fields
  <2>4. BlankRow \in FormRow
    BY DEF BlankRow, FormRow
  <2>5. ASSUME NEW i \in 1..n, NEW x \in ProviderNames \cup {""}, NEW pad \in BOOLEAN,
               Typed("providers", [form.providers EXCEPT ![i].name = x, ![i].padded = pad])
        PROVE  FormInv'
    <3>. DEFINE row == [form.providers[i] EXCEPT !.name = x, !.padded = pad]
    <3>1. row \in FormRow
      BY <2>2 DEF FormRow
    <3>2. [form.providers EXCEPT ![i].name = x, ![i].padded = pad]
            = [form.providers EXCEPT ![i] = row]
      BY <1>0, <2>2
    <3>. HIDE DEF row
    <3>3. [form.providers EXCEPT ![i] = row] \in Seq(FormRow)
      BY <1>0, <3>1, ExceptSeq
    <3>. QED BY <2>1, <2>3, <2>5, <3>2, <3>3, TypedKeeps
  <2>6. ASSUME NEW i \in 1..n, NEW x \in {"named", "keyed"},
               Typed("providers", [form.providers EXCEPT ![i].secret = x])
        PROVE  FormInv'
    <3>1. [form.providers[i] EXCEPT !.secret = x] \in FormRow
      BY <2>2 DEF FormRow
    <3>2. [form.providers EXCEPT ![i].secret = x] \in Seq(FormRow)
      BY <1>0, <3>1, ExceptSeq
    <3>. QED BY <2>1, <2>3, <2>6, <3>2, TypedKeeps
  <2>7. ASSUME NEW i \in 1..n, Typed("providers", RemoveAt(form.providers, i)) PROVE FormInv'
    <3>1. RemoveAt(form.providers, i) \in Seq(FormRow)
      BY <1>0, <2>2 DEF RemoveAt
    <3>. QED BY <2>1, <2>3, <2>7, <3>1, TypedKeeps
  <2>8. ASSUME NEW i \in 1..n, Typed("default", form.providers[i].name) PROVE FormInv'
    <3>1. form.providers[i].name \in ProviderNames \cup {""}
      BY <2>2 DEF FormRow
    <3>. QED BY <2>1, <2>3, <2>8, <3>1, TypedKeeps
  <2>9. ASSUME Typed("providers", Append(form.providers, BlankRow)) PROVE FormInv'
    <3>1. Append(form.providers, BlankRow) \in Seq(FormRow)
      BY <1>0, <2>4
    <3>. QED BY <2>1, <2>3, <2>9, <3>1, TypedKeeps
  <2>. QED BY <1>3, <2>5, <2>6, <2>7, <2>8, <2>9 DEF EditProviders
<1>4. CASE EditSources
  <2>. DEFINE n == Len(form.sources)
              S == {"blank", "partial", "full"}
  <2>1. form.open /\ UNCHANGED <<cr, seen>> /\ "sources" \in Fields
    BY <1>4 DEF EditSources, Fields
  <2>2. form.sources \in Seq(S)
    BY <1>0 DEF SourceRows
  <2>3. n \in Nat
    BY <2>2, LenProperties
  <2>4. PICK v : v \in Seq(S) /\ Typed("sources", v)
    <3>1. ASSUME NEW i \in 1..n, NEW x \in S
          PROVE  [form.sources EXCEPT ![i] = x] \in Seq(S) /\ RemoveAt(form.sources, i) \in Seq(S)
      BY <2>2, <2>3 DEF RemoveAt
    <3>2. Append(form.sources, "blank") \in Seq(S)
      BY <2>2
    <3>. QED BY <1>4, <3>1, <3>2 DEF EditSources
  <2>. QED BY <2>1, <2>4, TypedKeeps DEF SourceRows
<1>5. CASE EditEnv
  <2>1. PICK e \in BOOLEAN : Typed("env", e)
    BY <1>5 DEF EditEnv
  <2>. QED BY <1>5, <2>1, TypedKeeps DEF EditEnv, Fields
<1>6. CASE CloseForm \/ Save
  <2>1. form' = NoForm /\ seen' = seen
    BY <1>6 DEF CloseForm, Save
  <2>2. cr' \in Found
    BY <1>0, <1>6, SavedIs DEF FormInv, CloseForm
  <2>. QED BY <2>1, <2>2, NoFormType DEF FormInv, FormTypeOK, FormOf, ShowsBased, NoForm
<1>7. CASE OtherWrites
  <2>1. cr' \in Found /\ UNCHANGED <<seen, form>>
    BY <1>7, ResourcesAssumption DEF OtherWrites, Found
  <2>. QED BY <2>1 DEF FormInv, FormTypeOK, ShowsBased
<1>8. CASE UNCHANGED formVars
  BY <1>8 DEF formVars, FormInv, FormTypeOK, ShowsBased
<1>. QED BY <1>1, <1>2, <1>3, <1>4, <1>5, <1>6, <1>7, <1>8 DEF FormNext

LEMMA SaveKeepsReadable ==
    ASSUME FormInv, Save, form.based = cr, cr # NoResource
    PROVE  /\ "sources" \notin form.touched => cr'.sources = cr.sources
           /\ "providers" \notin form.touched => Bases(cr') = Bases(cr)
           /\ form.touched \cap {"providers", "default"} = {} => cr'.default = cr.default
<1>. DEFINE c == ToConfig(form)
            info == WorkspaceInfo(cr).info
            f == FromSummary(info)
            list == NamedRows(form)
            n == Len(cr.providers)
<1>1. cr \in WorkspaceSpec /\ WellFormed(cr) /\ form \in FormOf /\ form.open
  BY DEF FormInv, FormTypeOK, Found, Save
<1>2. InfosOK(form) /\ form.default \in ProviderNames \cup {""}
  BY <1>1 DEF FormOf, InfosOK
<1>3. /\ cr'.providers = c.providers /\ cr'.sources = c.sources /\ cr'.default = c.default
  BY DEF Save, WorkspaceFromConfig
<1>4. /\ Len(c.providers) = Len(list)
      /\ \A i \in 1..Len(c.providers) :
            /\ c.providers[i].name = list[i].name /\ c.providers[i].base = list[i].base
            /\ c.providers[i].cred <=> list[i].secret # "blank"
      /\ Names(c.providers) = Names(list)
      /\ c.default = IF form.default \in Names(list) THEN form.default ELSE ""
      /\ form.sources \in Seq({"full"}) => c.sources = Len(form.sources)
  BY <1>2, ConfigOf
<1>5. cr.providers # <<>> /\ cr.sources > 0 /\ cr.default \in Names(cr.providers) \cup {""}
  BY <1>1 DEF WellFormed
<1>6. cr.providers \in Seq(ProviderSpec) /\ cr.sources \in Nat
  BY <1>1 DEF WorkspaceSpec
<1>7. n \in Nat /\ n # 0 /\ \A i \in 1..n : cr.providers[i].name \in ProviderNames
  <2>1. \A i \in 1..n : cr.providers[i] \in ProviderSpec
    BY <1>6, ElementOfSeq
  <2>2. n \in Nat /\ n # 0
    BY <1>5, <1>6, EmptySeq, LenProperties
  <2>. QED BY <2>1, <2>2 DEF ProviderSpec
<1>8. /\ info \in WorkspaceSpec /\ info.sources = cr.sources
      /\ info.default = cr.default /\ Len(info.providers) = n
      /\ \A i \in 1..n : /\ info.providers[i].name = cr.providers[i].name
                         /\ info.providers[i].base = cr.providers[i].base
  BY <1>1, InfoOf
<1>9. info.providers # <<>>
  BY <1>7, <1>8
<1>10. /\ Len(f.providers) = n /\ f.default = cr.default
       /\ \A i \in 1..n : /\ f.providers[i].name = cr.providers[i].name
                          /\ f.providers[i].base = cr.providers[i].base
       /\ f.sources = [i \in 1..cr.sources |-> "full"]
  <2>. HIDE DEF info
  <2>1. info.sources # 0
    <3>1. cr.sources > 0 /\ cr.sources \in Nat
      BY <1>5, <1>6
    <3>2. cr.sources # 0
      BY <3>1
    <3>. QED BY <1>8, <3>2
  <2>2. /\ Len(f.providers) = Len(info.providers) /\ f.default = info.default
        /\ \A i \in 1..Len(info.providers) : /\ f.providers[i].name = info.providers[i].name
                                              /\ f.providers[i].base = info.providers[i].base
        /\ f.sources = [i \in 1..info.sources |-> "full"]
    BY <1>8, <1>9, <2>1, SummaryOf
  <2>. HIDE DEF f
  <2>. QED BY <1>8, <2>2
<1>11. /\ "sources" \notin form.touched => form.sources = f.sources
       /\ "providers" \notin form.touched => form.providers = f.providers
       /\ "default" \notin form.touched => form.default = f.default
  BY <1>1 DEF FormInv, ShowsBased
<1>. HIDE DEF c, info, f, list
<1>12. ASSUME "sources" \notin form.touched PROVE cr'.sources = cr.sources
  <2>1. form.sources = [i \in 1..cr.sources |-> "full"]
    BY <1>10, <1>11, <1>12
  <2>2. form.sources \in [1..cr.sources -> {"full"}]
    BY <2>1
  <2>3. form.sources \in Seq({"full"}) /\ Len(form.sources) = cr.sources
    BY <1>6, <2>2, LenOf
  <2>. QED BY <1>3, <1>4, <2>3
<1>13. ASSUME "providers" \notin form.touched
       PROVE  /\ Len(cr'.providers) = n
              /\ \A i \in 1..n : /\ cr'.providers[i].name = cr.providers[i].name
                                 /\ cr'.providers[i].base = cr.providers[i].base
  <2>1. form.providers = f.providers
    BY <1>11, <1>13
  <2>2. \A i \in 1..Len(form.providers) : form.providers[i].name # ""
    <3>1. Len(form.providers) = n
      BY <1>10, <2>1
    <3>2. \A i \in 1..n : form.providers[i].name \in ProviderNames
      BY <1>7, <1>10, <2>1
    <3>. QED BY <3>1, <3>2, FormAssumption
  <2>3. Len(list) = n /\ \A i \in 1..n : list[i] = f.providers[i]
    <3>1. Len(form.providers) = n
      BY <1>10, <2>1
    <3>2. /\ Len(list) = Len(form.providers)
          /\ \A i \in 1..Len(form.providers) : list[i] = form.providers[i]
      BY <1>2, <2>2, NamedRowsAre DEF list
    <3>. QED BY <2>1, <3>1, <3>2
  <2>4. \A i \in 1..n : list[i].name = cr.providers[i].name /\ list[i].base = cr.providers[i].base
    BY <1>10, <2>3
  <2>. HIDE DEF n
  <2>5. Len(c.providers) = n
    BY <1>4, <2>3
  <2>6. \A i \in 1..n : /\ c.providers[i].name = cr.providers[i].name
                        /\ c.providers[i].base = cr.providers[i].base
    BY <1>4, <2>4, <2>5
  <2>. QED BY <1>3, <2>5, <2>6
<1>14. ASSUME "providers" \notin form.touched PROVE Bases(cr') = Bases(cr)
  BY <1>13, <1>14 DEF Bases
<1>15. ASSUME form.touched \cap {"providers", "default"} = {} PROVE cr'.default = cr.default
  <2>1. "providers" \notin form.touched /\ form.default = cr.default
    BY <1>10, <1>11, <1>15
  <2>2. Names(cr'.providers) = Names(cr.providers)
    BY <1>13, <2>1 DEF Names
  <2>. QED BY <1>3, <1>4, <1>5, <2>1, <2>2
<1>. QED BY <1>12, <1>14, <1>15

LEMMA SaveWarns ==
    ASSUME FormInv, Save,
           NEW name \in (seen.creds \cap Names(cr'.providers)) \ Creds(cr'),
           name \notin Padded(form)
    PROVE  name \in CredentialsWarning(form, seen.creds)
<1>. DEFINE c == ToConfig(form)
            list == NamedRows(form)
<1>1. InfosOK(form) /\ form.default \in ProviderNames \cup {""}
  BY DEF FormInv, FormTypeOK, FormOf, InfosOK
<1>2. cr'.providers = c.providers
  BY DEF Save, WorkspaceFromConfig
<1>3. /\ Len(c.providers) = Len(list)
      /\ \A i \in 1..Len(c.providers) :
            /\ c.providers[i].name = list[i].name /\ c.providers[i].base = list[i].base
            /\ c.providers[i].cred <=> list[i].secret # "blank"
  BY <1>1, ConfigOf
<1>. HIDE DEF c, list
<1>4. PICK i \in 1..Len(c.providers) : c.providers[i].name = name
  BY <1>2 DEF Names
<1>5. ~ c.providers[i].cred
  BY <1>2, <1>4 DEF Creds
<1>6. i \in 1..Len(list) /\ list[i].name = name /\ list[i].secret = "blank"
  BY <1>3, <1>4, <1>5
<1>7. PICK j \in 1..Len(form.providers) : list[i] = form.providers[j]
  BY <1>1, <1>6, NamedRowsAre DEF list
<1>8. ~ form.providers[j].padded
  BY <1>6, <1>7 DEF Padded
<1>. QED BY <1>6, <1>7, <1>8 DEF CredentialsWarning

(* Whatever sequence of edits and saves, by whichever pages: the resource    *)
(* can be reconciled, a credential lost under a name typed without blanks    *)
(* around it was announced, and what the operator did not touch and the page *)
(* could read is kept. For any resources and names, and any number of edits  *)
(* (config_form.rs, workspace_api.rs).                                      *)
THEOREM FormKeepsHolds == FormSpec => FormKeeps
<1>1. FormInit => FormInv
  BY FormInvInit
<1>2. FormInv /\ [FormNext]_formVars => FormInv'
  BY FormInvStep
<1>3. FormInv => ResourceWellFormed
  BY DEF FormInv, FormTypeOK, Found, ResourceWellFormed
<1>4. ASSUME FormInv, [FormNext]_formVars, Saved PROVE Save
  <2>1. CASE CloseForm
    BY <1>4, <2>1 DEF CloseForm, Saved
  <2>2. CASE OpenForm
    BY <1>4, <2>2 DEF OpenForm, Saved
  <2>3. CASE PageReads \/ ListFails \/ OtherWrites \/ UNCHANGED formVars
    BY <1>4, <2>3 DEF PageReads, ListFails, OtherWrites, Saved, formVars
  <2>4. CASE EditProviders \/ EditSources \/ EditEnv
    BY <1>4, <2>4 DEF EditProviders, EditSources, EditEnv, Saved
  <2>. QED BY <1>4, <2>1, <2>2, <2>3, <2>4 DEF FormNext
<1>5. FormInv /\ [FormNext]_formVars =>
        [Saved => Stripped \ Padded(form) \subseteq CredentialsWarning(form, seen.creds)]_formVars
  BY <1>4, SaveWarns DEF Stripped
<1>6. FormInv /\ [FormNext]_formVars =>
        [Saved /\ form.based = cr /\ cr # NoResource /\ form.touched # {} =>
          /\ "sources" \notin form.touched => cr'.sources = cr.sources
          /\ "providers" \notin form.touched => Bases(cr') = Bases(cr)
          /\ form.touched \cap {"providers", "default"} = {} => cr'.default = cr.default]_formVars
  BY <1>4, SaveKeepsReadable
<1>. QED
  BY <1>1, <1>2, <1>3, <1>5, <1>6, PTL
     DEF FormSpec, FormKeeps, PlainLossWarned, ReadableKept

(***************************************************************************)
(* Usage. A number's first digits are those of the number cut off there; the *)
(* first place where two numbers differ so cut is the first digit where they *)
(* differ.                                                                  *)
(***************************************************************************)
Width(ns) == IF ns % Milli = 0 THEN 3 ELSE IF ns % Micro = 0 THEN 6 ELSE 9
Cut(ns, i) == ns \div Place[i]

LEMMA PlaceIs ==
    /\ \A i \in 1..9 : Place[i] \in Nat \ {0}
    /\ \A i \in 2..9 : Place[i - 1] = 10 * Place[i]
    /\ Place[9] = 1 /\ NanosPerSecond = 10 * Place[1] /\ NanosPerSecond \in Nat
<1>1. Milli \in Nat \ {0} /\ Micro \in Nat \ {0} /\ Milli = 1000 * Micro
  BY SMT DEF Milli, Micro
<1>2. 1000 * Milli = 10 * (100 * Milli)
  BY <1>1
<1>. QED BY <1>1, <1>2, SMT DEF Place, NanosPerSecond, Micro

LEMMA NanosIs == 0..(NanosPerSecond - 1) \subseteq Nat
  BY PlaceIs

LEMMA CutCut ==
    ASSUME NEW a \in Nat, NEW p \in Nat \ {0}
    PROVE  (a \div p) \div 10 = a \div (10 * p)
  OBVIOUS

LEMMA CutIs ==
    ASSUME NEW a \in 0..(NanosPerSecond - 1)
    PROVE  /\ \A i \in 1..9 : Cut(a, i) \in Nat /\ Digit(a, i) \in 48..57
           /\ Digit(a, 1) = 48 + Cut(a, 1)
           /\ \A i \in 2..9 : Cut(a, i) = 10 * Cut(a, i - 1) + (Digit(a, i) - 48)
           /\ Cut(a, 9) = a
<1>0. a \in Nat
  BY NanosIs
<1>1. \A i \in 1..9 : Cut(a, i) \in Nat /\ Digit(a, i) \in 48..57
                      /\ Digit(a, i) - 48 = Cut(a, i) % 10
  <2>. SUFFICES ASSUME NEW i \in 1..9 PROVE Cut(a, i) \in Nat /\ Digit(a, i) \in 48..57
                      /\ Digit(a, i) - 48 = Cut(a, i) % 10
    OBVIOUS
  <2>1. \A p \in Nat \ {0} : a \div p \in Nat
    BY <1>0
  <2>2. Cut(a, i) \in Nat
    BY <2>1, PlaceIs DEF Cut
  <2>3. Cut(a, i) % 10 \in 0..9
    BY <2>2
  <2>. QED BY <2>2, <2>3 DEF Digit, Cut
<1>2. Cut(a, 1) \in 0..9
  <2>1. \A p \in Nat \ {0} : a <= 10 * p - 1 => a \div p \in 0..9
    BY <1>0
  <2>2. Place[1] \in Nat \ {0} /\ a <= 10 * Place[1] - 1
    BY PlaceIs
  <2>. QED BY <2>1, <2>2 DEF Cut
<1>3. Digit(a, 1) = 48 + Cut(a, 1)
  <2>1. Digit(a, 1) - 48 = Cut(a, 1) % 10 /\ Digit(a, 1) \in 48..57
    BY <1>1
  <2>. QED BY <1>2, <2>1
<1>4. Cut(a, 9) = a
  BY <1>0, PlaceIs DEF Cut
<1>5. ASSUME NEW i \in 2..9 PROVE Cut(a, i) \div 10 = Cut(a, i - 1)
  <2>1. Place[i] \in Nat \ {0} /\ Place[i - 1] = 10 * Place[i]
    BY PlaceIs
  <2>2. (a \div Place[i]) \div 10 = a \div (10 * Place[i])
    BY <1>0, <2>1, CutCut, Zenon
  <2>3. a \div (10 * Place[i]) = a \div Place[i - 1]
    BY <2>1, Zenon
  <2>4. (a \div Place[i]) \div 10 = a \div Place[i - 1]
    BY <2>2, <2>3, Zenon
  <2>. QED BY <2>4, Zenon DEF Cut
<1>6. \A k \in Nat : k = 10 * (k \div 10) + (k % 10)
  OBVIOUS
<1>7. ASSUME NEW i \in 2..9 PROVE Cut(a, i) = 10 * Cut(a, i - 1) + (Digit(a, i) - 48)
  <2>1. Cut(a, i) \in Nat /\ Digit(a, i) - 48 = Cut(a, i) % 10
    BY <1>1
  <2>. QED BY <1>5, <1>6, <2>1
<1>. QED BY <1>1, <1>3, <1>4, <1>7

LEMMA FirstDifference ==
    ASSUME NEW a \in 0..(NanosPerSecond - 1), NEW b \in 0..(NanosPerSecond - 1), a < b
    PROVE  \E i \in 1..9 : /\ \A j \in 1..(i - 1) : Digit(a, j) = Digit(b, j)
                           /\ Digit(a, i) < Digit(b, i)
<1>. DEFINE S == {i \in 1..9 : Cut(a, i) < Cut(b, i)}
            i == Oldest(S)
<1>1. 9 \in S /\ S \subseteq Nat
  BY CutIs
<1>2. i \in S /\ \A j \in S : i <= j
  BY <1>1, OldestIs
<1>. HIDE DEF i
<1>3. i \in 1..9 /\ Cut(a, i) < Cut(b, i)
  BY <1>2
<1>4. ASSUME NEW j \in 1..9 PROVE Cut(a, j) <= Cut(b, j)
  <2>1. \A m, n \in Nat : \A p \in Nat \ {0} : m < n => m \div p <= n \div p
    OBVIOUS
  <2>. QED BY <2>1, PlaceIs, NanosIs DEF Cut
<1>5. ASSUME NEW j \in 1..(i - 1) PROVE Cut(a, j) = Cut(b, j)
  <2>1. j \in 1..9 /\ ~ (i <= j)
    BY <1>3
  <2>2. ~ (Cut(a, j) < Cut(b, j))
    BY <1>2, <2>1
  <2>3. Cut(a, j) \in Nat /\ Cut(b, j) \in Nat
    BY <2>1, CutIs
  <2>. QED BY <1>4, <2>1, <2>2, <2>3
<1>6. ASSUME NEW j \in 1..(i - 1) PROVE Digit(a, j) = Digit(b, j)
  <2>1. j \in 1..9 /\ Cut(a, j) = Cut(b, j)
    BY <1>3, <1>5
  <2>. QED BY <2>1 DEF Digit, Cut
<1>7. Digit(a, i) < Digit(b, i)
  <2>1. CASE i = 1
    BY <1>3, <2>1, CutIs
  <2>2. CASE i # 1
    <3>1. i \in 2..9 /\ i - 1 \in 1..(i - 1) /\ i - 1 \in 1..9
      BY <1>3, <2>2
    <3>2. Cut(a, i - 1) = Cut(b, i - 1)
      BY <1>5, <3>1
    <3>3. /\ Cut(a, i) = 10 * Cut(a, i - 1) + (Digit(a, i) - 48)
          /\ Cut(b, i) = 10 * Cut(b, i - 1) + (Digit(b, i) - 48)
          /\ Cut(a, i) \in Nat /\ Cut(b, i) \in Nat /\ Cut(a, i - 1) \in Nat
          /\ Digit(a, i) \in 48..57 /\ Digit(b, i) \in 48..57
      BY <1>3, <3>1, CutIs
    <3>. QED BY <1>3, <3>2, <3>3
  <2>. QED BY <2>1, <2>2
<1>. QED BY <1>3, <1>6, <1>7

(* What follows the time of day. *)
Tail43(ns) == Fraction(ns) \o <<43>>

LEMMA TailIs ==
    ASSUME NEW a \in 0..(NanosPerSecond - 1)
    PROVE  LET t == Tail43(a)
           IN  /\ t \in Seq(Nat)
               /\ a = 0 => Len(t) = 1 /\ t[1] = 43
               /\ a # 0 => /\ Len(t) = Width(a) + 2 /\ t[1] = 46
                           /\ \A i \in 1..Width(a) : t[i + 1] = Digit(a, i)
                           /\ t[Width(a) + 2] = 43
<1>. DEFINE w == Width(a)
            digits == [i \in 1..w |-> Digit(a, i)]
            t == Tail43(a)
<1>1. w \in {3, 6, 9} /\ w \in Nat
  BY SMT DEF Width
<1>2. \A i \in 1..w : Digit(a, i) \in Nat
  <2>. SUFFICES ASSUME NEW i \in 1..w PROVE Digit(a, i) \in Nat
    OBVIOUS
  <2>1. i \in 1..9
    BY <1>1
  <2>2. Digit(a, i) \in 48..57
    BY <2>1, CutIs
  <2>. QED BY <2>2
<1>3. digits \in [1..w -> Nat] /\ \A i \in 1..w : digits[i] = Digit(a, i)
  BY <1>2
<1>4. Fraction(a) = IF a = 0 THEN <<>> ELSE <<46>> \o digits
  BY SMT DEF Fraction, Width
<1>. HIDE DEF w, digits
<1>5. digits \in Seq(Nat) /\ Len(digits) = w
  BY <1>1, <1>3, LenOf
<1>6. CASE a = 0
  BY <1>4, <1>6 DEF Tail43
<1>7. CASE a # 0
  <2>1. t = (<<46>> \o digits) \o <<43>>
    BY <1>4, <1>7 DEF Tail43
  <2>2. <<46>> \in Seq(Nat) /\ <<43>> \in Seq(Nat)
    OBVIOUS
  <2>3. t \in Seq(Nat) /\ Len(t) = w + 2 /\ t[1] = 46 /\ t[w + 2] = 43
    BY <1>1, <1>5, <2>1, <2>2
  <2>4. ASSUME NEW i \in 1..w PROVE t[i + 1] = digits[i]
    BY <1>1, <1>5, <2>1, <2>2
  <2>. QED BY <1>3, <1>7, <2>3, <2>4 DEF w
<1>. QED BY <1>6, <1>7

LEMMA TailAsymmetric ==
    ASSUME NEW s \in Seq(Nat), NEW t \in Seq(Nat), TailLess(s, t)
    PROVE  ~ TailLess(t, s) /\ s # t
<1>1. PICK i \in 1..Len(t) : /\ \A j \in 1..(i - 1) : j <= Len(s) /\ s[j] = t[j]
                             /\ i > Len(s) \/ s[i] < t[i]
  BY DEF TailLess
<1>2. Len(s) \in Nat /\ Len(t) \in Nat /\ (\A k \in 1..Len(s) : s[k] \in Nat)
      /\ \A k \in 1..Len(t) : t[k] \in Nat
  OBVIOUS
<1>3. ASSUME NEW k \in 1..Len(s), \A j \in 1..(k - 1) : j <= Len(t) /\ t[j] = s[j],
             k > Len(t) \/ t[k] < s[k]
      PROVE  FALSE
  <2>1. CASE k = i
    BY <1>1, <1>2, <1>3, <2>1
  <2>2. CASE k < i
    <3>1. k \in 1..(i - 1)
      BY <1>2, <2>2
    <3>2. s[k] = t[k] /\ k <= Len(t) /\ t[k] \in Nat
      BY <1>1, <1>2, <3>1
    <3>. QED BY <1>2, <1>3, <3>2
  <2>3. CASE i < k
    <3>1. i \in 1..(k - 1)
      BY <1>2, <2>3
    <3>2. t[i] = s[i] /\ i <= Len(s) /\ t[i] \in Nat
      BY <1>2, <1>3, <2>3, <3>1
    <3>. QED BY <1>1, <1>2, <3>2
  <2>. QED BY <1>2, <2>1, <2>2, <2>3
<1>4. ~ TailLess(t, s)
  BY <1>3 DEF TailLess
<1>. QED BY <1>4

(* Later digits of a shorter fraction would be zero. *)
LEMMA WidthIs ==
    ASSUME NEW a \in 0..(NanosPerSecond - 1)
    PROVE  /\ Width(a) \in {3, 6, 9}
           /\ \A i \in (Width(a) + 1)..9 : Digit(a, i) = 48
<1>0. a \in Nat
  BY NanosIs
<1>1. Width(a) \in {3, 6, 9}
  BY SMT DEF Width
<1>2. ASSUME NEW j \in 2..9, a = Cut(a, j - 1) * Place[j - 1]
      PROVE  a = Cut(a, j) * Place[j] /\ Digit(a, j) = 48
  <2>. DEFINE c == Cut(a, j - 1)
              p == Place[j]
  <2>1. c \in Nat /\ p \in Nat \ {0} /\ Place[j - 1] = 10 * p
    BY CutIs, PlaceIs
  <2>2. Cut(a, j) = a \div p /\ Cut(a, j) = 10 * c + (Digit(a, j) - 48)
    BY CutIs DEF Cut
  <2>3. Digit(a, j) \in 48..57
    BY CutIs
  <2>4. \A x \in Nat, q \in Nat \ {0} : (x * q) \div q = x
    OBVIOUS
  <2>. HIDE DEF c, p
  <2>5. a = c * (10 * p)
    BY <1>2, <2>1 DEF c
  <2>6. a = (10 * c) * p
    BY <2>1, <2>5
  <2>7. Cut(a, j) = 10 * c
    BY <2>1, <2>2, <2>4, <2>6
  <2>8. Digit(a, j) = 48
    BY <2>1, <2>2, <2>3, <2>7
  <2>. QED BY <2>6, <2>7, <2>8 DEF p
<1>3. Place[3] = Milli /\ Place[6] = Micro
  BY SMT DEF Place
<1>4. \A q \in Nat \ {0} : a % q = 0 => a = (a \div q) * q
  BY <1>0
<1>5. a % Milli = 0 => a = Cut(a, 3) * Place[3]
  BY <1>3, <1>4, PlaceIs DEF Cut
<1>6. a % Micro = 0 => a = Cut(a, 6) * Place[6]
  BY <1>3, <1>4, PlaceIs DEF Cut
<1>7. ASSUME a = Cut(a, 6) * Place[6] PROVE \A i \in 7..9 : Digit(a, i) = 48
  <2>1. a = Cut(a, 7) * Place[7] /\ Digit(a, 7) = 48
    BY <1>2, <1>7
  <2>2. a = Cut(a, 8) * Place[8] /\ Digit(a, 8) = 48
    BY <1>2, <2>1
  <2>3. Digit(a, 9) = 48
    BY <1>2, <2>2
  <2>. QED BY <2>1, <2>2, <2>3
<1>8. ASSUME a = Cut(a, 3) * Place[3]
      PROVE  a = Cut(a, 6) * Place[6] /\ \A i \in 4..6 : Digit(a, i) = 48
  <2>1. a = Cut(a, 4) * Place[4] /\ Digit(a, 4) = 48
    BY <1>2, <1>8
  <2>2. a = Cut(a, 5) * Place[5] /\ Digit(a, 5) = 48
    BY <1>2, <2>1
  <2>3. a = Cut(a, 6) * Place[6] /\ Digit(a, 6) = 48
    BY <1>2, <2>2
  <2>. QED BY <2>1, <2>2, <2>3
<1>9. CASE a % Milli = 0
  <2>1. Width(a) = 3
    BY <1>9 DEF Width
  <2>2. \A i \in 4..9 : i \in 4..6 \/ i \in 7..9
    OBVIOUS
  <2>. QED BY <1>5, <1>7, <1>8, <1>9, <2>1, <2>2
<1>10. CASE a % Milli # 0 /\ a % Micro = 0
  <2>1. Width(a) = 6
    BY <1>10 DEF Width
  <2>. QED BY <1>6, <1>7, <1>10, <2>1
<1>11. CASE a % Milli # 0 /\ a % Micro # 0
  BY <1>11 DEF Width
<1>. QED BY <1>9, <1>10, <1>11

LEMMA TailsSort ==
    ASSUME NEW a \in 0..(NanosPerSecond - 1), NEW b \in 0..(NanosPerSecond - 1), a < b
    PROVE  TailLess(Tail43(a), Tail43(b))
<1>. DEFINE s == Tail43(a)
            t == Tail43(b)
<1>0. b # 0 /\ a \in Nat /\ b \in Nat
  BY NanosIs
<1>1. /\ t \in Seq(Nat) /\ Len(t) = Width(b) + 2 /\ t[1] = 46
      /\ \A i \in 1..Width(b) : t[i + 1] = Digit(b, i)
  BY <1>0, TailIs
<1>2. Width(b) \in {3, 6, 9} /\ Width(a) \in {3, 6, 9}
  BY WidthIs
<1>3. CASE a = 0
  <2>1. Len(s) = 1 /\ s[1] = 43
    BY <1>3, TailIs
  <2>. HIDE DEF s, t
  <2>2. 1 \in 1..Len(t) /\ s[1] < t[1]
    BY <1>1, <1>2, <2>1
  <2>. QED BY <2>2 DEF TailLess, s, t
<1>4. CASE a # 0
  <2>1. /\ s \in Seq(Nat) /\ Len(s) = Width(a) + 2 /\ s[1] = 46
        /\ \A i \in 1..Width(a) : s[i + 1] = Digit(a, i)
        /\ s[Width(a) + 2] = 43
    BY <1>4, TailIs
  <2>2. PICK i \in 1..9 : /\ \A j \in 1..(i - 1) : Digit(a, j) = Digit(b, j)
                          /\ Digit(a, i) < Digit(b, i)
    BY <1>0, FirstDifference
  <2>3. \A j \in 1..9 : Digit(a, j) \in 48..57 /\ Digit(b, j) \in 48..57
    BY CutIs
  <2>4. i <= Width(b)
    <3>1. Digit(b, i) # 48
      BY <2>2, <2>3
    <3>. QED BY <1>2, <3>1, WidthIs
  <2>. HIDE DEF s, t
  <2>. DEFINE wa == Width(a)
              wb == Width(b)
  <2>5. wa \in {3, 6, 9} /\ wb \in {3, 6, 9}
    BY <1>2
  <2>6. Len(s) = wa + 2 /\ Len(t) = wb + 2 /\ s[1] = t[1]
        /\ (\A j \in 1..wa : s[j + 1] = Digit(a, j)) /\ s[wa + 2] = 43
        /\ \A j \in 1..wb : t[j + 1] = Digit(b, j)
    BY <1>1, <2>1
  <2>. HIDE DEF wa, wb
  <2>7. ASSUME NEW k \in 1..(wb + 1), k <= i + 1, k <= wa + 2, NEW j \in 1..(k - 1)
        PROVE  j <= Len(s) /\ s[j] = t[j]
    <3>1. j <= Len(s)
      BY <2>5, <2>6, <2>7
    <3>2. CASE j = 1
      BY <2>6, <3>1, <3>2
    <3>3. CASE j # 1
      <4>1. j - 1 \in 1..(i - 1) /\ j - 1 \in 1..wa /\ j - 1 \in 1..wb /\ (j - 1) + 1 = j
        BY <2>5, <2>7, <3>3
      <4>2. s[j] = Digit(a, j - 1) /\ t[j] = Digit(b, j - 1)
        BY <2>6, <4>1
      <4>. QED BY <2>2, <3>1, <4>1, <4>2
    <3>. QED BY <3>2, <3>3
  <2>8. CASE i <= wa
    <3>. DEFINE k == i + 1
    <3>1. k \in 1..(wb + 1) /\ k <= i + 1 /\ k <= wa + 2 /\ k \in 1..Len(t)
          /\ i \in 1..wa /\ i \in 1..wb
      BY <2>4, <2>5, <2>6, <2>8 DEF wb
    <3>2. s[k] = Digit(a, i) /\ t[k] = Digit(b, i)
      BY <2>6, <3>1
    <3>. HIDE DEF k
    <3>. QED BY <2>2, <2>7, <3>1, <3>2 DEF TailLess, s, t
  <2>9. CASE i > wa
    <3>. DEFINE k == wa + 2
    <3>1. k \in 1..(wb + 1) /\ k <= i + 1 /\ k <= wa + 2 /\ k \in 1..Len(t)
          /\ wa + 1 \in 1..wb /\ wa + 1 \in 1..9 /\ (wa + 1) + 1 = k
      BY <2>4, <2>5, <2>6, <2>9 DEF wb
    <3>2. s[k] = 43 /\ t[k] = Digit(b, wa + 1) /\ Digit(b, wa + 1) \in 48..57
      BY <2>3, <2>6, <3>1
    <3>. HIDE DEF k
    <3>3. s[k] < t[k]
      BY <3>2
    <3>. QED BY <2>7, <3>1, <3>3 DEF TailLess, s, t
  <2>. QED BY <2>5, <2>8, <2>9
<1>. QED BY <1>3, <1>4

(* Spelled, instants sort as they follow each other. *)
LEMMA SpellingSorts ==
    ASSUME NEW t \in Instant, NEW u \in Instant
    PROVE  SortsBefore(Spelled(t), Spelled(u)) <=> Earlier(t, u)
<1>1. /\ t.day \in Nat /\ u.day \in Nat /\ t.sec \in Nat /\ u.sec \in Nat
      /\ t.ns \in 0..(NanosPerSecond - 1) /\ u.ns \in 0..(NanosPerSecond - 1)
  BY DEF Instant
<1>2. t.ns \in Nat /\ u.ns \in Nat
  BY <1>1, NanosIs
<1>3. Tail43(t.ns) \in Seq(Nat) /\ Tail43(u.ns) \in Seq(Nat)
  BY <1>1, TailIs
<1>4. t.ns < u.ns => TailLess(Tail43(t.ns), Tail43(u.ns))
  BY <1>1, TailsSort
<1>5. u.ns < t.ns => TailLess(Tail43(u.ns), Tail43(t.ns))
  BY <1>1, TailsSort
<1>6. TailLess(Tail43(t.ns), Tail43(u.ns)) <=> t.ns < u.ns
  <2>1. CASE t.ns < u.ns
    BY <1>4, <2>1
  <2>2. CASE u.ns < t.ns
    BY <1>2, <1>3, <1>5, <2>2, TailAsymmetric
  <2>3. CASE t.ns = u.ns
    <3>1. ~ TailLess(Tail43(t.ns), Tail43(u.ns))
      BY <1>3, <2>3, TailAsymmetric
    <3>. QED BY <1>2, <2>3, <3>1
  <2>. QED BY <1>2, <2>1, <2>2, <2>3
<1>. QED BY <1>6 DEF SortsBefore, Spelled, Earlier, Tail43

UsageSpec == UsageInit /\ [][UsageNext]_usageVars

EventAt == [at : Instant, workspace : {u.workspace : u \in Usages},
            kind : {u.kind : u \in Usages}, cost : {u.cost : u \in Usages},
            turns : {u.turns : u \in Usages}]
UsageInv == clock \in 1..Len(Times) /\ ledger \in Seq(EventAt)

LEMMA TimesAre == Len(Times) \in Nat /\ \A i \in 1..Len(Times) : Times[i] \in Instant
<1>1. Times \in Seq(Instant)
  BY UsageAssumption
<1>. QED BY <1>1, LenProperties, ElementOfSeq

LEMMA LedgerIs ==
    ASSUME UsageInv
    PROVE  /\ DOMAIN ledger = 1..Len(ledger) /\ Len(ledger) \in Nat
           /\ \A i \in 1..Len(ledger) : ledger[i] \in EventAt /\ ledger[i].at \in Instant
<1>1. ledger \in Seq(EventAt)
  BY DEF UsageInv
<1>2. \A i \in 1..Len(ledger) : ledger[i] \in EventAt
  BY <1>1, ElementOfSeq
<1>. QED BY <1>1, <1>2, LenProperties DEF EventAt

(* The events left when the log is pruned. *)
LEMMA Pruned ==
    ASSUME UsageInv, Prune
    PROVE  /\ ledger' \in Seq(EventAt)
           /\ \A i \in DOMAIN ledger :
                 ~ SortsBefore(Stamped(ledger[i]), Cutoff) => ledger[i] \in Range(ledger')
<1>. DEFINE keep == {e \in Range(ledger) : ~ SortsBefore(Stamped(e), Cutoff)}
            own == {ledger[i] : i \in 1..Len(ledger)} \cap keep
<1>1. KeptWell(ledger', ledger, keep, Len(ledger))
  BY LedgerIs, KeptIs DEF Prune
<1>2. ledger' \in Seq(own)
  BY <1>1 DEF KeptWell
<1>3. own \subseteq EventAt
  BY LedgerIs
<1>4. ASSUME NEW i \in DOMAIN ledger, ~ SortsBefore(Stamped(ledger[i]), Cutoff)
      PROVE  ledger[i] \in Range(ledger')
  <2>1. i \in 1..Len(ledger) /\ ledger[i] \in keep
    BY <1>4, LedgerIs DEF Range
  <2>. HIDE DEF keep
  <2>2. PICK j \in 1..Len(ledger') : ledger'[j] = ledger[i]
    BY <1>1, <2>1 DEF KeptWell
  <2>3. DOMAIN ledger' = 1..Len(ledger')
    BY <1>2, LenProperties
  <2>. QED BY <2>2, <2>3 DEF Range
<1>. HIDE DEF own
<1>5. ledger' \in Seq(EventAt)
  BY <1>2, <1>3
<1>. QED BY <1>4, <1>5

LEMMA UsageInvInit == UsageInit => UsageInv
<1>1. Times \in Seq(Instant) /\ Times # <<>>
  BY UsageAssumption
<1>2. Len(Times) \in Nat /\ Len(Times) # 0
  BY <1>1, EmptySeq, LenProperties
<1>. QED BY <1>2 DEF UsageInit, UsageInv

LEMMA UsageInvStep == UsageInv /\ [UsageNext]_usageVars => UsageInv'
<1>. SUFFICES ASSUME UsageInv, [UsageNext]_usageVars PROVE UsageInv'
  OBVIOUS
<1>1. CASE Elapse
  BY <1>1, TimesAre DEF Elapse, UsageInv
<1>2. CASE \E u \in Usages : Record(u)
  <2>1. PICK u \in Usages : Record(u)
    BY <1>2
  <2>. DEFINE e == [at |-> Times[clock], workspace |-> u.workspace, kind |-> u.kind,
                    cost |-> u.cost, turns |-> u.turns]
  <2>2. e \in EventAt
    BY TimesAre DEF EventAt, UsageInv
  <2>3. ledger' = Append(ledger, e) /\ UNCHANGED clock
    BY <2>1 DEF Record
  <2>. HIDE DEF e
  <2>. QED BY <2>2, <2>3 DEF UsageInv
<1>3. CASE Prune
  BY <1>3, Pruned DEF UsageInv, Prune
<1>4. CASE UNCHANGED usageVars
  BY <1>4 DEF UsageInv, usageVars
<1>. QED BY <1>1, <1>2, <1>3, <1>4 DEF UsageNext

LEMMA DaysBeforeIs ==
    ASSUME NEW t \in Instant, NEW n \in Nat PROVE DaysBefore(t, n) \in Instant
  BY DEF DaysBefore, Instant

LEMMA PruneStep ==
    ASSUME UsageInv, UsageNext, NEW i \in DOMAIN ledger,
           ~ Earlier(ledger[i].at, DaysBefore(Times[clock], RetentionDays))
    PROVE  ledger[i] \in Range(ledger')
<1>1. i \in 1..Len(ledger) /\ ledger \in Seq(EventAt)
  BY LedgerIs DEF UsageInv
<1>2. CASE Elapse
  BY <1>2 DEF Elapse, Range
<1>3. CASE \E u \in Usages : Record(u)
  <2>1. PICK e : ledger' = Append(ledger, e)
    BY <1>3 DEF Record
  <2>2. i \in DOMAIN ledger' /\ ledger'[i] = ledger[i]
    BY <1>1, <2>1
  <2>. QED BY <2>2 DEF Range
<1>4. CASE Prune
  <2>. DEFINE old == DaysBefore(Times[clock], RetentionDays)
  <2>1. old \in Instant
    BY TimesAre, DaysBeforeIs, UsageAssumption DEF UsageInv
  <2>2. ledger[i].at \in Instant
    BY <1>1, LedgerIs
  <2>3. ~ SortsBefore(Stamped(ledger[i]), Cutoff)
    BY <2>1, <2>2, SpellingSorts DEF Stamped, Cutoff
  <2>. QED BY <1>4, <2>3, Pruned
<1>. QED BY <1>2, <1>3, <1>4 DEF UsageNext

LEMMA SelectsStep == UsageInv => WindowSelects
<1>. SUFFICES ASSUME UsageInv, NEW q \in Queries, UsageWindow(q).ok, NEW i \in DOMAIN ledger
              PROVE  InWindow(ledger[i], UsageWindow(q).since, UsageWindow(q).until)
                         <=> Within(ledger[i], q)
  BY DEF WindowSelects
<1>1. ledger[i].at \in Instant
  BY LedgerIs
<1>2. q.since.at \in Instant /\ q.until.at \in Instant /\ q.days \in Nat
  BY UsageAssumption
<1>3. EndOf(q) \in Instant
  BY <1>2, TimesAre DEF EndOf, UsageInv
<1>4. StartOf(q) \in Instant
  BY <1>2, <1>3, DaysBeforeIs DEF StartOf
<1>5. /\ UsageWindow(q).since = Spelled(StartOf(q))
      /\ UsageWindow(q).until = Spelled(EndOf(q))
  BY DEF UsageWindow, Window, Refuse, StartOf, EndOf
<1>6. /\ SortsBefore(Stamped(ledger[i]), Spelled(StartOf(q)))
            <=> Earlier(ledger[i].at, StartOf(q))
      /\ SortsBefore(Stamped(ledger[i]), Spelled(EndOf(q)))
            <=> Earlier(ledger[i].at, EndOf(q))
  BY <1>1, <1>3, <1>4, SpellingSorts DEF Stamped
<1>. QED BY <1>5, <1>6 DEF InWindow, Within

(* What --since makes the command line send. *)
LEMMA SentIs ==
    ASSUME NEW q \in Sent
    PROVE  /\ UsageWindow(q).ok
           /\ q.since.form = "at" =>
                 q.since.at \in Instant /\ Stamp(q.since.at) = Spelled(q.since.at)
<1>1. PICK arg \in SinceArgs : q = UsagePath(arg) /\ q.ok
  BY DEF Sent
<1>2. arg.at \in Instant /\ arg.n \in Nat /\ MaxUsageDays \in Nat /\ MaxUsageDays >= 7
  BY UsageAssumption DEF DefaultUsageDays
<1>3. ASSUME NEW d \in Nat, d <= MaxUsageDays, d # 0 PROVE UsageWindow(Asks(Absent, d)).ok
  BY <1>2, <1>3 DEF UsageWindow, Asks, Absent, Window
<1>4. CASE arg.form = "absent"
  <2>1. q = Asks(Absent, 7)
    BY <1>1, <1>4 DEF UsagePath, DefaultUsageDays
  <2>. QED BY <1>2, <1>3, <2>1 DEF Asks, Absent
<1>5. CASE arg.form = "count"
  <2>1. q = DayCount(arg)
    BY <1>1, <1>5 DEF UsagePath
  <2>. DEFINE d == IF arg.unit = "w" THEN 7 * arg.n ELSE arg.n
  <2>2. d \in Nat
    BY <1>2
  <2>3. d # 0 /\ ~ (d > MaxUsageDays) /\ q = Asks(Absent, d)
    BY <1>1, <2>1 DEF DayCount, Refuse
  <2>. HIDE DEF d
  <2>. QED BY <1>2, <1>3, <2>2, <2>3 DEF Asks, Absent
<1>6. CASE arg.form \in {"date", "timestamp"}
  <2>1. PICK t \in Instant : q = Asks(Bound(t), 0) /\ t.ns = 0
    <3>1. [arg.at EXCEPT !.sec = 0, !.ns = 0] \in Instant /\ [arg.at EXCEPT !.ns = 0] \in Instant
      <4>1. Place[1] \in Nat \ {0} /\ NanosPerSecond = 10 * Place[1]
        BY PlaceIs
      <4>2. 0 \in 0..(NanosPerSecond - 1)
        BY <4>1
      <4>. QED BY <1>2, <4>2 DEF Instant
    <3>2. [arg.at EXCEPT !.sec = 0, !.ns = 0].ns = 0 /\ [arg.at EXCEPT !.ns = 0].ns = 0
      BY <1>2 DEF Instant
    <3>. QED BY <1>1, <1>6, <3>1, <3>2 DEF UsagePath
  <2>2. UsageWindow(q).ok
    BY <2>1 DEF UsageWindow, Asks, Absent, Bound, Window
  <2>3. [t EXCEPT !.ns = 0] = t
    BY <2>1 DEF Instant
  <2>. QED BY <2>1, <2>2, <2>3 DEF Asks, Bound, Stamp
<1>7. CASE arg.form \notin {"absent", "count", "date", "timestamp"}
  BY <1>1, <1>7 DEF UsagePath, Refuse
<1>. QED BY <1>4, <1>5, <1>6, <1>7

LEMMA BoundSortsStep == UsageInv => CliBoundSorts
<1>. SUFFICES ASSUME UsageInv, NEW i \in DOMAIN ledger, NEW q \in Sent, q.since.form = "at"
              PROVE  SortsBefore(Stamped(ledger[i]), Stamp(q.since.at))
                         = Earlier(ledger[i].at, q.since.at)
  BY DEF CliBoundSorts
<1>1. ledger[i].at \in Instant /\ q.since.at \in Instant
  BY LedgerIs, SentIs
<1>2. SortsBefore(Stamped(ledger[i]), Stamp(q.since.at)) <=> Earlier(ledger[i].at, q.since.at)
  BY <1>1, SentIs, SpellingSorts DEF Stamped
<1>. QED BY <1>2 DEF SortsBefore, Earlier

(* Times are compared as strings, by the stores, the API and the command     *)
(* line: a window selects the events of its time, what --since says is       *)
(* accepted and sorts as the instant it names, and retention removes nothing *)
(* younger than its age. For any instants, to the nanosecond, any queries    *)
(* and any log (dto.rs usage_window, cli usage.rs, store.rs prune).         *)
THEOREM WindowsHold ==
    UsageSpec => [](WindowSelects /\ CliAccepted /\ CliBoundSorts) /\ PruneKeepsYoung
<1>1. UsageInit => UsageInv
  BY UsageInvInit
<1>2. UsageInv /\ [UsageNext]_usageVars => UsageInv'
  BY UsageInvStep
<1>3. UsageInv => WindowSelects /\ CliAccepted /\ CliBoundSorts
  BY SelectsStep, SentIs, BoundSortsStep DEF CliAccepted
<1>4. UsageInv /\ [UsageNext]_usageVars =>
        [\A i \in DOMAIN ledger :
          ~Earlier(ledger[i].at, DaysBefore(Times[clock], RetentionDays))
              => ledger[i] \in Range(ledger')]_usageVars
  BY PruneStep
<1>. QED BY <1>1, <1>2, <1>3, <1>4, PTL DEF UsageSpec, PruneKeepsYoung

=============================================================================
