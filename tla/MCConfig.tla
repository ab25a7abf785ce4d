------------------------------ MODULE MCConfig ------------------------------
(***************************************************************************)
(* The two tenants of the config store, side by side: the automations, with *)
(* the tick loops of two replicas and the requests of an operator, and the  *)
(* workspace registry, with one or two replicas and two or three calls. They *)
(* write different tables and share nothing else, so a behaviour exercises  *)
(* one of them.                                                             *)
(***************************************************************************)
EXTENDS Automations, Registry

CONSTANTS r1, r2, enable, disable, delete, create, run, trigger,
          h1, h2, n1, n2, ra, rb, c1, c2, c3

(***************************************************************************)
(* Automations.                                                             *)
(***************************************************************************)
DoesNamed == [q \in Requests |->
                CASE q = enable -> "enable" [] q = disable -> "disable"
                  [] q = delete -> "delete" [] q = create -> "create"
                  [] q = run -> "run" [] q = trigger -> "trigger"]
EditAndRun == {{}, {disable, enable}, {delete, enable}, {create, run}, {trigger}}
CronRow == [kind |-> "cron", enabled |-> TRUE, created |-> 0, last |-> 0]
HookRow == [CronRow EXCEPT !.kind = "webhook"]
AnyRow == {CronRow, HookRow, NoRow}

Session == {q \in Requests : task[q] # Finished}
AutomationStarts ==
    \/ row = CronRow /\ Session \in {{disable, enable}, {delete, enable}}
    \/ row = HookRow /\ Session = {trigger}
    \/ row = NoRow /\ Session = {create, run}

(***************************************************************************)
(* The registry.                                                            *)
(***************************************************************************)
(* A key that is there, none, none needed, one that is refused. *)
Claude == [provider |-> "anthropic", base |-> FALSE, key |-> "set", raw |-> Nothing]
NoKey == [provider |-> "openai", base |-> FALSE, key |-> "unset", raw |-> Nothing]
Local == [provider |-> "openai", base |-> TRUE, key |-> "none", raw |-> Nothing]
Refused == [provider |-> "bedrock", base |-> FALSE, key |-> "set", raw |-> Nothing]

Call(op, h, n, root, config) ==
    [op |-> op, at |-> h, name |-> n, root |-> root, config |-> config]
At(root, config) == [root |-> root, config |-> config]
Scenario(hosts, rows, calls) ==
    [hosts |-> hosts, table |-> rows, calls |-> calls,
     spent |-> IF Cardinality(hosts) + Cardinality(DOMAIN calls) < 4 THEN 0 ELSE 1]

NoDefaults == Nothing
Managed == n1 :> At(ra, Claude)

Quiet == Scenario({}, Nothing, Nothing)
Sets == Scenario({h1}, Managed,
    c1 :> Call("set", h1, n1, ra, Local) @@ c2 :> Call("set", h1, n1, ra, NoKey))
Adds == Scenario({h1}, Nothing,
    c1 :> Call("add", h1, n1, ra, Claude) @@ c2 :> Call("add", h1, n2, ra, Refused)
    @@ c3 :> Call("set", h1, n1, ra, Local))
Renames == Scenario({h1}, Managed,
    c1 :> Call("remove", h1, n1, ra, Claude) @@ c2 :> Call("add", h1, n1, rb, NoKey))
Peers == Scenario({h2}, Managed,
    c1 :> Call("remove", h1, n1, ra, Claude) @@ c2 :> Call("set", h2, n1, ra, Local))

Readds == Scenario({h1}, Managed,
    c1 :> Call("add", h1, n1, ra, NoKey) @@ c2 :> Call("add", h1, n2, ra, Local))

Aliases == Scenario({h1}, Nothing,
    c1 :> Call("add", h1, n1, ra, Claude) @@ c2 :> Call("add", h1, n2, ra, Claude))

AllScenarios == {Quiet, Sets, Adds, Renames, Peers, Readds}
OnlyAliases == {Aliases}
OnlyQuiet == {Quiet}

RegistryQuiet == \A t \in Jobs : job[t] = Over

MCInit ==
    /\ Init /\ RegInit
    /\ \/ AutomationStarts /\ RegistryQuiet
       \/ row = NoRow /\ Session = {} /\ ~ RegistryQuiet

MCNext ==
    \/ DOMAIN request = {} /\ Next /\ UNCHANGED regVars
    \/ RegNext /\ UNCHANGED autoVars

MCSpec == MCInit /\ [][MCNext]_<<autoVars, regVars>> /\ Fairness /\ RegFairness

=============================================================================
