---------------------------- MODULE WorkspaceForm ----------------------------
(***************************************************************************)
(* The editor of a Kubernetes workspace, end to end: the form of the        *)
(* dashboard (crates/dashboard/src/config_form.rs, WorkspaceModal and       *)
(* K8sFields in ui.rs), the configuration it sends, what the server makes   *)
(* of it and what it lets a page read back (core/src/k8s/workspace_api.rs,  *)
(* get_workspaces in api/src/handlers.rs). The workspace is a custom        *)
(* resource: its providers in order (name, whether a Secret is referenced,  *)
(* whether a base URL is set), how many sources, the default provider, and  *)
(* whether an environment and an isolation are set.                         *)
(***************************************************************************)
EXTENDS Naturals, Sequences, FiniteSets, SequencesExt, Filter

CONSTANTS
    Resources,  \* the workspace as it may be found: NoResource or a resource
    Others,     \* what another client of the API may put in its place
    ProviderNames, \* the names providers are given, none of them blank
    MaxEdits,   \* keystrokes, clicks and reads of one sitting
    MaxOthers   \* writes of the other client

ASSUME FormAssumption ==
    MaxEdits \in Nat /\ MaxOthers \in Nat /\ "" \notin ProviderNames

ProviderSpec == [name : ProviderNames, cred : BOOLEAN, base : BOOLEAN]
WorkspaceSpec == [providers : Seq(ProviderSpec), sources : Nat, default : ProviderNames \cup {""},
                  env : BOOLEAN, isolation : BOOLEAN]
NoResource == [providers |-> <<>>, sources |-> 0, default |-> "", env |-> FALSE,
               isolation |-> FALSE]

Names(list) == {list[i].name : i \in 1..Len(list)}

(* What the operator can reconcile: a source, providers of distinct names,    *)
(* and a default that is one of them. The server alone demands the former and *)
(* that names are not blank.                                                 *)
WellFormed(ws) ==
    /\ ws.sources > 0 /\ ws.providers # <<>>
    /\ Cardinality(Names(ws.providers)) = Len(ws.providers)
    /\ ws.default \in Names(ws.providers) \cup {""}

(* The other clients of the API are as careful as the form.                   *)
ASSUME ResourcesAssumption ==
    \A ws \in Resources \cup Others : ws \in WorkspaceSpec /\ (ws = NoResource \/ WellFormed(ws))

VARIABLES
    cr,       \* the Workspace resource
    seen,     \* ui.workspaces, the page's last read of it
    form,     \* K8sForm and env; `touched` and `based` record what the operator
              \* changed and the resource the form was opened on
    spent     \* edits and other writes so far

formVars == <<cr, seen, form, spent>>

Unread == [info |-> NoResource, creds |-> {}]
NoForm == [open |-> FALSE, providers |-> <<>>, sources |-> <<>>, default |-> "", env |-> FALSE,
           touched |-> {}, based |-> NoResource]

FormInit ==
    /\ cr \in Resources /\ seen = Unread /\ form = NoForm
    /\ spent = [edits |-> 0, others |-> 0]

Edit == spent.edits < MaxEdits /\ spent' = [spent EXCEPT !.edits = @ + 1]

(***************************************************************************)
(* The server.                                                              *)
(***************************************************************************)
(* Mutant: base URLs are not part of what is read back. *)
InfoWithoutBase(ws) ==
    [info |-> [ws EXCEPT !.providers = [i \in 1..Len(@) |-> [@[i] EXCEPT !.cred = FALSE,
                                                                          !.base = FALSE]],
                         !.env = FALSE, !.isolation = FALSE],
     creds |-> {ws.providers[i].name : i \in {j \in 1..Len(ws.providers) : ws.providers[j].cred}}]

(* workspace_info and get_workspaces: Secret references are reduced to      *)
(* has_credentials, and neither the environment nor the isolation is read   *)
(* back (`config` is the default one).                                       *)
WorkspaceInfo(ws) ==
    [info |-> [ws EXCEPT !.providers = [i \in 1..Len(@) |-> [@[i] EXCEPT !.cred = FALSE]],
               !.env = FALSE, !.isolation = FALSE],
     creds |-> {ws.providers[i].name : i \in {j \in 1..Len(ws.providers) : ws.providers[j].cred}}]

(* validate_k8s_config. *)
ValidateK8sConfig(config) == config.sources > 0 /\ config.providers # <<>>

(***************************************************************************)
(* The form.                                                                *)
(***************************************************************************)
(* K8sForm::from_summary, or blank: one empty row of each kind. A name typed *)
(* with blanks around it is `padded`; one of blanks alone is the empty name. *)
BlankRow == [name |-> "", padded |-> FALSE, secret |-> "blank", base |-> FALSE]
FromSummary(info) ==
    [providers |-> IF info.providers = <<>> THEN <<BlankRow>>
                   ELSE [i \in 1..Len(info.providers) |->
                            [name |-> info.providers[i].name, padded |-> FALSE,
                             secret |-> "blank", base |-> info.providers[i].base]],
     sources |-> IF info.sources = 0 THEN <<"blank">> ELSE [i \in 1..info.sources |-> "full"],
     default |-> info.default, env |-> info.env, open |-> TRUE, touched |-> {},
     based |-> NoResource]

(* K8sForm::to_config: names are trimmed, rows never filled in are dropped, a *)
(* Secret is sent when it is named, a default only when, trimmed, it names a  *)
(* row, an isolation never.                                                  *)
ToConfig(f) ==
    LET list == Kept(f.providers, {r \in Range(f.providers) : r.name # ""})
    IN  [providers |-> [i \in 1..Len(list) |-> [name |-> list[i].name, base |-> list[i].base,
                                                cred |-> list[i].secret # "blank"]],
         sources |-> Len(Kept(f.sources, {"partial", "full"})),
         default |-> IF f.default \in Names(list) THEN f.default ELSE "",
         env |-> f.env]

(* workspace_from_config: the resource the configuration makes, with nothing *)
(* of the one it replaces; an isolation that is not sent is not set.         *)
WorkspaceFromConfig(config) ==
    [providers |-> config.providers, sources |-> config.sources, default |-> config.default,
     env |-> config.env, isolation |-> FALSE]

(* K8sForm::validate. *)
Validate(f) ==
    LET config == ToConfig(f)
    IN  /\ config.sources > 0 /\ \A i \in 1..Len(f.sources) : f.sources[i] # "partial"
        /\ config.providers # <<>>
        /\ \A r \in Range(f.providers) : r.name # "" => r.secret # "named"
        /\ \A i, j \in 1..Len(config.providers) :
              config.providers[i].name = config.providers[j].name => i = j

(* credentials_warning: the rows that had a Secret and name none now. A row's *)
(* name is compared as it was typed, so a padded one is never found.         *)
CredentialsWarning(f, had) ==
    {f.providers[i].name : i \in {j \in 1..Len(f.providers) :
        /\ f.providers[j].name \in had /\ ~ f.providers[j].padded
        /\ f.providers[j].secret = "blank"}}

(***************************************************************************)
(* The page.                                                                *)
(***************************************************************************)
(* The loop of App reads /api/workspaces. *)
PageReads ==
    /\ seen # WorkspaceInfo(cr) /\ seen' = WorkspaceInfo(cr)
    /\ UNCHANGED <<cr, form, spent>>

(* list_workspaces failed: get_workspaces falls back to the fleet snapshot,  *)
(* in which no workspace has providers.                                      *)
ListFails ==
    /\ seen # Unread /\ Edit /\ seen' = Unread
    /\ UNCHANGED <<cr, form>>

(* Configure, or Add workspace where there is none. *)
OpenForm ==
    /\ ~ form.open /\ Edit
    /\ form' = [FromSummary(seen.info) EXCEPT
                  !.based = IF seen = WorkspaceInfo(cr) THEN cr ELSE NoResource]
    /\ UNCHANGED <<cr, seen>>

Typed(field, list) ==
    form' = [form EXCEPT ![field] = list, !.touched = @ \cup {field}]

(* The inputs of K8sFields: name, secret, base URL, remove, add, default. *)
EditProviders ==
    /\ form.open /\ Edit
    /\ \/ \E i \in 1..Len(form.providers) :
            \/ \E n \in ProviderNames \cup {""}, pad \in BOOLEAN :
                 /\ <<n, pad>> # <<form.providers[i].name, form.providers[i].padded>>
                 /\ pad => n # ""
                 /\ Typed("providers", [form.providers EXCEPT ![i].name = n, ![i].padded = pad])
            \/ \E s \in {"named", "keyed"} :
                 Typed("providers", [form.providers EXCEPT ![i].secret = s])
            \/ Typed("providers", RemoveAt(form.providers, i))
            \/ Typed("default", form.providers[i].name)
       \/ Len(form.providers) < 2 /\ Typed("providers", Append(form.providers, BlankRow))
    /\ UNCHANGED <<cr, seen>>

EditSources ==
    /\ form.open /\ Edit
    /\ \/ \E i \in 1..Len(form.sources), s \in {"blank", "partial", "full"} :
            Typed("sources", [form.sources EXCEPT ![i] = s])
       \/ \E i \in 1..Len(form.sources) : Typed("sources", RemoveAt(form.sources, i))
       \/ Len(form.sources) < 2 /\ Typed("sources", Append(form.sources, "blank"))
    /\ UNCHANGED <<cr, seen>>

(* EnvRows. *)
EditEnv ==
    /\ form.open /\ Edit
    /\ \E e \in BOOLEAN : Typed("env", e)
    /\ UNCHANGED <<cr, seen>>

(* Cancel, Escape, the scrim. *)
CloseForm ==
    /\ form.open /\ form' = NoForm
    /\ UNCHANGED <<cr, seen, spent>>

(* Save: validated by the form and by the server, then the resource is       *)
(* applied whole, whatever it was meanwhile and whether it is still there    *)
(* (workspace_from_config, a forced server-side apply).                      *)
Save ==
    /\ form.open /\ Validate(form) /\ ValidateK8sConfig(ToConfig(form))
    /\ cr' = WorkspaceFromConfig(ToConfig(form)) /\ form' = NoForm
    /\ UNCHANGED <<seen, spent>>

(* Another client of the API writes or removes the workspace. *)
OtherWrites ==
    /\ spent.others < MaxOthers /\ spent' = [spent EXCEPT !.others = @ + 1]
    /\ \E ws \in Others : cr' = ws
    /\ UNCHANGED <<seen, form>>

FormNext ==
    \/ PageReads \/ OpenForm \/ EditProviders \/ EditSources \/ EditEnv \/ CloseForm \/ Save
    \/ OtherWrites \/ ListFails

(***************************************************************************)
(* Properties.                                                              *)
(***************************************************************************)
(* A resource always has a source, providers of distinct names, and a        *)
(* default that is one of them, through renames, removals and concurrent     *)
(* writes: what the form lets through, the operator can reconcile.           *)
ResourceWellFormed == cr # NoResource => WellFormed(cr)

Saved == form.open /\ ~ form'.open /\ cr' # cr
Creds(ws) == {ws.providers[i].name : i \in {j \in 1..Len(ws.providers) : ws.providers[j].cred}}

(* The providers a save strips of the Secret the page knew they had.         *)
Stripped == (Creds(cr) \cap seen.creds \cap Names(cr'.providers)) \ Creds(cr')
Padded(f) == {f.providers[i].name : i \in {j \in 1..Len(f.providers) : f.providers[j].padded}}

(* What from_summary says credentials_warning is for: a save that strips a   *)
(* provider of the Secret the page knew it had is one the page warned of,    *)
(* whatever was renamed, removed, added again or read back between. Of names *)
(* that a row spells with blanks around them the code does not keep this: it *)
(* compares them as typed and saves them trimmed.                            *)
PlainLossWarned ==
    [][Saved => Stripped \ Padded(form) \subseteq CredentialsWarning(form, seen.creds)]_formVars

Bases(ws) == {<<ws.providers[i].name, ws.providers[i].base>> : i \in 1..Len(ws.providers)}

(* An edit of one part of an up-to-date form leaves the parts that can be    *)
(* read as they were: the sources, and the providers with their base URLs.   *)
ReadableKept ==
    [][Saved /\ form.based = cr /\ cr # NoResource /\ form.touched # {} =>
          /\ "sources" \notin form.touched => cr'.sources = cr.sources
          /\ "providers" \notin form.touched => Bases(cr') = Bases(cr)
          /\ form.touched \cap {"providers", "default"} = {} => cr'.default = cr.default]_formVars

(* Whatever sequence of edits and saves, by whichever pages: the resource    *)
(* can be reconciled, a credential lost under a name typed without blanks was *)
(* announced, and what the operator did not touch and the page could read is  *)
(* kept.                                                                     *)
FormKeeps == []ResourceWellFormed /\ PlainLossWarned /\ ReadableKept

==============================================================================
