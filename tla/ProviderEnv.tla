----------------------------- MODULE ProviderEnv -----------------------------
(***************************************************************************)
(* The environment of a workspace's caliband, resolved from prosperod's     *)
(* default environment and the workspace's RepoProviderConfig               *)
(* (crates/core/src/provider_env.rs). A configuration is a record:          *)
(* `provider`, `base` (base_url is set), `key` (what api_key_from_env       *)
(* refers to: nothing, a variable of prosperod's environment, or one that   *)
(* is not there) and `raw`, the raw env map.                                *)
(***************************************************************************)
EXTENDS TLC

(* provider_vars: the backends with a base-URL and an API-key variable. *)
Keyed == {"anthropic", "openai"}

(* CALIBAN_PROVIDER, and a base-URL and a key variable per provider. *)
ProviderVar == <<"PROVIDER", "any">>
BaseVar(p) == <<"BASE_URL", p>>
KeyVar(p) == <<"API_KEY", p>>

Overlay(low, high) == high @@ low
Nothing == [v \in {} |-> "unset"]
When(condition, var, value) == IF condition THEN var :> value ELSE Nothing

(* resolve_env: default_env, then the curated fields, then the raw map. *)
ResolveEnv(defaults, cfg) ==
    LET p == cfg.provider
        curated == When(p # "none", ProviderVar, p)
                   @@ When(p \in Keyed /\ cfg.base, BaseVar(p), "base_url")
                   @@ When(p \in Keyed /\ cfg.key = "set", KeyVar(p), "key")
    IN  Overlay(Overlay(defaults, curated), cfg.raw)

Has(env, var) == var \in DOMAIN env /\ env[var] # ""

(* validate_provider_env, before a spawn: the provider's key is there, or   *)
(* none is needed.                                                           *)
ValidateProviderEnv(cfg, env) ==
    cfg.provider \in Keyed => cfg.base \/ Has(env, KeyVar(cfg.provider))

(* validate_provider_config, at registration and at set: api_key_from_env is *)
(* refused where it would be ignored.                                        *)
ValidateProviderConfig(cfg) ==
    cfg.provider = "none" \/ cfg.key = "none" \/ cfg.provider \in Keyed

==============================================================================
