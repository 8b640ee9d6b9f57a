------------------------------- MODULE Launch -------------------------------
(***************************************************************************)
(* The start of `perps-bot run`: settings layered by perps-config, and the *)
(* gate of main.rs that picks the client by `dry_run` and --allow-live.    *)
(***************************************************************************)
EXTENDS FiniteSetsExt

CONSTANT Unset      \* a source that does not mention the key

ASSUME UnsetAssumption == Unset \notin BOOLEAN /\ Unset \notin {"valid", "garbage"}

\* The sources of load, each overriding the ones before it: default.toml,
\* RUN_ENV.toml if there is one, environment variables.  Only the two keys the
\* gate reads are kept.
Source == [dry_run : {TRUE, FALSE, Unset}, secret_key : {"valid", "garbage", Unset}]

\* The sources that mention a key.
Mentions(layers, key) == {i \in DOMAIN layers : layers[i][key] # Unset}

\* Variant with a bug: the first source that mentions a key wins.
FirstSet(layers, default, key) ==
    LET set == Mentions(layers, key)
    IN IF set = {} THEN default ELSE layers[Min(set)][key]

\* config::Config::builder: the last source that mentions a key wins.
Setting(layers, default, key) ==
    LET set == Mentions(layers, key)
    IN IF set = {} THEN default ELSE layers[Max(set)][key]

\* #[serde(default = "default_dry_run")]
DryRun(layers) == Setting(layers, TRUE, "dry_run")

\* #[serde(default)]: None
SecretKey(layers) == Setting(layers, Unset, "secret_key")

\* Variant with a bug: the configuration alone decides.
ClientByConfig(layers, allow_live) ==
    IF DryRun(layers) THEN "reader"
    ELSE IF SecretKey(layers) = "valid" THEN "signer"
    ELSE "refused"

\* HyperliquidClient::new reads only; with_signer parses the key first.
ClientFor(layers, allow_live) ==
    IF DryRun(layers) THEN "reader"
    ELSE IF allow_live /\ SecretKey(layers) = "valid" THEN "signer"
    ELSE "refused"

=============================================================================
