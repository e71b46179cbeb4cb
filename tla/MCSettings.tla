----------------------------- MODULE MCSettings -----------------------------
(* Two environments and what an operator may change of them, for TLC. *)
EXTENDS Settings

\* Only what has no default.
Development ==
    [v \in Variables |->
        CASE v = "database_url" -> "plain"
          [] v = "app_secret" -> 1
          [] v = "digest_key" -> 32
          [] OTHER -> Unset]

\* Everything that production asks for.
ProductionReady ==
    [v \in Variables |->
        CASE v = "environment" -> "production"
          [] v = "database_url" -> "verify_full"
          [] v \in {"app_secret", "digest_key"} -> 32
          [] v = "encryption_key" -> 64
          [] v = "webhook_secret" -> 38
          [] v \in ProviderKeys -> 40
          [] v \in {"require_full_chain", "log_json"} -> "true"
          [] v = "ffmpeg_path" -> "absolute"
          [] OTHER -> Unset]

BothBases == {Development, ProductionReady}
=============================================================================
