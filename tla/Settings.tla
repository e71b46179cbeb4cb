------------------------------ MODULE Settings ------------------------------
(***************************************************************************)
(* Settings::from_source (config.rs): which environments Waveform starts   *)
(* with.  An operator writes environment variables and starts the service, *)
(* which runs with them or refuses.                                        *)
(*                                                                         *)
(* A number is itself; a secret is its length; a URL, a flag or a text is  *)
(* the class that the checks tell apart: how a sslmode given twice in one  *)
(* database URL is read is inside "verify_full".  The waits of a speech    *)
(* request are taken from the workflow's code and not from the budgets     *)
(* that the configuration computes.                                        *)
(***************************************************************************)
EXTENDS Integers, FiniteSets

CONSTANTS
    Unset,          \* a variable that is absent or blank
    Bases,          \* the environments an operator begins with
    MaxOverrides    \* bound on the variables written afterwards

ASSUME OverridesAssumption == MaxOverrides \in Nat

VARIABLES
    env,        \* the environment
    written,    \* the variables written since
    service     \* down | running | refused

settingsVars == <<env, written, service>>
-----------------------------------------------------------------------------
(***************************************************************************)
(* The variables                                                           *)
(***************************************************************************)

\* default, minimum and maximum of the numeric variables of the server, the
\* database and the other services ...
ServiceBounds ==
    [tts_deadline |-> <<300, 1, 900>>, stt_deadline |-> <<600, 1, 900>>,
     json_body_limit |-> <<327680, 1024, 1048576>>, max_in_flight |-> <<256, 1, 10000>>,
     shutdown_timeout |-> <<30, 1, 300>>,
     max_connections |-> <<16, 1, 256>>, min_connections |-> <<1, 0, 255>>,
     acquire_timeout |-> <<3, 1, 60>>, statement_timeout |-> <<10, 1, 300>>,
     accounts_timeout |-> <<5, 1, 60>>,
     briefcase_timeout |-> <<10, 1, 120>>, download_timeout |-> <<30, 1, 300>>,
     max_download_bytes |-> <<26214400, 1024, 26214400>>]

\* ... and of speech; max_concurrency is that of any of the four providers.
SpeechBounds ==
    [gemini_tts |-> <<45, 1, 120>>, gemini_stt |-> <<180, 1, 300>>,
     elevenlabs |-> <<45, 1, 120>>, openai_tts |-> <<45, 1, 120>>,
     openai_stt |-> <<120, 1, 300>>, deepgram |-> <<120, 1, 120>>,
     max_concurrency |-> <<16, 1, 1024>>,
     audio_timeout |-> <<30, 1, 300>>, max_input_bytes |-> <<26214400, 1024, 26214400>>,
     max_output_bytes |-> <<26214400, 1024, 26214400>>, bitrate |-> <<128, 32, 320>>,
     ttl |-> <<86400, 86400, 604800>>, lease |-> <<600, 10, 3600>>,
     retry_after |-> <<2, 1, 300>>, cleanup_interval |-> <<300, 10, 86400>>,
     cleanup_batch |-> <<1000, 1, 100000>>,
     max_text_chars |-> <<4096, 1, 4096>>, max_media_bytes |-> <<26214400, 1024, 26214400>>]

Bounds ==
    [v \in DOMAIN ServiceBounds \cup DOMAIN SpeechBounds |->
        IF v \in DOMAIN ServiceBounds THEN ServiceBounds[v] ELSE SpeechBounds[v]]

\* Shortest and longest secrets; required ones have no default.  A webhook
\* secret that does not begin with whsec_ counts as empty.
SecretLengths ==
    [app_secret |-> <<1, 16384>>, digest_key |-> <<32, 1024>>, encryption_key |-> <<64, 64>>,
     webhook_secret |-> <<7, 512>>, previous_webhook_secret |-> <<7, 512>>,
     gemini_key |-> <<1, 16384>>, elevenlabs_key |-> <<1, 16384>>,
     openai_key |-> <<1, 16384>>, deepgram_key |-> <<1, 16384>>]

Required == {"app_secret", "digest_key"}
ProviderKeys == {"gemini_key", "elevenlabs_key", "openai_key", "deepgram_key"}

\* https with or without a path, http to a loopback or another host, and what
\* is no URL or has credentials, a query or a fragment.
UrlClasses == {"https", "https_path", "loopback", "http", "bad"}
ProviderUrls == {"gemini_url", "elevenlabs_url", "openai_url", "deepgram_url"}
UrlVariables == {"accounts_url", "accounts_api_url", "public_url", "briefcase_url",
                 "permanent_origin"} \cup ProviderUrls

Flags == {"require_full_chain", "log_json", "speech_fixtures", "enable_logging", "mip_opt_out"}

\* The texts and their classes; names are the models and voices.
Texts ==
    [environment |-> {"development", "test", "production", "bad"},
     database_url |-> {"verify_full", "plain", "bad"},
     bind_addr |-> {"port", "port_zero", "bad"},
     app_id |-> {"waveform", "briefcase", "bad"},
     briefcase_app_id |-> {"waveform", "briefcase", "bad"},
     app_folder |-> {"folder", "bad"}, proof_issuers |-> {"issuers", "bad"},
     ffmpeg_path |-> {"relative", "absolute"},
     names |-> {"name", "bad"}, log_filter |-> {"filter", "bad"},
     briefcase_audience |-> {"renamed"}]

Variables == DOMAIN Bounds \cup DOMAIN SecretLengths \cup UrlVariables \cup Flags \cup DOMAIN Texts

\* What an operator may write: numbers at and beyond their limits, and the
\* deadlines also half-way; secrets likewise; every class, or nothing.
Values(v) ==
    CASE v \in DOMAIN Bounds ->
            LET b == Bounds[v] IN {b[2] - 1, b[2], b[3], b[3] + 1}
              \cup (IF v \in {"tts_deadline", "stt_deadline"} THEN {600} ELSE {})
      [] v \in DOMAIN SecretLengths ->
            LET b == SecretLengths[v] IN {Unset, b[1] - 1, b[1], b[2] + 1}
      [] v \in UrlVariables -> UrlClasses
      [] v \in Flags -> {Unset, "true", "false", "bad"}
      [] v \in DOMAIN Texts -> Texts[v] \cup {Unset}
-----------------------------------------------------------------------------
(***************************************************************************)
(* Reading a variable                                                      *)
(***************************************************************************)
IsSet(e, v) == e[v] # Unset

ValueOr(e, v, default) == IF IsSet(e, v) THEN e[v] ELSE default

\* parse_or with a range: duration_seconds, usize_in_range, nonzero_u32 ...
Number(e, v) == ValueOr(e, v, Bounds[v][1])
ValidateRange(e, v) == Number(e, v) \in Bounds[v][2] .. Bounds[v][3]

\* secret_required, optional_secret.
SecretFits(e, v) ==
    IF IsSet(e, v) THEN e[v] \in SecretLengths[v][1] .. SecretLengths[v][2] ELSE v \notin Required

\* A flag with its default; anything but true and false is refused.
Flag(e, v, default) == ValueOr(e, v, default)
FlagParses(e, v) == IsSet(e, v) => e[v] \in {"true", "false"}

Environment(e) == ValueOr(e, "environment", "development")
Production(e) == Environment(e) = "production"

\* The URLs with their defaults, three of which depend on the environment.
Url(e, v) ==
    CASE v = "accounts_api_url" -> ValueOr(e, v, ValueOr(e, "accounts_url", "https"))
      [] v \in {"public_url", "briefcase_url"} ->
            ValueOr(e, v, IF Production(e) THEN "https" ELSE "loopback")
      [] OTHER -> ValueOr(e, v, "https")

\* validate_http_url, origin_url_or and accounts_origin.
HttpUrl(e, v) == Url(e, v) # "bad"
OriginUrl(e, v) == Url(e, v) \notin {"bad", "https_path"}
AccountsOrigin(e, v) ==
    \/ Url(e, v) = "https"
    \/ Url(e, v) = "loopback" /\ ~Production(e)
-----------------------------------------------------------------------------
(***************************************************************************)
(* The sections                                                            *)
(***************************************************************************)
RejectRenamedVariables(e) == ~IsSet(e, "briefcase_audience")

LoadLimits(e) == \A v \in {"max_text_chars", "max_media_bytes"} : ValidateRange(e, v)

\* The body limit must hold the longest text, every character escaped as a
\* surrogate pair.
LoadServer(e) ==
    /\ ValueOr(e, "bind_addr", "port") = "port"
    /\ \A v \in {"json_body_limit", "tts_deadline", "stt_deadline", "max_in_flight",
                 "shutdown_timeout"} : ValidateRange(e, v)
    /\ Number(e, "json_body_limit") >= 12 * Number(e, "max_text_chars") + 1024

\* Production's must verify the server's certificate.
ValidateDatabaseUrl(e) ==
    e["database_url"] \in (IF Production(e) THEN {"verify_full"} ELSE {"verify_full", "plain"})

LoadDatabase(e) ==
    /\ \A v \in {"max_connections", "acquire_timeout", "statement_timeout"} : ValidateRange(e, v)
    /\ Number(e, "min_connections") \in 0 .. Number(e, "max_connections") - 1
    /\ ValidateDatabaseUrl(e)

LoadWebhookSecret(e, v) == SecretFits(e, v)

\* ProofIssuers::parse; empty allows no app.
ProofIssuersParse(e) == ValueOr(e, "proof_issuers", "issuers") # "bad"

LoadAccounts(e) ==
    /\ AccountsOrigin(e, "accounts_url") /\ AccountsOrigin(e, "accounts_api_url")
    /\ ValueOr(e, "app_id", "waveform") # "bad"
    /\ \A v \in {"webhook_secret", "previous_webhook_secret"} : LoadWebhookSecret(e, v)
    /\ IsSet(e, "previous_webhook_secret") => IsSet(e, "webhook_secret")
    /\ ProofIssuersParse(e)
    /\ SecretFits(e, "app_secret")
    /\ ValidateRange(e, "accounts_timeout")

\* The encryption key, and what production must have besides.
LoadControl(e) ==
    /\ SecretFits(e, "encryption_key")
    /\ Production(e) => IsSet(e, "encryption_key") /\ IsSet(e, "webhook_secret")

LoadPublic(e) ==
    /\ HttpUrl(e, "public_url")
    /\ FlagParses(e, "speech_fixtures")
    /\ ~(Production(e) /\ Flag(e, "speech_fixtures", "false") = "true")

LoadBriefcase(e) ==
    /\ HttpUrl(e, "briefcase_url") /\ OriginUrl(e, "permanent_origin")
    /\ ValueOr(e, "briefcase_app_id", "briefcase") \notin {"bad", ValueOr(e, "app_id", "waveform")}
    /\ ValueOr(e, "app_folder", "folder") # "bad"
    /\ \A v \in {"briefcase_timeout", "download_timeout", "max_download_bytes"} : ValidateRange(e, v)
    /\ Number(e, "max_download_bytes") >= Number(e, "max_media_bytes")

LoadProviders(e) ==
    /\ \A v \in ProviderKeys : SecretFits(e, v)
    /\ \A v \in ProviderUrls : HttpUrl(e, v)
    /\ \A v \in {"gemini_tts", "gemini_stt", "elevenlabs", "openai_tts", "openai_stt",
                 "deepgram", "max_concurrency"} : ValidateRange(e, v)
    /\ \A v \in {"enable_logging", "mip_opt_out", "require_full_chain"} : FlagParses(e, v)
    /\ ValueOr(e, "names", "name") # "bad"

LoadAudio(e) ==
    \A v \in {"audio_timeout", "max_input_bytes", "max_output_bytes", "bitrate"} : ValidateRange(e, v)

LoadIdempotency(e) ==
    /\ SecretFits(e, "digest_key")
    /\ \A v \in {"ttl", "lease", "retry_after", "cleanup_interval", "cleanup_batch"} : ValidateRange(e, v)
    /\ Number(e, "retry_after") < Number(e, "lease")
    /\ Number(e, "lease") < Number(e, "ttl")

LoadLogging(e) == ValueOr(e, "log_filter", "filter") # "bad" /\ FlagParses(e, "log_json")

\* Faulty variant: only the TTS deadline.
ValidateTtsLease(e) == Number(e, "lease") >= Number(e, "tts_deadline")

ValidateIdempotencyLease(e) ==
    \A d \in {"tts_deadline", "stt_deadline"} : Number(e, "lease") >= Number(e, d)

OrchestrationHeadroom == 30

\* Faulty variant: one transcoding for the whole chain.
TtsBudgetOneTranscode(e) ==
    Number(e, "gemini_tts") + Number(e, "elevenlabs") + Number(e, "openai_tts")
      + Number(e, "audio_timeout") + 3 * Number(e, "accounts_timeout")
      + Number(e, "briefcase_timeout") + 2 * Number(e, "statement_timeout")
      + OrchestrationHeadroom

TtsBudget(e) ==
    Number(e, "gemini_tts") + Number(e, "elevenlabs") + Number(e, "openai_tts")
      + 3 * Number(e, "audio_timeout") + 3 * Number(e, "accounts_timeout")
      + Number(e, "briefcase_timeout") + 2 * Number(e, "statement_timeout")
      + OrchestrationHeadroom

SttBudget(e) ==
    Number(e, "gemini_stt") + Number(e, "openai_stt") + Number(e, "deepgram")
      + 3 * Number(e, "accounts_timeout")
      + Number(e, "briefcase_timeout") + Number(e, "download_timeout")
      + 2 * Number(e, "statement_timeout") + OrchestrationHeadroom

ValidateWorkflowDeadlines(e) ==
    /\ Number(e, "tts_deadline") >= TtsBudget(e)
    /\ Number(e, "stt_deadline") >= SttBudget(e)

ValidateFullProviderChain(e) == \A v \in ProviderKeys : IsSet(e, v)

\* Faulty variant: the URLs of the providers are not looked at.
OutwardOwn == UrlVariables \ ProviderUrls

\* The URLs that must use https in production.
Outward == UrlVariables

ValidateEnvironmentSafety(e) ==
    /\ Flag(e, "require_full_chain", "false") = "true" => ValidateFullProviderChain(e)
    /\ Production(e) =>
         /\ Flag(e, "require_full_chain", "false") = "true"
         /\ Flag(e, "log_json", "false") = "true"
         /\ ValueOr(e, "ffmpeg_path", "relative") = "absolute"
         /\ e["app_secret"] >= 32
         /\ \A v \in Outward : Url(e, v) \in {"https", "https_path"}

\* from_source, in the order in which the sections are read.
Accepted(e) ==
    /\ Environment(e) # "bad"
    /\ RejectRenamedVariables(e)
    /\ LoadLimits(e) /\ LoadServer(e) /\ LoadDatabase(e)
    /\ LoadAccounts(e) /\ LoadControl(e) /\ LoadPublic(e) /\ LoadBriefcase(e)
    /\ LoadProviders(e) /\ LoadAudio(e) /\ LoadIdempotency(e) /\ LoadLogging(e)
    /\ ValidateIdempotencyLease(e) /\ ValidateWorkflowDeadlines(e)
    /\ ValidateEnvironmentSafety(e)
-----------------------------------------------------------------------------
SettingsInit ==
    /\ env \in Bases
    /\ written = {}
    /\ service = "down"

Override(v, x) ==
    /\ service = "down"
    /\ Cardinality(written) < MaxOverrides
    /\ v \notin written
    /\ env' = [env EXCEPT ![v] = x]
    /\ written' = written \cup {v}
    /\ UNCHANGED service

Boot ==
    /\ service = "down"
    /\ service' = IF Accepted(env) THEN "running" ELSE "refused"
    /\ UNCHANGED <<env, written>>

SettingsNext == Boot \/ \E v \in Variables : \E x \in Values(v) : Override(v, x)

SettingsSpec == SettingsInit /\ [][SettingsNext]_settingsVars
-----------------------------------------------------------------------------
(***************************************************************************)
(* What the rest of the program relies on                                  *)
(***************************************************************************)

\* The longest waits of a request from its first instant to the end of its last
\* provider, all inside the handler's one deadline; first those on anyone but
\* the store.  The signing keys are fetched when they are stale and again for a
\* key they lack, and the first lookup of a Silicon's custodian has a limit of
\* its own.
FirstLookupWait == 2

SignInWaits(e) ==
    Number(e, "accounts_timeout") + Number(e, "accounts_timeout") + FirstLookupWait

\* Each provider, and the transcoding of what it made.
TtsRemoteWaits(e) ==
    SignInWaits(e) + Number(e, "gemini_tts") + Number(e, "audio_timeout")
      + Number(e, "elevenlabs") + Number(e, "audio_timeout")
      + Number(e, "openai_tts") + Number(e, "audio_timeout")

\* The proof of the account's storage, the download and the measuring of the
\* source, then each provider.
SttRemoteWaits(e) ==
    SignInWaits(e) + Number(e, "accounts_timeout")
      + Number(e, "download_timeout") + Number(e, "audio_timeout")
      + Number(e, "gemini_stt") + Number(e, "openai_stt") + Number(e, "deepgram")

\* A query waits for a connection of the pool, then for its statement.
Query(e) == Number(e, "acquire_timeout") + Number(e, "statement_timeout")

\* The queries of a request whose account's row is up to date: the retired
\* UUIDs, the row, the saved order, the saved keys; for TTS the preferences,
\* the language and the voice.  claim and start_job end after one
\* statement_timeout each, whatever they wait for.
TtsStoreWaits(e) ==
    Query(e) + Query(e) + Query(e) + Query(e) + Query(e) + Query(e) + Query(e)
      + Number(e, "statement_timeout") + Number(e, "statement_timeout")

\* For STT the proof's transaction: its connection, the lock, the row, the save.
SttStoreWaits(e) ==
    Query(e) + Query(e) + Query(e) + Query(e)
      + Number(e, "statement_timeout") + Number(e, "statement_timeout")
      + Number(e, "acquire_timeout") + Number(e, "statement_timeout")
      + Number(e, "statement_timeout") + Number(e, "statement_timeout")

\* What the deadlines of a service that runs do cover (validate_workflow_deadlines):
\* a request whose waits on Silicon Accounts, Briefcase, ffmpeg and the providers
\* all keep to their own limits has heard its last provider before its deadline,
\* provided that all its waits on the store together take no more than two
\* statement timeouts and the headroom.  The budget of STT leaves out the
\* measuring of the source, for which only the lookup's limit and the headroom
\* are there.  A request that waits behind the key fetches of others, or renews
\* a refused proof, waits longer.
RemoteWaitsCovered ==
    service = "running" =>
        /\ TtsRemoteWaits(env) + 2 * Number(env, "statement_timeout") + OrchestrationHeadroom
             <= Number(env, "tts_deadline")
        /\ Number(env, "audio_timeout") + FirstLookupWait
             <= Number(env, "briefcase_timeout") + OrchestrationHeadroom =>
             SttRemoteWaits(env) + 2 * Number(env, "statement_timeout")
               <= Number(env, "stt_deadline")

\* What D-032 says of them: the checks preserve "the documented fallback chain
\* under configured maximums instead of publishing a deadline that can make the
\* final fallback unreachable", so a request whose every wait, the store's
\* included, keeps to its own maximum has heard its last provider in time.
\* Fixtures in place of the providers read no saved keys.
FinalFallbackReachable ==
    service = "running" /\ Flag(env, "speech_fixtures", "false") = "false" =>
        /\ TtsRemoteWaits(env) + TtsStoreWaits(env) <= Number(env, "tts_deadline")
        /\ SttRemoteWaits(env) + SttStoreWaits(env) <= Number(env, "stt_deadline")

\* The assumptions of the other modules hold in a service that runs: the lease
\* of an operation outlives every request that may own it and ends before its
\* record (D-041, DurationsAssumption of SpeechBase), a claim refused as in
\* progress may be retried before the lease ends, permits exist
\* (ProvidersAssumption), and a connection is left when min_connections idle.
AssumptionsHold ==
    service = "running" =>
        /\ Number(env, "tts_deadline") <= Number(env, "lease")
        /\ Number(env, "stt_deadline") <= Number(env, "lease")
        /\ Number(env, "lease") < Number(env, "ttl")
        /\ Number(env, "retry_after") < Number(env, "lease")
        /\ Number(env, "max_concurrency") > 0 /\ Number(env, "max_in_flight") > 0
        /\ Number(env, "min_connections") < Number(env, "max_connections")

\* In production no credential leaves over plain http, whichever URLs are set
\* and whichever are left to their defaults, and speech is never a fixture.
ProductionIsClosed ==
    service = "running" /\ Production(env) =>
        /\ \A v \in UrlVariables : Url(env, v) \in {"https", "https_path"}
        /\ env["database_url"] = "verify_full"
        /\ Flag(env, "speech_fixtures", "false") = "false"
        /\ \A v \in ProviderKeys : IsSet(env, v)
=============================================================================
