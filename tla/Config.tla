------------------------------- MODULE Config -------------------------------
(***************************************************************************)
(* src/hec_receiver/config.rs and the use main makes of it: settings of    *)
(* four sources are merged, validated as a whole, and then shown, checked  *)
(* or put to use.  A document is a function from the names of the settings *)
(* it has to their values, as is an entry of [[hec.tokens]].  An allow-    *)
(* list is the set of its names; texts are opaque.                         *)
(***************************************************************************)
EXTENDS Auth

CONSTANTS
  Files,      (* per path with a file: the document in it                  *)
  Clis,       (* command lines: their document, --config and what to do    *)
  Envs,       (* environments: the variables set, named by their setting   *)
  Empty,      (* a variable set to the empty text                          *)
  Malformed,  (* a variable that does not parse as its type                *)
  NoPath,     (* no --config, no HEC_CONFIG                                *)
  NoIndex,    (* None                                                      *)
  Port,       (* per text that parses as an address: its port              *)
  Durations,  (* per text that parses as a duration: the duration          *)
  NameLength, (* per well-formed index name: its length                    *)
  Levels,     (* texts that tracing's filter accepts as a level            *)
  Blank,      (* texts that trim to nothing                                *)
  Control     (* texts with an ASCII control character                     *)

VARIABLES
  step,     (* how far main is; "stopped" between two runs                 *)
  cli, env, (* the sources of this run besides the file                    *)
  config,   (* the RuntimeConfig: its settings and its token records       *)
  registry, (* the TokenRegistry of the running server                     *)
  shown     (* the document that --show-config printed                     *)

vars == <<step, cli, env, config, registry, shown>>

Timeouts == {"idle_timeout", "total_timeout"}
Sizes == {"max_bytes", "max_decoded_bytes", "max_events", "max_index_len",
          "gzip_buffer_bytes"}
Flags == {"token_enabled", "token_ack_enabled", "tracing", "console", "stats"}
Tables == {"sources", "protocol"}  \* tables of their own: merged key by key
HecTexts == {"addr", "token_id", "token", "default_index", "capture", "raw_mode"}
ObserveTexts == {"level", "format", "redaction_mode", "redaction_text"}
Settings == Timeouts \cup Sizes \cup Flags \cup Tables \cup HecTexts \cup ObserveTexts
              \cup {"allowed_indexes", "tokens"}

Nothing == [s \in {} |-> "nothing"]  \* the empty document
NoConfig == [settings |-> Nothing, tokens |-> <<>>]
NoCli == [doc |-> Nothing, file |-> NoPath, action |-> "none"]

DEFAULT_MAX_BYTES == 1000000
DEFAULT_MAX_DECODED_BYTES == 4 * DEFAULT_MAX_BYTES
DEFAULT_MAX_EVENTS == 100000
DEFAULT_MAX_INDEX_LEN == 128
DEFAULT_GZIP_BUFFER_BYTES == 8192
MIN_GZIP_BUFFER_BYTES == 512
MAX_GZIP_BUFFER_BYTES == 1048576

(* Two of the protocol codes stand for all.                                 *)
DefaultProtocol == [success |-> 0, server_busy |-> 9]

(* compiled_defaults.                                                       *)
Defaults ==
  [addr |-> "127.0.0.1:18088", token_id |-> "default", token |-> "dev-token",
   token_enabled |-> TRUE, token_ack_enabled |-> FALSE, default_index |-> "main",
   allowed_indexes |-> {"main"}, raw_mode |-> "split_lines",
   max_bytes |-> DEFAULT_MAX_BYTES, max_decoded_bytes |-> DEFAULT_MAX_DECODED_BYTES,
   max_events |-> DEFAULT_MAX_EVENTS, max_index_len |-> DEFAULT_MAX_INDEX_LEN,
   idle_timeout |-> "5s", total_timeout |-> "30s",
   gzip_buffer_bytes |-> DEFAULT_GZIP_BUFFER_BYTES,
   protocol |-> DefaultProtocol, level |-> "info",
   sources |-> [receiver |-> "info", sink |-> "warn"], format |-> "compact",
   redaction_mode |-> "redact", redaction_text |-> "<redacted>", tracing |-> TRUE,
   console |-> FALSE, stats |-> TRUE]
(* What serde, clap and env_parse make sure of: the types of the settings.  *)
IsEntry(t) ==
  /\ "secret" \in DOMAIN t => t.secret \in Texts
  /\ "enabled" \in DOMAIN t => t.enabled \in BOOLEAN

IsDocument(d) ==
  /\ \A k \in Sizes \cap DOMAIN d : d[k] \in Nat
  /\ \A k \in Flags \cap DOMAIN d : d[k] \in BOOLEAN
  /\ "token" \in DOMAIN d => d["token"] \in Texts
  /\ "tokens" \in DOMAIN d =>
       LET entries == {d["tokens"][i] : i \in DOMAIN d["tokens"]}
       IN  d["tokens"] \in Seq(entries) /\ \A t \in entries : IsEntry(t)

IsEnvironment(e) ==
  /\ \A k \in Sizes \cap DOMAIN e : e[k] \in Nat \cup {Empty, Malformed}
  /\ \A k \in Flags \cap DOMAIN e : e[k] \in BOOLEAN \cup {Empty, Malformed}
  /\ \A k \in {"token", "spank_token"} \cap DOMAIN e : e[k] \in Texts \cup {Empty}
  /\ "tokens" \notin DOMAIN e

ASSUME ConfigAssumption ==
  /\ \A p \in DOMAIN Files : IsDocument(Files[p])
  /\ \A c \in Clis : IsDocument(c.doc) /\ "tokens" \notin DOMAIN c.doc
  /\ \A e \in Envs : IsEnvironment(e)
  /\ "dev-token" \in Texts
  /\ \A t \in DOMAIN Durations : Durations[t] \in Nat
------------------------------------------------------------------------------
(* The sources.                                                             *)

Over(low, high) ==
  [k \in DOMAIN low \cup DOMAIN high |-> IF k \in DOMAIN high THEN high[k] ELSE low[k]]

MergedAdding(low, high) ==  \* variant: figment's admerge, a list is added to a list
  [k \in DOMAIN low \cup DOMAIN high |->
     IF k \in Tables /\ k \in DOMAIN low /\ k \in DOMAIN high THEN Over(low[k], high[k])
     ELSE IF k = "allowed_indexes" /\ k \in DOMAIN low /\ k \in DOMAIN high
       THEN low[k] \cup high[k]
     ELSE Over(low, high)[k]]

(* figment's merge of two documents: the later one wins, setting by setting. *)
Merged(low, high) ==
  [k \in DOMAIN low \cup DOMAIN high |->
     IF k \in Tables /\ k \in DOMAIN low /\ k \in DOMAIN high THEN Over(low[k], high[k])
     ELSE Over(low, high)[k]]

(* env_string: a variable set to the empty text counts as not set.          *)
IsSet(e, v) == v \in DOMAIN e /\ e[v] # Empty

(* ConfigDoc::from_env.  HEC_TOKEN may also be called SPANK_HEC_TOKEN, and  *)
(* an empty name between two commas is dropped.                             *)
FromEnv(e) ==
  [k \in {v \in Settings : IsSet(e, v) \/ (v = "token" /\ IsSet(e, "spank_token"))} |->
     IF k = "token" /\ ~IsSet(e, "token") THEN e.spank_token
     ELSE IF k = "allowed_indexes" THEN e[k] \ {""}
     ELSE e[k]]

EnvFault(e) ==
  \E v \in Sizes \cup Flags \cup Tables : v \in DOMAIN e /\ e[v] = Malformed

(* HEC_CONFIG before --config; figment takes a missing file for an empty one. *)
FileDoc(c, e) ==
  LET path == IF IsSet(e, "file") THEN e.file ELSE c.file
  IN  IF path \in DOMAIN Files THEN Files[path] ELSE Nothing

(* Cli::to_doc: the flags that were given, without a table of tokens.       *)
CliDoc(c) == c.doc

Document(c, e) == Merged(Merged(Merged(Defaults, FileDoc(c, e)), CliDoc(c)), FromEnv(e))
------------------------------------------------------------------------------
(* Validation: what makes to_runtime refuse a document.                     *)

Get(doc, k, default) == IF k \in DOMAIN doc THEN doc[k] ELSE default

BadSecret(s) == s = "" \/ s \in Control
ValidName(i, max) == i \in DOMAIN NameLength /\ NameLength[i] <= max

ValidIndexesUnlisted(default, allowed, max) ==  \* variant: the list is not consulted
  /\ default # NoIndex => ValidName(default, max)
  /\ \A i \in allowed : ValidName(i, max)

(* The default index and the allow-list of a token, validated together.     *)
ValidIndexes(default, allowed, max) ==
  /\ default # NoIndex => ValidName(default, max) /\ (allowed # {} => default \in allowed)
  /\ \A i \in allowed : ValidName(i, max)

(* RawMode::from_str.                                                       *)
RawMode(text) ==
  IF text \in {"split_lines", "split-lines", "lines", "line"} THEN "split_lines"
  ELSE IF text \in {"preserve_body", "preserve-body", "preserve", "body"} THEN "preserve_body"
  ELSE "unknown"

HecFault(d) ==
  \/ d.addr \notin DOMAIN Port \/ Port[d.addr] = 0
  \/ d.token_id \in Blank
  \/ BadSecret(d.token)
  \/ Get(d, "capture", "off") = ""
  \/ RawMode(d.raw_mode) = "unknown"
  \/ ~ValidIndexes(d.default_index, d.allowed_indexes, d.max_index_len)

LimitsFault(d) ==
  \/ d.max_bytes = 0
  \/ d.max_decoded_bytes < d.max_bytes
  \/ d.max_events = 0
  \/ d.max_index_len = 0
  \/ d.idle_timeout \notin DOMAIN Durations \/ Durations[d.idle_timeout] = 0
  \/ d.total_timeout \notin DOMAIN Durations
  \/ Durations[d.total_timeout] < Durations[d.idle_timeout]
  \/ d.gzip_buffer_bytes < MIN_GZIP_BUFFER_BYTES
  \/ d.gzip_buffer_bytes > MAX_GZIP_BUFFER_BYTES

ObserveFault(d) ==
  \/ d.level \notin Levels
  \/ \E s \in DOMAIN d.sources : s \in Blank \/ d.sources[s] \notin Levels
  \/ d.format \notin {"compact", "json"}
  \/ d.redaction_mode \notin {"redact", "passthrough"}
  \/ d.redaction_text = ""

(* build_runtime_tokens: the table if it has entries, else the settings     *)
(* of the one token, which are validated in either case.                    *)
Record(entry) ==
  [id |-> entry.id, secret |-> entry.secret, enabled |-> Get(entry, "enabled", TRUE),
   ack_enabled |-> Get(entry, "ack_enabled", FALSE),
   default_index |-> Get(entry, "default_index", NoIndex),
   allowed_indexes |-> Get(entry, "allowed_indexes", {})]

Table(d) == Get(d, "tokens", <<>>)

RuntimeTokens(d) ==
  IF Table(d) # <<>> THEN [i \in DOMAIN Table(d) |-> Record(Table(d)[i])]
  ELSE <<[id |-> d.token_id, secret |-> d.token, enabled |-> d.token_enabled,
          ack_enabled |-> d.token_ack_enabled, default_index |-> d.default_index,
          allowed_indexes |-> d.allowed_indexes]>>

ClashNext(tokens) ==  \* variant: a record is compared with the next one only
  \E i, j \in DOMAIN tokens :
    j = i + 1 /\ (tokens[i].id = tokens[j].id \/ tokens[i].secret = tokens[j].secret)

Clash(tokens) ==
  \E i, j \in DOMAIN tokens :
    i < j /\ (tokens[i].id = tokens[j].id \/ tokens[i].secret = tokens[j].secret)

RecordFault(t, max) ==
  \/ t.id \in Blank
  \/ BadSecret(t.secret)
  \/ ~ValidIndexes(t.default_index, t.allowed_indexes, max)

TokensFault(d) ==
  \/ \E i \in DOMAIN Table(d) : ~({"id", "secret"} \subseteq DOMAIN Table(d)[i])
  \/ \E i \in DOMAIN RuntimeTokens(d) : RecordFault(RuntimeTokens(d)[i], d.max_index_len)
  \/ Clash(RuntimeTokens(d))

(* An unknown setting is refused by serde, before validation.               *)
Fault(d) ==
  ~(DOMAIN d \subseteq Settings) \/ HecFault(d) \/ LimitsFault(d) \/ ObserveFault(d)
    \/ TokensFault(d)

ToRuntime(d) ==
  [settings |-> [k \in DOMAIN d \ {"tokens"} |->
                   IF k \in Timeouts THEN Durations[d[k]]
                   ELSE IF k = "raw_mode" THEN RawMode(d[k]) ELSE d[k]],
   tokens |-> RuntimeTokens(d)]
------------------------------------------------------------------------------
(* The text of a duration: some text that parses as it.                     *)
DurationText(n) == CHOOSE t \in DOMAIN Durations : Durations[t] = n

Hidden(c, secret, redact) == IF redact THEN c.settings.redaction_text ELSE secret

(* An entry of the table as it is printed; None is left out.                *)
ShownEntry(t, secret) ==
  [k \in {f \in DOMAIN t : f # "default_index" \/ t.default_index # NoIndex} |->
     IF k = "secret" THEN secret ELSE t[k]]

ShownTableInClear(c, redact) ==  \* variant: the secrets of the table stay
  [i \in DOMAIN c.tokens |-> ShownEntry(c.tokens[i], c.tokens[i].secret)]

ShownTable(c, redact) ==
  [i \in DOMAIN c.tokens |-> ShownEntry(c.tokens[i], Hidden(c, c.tokens[i].secret, redact))]

ShowsTableLong(c) == Len(c.tokens) > 2  \* variant: off by one

(* A table of one entry is not printed.                                     *)
ShowsTable(c) == Len(c.tokens) > 1

(* ConfigDoc::from_runtime.                                                 *)
FromRuntime(c, redact) ==
  Over([k \in DOMAIN c.settings |->
          IF k = "token" THEN Hidden(c, c.settings.token, redact)
          ELSE IF k \in Timeouts THEN DurationText(c.settings[k])
          ELSE c.settings[k]],
       IF ShowsTable(c) THEN [tokens |-> ShownTable(c, redact)] ELSE Nothing)
------------------------------------------------------------------------------
Init ==
  /\ step = "stopped"
  /\ cli = NoCli
  /\ env = Nothing
  /\ config = NoConfig
  /\ registry = Nothing
  /\ shown = Nothing

(* RuntimeConfig::load; main returns the error of a refused configuration.  *)
Load(c, e) ==
  /\ step = "stopped"
  /\ cli' = c
  /\ env' = e
  /\ UNCHANGED <<registry, shown>>
  /\ IF EnvFault(e) \/ Fault(Document(c, e))
       THEN step' = "failed" /\ UNCHANGED config
       ELSE step' = "loaded" /\ config' = ToRuntime(Document(c, e))

(* redacted_toml.                                                           *)
ShowConfig ==
  /\ step = "loaded" /\ cli.action = "show"
  /\ shown' = FromRuntime(config, config.settings.redaction_mode = "redact")
  /\ step' = "shown"
  /\ UNCHANGED <<cli, env, config, registry>>

CheckConfig ==
  /\ step = "loaded" /\ cli.action = "check"
  /\ step' = "checked"
  /\ UNCHANGED <<cli, env, config, registry, shown>>

(* The registry is built, then the address is bound, which may fail.        *)
Serve ==
  /\ step = "loaded" /\ cli.action = "run"
  /\ registry' = FromTokens(config.tokens)
  /\ step' \in {"serving", "failed"}
  /\ UNCHANGED <<cli, env, config, shown>>

(* main returns, for whatever reason; nothing is kept.                      *)
Return ==
  /\ step \in {"failed", "shown", "checked", "serving"}
  /\ step' = "stopped"
  /\ cli' = NoCli
  /\ env' = Nothing
  /\ config' = NoConfig
  /\ registry' = Nothing
  /\ shown' = Nothing

Next ==
  \/ \E c \in Clis, e \in Envs : Load(c, e)
  \/ ShowConfig
  \/ CheckConfig
  \/ Serve
  \/ Return

Spec == Init /\ [][Next]_vars
------------------------------------------------------------------------------
(* The sources named a table with entries.                                  *)
TableGiven == Table(Document(cli, env)) # <<>>

(* What the variables say that are set, by setting: the token has two, of   *)
(* which HEC_TOKEN counts first, and a list drops its empty names.          *)
Variables(e) ==
  LET set == {v \in DOMAIN e : e[v] # Empty}
      name(k) == IF k = "token" /\ "token" \notin set THEN "spank_token" ELSE k
  IN  [k \in {s \in Settings : name(s) \in set} |->
         IF k = "allowed_indexes" THEN {i \in e[k] : i # ""} ELSE e[name(k)]]

(* Of some documents, the highest first: the keys they have, and the value  *)
(* a key has in the first document that has it.                             *)
Keys(docs) == UNION {DOMAIN docs[i] : i \in DOMAIN docs}

Highest(docs, k) ==
  LET has == {i \in DOMAIN docs : k \in DOMAIN docs[i]}
  IN  docs[CHOOSE i \in has : \A j \in has : i <= j][k]

SourcesOf(c, e) == <<Variables(e), c.doc, FileDoc(c, e), Defaults>>

(* The text of a setting, as the value it stands for.                       *)
Stands(k, text) ==
  IF k \in Timeouts THEN Durations[text] ELSE IF k = "raw_mode" THEN RawMode(text) ELSE text

(* What an entry of [[hec.tokens]] leaves out is not taken from elsewhere.  *)
EntryDefaults ==
  [enabled |-> TRUE, ack_enabled |-> FALSE, default_index |-> NoIndex, allowed_indexes |-> {}]

(* The configuration has the settings that some source has, and each of     *)
(* them stands for the value in the highest source that has it: timeouts,   *)
(* the raw mode, the capture path and whole allow-lists as well; only       *)
(* levels and protocol codes are looked up one by one (load_with_cli;       *)
(* "defaults < TOML < CLI < environment").                                  *)
SettingsFromHighest ==
  LET s == config.settings
      sources == SourcesOf(cli, env)
      tables(t) == [i \in DOMAIN sources |-> Get(sources[i], t, Nothing)]
  IN  /\ DOMAIN s = Keys(sources) \ {"tokens"}
      /\ \A k \in DOMAIN s \ Tables : s[k] = Stands(k, Highest(sources, k))
      /\ \A t \in Tables :
           /\ DOMAIN s[t] = Keys(tables(t))
           /\ \A x \in DOMAIN s[t] : s[t][x] = Highest(tables(t), x)

(* The tokens in force are the entries of the file's table, if it has any,  *)
(* whatever any source says of the one token in the settings; else they are *)
(* that one token, put together from all four sources.                      *)
TokensFromHighest ==
  LET s == config.settings
      table == Table(FileDoc(cli, env))
      tokens == config.tokens
  IN  IF table = <<>>
        THEN /\ Len(tokens) = 1
             /\ tokens[1].id = s.token_id
             /\ tokens[1].secret = s.token
             /\ \A f \in DOMAIN EntryDefaults :
                  tokens[1][f] = CASE f = "enabled" -> s.token_enabled
                                   [] f = "ack_enabled" -> s.token_ack_enabled
                                   [] OTHER -> s[f]
        ELSE /\ Len(tokens) = Len(table)
             /\ \A i \in DOMAIN table :
                  \A f \in {"id", "secret"} \cup DOMAIN EntryDefaults :
                    tokens[i][f] = Over(EntryDefaults, table[i])[f]

(* Of every setting, and of the tokens in force, the highest source that    *)
(* has it decides, whichever sources leave it out.                          *)
HighestSourceRules ==
  config # NoConfig => SettingsFromHighest /\ TokensFromHighest

(* Whatever sources a configuration was put together from, it is one that   *)
(* the pipeline, the parsers and the body reader may rely on: the limits    *)
(* fit each other, and a token may write to its own default index.          *)
LimitsFit(s) ==
  /\ s.max_bytes > 0 /\ s.max_decoded_bytes >= s.max_bytes
  /\ s.max_events > 0 /\ s.gzip_buffer_bytes > 0
  /\ s.idle_timeout > 0 /\ s.total_timeout >= s.idle_timeout

IndexesFit(t, max) ==
  /\ \A name \in t.allowed_indexes : ValidName(name, max)
  /\ t.default_index # NoIndex =>
       /\ ValidName(t.default_index, max)
       /\ t.allowed_indexes # {} => t.default_index \in t.allowed_indexes

MeetsAssumptions ==
  config # NoConfig =>
    /\ LimitsFit(config.settings)
    /\ \A i \in DOMAIN config.tokens :
         IndexesFit(config.tokens[i], config.settings.max_index_len)

(* On a running server every configured token can be presented and is       *)
(* known by its own id, and a header that is taken for a token carries the  *)
(* secret of just that token, which is enabled if the request goes on.      *)
IdentifiesItsToken ==
  step = "serving" =>
    /\ \A i \in DOMAIN config.tokens :
         Authenticate(registry, [scheme |-> "Basic", secret |-> config.tokens[i].secret]).token
           = config.tokens[i].id
    /\ \A h \in Header :
         LET a == Authenticate(registry, h)
         IN  a.error \in {"none", "TokenDisabled"} =>
               \E i \in DOMAIN config.tokens :
                 /\ config.tokens[i].id = a.token
                 /\ config.tokens[i].secret = Carried(h)
                 /\ config.tokens[i].enabled <=> a.error = "none"

(* In redact mode the secret of no token, in force or not, is printed where *)
(* secrets are printed (redacted_toml).                                     *)
NoSecretShown ==
  step = "shown" /\ config.settings.redaction_mode = "redact" =>
    LET printed == {shown.token} \cup {Table(shown)[i].secret : i \in DOMAIN Table(shown)}
        secrets == {config.settings.token}
                     \cup {config.tokens[i].secret : i \in DOMAIN config.tokens}
    IN  printed \cap (secrets \ {config.settings.redaction_text}) = {}

(* What --show-config prints without redaction loads, as the only source,   *)
(* as the configuration it was printed from, but for a table of one entry.  *)
ShownReloads ==
  /\ step = "shown" /\ config.settings.redaction_mode = "passthrough"
  /\ ~(TableGiven /\ Len(config.tokens) = 1)
  => LET d == Merged(Defaults, shown)
     IN  ~Fault(d) /\ ToRuntime(d) = config

(* "render redacted effective config" (InfraHEC.md): the token ids in the   *)
(* document printed are those of the tokens in force.                       *)
ShownTokensInForce ==
  step = "shown" =>
    {RuntimeTokens(shown)[i].id : i \in DOMAIN RuntimeTokens(shown)}
      = {config.tokens[i].id : i \in DOMAIN config.tokens}
=============================================================================
