---------------------------- MODULE Config_proofs ----------------------------
(***************************************************************************)
(* What any configuration that is not refused guarantees, for all files,   *)
(* command lines and environments.                                         *)
(***************************************************************************)
EXTENDS Config, TLAPS

(* The token records of a configuration as the registry needs them.         *)
TokensSound(tokens) ==
  /\ DOMAIN tokens \subseteq Nat
  /\ \A i \in DOMAIN tokens :
       tokens[i].secret \in Texts \ {""} /\ tokens[i].enabled \in BOOLEAN
  /\ \A i, j \in DOMAIN tokens : i # j => tokens[i].secret # tokens[j].secret

Sound(c) ==
  /\ LimitsFit(c.settings)
  /\ \A i \in DOMAIN c.tokens : IndexesFit(c.tokens[i], c.settings.max_index_len)
  /\ TokensSound(c.tokens)

(* Every configuration that gets past to_runtime is sound, and a running    *)
(* server has the registry of its tokens.                                   *)
RunInv ==
  /\ config = NoConfig \/ Sound(config)
  /\ step = "loaded" => Sound(config)
  /\ step = "serving" => Sound(config) /\ registry = FromTokens(config.tokens)
------------------------------------------------------------------------------
(* Merging keeps every setting, and its type. *)
LEMMA MergedIsDocument ==
  ASSUME NEW low, NEW high, IsDocument(low), IsDocument(high)
  PROVE  /\ IsDocument(Merged(low, high))
         /\ DOMAIN Merged(low, high) = DOMAIN low \cup DOMAIN high
  <1> DEFINE m == Merged(low, high)
  <1>1. DOMAIN m = DOMAIN low \cup DOMAIN high
    BY DEF Merged
  <1>2. \A k \in DOMAIN m : k \notin Tables =>
          \/ k \in DOMAIN high /\ m[k] = high[k]
          \/ k \in DOMAIN low /\ m[k] = low[k]
    BY DEF Merged, Over
  <1>3. \A k \in Sizes \cup Flags \cup {"token", "tokens"} : k \notin Tables
    BY DEF Sizes, Flags, Tables
  <1> HIDE DEF m
  <1>4. \A k \in Sizes \cap DOMAIN m : m[k] \in Nat
    BY <1>2, <1>3 DEF IsDocument
  <1>5. \A k \in Flags \cap DOMAIN m : m[k] \in BOOLEAN
    BY <1>2, <1>3 DEF IsDocument
  <1>6. "token" \in DOMAIN m => m["token"] \in Texts
    BY <1>2, <1>3 DEF IsDocument
  <1>7. "tokens" \in DOMAIN m =>
          LET entries == {m["tokens"][i] : i \in DOMAIN m["tokens"]}
          IN  m["tokens"] \in Seq(entries) /\ \A t \in entries : IsEntry(t)
    BY <1>2, <1>3 DEF IsDocument
  <1>8. IsDocument(m)
    BY <1>4, <1>5, <1>6, <1>7 DEF IsDocument
  <1> QED
    BY <1>1, <1>8 DEF m

LEMMA DefaultsIsDocument ==
  /\ IsDocument(Defaults)
  /\ Sizes \cup Flags \cup Timeouts \cup {"token"} \subseteq DOMAIN Defaults
  <1>1. DOMAIN Defaults =
          {"addr", "token_id", "token", "token_enabled", "token_ack_enabled",
           "default_index", "allowed_indexes", "raw_mode", "max_bytes",
           "max_decoded_bytes", "max_events", "max_index_len", "idle_timeout",
           "total_timeout", "gzip_buffer_bytes", "protocol", "level", "sources",
           "format", "redaction_mode", "redaction_text", "tracing", "console", "stats"}
    BY DEF Defaults
  <1>2. Sizes \cup Flags \cup Timeouts \cup {"token"} \subseteq DOMAIN Defaults
    BY <1>1 DEF Sizes, Flags, Timeouts
  <1>3. "tokens" \notin DOMAIN Defaults
    BY <1>1
  <1>4. \A k \in Sizes : Defaults[k] \in Nat
    <2>1. /\ DEFAULT_MAX_BYTES \in Nat /\ DEFAULT_MAX_DECODED_BYTES \in Nat
          /\ DEFAULT_MAX_EVENTS \in Nat /\ DEFAULT_MAX_INDEX_LEN \in Nat
          /\ DEFAULT_GZIP_BUFFER_BYTES \in Nat
      BY SMT DEF DEFAULT_MAX_BYTES, DEFAULT_MAX_DECODED_BYTES, DEFAULT_MAX_EVENTS,
                 DEFAULT_MAX_INDEX_LEN, DEFAULT_GZIP_BUFFER_BYTES
    <2> QED
      BY <2>1 DEF Defaults, Sizes
  <1>5. \A k \in Flags : Defaults[k] \in BOOLEAN
    <2>1. /\ Defaults["token_enabled"] \in BOOLEAN /\ Defaults["token_ack_enabled"] \in BOOLEAN
          /\ Defaults["tracing"] \in BOOLEAN /\ Defaults["console"] \in BOOLEAN
          /\ Defaults["stats"] \in BOOLEAN
      BY Zenon DEF Defaults
    <2> QED
      BY <2>1 DEF Flags
  <1>6. Defaults["token"] \in Texts
    BY ConfigAssumption DEF Defaults
  <1> QED
    BY <1>2, <1>3, <1>4, <1>5, <1>6 DEF IsDocument

(* An environment that parses gives a document. *)
LEMMA EnvIsDocument ==
  ASSUME NEW e \in Envs, ~EnvFault(e)
  PROVE  IsDocument(FromEnv(e))
  <1> DEFINE d == FromEnv(e)
  <1>1. IsEnvironment(e)
    BY ConfigAssumption
  <1>2. \A k \in DOMAIN d :
          /\ IsSet(e, k) \/ (k = "token" /\ IsSet(e, "spank_token"))
          /\ d[k] = IF k = "token" /\ ~IsSet(e, "token") THEN e.spank_token
                    ELSE IF k = "allowed_indexes" THEN e[k] \ {""} ELSE e[k]
    BY DEF FromEnv
  <1> HIDE DEF d
  <1>3. \A k \in (Sizes \cup Flags) \cap DOMAIN d :
          k \in DOMAIN e /\ e[k] # Empty /\ e[k] # Malformed /\ d[k] = e[k]
    BY <1>2 DEF Sizes, Flags, IsSet, EnvFault
  <1>4. \A k \in Sizes \cap DOMAIN d : d[k] \in Nat
    BY <1>1, <1>3 DEF IsEnvironment
  <1>5. \A k \in Flags \cap DOMAIN d : d[k] \in BOOLEAN
    BY <1>1, <1>3 DEF IsEnvironment
  <1>6. "token" \in DOMAIN d => d["token"] \in Texts
    BY <1>1, <1>2 DEF IsEnvironment, IsSet
  <1>7. "tokens" \notin DOMAIN d
    BY <1>1, <1>2 DEF IsEnvironment, IsSet
  <1> QED
    BY <1>4, <1>5, <1>6, <1>7 DEF IsDocument, d

(* The merged document of a run is typed and has every default. *)
LEMMA RunDocument ==
  ASSUME NEW c \in Clis, NEW e \in Envs, ~EnvFault(e)
  PROVE  /\ IsDocument(Document(c, e))
         /\ Sizes \cup Flags \cup Timeouts \cup {"token"} \subseteq DOMAIN Document(c, e)
  <1>1. IsDocument(FileDoc(c, e))
    <2>1. IsDocument(Nothing)
      BY DEF Nothing, IsDocument
    <2> QED
      BY <2>1, ConfigAssumption DEF FileDoc
  <1>2. IsDocument(c.doc)
    BY ConfigAssumption
  <1>3. IsDocument(FromEnv(e))
    BY EnvIsDocument
  <1> DEFINE withFile == Merged(Defaults, FileDoc(c, e))
             withCli == Merged(withFile, c.doc)
  <1>4. IsDocument(withFile) /\ DOMAIN Defaults \subseteq DOMAIN withFile
    BY <1>1, DefaultsIsDocument, MergedIsDocument
  <1> HIDE DEF withFile
  <1>5. IsDocument(withCli) /\ DOMAIN Defaults \subseteq DOMAIN withCli
    BY <1>2, <1>4, MergedIsDocument
  <1> HIDE DEF withCli
  <1>6. IsDocument(Merged(withCli, FromEnv(e)))
        /\ DOMAIN Defaults \subseteq DOMAIN Merged(withCli, FromEnv(e))
    BY <1>3, <1>5, MergedIsDocument
  <1> QED
    BY <1>6, DefaultsIsDocument DEF Document, CliDoc, withCli, withFile
------------------------------------------------------------------------------
(* What is validated with ValidIndexes fits. *)
LEMMA ValidIndexesFit ==
  ASSUME NEW t, NEW max, ValidIndexes(t.default_index, t.allowed_indexes, max)
  PROVE  IndexesFit(t, max)
  BY DEF ValidIndexes, IndexesFit

(* The records made from a typed document that is not refused. *)
LEMMA TokensOfDocument ==
  ASSUME NEW d, IsDocument(d), Sizes \cup Flags \cup {"token"} \subseteq DOMAIN d,
         ~TokensFault(d)
  PROVE  /\ TokensSound(RuntimeTokens(d))
         /\ \A i \in DOMAIN RuntimeTokens(d) : IndexesFit(RuntimeTokens(d)[i], d.max_index_len)
  <1> DEFINE tokens == RuntimeTokens(d)
  <1>1. \A i \in DOMAIN tokens : ~RecordFault(tokens[i], d.max_index_len)
    BY DEF TokensFault
  <1>2. ~Clash(tokens)
    BY DEF TokensFault
  <1>3. /\ DOMAIN tokens \subseteq Nat
        /\ \A i \in DOMAIN tokens :
             tokens[i].secret \in Texts /\ tokens[i].enabled \in BOOLEAN
    <2>1. CASE Table(d) # <<>>
      <3>1. "tokens" \in DOMAIN d /\ Table(d) = d["tokens"]
        BY <2>1 DEF Table, Get
      <3>2. /\ DOMAIN Table(d) \subseteq Nat
            /\ \A i \in DOMAIN Table(d) : IsEntry(Table(d)[i])
        BY <3>1 DEF IsDocument
      <3>3. \A i \in DOMAIN Table(d) : "secret" \in DOMAIN Table(d)[i]
        BY DEF TokensFault
      <3>4. tokens = [i \in DOMAIN Table(d) |-> Record(Table(d)[i])]
        BY <2>1 DEF RuntimeTokens
      <3>5. \A i \in DOMAIN Table(d) :
              /\ Record(Table(d)[i]).secret \in Texts
              /\ Record(Table(d)[i]).enabled \in BOOLEAN
        BY <3>2, <3>3 DEF Record, IsEntry, Get
      <3> QED
        BY <3>2, <3>4, <3>5
    <2>2. CASE Table(d) = <<>>
      <3>1. d["token"] \in Texts /\ d["token_enabled"] \in BOOLEAN
        BY DEF IsDocument, Flags
      <3>2. DOMAIN tokens = {1} /\ tokens[1].secret = d.token
            /\ tokens[1].enabled = d.token_enabled
        BY <2>2 DEF RuntimeTokens
      <3> QED
        BY <3>1, <3>2
    <2> QED
      BY <2>1, <2>2
  <1> HIDE DEF tokens
  <1>4. \A i \in DOMAIN tokens : tokens[i].secret # ""
    BY <1>1 DEF RecordFault, BadSecret
  <1>5. \A i, j \in DOMAIN tokens : i # j => tokens[i].secret # tokens[j].secret
    <2> SUFFICES ASSUME NEW i \in DOMAIN tokens, NEW j \in DOMAIN tokens, i # j
                 PROVE  tokens[i].secret # tokens[j].secret
      OBVIOUS
    <2>1. i < j \/ j < i
      BY <1>3
    <2> QED
      BY <1>2, <2>1 DEF Clash
  <1>6. \A i \in DOMAIN tokens : IndexesFit(tokens[i], d.max_index_len)
    BY <1>1, ValidIndexesFit DEF RecordFault
  <1> QED
    BY <1>3, <1>4, <1>5, <1>6 DEF TokensSound, tokens

(* A document that is not refused becomes a sound configuration. *)
LEMMA RuntimeSound ==
  ASSUME NEW c \in Clis, NEW e \in Envs, ~EnvFault(e), ~Fault(Document(c, e))
  PROVE  Sound(ToRuntime(Document(c, e)))
  <1> DEFINE d == Document(c, e)
             r == ToRuntime(d)
  <1>1. /\ IsDocument(d)
        /\ Sizes \cup Flags \cup Timeouts \cup {"token"} \subseteq DOMAIN d
    BY RunDocument
  <1>2. ~LimitsFault(d) /\ ~TokensFault(d)
    BY DEF Fault
  <1> HIDE DEF d
  <1>3. /\ \A k \in Sizes : r.settings[k] = d[k] /\ d[k] \in Nat
        /\ \A k \in Timeouts : r.settings[k] = Durations[d[k]]
        /\ r.tokens = RuntimeTokens(d)
    BY <1>1 DEF ToRuntime, Sizes, Timeouts, IsDocument
  <1>4. Durations[d.idle_timeout] \in Nat /\ Durations[d.total_timeout] \in Nat
    BY <1>2, ConfigAssumption DEF LimitsFault
  <1> DEFINE s == r.settings
  <1>5. /\ s.max_bytes = d.max_bytes /\ d.max_bytes \in Nat
        /\ s.max_decoded_bytes = d.max_decoded_bytes /\ d.max_decoded_bytes \in Nat
        /\ s.max_events = d.max_events /\ d.max_events \in Nat
        /\ s.gzip_buffer_bytes = d.gzip_buffer_bytes /\ d.gzip_buffer_bytes \in Nat
        /\ s.max_index_len = d.max_index_len
        /\ s.idle_timeout = Durations[d.idle_timeout]
        /\ s.total_timeout = Durations[d.total_timeout]
    BY <1>3 DEF Sizes, Timeouts
  <1>6. d.gzip_buffer_bytes > 0
    <2>1. ~(d.gzip_buffer_bytes < MIN_GZIP_BUFFER_BYTES)
      BY <1>2 DEF LimitsFault
    <2> QED
      BY <1>5, <2>1 DEF MIN_GZIP_BUFFER_BYTES
  <1> HIDE DEF r, s
  <1>7. LimitsFit(s)
    BY <1>2, <1>4, <1>5, <1>6 DEF LimitsFault, LimitsFit
  <1>8. /\ TokensSound(r.tokens)
        /\ \A i \in DOMAIN r.tokens : IndexesFit(r.tokens[i], s.max_index_len)
    BY <1>1, <1>2, <1>3, <1>5, TokensOfDocument
  <1> QED
    BY <1>7, <1>8 DEF Sound, s, r, d
------------------------------------------------------------------------------
LEMMA RunInvInit == Init => RunInv
  BY DEF Init, RunInv

LEMMA RunInvNext == RunInv /\ [Next]_vars => RunInv'
  <1> SUFFICES ASSUME RunInv, [Next]_vars
               PROVE  RunInv'
    OBVIOUS
  <1>1. ASSUME NEW c \in Clis, NEW e \in Envs, Load(c, e)
        PROVE  RunInv'
    <2>1. CASE EnvFault(e) \/ Fault(Document(c, e))
      BY <1>1, <2>1 DEF Load, RunInv
    <2>2. CASE ~(EnvFault(e) \/ Fault(Document(c, e)))
      <3>1. step' = "loaded" /\ config' = ToRuntime(Document(c, e))
        BY <1>1, <2>2 DEF Load
      <3>2. Sound(config')
        BY <2>2, <3>1, RuntimeSound
      <3> QED
        BY <3>1, <3>2 DEF RunInv
    <2> QED
      BY <2>1, <2>2
  <1>2. CASE ShowConfig
    BY <1>2 DEF ShowConfig, RunInv
  <1>3. CASE CheckConfig
    BY <1>3 DEF CheckConfig, RunInv
  <1>4. CASE Serve
    BY <1>4 DEF Serve, RunInv
  <1>5. CASE Return
    BY <1>5 DEF Return, RunInv
  <1>6. CASE UNCHANGED vars
    BY <1>6 DEF vars, RunInv
  <1> QED
    BY <1>1, <1>2, <1>3, <1>4, <1>5, <1>6 DEF Next

LEMMA RunInvariant == Spec => []RunInv
  BY RunInvInit, RunInvNext, PTL DEF Spec
------------------------------------------------------------------------------
(* The registry has every secret, and under it the only token with it. *)
LEMMA RegistryOfTokens ==
  ASSUME NEW tokens, TokensSound(tokens)
  PROVE  LET registry0 == FromTokens(tokens)
         IN  /\ DOMAIN registry0 = {tokens[i].secret : i \in DOMAIN tokens}
             /\ \A i \in DOMAIN tokens : registry0[tokens[i].secret] = tokens[i]
  <1> DEFINE kept == {i \in DOMAIN tokens : tokens[i].secret # ""}
             IsLast(s, i) == /\ tokens[i].secret = s
                             /\ \A j \in kept : tokens[j].secret = s => j <= i
             last(s) == CHOOSE i \in kept : IsLast(s, i)
  <1>1. kept = DOMAIN tokens
    BY DEF TokensSound
  <1>2. FromTokens(tokens) = [s \in {tokens[i].secret : i \in kept} |-> tokens[last(s)]]
    BY DEF FromTokens
  <1>3. ASSUME NEW i \in DOMAIN tokens
        PROVE  last(tokens[i].secret) = i
    <2>1. i \in kept /\ IsLast(tokens[i].secret, i)
      <3>1. \A j \in kept : tokens[j].secret = tokens[i].secret => j = i
        BY <1>1 DEF TokensSound
      <3>2. i \in Nat
        BY DEF TokensSound
      <3>3. i <= i
        BY <3>2
      <3>4. \A j \in kept : tokens[j].secret = tokens[i].secret => j <= i
        BY <3>1, <3>3, Zenon
      <3> QED
        BY <1>1, <3>4, Zenon
    <2>2. \A j \in kept : IsLast(tokens[i].secret, j) => j = i
      BY <1>1 DEF TokensSound
    <2> HIDE DEF kept, IsLast
    <2> QED
      BY <2>1, <2>2
  <1> HIDE DEF last
  <1> QED
    BY <1>1, <1>2, <1>3

(* MeetsAssumptions for every file, command line and environment: what the  *)
(* other modules assume of limits and tokens is what to_runtime accepts.    *)
THEOREM AssumptionsMet == Spec => []MeetsAssumptions
  <1>1. RunInv => MeetsAssumptions
    BY DEF RunInv, Sound, MeetsAssumptions
  <1> QED
    BY <1>1, RunInvariant, PTL

(* IdentifiesItsToken for every configuration that is accepted: unique      *)
(* secrets and ids are enough for the registry to lose and confuse nothing. *)
THEOREM TokensIdentified == Spec => []IdentifiesItsToken
  <1>1. ASSUME RunInv, step = "serving"
        PROVE  IdentifiesItsToken
    <2>1. TokensSound(config.tokens) /\ registry = FromTokens(config.tokens)
      BY <1>1 DEF RunInv, Sound
    <2>2. /\ DOMAIN registry = {config.tokens[i].secret : i \in DOMAIN config.tokens}
          /\ \A i \in DOMAIN config.tokens :
               registry[config.tokens[i].secret] = config.tokens[i]
      BY <2>1, RegistryOfTokens
    <2>3. ASSUME NEW i \in DOMAIN config.tokens
          PROVE  Authenticate(registry, [scheme |-> "Basic",
                                         secret |-> config.tokens[i].secret]).token
                   = config.tokens[i].id
      <3> DEFINE h == [scheme |-> "Basic", secret |-> config.tokens[i].secret]
      <3>1. h.secret \notin {Garbled, ""}
        BY <2>1, AuthAssumption DEF TokensSound
      <3>2. HeaderError(h) = "none" /\ Carried(h) = config.tokens[i].secret
        BY <3>1 DEF HeaderError, Carried
      <3> HIDE DEF h
      <3>3. Authenticate(registry, h).token = config.tokens[i].id
        BY <2>2, <3>2 DEF Authenticate
      <3> QED
        BY <3>3 DEF h
    <2>4. ASSUME NEW h \in Header,
                 Authenticate(registry, h).error \in {"none", "TokenDisabled"}
          PROVE  \E i \in DOMAIN config.tokens :
                   /\ config.tokens[i].id = Authenticate(registry, h).token
                   /\ config.tokens[i].secret = Carried(h)
                   /\ config.tokens[i].enabled <=> Authenticate(registry, h).error = "none"
      <3>1. HeaderError(h) = "none"
        BY <2>4 DEF Authenticate, HeaderError
      <3>2. Carried(h) \in DOMAIN registry
        BY <2>4, <3>1 DEF Authenticate
      <3>3. PICK i \in DOMAIN config.tokens : config.tokens[i].secret = Carried(h)
        BY <2>2, <3>2
      <3>4. registry[Carried(h)] = config.tokens[i]
        BY <2>2, <3>3
      <3>5. Authenticate(registry, h)
              = [error |-> IF config.tokens[i].enabled THEN "none" ELSE "TokenDisabled",
                 token |-> config.tokens[i].id]
        BY <3>1, <3>2, <3>4 DEF Authenticate
      <3>6. config.tokens[i].enabled \in BOOLEAN
        BY <2>1 DEF TokensSound
      <3> QED
        BY <3>3, <3>5, <3>6
    <2> QED
      BY <2>3, <2>4 DEF IdentifiesItsToken
  <1>2. RunInv => IdentifiesItsToken
    BY <1>1 DEF IdentifiesItsToken
  <1> QED
    BY <1>2, RunInvariant, PTL
------------------------------------------------------------------------------
(* A configuration is what its own sources were put together to, and what   *)
(* is printed was made from it.                                             *)
Made ==
  /\ cli \in Clis /\ env \in Envs
  /\ ~EnvFault(env) /\ ~Fault(Document(cli, env))
  /\ config = ToRuntime(Document(cli, env))

MadeInv ==
  /\ config = NoConfig \/ Made
  /\ step = "stopped" => config = NoConfig
  /\ step \in {"loaded", "shown"} => Made
  /\ step = "shown" =>
       shown = FromRuntime(config, config.settings.redaction_mode = "redact")

LEMMA MadeInvariant == Spec => []MadeInv
  <1>1. Init => MadeInv
    BY DEF Init, MadeInv
  <1>2. MadeInv /\ [Next]_vars => MadeInv'
    <2> SUFFICES ASSUME MadeInv, [Next]_vars
                 PROVE  MadeInv'
      OBVIOUS
    <2>1. ASSUME NEW c \in Clis, NEW e \in Envs, Load(c, e)
          PROVE  MadeInv'
      <3>1. cli' = c /\ env' = e /\ step = "stopped"
        BY <2>1 DEF Load
      <3>2. CASE EnvFault(e) \/ Fault(Document(c, e))
        <4>1. step' = "failed" /\ config' = NoConfig
          BY <2>1, <3>1, <3>2 DEF Load, MadeInv
        <4> QED
          BY <4>1 DEF MadeInv
      <3>3. CASE ~(EnvFault(e) \/ Fault(Document(c, e)))
        <4>1. step' = "loaded" /\ config' = ToRuntime(Document(c, e))
          BY <2>1, <3>3 DEF Load
        <4>2. Document(cli, env)' = Document(c, e) /\ EnvFault(env)' = EnvFault(e)
              /\ Fault(Document(cli, env))' = Fault(Document(c, e))
          BY <3>1
        <4>3. Made'
          BY <3>1, <3>3, <4>1, <4>2 DEF Made
        <4> QED
          BY <4>1, <4>3 DEF MadeInv
      <3> QED
        BY <3>2, <3>3
    <2>2. ASSUME UNCHANGED <<cli, env, config>> PROVE Made' = Made
      BY <2>2 DEF Made
    <2>3. CASE ShowConfig
      BY <2>2, <2>3 DEF ShowConfig, MadeInv
    <2>4. CASE CheckConfig
      BY <2>2, <2>4 DEF CheckConfig, MadeInv
    <2>5. CASE Serve
      BY <2>2, <2>5 DEF Serve, MadeInv
    <2>6. CASE Return
      BY <2>6 DEF Return, MadeInv
    <2>7. CASE UNCHANGED vars
      BY <2>2, <2>7 DEF vars, MadeInv
    <2> QED
      BY <2>1, <2>3, <2>4, <2>5, <2>6, <2>7 DEF Next
  <1> QED
    BY <1>1, <1>2, PTL DEF Spec
------------------------------------------------------------------------------
(* Merging is done setting by setting, and for a table code by code, level  *)
(* by level.                                                                *)
PartOf(doc, t) == Get(doc, t, Nothing)

Lays(m, low, high) ==
  /\ DOMAIN m = DOMAIN low \cup DOMAIN high
  /\ \A k \in DOMAIN m \ Tables : m[k] = IF k \in DOMAIN high THEN high[k] ELSE low[k]

LaysTable(t, m, low, high) ==
  /\ t \in DOMAIN m
  /\ DOMAIN m[t] = DOMAIN low[t] \cup DOMAIN PartOf(high, t)
  /\ \A x \in DOMAIN m[t] :
       m[t][x] = IF x \in DOMAIN PartOf(high, t) THEN PartOf(high, t)[x] ELSE low[t][x]

LEMMA MergedRules ==
  ASSUME NEW low, NEW high
  PROVE  Lays(Merged(low, high), low, high)
  BY DEF Merged, Over, Lays

LEMMA MergedTables ==
  ASSUME NEW t \in Tables, NEW low, NEW high, t \in DOMAIN low
  PROVE  LaysTable(t, Merged(low, high), low, high)
  <1> DEFINE m == Merged(low, high)
  <1>1. t \in DOMAIN m
    BY DEF Merged
  <1>2. CASE t \in DOMAIN high
    <2>1. m[t] = Over(low[t], high[t])
      BY <1>2 DEF Merged
    <2>2. PartOf(high, t) = high[t]
      BY <1>2 DEF PartOf, Get
    <2> QED
      BY <1>1, <2>1, <2>2 DEF Over, LaysTable
  <1>3. CASE t \notin DOMAIN high
    <2>1. m[t] = low[t]
      BY <1>3 DEF Merged, Over
    <2>2. DOMAIN PartOf(high, t) = {}
      BY <1>3 DEF PartOf, Get, Nothing
    <2> QED
      BY <1>1, <2>1, <2>2 DEF LaysTable
  <1> QED
    BY <1>2, <1>3

(* The first of four documents that has a key has the highest value of it.  *)
LEMMA HighestOfFour ==
  ASSUME NEW a, NEW b, NEW c, NEW d, NEW docs, docs = <<a, b, c, d>>
  PROVE  /\ Keys(docs) = DOMAIN a \cup DOMAIN b \cup DOMAIN c \cup DOMAIN d
         /\ \A k \in Keys(docs) :
              Highest(docs, k) = IF k \in DOMAIN a THEN a[k]
                                 ELSE IF k \in DOMAIN b THEN b[k]
                                 ELSE IF k \in DOMAIN c THEN c[k] ELSE d[k]
  <1>1. DOMAIN docs = 1..4 /\ docs[1] = a /\ docs[2] = b /\ docs[3] = c /\ docs[4] = d
    OBVIOUS
  <1>2. Keys(docs) = DOMAIN a \cup DOMAIN b \cup DOMAIN c \cup DOMAIN d
    BY <1>1 DEF Keys
  <1>3. ASSUME NEW k \in Keys(docs)
        PROVE  Highest(docs, k) = IF k \in DOMAIN a THEN a[k]
                                  ELSE IF k \in DOMAIN b THEN b[k]
                                  ELSE IF k \in DOMAIN c THEN c[k] ELSE d[k]
    <2> DEFINE has == {i \in DOMAIN docs : k \in DOMAIN docs[i]}
               first == CHOOSE i \in has : \A j \in has : i <= j
    <2>1. \A i : i \in has <=> \/ i = 1 /\ k \in DOMAIN a
                               \/ i = 2 /\ k \in DOMAIN b
                               \/ i = 3 /\ k \in DOMAIN c
                               \/ i = 4 /\ k \in DOMAIN d
      BY <1>1
    <2>2. Highest(docs, k) = docs[first][k]
      BY DEF Highest
    <2> HIDE DEF has
    <2>3. \E i \in has : \A j \in has : i <= j
      <3>1. CASE k \in DOMAIN a
        BY <2>1, <3>1
      <3>2. CASE k \notin DOMAIN a /\ k \in DOMAIN b
        BY <2>1, <3>2
      <3>3. CASE k \notin DOMAIN a /\ k \notin DOMAIN b /\ k \in DOMAIN c
        BY <2>1, <3>3
      <3>4. CASE k \notin DOMAIN a /\ k \notin DOMAIN b /\ k \notin DOMAIN c
        <4>1. k \in DOMAIN d
          BY <1>2, <3>4
        <4> QED
          BY <2>1, <3>4, <4>1
      <3> QED
        BY <3>1, <3>2, <3>3, <3>4
    <2>4. first \in has /\ \A j \in has : first <= j
      BY <2>3
    <2> HIDE DEF first
    <2>5. first = IF k \in DOMAIN a THEN 1 ELSE IF k \in DOMAIN b THEN 2
                  ELSE IF k \in DOMAIN c THEN 3 ELSE 4
      BY <2>1, <2>4
    <2> QED
      BY <1>1, <2>2, <2>5
  <1> QED
    BY <1>2, <1>3

(* What the environment gives is what its variables say that are set.       *)
LEMMA VariablesGiven ==
  ASSUME NEW e
  PROVE  Variables(e) = FromEnv(e)
  <1> DEFINE set == {v \in DOMAIN e : e[v] # Empty}
             name(k) == IF k = "token" /\ "token" \notin set THEN "spank_token" ELSE k
             value(k) == IF k = "allowed_indexes" THEN {i \in e[k] : i # ""} ELSE e[name(k)]
             given == {v \in Settings : IsSet(e, v) \/ (v = "token" /\ IsSet(e, "spank_token"))}
             gives(k) == IF k = "token" /\ ~IsSet(e, "token") THEN e.spank_token
                         ELSE IF k = "allowed_indexes" THEN e[k] \ {""} ELSE e[k]
  <1>1. \A v : v \in set <=> IsSet(e, v)
    BY DEF IsSet
  <1>2. {k \in Settings : name(k) \in set} = given
    BY <1>1
  <1>3. \A k : value(k) = gives(k)
    <2>1. {i \in e["allowed_indexes"] : i # ""} = e["allowed_indexes"] \ {""}
      OBVIOUS
    <2> HIDE DEF set
    <2> QED
      BY <1>1, <2>1
  <1>4. Variables(e) = [k \in {s \in Settings : name(s) \in set} |-> value(k)]
    BY DEF Variables
  <1>5. FromEnv(e) = [k \in given |-> gives(k)]
    BY DEF FromEnv
  <1> HIDE DEF value, gives, given, name, set
  <1> QED
    BY <1>2, <1>3, <1>4, <1>5

(* Every setting of the merged document, and every code and level, is that  *)
(* of the highest source that has it.                                       *)
Ruled(d, sources) ==
  /\ DOMAIN d = Keys(sources)
  /\ \A k \in DOMAIN d \ Tables : d[k] = Highest(sources, k)
  /\ \A t \in Tables :
       LET tables == [i \in DOMAIN sources |-> Get(sources[i], t, Nothing)]
       IN  /\ DOMAIN d[t] = Keys(tables)
           /\ \A x \in DOMAIN d[t] : d[t][x] = Highest(tables, x)

LEMMA DocumentRules ==
  ASSUME NEW c, NEW e, NEW d, d = Document(c, e)
  PROVE  /\ DOMAIN Defaults \subseteq DOMAIN d
         /\ Ruled(d, SourcesOf(c, e))
  <1>1. PICK f, v : f = FileDoc(c, e) /\ v = FromEnv(e)
    OBVIOUS
  <1>2. PICK withFile, withCli :
          /\ withFile = Merged(Defaults, f) /\ withCli = Merged(withFile, c.doc)
          /\ d = Merged(withCli, v)
    BY <1>1 DEF Document, CliDoc
  <1>3. PICK sources : sources = SourcesOf(c, e) /\ sources = <<v, c.doc, f, Defaults>>
    BY <1>1, VariablesGiven DEF SourcesOf
  <1>4. Lays(withFile, Defaults, f) /\ Lays(withCli, withFile, c.doc) /\ Lays(d, withCli, v)
    BY <1>2, MergedRules
  <1>5. DOMAIN d = DOMAIN v \cup DOMAIN c.doc \cup DOMAIN f \cup DOMAIN Defaults
    BY <1>4 DEF Lays
  <1>6. DOMAIN d = Keys(sources)
    BY <1>3, <1>5, HighestOfFour
  <1>7. ASSUME NEW k \in DOMAIN d \ Tables
        PROVE  d[k] = Highest(sources, k)
    <2>1. d[k] = IF k \in DOMAIN v THEN v[k] ELSE withCli[k]
      BY <1>4 DEF Lays
    <2>2. k \in DOMAIN withCli =>
            withCli[k] = IF k \in DOMAIN c.doc THEN c.doc[k] ELSE withFile[k]
      BY <1>4 DEF Lays
    <2>3. k \in DOMAIN withFile =>
            withFile[k] = IF k \in DOMAIN f THEN f[k] ELSE Defaults[k]
      BY <1>4 DEF Lays
    <2>4. /\ k \in DOMAIN v \/ k \in DOMAIN withCli
          /\ k \in DOMAIN withCli => k \in DOMAIN c.doc \/ k \in DOMAIN withFile
      BY <1>4 DEF Lays
    <2>5. d[k] = IF k \in DOMAIN v THEN v[k] ELSE IF k \in DOMAIN c.doc THEN c.doc[k]
                 ELSE IF k \in DOMAIN f THEN f[k] ELSE Defaults[k]
      BY <2>1, <2>2, <2>3, <2>4
    <2> QED
      BY <1>3, <1>6, <2>5, HighestOfFour
  <1>8. ASSUME NEW t \in Tables
        PROVE  LET tables == [i \in DOMAIN sources |-> Get(sources[i], t, Nothing)]
               IN  /\ DOMAIN d[t] = Keys(tables)
                   /\ \A x \in DOMAIN d[t] : d[t][x] = Highest(tables, x)
    <2> DEFINE tables == [i \in DOMAIN sources |-> Get(sources[i], t, Nothing)]
    <2>1. t \in DOMAIN Defaults
      BY DEF Defaults, Tables
    <2>2. LaysTable(t, withFile, Defaults, f)
      BY <1>2, <2>1, MergedTables
    <2>3. LaysTable(t, withCli, withFile, c.doc)
      BY <1>2, <2>2, MergedTables DEF LaysTable
    <2>4. LaysTable(t, d, withCli, v)
      BY <1>2, <2>3, MergedTables DEF LaysTable
    <2>5. tables = <<PartOf(v, t), PartOf(c.doc, t), PartOf(f, t), PartOf(Defaults, t)>>
      BY <1>3 DEF PartOf
    <2>6. PartOf(Defaults, t) = Defaults[t]
      BY <2>1 DEF PartOf, Get
    <2>7. PICK pv, pc, pf, pd : /\ pv = PartOf(v, t) /\ pc = PartOf(c.doc, t)
                                /\ pf = PartOf(f, t) /\ pd = Defaults[t]
      OBVIOUS
    <2>8. tables = <<pv, pc, pf, pd>>
      BY <2>5, <2>6, <2>7
    <2> HIDE DEF tables
    <2>9. DOMAIN d[t] = DOMAIN pv \cup DOMAIN pc \cup DOMAIN pf \cup DOMAIN pd
      BY <2>2, <2>3, <2>4, <2>7 DEF LaysTable
    <2>10. DOMAIN d[t] = Keys(tables)
      BY <2>8, <2>9, HighestOfFour
    <2>11. ASSUME NEW x \in DOMAIN d[t]
           PROVE  d[t][x] = Highest(tables, x)
      <3>1. d[t][x] = IF x \in DOMAIN pv THEN pv[x] ELSE withCli[t][x]
        BY <2>4, <2>7 DEF LaysTable
      <3>2. x \in DOMAIN withCli[t] =>
              withCli[t][x] = IF x \in DOMAIN pc THEN pc[x] ELSE withFile[t][x]
        BY <2>3, <2>7 DEF LaysTable
      <3>3. x \in DOMAIN withFile[t] =>
              withFile[t][x] = IF x \in DOMAIN pf THEN pf[x] ELSE pd[x]
        BY <2>2, <2>7 DEF LaysTable
      <3>4. /\ x \in DOMAIN pv \/ x \in DOMAIN withCli[t]
            /\ x \in DOMAIN withCli[t] => x \in DOMAIN pc \/ x \in DOMAIN withFile[t]
        BY <2>3, <2>4, <2>7 DEF LaysTable
      <3>5. d[t][x] = IF x \in DOMAIN pv THEN pv[x] ELSE IF x \in DOMAIN pc THEN pc[x]
                      ELSE IF x \in DOMAIN pf THEN pf[x] ELSE pd[x]
        BY <3>1, <3>2, <3>3, <3>4
      <3> QED
        BY <2>8, <2>10, <3>5, HighestOfFour
    <2> QED
      BY <2>10, <2>11 DEF tables
  <1> QED
    BY <1>3, <1>5, <1>6, <1>7, <1>8 DEF Ruled
------------------------------------------------------------------------------
(* The settings of a configuration are those of its document, but for       *)
(* durations, the raw mode and the table of tokens.                         *)
LEMMA SettingsKept ==
  ASSUME NEW d
  PROVE  /\ DOMAIN ToRuntime(d).settings = DOMAIN d \ {"tokens"}
         /\ \A k \in DOMAIN d \ {"tokens"} : ToRuntime(d).settings[k] = Stands(k, d[k])
         /\ ToRuntime(d).tokens = RuntimeTokens(d)
  BY DEF ToRuntime, Stands

(* Only the file has a table of tokens, so that the merged document has it. *)
LEMMA TableOfFile ==
  ASSUME NEW c \in Clis, NEW e \in Envs
  PROVE  Table(Document(c, e)) = Table(FileDoc(c, e))
  <1>1. PICK d, f, v : d = Document(c, e) /\ f = FileDoc(c, e) /\ v = FromEnv(e)
    OBVIOUS
  <1>2. "tokens" \notin DOMAIN c.doc
    BY ConfigAssumption
  <1>3. "tokens" \notin DOMAIN v
    <2>1. "tokens" \notin DOMAIN e
      BY ConfigAssumption DEF IsEnvironment
    <2> QED
      BY <1>1, <2>1 DEF FromEnv, IsSet
  <1>4. "tokens" \notin DOMAIN Defaults /\ "tokens" \notin Tables
    BY DEF Defaults, Tables
  <1>5. Lays(Merged(Defaults, f), Defaults, f)
    BY MergedRules
  <1>6. Lays(Merged(Merged(Defaults, f), c.doc), Merged(Defaults, f), c.doc)
    BY MergedRules
  <1>7. Lays(d, Merged(Merged(Defaults, f), c.doc), v)
    BY <1>1, MergedRules DEF Document, CliDoc
  <1>8. /\ "tokens" \in DOMAIN d <=> "tokens" \in DOMAIN f
        /\ "tokens" \in DOMAIN d => d["tokens"] = f["tokens"]
    BY <1>2, <1>3, <1>4, <1>5, <1>6, <1>7 DEF Lays
  <1> QED
    BY <1>1, <1>8 DEF Table, Get

(* A record has what its entry says, over the fixed defaults.               *)
LEMMA RecordRules ==
  ASSUME NEW entry, {"id", "secret"} \subseteq DOMAIN entry,
         NEW f \in {"id", "secret"} \cup DOMAIN EntryDefaults
  PROVE  Record(entry)[f] = Over(EntryDefaults, entry)[f]
  <1>1. DOMAIN EntryDefaults = {"enabled", "ack_enabled", "default_index", "allowed_indexes"}
    BY DEF EntryDefaults
  <1>2. Over(EntryDefaults, entry)[f] = IF f \in DOMAIN entry THEN entry[f] ELSE EntryDefaults[f]
    BY DEF Over
  <1>3. CASE f \in {"id", "secret"}
    BY <1>2, <1>3 DEF Record
  <1>4. CASE f = "enabled"
    BY <1>2, <1>4, Zenon DEF Record, EntryDefaults, Get
  <1>5. CASE f = "ack_enabled"
    BY <1>2, <1>5, Zenon DEF Record, EntryDefaults, Get
  <1>6. CASE f = "default_index"
    BY <1>2, <1>6 DEF Record, EntryDefaults, Get
  <1>7. CASE f = "allowed_indexes"
    BY <1>2, <1>7 DEF Record, EntryDefaults, Get
  <1> QED
    BY <1>1, <1>3, <1>4, <1>5, <1>6, <1>7

(* Every setting and every token in force is that of the highest source     *)
(* that has it, for all files, command lines and environments whose         *)
(* configuration is accepted: timeouts, raw mode, capture path, lists and   *)
(* both names of the token; codes and levels one by one; and a table of     *)
(* tokens, which is the file's, over whatever is said of the one token.     *)
THEOREM PrecedenceCorrect == Spec => []HighestSourceRules
  <1>1. ASSUME Made
        PROVE  SettingsFromHighest
    <2>1. PICK d, s, sources : /\ d = Document(cli, env) /\ s = config.settings
                               /\ sources = SourcesOf(cli, env)
      OBVIOUS
    <2>2. Ruled(d, sources) /\ DOMAIN Defaults \subseteq DOMAIN d
      BY <2>1, DocumentRules
    <2>3. /\ DOMAIN s = DOMAIN d \ {"tokens"}
          /\ \A k \in DOMAIN d \ {"tokens"} : s[k] = Stands(k, d[k])
      BY <1>1, <2>1, SettingsKept DEF Made
    <2>4. DOMAIN s = Keys(sources) \ {"tokens"}
      BY <2>2, <2>3 DEF Ruled
    <2>5. \A k \in DOMAIN s \ Tables : s[k] = Stands(k, Highest(sources, k))
      BY <2>2, <2>3 DEF Ruled
    <2>6. ASSUME NEW t \in Tables
          PROVE  s[t] = d[t]
      <3>1. t \in DOMAIN d \ {"tokens"} /\ t \notin Timeouts /\ t # "raw_mode"
        BY <2>2 DEF Tables, Defaults, Timeouts
      <3> QED
        BY <2>3, <3>1 DEF Stands
    <2>7. ASSUME NEW t \in Tables
          PROVE  LET tables == [i \in DOMAIN sources |-> Get(sources[i], t, Nothing)]
                 IN  /\ DOMAIN s[t] = Keys(tables)
                     /\ \A x \in DOMAIN s[t] : s[t][x] = Highest(tables, x)
      BY <2>2, <2>6 DEF Ruled
    <2> QED
      BY <2>1, <2>4, <2>5, <2>7 DEF SettingsFromHighest
  <1>2. ASSUME Made
        PROVE  TokensFromHighest
    <2>1. PICK d, s, table : /\ d = Document(cli, env) /\ s = config.settings
                             /\ table = Table(FileDoc(cli, env))
      OBVIOUS
    <2>2. Table(d) = table /\ config.tokens = RuntimeTokens(d) /\ ~TokensFault(d)
      BY <1>2, <2>1, TableOfFile, SettingsKept DEF Made, Fault
    <2>3. CASE table = <<>>
      <3>1. config.tokens = <<[id |-> d.token_id, secret |-> d.token, enabled |-> d.token_enabled,
                               ack_enabled |-> d.token_ack_enabled, default_index |-> d.default_index,
                               allowed_indexes |-> d.allowed_indexes]>>
        BY <2>2, <2>3 DEF RuntimeTokens
      <3>2. DOMAIN Defaults \subseteq DOMAIN d
        BY <2>1, DocumentRules
      <3>3. \A k \in {"token_id", "token", "token_enabled", "token_ack_enabled", "default_index",
                      "allowed_indexes"} :
              k \in DOMAIN d \ {"tokens"} /\ k \notin Timeouts \cup {"raw_mode"}
        BY <3>2 DEF Defaults, Timeouts
      <3>4. \A k \in {"token_id", "token", "token_enabled", "token_ack_enabled", "default_index",
                      "allowed_indexes"} : s[k] = d[k]
        BY <1>2, <2>1, <3>3, SettingsKept DEF Made, Stands
      <3>5. Len(config.tokens) = 1 /\ config.tokens[1].id = s.token_id
            /\ config.tokens[1].secret = s.token
        BY <3>1, <3>4
      <3>6. DOMAIN EntryDefaults = {"enabled", "ack_enabled", "default_index", "allowed_indexes"}
        BY DEF EntryDefaults
      <3>7. /\ config.tokens[1]["enabled"] = s.token_enabled
            /\ config.tokens[1]["ack_enabled"] = s.token_ack_enabled
            /\ config.tokens[1]["default_index"] = s["default_index"]
            /\ config.tokens[1]["allowed_indexes"] = s["allowed_indexes"]
        BY <3>1, <3>4
      <3>8. ASSUME NEW f \in DOMAIN EntryDefaults
            PROVE  config.tokens[1][f] = CASE f = "enabled" -> s.token_enabled
                                           [] f = "ack_enabled" -> s.token_ack_enabled
                                           [] OTHER -> s[f]
        <4>1. CASE f = "enabled"
          BY <3>7, <4>1
        <4>2. CASE f = "ack_enabled"
          BY <3>7, <4>2
        <4>3. CASE f \in {"default_index", "allowed_indexes"}
          BY <3>7, <4>3
        <4> QED
          BY <3>6, <4>1, <4>2, <4>3
      <3> QED
        BY <2>1, <2>3, <3>5, <3>8 DEF TokensFromHighest
    <2>4. CASE table # <<>>
      <3>1. config.tokens = [i \in DOMAIN table |-> Record(table[i])]
        BY <2>2, <2>4 DEF RuntimeTokens
      <3>2. \A i \in DOMAIN table : {"id", "secret"} \subseteq DOMAIN table[i]
        BY <2>2 DEF TokensFault
      <3>3. IsDocument(d)
        BY <1>2, <2>1, RunDocument DEF Made
      <3>4. table \in Seq({table[i] : i \in DOMAIN table})
        BY <2>2, <2>4, <3>3 DEF IsDocument, Table, Get
      <3>5. DOMAIN table = 1..Len(table) /\ Len(table) \in Nat
        BY <3>4
      <3>6. Len(config.tokens) = Len(table)
        BY <3>1, <3>5
      <3>7. \A i \in DOMAIN table :
              \A f \in {"id", "secret"} \cup DOMAIN EntryDefaults :
                config.tokens[i][f] = Over(EntryDefaults, table[i])[f]
        BY <3>1, <3>2, RecordRules
      <3> QED
        BY <2>1, <2>4, <3>6, <3>7 DEF TokensFromHighest
    <2> QED
      BY <2>3, <2>4
  <1>3. MadeInv => HighestSourceRules
    BY <1>1, <1>2 DEF MadeInv, HighestSourceRules
  <1> QED
    BY <1>3, MadeInvariant, PTL
------------------------------------------------------------------------------
(* What FromRuntime makes of each setting. *)
Shows(r, c, redact) ==
  /\ DOMAIN r = DOMAIN c.settings \cup (IF ShowsTable(c) THEN {"tokens"} ELSE {})
  /\ \A k \in DOMAIN c.settings :
       r[k] = IF k = "token" THEN Hidden(c, c.settings.token, redact)
              ELSE IF k \in Timeouts THEN DurationText(c.settings[k])
              ELSE c.settings[k]
  /\ ShowsTable(c) => Table(r) = ShownTable(c, redact)
  /\ ~ShowsTable(c) => Table(r) = <<>>

LEMMA ShownSettings ==
  ASSUME NEW c, NEW redact, "tokens" \notin DOMAIN c.settings
  PROVE  Shows(FromRuntime(c, redact), c, redact)
  <1> DEFINE r == FromRuntime(c, redact)
             plain == [k \in DOMAIN c.settings |->
                         IF k = "token" THEN Hidden(c, c.settings.token, redact)
                         ELSE IF k \in Timeouts THEN DurationText(c.settings[k])
                         ELSE c.settings[k]]
             table == IF ShowsTable(c) THEN [tokens |-> ShownTable(c, redact)] ELSE Nothing
  <1>1. r = Over(plain, table)
    BY DEF FromRuntime
  <1>2. DOMAIN table = (IF ShowsTable(c) THEN {"tokens"} ELSE {})
    BY DEF Nothing
  <1>3. ShowsTable(c) => table["tokens"] = ShownTable(c, redact)
    OBVIOUS
  <1>4. /\ DOMAIN plain = DOMAIN c.settings
        /\ \A k \in DOMAIN c.settings :
             plain[k] = IF k = "token" THEN Hidden(c, c.settings.token, redact)
                        ELSE IF k \in Timeouts THEN DurationText(c.settings[k])
                        ELSE c.settings[k]
    OBVIOUS
  <1> HIDE DEF r, plain, table
  <1>5. /\ DOMAIN r = DOMAIN plain \cup DOMAIN table
        /\ \A k \in DOMAIN plain : k \notin DOMAIN table => r[k] = plain[k]
        /\ \A k \in DOMAIN table : r[k] = table[k]
    BY <1>1 DEF Over
  <1>6. /\ ShowsTable(c) => Table(r) = ShownTable(c, redact)
        /\ ~ShowsTable(c) => Table(r) = <<>>
    BY <1>2, <1>3, <1>4, <1>5 DEF Table, Get
  <1>7. \A k \in DOMAIN c.settings : r[k] = plain[k]
    BY <1>2, <1>4, <1>5
  <1> QED
    BY <1>2, <1>4, <1>5, <1>6, <1>7 DEF r, Shows

(* Whatever becomes a token has a secret. *)
LEMMA RecordsHaveSecrets ==
  ASSUME NEW d, NEW i \in DOMAIN RuntimeTokens(d)
  PROVE  "secret" \in DOMAIN RuntimeTokens(d)[i]
  <1>1. CASE Table(d) # <<>>
    BY <1>1 DEF RuntimeTokens, Record
  <1>2. CASE Table(d) = <<>>
    BY <1>2 DEF RuntimeTokens
  <1> QED
    BY <1>1, <1>2

(* In redact mode nothing that is printed where secrets are printed is a    *)
(* secret, of the settings or of the table, in force or not.                *)
THEOREM SecretsHidden == Spec => []NoSecretShown
  <1>1. ASSUME Made, shown = FromRuntime(config, TRUE)
        PROVE  {shown.token} \cup {Table(shown)[i].secret : i \in DOMAIN Table(shown)}
                 \subseteq {config.settings.redaction_text}
    <2> DEFINE text == config.settings.redaction_text
    <2>1. PICK d : d = Document(cli, env)
      OBVIOUS
    <2>2. config.tokens = RuntimeTokens(d) /\ DOMAIN config.settings = DOMAIN d \ {"tokens"}
      BY <1>1, <2>1, SettingsKept DEF Made
    <2>3. "token" \in DOMAIN d
      BY <1>1, <2>1, RunDocument DEF Made
    <2>4. \A secret : Hidden(config, secret, TRUE) = text
      BY DEF Hidden
    <2>5. shown.token = text
      BY <1>1, <2>2, <2>3, <2>4, ShownSettings DEF Shows
    <2>6. ASSUME NEW i \in DOMAIN Table(shown)
          PROVE  Table(shown)[i].secret = text
      <3>1. ShowsTable(config) /\ Table(shown) = ShownTable(config, TRUE)
        <4>1. DOMAIN <<>> = {}
          OBVIOUS
        <4> QED
          BY <1>1, <2>2, <2>6, <4>1, ShownSettings DEF Shows
      <3>2. i \in DOMAIN config.tokens
            /\ Table(shown)[i] = ShownEntry(config.tokens[i], text)
        BY <2>4, <2>6, <3>1 DEF ShownTable
      <3>3. "secret" \in DOMAIN config.tokens[i]
        BY <2>2, <3>2, RecordsHaveSecrets
      <3> QED
        BY <3>2, <3>3 DEF ShownEntry
    <2> QED
      BY <2>5, <2>6
  <1>2. MadeInv => NoSecretShown
    <2> SUFFICES ASSUME MadeInv, step = "shown", config.settings.redaction_mode = "redact"
                 PROVE  ({shown.token} \cup {Table(shown)[i].secret : i \in DOMAIN Table(shown)})
                          \cap (({config.settings.token}
                                  \cup {config.tokens[i].secret : i \in DOMAIN config.tokens})
                                \ {config.settings.redaction_text}) = {}
      BY DEF NoSecretShown
    <2>1. Made /\ shown = FromRuntime(config, TRUE)
      BY DEF MadeInv
    <2> QED
      BY <1>1, <2>1
  <1> QED
    BY <1>2, MadeInvariant, PTL
------------------------------------------------------------------------------
(* A table of a document as it is merged over the defaults: a function that *)
(* has every key of the default.                                            *)
IsTable(doc, k) ==
  /\ k \in DOMAIN doc
  /\ doc[k] = [x \in DOMAIN doc[k] |-> doc[k][x]]
  /\ DOMAIN Defaults[k] \subseteq DOMAIN doc[k]

LEMMA TablesKept ==
  ASSUME NEW low, NEW high, NEW k \in Tables, IsTable(low, k)
  PROVE  IsTable(Merged(low, high), k)
  <1> DEFINE m == Merged(low, high)
  <1>1. k \in DOMAIN m
    BY DEF Merged, IsTable
  <1>2. CASE k \in DOMAIN high
    <2>1. m[k] = Over(low[k], high[k])
      BY <1>2 DEF Merged, IsTable
    <2>2. m[k] = [x \in DOMAIN m[k] |-> m[k][x]] /\ DOMAIN low[k] \subseteq DOMAIN m[k]
      BY <2>1 DEF Over
    <2> QED
      BY <1>1, <2>2 DEF IsTable
  <1>3. CASE k \notin DOMAIN high
    <2>1. m[k] = low[k]
      BY <1>1, <1>3 DEF Merged, Over
    <2> QED
      BY <1>1, <2>1 DEF IsTable
  <1> QED
    BY <1>2, <1>3

LEMMA DocumentTables ==
  ASSUME NEW c, NEW e, NEW k \in Tables
  PROVE  IsTable(Document(c, e), k)
  <1>1. IsTable(Defaults, k)
    <2>1. CASE k = "sources"
      BY <2>1 DEF IsTable, Defaults
    <2>2. CASE k = "protocol"
      <3>1. k \in DOMAIN Defaults /\ Defaults[k] = DefaultProtocol
        BY <2>2 DEF Defaults
      <3> QED
        BY <3>1 DEF IsTable, DefaultProtocol
    <2> QED
      BY <2>1, <2>2 DEF Tables
  <1> QED
    BY <1>1, TablesKept DEF Document

(* Nothing of a table gets lost when it is laid over the default again. *)
LEMMA TableOverDefault ==
  ASSUME NEW doc, NEW k \in Tables, IsTable(doc, k)
  PROVE  Over(Defaults[k], doc[k]) = doc[k]
  <1> DEFINE o == Over(Defaults[k], doc[k])
  <1>1. DOMAIN o = DOMAIN doc[k] /\ \A x \in DOMAIN doc[k] : o[x] = doc[k][x]
    BY DEF Over, IsTable
  <1>2. o = [x \in DOMAIN o |-> o[x]]
    BY DEF Over
  <1> HIDE DEF o
  <1>3. o = [x \in DOMAIN doc[k] |-> doc[k][x]]
    BY <1>1, <1>2
  <1> QED
    BY <1>3 DEF IsTable, o

(* A text that parses as a duration is found again, and it parses as it. *)
LEMMA DurationFound ==
  ASSUME NEW t \in DOMAIN Durations
  PROVE  /\ DurationText(Durations[t]) \in DOMAIN Durations
         /\ Durations[DurationText(Durations[t])] = Durations[t]
  BY DEF DurationText

LEMMA RawModeFound ==
  ASSUME NEW text, RawMode(text) # "unknown"
  PROVE  RawMode(RawMode(text)) = RawMode(text)
  BY DEF RawMode

(* An entry of the table, printed and read, is the record it was made from. *)
ReadsSame(t) ==
  /\ Record(ShownEntry(t, t.secret)) = t
  /\ {"id", "secret"} \subseteq DOMAIN ShownEntry(t, t.secret)

LEMMA RecordFound ==
  ASSUME NEW entry
  PROVE  ReadsSame(Record(entry))
  <1> DEFINE t == Record(entry)
             p == ShownEntry(t, t.secret)
  <1>1. /\ DOMAIN t = {"id", "secret", "enabled", "ack_enabled", "default_index", "allowed_indexes"}
        /\ t = [id |-> t.id, secret |-> t.secret, enabled |-> t.enabled,
                ack_enabled |-> t.ack_enabled, default_index |-> t.default_index,
                allowed_indexes |-> t.allowed_indexes]
    BY DEF Record
  <1>2. /\ DOMAIN p = {f \in DOMAIN t : f # "default_index" \/ t.default_index # NoIndex}
        /\ \A k \in DOMAIN p : p[k] = t[k]
    BY DEF ShownEntry
  <1> HIDE DEF p
  <1>3. {"id", "secret", "enabled", "ack_enabled", "allowed_indexes"} \subseteq DOMAIN p
    BY <1>1, <1>2
  <1>4. /\ p.id = t.id /\ p.secret = t.secret
        /\ Get(p, "enabled", TRUE) = t.enabled /\ Get(p, "ack_enabled", FALSE) = t.ack_enabled
        /\ Get(p, "allowed_indexes", {}) = t.allowed_indexes
    BY <1>2, <1>3 DEF Get
  <1>5. Get(p, "default_index", NoIndex) = t.default_index
    BY <1>1, <1>2 DEF Get
  <1>6. Record(p) = t
    BY <1>1, <1>4, <1>5 DEF Record
  <1> QED
    BY <1>3, <1>6 DEF p, ReadsSame
------------------------------------------------------------------------------
(* The printed document, as the only source, has every setting as it was,   *)
(* but for the spelling of durations and of the raw mode.                   *)
SameSettings(d, m) ==
  /\ \A k \in DOMAIN d : k \notin Timeouts \cup {"raw_mode", "tokens"} => m[k] = d[k]
  /\ \A k \in Timeouts : m[k] \in DOMAIN Durations /\ Durations[m[k]] = Durations[d[k]]
  /\ RawMode(m["raw_mode"]) = RawMode(d["raw_mode"])

Converts(settings, d) ==
  /\ settings = [k \in DOMAIN settings |-> settings[k]]
  /\ DOMAIN settings = DOMAIN d \ {"tokens"}
  /\ \A k \in DOMAIN d \ {"tokens"} :
       settings[k] = IF k \in Timeouts THEN Durations[d[k]]
                     ELSE IF k = "raw_mode" THEN RawMode(d[k]) ELSE d[k]

LEMMA SettingsConverted ==
  ASSUME NEW d
  PROVE  Converts(ToRuntime(d).settings, d)
  BY DEF ToRuntime, Converts

SameDocument(d, r, m) ==
  /\ SameSettings(d, m)
  /\ DOMAIN m \ {"tokens"} = DOMAIN d \ {"tokens"}
  /\ ShowsTable(r) => Table(m) = ShownTable(r, FALSE)
  /\ ~ShowsTable(r) => Table(m) = <<>>

LEMMA SettingsFound ==
  ASSUME NEW c \in Clis, NEW e \in Envs, ~EnvFault(e),
         NEW d, d = Document(c, e), ~Fault(d), NEW r, r = ToRuntime(d),
         NEW m, m = Merged(Defaults, FromRuntime(r, FALSE))
  PROVE  SameDocument(d, r, m)
  <1>1. /\ DOMAIN Defaults \subseteq DOMAIN d
        /\ Timeouts \cup {"token", "raw_mode"} \cup Tables \subseteq DOMAIN Defaults
        /\ "tokens" \notin DOMAIN Defaults
    <2>1. DOMAIN Defaults \subseteq DOMAIN d
      BY DocumentRules
    <2> QED
      BY <2>1 DEF Defaults, Timeouts, Tables
  <1>2. /\ DOMAIN r.settings = DOMAIN d \ {"tokens"}
        /\ \A k \in DOMAIN d \ {"tokens"} :
             r.settings[k] = IF k \in Timeouts THEN Durations[d[k]]
                             ELSE IF k = "raw_mode" THEN RawMode(d[k]) ELSE d[k]
    BY DEF ToRuntime
  <1>3. PICK f : f = FromRuntime(r, FALSE) /\ Shows(f, r, FALSE)
    BY <1>2, ShownSettings
  <1>4. /\ "token" \notin Timeouts /\ "raw_mode" \notin Timeouts /\ "tokens" \notin Timeouts
        /\ "tokens" \notin Tables
        /\ \A k \in Tables : k \notin Timeouts \cup {"token", "raw_mode", "tokens"}
        /\ "raw_mode" \notin Tables /\ "token" \notin Tables /\ \A k \in Timeouts : k \notin Tables
    BY DEF Timeouts, Tables
  <1>5. \A k \in DOMAIN d : k \notin Timeouts \cup {"raw_mode", "tokens"} => f[k] = d[k]
    <2> SUFFICES ASSUME NEW k \in DOMAIN d, k \notin Timeouts \cup {"raw_mode", "tokens"}
                 PROVE  f[k] = d[k]
      OBVIOUS
    <2>1. k \in DOMAIN r.settings /\ r.settings[k] = d[k]
      BY <1>2
    <2>2. k \in DOMAIN r.settings /\ k \notin Timeouts => f[k] = r.settings[k]
      BY <1>3, <1>4 DEF Hidden, Shows
    <2> QED
      BY <2>1, <2>2
  <1>6. \A k \in Timeouts : f[k] = DurationText(Durations[d[k]])
    BY <1>1, <1>2, <1>3, <1>4 DEF Shows
  <1>7. f["raw_mode"] = RawMode(d["raw_mode"])
    BY <1>1, <1>2, <1>3, <1>4 DEF Shows
  <1>8. m = Merged(Defaults, f) /\ DOMAIN m = DOMAIN f
    <2>1. m = Merged(Defaults, f) /\ Lays(m, Defaults, f)
      BY <1>3, MergedRules
    <2>2. DOMAIN Defaults \subseteq DOMAIN f
      BY <1>1, <1>2, <1>3 DEF Shows
    <2>3. DOMAIN m = DOMAIN Defaults \cup DOMAIN f
      BY <2>1 DEF Lays
    <2> QED
      BY <2>1, <2>2, <2>3
  <1>9. \A k \in DOMAIN f : k \notin Tables => m[k] = f[k]
    <2>1. Lays(m, Defaults, f)
      BY <1>8, MergedRules
    <2> QED
      BY <1>8, <2>1 DEF Lays
  <1>10. ASSUME NEW k \in Tables PROVE m[k] = d[k]
    <2>1. IsTable(d, k)
      BY DocumentTables
    <2>2. f[k] = d[k] /\ k \in DOMAIN f
      <3>1. k \in DOMAIN d /\ k \notin Timeouts \cup {"raw_mode", "tokens"}
        BY <1>1, <1>4
      <3>2. k \in DOMAIN r.settings
        BY <1>2, <3>1
      <3> QED
        BY <1>3, <1>5, <3>1, <3>2 DEF Shows
    <2>3. m[k] = Over(Defaults[k], d[k])
      BY <1>1, <1>8, <2>2 DEF Merged
    <2> QED
      BY <2>1, <2>3, TableOverDefault
  <1>11. \A k \in Timeouts : d[k] \in DOMAIN Durations
    BY DEF Timeouts, Fault, LimitsFault
  <1>12. RawMode(d["raw_mode"]) # "unknown"
    BY DEF Fault, HecFault
  <1>13. SameSettings(d, m)
    <2>1. \A k \in DOMAIN d : k \notin Timeouts \cup {"raw_mode", "tokens"} => m[k] = d[k]
      <3> SUFFICES ASSUME NEW k \in DOMAIN d, k \notin Timeouts \cup {"raw_mode", "tokens"}
                   PROVE  m[k] = d[k]
        OBVIOUS
      <3>1. CASE k \in Tables
        BY <1>10, <3>1
      <3>2. CASE k \notin Tables
        <4>1. k \in DOMAIN f
          BY <1>2, <1>3 DEF Shows
        <4> QED
          BY <1>5, <1>9, <3>2, <4>1
      <3> QED
        BY <3>1, <3>2
    <2>2. ASSUME NEW k \in Timeouts
          PROVE  m[k] \in DOMAIN Durations /\ Durations[m[k]] = Durations[d[k]]
      <3>1. m[k] = DurationText(Durations[d[k]])
        BY <1>1, <1>2, <1>3, <1>4, <1>6, <1>9 DEF Shows
      <3> QED
        BY <1>11, <3>1, DurationFound
    <2>3. m["raw_mode"] = RawMode(d["raw_mode"])
      BY <1>1, <1>2, <1>3, <1>4, <1>7, <1>9 DEF Shows
    <2> QED
      BY <1>12, <2>1, <2>2, <2>3, RawModeFound DEF SameSettings
  <1>14. Table(m) = Table(f)
    BY <1>4, <1>8, <1>9 DEF Table, Get
  <1>15. DOMAIN m \ {"tokens"} = DOMAIN d \ {"tokens"}
    BY <1>2, <1>3, <1>8 DEF Shows
  <1>16. /\ ShowsTable(r) => Table(f) = ShownTable(r, FALSE)
         /\ ~ShowsTable(r) => Table(f) = <<>>
    BY <1>3 DEF Shows
  <1> QED
    BY <1>13, <1>14, <1>15, <1>16 DEF SameDocument

ReadsBack(r) ==
  /\ ~Fault(Merged(Defaults, FromRuntime(r, FALSE)))
  /\ ToRuntime(Merged(Defaults, FromRuntime(r, FALSE))) = r

LEMMA ReadBack ==
  ASSUME NEW c \in Clis, NEW e \in Envs, ~EnvFault(e),
         NEW d, d = Document(c, e), ~Fault(d), NEW r, r = ToRuntime(d),
         Table(d) = <<>> \/ Len(r.tokens) # 1
  PROVE  ReadsBack(r)
  <1>0. PICK m : m = Merged(Defaults, FromRuntime(r, FALSE))
    OBVIOUS
  <1>1. /\ SameSettings(d, m)
        /\ DOMAIN m \ {"tokens"} = DOMAIN d \ {"tokens"}
        /\ ShowsTable(r) => Table(m) = ShownTable(r, FALSE)
        /\ ~ShowsTable(r) => Table(m) = <<>>
    <2>1. SameDocument(d, r, m)
      BY <1>0, SettingsFound
    <2> QED
      BY <2>1 DEF SameDocument
  <1>2. /\ DOMAIN d \subseteq Settings /\ ~HecFault(d) /\ ~LimitsFault(d) /\ ~ObserveFault(d)
        /\ ~TokensFault(d)
    BY DEF Fault
  <1>3. /\ IsDocument(d) /\ DOMAIN Defaults \subseteq DOMAIN d /\ r.tokens = RuntimeTokens(d)
    BY RunDocument, DocumentRules, SettingsKept
  <1>4. /\ {"addr", "token_id", "token", "token_enabled", "token_ack_enabled", "default_index",
            "allowed_indexes", "max_bytes", "max_decoded_bytes", "max_events", "max_index_len",
            "gzip_buffer_bytes", "level", "sources", "format", "redaction_mode",
            "redaction_text"} \subseteq DOMAIN d
        /\ "tokens" \in Settings
    BY <1>3 DEF Defaults, Settings
  <1>5. /\ m.addr = d.addr /\ m.token_id = d.token_id /\ m.token = d.token
        /\ m.token_enabled = d.token_enabled /\ m.token_ack_enabled = d.token_ack_enabled
        /\ m.default_index = d.default_index /\ m.allowed_indexes = d.allowed_indexes
        /\ m.max_bytes = d.max_bytes /\ m.max_decoded_bytes = d.max_decoded_bytes
        /\ m.max_events = d.max_events /\ m.max_index_len = d.max_index_len
        /\ m.gzip_buffer_bytes = d.gzip_buffer_bytes
        /\ m.level = d.level /\ m.sources = d.sources /\ m.format = d.format
        /\ m.redaction_mode = d.redaction_mode /\ m.redaction_text = d.redaction_text
    BY <1>1, <1>4 DEF SameSettings, Timeouts
  <1>6. Get(m, "capture", "off") = Get(d, "capture", "off")
    BY <1>1 DEF Get, SameSettings, Timeouts
  <1>7. /\ m.idle_timeout \in DOMAIN Durations /\ Durations[m.idle_timeout] = Durations[d.idle_timeout]
        /\ m.total_timeout \in DOMAIN Durations /\ Durations[m.total_timeout] = Durations[d.total_timeout]
        /\ RawMode(m.raw_mode) = RawMode(d.raw_mode)
    BY <1>1 DEF SameSettings, Timeouts
  <1>8. DOMAIN m \subseteq Settings
    BY <1>1, <1>2, <1>4
  <1>9. ~HecFault(m)
    BY <1>2, <1>5, <1>6, <1>7 DEF HecFault
  <1>10. ~LimitsFault(m)
    BY <1>2, <1>5, <1>7 DEF LimitsFault
  <1>11. ~ObserveFault(m)
    BY <1>2, <1>5 DEF ObserveFault
  <1>12. /\ RuntimeTokens(m) = RuntimeTokens(d)
         /\ \A i \in DOMAIN Table(m) : {"id", "secret"} \subseteq DOMAIN Table(m)[i]
    <2>1. CASE Table(d) = <<>>
      <3>1. RuntimeTokens(d) = <<[id |-> d.token_id, secret |-> d.token, enabled |-> d.token_enabled,
                                  ack_enabled |-> d.token_ack_enabled,
                                  default_index |-> d.default_index,
                                  allowed_indexes |-> d.allowed_indexes]>>
        BY <2>1 DEF RuntimeTokens
      <3>2. ~ShowsTable(r)
        BY <1>3, <3>1 DEF ShowsTable
      <3>3. Table(m) = <<>>
        BY <1>1, <3>2
      <3>4. RuntimeTokens(m) = RuntimeTokens(d)
        BY <1>5, <3>1, <3>3 DEF RuntimeTokens
      <3>5. DOMAIN Table(m) = {}
        <4>1. DOMAIN <<>> = {}
          OBVIOUS
        <4> QED
          BY <3>3, <4>1
      <3> QED
        BY <3>4, <3>5
    <2>2. CASE Table(d) # <<>>
      <3>1. PICK t : t = Table(d) /\ t \in Seq({t[i] : i \in DOMAIN t})
        BY <1>3, <2>2 DEF IsDocument, Table, Get
      <3>2. DOMAIN t = 1..Len(t) /\ Len(t) \in Nat /\ t # <<>> /\ Len(t) # 0
        BY <2>2, <3>1
      <3>3. r.tokens = [i \in 1..Len(t) |-> Record(t[i])]
        BY <1>3, <2>2, <3>1, <3>2 DEF RuntimeTokens
      <3>4. Len(r.tokens) = Len(t)
        BY <3>2, <3>3
      <3>5. ShowsTable(r)
        BY <2>2, <3>2, <3>4 DEF ShowsTable
      <3>6. Table(m) = [i \in 1..Len(t) |-> ShownEntry(r.tokens[i], r.tokens[i].secret)]
        BY <1>1, <3>3, <3>5 DEF ShownTable, Hidden
      <3>7. ASSUME NEW i \in 1..Len(t)
            PROVE  /\ Record(Table(m)[i]) = r.tokens[i]
                   /\ {"id", "secret"} \subseteq DOMAIN Table(m)[i]
        <4>1. r.tokens[i] = Record(t[i])
          BY <3>3
        <4>2. Table(m)[i] = ShownEntry(r.tokens[i], r.tokens[i].secret)
          BY <3>6
        <4> QED
          BY <4>1, <4>2, RecordFound DEF ReadsSame
      <3>8. Table(m) # <<>> /\ DOMAIN Table(m) = 1..Len(t)
        <4>1. DOMAIN Table(m) = 1..Len(t)
          BY <3>6
        <4>2. 1 \in 1..Len(t) /\ DOMAIN <<>> = {}
          BY <3>2
        <4> QED
          BY <4>1, <4>2
      <3>9. RuntimeTokens(m) = [i \in 1..Len(t) |-> Record(Table(m)[i])]
        BY <3>8 DEF RuntimeTokens
      <3>10. RuntimeTokens(m) = r.tokens
        BY <3>3, <3>7, <3>9
      <3> QED
        BY <1>3, <3>7, <3>8, <3>10
    <2> QED
      BY <2>1, <2>2
  <1>13. ~TokensFault(m)
    BY <1>2, <1>5, <1>12 DEF TokensFault
  <1>14. ToRuntime(m) = r
    <2>1. ToRuntime(m).tokens = r.tokens
      BY <1>3, <1>12 DEF ToRuntime
    <2>2. ToRuntime(m).settings = r.settings
      <3>1. PICK f, g : f = ToRuntime(m).settings /\ g = r.settings
        OBVIOUS
      <3>2. Converts(f, m) /\ Converts(g, d)
        BY <3>1, SettingsConverted
      <3>3. DOMAIN f = DOMAIN g
        BY <1>1, <3>2 DEF Converts
      <3>4. \A k \in DOMAIN f : f[k] = g[k]
        BY <1>1, <3>2 DEF Converts, SameSettings
      <3> QED
        BY <3>1, <3>2, <3>3, <3>4 DEF Converts
    <2>3. \A x : ToRuntime(x) = [settings |-> ToRuntime(x).settings, tokens |-> ToRuntime(x).tokens]
      BY DEF ToRuntime
    <2> QED
      BY <2>1, <2>2, <2>3
  <1> QED
    BY <1>0, <1>8, <1>9, <1>10, <1>11, <1>13, <1>14 DEF Fault, ReadsBack

(* What is printed in the clear loads, alone, as the configuration it was   *)
(* printed from, for every configuration but one with a table of one entry: *)
(* printing, merging, validating and converting undo each other.            *)
THEOREM ShownLoadsAgain == Spec => []ShownReloads
  <1>1. MadeInv => ShownReloads
    <2> SUFFICES ASSUME MadeInv, step = "shown",
                        config.settings.redaction_mode = "passthrough",
                        ~(TableGiven /\ Len(config.tokens) = 1)
                 PROVE  /\ ~Fault(Merged(Defaults, shown))
                        /\ ToRuntime(Merged(Defaults, shown)) = config
      BY DEF ShownReloads
    <2>1. Made /\ shown = FromRuntime(config, FALSE)
      BY DEF MadeInv
    <2>2. PICK d : d = Document(cli, env)
      OBVIOUS
    <2>3. /\ cli \in Clis /\ env \in Envs /\ ~EnvFault(env) /\ ~Fault(d)
          /\ config = ToRuntime(d) /\ (Table(d) = <<>> \/ Len(config.tokens) # 1)
      BY <2>1, <2>2 DEF Made, TableGiven
    <2>4. ReadsBack(config)
      BY <2>2, <2>3, ReadBack
    <2> QED
      BY <2>1, <2>4 DEF ReadsBack
  <1> QED
    BY <1>1, MadeInvariant, PTL
=============================================================================
