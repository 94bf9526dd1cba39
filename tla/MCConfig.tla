------------------------------ MODULE MCConfig ------------------------------
(* Config with files, command lines and environments that are valid alone   *)
(* and not together, or only together; each check fails for one of them.    *)
EXTENDS Config, TLC

MCTexts ==
  {"", "dev-token", "file-token", "cli-token", "env-token", "main-secret", "audit-secret",
   " padded ", "padded", "accented", "control", "<redacted>", "[secret]"}
MCTrimmed == [s \in MCTexts |-> IF s = " padded " THEN "padded" ELSE s]
MCAscii == MCTexts \ {"accented"}

MCPort == ("127.0.0.1:18088" :> 18088) @@ ("127.0.0.1:0" :> 0)
MCDurations == ("0s" :> 0) @@ ("5s" :> 5) @@ ("5000ms" :> 5) @@ ("30s" :> 30)
MCNameLength == ("main" :> 4) @@ ("audit" :> 5)

Main == [id |-> "main-token", secret |-> "main-secret", default_index |-> "main",
         allowed_indexes |-> {"main"}]
Audit == [id |-> "audit-token", secret |-> "audit-secret", enabled |-> FALSE,
          ack_enabled |-> TRUE, allowed_indexes |-> {"audit", "main"}]
Open == [id |-> "open-token", secret |-> " padded "]

MCFiles ==
  ("one.toml" :> [tokens |-> <<Main>>])
  @@ ("two.toml" :> [token |-> "file-token", tokens |-> <<Main, Audit>>])
  @@ ("three.toml" :> [tokens |-> <<Audit, Open, Main>>, capture |-> "/tmp/hec"])
  @@ ("same.toml" :> [tokens |-> <<Main, Audit, [Open EXCEPT !.secret = "main-secret"]>>])
  @@ ("outside.toml" :> [tokens |-> <<[Main EXCEPT !.default_index = "audit"]>>])
  @@ ("half.toml" :> [tokens |-> <<[id |-> "half"]>>])
  @@ ("unknown.toml" :> [tokenz |-> <<>>])
  @@ ("plain.toml" :> [token |-> "file-token", max_bytes |-> 5000000, idle_timeout |-> "5000ms",
                       raw_mode |-> "body", sources |-> [sink |-> "debug", body |-> "warn"]])
  @@ ("lists.toml" :> [allowed_indexes |-> {"audit"}, default_index |-> "audit",
                       token_ack_enabled |-> TRUE, capture |-> "/tmp/file",
                       protocol |-> [success |-> 200, server_busy |-> 29]])

CliDocs ==
  {Nothing, [token |-> "cli-token", console |-> TRUE], [token |-> ""],
   [max_decoded_bytes |-> 8000000, sources |-> [sink |-> "trace"]],
   [allowed_indexes |-> {"audit", ""}], [default_index |-> "audit"],
   [redaction_mode |-> "passthrough"], [redaction_text |-> "[secret]", token |-> "[secret]"],
   [max_index_len |-> 3, idle_timeout |-> "30s"],
   [allowed_indexes |-> {"main", "audit"}, capture |-> "/tmp/cli", raw_mode |-> "lines",
    total_timeout |-> "5s", protocol |-> [server_busy |-> 39]]}

MCClis ==
  {[doc |-> d, file |-> f, action |-> a] : d \in CliDocs,
      f \in DOMAIN MCFiles \cup {"missing.toml", "none"}, a \in {"show", "check", "run"}}

MCEnvs ==
  {Nothing, [spank_token |-> "env-token", token |-> Empty],
   [token |-> "accented", spank_token |-> "env-token", default_index |-> Empty],
   [allowed_indexes |-> {""}], [allowed_indexes |-> {"main", "audit", ""}, max_bytes |-> 7],
   [max_bytes |-> Malformed], [file |-> "two.toml"],
   [redaction_mode |-> "passthrough", token |-> "env-token", token_enabled |-> FALSE],
   [sources |-> [sink |-> "info"], addr |-> "127.0.0.1:0"],
   [sources |-> [sink |-> "info"], total_timeout |-> "5s", max_decoded_bytes |-> 7000000],
   [raw_mode |-> "preserve", capture |-> "/tmp/env", idle_timeout |-> "5000ms",
    protocol |-> [success |-> 201], token_id |-> "env", token |-> Empty]}
=============================================================================
