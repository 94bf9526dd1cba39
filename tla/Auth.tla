-------------------------------- MODULE Auth --------------------------------
(***************************************************************************)
(* src/hec_receiver/auth.rs: the registry of the configured tokens, and    *)
(* what becomes of an Authorization header.  It holds no state that        *)
(* changes.  A text is opaque but for what trimming does to it and whether *)
(* a header value may contain it.                                          *)
(***************************************************************************)
EXTENDS Integers, Sequences

CONSTANTS
  Texts,    (* secrets, the empty text "" among them                       *)
  Trimmed,  (* str::trim of each                                           *)
  Ascii,    (* those whose characters HeaderValue::to_str accepts          *)
  Garbled   (* a Basic payload that is not base64 of "user:password"       *)

ASSUME AuthAssumption ==
  /\ "" \in Texts
  /\ Trimmed \in [Texts -> Texts]
  /\ \A s \in Texts : Trimmed[Trimmed[s]] = Trimmed[s]
  /\ Ascii \subseteq Texts
  /\ Garbled \notin Texts

(* A header: its scheme, and the text after it or the password of a Basic   *)
(* payload; "none" stands for a missing or a blank header.                  *)
Header == [scheme : {"none", "Splunk", "Basic", "other"}, secret : Texts \cup {Garbled}]

NoToken == "no token"

(* TokenRegistry::from_tokens: a map by secret, so the last of two tokens   *)
(* with one secret stays.                                                   *)
FromTokens(tokens) ==
  LET kept == {i \in DOMAIN tokens : tokens[i].secret # ""}
      last(s) == CHOOSE i \in kept : /\ tokens[i].secret = s
                                     /\ \A j \in kept : tokens[j].secret = s => j <= i
  IN  [s \in {tokens[i].secret : i \in kept} |-> tokens[last(s)]]

(* parse_authorization: the error of a header, and the secret it carries.   *)
HeaderError(h) ==
  IF h.scheme = "none" THEN "TokenRequired"
  ELSE IF \/ h.scheme = "Splunk" /\ (h.secret \notin Ascii \/ Trimmed[h.secret] = "")
          \/ h.scheme = "Basic" /\ h.secret \in {Garbled, ""}
          \/ h.scheme = "other"
    THEN "InvalidAuthorization" ELSE "none"

Carried(h) == IF h.scheme = "Splunk" THEN Trimmed[h.secret] ELSE h.secret

(* authenticate_detailed.                                                   *)
Authenticate(registry, h) ==
  IF HeaderError(h) # "none" THEN [error |-> HeaderError(h), token |-> NoToken]
  ELSE IF Carried(h) \notin DOMAIN registry
    THEN [error |-> "InvalidToken", token |-> NoToken]
  ELSE LET t == registry[Carried(h)]
       IN  [error |-> IF t.enabled THEN "none" ELSE "TokenDisabled", token |-> t.id]
=============================================================================
