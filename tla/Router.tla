-------------------------------- MODULE Router --------------------------------
(***************************************************************************)
(* The router of src/hec_receiver/app.rs: which handler answers a method   *)
(* on a path.  axum lets a GET route answer HEAD as well, and answers a    *)
(* method without a route on a known path itself, with an empty 405.       *)
(***************************************************************************)

(* The paths with hec_post, by the endpoint of their POST handler.          *)
HecPaths ==
  [event |-> {"/services/collector", "/services/collector/event",
              "/services/collector/event/1.0"},
   raw   |-> {"/services/collector/raw", "/services/collector/raw/1.0"},
   ack   |-> {"/services/collector/ack", "/services/collector/ack/1.0"}]

Endpoints == DOMAIN HecPaths

HealthPaths == {"/services/collector/health", "/services/collector/health/1.0"}
StatsPaths == {"/hec/stats"}

(* hec_post: one method of a path is served, five are refused by the        *)
(* receiver's own handler, the others by axum.                              *)
HecPost(endpoint, method) ==
  CASE method = "POST" -> endpoint
    [] method \in {"GET", "HEAD", "PUT", "DELETE", "PATCH"} -> "method_not_allowed"
    [] OTHER -> "axum"

Route(method, path) ==
  CASE path \in HealthPaths ->
         IF method \in {"GET", "HEAD", "POST"} THEN "health" ELSE "axum"
    [] path \in StatsPaths -> IF method \in {"GET", "HEAD"} THEN "stats" ELSE "axum"
    [] \E e \in Endpoints : path \in HecPaths[e] ->
         HecPost(CHOOSE e \in Endpoints : path \in HecPaths[e], method)
    [] OTHER -> "not_found"

(* The status of a route that looks at nothing but the phase.               *)
StatusElsewhere(route, phase) ==
  CASE route = "health" -> IF phase = "Serving" THEN 200 ELSE 503
    [] route = "stats" -> 200
    [] route = "not_found" -> 404
    [] OTHER -> 405
==============================================================================
