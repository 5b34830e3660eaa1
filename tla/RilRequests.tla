----------------------------- MODULE RilRequests -----------------------------
(***************************************************************************)
(* The request interface between the Android framework and libmocha-ril.   *)
(*                                                                         *)
(* The framework hands every request to ril_on_request with a token and    *)
(* waits until the library gives that token back through                   *)
(* ril_request_complete, which must happen exactly once.  A handler either *)
(* completes the token before it returns or keeps it in ril_data until the *)
(* modem has answered.  Nothing else names a request: the registry of      *)
(* ril_request_info records that ril_request_complete consults is filled   *)
(* only by ril_request_get_id, which nothing calls, so every lookup in it  *)
(* fails and ril_request_complete always reaches OnRequestComplete.        *)
(***************************************************************************)
CONSTANTS
  Token,    (* the tokens the framework can use                            *)
  NoToken   (* RIL_TOKEN_NULL, the value of an empty token field           *)

ASSUME TokenAssumption == NoToken \notin Token

VARIABLES
  pending,  (* the tokens the framework is waiting for                     *)
  stray     (* a token was completed that the framework did not wait for:  *)
            (* a second completion, or a completion of RIL_TOKEN_NULL      *)

requestVars == <<pending, stray>>

RequestTypeOK ==
  /\ pending \subseteq Token
  /\ stray \in BOOLEAN

RequestInit ==
  /\ pending = {}
  /\ stray = FALSE

(* A token is free for a new request once its last request was answered.   *)
Idle(t) == t \in Token \ pending

(***************************************************************************)
(* The effect of one handler on the framework: `new' are the requests it   *)
(* was called with (none for an indication of the modem), `done' are the   *)
(* tokens it passes to ril_request_complete.                               *)
(***************************************************************************)
Answer(new, done) ==
  /\ pending' = (pending \cup new) \ done
  /\ stray' = (stray \/ ~(done \subseteq pending \cup new))

(* No module tells one token from another, so what comes to be for one     *)
(* comes to be for every one: liveness is stated of one.                   *)
AnyToken == CHOOSE t \in Token : TRUE
=============================================================================
