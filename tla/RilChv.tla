------------------------------- MODULE RilChv -------------------------------
(***************************************************************************)
(* PIN and PUK (mocha-ril/sim.c): the requests that verify, unblock,       *)
(* enable, disable or change a PIN keep their token in ril_data.tokens,    *)
(* one for each kind.  Their answers from the SIM all reach the same       *)
(* handler, ipc_lock_status, which does not look at what was answered but  *)
(* completes the first kind that waits.                                    *)
(*                                                                         *)
(* An answer that no attempts are left changes the SIM state, and with it  *)
(* the radio state: this module composes with the power requests and the   *)
(* indications of RilRadio.  The passwords and the attempts left are not   *)
(* modelled; the SIM answers as it likes, with the lock states and for the *)
(* facilities the library tells apart.                                     *)
(***************************************************************************)
EXTENDS Naturals, Sequences, FiniteSets, RilRadio

CONSTANT
  MaxChv    (* bound on the CHV commands the SIM has not answered          *)

ASSUME ChvAssumption == MaxChv \in Nat \ {0}

VARIABLES
  chv,      (* tokens.set_facility_lock, change_sim_pin, pin_status,       *)
            (* puk_status                                                  *)
  cmds,     (* the CHV commands the SIM has not answered, by kind          *)
  mixed     (* history: a request was made while another one waited, or    *)
            (* was both refused and made                                   *)

chvVars == <<chv, cmds, mixed>>
vars == <<radioVars, chvVars>>

(* The kinds of request, by the field that keeps the token.                *)
Kind == {"facility", "change", "pin", "puk"}
Status == {"ok", "wrong", "blocked", "error"}

TypeOK ==
  /\ chv \in [Kind -> Token \cup {NoToken}]
  /\ cmds \in Seq(Kind)
  /\ mixed \in BOOLEAN
  /\ RadioTypeOK

Init ==
  /\ chv = [k \in Kind |-> NoToken]
  /\ cmds = <<>>
  /\ mixed = FALSE
  /\ RadioInit

Waiting == {k \in Kind : chv[k] # NoToken}

-----------------------------------------------------------------------------
(* Requests of the framework.                                              *)

(* Mutant: the token is kept, the SIM is not asked.                        *)
MakeUnsent(k, t) ==
  /\ Len(cmds) < MaxChv
  /\ chv' = [chv EXCEPT ![k] = t]
  /\ mixed' = (mixed \/ Waiting # {})
  /\ UNCHANGED cmds

(* The command is sent, the token kept in place of one that waits.         *)
Make(k, t) ==
  /\ Len(cmds) < MaxChv
  /\ cmds' = Append(cmds, k)
  /\ chv' = [chv EXCEPT ![k] = t]
  /\ mixed' = (mixed \/ Waiting # {})

(* ril_request_enter_sim_puk, ril_request_set_facility_lock and            *)
(* ril_request_change_sim_pin.                                             *)
Change(k, t) ==
  /\ k # "pin"
  /\ Make(k, t)
  /\ Answer({t}, {})
  /\ UNCHANGED <<stateVars, identityVars>>

(* Their error exits, for data that is missing or a facility other than    *)
(* SC; also ril_request_query_facility_lock and ril_request_get_sim_status.*)
Reply(t) ==
  /\ Answer({t}, {t})
  /\ UNCHANGED <<stateVars, identityVars, chvVars>>

(* Mutant: every PIN is found too long, refused and sent all the same.     *)
EnterSimPinRefused(t) ==
  /\ Make("pin", t)
  /\ Answer({t}, {t})
  /\ UNCHANGED <<stateVars, identityVars>>

(* ril_request_enter_sim_pin.                                              *)
EnterSimPin(t) ==
  /\ Make("pin", t)
  /\ Answer({t}, {})
  /\ UNCHANGED <<stateVars, identityVars>>

(* The length that ril_request_enter_sim_pin tests is that of the bytes of *)
(* the pointer to the PIN, up to whatever follows it in memory; when it is *)
(* found too long the request is refused, and made all the same.           *)
EnterSimPinTooLong(t) ==
  /\ Len(cmds) < MaxChv
  /\ cmds' = Append(cmds, "pin")
  /\ chv' = [chv EXCEPT !["pin"] = t]
  /\ mixed' = TRUE
  /\ Answer({t}, {t})
  /\ UNCHANGED <<stateVars, identityVars>>

ChvRequest(t) ==
  \/ \E k \in Kind : Change(k, t)
  \/ Reply(t)
  \/ EnterSimPin(t) \/ EnterSimPinTooLong(t)

-----------------------------------------------------------------------------
(* The answers of the SIM, in the order of the commands.                   *)

(* The kind whose token ipc_lock_status completes, if any waits.           *)
Rank == [facility |-> 1, change |-> 2, pin |-> 3, puk |-> 4]

Active == {k \in Waiting : \A j \in Waiting : Rank[k] <= Rank[j]}

(* The SIM state when the last attempt at a PIN or a PUK failed.           *)
AfterBlocked(k) == IF k = "pin" THEN "PUK" ELSE "BLOCKED"

(* The answer from which the library learns the new SIM state.             *)
Told(k, status) == status = "blocked" /\ k \in {"pin", "puk"}

(* ipc_lock_status: the first kind that waits is answered; without one the *)
(* answer is dropped.                                                      *)
LockStatus(status) ==
  /\ cmds # <<>>
  /\ cmds' = Tail(cmds)
  /\ \/ /\ Active = {}
        /\ UNCHANGED <<chv, pending, stray, stateVars, asked>>
     \/ \E k \in Active :
          /\ chv' = [chv EXCEPT ![k] = NoToken]
          /\ \/ /\ Told(k, status)
                /\ StateUpdate(AfterBlocked(k), {}, {chv[k]})
                /\ UNCHANGED power
             \/ /\ ~Told(k, status)
                /\ Answer({}, {chv[k]})
                /\ UNCHANGED <<stateVars, asked>>
  /\ UNCHANGED <<known, doubled, mixed>>

Next ==
  \/ \E t \in Token : Idle(t) /\ ChvRequest(t)
  \/ \E t \in Token : Idle(t) /\ PowerRequest(t) /\ UNCHANGED chvVars
  \/ \E status \in Status : LockStatus(status)
  \/ StateIndication /\ UNCHANGED chvVars

Spec == Init /\ [][Next]_vars

-----------------------------------------------------------------------------
(* Safety.                                                                 *)

ChvTokens == {chv[k] : k \in Kind} \ {NoToken}

(* ipc_lock_status completes one request for each answer, whichever it is  *)
(* about, so as many answers are to come as requests wait: however the     *)
(* requests overlap, none is left waiting with nothing to come.            *)
EnoughAnswers == Cardinality(Waiting) <= Len(cmds)

(* As long as the framework waits for one answer before it asks again, the *)
(* answer completes the request it belongs to, and completes it once.      *)
RightRequest ==
  ~mixed =>
    /\ Len(cmds) <= 1
    /\ \A k \in Kind : k \in Waiting <=> \E i \in DOMAIN cmds : cmds[i] = k
    /\ ~stray
    /\ pending = ChvTokens
=============================================================================
