------------------------------ MODULE RilRadio ------------------------------
(***************************************************************************)
(* Power, SIM and radio state (mocha-ril/pwr.c, sim.c) and the requests    *)
(* for the identity of the phone that wait for the modem (misc.c): their   *)
(* tokens are kept in ril_data.tokens, and ril_tokens_check answers them.  *)
(*                                                                         *)
(* The modem may start more than once, and reports the SIM whenever it     *)
(* likes.  The version, IMEI and IMSI are reduced to whether they are      *)
(* known; what the handlers send to the modem is left out, as nothing here *)
(* waits for an answer to it; so is bPinLock, which is only reported.      *)
(***************************************************************************)
EXTENDS RilRequests

VARIABLES
  power,    (* ril_data.state.power_state                                  *)
  sim,      (* ril_data.state.sim_state                                    *)
  radio,    (* ril_data.state.radio_state                                  *)
  known,    (* cached_sw_version, cached_imei and cached_imsi are not ""   *)
  asked,    (* tokens.baseband_version, tokens.get_imei, tokens.get_imsi   *)
  doubled   (* history: a request came while another of its kind waited    *)

stateVars == <<power, sim, radio>>
identityVars == <<known, asked, doubled>>
radioVars == <<power, sim, radio, known, asked, doubled, pending, stray>>

Power == {"OFF", "LPM", "NORMAL"}
Identity == {"version", "imei", "imsi"}

(* The SIM states the modem's events and the CHV answers lead to.          *)
SimState == {"NOT_READY", "READY", "ABSENT", "PIN", "PUK", "BLOCKED"}
RadioState == {"OFF", "ON", "SIM_READY", "SIM_NOT_READY", "SIM_LOCKED_OR_ABSENT"}

RadioTypeOK ==
  /\ power \in Power
  /\ sim \in SimState
  /\ radio \in RadioState
  /\ known \in [Identity -> BOOLEAN]
  /\ asked \in [Identity -> Token \cup {NoToken}]
  /\ doubled \in BOOLEAN
  /\ RequestTypeOK

RadioInit ==
  /\ power = "OFF"
  /\ sim = "NOT_READY"
  /\ radio = "OFF"
  /\ known = [k \in Identity |-> FALSE]
  /\ asked = [k \in Identity |-> NoToken]
  /\ doubled = FALSE
  /\ RequestInit

-----------------------------------------------------------------------------
(* ril_tokens_check, in a handler that leaves the radio state `rad' and    *)
(* the identities `kn' behind; `new' and `done' are as for Answer.  The    *)
(* version's token is taken whether or not the version is known.           *)
Due(rad, kn) ==
  {k \in Identity : asked[k] # NoToken /\ IF k = "version" THEN rad # "OFF" ELSE kn[k]}

(* Mutants: the tokens are not cleared; all of them are.                   *)
TokensCheckKeeps(rad, kn, new, done) ==
  /\ UNCHANGED asked
  /\ Answer(new, done \cup {asked[k] : k \in {j \in Due(rad, kn) : kn[j]}})

TokensCheckClears(rad, kn, new, done) ==
  /\ asked' = [k \in Identity |-> NoToken]
  /\ Answer(new, done \cup {asked[k] : k \in {j \in Due(rad, kn) : kn[j]}})

TokensCheck(rad, kn, new, done) ==
  /\ asked' = [k \in Identity |-> IF k \in Due(rad, kn) THEN NoToken ELSE asked[k]]
  /\ Answer(new, done \cup {asked[k] : k \in {j \in Due(rad, kn) : kn[j]}})

(* The radio state that goes with a SIM state.                             *)
RadioOf(s) ==
  CASE s = "READY" -> "SIM_READY"
    [] s = "NOT_READY" -> "SIM_NOT_READY"
    [] OTHER -> "SIM_LOCKED_OR_ABSENT"

(* ril_state_update: without power only the SIM state is recorded.         *)
StateUpdate(s, new, done) ==
  /\ sim' = s
  /\ \/ /\ power # "NORMAL"
        /\ Answer(new, done)
        /\ UNCHANGED <<radio, asked>>
     \/ /\ power = "NORMAL"
        /\ radio' = RadioOf(s)
        /\ TokensCheck(RadioOf(s), known, new, done)

-----------------------------------------------------------------------------
(* Requests of the framework.                                              *)

(* ril_request_baseband_version, ril_request_get_imei and                  *)
(* ril_request_get_imsi: the token replaces one that waits.                *)
Ask(k, t) ==
  /\ \/ /\ known[k]
        /\ Answer({t}, {t})
        /\ asked' = IF k = "imsi" THEN [asked EXCEPT ![k] = NoToken] ELSE asked
        /\ UNCHANGED doubled
     \/ /\ ~known[k]
        /\ Answer({t}, {})
        /\ asked' = [asked EXCEPT ![k] = t]
        /\ doubled' = (doubled \/ asked[k] # NoToken)
  /\ UNCHANGED <<known, stateVars>>

(* Mutant: a SIM that is ready already is not reported again.              *)
PowerOnOnly(t) ==
  /\ power # "OFF"
  /\ power' = "NORMAL"
  /\ radio' = "ON"
  /\ Answer({t}, {t})
  /\ UNCHANGED <<sim, asked, known, doubled>>

(* ril_request_radio_power; network_start reports a SIM that is ready.     *)
PowerOn(t) ==
  /\ power # "OFF"
  /\ power' = "NORMAL"
  /\ \/ /\ sim # "READY"
        /\ radio' = "ON"
        /\ Answer({t}, {t})
        /\ UNCHANGED asked
     \/ /\ sim = "READY"
        /\ radio' = RadioOf(sim)
        /\ TokensCheck(RadioOf(sim), known, {t}, {t})
  /\ UNCHANGED <<sim, known, doubled>>

PowerOff(t) ==
  /\ power # "OFF"
  /\ power' = "LPM"
  /\ radio' = "OFF"
  /\ Answer({t}, {t})
  /\ UNCHANGED <<sim, identityVars>>

PowerRefused(t) ==
  /\ power = "OFF"
  /\ Answer({t}, {t})
  /\ UNCHANGED <<stateVars, identityVars>>

PowerRequest(t) == PowerOn(t) \/ PowerOff(t) \/ PowerRefused(t)

-----------------------------------------------------------------------------
(* Indications of the modem.                                               *)

(* ipc_cp_system_start: the modem has booted and names its version.        *)
CpSystemStart ==
  /\ power' = "LPM"
  /\ radio' = "OFF"
  /\ known' = [known EXCEPT !["version"] = TRUE]
  /\ TokensCheck("OFF", known', {}, {})
  /\ UNCHANGED <<sim, doubled>>

(* ipc_parse_dbg_level: syssec_send_imei loads the IMEI, once.             *)
ParseDbgLevel ==
  /\ ~known["imei"]
  /\ known' = [known EXCEPT !["imei"] = TRUE]
  /\ UNCHANGED <<stateVars, asked, doubled, pending, stray>>

(* ipc_sim_status, for SIM_EVENT_VERIFY_PIN1_IND.                          *)
SimStatus(s) ==
  /\ StateUpdate(s, {}, {})
  /\ UNCHANGED <<power, known, doubled>>

(* Mutant: the tokens are not looked at once the IMSI is known.            *)
SimOpenUnchecked(s, imsi) ==
  /\ known' = [known EXCEPT !["imsi"] = imsi]
  /\ StateUpdate(s, {}, {})
  /\ UNCHANGED <<power, doubled>>

(* ipc_sim_open, which reports the SIM and learns the IMSI, then calls     *)
(* ril_tokens_check (again).  Only a card that is ready has an IMSI; for   *)
(* any other an uninitialised buffer is copied, an empty string or not.    *)
SimOpen(s, imsi) ==
  LET rad == IF power = "NORMAL" THEN RadioOf(s) ELSE radio
  IN /\ sim' = s
     /\ radio' = rad
     /\ known' = [known EXCEPT !["imsi"] = imsi]
     /\ TokensCheck(rad, known', {}, {})
     /\ UNCHANGED <<power, doubled>>

(* SIM_EVENT_SIM_OPEN with a status that is neither of the two tested.     *)
SimOpenOther(imsi) ==
  /\ known' = [known EXCEPT !["imsi"] = imsi]
  /\ TokensCheck(radio, known', {}, {})
  /\ UNCHANGED <<stateVars, doubled>>

(* The indications that may change the state of the radio or of the SIM.   *)
StateIndication ==
  \/ CpSystemStart
  \/ \E s \in {"PIN", "PUK"} : SimStatus(s)
  \/ SimOpen("READY", TRUE)
  \/ \E imsi \in BOOLEAN : SimOpen("ABSENT", imsi) \/ SimOpenOther(imsi)

RadioNext ==
  \/ \E t \in Token : Idle(t) /\ (PowerRequest(t) \/ \E k \in Identity : Ask(k, t))
  \/ StateIndication
  \/ ParseDbgLevel

RadioSpec == RadioInit /\ [][RadioNext]_radioVars

-----------------------------------------------------------------------------
(* Safety.                                                                 *)

(* ril_state_update, ril_request_radio_power, ipc_cp_system_start: the     *)
(* radio state the framework reads is off exactly without power, else it   *)
(* tells of the SIM as it is now, if at all; a SIM that got ready while    *)
(* the radio was off is not missed.                                        *)
RadioFollows ==
  /\ radio = "OFF" <=> power # "NORMAL"
  /\ radio \notin {"OFF", "ON"} => radio = RadioOf(sim)
  /\ sim = "READY" /\ power = "NORMAL" => radio = "SIM_READY"

Asked == {asked[k] : k \in Identity} \ {NoToken}

(* misc.c: a stored token is one the framework waits for, stored once, and *)
(* ril_tokens_check completes it once.                                     *)
TokensOnce ==
  /\ Asked \subseteq pending
  /\ \A j, k \in Identity : asked[j] = asked[k] /\ asked[j] # NoToken => j = k
  /\ ~stray

(* misc.c, "queuing token!": no request is lost, although the token of the *)
(* version is cleared by ril_tokens_check whether it was answered or       *)
(* queued again; only a second request of the same kind loses the first.   *)
NoneLost == ~doubled => pending = Asked

(* What a queued request still waits for: the IMSI, or, for the version,   *)
(* the report of the SIM that follows power.  The version is known by then *)
(* because there is no power before the modem has started.                 *)
WaitsForReason ==
  /\ asked["imsi"] # NoToken => ~known["imsi"]
  /\ asked["version"] # NoToken => radio \in {"OFF", "ON"}
  /\ power # "OFF" => known["version"]

(* "this should be called after syssec data loading and after receiving    *)
(* system info from modem" (mocha-ril.c:254, of ril_tokens_check): once    *)
(* the IMEI is loaded and the version received, nobody waits for either.   *)
(* But nothing calls it after the loading, and when it is called for the   *)
(* system info the radio state has just been set to off.                   *)
KnownIsAnswered ==
  known["imei"] /\ known["version"] =>
    asked["imei"] = NoToken /\ asked["version"] = NoToken
=============================================================================
