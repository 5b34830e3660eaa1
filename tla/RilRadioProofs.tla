---------------------------- MODULE RilRadioProofs ----------------------------
(***************************************************************************)
(* Theorems about RilRadio: what its runs check with a few tokens holds    *)
(* with any number of them.  The properties are inductive together.  The   *)
(* argument that matters is about ril_tokens_check: it clears the token of *)
(* the version without looking whether it can be answered, and loses no    *)
(* request only because the radio is never on before the modem has named   *)
(* its version.                                                            *)
(*                                                                         *)
(* The second part is about RilChv, the PIN and PUK requests over the same *)
(* state.  ipc_lock_status completes some request that waits, not the one  *)
(* that was answered, so what is inductive counts: each answer takes one   *)
(* command and at most one token away.                                     *)
(***************************************************************************)
EXTENDS RilChv, FiniteSetTheorems, TLAPS

IInv ==
  /\ RadioTypeOK
  /\ RadioFollows
  /\ TokensOnce
  /\ NoneLost
  /\ WaitsForReason

(* ril_tokens_check answers every token it clears.                         *)
LEMMA CheckTakesDue ==
  ASSUME NEW rad, NEW kn, rad # "OFF" => kn["version"]
  PROVE  {k \in Due(rad, kn) : kn[k]} = Due(rad, kn)
  BY DEF Due

(* A handler that ends in ril_tokens_check, and answers a request it was   *)
(* called with itself, keeps the tokens in order.                          *)
LEMMA CheckKeepsTokens ==
  ASSUME RadioTypeOK, TokensOnce, NoneLost,
         NEW rad, NEW kn, rad # "OFF" => kn["version"],
         NEW new \in SUBSET Token, new \cap pending = {},
         TokensCheck(rad, kn, new, new), doubled' = doubled
  PROVE  /\ asked' \in [Identity -> Token \cup {NoToken}]
         /\ RequestTypeOK'
         /\ TokensOnce'
         /\ NoneLost'
         /\ \A k \in Identity : asked'[k] # NoToken => asked'[k] = asked[k] /\ k \notin Due(rad, kn)
  <1> DEFINE D == Due(rad, kn)
             Ans == {asked[k] : k \in D}
  <1>1. /\ D \subseteq Identity
        /\ \A k \in D : asked[k] # NoToken
    BY DEF Due
  <1>2. /\ asked' = [k \in Identity |-> IF k \in D THEN NoToken ELSE asked[k]]
        /\ pending' = (pending \cup new) \ (new \cup Ans)
        /\ stray' = (stray \/ ~(new \cup Ans \subseteq pending \cup new))
    BY CheckTakesDue DEF TokensCheck, Answer
  <1>3. asked \in [Identity -> Token \cup {NoToken}] /\ pending \subseteq Token
    BY DEF RadioTypeOK, RequestTypeOK
  <1>4. Ans \subseteq Asked /\ Asked \subseteq pending /\ ~stray
    BY <1>1 DEF Asked, TokensOnce
  <1> HIDE DEF D
  <1>5. \A k \in Identity : asked'[k] = IF k \in D THEN NoToken ELSE asked[k]
    BY <1>2
  <1>6. pending' = pending \ Ans /\ stray' = FALSE
    BY <1>2, <1>4
  <1>7. asked' \in [Identity -> Token \cup {NoToken}]
    BY <1>2, <1>3
  <1>8. RequestTypeOK'
    BY <1>3, <1>6 DEF RequestTypeOK
  <1>9. ASSUME NEW k \in Identity, asked'[k] # NoToken
        PROVE  asked'[k] = asked[k] /\ k \notin D
    BY <1>5, <1>9
  <1>10. ASSUME NEW k \in Identity, k \notin D, asked[k] # NoToken
         PROVE  asked[k] \in pending \ Ans
    <2>1. asked[k] \in pending
      BY <1>4, <1>10 DEF Asked
    <2>2. asked[k] \notin Ans
      BY <1>1, <1>10 DEF TokensOnce
    <2>3. QED
      BY <2>1, <2>2
  <1>11. Asked' \subseteq pending'
    BY <1>6, <1>9, <1>10 DEF Asked
  <1>12. \A j, k \in Identity : asked'[j] = asked'[k] /\ asked'[j] # NoToken => j = k
    BY <1>9 DEF TokensOnce
  <1>13. TokensOnce'
    BY <1>6, <1>11, <1>12 DEF TokensOnce
  <1>14. NoneLost'
    <2> SUFFICES ASSUME ~doubled' PROVE pending' \subseteq Asked'
      BY <1>11 DEF NoneLost
    <2>1. pending' = Asked \ Ans
      BY <1>6 DEF NoneLost
    <2>2. ASSUME NEW y \in Asked \ Ans
          PROVE  y \in Asked'
      <3>1. PICK k \in Identity : y = asked[k] /\ y # NoToken
        BY DEF Asked
      <3>2. k \notin D
        BY <3>1, <2>2
      <3>3. asked'[k] = y
        BY <1>5, <3>1, <3>2
      <3>4. QED
        BY <3>1, <3>3 DEF Asked
    <2>3. QED
      BY <2>1, <2>2
  <1>15. QED
    BY <1>7, <1>8, <1>9, <1>13, <1>14 DEF D

LEMMA RadioInitInv == RadioInit => IInv
  BY TokenAssumption
     DEF RadioInit, RequestInit, IInv, RadioTypeOK, RequestTypeOK, RadioFollows,
         TokensOnce, NoneLost, WaitsForReason, Asked, Power, SimState, RadioState,
         Identity, RadioOf

(* Every step keeps the invariant.  The handlers that end in               *)
(* ril_tokens_check owe what they do to the tokens to CheckKeepsTokens.    *)
LEMMA RadioStep == IInv /\ [RadioNext]_radioVars => IInv'
  <1> SUFFICES ASSUME IInv, [RadioNext]_radioVars PROVE IInv'
    OBVIOUS
  <1>1. /\ power \in Power /\ sim \in SimState /\ radio \in RadioState
        /\ known \in [Identity -> BOOLEAN]
        /\ asked \in [Identity -> Token \cup {NoToken}]
        /\ doubled \in BOOLEAN
        /\ pending \subseteq Token /\ stray = FALSE
    BY DEF IInv, RadioTypeOK, RequestTypeOK, TokensOnce
  <1>2. RadioTypeOK /\ TokensOnce /\ NoneLost /\ RadioFollows /\ WaitsForReason
    BY DEF IInv
  <1>3. /\ "version" \in Identity /\ "imei" \in Identity /\ "imsi" \in Identity
        /\ \A s \in SimState : RadioOf(s) \in RadioState \ {"OFF", "ON"}
        /\ RadioOf("READY") = "SIM_READY"
    BY DEF Identity, RadioOf, RadioState, SimState
  <1>4. radio # "OFF" => known["version"]
    BY <1>1, <1>2 DEF RadioFollows, WaitsForReason
  <1>5. {} \in SUBSET Token /\ {} \cap pending = {}
    OBVIOUS
  <1>6. ASSUME NEW t \in Token, Idle(t), Answer({t}, {t})
        PROVE  pending' = pending /\ stray' = FALSE
    BY <1>1, <1>6 DEF Answer, Idle
  <1>7. ASSUME UNCHANGED <<asked, doubled, pending>>, stray' = FALSE
        PROVE  TokensOnce' /\ NoneLost' /\ RequestTypeOK'
    BY <1>1, <1>2, <1>7 DEF TokensOnce, NoneLost, Asked, RequestTypeOK
  <1>8. ASSUME NEW t \in Token, Idle(t), PowerOn(t)
        PROVE  IInv'
    <2>1. CASE sim # "READY"
      <3>1. /\ power' = "NORMAL" /\ radio' = "ON"
            /\ UNCHANGED <<sim, known, doubled, asked>> /\ power # "OFF"
        BY <1>8, <2>1 DEF PowerOn
      <3>2. UNCHANGED pending /\ stray' = FALSE
        BY <1>8, <1>6, <2>1 DEF PowerOn
      <3>3. TokensOnce' /\ NoneLost' /\ RequestTypeOK'
        BY <1>7, <3>1, <3>2
      <3>4. RadioTypeOK'
        BY <1>1, <3>1, <3>3 DEF RadioTypeOK, Power, RadioState
      <3>5. RadioFollows'
        BY <2>1, <3>1 DEF RadioFollows
      <3>6. WaitsForReason'
        BY <1>2, <3>1 DEF WaitsForReason
      <3>7. QED
        BY <3>3, <3>4, <3>5, <3>6 DEF IInv
    <2>2. CASE sim = "READY"
      <3>1. /\ power' = "NORMAL" /\ radio' = "SIM_READY"
            /\ UNCHANGED <<sim, known, doubled>> /\ power # "OFF"
            /\ TokensCheck("SIM_READY", known, {t}, {t})
        BY <1>3, <1>8, <2>2 DEF PowerOn
      <3>2. known["version"] /\ {t} \in SUBSET Token /\ {t} \cap pending = {}
        BY <1>2, <1>8, <3>1 DEF WaitsForReason, Idle
      <3>3. /\ asked' \in [Identity -> Token \cup {NoToken}]
            /\ RequestTypeOK' /\ TokensOnce' /\ NoneLost'
            /\ \A k \in Identity : asked'[k] # NoToken =>
                 asked'[k] = asked[k] /\ k \notin Due("SIM_READY", known)
        BY <1>2, <3>1, <3>2, CheckKeepsTokens
      <3>4. RadioTypeOK'
        BY <1>1, <3>1, <3>3 DEF RadioTypeOK, Power, RadioState
      <3>5. RadioFollows'
        BY <1>3, <2>2, <3>1 DEF RadioFollows
      <3>6. WaitsForReason'
        BY <1>2, <1>3, <3>1, <3>2, <3>3 DEF WaitsForReason, Due
      <3>7. QED
        BY <3>3, <3>4, <3>5, <3>6 DEF IInv
    <2>3. QED
      BY <2>1, <2>2
  <1>9. ASSUME NEW t \in Token, Idle(t), PowerOff(t)
        PROVE  IInv'
    <2>1. /\ power' = "LPM" /\ radio' = "OFF" /\ UNCHANGED <<sim, identityVars>>
          /\ power # "OFF"
      BY <1>9 DEF PowerOff
    <2>2. UNCHANGED pending /\ stray' = FALSE
      BY <1>9, <1>6 DEF PowerOff
    <2>3. TokensOnce' /\ NoneLost' /\ RequestTypeOK'
      BY <1>7, <2>1, <2>2 DEF identityVars
    <2>4. RadioTypeOK'
      BY <1>1, <2>1, <2>3 DEF RadioTypeOK, Power, RadioState, identityVars
    <2>5. RadioFollows' /\ WaitsForReason'
      BY <1>2, <2>1 DEF RadioFollows, WaitsForReason, identityVars
    <2>6. QED
      BY <2>3, <2>4, <2>5 DEF IInv
  <1>10. ASSUME NEW t \in Token, Idle(t), PowerRefused(t)
        PROVE  IInv'
    <2>1. UNCHANGED <<stateVars, identityVars>>
      BY <1>10 DEF PowerRefused
    <2>2. UNCHANGED pending /\ stray' = FALSE
      BY <1>10, <1>6 DEF PowerRefused
    <2>3. TokensOnce' /\ NoneLost' /\ RequestTypeOK'
      BY <1>7, <2>1, <2>2 DEF identityVars
    <2>4. RadioTypeOK' /\ RadioFollows' /\ WaitsForReason'
      BY <1>2, <2>1, <2>3
         DEF RadioTypeOK, RadioFollows, WaitsForReason, identityVars, stateVars
    <2>5. QED
      BY <2>3, <2>4 DEF IInv
  <1>11. ASSUME NEW k \in Identity, NEW t \in Token, Idle(t), Ask(k, t)
         PROVE  IInv'
    <2>1. UNCHANGED <<known, stateVars>>
      BY <1>11 DEF Ask
    <2>2. CASE known[k]
      <3>1. UNCHANGED <<doubled, pending>> /\ stray' = FALSE
        BY <1>6, <1>11, <2>2 DEF Ask
      <3>2. k = "imsi" => asked[k] = NoToken
        BY <1>2, <2>2 DEF WaitsForReason
      <3>3. UNCHANGED asked
        BY <1>1, <1>11, <2>2, <3>2 DEF Ask
      <3>4. TokensOnce' /\ NoneLost' /\ RequestTypeOK'
        BY <1>7, <3>1, <3>3
      <3>5. RadioTypeOK' /\ RadioFollows' /\ WaitsForReason'
        BY <1>2, <2>1, <3>1, <3>3, <3>4
           DEF RadioTypeOK, RadioFollows, WaitsForReason, stateVars
      <3>6. QED
        BY <3>4, <3>5 DEF IInv
    <2>3. CASE ~known[k]
      <3>1. /\ asked' = [asked EXCEPT ![k] = t]
            /\ doubled' = (doubled \/ asked[k] # NoToken)
            /\ pending' = pending \cup {t} /\ stray' = FALSE
        BY <1>1, <1>11, <2>3 DEF Ask, Answer
      <3>2. t \notin pending /\ t # NoToken /\ t \notin Asked
        BY <1>2, <1>11, TokenAssumption DEF Idle, TokensOnce
      <3>3. /\ asked' \in [Identity -> Token \cup {NoToken}]
            /\ asked'[k] = t
            /\ \A j \in Identity \ {k} : asked'[j] = asked[j]
        BY <1>1, <3>1
      <3>4. RequestTypeOK' /\ doubled' \in BOOLEAN
        BY <1>1, <3>1 DEF RequestTypeOK
      <3>5. Asked' \subseteq Asked \cup {t}
        BY <3>3 DEF Asked
      <3>6. TokensOnce'
        <4>1. Asked' \subseteq pending'
          BY <1>2, <3>1, <3>5 DEF TokensOnce
        <4>2. \A j \in Identity \ {k} : asked'[j] # t
          BY <3>2, <3>3 DEF Asked
        <4>3. \A i, j \in Identity : asked'[i] = asked'[j] /\ asked'[i] # NoToken => i = j
          BY <1>2, <3>3, <4>2 DEF TokensOnce
        <4>4. QED
          BY <3>1, <4>1, <4>3 DEF TokensOnce
      <3>7. NoneLost'
        <4> SUFFICES ASSUME ~doubled' PROVE pending' = Asked'
          BY DEF NoneLost
        <4>1. pending = Asked /\ asked[k] = NoToken
          BY <1>2, <3>1 DEF NoneLost
        <4>2. Asked \cup {t} \subseteq Asked'
          BY <3>2, <3>3, <4>1 DEF Asked
        <4>3. QED
          BY <3>1, <3>5, <4>1, <4>2
      <3>8. RadioTypeOK' /\ RadioFollows'
        BY <1>2, <2>1, <3>3, <3>4 DEF RadioTypeOK, RadioFollows, stateVars
      <3>9. WaitsForReason'
        BY <1>2, <1>3, <1>4, <2>1, <2>3, <3>3 DEF WaitsForReason, stateVars
      <3>10. QED
        BY <3>6, <3>7, <3>8, <3>9 DEF IInv
    <2>4. QED
      BY <2>2, <2>3
  <1>12. CASE CpSystemStart
    <2>1. /\ power' = "LPM" /\ radio' = "OFF" /\ UNCHANGED <<sim, doubled>>
          /\ known' = [known EXCEPT !["version"] = TRUE]
          /\ TokensCheck("OFF", known', {}, {})
      BY <1>12 DEF CpSystemStart
    <2>2. /\ asked' \in [Identity -> Token \cup {NoToken}]
          /\ RequestTypeOK' /\ TokensOnce' /\ NoneLost'
          /\ \A k \in Identity : asked'[k] # NoToken =>
               asked'[k] = asked[k] /\ k \notin Due("OFF", known')
      BY <1>2, <1>5, <2>1, CheckKeepsTokens
    <2>3. known' \in [Identity -> BOOLEAN] /\ known'["version"] /\ known'["imsi"] = known["imsi"]
      BY <1>1, <1>3, <2>1
    <2>4. RadioTypeOK' /\ RadioFollows'
      BY <1>1, <2>1, <2>2, <2>3 DEF RadioTypeOK, RadioFollows, Power, RadioState
    <2>5. WaitsForReason'
      BY <1>2, <1>3, <2>1, <2>2, <2>3 DEF WaitsForReason
    <2>6. QED
      BY <2>2, <2>4, <2>5 DEF IInv
  <1>13. CASE ParseDbgLevel
    <2>1. /\ UNCHANGED <<stateVars, asked, doubled, pending, stray>>
          /\ known' = [known EXCEPT !["imei"] = TRUE]
      BY <1>13 DEF ParseDbgLevel
    <2>2. TokensOnce' /\ NoneLost' /\ RequestTypeOK'
      BY <1>1, <1>7, <2>1
    <2>3. /\ known' \in [Identity -> BOOLEAN]
          /\ known'["version"] = known["version"] /\ known'["imsi"] = known["imsi"]
      BY <1>1, <1>3, <2>1
    <2>4. RadioTypeOK' /\ RadioFollows' /\ WaitsForReason'
      BY <1>2, <2>1, <2>2, <2>3
         DEF RadioTypeOK, RadioFollows, WaitsForReason, stateVars
    <2>5. QED
      BY <2>2, <2>4 DEF IInv
  <1>14. ASSUME NEW s \in {"PIN", "PUK"}, SimStatus(s)
         PROVE  IInv'
    <2>1. sim' = s /\ s \in SimState \ {"READY"} /\ UNCHANGED <<power, known, doubled>>
      BY <1>14 DEF SimStatus, StateUpdate, SimState
    <2>2. CASE power # "NORMAL"
      <3>1. UNCHANGED <<radio, asked, pending>> /\ stray' = FALSE
        BY <1>1, <1>14, <2>2 DEF SimStatus, StateUpdate, Answer
      <3>2. TokensOnce' /\ NoneLost' /\ RequestTypeOK'
        BY <1>7, <2>1, <3>1
      <3>3. RadioTypeOK'
        BY <1>1, <2>1, <3>1, <3>2 DEF RadioTypeOK
      <3>4. RadioFollows' /\ WaitsForReason'
        BY <1>2, <2>1, <2>2, <3>1 DEF RadioFollows, WaitsForReason
      <3>5. QED
        BY <3>2, <3>3, <3>4 DEF IInv
    <2>3. CASE power = "NORMAL"
      <3>1. radio' = RadioOf(s) /\ TokensCheck(RadioOf(s), known, {}, {})
        BY <1>14, <2>3 DEF SimStatus, StateUpdate
      <3>2. known["version"]
        BY <1>2, <2>3 DEF WaitsForReason
      <3>3. /\ asked' \in [Identity -> Token \cup {NoToken}]
            /\ RequestTypeOK' /\ TokensOnce' /\ NoneLost'
            /\ \A k \in Identity : asked'[k] # NoToken =>
                 asked'[k] = asked[k] /\ k \notin Due(RadioOf(s), known)
        BY <1>2, <1>5, <2>1, <3>1, <3>2, CheckKeepsTokens
      <3>4. radio' \in RadioState \ {"OFF", "ON"}
        BY <1>3, <2>1, <3>1
      <3>5. RadioTypeOK'
        BY <1>1, <2>1, <3>3, <3>4 DEF RadioTypeOK
      <3>6. RadioFollows'
        BY <2>1, <2>3, <3>1, <3>4 DEF RadioFollows
      <3>7. WaitsForReason'
        BY <1>2, <1>3, <2>1, <3>1, <3>2, <3>3, <3>4 DEF WaitsForReason, Due
      <3>8. QED
        BY <3>3, <3>5, <3>6, <3>7 DEF IInv
    <2>4. QED
      BY <2>2, <2>3
  <1>15. ASSUME NEW s \in {"READY", "ABSENT"}, NEW imsi \in BOOLEAN, SimOpen(s, imsi)
         PROVE  IInv'
    <2> DEFINE rad == IF power = "NORMAL" THEN RadioOf(s) ELSE radio
    <2>1. /\ sim' = s /\ s \in SimState /\ radio' = rad
          /\ known' = [known EXCEPT !["imsi"] = imsi]
          /\ TokensCheck(rad, known', {}, {}) /\ UNCHANGED <<power, doubled>>
      BY <1>15 DEF SimOpen, SimState
    <2>2. power = "NORMAL" => rad = RadioOf(s) /\ rad \in RadioState \ {"OFF", "ON"}
      BY <1>3, <2>1
    <2>3. power # "NORMAL" => rad = "OFF"
      BY <1>2 DEF RadioFollows
    <2> HIDE DEF rad
    <2>4. known' \in [Identity -> BOOLEAN] /\ known'["version"] = known["version"]
      BY <1>1, <1>3, <2>1
    <2>5. rad # "OFF" => known'["version"]
      BY <1>2, <2>3, <2>4 DEF WaitsForReason
    <2>6. /\ asked' \in [Identity -> Token \cup {NoToken}]
          /\ RequestTypeOK' /\ TokensOnce' /\ NoneLost'
          /\ \A k \in Identity : asked'[k] # NoToken =>
               asked'[k] = asked[k] /\ k \notin Due(rad, known')
      BY <1>2, <1>5, <2>1, <2>5, CheckKeepsTokens
    <2>7. RadioTypeOK'
      BY <1>1, <2>1, <2>2, <2>3, <2>4, <2>6 DEF RadioTypeOK, RadioState
    <2>8. RadioFollows'
      BY <1>3, <2>1, <2>2, <2>3 DEF RadioFollows
    <2>9. WaitsForReason'
      BY <1>2, <1>3, <2>1, <2>4, <2>6 DEF WaitsForReason, Due
    <2>10. QED
      BY <2>6, <2>7, <2>8, <2>9 DEF IInv
  <1>16. ASSUME NEW imsi \in BOOLEAN, SimOpenOther(imsi)
         PROVE  IInv'
    <2>1. /\ known' = [known EXCEPT !["imsi"] = imsi]
          /\ TokensCheck(radio, known', {}, {}) /\ UNCHANGED <<stateVars, doubled>>
      BY <1>16 DEF SimOpenOther
    <2>2. known' \in [Identity -> BOOLEAN] /\ known'["version"] = known["version"]
      BY <1>1, <1>3, <2>1
    <2>3. /\ asked' \in [Identity -> Token \cup {NoToken}]
          /\ RequestTypeOK' /\ TokensOnce' /\ NoneLost'
          /\ \A k \in Identity : asked'[k] # NoToken =>
               asked'[k] = asked[k] /\ k \notin Due(radio, known')
      BY <1>2, <1>5, <1>4, <2>1, <2>2, CheckKeepsTokens
    <2>4. RadioTypeOK' /\ RadioFollows'
      BY <1>2, <2>1, <2>2, <2>3 DEF RadioTypeOK, RadioFollows, stateVars
    <2>5. WaitsForReason'
      BY <1>2, <1>3, <2>1, <2>2, <2>3 DEF WaitsForReason, Due, stateVars
    <2>6. QED
      BY <2>3, <2>4, <2>5 DEF IInv
  <1>17. CASE UNCHANGED radioVars
    BY <1>2, <1>17
       DEF radioVars, IInv, RadioTypeOK, RequestTypeOK, RadioFollows, TokensOnce,
           NoneLost, WaitsForReason, Asked
  <1>18. QED
    BY <1>8, <1>9, <1>10, <1>11, <1>12, <1>13, <1>14, <1>15, <1>16, <1>17
       DEF RadioNext, PowerRequest, StateIndication

LEMMA RadioInvariant == RadioSpec => []IInv
  BY RadioInitInv, RadioStep, PTL DEF RadioSpec

(* The state of power, SIM, radio and of the stored tokens stays in range. *)
THEOREM RadioTypes == RadioSpec => []RadioTypeOK
  BY RadioInvariant, PTL DEF IInv

(* The radio state the framework reads follows power and SIM.              *)
THEOREM RadioFollowsSim == RadioSpec => []RadioFollows
  BY RadioInvariant, PTL DEF IInv

(* No identity request is completed twice, or without being waited for.    *)
THEOREM RadioTokensOnce == RadioSpec => []TokensOnce
  BY RadioInvariant, PTL DEF IInv

(* ril_tokens_check loses no request it cannot answer yet.                 *)
THEOREM RadioNoneLost == RadioSpec => []NoneLost
  BY RadioInvariant, PTL DEF IInv

(* A request that still waits has something to wait for.                   *)
THEOREM RadioWaits == RadioSpec => []WaitsForReason
  BY RadioInvariant, PTL DEF IInv

-----------------------------------------------------------------------------
(* PIN and PUK requests.                                                   *)

(* sim.c does not touch the tokens of misc.c.                              *)
NobodyAsks == asked = [k \in Identity |-> NoToken]

ChvInv ==
  /\ TypeOK
  /\ NobodyAsks
  /\ RadioFollows
  /\ EnoughAnswers
  /\ RightRequest

(* ipc_lock_status finds a request to complete whenever one waits.         *)
LEMMA SomeActive ==
  ASSUME Active = {}
  PROVE  Waiting = {}
<1>1. /\ Rank["facility"] = 1 /\ Rank["change"] = 2 /\ Rank["pin"] = 3 /\ Rank["puk"] = 4
  BY DEF Rank
<1>2. \A k \in Kind : k = "facility" \/ k = "change" \/ k = "pin" \/ k = "puk"
  BY DEF Kind
<1>3. Waiting \subseteq Kind
  BY DEF Waiting
<1>4. "facility" \notin Waiting
  BY <1>1, <1>2, <1>3 DEF Active
<1>5. "change" \notin Waiting
  BY <1>1, <1>2, <1>3, <1>4 DEF Active
<1>6. "pin" \notin Waiting
  BY <1>1, <1>2, <1>3, <1>4, <1>5 DEF Active
<1>7. "puk" \notin Waiting
  BY <1>1, <1>2, <1>3, <1>4, <1>5, <1>6 DEF Active
<1> QED
  BY <1>2, <1>3, <1>4, <1>5, <1>6, <1>7

(* There are four token fields.                                            *)
LEMMA WaitingFinite ==
  /\ IsFiniteSet(Waiting)
  /\ Cardinality(Waiting) \in Nat
<1>1. IsFiniteSet({}) /\ IsFiniteSet({"facility"}) /\ IsFiniteSet({"facility", "change"})
      /\ IsFiniteSet({"facility", "change", "pin"})
  <2>1. IsFiniteSet({"facility"})
    BY FS_Singleton
  <2>2. IsFiniteSet({"facility"} \cup {"change"})
    BY <2>1, FS_AddElement
  <2>3. IsFiniteSet(({"facility"} \cup {"change"}) \cup {"pin"})
    BY <2>2, FS_AddElement
  <2>4. /\ {"facility"} \cup {"change"} = {"facility", "change"}
        /\ ({"facility"} \cup {"change"}) \cup {"pin"} = {"facility", "change", "pin"}
    OBVIOUS
  <2> QED
    BY <2>1, <2>2, <2>3, <2>4, FS_EmptySet
<1>2. IsFiniteSet({"facility", "change", "pin"} \cup {"puk"})
  BY <1>1, FS_AddElement
<1>3. Kind = {"facility", "change", "pin"} \cup {"puk"}
  BY DEF Kind
<1>4. IsFiniteSet(Kind) /\ Waiting \subseteq Kind
  BY <1>2, <1>3 DEF Waiting
<1>5. IsFiniteSet(Waiting)
  BY <1>4, FS_Subset
<1> QED
  BY <1>5, FS_CardinalityType

(* The tokens and the queue of commands keep their types, and the SIM the  *)
(* radio and the modem theirs.                                             *)
LEMMA ChvTyped ==
  ASSUME TypeOK
  PROVE  /\ chv \in [Kind -> Token \cup {NoToken}] /\ cmds \in Seq(Kind)
         /\ mixed \in BOOLEAN /\ power \in Power /\ sim \in SimState
         /\ radio \in RadioState /\ known \in [Identity -> BOOLEAN]
         /\ asked \in [Identity -> Token \cup {NoToken}]
         /\ doubled \in BOOLEAN /\ pending \subseteq Token /\ stray \in BOOLEAN
BY DEF TypeOK, RadioTypeOK, RequestTypeOK

(* Without an identity request ril_tokens_check answers nobody.            *)
LEMMA NothingDue ==
  ASSUME NobodyAsks, NEW rad, NEW new, NEW done, TokensCheck(rad, known', new, done)
         \/ TokensCheck(rad, known, new, done)
  PROVE  NobodyAsks' /\ Answer(new, done)
<1>1. \A k \in Identity : asked[k] = NoToken
  BY DEF NobodyAsks
<1>2. \A kn : Due(rad, kn) = {}
  BY <1>1 DEF Due
<1>3. \A kn : done \cup {asked[k] : k \in {j \in Due(rad, kn) : kn[j]}} = done
  BY <1>2
<1>4. Answer(new, done)
  BY <1>3 DEF TokensCheck
<1>5. asked' = [k \in Identity |-> asked[k]]
  BY <1>2 DEF TokensCheck
<1> QED
  BY <1>1, <1>4, <1>5 DEF NobodyAsks

LEMMA ChvInitInv == Init => ChvInv
<1> SUFFICES ASSUME Init PROVE ChvInv
  OBVIOUS
<1>1. chv = [k \in Kind |-> NoToken] /\ cmds = <<>> /\ mixed = FALSE
      /\ power = "OFF" /\ sim = "NOT_READY" /\ radio = "OFF"
      /\ known = [k \in Identity |-> FALSE] /\ asked = [k \in Identity |-> NoToken]
      /\ doubled = FALSE /\ pending = {} /\ stray = FALSE
  BY DEF Init, RadioInit, RequestInit
<1>2. <<>> \in Seq(Kind) /\ DOMAIN <<>> = {} /\ Len(<<>>) = 0
  OBVIOUS
<1>3. TypeOK
  BY <1>1, <1>2
     DEF TypeOK, RadioTypeOK, RequestTypeOK, Power, SimState, RadioState
<1>4. Waiting = {} /\ ChvTokens = {}
  BY <1>1 DEF Waiting, ChvTokens
<1>5. EnoughAnswers
  BY <1>1, <1>2, <1>4, FS_EmptySet DEF EnoughAnswers
<1>6. RightRequest
  BY <1>1, <1>2, <1>4 DEF RightRequest
<1>7. RadioFollows /\ NobodyAsks
  BY <1>1 DEF RadioFollows, NobodyAsks
<1> QED
  BY <1>3, <1>5, <1>6, <1>7 DEF ChvInv

(* A request keeps its token and is sent; one that is refused all the same *)
(* counts as mixed.                                                        *)
LEMMA MakeInv ==
  ASSUME ChvInv, NEW k \in Kind, NEW t \in Token, Idle(t),
         cmds' = Append(cmds, k), chv' = [chv EXCEPT ![k] = t],
         UNCHANGED <<stateVars, identityVars>>,
         \/ mixed' = (mixed \/ Waiting # {}) /\ Answer({t}, {})
         \/ mixed' = TRUE /\ Answer({t}, {t})
  PROVE  ChvInv'
<1>1. TypeOK /\ UNCHANGED <<power, sim, radio, known, asked, doubled>> /\ t \notin pending
      /\ t # NoToken
  BY TokenAssumption DEF ChvInv, stateVars, identityVars, Idle
<1>0. /\ chv \in [Kind -> Token \cup {NoToken}] /\ cmds \in Seq(Kind)
      /\ mixed \in BOOLEAN /\ pending \subseteq Token
  BY <1>1, ChvTyped
<1>2. TypeOK'
  <2>1. chv' \in [Kind -> Token \cup {NoToken}] /\ cmds' \in Seq(Kind)
    BY <1>0
  <2>2. pending' \subseteq Token
    BY <1>0 DEF Answer
  <2>3. stray' \in BOOLEAN
    BY DEF Answer
  <2>4. mixed' \in BOOLEAN
    OBVIOUS
  <2> QED
    BY <1>1, <2>1, <2>2, <2>3, <2>4 DEF TypeOK, RadioTypeOK, RequestTypeOK
<1>3. Waiting' = Waiting \cup {k}
  BY <1>0, <1>1 DEF Waiting
<1>4. EnoughAnswers'
  <2>1. Cardinality(Waiting \cup {k}) =
          IF k \in Waiting THEN Cardinality(Waiting) ELSE Cardinality(Waiting) + 1
    BY WaitingFinite, FS_AddElement
  <2>2. Len(cmds') = Len(cmds) + 1 /\ Len(cmds) \in Nat
    BY <1>0
  <2>3. Cardinality(Waiting) \in Nat /\ Cardinality(Waiting) <= Len(cmds)
    BY WaitingFinite DEF ChvInv, EnoughAnswers
  <2>4. Cardinality(Waiting \cup {k}) <= Len(cmds')
    BY <2>1, <2>2, <2>3
  <2> QED
    BY <1>3, <2>4 DEF EnoughAnswers
<1>5. RightRequest'
  <2> SUFFICES ASSUME ~mixed' PROVE RightRequest'
    BY DEF RightRequest
  <2>1. ~mixed /\ Waiting = {} /\ Answer({t}, {})
    OBVIOUS
  <2>2. /\ \A j \in Kind : ~ \E i \in DOMAIN cmds : cmds[i] = j
        /\ ~stray /\ pending = ChvTokens
    BY <2>1 DEF ChvInv, RightRequest
  <2>3. ChvTokens = {} /\ \A j \in Kind : chv[j] = NoToken
    BY <2>1 DEF ChvTokens, Waiting
  <2>4. Len(cmds) = 0
    <3>1. ASSUME Len(cmds) # 0 PROVE FALSE
      <4>1. 1 \in DOMAIN cmds /\ cmds[1] \in Kind
        BY <1>0, <3>1
      <4> QED
        BY <2>2, <4>1
    <3> QED
      BY <3>1
  <2>5. Len(cmds') = 1 /\ DOMAIN cmds' = {1} /\ cmds'[1] = k
    BY <1>0, <2>4
  <2>6. chv'[k] = t /\ \A j \in Kind \ {k} : chv'[j] = NoToken
    BY <1>0, <2>3
  <2>7. ChvTokens' = {t}
    BY <1>1, <2>6 DEF ChvTokens
  <2>8. pending' = {t} /\ ~stray'
    BY <2>1, <2>2, <2>3 DEF Answer
  <2>9. \A j \in Kind : j \in Waiting' <=> \E i \in DOMAIN cmds' : cmds'[i] = j
    BY <1>3, <2>1, <2>5
  <2> QED
    BY <2>5, <2>7, <2>8, <2>9 DEF RightRequest
<1>6. RadioFollows' /\ NobodyAsks'
  BY <1>1 DEF ChvInv, RadioFollows, NobodyAsks
<1> QED
  BY <1>2, <1>4, <1>5, <1>6 DEF ChvInv

(* A request that is answered at once, whatever it does to the radio.      *)
LEMMA AnsweredInv ==
  ASSUME ChvInv, NEW new \in SUBSET Token, new \cap pending = {}, Answer(new, new),
         UNCHANGED chvVars, NobodyAsks', RadioFollows',
         power' \in Power, sim' \in SimState, radio' \in RadioState,
         known' \in [Identity -> BOOLEAN], doubled' = doubled
  PROVE  ChvInv'
<1>1. TypeOK /\ UNCHANGED <<chv, cmds, mixed>>
  BY DEF ChvInv, chvVars
<1>2. pending' = pending /\ stray' = stray
  BY <1>1, ChvTyped DEF Answer
<1>3. asked' \in [Identity -> Token \cup {NoToken}]
  BY DEF NobodyAsks
<1>4. TypeOK'
  BY <1>1, <1>2, <1>3, ChvTyped DEF TypeOK, RadioTypeOK, RequestTypeOK
<1>5. EnoughAnswers'
  BY <1>1 DEF ChvInv, EnoughAnswers, Waiting
<1>6. RightRequest'
  BY <1>1, <1>2 DEF ChvInv, RightRequest, Waiting, ChvTokens
<1> QED
  BY <1>4, <1>5, <1>6 DEF ChvInv

(* ipc_lock_status, for one of the four tokens or for none.                *)
LEMMA LockStatusInv ==
  ASSUME ChvInv, NEW status \in Status, LockStatus(status)
  PROVE  ChvInv'
<1>1. /\ TypeOK /\ NobodyAsks /\ RadioFollows
      /\ cmds # <<>> /\ cmds' = Tail(cmds) /\ UNCHANGED <<known, doubled, mixed>>
  BY DEF ChvInv, LockStatus
<1>2. /\ chv \in [Kind -> Token \cup {NoToken}] /\ cmds \in Seq(Kind)
      /\ pending \subseteq Token
  BY <1>1, ChvTyped
<1>3. /\ cmds' \in Seq(Kind) /\ Len(cmds) \in Nat \ {0} /\ Len(cmds') = Len(cmds) - 1
      /\ 1 \in DOMAIN cmds /\ cmds[1] \in Kind /\ (Len(cmds) = 1 => DOMAIN cmds' = {})
  BY <1>1, <1>2
<1>4. CASE Active = {} /\ UNCHANGED <<chv, pending, stray, stateVars, asked>>
  <2>1. Waiting = {} /\ Waiting' = {}
    BY <1>4, SomeActive DEF Waiting
  <2>2. TypeOK' /\ RadioFollows' /\ NobodyAsks'
    BY <1>1, <1>3, <1>4
       DEF TypeOK, RadioTypeOK, RequestTypeOK, RadioFollows, NobodyAsks, stateVars
  <2>3. EnoughAnswers'
    BY <1>3, <2>1, FS_EmptySet DEF EnoughAnswers
  <2>4. mixed
    BY <1>3, <2>1 DEF ChvInv, RightRequest
  <2>5. RightRequest'
    BY <1>1, <2>4 DEF RightRequest
  <2> QED
    BY <2>2, <2>3, <2>5 DEF ChvInv
<1>5. ASSUME NEW k \in Active, chv' = [chv EXCEPT ![k] = NoToken],
             \/ /\ Told(k, status)
                /\ StateUpdate(AfterBlocked(k), {}, {chv[k]})
                /\ UNCHANGED power
             \/ /\ ~Told(k, status)
                /\ Answer({}, {chv[k]})
                /\ UNCHANGED <<stateVars, asked>>
      PROVE  ChvInv'
  <2>1. k \in Waiting /\ k \in Kind /\ chv[k] # NoToken
    BY DEF Active, Waiting
  <2>2. AfterBlocked(k) \in SimState \ {"READY"}
    BY DEF AfterBlocked, SimState
  <2>3. /\ NobodyAsks' /\ Answer({}, {chv[k]}) /\ power' = power /\ RadioFollows'
        /\ sim' \in SimState /\ radio' \in RadioState
    <3>1. CASE ~Told(k, status)
      BY <1>1, <1>5, <3>1, ChvTyped DEF NobodyAsks, RadioFollows, stateVars
    <3>2. CASE Told(k, status)
      <4>1. StateUpdate(AfterBlocked(k), {}, {chv[k]}) /\ power' = power
        BY <1>5, <3>2
      <4>2. CASE power # "NORMAL"
        <5>1. /\ sim' = AfterBlocked(k) /\ Answer({}, {chv[k]})
              /\ UNCHANGED <<radio, asked>>
          BY <4>1, <4>2 DEF StateUpdate
        <5>2. RadioFollows'
          BY <1>1, <4>1, <4>2, <5>1 DEF RadioFollows
        <5>3. NobodyAsks'
          BY <1>1, <5>1 DEF NobodyAsks
        <5> QED
          BY <1>1, <2>2, <4>1, <5>1, <5>2, <5>3, ChvTyped
      <4>3. CASE power = "NORMAL"
        <5>1. /\ sim' = AfterBlocked(k) /\ radio' = RadioOf(AfterBlocked(k))
              /\ TokensCheck(RadioOf(AfterBlocked(k)), known, {}, {chv[k]})
          BY <4>1, <4>3 DEF StateUpdate
        <5>2. NobodyAsks' /\ Answer({}, {chv[k]})
          BY <1>1, <5>1, NothingDue
        <5>3. radio' \in RadioState \ {"OFF", "ON"}
          BY <5>1 DEF RadioOf, RadioState
        <5>4. RadioFollows'
          BY <2>2, <4>1, <4>3, <5>1, <5>3 DEF RadioFollows
        <5> QED
          BY <2>2, <4>1, <5>1, <5>2, <5>3, <5>4
      <4> QED
        BY <4>2, <4>3
    <3> QED
      BY <3>1, <3>2
  <2>4. TypeOK'
    <3>1. chv' \in [Kind -> Token \cup {NoToken}]
      BY <1>2, <1>5
    <3>2. pending' \subseteq Token
      BY <1>2, <2>3 DEF Answer
    <3>3. stray' \in BOOLEAN
      BY <2>3 DEF Answer
    <3>4. asked' \in [Identity -> Token \cup {NoToken}]
      BY <2>3 DEF NobodyAsks
    <3> QED
      BY <1>1, <1>3, <2>3, <3>1, <3>2, <3>3, <3>4, ChvTyped
         DEF TypeOK, RadioTypeOK, RequestTypeOK
  <2>5. Waiting' = Waiting \ {k}
    BY <1>2, <1>5, <2>1 DEF Waiting
  <2>6. EnoughAnswers'
    <3>1. Cardinality(Waiting \ {k}) = Cardinality(Waiting) - 1
      BY <2>1, WaitingFinite, FS_RemoveElement
    <3>2. Cardinality(Waiting) \in Nat /\ Cardinality(Waiting) <= Len(cmds)
      BY WaitingFinite DEF ChvInv, EnoughAnswers
    <3>3. Cardinality(Waiting \ {k}) <= Len(cmds')
      BY <1>3, <3>1, <3>2
    <3> QED
      BY <2>5, <3>3 DEF EnoughAnswers
  <2>7. RightRequest'
    <3> SUFFICES ASSUME ~mixed' PROVE RightRequest'
      BY DEF RightRequest
    <3>1. /\ Len(cmds) <= 1 /\ ~stray /\ pending = ChvTokens
          /\ \A j \in Kind : j \in Waiting <=> \E i \in DOMAIN cmds : cmds[i] = j
      BY <1>1 DEF ChvInv, RightRequest
    <3>2. Len(cmds) = 1 /\ DOMAIN cmds = {1} /\ DOMAIN cmds' = {} /\ Len(cmds') = 0
      BY <1>2, <1>3, <3>1
    <3>3. \A j \in Kind : j \in Waiting <=> j = k
      BY <2>1, <3>1, <3>2
    <3>4. \A j \in Kind : j \notin Waiting'
      BY <2>5, <3>3
    <3>5. \A j \in Kind : chv'[j] = NoToken /\ (j # k => chv[j] = NoToken)
      BY <3>3, <3>4 DEF Waiting
    <3>6. ChvTokens = {chv[k]} /\ ChvTokens' = {}
      BY <2>1, <3>5 DEF ChvTokens
    <3>7. pending' = {} /\ ~stray'
      BY <2>3, <3>1, <3>6 DEF Answer
    <3> QED
      BY <3>2, <3>4, <3>6, <3>7 DEF RightRequest
  <2> QED
    BY <2>3, <2>4, <2>6, <2>7 DEF ChvInv
<1> QED
  BY <1>4, <1>5 DEF LockStatus

(* The power requests, which are answered at once.                         *)
LEMMA ChvPowerInv ==
  ASSUME ChvInv, NEW t \in Token, Idle(t), PowerRequest(t), UNCHANGED chvVars
  PROVE  ChvInv'
<1>1. TypeOK /\ NobodyAsks /\ RadioFollows /\ {t} \cap pending = {} /\ {t} \in SUBSET Token
  BY DEF ChvInv, Idle
<1>2. /\ power \in Power /\ sim \in SimState /\ radio \in RadioState
      /\ known \in [Identity -> BOOLEAN]
  BY <1>1, ChvTyped
<1>3. CASE PowerOn(t)
  <2>1. /\ power' = "NORMAL" /\ UNCHANGED <<sim, known, doubled>>
        /\ \/ sim # "READY" /\ radio' = "ON" /\ Answer({t}, {t}) /\ asked' = asked
           \/ /\ sim = "READY" /\ radio' = RadioOf(sim)
              /\ TokensCheck(RadioOf(sim), known, {t}, {t})
    BY <1>3 DEF PowerOn
  <2>2. NobodyAsks' /\ Answer({t}, {t})
    BY <1>1, <2>1, NothingDue DEF NobodyAsks
  <2>3. RadioFollows' /\ radio' \in RadioState /\ power' \in Power
    BY <2>1 DEF RadioFollows, RadioOf, RadioState, Power
  <2> QED
    BY <1>1, <1>2, <2>1, <2>2, <2>3, AnsweredInv
<1>4. CASE PowerOff(t)
  <2>1. /\ power' = "LPM" /\ radio' = "OFF" /\ Answer({t}, {t})
        /\ UNCHANGED <<sim, known, asked, doubled>>
    BY <1>4 DEF PowerOff, identityVars
  <2>2. RadioFollows' /\ NobodyAsks' /\ radio' \in RadioState /\ power' \in Power
    BY <1>1, <2>1 DEF RadioFollows, NobodyAsks, RadioState, Power
  <2> QED
    BY <1>1, <1>2, <2>1, <2>2, AnsweredInv
<1>5. CASE PowerRefused(t)
  <2>1. Answer({t}, {t}) /\ UNCHANGED <<power, sim, radio, known, asked, doubled>>
    BY <1>5 DEF PowerRefused, stateVars, identityVars
  <2>2. RadioFollows' /\ NobodyAsks'
    BY <1>1, <2>1 DEF RadioFollows, NobodyAsks
  <2> QED
    BY <1>1, <1>2, <2>1, <2>2, AnsweredInv
<1> QED
  BY <1>3, <1>4, <1>5 DEF PowerRequest

(* The indications of the modem, which answer no PIN request.              *)
LEMMA ChvIndicationInv ==
  ASSUME ChvInv, StateIndication, UNCHANGED chvVars
  PROVE  ChvInv'
<1>1. TypeOK /\ NobodyAsks /\ RadioFollows /\ {} \in SUBSET Token /\ {} \cap pending = {}
  BY DEF ChvInv
<1>2. /\ power \in Power /\ sim \in SimState /\ radio \in RadioState
      /\ known \in [Identity -> BOOLEAN]
  BY <1>1, ChvTyped
<1>3. /\ \A s \in SimState : RadioOf(s) \in RadioState \ {"OFF", "ON"}
      /\ RadioOf("READY") = "SIM_READY"
  BY DEF RadioOf, RadioState, SimState
<1>4. CASE CpSystemStart
  <2>1. /\ power' = "LPM" /\ radio' = "OFF" /\ TokensCheck("OFF", known', {}, {})
        /\ known' = [known EXCEPT !["version"] = TRUE] /\ UNCHANGED <<sim, doubled>>
    BY <1>4 DEF CpSystemStart
  <2>2. NobodyAsks' /\ Answer({}, {})
    BY <1>1, <2>1, NothingDue
  <2>3. RadioFollows' /\ radio' \in RadioState /\ power' \in Power
    BY <2>1 DEF RadioFollows, RadioState, Power
  <2> QED
    BY <1>1, <1>2, <2>1, <2>2, <2>3, AnsweredInv
<1>5. ASSUME NEW s \in {"PIN", "PUK"}, SimStatus(s)
      PROVE  ChvInv'
  <2>1. /\ sim' = s /\ s \in SimState \ {"READY"} /\ UNCHANGED <<power, known, doubled>>
        /\ \/ power # "NORMAL" /\ Answer({}, {}) /\ UNCHANGED <<radio, asked>>
           \/ power = "NORMAL" /\ radio' = RadioOf(s) /\ TokensCheck(RadioOf(s), known, {}, {})
    BY <1>5 DEF SimStatus, StateUpdate, SimState
  <2>2. NobodyAsks' /\ Answer({}, {})
    BY <1>1, <2>1, NothingDue DEF NobodyAsks
  <2>3. RadioFollows' /\ radio' \in RadioState
    BY <1>1, <1>2, <1>3, <2>1 DEF RadioFollows
  <2> QED
    BY <1>1, <1>2, <2>1, <2>2, <2>3, AnsweredInv
<1>6. ASSUME NEW s \in {"READY", "ABSENT"}, NEW imsi \in BOOLEAN, SimOpen(s, imsi)
      PROVE  ChvInv'
  <2> DEFINE rad == IF power = "NORMAL" THEN RadioOf(s) ELSE radio
  <2>1. /\ sim' = s /\ s \in SimState /\ radio' = rad /\ TokensCheck(rad, known', {}, {})
        /\ known' = [known EXCEPT !["imsi"] = imsi] /\ UNCHANGED <<power, doubled>>
    BY <1>6 DEF SimOpen, SimState
  <2>2. /\ power = "NORMAL" => rad = RadioOf(s)
        /\ power # "NORMAL" => rad = "OFF"
    BY <1>1 DEF RadioFollows
  <2> HIDE DEF rad
  <2>3. NobodyAsks' /\ Answer({}, {})
    BY <1>1, <2>1, NothingDue
  <2>4. RadioFollows' /\ radio' \in RadioState
    BY <1>3, <2>1, <2>2 DEF RadioFollows, RadioState
  <2>5. known' \in [Identity -> BOOLEAN]
    BY <1>2, <2>1
  <2> QED
    BY <1>1, <1>2, <2>1, <2>3, <2>4, <2>5, AnsweredInv
<1>7. ASSUME NEW imsi \in BOOLEAN, SimOpenOther(imsi)
      PROVE  ChvInv'
  <2>1. /\ known' = [known EXCEPT !["imsi"] = imsi] /\ TokensCheck(radio, known', {}, {})
        /\ UNCHANGED <<power, sim, radio, doubled>>
    BY <1>7 DEF SimOpenOther, stateVars
  <2>2. NobodyAsks' /\ Answer({}, {})
    BY <1>1, <2>1, NothingDue
  <2>3. RadioFollows' /\ known' \in [Identity -> BOOLEAN]
    BY <1>1, <1>2, <2>1 DEF RadioFollows
  <2> QED
    BY <1>1, <1>2, <2>1, <2>2, <2>3, AnsweredInv
<1> QED
  BY <1>4, <1>5, <1>6, <1>7 DEF StateIndication

LEMMA ChvStep == ChvInv /\ [Next]_vars => ChvInv'
<1> SUFFICES ASSUME ChvInv, [Next]_vars PROVE ChvInv'
  OBVIOUS
<1>1. ASSUME NEW t \in Token, Idle(t), ChvRequest(t)
      PROVE  ChvInv'
  <2>1. ASSUME NEW k \in Kind, Change(k, t) PROVE ChvInv'
    BY <1>1, <2>1, MakeInv DEF Change, Make
  <2>2. CASE Reply(t)
    <3>1. /\ Answer({t}, {t}) /\ UNCHANGED <<power, sim, radio, known, asked, doubled>>
          /\ UNCHANGED chvVars /\ {t} \in SUBSET Token /\ {t} \cap pending = {}
      BY <1>1, <2>2 DEF Reply, stateVars, identityVars, Idle
    <3>2. TypeOK /\ RadioFollows /\ NobodyAsks
      BY DEF ChvInv
    <3>3. RadioFollows' /\ NobodyAsks'
      BY <3>1, <3>2 DEF RadioFollows, NobodyAsks
    <3> QED
      BY <3>1, <3>2, <3>3, ChvTyped, AnsweredInv
  <2>3. "pin" \in Kind
    BY DEF Kind
  <2>4. CASE EnterSimPin(t)
    BY <1>1, <2>3, <2>4, MakeInv DEF EnterSimPin, Make
  <2>5. CASE EnterSimPinTooLong(t)
    BY <1>1, <2>3, <2>5, MakeInv DEF EnterSimPinTooLong
  <2> QED
    BY <1>1, <2>1, <2>2, <2>4, <2>5 DEF ChvRequest
<1>2. CASE UNCHANGED vars
  <2>1. UNCHANGED <<chv, cmds, mixed, power, sim, radio, known, asked, doubled, pending, stray>>
    BY <1>2 DEF vars, radioVars, chvVars
  <2> QED
    BY <2>1
       DEF ChvInv, TypeOK, RadioTypeOK, RequestTypeOK, NobodyAsks, RadioFollows, EnoughAnswers,
           RightRequest, Waiting, ChvTokens
<1> QED
  BY <1>1, <1>2, ChvPowerInv, LockStatusInv, ChvIndicationInv DEF Next

LEMMA ChvInvariant == Spec => []ChvInv
  BY ChvInitInv, ChvStep, PTL DEF Spec

(* The PIN and PUK requests keep tokens and commands, and the state of the *)
(* radio and the SIM stays in range under them.                            *)
THEOREM ChvTypes == Spec => []TypeOK
  BY ChvInvariant, PTL DEF ChvInv

(* ipc_lock_status leaves no request without an answer to come, however    *)
(* the requests overlap.                                                   *)
THEOREM ChvEnoughAnswers == Spec => []EnoughAnswers
  BY ChvInvariant, PTL DEF ChvInv

(* Requests made one at a time get their own answer, once.                 *)
THEOREM ChvRightRequest == Spec => []RightRequest
  BY ChvInvariant, PTL DEF ChvInv

(* A SIM that ipc_lock_status finds blocked is in the radio state as well. *)
THEOREM ChvRadioFollows == Spec => []RadioFollows
  BY ChvInvariant, PTL DEF ChvInv
=============================================================================
