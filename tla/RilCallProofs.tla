---------------------------- MODULE RilCallProofs ----------------------------
(***************************************************************************)
(* Proofs about RilCall and RilTones, for every number of slots, call      *)
(* identifiers and tokens.                                                 *)
(*                                                                         *)
(* CallInv is the table: a request is in one slot only because the         *)
(* identifiers the modem's indications are looked up by are distinct, and  *)
(* because at most one call is incoming.  KeptOrDone is a step of it.      *)
(* LineInv is the commands on their way: the table shows what the modem    *)
(* has because each command is the only one on its calls and still fits    *)
(* them.  ToneInv, of RilTones, adds what holds of starts and stops; the   *)
(* steps of the calls preserve it as they leave tones and their requests   *)
(* untouched.                                                              *)
(***************************************************************************)
EXTENDS RilTones, FiniteSetTheorems, WellFoundedInduction, TLAPS

CallInv == TypeOK /\ TokensOnce /\ DialSlot /\ IdsDistinct /\ OneIncoming

(* The initial table is empty.                                             *)
LEMMA CallInit == Init => CallInv
  <1> SUFFICES ASSUME Init PROVE CallInv
    OBVIOUS
  <1> USE TokenAssumption, CallAssumption DEF Init, RequestInit
  <1>1. TypeOK
    <2>1. calls \in [Slot -> Context \cup {NoCall}]
      OBVIOUS
    <2>2. net \in [CallId -> Phase]
      BY DEF Phase
    <2>3. cmds \in Seq(Command)
      OBVIOUS
    <2>a. crossed \in BOOLEAN
      OBVIOUS
    <2>4. RequestTypeOK
      BY DEF RequestTypeOK
    <2>5. QED
      BY <2>1, <2>2, <2>3, <2>a, <2>4 DEF TypeOK
  <1>2. ASSUME NEW s \in Slot
        PROVE  calls[s].id = NoId /\ calls[s].state = "NONE" /\ calls[s].token = NoToken
    BY DEF NoCall
  <1>3. TokensOnce
    BY <1>2 DEF TokensOnce
  <1>4. DialSlot
    BY <1>2 DEF DialSlot
  <1>5. IdsDistinct
    BY <1>2 DEF IdsDistinct
  <1>6. OneIncoming
    BY <1>2 DEF OneIncoming
  <1>7. QED
    BY <1>1, <1>3, <1>4, <1>5, <1>6 DEF CallInv

-----------------------------------------------------------------------------
(* find_ril_call_context finds a context if there is one.                  *)
LEMMA LowestExists ==
  ASSUME NEW S, S \subseteq Slot, S # {}
  PROVE  \E s \in S : Lowest(S) = {s}
  <1> DEFINE R == OpToRel(<, Nat)
  <1>1. S \subseteq Nat
    BY CallAssumption DEF Slot
  <1>2. PICK s \in S : \A r \in S : ~ (<<r, s>> \in R)
    <2> HIDE DEF R
    <2>1. IsWellFoundedOn(R, Nat)
      BY NatLessThanWellFounded DEF R
    <2>2. QED
      BY <1>1, <2>1, WFMin
  <1>3. ASSUME NEW r \in S PROVE s <= r
    <2>1. s \in Nat /\ r \in Nat
      BY <1>1
    <2>2. CASE r < s
      <3>1. <<r, s>> \in Nat \X Nat /\ <<r, s>>[1] < <<r, s>>[2]
        BY <2>1, <2>2
      <3>2. <<r, s>> \in R
        BY <3>1 DEF OpToRel
      <3>3. QED
        BY <3>2, <1>2
    <2>3. QED
      BY <2>1, <2>2
  <1>4. s \in Lowest(S)
    BY <1>3 DEF Lowest
  <1>5. ASSUME NEW r \in Lowest(S) PROVE r = s
    BY <1>1, <1>3 DEF Lowest
  <1>6. QED
    BY <1>4, <1>5

LEMMA FindType ==
  ASSUME TypeOK, NEW id, NEW s \in Find(id)
  PROVE  s \in Slot /\ calls[s].id = id
  BY DEF Find, Lowest

LEMMA FindEmpty ==
  ASSUME NEW id, Find(id) = {}, NEW s \in Slot
  PROVE  calls[s].id # id
  BY LowestExists DEF Find

LEMMA NewSlotType ==
  ASSUME NEW s \in NewSlot
  PROVE  s \in Slot /\ calls[s].id = NoId
  BY DEF NewSlot, Lowest

LEMMA LatestType ==
  ASSUME NEW st, NEW s \in Latest(st)
  PROVE  s \in InState(st)
  BY DEF Latest, Highest

LEMMA InStateType ==
  ASSUME TypeOK, NEW st \in CallState, NEW s \in InState(st)
  PROVE  s \in Slot /\ calls[s].id \in CallId /\ calls[s] \in Context
  BY CallAssumption DEF InState, TypeOK, Context, NoCall, CallState

-----------------------------------------------------------------------------
(* The primitives the handlers are made of preserve the invariant.         *)

(* What the type of the table says of one slot.                            *)
LEMMA SlotType ==
  ASSUME TypeOK, NEW s \in Slot
  PROVE  /\ calls[s] \in Context \cup {NoCall}
         /\ calls[s].token \in Token \cup {NoToken}
         /\ calls[s].id = NoId => calls[s] = NoCall
         /\ calls[s].id # NoId => calls[s] \in Context
         /\ calls[s].id \in CallId \cup {DialId, NoId}
  BY CallAssumption DEF TypeOK, Context, NoCall

(* A request answered on the spot.                                         *)
LEMMA ReplyInv ==
  ASSUME CallInv, NEW t, Idle(t), Reply(t)
  PROVE  CallInv'
  <1> USE DEF Reply, Answer, Idle, CallInv
  <1>1. pending' = pending /\ stray' = stray
    BY DEF TypeOK, RequestTypeOK
  <1>2. TypeOK'
    BY <1>1 DEF TypeOK, RequestTypeOK
  <1>3. TokensOnce' /\ DialSlot' /\ IdsDistinct' /\ OneIncoming'
    BY <1>1 DEF TokensOnce, DialSlot, IdsDistinct, OneIncoming
  <1>4. QED
    BY <1>2, <1>3

(* A request the handler neither keeps nor answers.                        *)
LEMMA ForgetInv ==
  ASSUME CallInv, NEW t, Idle(t), Forget(t)
  PROVE  CallInv'
  <1> USE DEF Forget, Answer, Idle, CallInv
  <1>1. pending' = pending \cup {t} /\ stray' = stray
    BY DEF TypeOK, RequestTypeOK
  <1>2. TypeOK'
    BY <1>1 DEF TypeOK, RequestTypeOK
  <1>3. TokensOnce' /\ DialSlot' /\ IdsDistinct' /\ OneIncoming'
    BY <1>1 DEF TokensOnce, DialSlot, IdsDistinct, OneIncoming
  <1>4. QED
    BY <1>2, <1>3

(* Commands are appended and taken as a queue.                             *)
LEMMA SendType ==
  ASSUME TypeOK, NEW q \in Seq(Command), Send(q)
  PROVE  cmds' \in Seq(Command) /\ crossed' \in BOOLEAN
  BY DEF TypeOK, Send

LEMMA TakeType ==
  ASSUME TypeOK, NEW op, Take(op)
  PROVE  /\ cmds' \in Seq(Command)
         /\ Head(cmds) \in Command
  BY DEF TypeOK, Take

LEMMA CmdType ==
  ASSUME TypeOK, NEW s \in Slot, calls[s].id \in CallId,
         NEW op \in {"RELEASE", "ANSWER", "HOLD", "ACTIVATE"}
  PROVE  Cmd(op, s) \in Command
  BY SlotType DEF Cmd, Command, ToneCommand, Context

(* A request is kept in a slot that held none.                             *)
LEMMA KeepInv ==
  ASSUME CallInv, NEW t, Idle(t), NEW s \in Slot,
         calls[s].id # NoId, calls[s].token = NoToken,
         NEW q \in Seq(Command), Keep(t, s, q)
  PROVE  CallInv'
  <1> USE DEF Keep, Answer, Idle, CallInv
  <1>1. pending' = pending \cup {t} /\ stray' = stray
    BY DEF TypeOK, RequestTypeOK
  <1>2. calls[s] \in Context /\ \A r \in Slot : calls[r].token # t
    BY SlotType, TokenAssumption DEF TokensOnce
  <1>3. /\ \A r \in Slot : /\ calls'[r].id = calls[r].id
                           /\ calls'[r].state = calls[r].state
                           /\ r # s => calls'[r] = calls[r]
        /\ calls'[s].token = t
        /\ calls'[s] \in Context
    BY <1>2 DEF TypeOK, Context, NoCall
  <1>4. TypeOK'
    <2>1. calls' \in [Slot -> Context \cup {NoCall}]
      BY <1>3 DEF TypeOK
    <2>2. QED
      BY <1>1, <2>1, SendType DEF TypeOK, RequestTypeOK
  <1>5. TokensOnce'
    BY <1>1, <1>2, <1>3 DEF TokensOnce, Slot
  <1>6. DialSlot'
    BY <1>3, TokenAssumption DEF DialSlot, Slot
  <1>7. IdsDistinct' /\ OneIncoming'
    BY <1>3 DEF IdsDistinct, OneIncoming, Slot
  <1>8. QED
    BY <1>4, <1>5, <1>6, <1>7
(* An indication that names no call of the table.                          *)
LEMMA NoEffectInv ==
  ASSUME CallInv, NoEffect,
         cmds' \in Seq(Command), crossed' \in BOOLEAN, net' \in [CallId -> Phase],
         \A c, d \in CallId : net'[c] = "ringing" /\ net'[d] = "ringing" => c = d,
         \A s \in Slot : calls[s].id \in CallId =>
           /\ net'[calls[s].id] # "idle"
           /\ net[calls[s].id] = "ringing" => net'[calls[s].id] = "ringing"
  PROVE  CallInv'
  <1> USE DEF NoEffect, CallInv
  <1>1. TypeOK'
    BY DEF TypeOK, RequestTypeOK
  <1>2. TokensOnce' /\ DialSlot'
    BY DEF TokensOnce, DialSlot
  <1>3. IdsDistinct'
    BY DEF IdsDistinct
  <1>4. OneIncoming'
    BY DEF OneIncoming
  <1>5. QED
    BY <1>1, <1>2, <1>3, <1>4

(* The token a handler completes is one the framework waits for.           *)
LEMMA HeldPending ==
  ASSUME CallInv, NEW s \in Slot, Answer({}, Held({s}))
  PROVE  /\ stray' = FALSE
         /\ pending' = pending \ {calls[s].token}
         /\ pending' \subseteq Token
  <1>1. Held({s}) = {calls[s].token} \ {NoToken}
    BY DEF Held
  <1>2. RequestTypeOK /\ TokensOnce
    BY DEF CallInv, TypeOK
  <1>3. stray = FALSE /\ NoToken \notin pending
    BY <1>2, TokenAssumption DEF TokensOnce, RequestTypeOK
  <1>4. Held({s}) \subseteq pending
    BY <1>1, <1>2 DEF TokensOnce
  <1>5. QED
    BY <1>1, <1>2, <1>3, <1>4 DEF Answer, RequestTypeOK

(* A call of the table changes state and loses its token.                  *)
LEMMA SettleInv ==
  ASSUME CallInv, NEW s \in Slot, NEW st \in CallState, Settle(s, st),
         calls[s].id \in CallId,
         cmds' \in Seq(Command), crossed' \in BOOLEAN, net' \in [CallId -> Phase],
         \A c, d \in CallId : net'[c] = "ringing" /\ net'[d] = "ringing" => c = d,
         \A c \in CallId : c # calls[s].id => net'[c] = net[c],
         net'[calls[s].id] # "idle",
         st = "INCOMING" => net'[calls[s].id] = "ringing"
  PROVE  CallInv'
  <1> USE DEF CallInv
  <1>1. stray' = FALSE /\ pending' = pending \ {calls[s].token} /\ pending' \subseteq Token
    BY HeldPending DEF Settle
  <1>2. calls[s] \in Context
    BY SlotType, CallAssumption
  <1>3. /\ \A r \in Slot : /\ calls'[r].id = calls[r].id
                           /\ r # s => calls'[r] = calls[r]
        /\ calls'[s].token = NoToken
        /\ calls'[s].state = st
        /\ calls'[s] \in Context
    BY <1>2 DEF Settle, TypeOK, Context, NoCall
  <1>4. calls' \in [Slot -> Context \cup {NoCall}]
    BY <1>3 DEF TypeOK, Settle
  <1>5. TypeOK'
    BY <1>1, <1>4 DEF TypeOK, RequestTypeOK
  <1>6. TokensOnce'
    BY <1>1, <1>3 DEF TokensOnce
  <1>7. DialSlot'
    BY <1>3, CallAssumption DEF DialSlot
  <1>8. IdsDistinct'
    BY <1>3 DEF IdsDistinct
  <1>9. OneIncoming'
    <2>1. ASSUME NEW r \in Slot, calls'[r].state = "INCOMING"
          PROVE  calls'[r].id \in CallId /\ net'[calls'[r].id] = "ringing"
      <3>1. CASE r = s
        BY <3>1, <2>1, <1>3
      <3>2. CASE r # s
        <4>1. calls[r].id \in CallId /\ net[calls[r].id] = "ringing"
          BY <3>2, <2>1, <1>3 DEF OneIncoming
        <4>2. calls[r].id # calls[s].id
          BY <3>2, <4>1 DEF IdsDistinct
        <4>3. QED
          BY <4>1, <4>2, <1>3
      <3>3. QED
        BY <3>1, <3>2
    <2>2. QED
      BY <2>1 DEF OneIncoming
  <1>10. QED
    BY <1>5, <1>6, <1>7, <1>8, <1>9

(* A call leaves the table.                                                *)
LEMMA DropInv ==
  ASSUME CallInv, NEW s \in Slot, Drop(s),
         cmds' \in Seq(Command), crossed' \in BOOLEAN, net' \in [CallId -> Phase],
         \A c \in CallId : net'[c] = "ringing" => net[c] = "ringing",
         \A c \in CallId : c # calls[s].id => net'[c] = net[c]
  PROVE  CallInv'
  <1> USE DEF CallInv
  <1>1. stray' = FALSE /\ pending' = pending \ {calls[s].token} /\ pending' \subseteq Token
    BY HeldPending DEF Drop
  <1>2. /\ \A r \in Slot : r # s => calls'[r] = calls[r]
        /\ calls'[s] = NoCall
        /\ calls' \in [Slot -> Context \cup {NoCall}]
    BY DEF Drop, TypeOK
  <1>3. calls'[s].id = NoId /\ calls'[s].state = "NONE" /\ calls'[s].token = NoToken
    BY <1>2 DEF NoCall
  <1>4. TypeOK'
    BY <1>1, <1>2 DEF TypeOK, RequestTypeOK
  <1>5. TokensOnce'
    BY <1>1, <1>2, <1>3 DEF TokensOnce
  <1>6. DialSlot'
    BY <1>2, <1>3, CallAssumption DEF DialSlot
  <1>7. ASSUME NEW r \in Slot, calls'[r].id \in CallId
        PROVE  /\ r # s /\ calls'[r] = calls[r]
               /\ net'[calls[r].id] = net[calls[r].id]
    <2>1. r # s /\ calls'[r] = calls[r]
      BY <1>7, <1>2, <1>3, CallAssumption
    <2>2. calls[r].id # calls[s].id
      BY <2>1, <1>7 DEF IdsDistinct
    <2>3. QED
      BY <2>1, <2>2, <1>7
  <1>8. IdsDistinct'
    <2>1. SUFFICES ASSUME NEW q \in Slot, NEW r \in Slot, calls'[q].id \in CallId
                   PROVE  /\ net'[calls'[q].id] # "idle"
                          /\ calls'[q].id = calls'[r].id => q = r
      BY DEF IdsDistinct
    <2>2. QED
      BY <2>1, <1>7 DEF IdsDistinct
  <1>9. OneIncoming'
    <2>1. ASSUME NEW r \in Slot, calls'[r].state = "INCOMING"
          PROVE  calls'[r].id \in CallId /\ net'[calls'[r].id] = "ringing"
      <3>1. r # s /\ calls'[r] = calls[r]
        BY <2>1, <1>2, <1>3
      <3>2. calls[r].id \in CallId /\ net[calls[r].id] = "ringing"
        BY <3>1, <2>1 DEF OneIncoming
      <3>3. QED
        BY <3>1, <3>2, <1>7
    <2>2. QED
      BY <2>1 DEF OneIncoming
  <1>10. QED
    BY <1>4, <1>5, <1>6, <1>8, <1>9
-----------------------------------------------------------------------------
(* The requests.                                                           *)

(* The empty slot the dialled call takes is the only one with 0xFF.        *)
LEMMA DialInv ==
  ASSUME CallInv, NEW t, Idle(t), Dial(t)
  PROVE  CallInv'
  <1>1. CASE (Find(DialId) # {} \/ NewSlot = {}) /\ Reply(t)
    BY <1>1, ReplyInv
  <1>2. ASSUME NEW s \in NewSlot, Find(DialId) = {},
               calls' = [calls EXCEPT ![s] =
                         [id |-> DialId, state |-> "DIALING", token |-> t]],
               Send(<<[op |-> "SETUP", id |-> DialId, other |-> NoId]>>),
               Answer({t}, {}), net' = net
        PROVE  CallInv'
    <2> USE <1>2 DEF CallInv
    <2>1. pending' = pending \cup {t} /\ stray' = stray /\ t \in Token \ pending
      BY DEF Answer, Idle, TypeOK, RequestTypeOK
    <2>2. s \in Slot /\ calls[s].id = NoId
      BY NewSlotType
    <2>3. \A r \in Slot : calls[r].id # DialId /\ calls[r].token # t
      BY <2>1, FindEmpty, TokenAssumption DEF TokensOnce
    <2>4. /\ \A r \in Slot : r # s => calls'[r] = calls[r]
          /\ calls'[s] \in Context
          /\ calls'[s].id = DialId /\ calls'[s].state = "DIALING" /\ calls'[s].token = t
          /\ calls' \in [Slot -> Context \cup {NoCall}]
      BY <2>1, <2>2 DEF TypeOK, Context, CallState
    <2>5. [op |-> "SETUP", id |-> DialId, other |-> NoId] \in Command
      BY DEF Command, ToneCommand
    <2>6. TypeOK'
      <3>1. <<[op |-> "SETUP", id |-> DialId, other |-> NoId]>> \in Seq(Command)
        BY <2>5
      <3>2. cmds' \in Seq(Command) /\ crossed' \in BOOLEAN
        BY <3>1, SendType
      <3>3. QED
        BY <2>1, <2>4, <3>2 DEF TypeOK, RequestTypeOK
    <2>7. TokensOnce'
      BY <2>1, <2>3, <2>4 DEF TokensOnce
    <2>8. DialSlot'
      BY <2>1, <2>3, <2>4, TokenAssumption DEF DialSlot
    <2>9. IdsDistinct'
      BY <2>4, CallAssumption DEF IdsDistinct
    <2>10. OneIncoming'
      BY <2>4 DEF OneIncoming
    <2>11. QED
      BY <2>6, <2>7, <2>8, <2>9, <2>10
  <1>3. QED
    BY <1>1, <1>2 DEF Dial

(* A request that sends commands on calls of the table and is kept in one  *)
(* of them that holds no request.                                          *)
LEMMA KeepOneInv ==
  ASSUME CallInv, NEW t, Idle(t), NEW s \in Slot, calls[s].token = NoToken,
         calls[s].id \in CallId,
         NEW op \in {"RELEASE", "ANSWER", "HOLD", "ACTIVATE"},
         Keep(t, s, <<Cmd(op, s)>>)
  PROVE  CallInv'
  <1>1. <<Cmd(op, s)>> \in Seq(Command)
    BY CmdType DEF CallInv
  <1>2. QED
    BY <1>1, KeepInv, CallAssumption

LEMMA KeepTwoInv ==
  ASSUME CallInv, NEW t, Idle(t), NEW s \in Slot, calls[s].token = NoToken,
         NEW r \in Slot, calls[s].id \in CallId, calls[r].id \in CallId,
         NEW op1 \in {"RELEASE", "HOLD"}, NEW op2 \in {"ACTIVATE", "ANSWER"},
         Keep(t, s, <<Cmd(op1, r), Cmd(op2, s)>>)
  PROVE  CallInv'
  <1>1. Cmd(op1, r) \in Command /\ Cmd(op2, s) \in Command
    BY CmdType DEF CallInv
  <1>2. <<Cmd(op1, r), Cmd(op2, s)>> \in Seq(Command)
    BY <1>1
  <1>3. QED
    BY <1>2, KeepInv, CallAssumption

(* A call that is not busy holds no token; the dialled call always is.     *)
LEMMA IdleCall ==
  ASSUME CallInv, NEW s \in Slot, calls[s].id # NoId, ~Busy({s})
  PROVE  calls[s].token = NoToken /\ calls[s].id \in CallId
  BY SlotType DEF Busy, CallInv, DialSlot

LEMMA HangupInv ==
  ASSUME CallInv, NEW t, Idle(t), NEW s \in Slot, Hangup(t, s)
  PROVE  CallInv'
  BY ReplyInv, IdleCall, KeepOneInv DEF Hangup

(* The call a handler has picked in one of the states it looked at.        *)
LEMMA PickedCall ==
  ASSUME CallInv, NEW st \in CallState, NEW s \in Latest(st),
         NEW S, InState(st) \subseteq S, ~Busy(S)
  PROVE  s \in Slot /\ calls[s].id \in CallId /\ calls[s].token = NoToken
  <1>1. s \in InState(st)
    BY LatestType
  <1>2. QED
    BY <1>1, InStateType DEF CallInv, Busy

LEMMA HangupWaitingOrBackgroundInv ==
  ASSUME CallInv, NEW t, Idle(t), HangupWaitingOrBackground(t)
  PROVE  CallInv'
  <1> DEFINE all == InState("ACTIVE") \cup InState("HOLDING") \cup
                    InState("WAITING") \cup InState("INCOMING")
  <1>1. CASE Reply(t)
    BY <1>1, ReplyInv
  <1>2. ASSUME ~Busy(all), NEW s \in WaitingOrBackground,
               Keep(t, s, <<Cmd("RELEASE", s)>>)
        PROVE  CallInv'
    <2>1. PICK st \in {"WAITING", "ACTIVE", "HOLDING", "INCOMING"} : s \in Latest(st)
      BY <1>2 DEF WaitingOrBackground
    <2>2. st \in CallState /\ InState(st) \subseteq all
      BY <2>1 DEF CallState
    <2> HIDE DEF all
    <2>3. s \in Slot /\ calls[s].id \in CallId /\ calls[s].token = NoToken
      BY <1>2, <2>1, <2>2, PickedCall
    <2>4. QED
      BY <1>2, <2>3, KeepOneInv
  <1>3. QED
    BY <1>1, <1>2 DEF HangupWaitingOrBackground

LEMMA HangupForegroundResumeBackgroundInv ==
  ASSUME CallInv, NEW t, Idle(t), HangupForegroundResumeBackground(t)
  PROVE  CallInv'
  <1> DEFINE all == InState("ACTIVE") \cup InState("HOLDING")
  <1>1. CASE Reply(t)
    BY <1>1, ReplyInv
  <1>2. ASSUME ~Busy(all), NEW st \in {"ACTIVE", "HOLDING"}, NEW s \in Latest(st)
        PROVE  s \in Slot /\ calls[s].id \in CallId /\ calls[s].token = NoToken
    <2>1. st \in CallState /\ InState(st) \subseteq all
      BY <1>2 DEF CallState
    <2> HIDE DEF all
    <2>2. QED
      BY <1>2, <2>1, PickedCall
  <1>3. ASSUME ~Busy(all), NEW a \in Latest("ACTIVE"), NEW h \in Latest("HOLDING"),
               Keep(t, h, <<Cmd("RELEASE", a), Cmd("ACTIVATE", h)>>)
        PROVE  CallInv'
    BY <1>3, <1>2, KeepTwoInv
  <1>4. ASSUME ~Busy(all), NEW st \in {"ACTIVE", "HOLDING"}, NEW s \in Latest(st),
               Keep(t, s, <<Cmd("RELEASE", s)>>)
        PROVE  CallInv'
    BY <1>4, <1>2, KeepOneInv
  <1>5. QED
    BY <1>1, <1>3, <1>4 DEF HangupForegroundResumeBackground
LEMMA SwitchInv ==
  ASSUME CallInv, NEW t, Idle(t), SwitchWaitingOrHoldingAndActive(t)
  PROVE  CallInv'
  <1> DEFINE all == InState("ACTIVE") \cup InState("HOLDING") \cup InState("WAITING")
  <1>1. CASE Reply(t)
    BY <1>1, ReplyInv
  <1>2. CASE Forget(t)
    BY <1>2, ForgetInv
  <1>3. ASSUME ~Busy(all), NEW st \in {"ACTIVE", "HOLDING", "WAITING"}, NEW s \in Latest(st)
        PROVE  s \in Slot /\ calls[s].id \in CallId /\ calls[s].token = NoToken
    <2>1. st \in CallState /\ InState(st) \subseteq all
      BY <1>3 DEF CallState
    <2> HIDE DEF all
    <2>2. QED
      BY <1>3, <2>1, PickedCall
  <1>4. ASSUME ~Busy(all), NEW a \in Latest("ACTIVE"), NEW h \in Latest("HOLDING"),
               Keep(t, a, <<SwapCmd(a, h)>>)
        PROVE  CallInv'
    <2>1. /\ a \in Slot /\ calls[a].id \in CallId /\ calls[a].token = NoToken
          /\ h \in Slot /\ calls[h].id \in CallId
      BY <1>4, <1>3
    <2>2. SwapCmd(a, h) \in Command
      BY <2>1 DEF SwapCmd, Command, ToneCommand
    <2>3. <<SwapCmd(a, h)>> \in Seq(Command)
      BY <2>2
    <2>4. QED
      BY <1>4, <2>1, <2>3, KeepInv, CallAssumption
  <1>5. ASSUME ~Busy(all), NEW a \in Latest("ACTIVE"), NEW w \in Latest("WAITING"),
               Keep(t, w, <<Cmd("HOLD", a), Cmd("ANSWER", w)>>)
        PROVE  CallInv'
    BY <1>5, <1>3, KeepTwoInv
  <1>6. ASSUME ~Busy(all), NEW st \in {"ACTIVE", "HOLDING", "WAITING"}, NEW s \in Latest(st),
               NEW op \in {"ANSWER", "HOLD", "ACTIVATE"}, Keep(t, s, <<Cmd(op, s)>>)
        PROVE  CallInv'
    BY <1>6, <1>3, KeepOneInv
  <1>7. QED
    BY <1>1, <1>2, <1>4, <1>5, <1>6 DEF SwitchWaitingOrHoldingAndActive

(* At most one call is incoming, so the loop gives the request to one call *)
(* at most, and answers it at once only if that call was busy.             *)
LEMMA AnswerCallInv ==
  ASSUME CallInv, NEW t, Idle(t), AnswerCall(t)
  PROVE  CallInv'
  <1> DEFINE ringing == InState("INCOMING")
             hit == {s \in ringing : \A r \in ringing : r <= s => ~Busy({r})}
  <1>1. PICK order \in [1..Cardinality(hit) -> hit] :
          /\ Send([i \in DOMAIN order |-> Cmd("ANSWER", order[i])])
          /\ calls' = [s \in Slot |->
               IF s \in hit THEN [calls[s] EXCEPT !.token = t] ELSE calls[s]]
          /\ Answer({t}, IF Busy(ringing) THEN {t} ELSE {})
          /\ net' = net
    BY DEF AnswerCall
  <1>2. \A s \in ringing : s \in Slot /\ calls[s].id \in CallId /\ calls[s] \in Context
    BY InStateType DEF CallInv, CallState
  <1>3. \A r, s \in ringing : r = s
    BY <1>2 DEF InState, CallInv, OneIncoming, IdsDistinct
  <1>4. \A s \in ringing : s \in Nat
    BY <1>2, CallAssumption DEF Slot
  <1>5. \A s \in hit : s \in ringing /\ calls[s].token = NoToken
    BY <1>4 DEF Busy
  <1> HIDE DEF ringing, hit
  <1>6. cmds' \in Seq(Command) /\ crossed' \in BOOLEAN
    <2>1. IsFiniteSet(hit)
      <3>1. IsFiniteSet(1..MaxCalls)
        BY CallAssumption, FS_Interval
      <3>2. hit \subseteq 1..MaxCalls
        BY <1>2, <1>5 DEF Slot
      <3>3. QED
        BY <3>1, <3>2, FS_Subset
    <2>2. Cardinality(hit) \in Nat
      BY <2>1, FS_CardinalityType
    <2>3. \A i \in 1..Cardinality(hit) : Cmd("ANSWER", order[i]) \in Command
      BY <1>1, <1>2, <1>5, CmdType DEF CallInv
    <2>4. [i \in 1..Cardinality(hit) |-> Cmd("ANSWER", order[i])] \in Seq(Command)
      BY <2>2, <2>3
    <2>5. DOMAIN order = 1..Cardinality(hit)
      BY <1>1
    <2>6. QED
      BY <1>1, <2>4, <2>5, SendType DEF CallInv
  <1>7. CASE Busy(ringing)
    <2>1. hit = {}
      BY <1>7, <1>3, <1>5 DEF Busy
    <2>2. calls' = calls
      BY <1>1, <2>1 DEF CallInv, TypeOK
    <2>3. pending' = pending /\ stray' = stray
      BY <1>1, <1>7 DEF Answer, Idle, CallInv, TypeOK, RequestTypeOK
    <2>4. TypeOK'
      BY <1>1, <1>6, <2>2, <2>3 DEF CallInv, TypeOK, RequestTypeOK
    <2>5. TokensOnce' /\ DialSlot'
      BY <2>2, <2>3 DEF CallInv, TokensOnce, DialSlot
    <2>6. IdsDistinct' /\ OneIncoming'
      BY <1>1, <2>2 DEF CallInv, IdsDistinct, OneIncoming
    <2>7. QED
      BY <2>4, <2>5, <2>6 DEF CallInv
  <1>8. CASE ~Busy(ringing)
    <2> USE DEF CallInv
    <2>1. pending' = pending \cup {t} /\ stray' = stray /\ t \in Token \ pending
      BY <1>1, <1>8 DEF Answer, Idle, TypeOK, RequestTypeOK
    <2>2. \A s \in Slot : calls[s].token # t
      BY <2>1, TokenAssumption DEF TokensOnce
    <2>3. \A s \in Slot : /\ s \notin hit => calls'[s] = calls[s]
                          /\ s \in hit => /\ calls'[s] = [calls[s] EXCEPT !.token = t]
                                           /\ calls[s] \in Context
                                           /\ calls[s].id \in CallId
      BY <1>1, <1>2, <1>5
    <2>4. \A s \in Slot : /\ calls'[s].id = calls[s].id
                          /\ calls'[s].state = calls[s].state
                          /\ s \in hit => calls'[s].token = t /\ calls'[s] \in Context
      BY <2>1, <2>3 DEF Context
    <2>5. calls' \in [Slot -> Context \cup {NoCall}]
      BY <1>1, <2>3, <2>4 DEF TypeOK
    <2>6. TypeOK'
      BY <1>1, <1>6, <2>1, <2>5 DEF TypeOK, RequestTypeOK
    <2>7. TokensOnce'
      <3>1. ASSUME NEW s \in Slot, calls'[s].token # NoToken
            PROVE  calls'[s].token \in pending'
        BY <3>1, <2>1, <2>3, <2>4 DEF TokensOnce
      <3>2. ASSUME NEW r \in Slot, NEW s \in Slot, calls'[r].token = calls'[s].token,
                   calls'[r].token # NoToken
            PROVE  r = s
        <4>1. r \in hit <=> s \in hit
          BY <3>2, <2>2, <2>3, <2>4
        <4>2. CASE r \in hit
          BY <4>1, <4>2, <1>3, <1>5
        <4>3. CASE r \notin hit
          BY <4>1, <4>3, <3>2, <2>3 DEF TokensOnce
        <4>4. QED
          BY <4>2, <4>3
      <3>3. QED
        BY <3>1, <3>2, <2>1 DEF TokensOnce
    <2>8. DialSlot'
      <3>1. ASSUME NEW s \in Slot, calls[s].id = DialId
            PROVE  s \notin hit
        BY <3>1, <2>3, CallAssumption
      <3>2. ASSUME NEW r \in Slot, NEW s \in Slot, calls'[s].id = DialId
            PROVE  /\ calls'[r].id = DialId => r = s
                   /\ calls'[s].state = "DIALING"
                   /\ calls'[s].token # NoToken
        <4>1. calls[s].id = DialId /\ calls'[s] = calls[s] /\ calls'[r].id = calls[r].id
          BY <3>1, <3>2, <2>3, <2>4
        <4>2. QED
          BY <4>1 DEF DialSlot
      <3>3. QED
        BY <3>2 DEF DialSlot
    <2>9. IdsDistinct' /\ OneIncoming'
      BY <1>1, <2>4 DEF IdsDistinct, OneIncoming
    <2>10. QED
      BY <2>6, <2>7, <2>8, <2>9
  <1>9. QED
    BY <1>7, <1>8

-----------------------------------------------------------------------------
(* The modem and the network.                                              *)

(* The calls of the modem outside an indication: one call changes phase.   *)
LEMMA NetChange ==
  ASSUME CallInv, NEW c \in CallId, NEW ph \in Phase,
         net' = [net EXCEPT ![c] = ph],
         ph = "ringing" => \A d \in CallId : net[d] # "ringing"
  PROVE  /\ net' \in [CallId -> Phase]
         /\ \A d, e \in CallId : net'[d] = "ringing" /\ net'[e] = "ringing" => d = e
         /\ \A d \in CallId : d # c => net'[d] = net[d]
         /\ net'[c] = ph
  BY DEF CallInv, TypeOK, OneIncoming, Phase

(* A call that is over at the modem leaves the table.                      *)
LEMMA EndInv ==
  ASSUME CallInv, NEW c \in CallId, CallEnd(c) \/ CallError(c),
         net' = [net EXCEPT ![c] = "idle"],
         cmds' \in Seq(Command), crossed' \in BOOLEAN
  PROVE  CallInv'
  <1>1. /\ net' \in [CallId -> Phase]
        /\ \A d, e \in CallId : net'[d] = "ringing" /\ net'[e] = "ringing" => d = e
        /\ \A d \in CallId : d # c => net'[d] = net[d]
        /\ net'[c] = "idle"
    BY NetChange DEF Phase
  <1>2. CASE Find(c) = {} /\ NoEffect
    <2>1. ASSUME NEW s \in Slot, calls[s].id \in CallId
          PROVE  net'[calls[s].id] = net[calls[s].id] /\ net[calls[s].id] # "idle"
      BY <1>1, <1>2, <2>1, FindEmpty DEF CallInv, IdsDistinct
    <2>2. QED
      BY <1>1, <1>2, <2>1, NoEffectInv
  <1>3. ASSUME NEW s \in Find(c), Drop(s)
        PROVE  CallInv'
    <2>1. s \in Slot /\ calls[s].id = c
      BY FindType DEF CallInv
    <2>2. QED
      BY <1>1, <1>3, <2>1, DropInv
  <1>4. QED
    BY <1>2, <1>3 DEF CallEnd, CallError

(* The set-up: the dialled call gets an identifier that no call has, so    *)
(* the second look-up of ipc_call_setup_ind finds the call it has named.   *)
LEMMA SetupIndInv ==
  ASSUME CallInv, NEW c \in CallId, net[c] = "idle", CallSetupInd(c),
         net' = [net EXCEPT ![c] = "orig"],
         cmds' \in Seq(Command), crossed' \in BOOLEAN
  PROVE  CallInv'
  <1>1. /\ net' \in [CallId -> Phase]
        /\ \A d, e \in CallId : net'[d] = "ringing" /\ net'[e] = "ringing" => d = e
        /\ \A d \in CallId : d # c => net'[d] = net[d]
        /\ net'[c] = "orig"
    BY NetChange DEF Phase
  <1>2. ASSUME NEW s \in Slot, calls[s].id \in CallId
        PROVE  calls[s].id # c /\ net'[calls[s].id] = net[calls[s].id]
               /\ net[calls[s].id] # "idle"
    BY <1>1, <1>2 DEF CallInv, IdsDistinct
  <1>3. CASE NoEffect
    BY <1>1, <1>2, <1>3, NoEffectInv
  <1>4. ASSUME NEW d \in Find(DialId), NEW s \in Slot, s \in Lowest(Find(c) \cup {d}),
               calls' = [r \in Slot |->
                 [calls[r] EXCEPT !.id = IF r = d THEN c ELSE @,
                                  !.token = IF r = s THEN NoToken ELSE @]],
               Answer({}, Held({s}))
        PROVE  CallInv'
    <2> USE DEF CallInv
    <2>1. d \in Slot /\ calls[d].id = DialId
      BY FindType
    <2>2. Find(c) = {}
      BY <1>2, FindType
    <2>3. s = d
      BY <2>2, <1>4 DEF Lowest
    <2>4. stray' = FALSE /\ pending' = pending \ {calls[d].token} /\ pending' \subseteq Token
      BY <1>4, <2>3, HeldPending
    <2>5. calls[d] \in Context /\ calls[d].state = "DIALING"
      BY <2>1, SlotType, CallAssumption DEF DialSlot
    <2>6. ASSUME NEW r \in Slot, r # d
          PROVE  calls'[r] = calls[r] /\ calls[r].id # DialId
      <3>1. calls'[r] = [calls[r] EXCEPT !.id = @, !.token = @]
        BY <1>4, <2>3, <2>6
      <3>2. calls'[r] = calls[r]
        BY <3>1, SlotType DEF Context, NoCall
      <3>3. QED
        BY <3>2, <2>1, <2>6 DEF DialSlot
    <2>7. /\ calls'[d].id = c /\ calls'[d].token = NoToken
          /\ calls'[d].state = "DIALING" /\ calls'[d] \in Context
      BY <1>4, <2>1, <2>3, <2>5 DEF Context
    <2>8. TypeOK'
      <3>1. calls' \in [Slot -> Context \cup {NoCall}]
        BY <1>4, <2>6, <2>7, SlotType
      <3>2. QED
        BY <1>1, <2>4, <3>1 DEF TypeOK, RequestTypeOK
    <2>9. TokensOnce'
      BY <2>1, <2>4, <2>6, <2>7 DEF TokensOnce
    <2>10. DialSlot'
      BY <2>6, <2>7, CallAssumption DEF DialSlot
    <2>11. IdsDistinct'
      BY <1>1, <1>2, <2>6, <2>7 DEF IdsDistinct
    <2>12. OneIncoming'
      BY <1>1, <1>2, <2>6, <2>7 DEF OneIncoming
    <2>13. QED
      BY <2>8, <2>9, <2>10, <2>11, <2>12
  <1>5. QED
    BY <1>3, <1>4 DEF CallSetupInd

(* The set-up fails and the dialled call leaves the table.                 *)
LEMMA SetupErrorInv ==
  ASSUME CallInv, CallError(DialId), net' = net,
         cmds' \in Seq(Command), crossed' \in BOOLEAN
  PROVE  CallInv'
  <1>1. /\ net' \in [CallId -> Phase]
        /\ \A d, e \in CallId : net'[d] = "ringing" /\ net'[e] = "ringing" => d = e
    BY DEF CallInv, TypeOK, OneIncoming
  <1>2. CASE NoEffect
    BY <1>1, <1>2, NoEffectInv DEF CallInv, IdsDistinct
  <1>3. ASSUME NEW s \in Find(DialId), Drop(s)
        PROVE  CallInv'
    BY <1>1, <1>3, FindType, DropInv DEF CallInv
  <1>4. QED
    BY <1>2, <1>3 DEF CallError

(* The confirmations and the answer of the far end: the call of the table  *)
(* follows the modem, or stays as it is.                                   *)
LEMMA ConfirmInv ==
  ASSUME CallInv, NEW c \in CallId, net[c] # "idle", NEW ph \in {"active", "held"},
         NEW st \in {"ACTIVE", "HOLDING"}, net' = [net EXCEPT ![c] = ph],
         cmds' \in Seq(Command), crossed' \in BOOLEAN,
         \/ NoEffect /\ (Find(c) = {} \/ net[c] # "ringing")
         \/ \E s \in Find(c) : Settle(s, st)
  PROVE  CallInv'
  <1>1. /\ net' \in [CallId -> Phase]
        /\ \A d, e \in CallId : net'[d] = "ringing" /\ net'[e] = "ringing" => d = e
        /\ \A d \in CallId : d # c => net'[d] = net[d]
        /\ net'[c] = ph
    BY NetChange DEF Phase
  <1>2. CASE NoEffect /\ (Find(c) = {} \/ net[c] # "ringing")
    <2>1. ASSUME NEW s \in Slot, calls[s].id \in CallId
          PROVE  /\ net'[calls[s].id] # "idle"
                 /\ net[calls[s].id] = "ringing" => net'[calls[s].id] = "ringing"
      BY <1>1, <1>2, <2>1, FindEmpty DEF CallInv, IdsDistinct
    <2>2. QED
      BY <1>1, <1>2, <2>1, NoEffectInv
  <1>3. ASSUME NEW s \in Find(c), Settle(s, st)
        PROVE  CallInv'
    <2>1. s \in Slot /\ calls[s].id = c /\ st \in CallState
      BY FindType DEF CallInv, CallState
    <2>2. QED
      BY <1>1, <1>3, <2>1, SettleInv
  <1>4. QED
    BY <1>2, <1>3

LEMMA RefuseInv ==
  ASSUME CallInv, NEW c \in CallId, net' = net,
         cmds' \in Seq(Command), crossed' \in BOOLEAN,
         NoEffect \/ \E s \in Find(c) : Settle(s, calls[s].state)
  PROVE  CallInv'
  <1>1. /\ net' \in [CallId -> Phase]
        /\ \A d, e \in CallId : net'[d] = "ringing" /\ net'[e] = "ringing" => d = e
    BY DEF CallInv, TypeOK, OneIncoming
  <1>2. CASE NoEffect
    BY <1>1, <1>2, NoEffectInv DEF CallInv, IdsDistinct
  <1>3. ASSUME NEW s \in Find(c), Settle(s, calls[s].state)
        PROVE  CallInv'
    <2>1. s \in Slot /\ calls[s].id = c
      BY FindType DEF CallInv
    <2>2. calls[s].state \in CallState
      BY <2>1, SlotType, CallAssumption DEF CallInv, Context
    <2>3. net'[c] # "idle" /\ (calls[s].state = "INCOMING" => net'[c] = "ringing")
      BY <2>1 DEF CallInv, IdsDistinct, OneIncoming
    <2>4. QED
      BY <1>1, <1>3, <2>1, <2>2, <2>3, SettleInv
  <1>4. QED
    BY <1>2, <1>3

(* The far end rings.                                                      *)
LEMMA AlertInv ==
  ASSUME CallInv, NEW c \in CallId, net[c] = "orig", CallAlert(c),
         UNCHANGED <<cmds, net, crossed>>
  PROVE  CallInv'
  <1> USE DEF CallInv, requestVars
  <1>1. CASE NoEffect
    BY <1>1, NoEffectInv DEF TypeOK, IdsDistinct, OneIncoming
  <1>2. ASSUME NEW s \in Find(c), calls' = [calls EXCEPT ![s].state = "ALERTING"],
               UNCHANGED requestVars
        PROVE  CallInv'
    <2>1. s \in Slot /\ calls[s].id = c /\ calls[s] \in Context
      BY FindType, SlotType, CallAssumption
    <2>2. /\ \A r \in Slot : /\ r # s => calls'[r] = calls[r]
                             /\ calls'[r].id = calls[r].id
                             /\ calls'[r].token = calls[r].token
          /\ calls'[s].state = "ALERTING" /\ calls'[s] \in Context
      BY <1>2, <2>1 DEF TypeOK, Context, CallState
    <2>3. TypeOK'
      <3>1. calls' \in [Slot -> Context \cup {NoCall}]
        BY <1>2, <2>2 DEF TypeOK
      <3>2. QED
        BY <1>2, <3>1 DEF TypeOK, RequestTypeOK
    <2>4. TokensOnce'
      BY <1>2, <2>2 DEF TokensOnce
    <2>5. DialSlot'
      BY <2>1, <2>2, CallAssumption DEF DialSlot
    <2>6. IdsDistinct'
      BY <2>2 DEF IdsDistinct
    <2>7. OneIncoming'
      BY <2>2 DEF OneIncoming
    <2>8. QED
      BY <2>3, <2>4, <2>5, <2>6, <2>7
  <1>3. QED
    BY <1>1, <1>2 DEF CallAlert

(* A call comes in under an identifier the modem does not use.             *)
LEMMA IncomingInv ==
  ASSUME CallInv, NEW c \in CallId, FarCall(c)
  PROVE  CallInv'
  <1> USE DEF FarCall
  <1>1. /\ net' \in [CallId -> Phase]
        /\ \A d, e \in CallId : net'[d] = "ringing" /\ net'[e] = "ringing" => d = e
        /\ \A d \in CallId : d # c => net'[d] = net[d]
        /\ net'[c] = "ringing"
    BY NetChange DEF Phase
  <1>2. ASSUME NEW s \in Slot, calls[s].id \in CallId
        PROVE  calls[s].id # c /\ net'[calls[s].id] = net[calls[s].id]
               /\ net[calls[s].id] # "idle"
    BY <1>1, <1>2 DEF CallInv, IdsDistinct
  <1>3. cmds' \in Seq(Command) /\ crossed' \in BOOLEAN
    BY DEF CallInv, TypeOK
  <1>4. CASE NoEffect
    BY <1>1, <1>2, <1>3, <1>4, NoEffectInv
  <1>5. ASSUME NEW s \in NewSlot, NEW st \in {"WAITING", "INCOMING"},
               calls' = [calls EXCEPT ![s] = [id |-> c, state |-> st, token |-> NoToken]],
               UNCHANGED requestVars
        PROVE  CallInv'
    <2> USE <1>5 DEF CallInv, requestVars
    <2>1. s \in Slot /\ calls[s].id = NoId
      BY NewSlotType
    <2>2. /\ \A r \in Slot : r # s => calls'[r] = calls[r]
          /\ calls'[s].id = c /\ calls'[s].state = st /\ calls'[s].token = NoToken
          /\ calls'[s] \in Context
          /\ calls' \in [Slot -> Context \cup {NoCall}]
      BY <2>1 DEF TypeOK, Context, CallState
    <2>3. TypeOK'
      BY <1>1, <1>3, <2>2 DEF TypeOK, RequestTypeOK
    <2>4. TokensOnce'
      BY <2>2 DEF TokensOnce
    <2>5. DialSlot'
      BY <2>2, CallAssumption DEF DialSlot
    <2>6. IdsDistinct'
      BY <1>1, <1>2, <2>2 DEF IdsDistinct
    <2>7. OneIncoming'
      BY <1>1, <1>2, <2>2 DEF OneIncoming
    <2>8. QED
      BY <2>3, <2>4, <2>5, <2>6, <2>7
  <1>6. QED
    BY <1>4, <1>5 DEF CallIncoming

(* A swap the modem has performed: two calls change places.                *)
LEMMA SwapInv ==
  ASSUME CallInv, NEW a \in CallId, NEW h \in CallId,
         net[a] = "active", net[h] = "held", CallSwap(h, a, TRUE),
         net' = [net EXCEPT ![a] = "held", ![h] = "active"],
         cmds' \in Seq(Command), crossed' \in BOOLEAN
  PROVE  CallInv'
  <1>1. /\ net' \in [CallId -> Phase]
        /\ net'[a] = "held" /\ net'[h] = "active"
        /\ \A d \in CallId : /\ d \notin {a, h} => net'[d] = net[d]
                             /\ net'[d] = "ringing" <=> net[d] = "ringing"
                             /\ net'[d] = "idle" <=> net[d] = "idle"
    BY DEF CallInv, TypeOK, Phase
  <1>2. \A d, e \in CallId : net'[d] = "ringing" /\ net'[e] = "ringing" => d = e
    BY <1>1 DEF CallInv, OneIncoming
  <1>3. CASE NoEffect
    BY <1>1, <1>2, <1>3, NoEffectInv DEF CallInv, IdsDistinct
  <1>4. ASSUME NEW p \in Find(h), NEW q \in Find(a),
               calls' = [calls EXCEPT ![p].state = "ACTIVE",
                                      ![q].state = "HOLDING", ![q].token = NoToken],
               Answer({}, Held({q}))
        PROVE  CallInv'
    <2> USE DEF CallInv
    <2>1. /\ p \in Slot /\ calls[p].id = h /\ calls[p] \in Context
          /\ q \in Slot /\ calls[q].id = a /\ calls[q] \in Context
          /\ p # q
      BY FindType, SlotType, CallAssumption
    <2>2. stray' = FALSE /\ pending' = pending \ {calls[q].token} /\ pending' \subseteq Token
      BY <1>4, <2>1, HeldPending
    <2>3. /\ calls'[p] = [calls[p] EXCEPT !.state = "ACTIVE"]
          /\ calls'[q] = [calls[q] EXCEPT !.state = "HOLDING", !.token = NoToken]
          /\ \A r \in Slot : r \notin {p, q} => calls'[r] = calls[r]
      BY <1>4, <2>1 DEF TypeOK
    <2>4. /\ calls'[p] \in Context /\ calls'[q] \in Context
          /\ calls'[p].id = h /\ calls'[p].token = calls[p].token
          /\ calls'[q].id = a /\ calls'[q].token = NoToken
          /\ calls'[p].state = "ACTIVE" /\ calls'[q].state = "HOLDING"
      BY <2>1, <2>3 DEF Context, CallState
    <2>5. /\ \A r \in Slot : /\ r \notin {p, q} => calls'[r] = calls[r]
                             /\ calls'[r].id = calls[r].id
                             /\ r # q => calls'[r].token = calls[r].token
          /\ calls'[q].token = NoToken
          /\ calls'[p].state = "ACTIVE" /\ calls'[q].state = "HOLDING"
      BY <2>1, <2>3, <2>4
    <2>6. TypeOK'
      <3>1. calls' \in [Slot -> Context \cup {NoCall}]
        BY <1>4, <2>3, <2>4 DEF TypeOK
      <3>2. QED
        BY <1>1, <2>2, <3>1 DEF TypeOK, RequestTypeOK
    <2>7. TokensOnce'
      BY <2>1, <2>2, <2>5 DEF TokensOnce
    <2>8. DialSlot'
      BY <2>1, <2>5, CallAssumption DEF DialSlot
    <2>9. IdsDistinct'
      BY <1>1, <2>5 DEF IdsDistinct
    <2>10. OneIncoming'
      BY <1>1, <1>2, <2>5 DEF OneIncoming
    <2>11. QED
      BY <2>6, <2>7, <2>8, <2>9, <2>10
  <1>5. QED
    BY <1>3, <1>4 DEF CallSwap

-----------------------------------------------------------------------------
(* Every step preserves the invariant.                                     *)

LEMMA RequestInv ==
  ASSUME CallInv, NEW t \in Token, Idle(t), Request(t)
  PROVE  CallInv'
  BY DialInv, HangupInv, HangupWaitingOrBackgroundInv,
     HangupForegroundResumeBackgroundInv, AnswerCallInv, SwitchInv DEF Request

(* What the command the modem takes names.                                 *)
LEMMA TakenCommand ==
  ASSUME CallInv, NEW op \in {"RELEASE", "ANSWER", "HOLD", "ACTIVATE"}, Take(op)
  PROVE  Head(cmds).id \in CallId
  BY TakeType DEF CallInv, Take, Command, ToneCommand

LEMMA ModemStepInv ==
  ASSUME CallInv, ModemStep
  PROVE  CallInv'
  <1>1. crossed' \in BOOLEAN /\ crossed' = crossed /\ cmds' \in Seq(Command)
    BY TakeType DEF ModemStep, ModemSetup, ModemRelease, ModemAnswer, ModemHold,
       ModemActivate, ModemSwap, CallInv, TypeOK
  <1> DEFINE c == Head(cmds).id
  <1>2. CASE ModemSetup
    BY <1>1, <1>2, SetupIndInv, SetupErrorInv DEF ModemSetup
  <1>3. CASE ModemRelease
    <2>1. c \in CallId
      BY <1>3, TakenCommand DEF ModemRelease
    <2>2. CASE net[c] # "idle" /\ net' = [net EXCEPT ![c] = "idle"] /\ CallEnd(c)
      BY <1>1, <2>1, <2>2, EndInv
    <2>3. CASE NoEffect /\ net' = net
      BY <1>1, <2>1, <2>3, RefuseInv
    <2>4. QED
      BY <1>3, <2>2, <2>3 DEF ModemRelease
  <1>4. CASE ModemAnswer
    <2>1. c \in CallId
      BY <1>4, TakenCommand DEF ModemAnswer
    <2>2. CASE net[c] = "ringing" /\ net' = [net EXCEPT ![c] = "active"] /\ CallConnected(c)
      BY <1>1, <2>1, <2>2, ConfirmInv DEF CallConnected
    <2>3. CASE NoEffect /\ net' = net
      BY <1>1, <2>1, <2>3, RefuseInv
    <2>4. QED
      BY <1>4, <2>2, <2>3 DEF ModemAnswer
  <1>5. CASE ModemHold
    <2>1. c \in CallId
      BY <1>5, TakenCommand DEF ModemHold
    <2>2. CASE net[c] = "active" /\ net' = [net EXCEPT ![c] = "held"] /\ CallHold(c, TRUE)
      BY <1>1, <2>1, <2>2, ConfirmInv DEF CallHold
    <2>3. CASE CallHold(c, FALSE) /\ net' = net
      BY <1>1, <2>1, <2>3, RefuseInv DEF CallHold
    <2>4. QED
      BY <1>5, <2>2, <2>3 DEF ModemHold
  <1>6. CASE ModemActivate
    <2>1. c \in CallId
      BY <1>6, TakenCommand DEF ModemActivate
    <2>2. CASE net[c] = "held" /\ net' = [net EXCEPT ![c] = "active"] /\ CallActivate(c, TRUE)
      BY <1>1, <2>1, <2>2, ConfirmInv DEF CallActivate
    <2>3. CASE CallActivate(c, FALSE) /\ net' = net
      BY <1>1, <2>1, <2>3, RefuseInv DEF CallActivate
    <2>4. QED
      BY <1>6, <2>2, <2>3 DEF ModemActivate
  <1>7. CASE ModemSwap
    <2> DEFINE h == Head(cmds).other
    <2>1. c \in CallId /\ h \in CallId
      BY <1>7, TakeType DEF ModemSwap, CallInv, Take, Command, ToneCommand
    <2>2. CASE net[c] = "active" /\ net[h] = "held" /\ CallSwap(h, c, TRUE)
               /\ net' = [net EXCEPT ![c] = "held", ![h] = "active"]
      BY <1>1, <2>1, <2>2, SwapInv
    <2>3. CASE CallSwap(h, c, FALSE) /\ net' = net
      BY <1>1, <2>1, <2>3, RefuseInv DEF CallSwap
    <2>4. QED
      BY <1>7, <2>2, <2>3 DEF ModemSwap
  <1>8. QED
    BY <1>2, <1>3, <1>4, <1>5, <1>6, <1>7 DEF ModemStep

LEMMA FarStepInv ==
  ASSUME CallInv, NEW c \in CallId, FarStep(c)
  PROVE  CallInv'
  <1>1. CASE FarAlert(c)
    BY <1>1, AlertInv DEF FarAlert
  <1>2. CASE FarAnswer(c)
    BY <1>2, ConfirmInv DEF FarAnswer, CallConnected, CallInv, TypeOK
  <1>3. CASE FarCall(c)
    BY <1>3, IncomingInv
  <1>4. CASE FarEnd(c)
    <2>1. crossed' \in BOOLEAN /\ cmds' \in Seq(Command)
      BY <1>4 DEF FarEnd, CallInv, TypeOK, SwapNames
    <2>2. QED
      BY <1>4, <2>1, EndInv DEF FarEnd
  <1>5. QED
    BY <1>1, <1>2, <1>3, <1>4 DEF FarStep

LEMMA StutterInv ==
  ASSUME CallInv, UNCHANGED vars
  PROVE  CallInv'
  BY DEF vars, CallInv, TypeOK, RequestTypeOK, TokensOnce, DialSlot, IdsDistinct, OneIncoming

LEMMA CallNext == CallInv /\ [Next]_vars => CallInv'
  BY RequestInv, ModemStepInv, FarStepInv, StutterInv DEF Next

(* Every reachable state satisfies the invariant.                          *)
LEMMA CallInvariant == Spec => []CallInv
  BY CallInit, CallNext, PTL DEF Spec

(* The table, the commands and the ledger keep their types: in particular  *)
(* a dialled call is never mistaken for an empty slot.                     *)
THEOREM CallTypes == Spec => []TypeOK
  BY CallInvariant, PTL DEF CallInv

(* The `token != 0' tests and `token = 0' resets of call.c suffice: every  *)
(* stored request is still awaited and stored once, and none is completed  *)
(* twice, for any number of calls and requests.                            *)
THEOREM CallTokensOnce == Spec => []TokensOnce
  BY CallInvariant, PTL DEF CallInv

(* The identifier 0xFF belongs to at most one call, which is DIALING and   *)
(* whose request is unanswered, so no command but the set-up carries it.   *)
THEOREM CallDialSlot == Spec => []DialSlot
  BY CallInvariant, PTL DEF CallInv

(* The first match of find_ril_call_context is the only one, and it is a   *)
(* call the modem has.                                                     *)
THEOREM CallIdsDistinct == Spec => []IdsDistinct
  BY CallInvariant, PTL DEF CallInv

-----------------------------------------------------------------------------
(* What a step does to the requests of the table.                          *)

(* The request a slot holds stays there or has been completed.             *)
KeptOrDone == \A r \in Slot : calls[r].token # NoToken =>
          calls'[r].token = calls[r].token \/ calls[r].token \notin pending'

LEMMA SameKept ==
  ASSUME calls' = calls
  PROVE  KeptOrDone
  BY DEF KeptOrDone

LEMMA KeepKept ==
  ASSUME CallInv, NEW t, NEW s \in Slot, calls[s].token = NoToken,
         calls' = [calls EXCEPT ![s].token = t]
  PROVE  KeptOrDone
  BY DEF KeptOrDone, CallInv, TypeOK

LEMMA SettleKept ==
  ASSUME CallInv, NEW s \in Slot, NEW st, Settle(s, st)
  PROVE  KeptOrDone
  <1>1. calls[s].token \notin pending'
    BY HeldPending DEF Settle
  <1>2. \A r \in Slot : r # s => calls'[r] = calls[r]
    BY DEF Settle, CallInv, TypeOK
  <1>3. QED
    BY <1>1, <1>2 DEF KeptOrDone

LEMMA DropKept ==
  ASSUME CallInv, NEW s \in Slot, Drop(s)
  PROVE  KeptOrDone
  <1>1. calls[s].token \notin pending'
    BY HeldPending DEF Drop
  <1>2. \A r \in Slot : r # s => calls'[r] = calls[r]
    BY DEF Drop, CallInv, TypeOK
  <1>3. QED
    BY <1>1, <1>2 DEF KeptOrDone

LEMMA RequestKept ==
  ASSUME CallInv, NEW t \in Token, Idle(t), Request(t)
  PROVE  KeptOrDone
  <1>1. CASE calls' = calls
    BY <1>1, SameKept
  <1>2. ASSUME NEW S, ~Busy(S), NEW st \in CallState, InState(st) \subseteq S,
               NEW s \in Latest(st), NEW q, Keep(t, s, q)
        PROVE  KeptOrDone
    <2>1. s \in Slot /\ calls[s].token = NoToken
      BY <1>2, PickedCall
    <2>2. QED
      BY <1>2, <2>1, KeepKept DEF Keep
  <1>3. CASE Dial(t)
    <2>1. ASSUME NEW s \in NewSlot, calls' = [calls EXCEPT ![s] =
                   [id |-> DialId, state |-> "DIALING", token |-> t]]
          PROVE  KeptOrDone
      <3>1. s \in Slot /\ calls[s].token = NoToken
        BY NewSlotType, SlotType DEF CallInv, NoCall
      <3>2. QED
        BY <2>1, <3>1 DEF KeptOrDone, CallInv, TypeOK
    <2>2. QED
      BY <1>1, <1>3, <2>1 DEF Dial, Reply
  <1>4. ASSUME NEW s \in Slot, Hangup(t, s)
        PROVE  KeptOrDone
    BY <1>1, <1>4, KeepKept DEF Hangup, Reply, Keep, Busy
  <1>5. CASE HangupWaitingOrBackground(t)
    <2> DEFINE all == InState("ACTIVE") \cup InState("HOLDING") \cup
                      InState("WAITING") \cup InState("INCOMING")
    <2>1. ASSUME ~Busy(all), NEW s \in WaitingOrBackground, NEW q, Keep(t, s, q)
          PROVE  KeptOrDone
      <3>1. PICK st \in {"WAITING", "ACTIVE", "HOLDING", "INCOMING"} : s \in Latest(st)
        BY <2>1 DEF WaitingOrBackground
      <3>2. st \in CallState /\ InState(st) \subseteq all
        BY <3>1 DEF CallState
      <3> HIDE DEF all
      <3>3. QED
        BY <1>2, <2>1, <3>1, <3>2
    <2>2. QED
      BY <1>1, <1>5, <2>1 DEF HangupWaitingOrBackground, Reply
  <1>6. CASE HangupForegroundResumeBackground(t)
    <2> DEFINE all == InState("ACTIVE") \cup InState("HOLDING")
    <2>1. ASSUME ~Busy(all), NEW st \in {"ACTIVE", "HOLDING"}, NEW s \in Latest(st),
                 NEW q, Keep(t, s, q)
          PROVE  KeptOrDone
      <3>1. st \in CallState /\ InState(st) \subseteq all
        BY <2>1 DEF CallState
      <3> HIDE DEF all
      <3>2. QED
        BY <1>2, <2>1, <3>1
    <2>2. QED
      BY <1>1, <1>6, <2>1 DEF HangupForegroundResumeBackground, Reply
  <1>7. CASE SwitchWaitingOrHoldingAndActive(t)
    <2> DEFINE all == InState("ACTIVE") \cup InState("HOLDING") \cup InState("WAITING")
    <2>1. ASSUME ~Busy(all), NEW st \in {"ACTIVE", "HOLDING", "WAITING"},
                 NEW s \in Latest(st), NEW q, Keep(t, s, q)
          PROVE  KeptOrDone
      <3>1. st \in CallState /\ InState(st) \subseteq all
        BY <2>1 DEF CallState
      <3> HIDE DEF all
      <3>2. QED
        BY <1>2, <2>1, <3>1
    <2>2. QED
      BY <1>1, <1>7, <2>1 DEF SwitchWaitingOrHoldingAndActive, Reply, Forget
  <1>8. CASE AnswerCall(t)
    <2> DEFINE ringing == InState("INCOMING")
               hit == {s \in ringing : \A r \in ringing : r <= s => ~Busy({r})}
    <2>1. calls' = [s \in Slot |->
             IF s \in hit THEN [calls[s] EXCEPT !.token = t] ELSE calls[s]]
      BY <1>8 DEF AnswerCall
    <2>2. ASSUME NEW s \in hit
          PROVE  calls[s].token = NoToken
      <3>1. s \in Nat
        BY <2>2, CallAssumption DEF InState, Slot
      <3>2. QED
        BY <2>2, <3>1 DEF Busy
    <2> HIDE DEF hit
    <2>3. QED
      BY <2>1, <2>2 DEF KeptOrDone
  <1>9. QED
    BY <1>3, <1>4, <1>5, <1>6, <1>7, <1>8 DEF Request

LEMMA IndicationKept ==
  ASSUME CallInv, ModemStep \/ \E c \in CallId : FarStep(c)
  PROVE  KeptOrDone
  <1>1. CASE calls' = calls
    BY <1>1, SameKept
  <1>2. ASSUME NEW id, NEW s \in Find(id), NEW st, Settle(s, st) \/ Drop(s)
        PROVE  KeptOrDone
    BY <1>2, FindType, SettleKept, DropKept DEF CallInv
  <1>3. ASSUME NEW id, CallEnd(id) \/ CallError(id) \/ CallConnected(id)
        PROVE  KeptOrDone
    BY <1>1, <1>2, <1>3 DEF CallEnd, CallError, CallConnected, NoEffect
  <1>4. ASSUME NEW id, NEW ok \in BOOLEAN, CallHold(id, ok) \/ CallActivate(id, ok)
        PROVE  KeptOrDone
    BY <1>1, <1>2, <1>4 DEF CallHold, CallActivate, NoEffect
  <1>5. ASSUME NEW id, CallSetupInd(id)
        PROVE  KeptOrDone
    <2>1. ASSUME NEW d \in Find(DialId), NEW s \in Slot,
                 calls' = [r \in Slot |->
                   [calls[r] EXCEPT !.id = IF r = d THEN id ELSE @,
                                    !.token = IF r = s THEN NoToken ELSE @]],
                 Answer({}, Held({s}))
          PROVE  KeptOrDone
      <3>1. calls[s].token \notin pending'
        BY <2>1, HeldPending
      <3>2. ASSUME NEW r \in Slot, r # s
            PROVE  calls'[r].token = calls[r].token
        <4>1. calls'[r] = [calls[r] EXCEPT !.id = IF r = d THEN id ELSE @,
                                           !.token = @]
          BY <2>1, <3>2
        <4>2. calls[r] \in Context \cup {NoCall}
          BY SlotType DEF CallInv
        <4>3. calls'[r].token = calls[r].token
          BY <4>1, <4>2 DEF Context, NoCall
        <4>4. QED
          BY <4>3
      <3>3. QED
        BY <3>1, <3>2 DEF KeptOrDone
    <2>2. QED
      BY <1>1, <1>5, <2>1 DEF CallSetupInd, NoEffect
  <1>6. ASSUME NEW id, CallAlert(id)
        PROVE  KeptOrDone
    <2>1. ASSUME NEW s \in Find(id), calls' = [calls EXCEPT ![s].state = "ALERTING"]
          PROVE  KeptOrDone
      <3>1. s \in Slot /\ calls[s] \in Context \cup {NoCall}
        BY FindType, SlotType DEF CallInv
      <3>2. QED
        BY <2>1, <3>1 DEF KeptOrDone, CallInv, TypeOK, Context, NoCall
    <2>2. QED
      BY <1>1, <1>6, <2>1 DEF CallAlert, NoEffect
  <1>7. ASSUME NEW id, CallIncoming(id)
        PROVE  KeptOrDone
    <2>1. ASSUME NEW s \in NewSlot, NEW call, calls' = [calls EXCEPT ![s] = call]
          PROVE  KeptOrDone
      <3>1. s \in Slot /\ calls[s].token = NoToken
        BY NewSlotType, SlotType DEF CallInv, NoCall
      <3>2. QED
        BY <2>1, <3>1 DEF KeptOrDone, CallInv, TypeOK
    <2>2. QED
      BY <1>1, <1>7, <2>1 DEF CallIncoming, NoEffect
  <1>8. ASSUME NEW a, NEW h, CallSwap(a, h, TRUE) \/ CallSwap(a, h, FALSE)
        PROVE  KeptOrDone
    <2>1. ASSUME NEW p \in Find(a), NEW q \in Find(h),
                 calls' = [calls EXCEPT ![p].state = "ACTIVE",
                             ![q].state = "HOLDING", ![q].token = NoToken],
                 Answer({}, Held({q}))
          PROVE  KeptOrDone
      <3>1. p \in Slot /\ q \in Slot /\ calls[p] \in Context \cup {NoCall}
        BY FindType, SlotType DEF CallInv
      <3>2. calls[q].token \notin pending'
        BY <2>1, <3>1, HeldPending
      <3>3. ASSUME NEW r \in Slot, r # q
            PROVE  calls'[r].token = calls[r].token
        BY <2>1, <3>1, <3>3 DEF CallInv, TypeOK, Context, NoCall
      <3>4. QED
        BY <3>2, <3>3 DEF KeptOrDone
    <2>2. QED
      BY <1>1, <1>2, <1>8, <2>1 DEF CallSwap, NoEffect
  <1>9. CASE ModemStep
    <2>1. \/ ModemSetup \/ ModemRelease \/ ModemAnswer
          \/ ModemHold \/ ModemActivate \/ ModemSwap
      BY <1>9 DEF ModemStep
    <2>2. CASE ModemSetup
      BY <2>2, <1>3, <1>5 DEF ModemSetup
    <2>3. CASE ModemRelease \/ ModemAnswer
      BY <2>3, <1>1, <1>3 DEF ModemRelease, ModemAnswer, NoEffect
    <2>4. CASE ModemHold \/ ModemActivate
      BY <2>4, <1>4 DEF ModemHold, ModemActivate
    <2>5. CASE ModemSwap
      BY <2>5, <1>8 DEF ModemSwap
    <2>6. QED
      BY <2>1, <2>2, <2>3, <2>4, <2>5
  <1>10. ASSUME NEW c \in CallId, FarStep(c)
         PROVE  KeptOrDone
    BY <1>3, <1>6, <1>7, <1>10 DEF FarStep, FarAlert, FarAnswer, FarCall, FarEnd
  <1>11. QED
    BY <1>9, <1>10

(* A request kept in the table is not overwritten by another one: it       *)
(* leaves the table only by being completed, whatever calls end, cross or  *)
(* are refused meanwhile.                                                  *)
THEOREM CallNeverForgotten == Spec => NeverForgotten
  <1>1. CallInv /\ [Next]_vars => [\A t \in Stored : t \in Stored' \/ t \notin pending']_vars
    <2> SUFFICES ASSUME CallInv, Next
                 PROVE  \A t \in Stored : t \in Stored' \/ t \notin pending'
      OBVIOUS
    <2>1. KeptOrDone
      BY RequestKept, IndicationKept DEF Next
    <2>2. QED
      BY <2>1 DEF KeptOrDone, Stored, Held
  <1>2. QED
    BY CallInvariant, <1>1, PTL DEF Spec, NeverForgotten

-----------------------------------------------------------------------------
(* The commands on their way, as long as none crossed.  What the table     *)
(* shows follows the modem only because each command that is on its way is *)
(* the only one on its calls, and still fits what both sides know of them. *)

Names(c) == {c.id, c.other} \ {NoId}

(* No two commands are on the same call.                                   *)
Apart ==
  ~crossed => \A i, j \in DOMAIN cmds :
    i # j => Names(cmds[i]) \cap Names(cmds[j]) = {}

(* What a command presupposes: a call that is to be answered still rings   *)
(* while its request waits, one that is to be resumed still has a request  *)
(* when it is held, and the two calls of a swap stay as they were.         *)
Fits(c) ==
  /\ c.op = "ANSWER" => \A s \in Slot :
       calls[s].id = c.id /\ calls[s].token # NoToken => net[c.id] = "ringing"
  /\ c.op = "ACTIVATE" => \A s \in Slot :
       calls[s].id = c.id /\ net[c.id] = "held" => calls[s].token # NoToken
  /\ c.op = "SWAP" =>
       /\ net[c.id] = "active" /\ net[c.other] = "held"
       /\ \E s \in Slot : calls[s].id = c.id /\ calls[s].token # NoToken
       /\ \E s \in Slot : calls[s].id = c.other

AllFit == ~crossed => \A i \in DOMAIN cmds : Fits(cmds[i])

LineInv == Apart /\ AllFit /\ ViewAgrees /\ TokenBacked

LEMMA LineInit == Init => LineInv
<1> SUFFICES ASSUME Init PROVE LineInv
  OBVIOUS
<1>1. /\ \A s \in Slot : calls[s].id = NoId /\ calls[s].token = NoToken
      /\ cmds = <<>> /\ DOMAIN <<>> = {}
  BY DEF Init, NoCall
<1> QED
  BY <1>1, CallAssumption DEF LineInv, Apart, AllFit, ViewAgrees, TokenBacked

(* What a command of the queue names; a tone's changes no call.            *)
LEMMA CommandNames ==
  ASSUME NEW k \in Command
  PROVE  /\ k.id # NoId => k.id \in Names(k)
         /\ Names(k) \subseteq CallId \cup {DialId} /\ NoId \notin Names(k)
         /\ k.op = "SWAP" => k.id \in Names(k) /\ k.other \in Names(k)
         /\ k.op \notin {"SWAP", "START", "STOP"} => Names(k) = {k.id}
         /\ k.op \in {"START", "STOP"} => Names(k) = {}
<1>1. k.op \notin {"START", "STOP"} => k.id # NoId /\ k.id \in CallId \cup {DialId}
  BY CallAssumption DEF Command, ToneCommand
<1>2. k.other \in CallId \/ k.other = NoId
  BY DEF Command, ToneCommand
<1>3. k.op = "SWAP" => k.other \in CallId /\ k.other # NoId
  BY CallAssumption DEF Command, ToneCommand
<1>4. k.op # "SWAP" => k.other = NoId
  BY DEF Command, ToneCommand
<1>5. k.op \in {"START", "STOP"} => k.id = NoId
  BY CallAssumption DEF Command, ToneCommand
<1> QED
  BY <1>1, <1>2, <1>3, <1>4, <1>5, CallAssumption DEF Names

(* A state of the table that names one phase at the modem.                 *)
LEMMA PhaseOf ==
  ASSUME NEW ph \in Phase, NEW st \in StatesOf(ph)
  PROVE  /\ st = "ACTIVE" => ph = "active"
         /\ st = "HOLDING" => ph = "held"
         /\ st \in {"INCOMING", "WAITING"} => ph = "ringing"
BY DEF Phase, StatesOf

(* A handler that leaves the table, the commands and the modem alone.      *)
LEMMA SameLine ==
  ASSUME LineInv, UNCHANGED <<calls, cmds, net, crossed>>
  PROVE  LineInv'
BY DEF LineInv, Apart, AllFit, Fits, ViewAgrees, TokenBacked

-----------------------------------------------------------------------------
(* Steps that send no command: they change the calls of D only.            *)

Touches(D) ==
  /\ \A s \in Slot :
       \/ calls'[s] = calls[s]
       \/ calls[s].id \in D \cup {NoId} /\ calls'[s].id \in D \cup {NoId}
  /\ \A x \in CallId \ D : net'[x] = net[x]

(* The calls of D that are left hold no request and show the modem's state.*)
Settled(D) ==
  \A s \in Slot : calls'[s].id \in D =>
    /\ calls'[s].token = NoToken
    /\ calls'[s].id \in CallId => calls'[s].state \in StatesOf(net'[calls'[s].id])

(* The commands left on calls of D presuppose nothing of them.             *)
Harmless(q, D, nt) ==
  \A i \in DOMAIN q : Names(q[i]) \cap D # {} =>
    q[i].op # "SWAP" /\ (q[i].op = "ACTIVATE" => nt[q[i].id] # "held")

LEMMA FitsStays ==
  ASSUME CallInv, NEW D, NoId \notin D, Touches(D), Settled(D),
         NEW k \in Command, Fits(k),
         Names(k) \cap D # {} => k.op # "SWAP" /\ (k.op = "ACTIVATE" => net'[k.id] # "held")
  PROVE  Fits(k)'
<1>1. /\ NoId \notin Names(k)
      /\ k.op = "SWAP" => k.id \in Names(k) /\ k.other \in Names(k)
      /\ k.op \notin {"SWAP", "START", "STOP"} => Names(k) = {k.id}
      /\ k.op \in {"START", "STOP"} => Names(k) = {}
  BY CommandNames
<1>2. CASE Names(k) \cap D # {}
  <2>1. k.op # "SWAP" /\ k.id \in D /\ (k.op = "ACTIVATE" => net'[k.id] # "held")
    BY <1>1, <1>2
  <2> QED
    BY <2>1 DEF Fits, Settled
<1>3. CASE Names(k) \cap D = {}
  <2>1. /\ k.op \in {"ANSWER", "ACTIVATE", "SWAP"} => k.id \in Names(k)
        /\ k.op = "SWAP" => k.other \in Names(k)
    BY <1>1
  <2>2. ASSUME NEW s \in Slot, NEW x \in Names(k), calls[s].id = x \/ calls'[s].id = x
        PROVE  calls'[s] = calls[s]
    BY <1>1, <1>3, <2>2 DEF Touches
  <2>3. \A x \in Names(k) : x \in CallId => net'[x] = net[x]
    BY <1>3 DEF Touches
  <2>4. /\ k.op \in {"ANSWER", "ACTIVATE", "SWAP"} => k.id \in CallId
        /\ k.op = "SWAP" => k.other \in CallId
    BY DEF Command, ToneCommand
  <2> QED
    BY <2>1, <2>2, <2>3, <2>4 DEF Fits
<1> QED
  BY <1>2, <1>3

LEMMA HandledLine ==
  ASSUME CallInv, CallInv', LineInv, ~crossed, NEW D, NoId \notin D,
         \/ cmds' = cmds
         \/ cmds # <<>> /\ cmds' = Tail(cmds) /\ Names(Head(cmds)) \subseteq D,
         Touches(D), Settled(D), Harmless(cmds', D, net')
  PROVE  LineInv'
<1>1. cmds \in Seq(Command) /\ cmds' \in Seq(Command)
  BY DEF CallInv, TypeOK
<1>2. PICK n \in {0, 1} :
        /\ \A i \in DOMAIN cmds' : i + n \in DOMAIN cmds /\ cmds'[i] = cmds[i + n]
        /\ \A i \in DOMAIN cmds : i > n => i - n \in DOMAIN cmds' /\ cmds'[i - n] = cmds[i]
        /\ n = 1 => 1 \in DOMAIN cmds /\ Names(cmds[1]) \subseteq D
        /\ DOMAIN cmds \subseteq Nat \ {0} /\ DOMAIN cmds' \subseteq Nat \ {0}
  <2>1. CASE cmds' = cmds
    <3>1. /\ \A i \in DOMAIN cmds' : i + 0 \in DOMAIN cmds /\ cmds'[i] = cmds[i + 0]
          /\ \A i \in DOMAIN cmds : i - 0 \in DOMAIN cmds' /\ cmds'[i - 0] = cmds[i]
          /\ DOMAIN cmds \subseteq Nat \ {0} /\ DOMAIN cmds' \subseteq Nat \ {0}
      BY <1>1, <2>1
    <3> QED
      BY <3>1
  <2>2. CASE cmds # <<>> /\ cmds' = Tail(cmds) /\ Names(Head(cmds)) \subseteq D
    <3>1. Head(cmds) = cmds[1] /\ 1 \in DOMAIN cmds
      BY <1>1, <2>2
    <3>2. /\ \A i \in DOMAIN cmds' : i + 1 \in DOMAIN cmds /\ cmds'[i] = cmds[i + 1]
          /\ \A i \in DOMAIN cmds : i > 1 => i - 1 \in DOMAIN cmds' /\ cmds'[i - 1] = cmds[i]
          /\ DOMAIN cmds \subseteq Nat \ {0} /\ DOMAIN cmds' \subseteq Nat \ {0}
      BY <1>1, <2>2
    <3> QED
      BY <2>2, <3>1, <3>2
  <2> QED
    BY <2>1, <2>2
<1>3. Apart'
  <2> SUFFICES ASSUME NEW i \in DOMAIN cmds', NEW j \in DOMAIN cmds', i # j
               PROVE  Names(cmds'[i]) \cap Names(cmds'[j]) = {}
    BY DEF Apart
  <2>1. i + n \in DOMAIN cmds /\ j + n \in DOMAIN cmds /\ i + n # j + n
    BY <1>2
  <2> QED
    BY <1>2, <2>1 DEF LineInv, Apart
<1>4. AllFit'
  <2> SUFFICES ASSUME NEW i \in DOMAIN cmds'
               PROVE  Fits(cmds[i])'
    BY DEF AllFit
  <2>1. PICK k \in Command : k = cmds'[i] /\ k = cmds[i + n]
    BY <1>1, <1>2
  <2>2. Fits(k)
    BY <1>2, <2>1 DEF LineInv, AllFit, Fits
  <2>3. Names(k) \cap D # {} => k.op # "SWAP" /\ (k.op = "ACTIVATE" => net'[k.id] # "held")
    BY <2>1 DEF Harmless
  <2>4. Fits(k)'
    BY <2>2, <2>3, FitsStays
  <2> QED
    BY <2>1, <2>4 DEF Fits
<1>5. ASSUME NEW s \in Slot, calls'[s].id # NoId, calls'[s].id \notin D
      PROVE  calls'[s] = calls[s]
  BY <1>5 DEF Touches
<1>6. ViewAgrees'
  <2> SUFFICES ASSUME NEW s \in Slot, calls'[s].id \in CallId
               PROVE  calls'[s].state \in StatesOf(net'[calls'[s].id])
    BY DEF ViewAgrees
  <2>1. CASE calls'[s].id \in D
    BY <2>1 DEF Settled
  <2>2. CASE calls'[s].id \notin D
    <3>1. calls'[s] = calls[s] /\ net'[calls[s].id] = net[calls[s].id] /\ calls[s].id \in CallId
      BY <1>5, <2>2, CallAssumption DEF Touches
    <3> QED
      BY <3>1 DEF LineInv, ViewAgrees
  <2> QED
    BY <2>1, <2>2
<1>7. TokenBacked'
  <2> SUFFICES ASSUME NEW s \in Slot, calls'[s].token # NoToken
               PROVE  \E i \in DOMAIN cmds' : cmds'[i].id = calls'[s].id
    BY DEF TokenBacked
  <2>0. calls'[s] \in Context \cup {NoCall}
    BY DEF CallInv, TypeOK
  <2>1. calls'[s].id # NoId /\ calls'[s].id \notin D
    BY <2>0, CallAssumption DEF Context, NoCall, Settled
  <2>2. calls'[s] = calls[s]
    BY <1>5, <2>1
  <2>3. PICK i \in DOMAIN cmds : cmds[i].id = calls[s].id
    BY <2>2 DEF LineInv, TokenBacked
  <2>4. cmds[i].id \in Names(cmds[i])
    BY <2>1, <2>2, <2>3 DEF Names
  <2>5. i > n
    BY <1>2, <2>1, <2>2, <2>3, <2>4
  <2> QED
    BY <1>2, <2>2, <2>3, <2>5
<1> QED
  BY <1>3, <1>4, <1>6, <1>7 DEF LineInv

-----------------------------------------------------------------------------
(* Steps that send commands.                                               *)

(* The commands of q are appended, and the request is kept in slot s, in a *)
(* call of the table or in a new one that the modem has not named.         *)
LEMMA SendLine ==
  ASSUME CallInv, CallInv', LineInv, NEW s \in Slot, NEW q \in Seq(Command), Send(q),
         \A r \in Slot : r # s => calls'[r] = calls[r],
         calls'[s].id # NoId, calls[s].id = NoId \/ calls[s].id = calls'[s].id,
         calls'[s].id \in CallId => calls[s].id = calls'[s].id /\ calls'[s].state = calls[s].state,
         net' = net,
         \E i \in DOMAIN q : q[i].id = calls'[s].id,
         \A i, j \in DOMAIN q : i # j => Names(q[i]) \cap Names(q[j]) = {},
         ~crossed => \A i \in DOMAIN q : Fits(q[i])'
  PROVE  LineInv'
<1> SUFFICES ASSUME ~crossed' PROVE LineInv'
  BY DEF LineInv, Apart, AllFit, ViewAgrees, TokenBacked
<1>1. /\ ~crossed /\ Named(q) \cap Named(cmds) \subseteq {NoId} /\ cmds' = cmds \o q
      /\ cmds \in Seq(Command)
  BY DEF Send, CallInv, TypeOK
<1>2. /\ \A i \in DOMAIN cmds' :
           \/ i \in DOMAIN cmds /\ cmds'[i] = cmds[i]
           \/ i - Len(cmds) \in DOMAIN q /\ cmds'[i] = q[i - Len(cmds)]
      /\ \A i \in DOMAIN cmds : i \in DOMAIN cmds' /\ cmds'[i] = cmds[i]
      /\ \A i \in DOMAIN q : i + Len(cmds) \in DOMAIN cmds' /\ cmds'[i + Len(cmds)] = q[i]
      /\ Len(cmds) \in Nat /\ DOMAIN cmds' \subseteq Nat
  BY <1>1
<1>3. \A i \in DOMAIN cmds, j \in DOMAIN q : Names(cmds[i]) \cap Names(q[j]) = {}
  <2> SUFFICES ASSUME NEW i \in DOMAIN cmds, NEW j \in DOMAIN q
               PROVE  Names(cmds[i]) \cap Names(q[j]) = {}
    OBVIOUS
  <2>1. Names(cmds[i]) \subseteq Named(cmds) \ {NoId} /\ Names(q[j]) \subseteq Named(q)
    BY DEF Named, Names
  <2> QED
    BY <1>1, <2>1
<1>4. Apart'
  <2> SUFFICES ASSUME NEW i \in DOMAIN cmds', NEW j \in DOMAIN cmds', i # j
               PROVE  Names(cmds'[i]) \cap Names(cmds'[j]) = {}
    BY DEF Apart
  <2>1. CASE i \in DOMAIN cmds /\ cmds'[i] = cmds[i] /\ j \in DOMAIN cmds /\ cmds'[j] = cmds[j]
    BY <1>1, <2>1 DEF LineInv, Apart
  <2>2. CASE /\ i - Len(cmds) \in DOMAIN q /\ cmds'[i] = q[i - Len(cmds)]
             /\ j - Len(cmds) \in DOMAIN q /\ cmds'[j] = q[j - Len(cmds)]
    <3>1. i - Len(cmds) # j - Len(cmds)
      BY <1>2
    <3> QED
      BY <2>2, <3>1
  <2>3. CASE /\ i \in DOMAIN cmds /\ cmds'[i] = cmds[i]
             /\ j - Len(cmds) \in DOMAIN q /\ cmds'[j] = q[j - Len(cmds)]
    BY <1>3, <2>3
  <2>4. CASE /\ i - Len(cmds) \in DOMAIN q /\ cmds'[i] = q[i - Len(cmds)]
             /\ j \in DOMAIN cmds /\ cmds'[j] = cmds[j]
    BY <1>3, <2>4
  <2> QED
    BY <1>2, <2>1, <2>2, <2>3, <2>4
<1>6. \A i \in DOMAIN cmds : calls'[s].id \notin Names(cmds[i]) /\ calls[s].id \notin Names(cmds[i])
  <2>1. PICK j \in DOMAIN q : q[j].id = calls'[s].id
    OBVIOUS
  <2>2. q[j].id \in Names(q[j])
    BY <2>1 DEF Names
  <2>3. \A i \in DOMAIN cmds : NoId \notin Names(cmds[i])
    BY DEF Names
  <2> QED
    BY <1>3, <2>1, <2>2, <2>3
<1>7. AllFit'
  <2> SUFFICES ASSUME NEW i \in DOMAIN cmds'
               PROVE  Fits(cmds[i])'
    BY DEF AllFit
  <2>1. CASE i - Len(cmds) \in DOMAIN q /\ cmds'[i] = q[i - Len(cmds)]
    BY <1>1, <2>1 DEF Fits
  <2>2. CASE i \in DOMAIN cmds /\ cmds'[i] = cmds[i]
    <3>1. PICK k \in Command : k = cmds[i] /\ k = cmds'[i]
      BY <1>1, <2>2
    <3>2. Fits(k)
      BY <1>1, <2>2, <3>1 DEF LineInv, AllFit, Fits
    <3>3. /\ k.op \in {"ANSWER", "ACTIVATE", "SWAP"} => k.id \in Names(k)
          /\ k.op = "SWAP" => k.other \in Names(k)
          /\ calls'[s].id \notin Names(k) /\ calls[s].id \notin Names(k)
      BY <1>6, <2>2, <3>1, CommandNames
    <3>4. \A r \in Slot, x \in Names(k) :
            calls[r].id = x \/ calls'[r].id = x => calls'[r] = calls[r]
      BY <3>3
    <3>5. Fits(k)'
      BY <3>2, <3>3, <3>4 DEF Fits
    <3> QED
      BY <3>1, <3>5 DEF Fits
  <2> QED
    BY <1>2, <2>1, <2>2
<1>8. ViewAgrees'
  BY <1>1 DEF LineInv, ViewAgrees
<1>9. TokenBacked'
  <2> SUFFICES ASSUME NEW r \in Slot, calls'[r].token # NoToken
               PROVE  \E i \in DOMAIN cmds' : cmds'[i].id = calls'[r].id
    BY DEF TokenBacked
  <2>1. CASE r = s
    BY <1>2, <2>1
  <2>2. CASE r # s
    <3>1. calls'[r] = calls[r]
      BY <2>2
    <3>2. PICK i \in DOMAIN cmds : cmds[i].id = calls[r].id
      BY <1>1, <3>1 DEF LineInv, TokenBacked
    <3> QED
      BY <1>2, <3>1, <3>2
  <2> QED
    BY <2>1, <2>2
<1> QED
  BY <1>4, <1>7, <1>8, <1>9 DEF LineInv

(* A request kept in a call of the table that held none: what its commands *)
(* presuppose is what the handler has read in the table.                   *)
LEMMA KeepLine ==
  ASSUME CallInv, CallInv', LineInv, NEW t \in Token, NEW s \in Slot, calls[s].id \in CallId,
         NEW q \in Seq(Command), Keep(t, s, q),
         \E i \in DOMAIN q : q[i].id = calls[s].id,
         \A i, j \in DOMAIN q : i # j => Names(q[i]) \cap Names(q[j]) = {},
         ~crossed => \A i \in DOMAIN q :
           /\ q[i].op = "ANSWER" => net[q[i].id] = "ringing"
           /\ q[i].op = "ACTIVATE" => q[i].id = calls[s].id
           /\ q[i].op = "SWAP" =>
                /\ q[i].id = calls[s].id /\ net[q[i].id] = "active" /\ net[q[i].other] = "held"
                /\ \E r \in Slot : calls[r].id = q[i].other
  PROVE  LineInv'
<1>1. Send(q) /\ net' = net /\ calls' = [calls EXCEPT ![s].token = t]
  BY DEF Keep
<1>2. calls[s] \in Context /\ calls \in [Slot -> Context \cup {NoCall}]
  BY SlotType, CallAssumption DEF CallInv, TypeOK
<1>3. /\ \A r \in Slot : r # s => calls'[r] = calls[r]
      /\ \A r \in Slot : calls'[r].id = calls[r].id
      /\ calls'[s].state = calls[s].state /\ calls'[s].token = t
  BY <1>1, <1>2 DEF Context
<1>4. ASSUME ~crossed, NEW i \in DOMAIN q
      PROVE  Fits(q[i])'
  <2>1. PICK k \in Command : k = q[i]
    OBVIOUS
  <2>2. t # NoToken
    BY TokenAssumption
  <2>3. \A r \in Slot : calls[r].id = calls[s].id => r = s
    BY DEF CallInv, IdsDistinct
  <2>4. /\ k.op = "ANSWER" => net[k.id] = "ringing"
        /\ k.op = "ACTIVATE" => k.id = calls[s].id
        /\ k.op = "SWAP" => k.id = calls[s].id /\ net[k.id] = "active" /\ net[k.other] = "held"
                            /\ \E r \in Slot : calls[r].id = k.other
    BY <1>4, <2>1
  <2>5. Fits(k)'
    BY <1>1, <1>3, <2>2, <2>3, <2>4 DEF Fits
  <2> QED
    BY <2>1, <2>5 DEF Fits
<1> QED
  BY <1>1, <1>3, <1>4, SendLine, CallAssumption

LEMMA KeepOneLine ==
  ASSUME CallInv, CallInv', LineInv, NEW t \in Token, NEW s \in Slot, calls[s].id \in CallId,
         NEW op \in {"RELEASE", "ANSWER", "HOLD", "ACTIVATE"}, Keep(t, s, <<Cmd(op, s)>>),
         ~crossed /\ op = "ANSWER" => net[calls[s].id] = "ringing"
  PROVE  LineInv'
<1>1. Cmd(op, s) \in Command /\ Cmd(op, s).op = op /\ Cmd(op, s).id = calls[s].id
  BY CmdType DEF CallInv, Cmd
<1>2. PICK k \in Command : k = Cmd(op, s) /\ k.op = op /\ k.id = calls[s].id
  BY <1>1
<1>3. PICK q \in Seq(Command) : q = <<k>> /\ DOMAIN q = {1} /\ q[1] = k
  <2>1. <<k>> \in Seq(Command) /\ DOMAIN <<k>> = {1} /\ <<k>>[1] = k
    OBVIOUS
  <2> QED
    BY <2>1
<1>4. Keep(t, s, q)
  BY <1>2, <1>3
<1>5. \A m \in DOMAIN q : q[m] = k
  BY <1>3
<1>6. /\ \E m \in DOMAIN q : q[m].id = calls[s].id
      /\ \A m, n \in DOMAIN q : m # n => Names(q[m]) \cap Names(q[n]) = {}
  BY <1>2, <1>3
<1>7. ASSUME ~crossed, NEW m \in DOMAIN q
      PROVE  /\ q[m].op = "ANSWER" => net[q[m].id] = "ringing"
             /\ q[m].op = "ACTIVATE" => q[m].id = calls[s].id
             /\ q[m].op # "SWAP"
  BY <1>2, <1>5, <1>7
<1> QED
  BY <1>4, <1>6, <1>7, KeepLine

LEMMA KeepTwoLine ==
  ASSUME CallInv, CallInv', LineInv, NEW t \in Token, NEW s \in Slot, calls[s].id \in CallId,
         NEW r \in Slot, r # s, calls[r].id \in CallId,
         NEW op1 \in {"RELEASE", "HOLD"}, NEW op2 \in {"ACTIVATE", "ANSWER"},
         Keep(t, s, <<Cmd(op1, r), Cmd(op2, s)>>),
         ~crossed /\ op2 = "ANSWER" => net[calls[s].id] = "ringing"
  PROVE  LineInv'
<1>1. /\ Cmd(op1, r) \in Command /\ Cmd(op1, r).op = op1 /\ Cmd(op1, r).id = calls[r].id
      /\ Cmd(op2, s) \in Command /\ Cmd(op2, s).op = op2 /\ Cmd(op2, s).id = calls[s].id
  BY CmdType DEF CallInv, Cmd
<1>2. PICK j \in Command, k \in Command :
        /\ j = Cmd(op1, r) /\ j.op = op1 /\ j.id = calls[r].id
        /\ k = Cmd(op2, s) /\ k.op = op2 /\ k.id = calls[s].id
  BY <1>1
<1>3. PICK q \in Seq(Command) : q = <<j, k>> /\ DOMAIN q = {1, 2} /\ q[1] = j /\ q[2] = k
  <2>1. /\ <<j, k>> \in Seq(Command) /\ DOMAIN <<j, k>> = {1, 2}
        /\ <<j, k>>[1] = j /\ <<j, k>>[2] = k
    OBVIOUS
  <2> QED
    BY <2>1
<1>4. Keep(t, s, q)
  BY <1>2, <1>3
<1>5. Names(j) = {calls[r].id} /\ Names(k) = {calls[s].id} /\ calls[r].id # calls[s].id
  BY <1>2, CommandNames DEF CallInv, IdsDistinct
<1>6. \A m, n \in DOMAIN q : m # n => Names(q[m]) \cap Names(q[n]) = {}
  BY <1>3, <1>5
<1>7. \E m \in DOMAIN q : q[m].id = calls[s].id
  BY <1>2, <1>3
<1>8. ASSUME ~crossed, NEW m \in DOMAIN q
      PROVE  /\ q[m].op = "ANSWER" => net[q[m].id] = "ringing"
             /\ q[m].op = "ACTIVATE" => q[m].id = calls[s].id
             /\ q[m].op # "SWAP"
  BY <1>2, <1>3, <1>8
<1> QED
  BY <1>4, <1>6, <1>7, <1>8, KeepLine

(* What the state of a call that a request looks for says of the modem.    *)
LEMMA PickedPhase ==
  ASSUME CallInv, LineInv, ~crossed, NEW st \in CallState, NEW s \in Latest(st),
         calls[s].id \in CallId
  PROVE  /\ st = "ACTIVE" => net[calls[s].id] = "active"
         /\ st = "HOLDING" => net[calls[s].id] = "held"
         /\ st \in {"INCOMING", "WAITING"} => net[calls[s].id] = "ringing"
<1>1. s \in Slot /\ calls[s].state = st
  BY LatestType, InStateType DEF CallInv, InState
<1>2. st \in StatesOf(net[calls[s].id]) /\ net[calls[s].id] \in Phase
  BY <1>1 DEF LineInv, ViewAgrees, CallInv, TypeOK
<1> QED
  BY <1>2, PhaseOf

LEMMA DialLine ==
  ASSUME CallInv, CallInv', LineInv, NEW t \in Token, Dial(t)
  PROVE  LineInv'
<1>1. CASE Reply(t)
  BY <1>1, SameLine DEF Reply
<1>2. ASSUME NEW s \in NewSlot,
             calls' = [calls EXCEPT ![s] = [id |-> DialId, state |-> "DIALING", token |-> t]],
             Send(<<[op |-> "SETUP", id |-> DialId, other |-> NoId]>>), net' = net
      PROVE  LineInv'
  <2>1. s \in Slot /\ calls[s].id = NoId /\ calls \in [Slot -> Context \cup {NoCall}]
    BY NewSlotType DEF CallInv, TypeOK
  <2>2. (\A r \in Slot : r # s => calls'[r] = calls[r]) /\ calls'[s].id = DialId
    BY <1>2, <2>1
  <2>3. PICK k \in Command : k = [op |-> "SETUP", id |-> DialId, other |-> NoId]
    BY DEF Command, ToneCommand
  <2>4. PICK q \in Seq(Command) : q = <<k>> /\ DOMAIN q = {1} /\ q[1] = k
    <3>1. <<k>> \in Seq(Command) /\ DOMAIN <<k>> = {1} /\ <<k>>[1] = k
      OBVIOUS
    <3> QED
      BY <3>1
  <2>5. Send(q) /\ k.op = "SETUP" /\ k.id = DialId
    BY <1>2, <2>3, <2>4
  <2>6. \A i \in DOMAIN q : Fits(q[i])'
    BY <2>4, <2>5 DEF Fits
  <2> QED
    BY <1>2, <2>1, <2>2, <2>4, <2>5, <2>6, SendLine, CallAssumption
<1> QED
  BY <1>1, <1>2 DEF Dial

LEMMA HangupLine ==
  ASSUME CallInv, CallInv', LineInv, NEW t \in Token, NEW s \in Slot, Hangup(t, s)
  PROVE  LineInv'
<1>1. CASE Reply(t)
  BY <1>1, SameLine DEF Reply
<1>2. CASE calls[s].id # NoId /\ ~Busy({s}) /\ Keep(t, s, <<Cmd("RELEASE", s)>>)
  BY <1>2, IdleCall, KeepOneLine
<1> QED
  BY <1>1, <1>2 DEF Hangup

LEMMA HangupWaitingOrBackgroundLine ==
  ASSUME CallInv, CallInv', LineInv, NEW t \in Token, HangupWaitingOrBackground(t)
  PROVE  LineInv'
<1> DEFINE all == InState("ACTIVE") \cup InState("HOLDING") \cup
                  InState("WAITING") \cup InState("INCOMING")
<1>1. CASE Reply(t)
  BY <1>1, SameLine DEF Reply
<1>2. ASSUME ~Busy(all), NEW s \in WaitingOrBackground, Keep(t, s, <<Cmd("RELEASE", s)>>)
      PROVE  LineInv'
  <2>1. PICK st \in {"WAITING", "ACTIVE", "HOLDING", "INCOMING"} : s \in Latest(st)
    BY <1>2 DEF WaitingOrBackground
  <2>2. st \in CallState /\ InState(st) \subseteq all
    BY <2>1 DEF CallState
  <2> HIDE DEF all
  <2>3. s \in Slot /\ calls[s].id \in CallId
    BY <1>2, <2>1, <2>2, PickedCall
  <2> QED
    BY <1>2, <2>3, KeepOneLine
<1> QED
  BY <1>1, <1>2 DEF HangupWaitingOrBackground

LEMMA HangupForegroundResumeBackgroundLine ==
  ASSUME CallInv, CallInv', LineInv, NEW t \in Token, HangupForegroundResumeBackground(t)
  PROVE  LineInv'
<1> DEFINE all == InState("ACTIVE") \cup InState("HOLDING")
<1>1. CASE Reply(t)
  BY <1>1, SameLine DEF Reply
<1>2. ASSUME ~Busy(all), NEW st \in {"ACTIVE", "HOLDING"}, NEW s \in Latest(st)
      PROVE  s \in Slot /\ calls[s].id \in CallId /\ calls[s].state = st
  <2>1. st \in CallState /\ InState(st) \subseteq all
    BY <1>2 DEF CallState
  <2> HIDE DEF all
  <2> QED
    BY <1>2, <2>1, PickedCall, LatestType DEF InState
<1>3. ASSUME ~Busy(all), NEW a \in Latest("ACTIVE"), NEW h \in Latest("HOLDING"),
             Keep(t, h, <<Cmd("RELEASE", a), Cmd("ACTIVATE", h)>>)
      PROVE  LineInv'
  <2>1. /\ a \in Slot /\ calls[a].id \in CallId /\ h \in Slot /\ calls[h].id \in CallId
        /\ a # h
    BY <1>2, <1>3
  <2> QED
    BY <1>3, <2>1, KeepTwoLine
<1>4. ASSUME ~Busy(all), NEW st \in {"ACTIVE", "HOLDING"}, NEW s \in Latest(st),
             Keep(t, s, <<Cmd("RELEASE", s)>>)
      PROVE  LineInv'
  BY <1>2, <1>4, KeepOneLine
<1> QED
  BY <1>1, <1>3, <1>4 DEF HangupForegroundResumeBackground

LEMMA SwitchLine ==
  ASSUME CallInv, CallInv', LineInv, NEW t \in Token, SwitchWaitingOrHoldingAndActive(t)
  PROVE  LineInv'
<1> DEFINE all == InState("ACTIVE") \cup InState("HOLDING") \cup InState("WAITING")
<1>1. CASE Reply(t)
  BY <1>1, SameLine DEF Reply
<1>2. CASE Forget(t)
  BY <1>2, SameLine DEF Forget
<1>3. ASSUME ~Busy(all), NEW st \in {"ACTIVE", "HOLDING", "WAITING"}, NEW s \in Latest(st)
      PROVE  /\ s \in Slot /\ calls[s].id \in CallId /\ calls[s].state = st
             /\ ~crossed => /\ st = "ACTIVE" => net[calls[s].id] = "active"
                            /\ st = "HOLDING" => net[calls[s].id] = "held"
                            /\ st = "WAITING" => net[calls[s].id] = "ringing"
  <2>1. st \in CallState /\ InState(st) \subseteq all
    BY <1>3 DEF CallState
  <2> HIDE DEF all
  <2>2. s \in Slot /\ calls[s].id \in CallId /\ calls[s].state = st
    BY <1>3, <2>1, PickedCall, LatestType DEF InState
  <2> QED
    BY <2>1, <2>2, PickedPhase
<1>4. ASSUME ~Busy(all), NEW a \in Latest("ACTIVE"), NEW h \in Latest("HOLDING"),
             Keep(t, a, <<SwapCmd(a, h)>>)
      PROVE  LineInv'
  <2>1. /\ a \in Slot /\ calls[a].id \in CallId /\ h \in Slot /\ calls[h].id \in CallId
        /\ ~crossed => net[calls[a].id] = "active" /\ net[calls[h].id] = "held"
    BY <1>3, <1>4
  <2>2. PICK k \in Command : /\ k = SwapCmd(a, h) /\ k.op = "SWAP"
                             /\ k.id = calls[a].id /\ k.other = calls[h].id
    <3>1. SwapCmd(a, h) \in Command
      BY <2>1 DEF SwapCmd, Command, ToneCommand
    <3>2. /\ SwapCmd(a, h).op = "SWAP" /\ SwapCmd(a, h).id = calls[a].id
          /\ SwapCmd(a, h).other = calls[h].id
      BY DEF SwapCmd
    <3> QED
      BY <3>1, <3>2
  <2>3. PICK q \in Seq(Command) : q = <<k>> /\ DOMAIN q = {1} /\ q[1] = k
    <3>1. <<k>> \in Seq(Command) /\ DOMAIN <<k>> = {1} /\ <<k>>[1] = k
      OBVIOUS
    <3> QED
      BY <3>1
  <2>4. Keep(t, a, q)
    BY <1>4, <2>2, <2>3
  <2>5. ASSUME ~crossed, NEW i \in DOMAIN q
        PROVE  /\ q[i].op = "SWAP"
               /\ q[i].id = calls[a].id /\ net[q[i].id] = "active" /\ net[q[i].other] = "held"
               /\ \E r \in Slot : calls[r].id = q[i].other
    BY <2>1, <2>2, <2>3, <2>5
  <2>6. \E i \in DOMAIN q : q[i].id = calls[a].id
    BY <2>2, <2>3
  <2>7. \A i, j \in DOMAIN q : i # j => Names(q[i]) \cap Names(q[j]) = {}
    BY <2>3
  <2> QED
    BY <2>1, <2>4, <2>5, <2>6, <2>7, KeepLine
<1>5. ASSUME ~Busy(all), NEW a \in Latest("ACTIVE"), NEW w \in Latest("WAITING"),
             Keep(t, w, <<Cmd("HOLD", a), Cmd("ANSWER", w)>>)
      PROVE  LineInv'
  <2>1. /\ a \in Slot /\ calls[a].id \in CallId /\ w \in Slot /\ calls[w].id \in CallId
        /\ a # w /\ (~crossed => net[calls[w].id] = "ringing")
    BY <1>3, <1>5
  <2> QED
    BY <1>5, <2>1, KeepTwoLine
<1>6. ASSUME ~Busy(all), NEW w \in Latest("WAITING"), Keep(t, w, <<Cmd("ANSWER", w)>>)
      PROVE  LineInv'
  BY <1>3, <1>6, KeepOneLine
<1>7. ASSUME ~Busy(all), NEW st \in {"ACTIVE", "HOLDING"}, NEW s \in Latest(st),
             NEW op \in {"HOLD", "ACTIVATE"}, Keep(t, s, <<Cmd(op, s)>>)
      PROVE  LineInv'
  BY <1>3, <1>7, KeepOneLine
<1> QED
  BY <1>1, <1>2, <1>4, <1>5, <1>6, <1>7 DEF SwitchWaitingOrHoldingAndActive

(* Of the incoming calls there is one at most, and it is answered unless a *)
(* request for it waits already.                                           *)
LEMMA AnswerCallLine ==
  ASSUME CallInv, CallInv', LineInv, NEW t \in Token, AnswerCall(t)
  PROVE  LineInv'
<1> DEFINE ringing == InState("INCOMING")
           hit == {s \in ringing : \A r \in ringing : r <= s => ~Busy({r})}
<1>1. PICK order \in [1..Cardinality(hit) -> hit] :
        /\ Send([i \in DOMAIN order |-> Cmd("ANSWER", order[i])])
        /\ calls' = [s \in Slot |->
             IF s \in hit THEN [calls[s] EXCEPT !.token = t] ELSE calls[s]]
        /\ Answer({t}, IF Busy(ringing) THEN {t} ELSE {})
        /\ net' = net
  BY DEF AnswerCall
<1>2. \A s \in ringing : s \in Slot /\ calls[s].id \in CallId /\ calls[s].state = "INCOMING"
  BY InStateType DEF CallInv, CallState, InState
<1>3. \A r, s \in ringing : r = s
  BY <1>2 DEF InState, CallInv, OneIncoming, IdsDistinct
<1>4. hit \subseteq ringing
  OBVIOUS
<1> HIDE DEF ringing, hit
<1>5. CASE hit = {}
  <2>1. calls' = calls
    BY <1>1, <1>5 DEF CallInv, TypeOK
  <2>2. Cardinality(hit) = 0
    BY <1>5, FS_EmptySet
  <2>3. DOMAIN order = 1 .. 0
    BY <1>1, <2>2
  <2>4. PICK q \in Seq(Command) :
          q = [i \in DOMAIN order |-> Cmd("ANSWER", order[i])] /\ q = <<>> /\ DOMAIN q = {}
    <3>1. <<>> \in Seq(Command) /\ DOMAIN <<>> = {}
      OBVIOUS
    <3>2. [i \in DOMAIN order |-> Cmd("ANSWER", order[i])] = <<>>
      BY <2>3
    <3> QED
      BY <3>1, <3>2
  <2>5. cmds' = cmds /\ crossed' = crossed
    <3>1. Send(q)
      BY <1>1, <2>4
    <3>2. cmds \in Seq(Command)
      BY DEF CallInv, TypeOK
    <3>3. cmds \o <<>> = cmds
      BY <3>2
    <3>4. Named(q) = {}
      BY <2>4 DEF Named
    <3> QED
      BY <2>4, <3>1, <3>3, <3>4 DEF Send, CallInv, TypeOK
  <2> QED
    BY <1>1, <2>1, <2>5, SameLine
<1>6. CASE hit # {}
  <2>1. PICK s \in hit : hit = {s}
    BY <1>3, <1>4, <1>6
  <2>2. s \in Slot /\ calls[s].id \in CallId /\ calls[s].state = "INCOMING"
    BY <1>2, <1>4
  <2>3. Cardinality(hit) = 1
    BY <2>1, FS_Singleton
  <2>4. DOMAIN order = {1} /\ order[1] = s /\ DOMAIN order = 1 .. 1
    <3>1. order \in [1 .. 1 -> {s}]
      BY <2>1, <2>3
    <3>2. 1 .. 1 = {1} /\ 1 \in 1 .. 1
      OBVIOUS
    <3> QED
      BY <3>1, <3>2
  <2>5. PICK k \in Command : k = Cmd("ANSWER", s) /\ k.op = "ANSWER" /\ k.id = calls[s].id
    BY <2>2, CmdType DEF CallInv, Cmd
  <2>6. PICK q \in Seq(Command) :
          /\ q = [i \in DOMAIN order |-> Cmd("ANSWER", order[i])]
          /\ DOMAIN q = {1} /\ q[1] = k
    <3>1. [i \in 1 .. 1 |-> Cmd("ANSWER", order[i])] \in Seq(Command)
      BY <2>4, <2>5
    <3> QED
      BY <2>4, <2>5, <3>1
  <2>7. Send(q)
    BY <1>1, <2>6
  <2>8. calls' = [calls EXCEPT ![s].token = t]
    BY <1>1, <2>1 DEF CallInv, TypeOK
  <2>9. ~crossed => net[calls[s].id] = "ringing"
    BY <2>2 DEF CallInv, OneIncoming
  <2>10. CASE ~Busy(ringing)
    <3>1. Keep(t, s, q)
      BY <1>1, <2>7, <2>8, <2>10 DEF Keep
    <3>2. /\ \E i \in DOMAIN q : q[i].id = calls[s].id
          /\ \A i, j \in DOMAIN q : i # j => Names(q[i]) \cap Names(q[j]) = {}
      BY <2>5, <2>6
    <3>3. ASSUME ~crossed, NEW i \in DOMAIN q
          PROVE  q[i].op = "ANSWER" /\ net[q[i].id] = "ringing"
      BY <2>5, <2>6, <2>9, <3>3
    <3> QED
      BY <2>2, <3>1, <3>2, <3>3, KeepLine
  <2>11. CASE Busy(ringing)
    <3>1. s \in ringing /\ Busy({s})
      BY <1>3, <1>4, <2>11 DEF Busy
    <3>2. s \in Nat
      BY <2>2, CallAssumption DEF Slot
    <3>3. ~Busy({s})
      BY <3>1, <3>2 DEF hit
    <3> QED
      BY <3>1, <3>3
  <2> QED
    BY <2>10, <2>11
<1> QED
  BY <1>5, <1>6

LEMMA RequestsLine ==
  ASSUME CallInv, CallInv', LineInv, NEW t \in Token, Request(t)
  PROVE  LineInv'
BY DialLine, HangupLine, HangupWaitingOrBackgroundLine, HangupForegroundResumeBackgroundLine,
   AnswerCallLine, SwitchLine DEF Request

-----------------------------------------------------------------------------
(* The primitives of the indications, by the calls they touch.             *)

LEMMA SettleTouches ==
  ASSUME CallInv, NEW s \in Slot, NEW c \in CallId, calls[s].id = c, NEW st, Settle(s, st),
         \A x \in CallId : x # c => net'[x] = net[x], st \in StatesOf(net'[c])
  PROVE  Touches({c}) /\ Settled({c})
<1>1. calls[s] \in Context /\ calls \in [Slot -> Context \cup {NoCall}]
  BY SlotType, CallAssumption DEF CallInv, TypeOK
<1>2. /\ \A r \in Slot : r # s => calls'[r] = calls[r]
      /\ calls'[s].id = c /\ calls'[s].state = st /\ calls'[s].token = NoToken
  BY <1>1 DEF Settle, Context
<1>3. \A r \in Slot : calls[r].id = c => r = s
  BY DEF CallInv, IdsDistinct
<1>4. \A r \in Slot : calls'[r].id = c => r = s
  BY <1>2, <1>3
<1> QED
  BY <1>2, <1>4 DEF Touches, Settled

LEMMA DropTouches ==
  ASSUME CallInv, NEW s \in Slot, NEW c \in CallId \cup {DialId}, calls[s].id = c, Drop(s),
         \A x \in CallId : x # c => net'[x] = net[x]
  PROVE  Touches({c}) /\ Settled({c})
<1>1. calls \in [Slot -> Context \cup {NoCall}]
  BY DEF CallInv, TypeOK
<1>2. /\ \A r \in Slot : r # s => calls'[r] = calls[r]
      /\ calls'[s].id = NoId
  BY <1>1 DEF Drop, NoCall
<1>3. \A r \in Slot : calls[r].id = c => r = s
  BY DEF CallInv, IdsDistinct, DialSlot
<1>4. \A r \in Slot : calls'[r].id # c
  BY <1>2, <1>3, CallAssumption
<1> QED
  BY <1>2, <1>4 DEF Touches, Settled

(* An indication without effect on the table.                              *)
LEMMA NoEffectTouches ==
  ASSUME CallInv, LineInv, ~crossed, NEW c \in CallId \cup {DialId}, NoEffect,
         \A x \in CallId : x # c => net'[x] = net[x],
         \A s \in Slot : calls[s].id = c =>
           calls[s].token = NoToken /\ (c \in CallId => net'[c] = net[c])
  PROVE  Touches({c}) /\ Settled({c})
<1>1. calls' = calls
  BY DEF NoEffect
<1> QED
  BY <1>1 DEF Touches, Settled, LineInv, ViewAgrees

(* The rest of the queue names no call of the command the modem has taken. *)
LEMMA RestApart ==
  ASSUME CallInv, LineInv, ~crossed, cmds # <<>>, cmds' = Tail(cmds)
  PROVE  /\ Head(cmds) \in Command /\ Fits(Head(cmds))
         /\ \A i \in DOMAIN cmds' : /\ cmds'[i] \in Command
                                    /\ \E j \in DOMAIN cmds : cmds'[i] = cmds[j]
                                    /\ Names(cmds'[i]) \cap Names(Head(cmds)) = {}
<1>1. cmds \in Seq(Command) /\ Head(cmds) = cmds[1] /\ 1 \in DOMAIN cmds
  BY DEF CallInv, TypeOK
<1>2. \A i \in DOMAIN cmds' : /\ i + 1 \in DOMAIN cmds /\ i + 1 # 1
                              /\ cmds'[i] = cmds[i + 1]
  BY <1>1
<1>3. \A i \in DOMAIN cmds' : Names(cmds'[i]) \cap Names(Head(cmds)) = {}
  BY <1>1, <1>2 DEF LineInv, Apart
<1>4. Fits(Head(cmds))
  BY <1>1 DEF LineInv, AllFit
<1> QED
  BY <1>1, <1>2, <1>3, <1>4

(* A command on one call, taken and confirmed.                             *)
LEMMA TakenLine ==
  ASSUME CallInv, CallInv', LineInv, ~crossed, cmds # <<>>, cmds' = Tail(cmds),
         NEW D, D = Names(Head(cmds)), Touches(D), Settled(D)
  PROVE  LineInv'
<1>1. Harmless(cmds', D, net')
  BY RestApart DEF Harmless
<1>2. NoId \notin D
  BY DEF Names
<1> QED
  BY <1>1, <1>2, HandledLine

(* The calls of the table with an identifier are those Find finds.         *)
LEMMA FoundAll ==
  ASSUME CallInv, NEW c \in CallId \cup {DialId}, NEW s \in Slot, calls[s].id = c
  PROVE  Find(c) = {s}
<1>1. Find(c) # {}
  BY FindEmpty DEF CallInv
<1>2. \A r \in Find(c) : r \in Slot /\ calls[r].id = c
  BY FindType DEF CallInv
<1>3. \A r \in Find(c) : r = s
  BY <1>2 DEF CallInv, IdsDistinct, DialSlot
<1> QED
  BY <1>1, <1>3

LEMMA ReleaseLine ==
  ASSUME CallInv, CallInv', LineInv, ModemRelease
  PROVE  LineInv'
<1>1. Take("RELEASE") /\ crossed' = crossed /\ Head(cmds).id \in CallId
  BY TakenCommand DEF ModemRelease
<1> SUFFICES ASSUME ~crossed PROVE LineInv'
  BY <1>1 DEF LineInv, Apart, AllFit, ViewAgrees, TokenBacked
<1>2. PICK c \in CallId : c = Head(cmds).id
  BY <1>1
<1>3. cmds # <<>> /\ cmds' = Tail(cmds) /\ Names(Head(cmds)) = {c}
  BY <1>1, <1>2, RestApart, CommandNames DEF Take
<1>4. net \in [CallId -> Phase]
  BY DEF CallInv, TypeOK
<1>5. CASE net[c] # "idle" /\ net' = [net EXCEPT ![c] = "idle"] /\ CallEnd(c)
  <2>1. \A x \in CallId : x # c => net'[x] = net[x]
    BY <1>4, <1>5
  <2>2. CASE Find(c) = {} /\ NoEffect
    <3>1. \A s \in Slot : calls[s].id # c
      BY <2>2, FoundAll
    <3> QED
      BY <1>3, <2>1, <2>2, <3>1, NoEffectTouches, TakenLine
  <2>3. ASSUME NEW s \in Find(c), Drop(s)
        PROVE  LineInv'
    <3>1. s \in Slot /\ calls[s].id = c
      BY FindType DEF CallInv
    <3> QED
      BY <1>3, <2>1, <2>3, <3>1, DropTouches, TakenLine
  <2> QED
    BY <1>5, <2>2, <2>3 DEF CallEnd
<1>6. CASE net[c] = "idle" /\ NoEffect /\ net' = net
  <2>1. \A s \in Slot : calls[s].id # c
    BY <1>6 DEF CallInv, IdsDistinct
  <2> QED
    BY <1>3, <1>6, <2>1, NoEffectTouches, TakenLine
<1> QED
  BY <1>2, <1>5, <1>6 DEF ModemRelease

(* ipc_call_connected answers the request the command was sent for: while  *)
(* it waits, the call is still ringing.                                    *)
LEMMA AnswerLine ==
  ASSUME CallInv, CallInv', LineInv, ModemAnswer
  PROVE  LineInv'
<1>1. Take("ANSWER") /\ crossed' = crossed /\ Head(cmds).id \in CallId
  BY TakenCommand DEF ModemAnswer
<1> SUFFICES ASSUME ~crossed PROVE LineInv'
  BY <1>1 DEF LineInv, Apart, AllFit, ViewAgrees, TokenBacked
<1>2. PICK c \in CallId : c = Head(cmds).id
  BY <1>1
<1>3. cmds # <<>> /\ cmds' = Tail(cmds) /\ Names(Head(cmds)) = {c}
  BY <1>1, <1>2, RestApart, CommandNames DEF Take
<1>4. net \in [CallId -> Phase]
  BY DEF CallInv, TypeOK
<1>5. CASE net[c] = "ringing" /\ net' = [net EXCEPT ![c] = "active"] /\ CallConnected(c)
  <2>1. (\A x \in CallId : x # c => net'[x] = net[x]) /\ "ACTIVE" \in StatesOf(net'[c])
    BY <1>4, <1>5 DEF StatesOf
  <2>2. CASE Find(c) = {} /\ NoEffect
    <3>1. \A s \in Slot : calls[s].id # c
      BY <2>2, FoundAll
    <3> QED
      BY <1>3, <2>1, <2>2, <3>1, NoEffectTouches, TakenLine
  <2>3. ASSUME NEW s \in Find(c), Settle(s, "ACTIVE")
        PROVE  LineInv'
    <3>1. s \in Slot /\ calls[s].id = c
      BY FindType DEF CallInv
    <3> QED
      BY <1>3, <2>1, <2>3, <3>1, SettleTouches, TakenLine
  <2> QED
    BY <1>5, <2>2, <2>3 DEF CallConnected
<1>6. CASE net[c] # "ringing" /\ NoEffect /\ net' = net
  <2>1. \A s \in Slot : calls[s].id = c => calls[s].token = NoToken
    BY <1>1, <1>2, <1>3, <1>6, RestApart DEF Fits, Take
  <2> QED
    BY <1>3, <1>6, <2>1, NoEffectTouches, TakenLine
<1> QED
  BY <1>2, <1>5, <1>6 DEF ModemAnswer

LEMMA HoldLine ==
  ASSUME CallInv, CallInv', LineInv, ModemHold
  PROVE  LineInv'
<1>1. Take("HOLD") /\ crossed' = crossed /\ Head(cmds).id \in CallId
  BY TakenCommand DEF ModemHold
<1> SUFFICES ASSUME ~crossed PROVE LineInv'
  BY <1>1 DEF LineInv, Apart, AllFit, ViewAgrees, TokenBacked
<1>2. PICK c \in CallId : c = Head(cmds).id
  BY <1>1
<1>3. cmds # <<>> /\ cmds' = Tail(cmds) /\ Names(Head(cmds)) = {c}
  BY <1>1, <1>2, RestApart, CommandNames DEF Take
<1>4. net \in [CallId -> Phase]
  BY DEF CallInv, TypeOK
<1>5. ASSUME NEW ok \in BOOLEAN, CallHold(c, ok), \A x \in CallId : x # c => net'[x] = net[x],
             IF ok THEN net'[c] = "held" ELSE net' = net
      PROVE  LineInv'
  <2>1. CASE Find(c) = {} /\ NoEffect
    <3>1. \A s \in Slot : calls[s].id # c
      BY <2>1, FoundAll
    <3> QED
      BY <1>3, <1>5, <2>1, <3>1, NoEffectTouches, TakenLine
  <2>2. ASSUME NEW s \in Find(c), NEW st, st = IF ok THEN "HOLDING" ELSE calls[s].state,
               Settle(s, st)
        PROVE  LineInv'
    <3>1. s \in Slot /\ calls[s].id = c
      BY FindType DEF CallInv
    <3>2. st \in StatesOf(net'[c])
      BY <1>5, <2>2, <3>1 DEF LineInv, ViewAgrees, StatesOf
    <3> QED
      BY <1>3, <1>5, <2>2, <3>1, <3>2, SettleTouches, TakenLine
  <2> QED
    BY <1>5, <2>1, <2>2 DEF CallHold
<1>6. CASE net[c] = "active" /\ net' = [net EXCEPT ![c] = "held"] /\ CallHold(c, TRUE)
  BY <1>4, <1>5, <1>6
<1>7. CASE CallHold(c, FALSE) /\ net' = net
  BY <1>4, <1>5, <1>7
<1> QED
  BY <1>2, <1>6, <1>7 DEF ModemHold

(* The confirmation of ACTIVATE is dropped when no request waits; while    *)
(* the call is held at the modem, one does.                                *)
LEMMA ActivateLine ==
  ASSUME CallInv, CallInv', LineInv, ModemActivate
  PROVE  LineInv'
<1>1. Take("ACTIVATE") /\ crossed' = crossed /\ Head(cmds).id \in CallId
  BY TakenCommand DEF ModemActivate
<1> SUFFICES ASSUME ~crossed PROVE LineInv'
  BY <1>1 DEF LineInv, Apart, AllFit, ViewAgrees, TokenBacked
<1>2. PICK c \in CallId : c = Head(cmds).id
  BY <1>1
<1>3. cmds # <<>> /\ cmds' = Tail(cmds) /\ Names(Head(cmds)) = {c}
  BY <1>1, <1>2, RestApart, CommandNames DEF Take
<1>4. net \in [CallId -> Phase]
  BY DEF CallInv, TypeOK
<1>5. \A s \in Slot : calls[s].id = c /\ net[c] = "held" => calls[s].token # NoToken
  BY <1>1, <1>2, <1>3, RestApart DEF Fits, Take
<1>6. ASSUME NEW ok \in BOOLEAN, CallActivate(c, ok), \A x \in CallId : x # c => net'[x] = net[x],
             IF ok THEN net[c] = "held" /\ net'[c] = "active" ELSE net' = net
      PROVE  LineInv'
  <2>1. CASE ~Busy(Find(c)) /\ NoEffect
    <3>1. \A s \in Slot : calls[s].id = c => calls[s].token = NoToken
      BY <2>1, FoundAll DEF Busy
    <3>2. \A s \in Slot : calls[s].id = c => net'[c] = net[c]
      BY <1>5, <1>6, <3>1
    <3> QED
      BY <1>3, <1>6, <2>1, <3>1, <3>2, NoEffectTouches, TakenLine
  <2>2. ASSUME NEW s \in Find(c), NEW st, st = IF ok THEN "ACTIVE" ELSE calls[s].state,
               Settle(s, st)
        PROVE  LineInv'
    <3>1. s \in Slot /\ calls[s].id = c
      BY FindType DEF CallInv
    <3>2. st \in StatesOf(net'[c])
      BY <1>6, <2>2, <3>1 DEF LineInv, ViewAgrees, StatesOf
    <3> QED
      BY <1>3, <1>6, <2>2, <3>1, <3>2, SettleTouches, TakenLine
  <2> QED
    BY <1>6, <2>1, <2>2 DEF CallActivate
<1>7. CASE net[c] = "held" /\ net' = [net EXCEPT ![c] = "active"] /\ CallActivate(c, TRUE)
  BY <1>4, <1>6, <1>7
<1>8. CASE CallActivate(c, FALSE) /\ net' = net
  BY <1>4, <1>6, <1>8
<1> QED
  BY <1>2, <1>7, <1>8 DEF ModemActivate

(* ipc_call_swap finds both calls and the request that waits, as neither   *)
(* call has ended or changed since the command was sent.                   *)
LEMMA SwapLine ==
  ASSUME CallInv, CallInv', LineInv, ModemSwap
  PROVE  LineInv'
<1>1. Take("SWAP") /\ crossed' = crossed
  BY DEF ModemSwap
<1> SUFFICES ASSUME ~crossed PROVE LineInv'
  BY <1>1 DEF LineInv, Apart, AllFit, ViewAgrees, TokenBacked
<1>2. Head(cmds) \in Command /\ Head(cmds).op = "SWAP" /\ cmds # <<>> /\ cmds' = Tail(cmds)
      /\ Fits(Head(cmds))
  BY <1>1, RestApart DEF Take
<1>3. PICK a \in CallId, h \in CallId : a = Head(cmds).id /\ h = Head(cmds).other
  BY <1>2 DEF Command, ToneCommand
<1>4. Names(Head(cmds)) = {a, h} /\ NoId \notin {a, h}
  BY <1>3, CallAssumption DEF Names
<1>5. /\ net[a] = "active" /\ net[h] = "held" /\ a # h /\ net \in [CallId -> Phase]
      /\ \E s \in Slot : calls[s].id = a /\ calls[s].token # NoToken
      /\ \E s \in Slot : calls[s].id = h
  BY <1>2, <1>3 DEF Fits, CallInv, TypeOK
<1>6. PICK q \in Slot, p \in Slot : calls[q].id = a /\ calls[q].token # NoToken /\ calls[p].id = h
  BY <1>5
<1>7. Find(a) = {q} /\ Find(h) = {p} /\ p # q /\ Busy(Find(a))
  BY <1>5, <1>6, FoundAll DEF Busy
<1>8. /\ \A r \in Slot : calls[r].id = a => r = q
      /\ \A r \in Slot : calls[r].id = h => r = p
  BY <1>6 DEF CallInv, IdsDistinct
<1>9. calls[p].token = NoToken
  <2> SUFFICES ASSUME calls[p].token # NoToken PROVE FALSE
    OBVIOUS
  <2>1. PICK i \in DOMAIN cmds : cmds[i].id = h
    BY <1>6 DEF LineInv, TokenBacked
  <2>2. cmds \in Seq(Command) /\ 1 \in DOMAIN cmds /\ cmds[1] = Head(cmds)
    BY <1>2 DEF CallInv, TypeOK
  <2>3. h \in Names(cmds[i]) /\ i # 1
    BY <1>3, <1>4, <1>5, <2>1, <2>2 DEF Names
  <2> QED
    BY <1>4, <2>2, <2>3 DEF LineInv, Apart
<1>10. calls[p] \in Context /\ calls[q] \in Context /\ calls \in [Slot -> Context \cup {NoCall}]
  BY <1>6, SlotType, CallAssumption DEF CallInv, TypeOK
<1>11. CASE /\ net' = [net EXCEPT ![a] = "held", ![h] = "active"]
            /\ CallSwap(h, a, TRUE)
  <2>1. calls' = [calls EXCEPT ![p].state = "ACTIVE",
                               ![q].state = "HOLDING", ![q].token = NoToken]
    BY <1>7, <1>11 DEF CallSwap
  <2>2. /\ calls'[p] = [calls[p] EXCEPT !.state = "ACTIVE"]
        /\ calls'[q] = [calls[q] EXCEPT !.state = "HOLDING", !.token = NoToken]
        /\ \A r \in Slot : r \notin {p, q} => calls'[r] = calls[r]
    BY <1>7, <1>10, <2>1
  <2>3. /\ calls'[p].id = h /\ calls'[p].token = NoToken /\ calls'[p].state = "ACTIVE"
        /\ calls'[q].id = a /\ calls'[q].token = NoToken /\ calls'[q].state = "HOLDING"
    BY <1>6, <1>9, <1>10, <2>2 DEF Context
  <2>4. net'[a] = "held" /\ net'[h] = "active" /\ \A x \in CallId \ {a, h} : net'[x] = net[x]
    BY <1>5, <1>11
  <2>5. \A r \in Slot : r = p \/ r = q \/ (calls'[r] = calls[r] /\ calls[r].id \notin {a, h})
    BY <1>8, <2>2
  <2>6. Touches({a, h})
    BY <1>6, <2>3, <2>4, <2>5 DEF Touches
  <2>7. Settled({a, h})
    BY <2>3, <2>4, <2>5 DEF Settled, StatesOf
  <2> QED
    BY <1>2, <1>4, <2>6, <2>7, TakenLine
<1>12. CASE CallSwap(h, a, FALSE) /\ net' = net
  <2>1. Settle(q, calls[q].state)
    BY <1>7, <1>12 DEF CallSwap
  <2>2. calls[q].state \in StatesOf(net'[a]) /\ calls[p].state \in StatesOf(net'[h])
    BY <1>6, <1>12 DEF LineInv, ViewAgrees
  <2>3. Touches({a}) /\ Settled({a})
    BY <1>6, <1>12, <2>1, <2>2, SettleTouches
  <2>4. Touches({a, h})
    BY <2>3 DEF Touches
  <2>5. calls'[p] = calls[p] /\ \A r \in Slot : calls'[r].id = h => r = p
    BY <1>5, <1>7, <1>8, <1>10, <2>1, <2>3 DEF Settle, Touches
  <2>6. Settled({a, h})
    BY <1>6, <1>9, <2>2, <2>3, <2>5 DEF Settled
  <2> QED
    BY <1>2, <1>4, <2>4, <2>6, TakenLine
<1> QED
  BY <1>3, <1>11, <1>12 DEF ModemSwap

(* The dialled call gets its identifier, or its set-up fails.              *)
LEMMA SetupLine ==
  ASSUME CallInv, CallInv', LineInv, ModemSetup
  PROVE  LineInv'
<1>1. Take("SETUP") /\ crossed' = crossed
  BY DEF ModemSetup
<1> SUFFICES ASSUME ~crossed PROVE LineInv'
  BY <1>1 DEF LineInv, Apart, AllFit, ViewAgrees, TokenBacked
<1>2. Head(cmds) \in Command /\ Head(cmds).op = "SETUP" /\ cmds # <<>> /\ cmds' = Tail(cmds)
  BY <1>1, RestApart DEF Take
<1>3. Head(cmds).id = DialId /\ Names(Head(cmds)) = {DialId} /\ net \in [CallId -> Phase]
  BY <1>2, CommandNames DEF Command, ToneCommand, CallInv, TypeOK
<1>4. ASSUME NEW c \in CallId, net[c] = "idle", net' = [net EXCEPT ![c] = "orig"],
             CallSetupInd(c)
      PROVE  LineInv'
  <2>1. net'[c] = "orig" /\ \A x \in CallId : x # c => net'[x] = net[x]
    BY <1>3, <1>4
  <2>2. \A s \in Slot : calls[s].id # c
    BY <1>4 DEF CallInv, IdsDistinct
  <2>3. Touches({DialId, c}) /\ Settled({DialId, c})
    <3>1. CASE Find(DialId) = {} /\ NoEffect
      <4>1. \A s \in Slot : calls[s].id # DialId
        BY <3>1, FoundAll
      <4>2. calls' = calls
        BY <3>1 DEF NoEffect
      <4> QED
        BY <2>1, <2>2, <4>1, <4>2 DEF Touches, Settled
    <3>2. ASSUME NEW d \in Find(DialId), NEW s \in Slot, s \in Lowest(Find(c) \cup {d}),
                 calls' = [r \in Slot |->
                   [calls[r] EXCEPT !.id = IF r = d THEN c ELSE @,
                                    !.token = IF r = s THEN NoToken ELSE @]]
          PROVE  Touches({DialId, c}) /\ Settled({DialId, c})
      <4>1. d \in Slot /\ calls[d].id = DialId
        BY FindType DEF CallInv
      <4>2. Find(c) = {}
        BY <2>2, FindType DEF CallInv
      <4>3. s = d
        BY <3>2, <4>2 DEF Lowest
      <4>4. calls[d] \in Context /\ calls[d].state = "DIALING"
        BY <4>1, SlotType, CallAssumption DEF CallInv, DialSlot
      <4>5. calls'[d].id = c /\ calls'[d].token = NoToken /\ calls'[d].state = "DIALING"
        BY <3>2, <4>1, <4>3, <4>4 DEF Context
      <4>6. ASSUME NEW r \in Slot, r # d
            PROVE  calls'[r] = calls[r] /\ calls[r].id # DialId
        <5>1. calls'[r] = [calls[r] EXCEPT !.id = @, !.token = @]
          BY <3>2, <4>3, <4>6
        <5>2. calls'[r] = calls[r]
          BY <5>1, SlotType DEF CallInv, Context, NoCall
        <5> QED
          BY <4>1, <4>6, <5>2 DEF CallInv, DialSlot
      <4>7. Touches({DialId, c})
        BY <2>1, <4>1, <4>5, <4>6 DEF Touches
      <4>8. \A r \in Slot : calls'[r].id \in {DialId, c} => r = d
        BY <2>2, <4>6
      <4> QED
        BY <2>1, <4>5, <4>7, <4>8 DEF Settled, StatesOf
    <3> QED
      BY <1>4, <3>1, <3>2 DEF CallSetupInd
  <2>4. Harmless(cmds', {DialId, c}, net')
    <3> SUFFICES ASSUME NEW i \in DOMAIN cmds', Names(cmds'[i]) \cap {DialId, c} # {}
                 PROVE  /\ cmds'[i].op # "SWAP"
                        /\ cmds'[i].op = "ACTIVATE" => net'[cmds'[i].id] # "held"
      BY DEF Harmless
    <3>1. PICK k \in Command, j \in DOMAIN cmds :
            k = cmds'[i] /\ k = cmds[j] /\ DialId \notin Names(k)
      <4>1. /\ cmds'[i] \in Command /\ Names(cmds'[i]) \cap Names(Head(cmds)) = {}
            /\ \E j \in DOMAIN cmds : cmds'[i] = cmds[j]
        BY <1>2, RestApart
      <4>2. DialId \notin Names(cmds'[i])
        BY <1>3, <4>1
      <4> QED
        BY <4>1, <4>2
    <3>2. c \in Names(k)
      BY <3>1
    <3>3. k.op # "SWAP"
      <4>1. Fits(k)
        BY <3>1 DEF LineInv, AllFit, Fits
      <4>2. k.op = "SWAP" => c = k.id \/ c = k.other
        BY <3>2 DEF Names
      <4> QED
        BY <1>4, <4>1, <4>2 DEF Fits
    <3>4. k.id = c
      BY <3>2, <3>3, CommandNames
    <3> QED
      BY <2>1, <3>1, <3>3, <3>4
  <2>5. NoId \notin {DialId, c}
    BY CallAssumption
  <2> QED
    BY <1>2, <1>3, <2>3, <2>4, <2>5, HandledLine
<1>5. CASE CallError(DialId) /\ net' = net
  <2>1. PICK z \in CallId \cup {DialId} : z = DialId /\ z \notin CallId
    BY CallAssumption
  <2>2. CASE Find(DialId) = {} /\ NoEffect
    <3>1. \A s \in Slot : calls[s].id # z
      BY <2>1, <2>2, FoundAll
    <3> QED
      BY <1>2, <1>3, <1>5, <2>1, <2>2, <3>1, NoEffectTouches, TakenLine
  <2>3. ASSUME NEW s \in Find(DialId), Drop(s)
        PROVE  LineInv'
    <3>1. s \in Slot /\ calls[s].id = z
      BY <2>1, FindType DEF CallInv
    <3> QED
      BY <1>2, <1>3, <1>5, <2>1, <2>3, <3>1, DropTouches, TakenLine
  <2> QED
    BY <1>5, <2>2, <2>3 DEF CallError
<1> QED
  BY <1>4, <1>5 DEF ModemSetup

LEMMA ModemStepLine ==
  ASSUME CallInv, CallInv', LineInv, ModemStep
  PROVE  LineInv'
BY SetupLine, ReleaseLine, AnswerLine, HoldLine, ActivateLine, SwapLine DEF ModemStep

-----------------------------------------------------------------------------
(* The far ends.                                                           *)

(* A call that is not part of a swap changes at the modem.                 *)
LEMMA FarLine ==
  ASSUME CallInv, CallInv', LineInv, ~crossed, NEW c \in CallId, cmds' = cmds,
         net[c] \notin {"active", "held"} \/ ~SwapNames(c), net'[c] # "held",
         Touches({c}), Settled({c})
  PROVE  LineInv'
<1>1. cmds \in Seq(Command) /\ NoId \notin {c}
  BY CallAssumption DEF CallInv, TypeOK
<1>2. Harmless(cmds', {c}, net')
  <2> SUFFICES ASSUME NEW i \in DOMAIN cmds, Names(cmds[i]) \cap {c} # {}
               PROVE  /\ cmds[i].op # "SWAP"
                      /\ cmds[i].op = "ACTIVATE" => net'[cmds[i].id] # "held"
    BY DEF Harmless
  <2>1. PICK k \in Command : k = cmds[i] /\ c \in Names(k)
    BY <1>1
  <2>2. k.op # "SWAP"
    <3>1. Fits(k)
      BY <2>1 DEF LineInv, AllFit, Fits
    <3>2. k.op = "SWAP" => c \in {k.id, k.other} /\ SwapNames(c)
      BY <2>1 DEF Names, SwapNames
    <3> QED
      BY <3>1, <3>2 DEF Fits
  <2>3. k.id = c
    BY <2>1, <2>2, CommandNames
  <2> QED
    BY <2>1, <2>2, <2>3
<1> QED
  BY <1>1, <1>2, HandledLine

LEMMA FarStepLine ==
  ASSUME CallInv, CallInv', LineInv, NEW c \in CallId, FarStep(c)
  PROVE  LineInv'
<1> SUFFICES ASSUME ~crossed' PROVE LineInv'
  BY DEF LineInv, Apart, AllFit, ViewAgrees, TokenBacked
<1>1. ~crossed /\ net \in [CallId -> Phase]
  BY DEF FarStep, FarAlert, FarAnswer, FarCall, FarEnd, CallInv, TypeOK
<1>2. CASE FarAlert(c)
  <2>1. UNCHANGED <<cmds, net, crossed>> /\ net[c] = "orig"
    BY <1>2 DEF FarAlert
  <2>2. CASE NoEffect
    BY <2>1, <2>2, SameLine DEF NoEffect
  <2>3. ASSUME NEW s \in Find(c), calls' = [calls EXCEPT ![s].state = "ALERTING"]
        PROVE  LineInv'
    <3>1. /\ s \in Slot /\ calls[s].id = c /\ calls[s] \in Context
          /\ calls \in [Slot -> Context \cup {NoCall}]
      BY FindType, SlotType, CallAssumption DEF CallInv, TypeOK
    <3>2. /\ \A r \in Slot : /\ r # s => calls'[r] = calls[r]
                             /\ calls'[r].id = calls[r].id
                             /\ calls'[r].token = calls[r].token
          /\ calls'[s].state = "ALERTING"
      BY <2>3, <3>1 DEF Context
    <3>3. Apart' /\ AllFit'
      BY <2>1, <3>2 DEF LineInv, Apart, AllFit, Fits
    <3>4. TokenBacked'
      BY <2>1, <3>2 DEF LineInv, TokenBacked
    <3>5. ViewAgrees'
      BY <2>1, <3>1, <3>2 DEF LineInv, ViewAgrees, StatesOf
    <3> QED
      BY <3>3, <3>4, <3>5 DEF LineInv
  <2> QED
    BY <1>2, <2>2, <2>3 DEF FarAlert, CallAlert
<1>3. CASE FarAnswer(c)
  <2>1. /\ cmds' = cmds /\ net[c] = "orig" /\ net'[c] = "active"
        /\ \A x \in CallId : x # c => net'[x] = net[x]
    BY <1>1, <1>3 DEF FarAnswer
  <2>2. CASE Find(c) = {} /\ NoEffect
    <3>1. \A s \in Slot : calls[s].id # c
      BY <2>2, FoundAll
    <3> QED
      BY <1>1, <2>1, <2>2, <3>1, NoEffectTouches, FarLine
  <2>3. ASSUME NEW s \in Find(c), Settle(s, "ACTIVE")
        PROVE  LineInv'
    <3>1. s \in Slot /\ calls[s].id = c
      BY FindType DEF CallInv
    <3>2. "ACTIVE" \in StatesOf(net'[c])
      BY <2>1 DEF StatesOf
    <3> QED
      BY <1>1, <2>1, <2>3, <3>1, <3>2, SettleTouches, FarLine
  <2> QED
    BY <1>3, <2>2, <2>3 DEF FarAnswer, CallConnected
<1>4. CASE FarCall(c)
  <2>1. /\ cmds' = cmds /\ net[c] = "idle" /\ net'[c] = "ringing"
        /\ \A x \in CallId : x # c => net'[x] = net[x]
    BY <1>1, <1>4 DEF FarCall
  <2>2. \A s \in Slot : calls[s].id # c
    BY <2>1 DEF CallInv, IdsDistinct
  <2>3. CASE NoEffect
    BY <1>1, <2>1, <2>2, <2>3, NoEffectTouches, FarLine
  <2>4. ASSUME NEW s \in NewSlot, NEW st \in {"WAITING", "INCOMING"},
               calls' = [calls EXCEPT ![s] = [id |-> c, state |-> st, token |-> NoToken]]
        PROVE  LineInv'
    <3>1. s \in Slot /\ calls[s].id = NoId /\ calls \in [Slot -> Context \cup {NoCall}]
      BY NewSlotType DEF CallInv, TypeOK
    <3>2. /\ \A r \in Slot : r # s => calls'[r] = calls[r]
          /\ calls'[s].id = c /\ calls'[s].state = st /\ calls'[s].token = NoToken
      BY <2>4, <3>1
    <3>3. Touches({c})
      BY <2>1, <3>1, <3>2 DEF Touches
    <3>4. Settled({c})
      BY <2>1, <2>2, <3>2 DEF Settled, StatesOf
    <3> QED
      BY <1>1, <2>1, <3>3, <3>4, FarLine
  <2> QED
    BY <1>4, <2>3, <2>4 DEF FarCall, CallIncoming
<1>5. CASE FarEnd(c)
  <2>1. /\ cmds' = cmds /\ net'[c] = "idle" /\ ~SwapNames(c)
        /\ \A x \in CallId : x # c => net'[x] = net[x]
    BY <1>1, <1>5 DEF FarEnd
  <2>2. CASE Find(c) = {} /\ NoEffect
    <3>1. \A s \in Slot : calls[s].id # c
      BY <2>2, FoundAll
    <3> QED
      BY <1>1, <2>1, <2>2, <3>1, NoEffectTouches, FarLine
  <2>3. ASSUME NEW s \in Find(c), Drop(s)
        PROVE  LineInv'
    <3>1. s \in Slot /\ calls[s].id = c
      BY FindType DEF CallInv
    <3> QED
      BY <1>1, <2>1, <2>3, <3>1, DropTouches, FarLine
  <2> QED
    BY <1>5, <2>2, <2>3 DEF FarEnd, CallEnd
<1> QED
  BY <1>2, <1>3, <1>4, <1>5 DEF FarStep

LEMMA LineNext ==
  ASSUME CallInv, LineInv, [Next]_vars
  PROVE  LineInv'
<1>1. CallInv'
  BY CallNext
<1>2. CASE UNCHANGED vars
  BY <1>2, SameLine DEF vars
<1> QED
  BY <1>1, <1>2, RequestsLine, ModemStepLine, FarStepLine DEF Next

LEMMA LineInvariant == Spec => []LineInv
<1>1. CallInv /\ LineInv /\ [Next]_vars => LineInv'
  BY LineNext
<1> QED
  BY LineInit, CallInvariant, <1>1, PTL DEF Spec

(* As long as no commands crossed, the state that is reported for a call   *)
(* is the one it has at the modem, although ipc_call_swap and              *)
(* ipc_call_activate drop confirmations no request waits for.              *)
THEOREM CallViewAgrees == Spec => []ViewAgrees
  BY LineInvariant, PTL DEF LineInv

(* As long as no commands crossed, every request kept in the table has a   *)
(* command on its way that will answer it.                                 *)
THEOREM CallTokenBacked == Spec => []TokenBacked
  BY LineInvariant, PTL DEF LineInv

-----------------------------------------------------------------------------
(* Tones.  The steps of the calls never touch what the tones depend on.    *)

IsTone(k) == k.op \in {"START", "STOP"}

(* What is sent on calls is no tone.                                       *)
CallsOnly(q) == q \in Seq(Command) /\ \A i \in DOMAIN q : ~IsTone(q[i])

(* The tones on their way move up by n commands.                           *)
Moved(n) ==
  /\ \A i \in DOMAIN cmds' : IsTone(cmds'[i]) => i + n \in DOMAIN cmds /\ cmds'[i] = cmds[i + n]
  /\ \A i \in DOMAIN cmds : IsTone(cmds[i]) /\ i > n =>
       i - n \in DOMAIN cmds' /\ cmds'[i - n] = cmds[i]
  /\ DOMAIN cmds \subseteq Nat \ {0} /\ DOMAIN cmds' \subseteq Nat \ {0}

(* A request that no call keeps is neither answered nor given to a call,   *)
(* and no tone is sent or taken.                                           *)
Spared == \A x \in pending \ Stored : x \in pending' \ Stored'

Untouched ==
  \/ Moved(0)
  \/ Moved(1) /\ cmds # <<>> /\ ~IsTone(Head(cmds)) /\ Head(cmds) = cmds[1]

LEMMA RequestSpared ==
  ASSUME CallInv, NEW t, Idle(t), NEW done, done \subseteq {t}, Answer({t}, done),
         \A r \in Slot : calls'[r].token \in {calls[r].token, t}
  PROVE  Spared
<1> SUFFICES ASSUME NEW x \in pending, x \notin Stored
             PROVE  x \in pending' /\ x \notin Stored'
  BY DEF Spared
<1>1. x # t /\ x \in Token /\ x # NoToken
  BY TokenAssumption DEF Idle, CallInv, TypeOK, RequestTypeOK
<1>2. x \in pending'
  BY <1>1 DEF Answer
<1>3. \A r \in Slot : calls[r].token # x
  BY <1>1 DEF Stored, Held
<1>4. \A r \in Slot : calls'[r].token # x
  BY <1>1, <1>3
<1> QED
  BY <1>2, <1>4 DEF Stored, Held

LEMMA IndicationSpared ==
  ASSUME CallInv, UNCHANGED requestVars \/ \E s \in Slot : Answer({}, Held({s})),
         \A r \in Slot : calls'[r].token \in {calls[r].token, NoToken}
  PROVE  Spared
<1> SUFFICES ASSUME NEW x \in pending, x \notin Stored
             PROVE  x \in pending' /\ x \notin Stored'
  BY DEF Spared
<1>1. x \in Token /\ x # NoToken
  BY TokenAssumption DEF CallInv, TypeOK, RequestTypeOK
<1>2. \A r \in Slot : calls[r].token # x
  BY <1>1 DEF Stored, Held
<1>3. x \in pending'
  BY <1>2 DEF Answer, Held, requestVars
<1>4. \A r \in Slot : calls'[r].token # x
  BY <1>1, <1>2
<1> QED
  BY <1>3, <1>4 DEF Stored, Held

LEMMA SameMoved ==
  ASSUME CallInv, cmds' = cmds
  PROVE  Moved(0)
<1>1. cmds \in Seq(Command)
  BY DEF CallInv, TypeOK
<1>2. DOMAIN cmds \subseteq Nat \ {0} /\ \A i \in DOMAIN cmds : i + 0 = i /\ i - 0 = i
  BY <1>1
<1> QED
  BY <1>2 DEF Moved

LEMMA AppendMoved ==
  ASSUME CallInv, NEW q, CallsOnly(q), cmds' = cmds \o q
  PROVE  Moved(0)
<1>1. cmds \in Seq(Command) /\ q \in Seq(Command)
  BY DEF CallInv, TypeOK, CallsOnly
<1>2. /\ \A i \in DOMAIN cmds' :
           \/ i \in DOMAIN cmds /\ cmds'[i] = cmds[i] /\ i + 0 = i
           \/ i - Len(cmds) \in DOMAIN q /\ cmds'[i] = q[i - Len(cmds)]
      /\ \A i \in DOMAIN cmds : i - 0 = i /\ i \in DOMAIN cmds' /\ cmds'[i] = cmds[i]
      /\ DOMAIN cmds \subseteq Nat \ {0} /\ DOMAIN cmds' \subseteq Nat \ {0}
  BY <1>1
<1> QED
  BY <1>2 DEF Moved, CallsOnly

LEMMA TailMoved ==
  ASSUME CallInv, cmds # <<>>, cmds' = Tail(cmds)
  PROVE  /\ Moved(1) /\ Head(cmds) = cmds[1] /\ 1 \in DOMAIN cmds /\ Head(cmds) \in Command
         /\ \A i \in DOMAIN cmds' : i + 1 \in DOMAIN cmds /\ cmds'[i] = cmds[i + 1]
<1>1. cmds \in Seq(Command)
  BY DEF CallInv, TypeOK
<1>2. /\ Head(cmds) = cmds[1] /\ 1 \in DOMAIN cmds /\ Head(cmds) \in Command
      /\ \A i \in DOMAIN cmds' : i + 1 \in DOMAIN cmds /\ cmds'[i] = cmds[i + 1]
      /\ \A i \in DOMAIN cmds : i > 1 => i - 1 \in DOMAIN cmds' /\ cmds'[i - 1] = cmds[i]
      /\ DOMAIN cmds \subseteq Nat \ {0} /\ DOMAIN cmds' \subseteq Nat \ {0}
  BY <1>1
<1> QED
  BY <1>2 DEF Moved

(* A request kept in a call: only that call's token changes.               *)
LEMMA KeepSpared ==
  ASSUME CallInv, NEW t, Idle(t), NEW s \in Slot, NEW q, CallsOnly(q), Keep(t, s, q)
  PROVE  Spared /\ Untouched
<1>1. \A r \in Slot : calls'[r].token \in {calls[r].token, t}
  BY DEF Keep, CallInv, TypeOK, Context, NoCall
<1>2. Answer({t}, {}) /\ cmds' = cmds \o q
  BY DEF Keep, Send
<1> QED
  BY <1>1, <1>2, RequestSpared, AppendMoved DEF Untouched

LEMMA ReplySpared ==
  ASSUME CallInv, NEW t, Idle(t), Reply(t) \/ Forget(t)
  PROVE  Spared /\ Untouched
<1>1. calls' = calls /\ cmds' = cmds /\ (Answer({t}, {t}) \/ Answer({t}, {}))
  BY DEF Reply, Forget
<1>2. Spared
  BY <1>1, RequestSpared
<1>3. Moved(0)
  BY <1>1, SameMoved
<1> QED
  BY <1>2, <1>3 DEF Untouched

LEMMA OneCallsOnly ==
  ASSUME NEW k \in Command, ~IsTone(k)
  PROVE  CallsOnly(<<k>>)
<1>1. <<k>> \in Seq(Command) /\ DOMAIN <<k>> = {1} /\ <<k>>[1] = k
  OBVIOUS
<1> QED
  BY <1>1 DEF CallsOnly

LEMMA TwoCallsOnly ==
  ASSUME NEW j \in Command, NEW k \in Command, ~IsTone(j), ~IsTone(k)
  PROVE  CallsOnly(<<j, k>>)
<1>1. <<j, k>> \in Seq(Command) /\ DOMAIN <<j, k>> = {1, 2} /\ <<j, k>>[1] = j /\ <<j, k>>[2] = k
  OBVIOUS
<1> QED
  BY <1>1 DEF CallsOnly

LEMMA CmdNoTone ==
  ASSUME CallInv, NEW s \in Slot, calls[s].id \in CallId,
         NEW op \in {"RELEASE", "ANSWER", "HOLD", "ACTIVATE"}
  PROVE  Cmd(op, s) \in Command /\ ~IsTone(Cmd(op, s))
BY CmdType DEF CallInv, Cmd, IsTone

(* A request picks a call in one of the states it looked at.               *)
LEMMA RequestUntouched ==
  ASSUME CallInv, NEW t \in Token, Idle(t), Request(t)
  PROVE  Spared /\ Untouched
<1> DEFINE Done == Spared /\ Untouched
<1>1. ASSUME NEW s \in Slot, NEW k \in Command, ~IsTone(k), Keep(t, s, <<k>>)
      PROVE  Done
  BY <1>1, OneCallsOnly, KeepSpared
<1>2. ASSUME NEW s \in Slot, NEW j \in Command, NEW k \in Command,
             ~IsTone(j), ~IsTone(k), Keep(t, s, <<j, k>>)
      PROVE  Done
  BY <1>2, TwoCallsOnly, KeepSpared
<1>3. CASE Reply(t) \/ Forget(t)
  BY <1>3, ReplySpared
<1>4. CASE Dial(t)
  <2>1. ASSUME NEW s \in NewSlot,
               calls' = [calls EXCEPT ![s] = [id |-> DialId, state |-> "DIALING", token |-> t]],
               Send(<<[op |-> "SETUP", id |-> DialId, other |-> NoId]>>), Answer({t}, {})
        PROVE  Done
    <3>1. s \in Slot /\ calls \in [Slot -> Context \cup {NoCall}]
      BY NewSlotType DEF CallInv, TypeOK
    <3>2. \A r \in Slot : calls'[r].token \in {calls[r].token, t}
      BY <2>1, <3>1
    <3>3. PICK k \in Command : k = [op |-> "SETUP", id |-> DialId, other |-> NoId]
      BY DEF Command
    <3>4. ~IsTone(k)
      BY <3>3 DEF IsTone
    <3>5. CallsOnly(<<k>>) /\ cmds' = cmds \o <<k>>
      BY <2>1, <3>3, <3>4, OneCallsOnly DEF Send
    <3> QED
      BY <2>1, <3>2, <3>5, RequestSpared, AppendMoved DEF Untouched
  <2> QED
    BY <1>3, <1>4, <2>1 DEF Dial
<1>5. ASSUME NEW s \in Slot, Hangup(t, s)
      PROVE  Done
  BY <1>1, <1>3, <1>5, IdleCall, CmdNoTone DEF Hangup
<1>6. CASE HangupWaitingOrBackground(t)
  <2> DEFINE all == InState("ACTIVE") \cup InState("HOLDING") \cup
                    InState("WAITING") \cup InState("INCOMING")
  <2>1. ASSUME ~Busy(all), NEW s \in WaitingOrBackground, Keep(t, s, <<Cmd("RELEASE", s)>>)
        PROVE  Done
    <3>1. PICK st \in {"WAITING", "ACTIVE", "HOLDING", "INCOMING"} : s \in Latest(st)
      BY <2>1 DEF WaitingOrBackground
    <3>2. st \in CallState /\ InState(st) \subseteq all
      BY <3>1 DEF CallState
    <3> HIDE DEF all
    <3>3. s \in Slot /\ calls[s].id \in CallId
      BY <2>1, <3>1, <3>2, PickedCall
    <3> QED
      BY <1>1, <2>1, <3>3, CmdNoTone
  <2> QED
    BY <1>3, <1>6, <2>1 DEF HangupWaitingOrBackground
<1>7. ASSUME NEW S, ~Busy(S), NEW st \in {"ACTIVE", "HOLDING", "WAITING"}, InState(st) \subseteq S,
             NEW s \in Latest(st)
      PROVE  s \in Slot /\ calls[s].id \in CallId
  BY <1>7, PickedCall DEF CallState
<1>8. CASE HangupForegroundResumeBackground(t)
  <2> DEFINE all == InState("ACTIVE") \cup InState("HOLDING")
  <2>1. ASSUME ~Busy(all), NEW s \in Latest("ACTIVE") \cup Latest("HOLDING")
        PROVE  s \in Slot /\ calls[s].id \in CallId
    BY <1>7, <2>1
  <2> QED
    BY <1>1, <1>2, <1>3, <1>8, <2>1, CmdNoTone DEF HangupForegroundResumeBackground
<1>9. CASE SwitchWaitingOrHoldingAndActive(t)
  <2> DEFINE all == InState("ACTIVE") \cup InState("HOLDING") \cup InState("WAITING")
  <2>1. ASSUME ~Busy(all), NEW s \in Latest("ACTIVE") \cup Latest("HOLDING") \cup Latest("WAITING")
        PROVE  s \in Slot /\ calls[s].id \in CallId
    BY <1>7, <2>1
  <2>2. ASSUME NEW a \in Slot, NEW h \in Slot, calls[a].id \in CallId, calls[h].id \in CallId
        PROVE  SwapCmd(a, h) \in Command /\ ~IsTone(SwapCmd(a, h))
    BY <2>2 DEF SwapCmd, Command, IsTone
  <2> QED
    BY <1>1, <1>2, <1>3, <1>9, <2>1, <2>2, CmdNoTone DEF SwitchWaitingOrHoldingAndActive
<1>10. CASE AnswerCall(t)
  <2> DEFINE ringing == InState("INCOMING")
             hit == {s \in ringing : \A r \in ringing : r <= s => ~Busy({r})}
  <2>1. PICK order \in [1..Cardinality(hit) -> hit] :
          /\ Send([i \in DOMAIN order |-> Cmd("ANSWER", order[i])])
          /\ calls' = [s \in Slot |->
               IF s \in hit THEN [calls[s] EXCEPT !.token = t] ELSE calls[s]]
          /\ Answer({t}, IF Busy(ringing) THEN {t} ELSE {})
    BY <1>10 DEF AnswerCall
  <2>2. \A s \in hit : s \in Slot /\ calls[s].id \in CallId /\ calls[s] \in Context
    BY InStateType DEF CallInv, CallState
  <2> HIDE DEF hit, ringing
  <2>3. Cardinality(hit) \in Nat
    <3>1. IsFiniteSet(1..MaxCalls) /\ hit \subseteq 1..MaxCalls
      BY <2>2, CallAssumption, FS_Interval DEF Slot
    <3> QED
      BY <3>1, FS_Subset, FS_CardinalityType
  <2>4. \A s \in hit : Cmd("ANSWER", s) \in Command /\ ~IsTone(Cmd("ANSWER", s))
    BY <2>2, CmdNoTone
  <2>5. PICK q : q = [i \in 1..Cardinality(hit) |-> Cmd("ANSWER", order[i])]
    OBVIOUS
  <2>6. q \in Seq(Command) /\ DOMAIN q = 1..Cardinality(hit)
    BY <2>1, <2>3, <2>4, <2>5
  <2>7. CallsOnly(q)
    BY <2>1, <2>4, <2>5, <2>6 DEF CallsOnly
  <2>8. DOMAIN order = 1..Cardinality(hit)
    BY <2>1
  <2>9. cmds' = cmds \o q
    BY <2>1, <2>5, <2>8 DEF Send
  <2>10. \A r \in Slot : calls'[r].token \in {calls[r].token, t}
    BY <2>1, <2>2 DEF Context
  <2>11. PICK done : done \subseteq {t} /\ Answer({t}, done)
    BY <2>1
  <2> QED
    BY <2>7, <2>9, <2>10, <2>11, RequestSpared, AppendMoved DEF Untouched
<1> QED
  BY <1>4, <1>5, <1>6, <1>8, <1>9, <1>10 DEF Request

(* An indication completes the request of one call at most, and the modem  *)
(* takes no tone.                                                          *)
LEMMA IndicationUntouched ==
  ASSUME CallInv, ModemStep \/ \E c \in CallId : FarStep(c)
  PROVE  Spared /\ Untouched
<1> DEFINE Cleared == \A r \in Slot : calls'[r].token \in {calls[r].token, NoToken}
           Told == UNCHANGED requestVars \/ \E s \in Slot : Answer({}, Held({s}))
<1>1. ASSUME NoEffect
      PROVE  Cleared /\ Told
  BY <1>1 DEF NoEffect, requestVars
<1>2. ASSUME NEW id, NEW s \in Find(id), NEW st, Settle(s, st)
      PROVE  Cleared /\ Told
  <2>1. s \in Slot /\ calls \in [Slot -> Context \cup {NoCall}]
    BY <1>2, FindType DEF CallInv, TypeOK
  <2>2. Cleared
    BY <1>2, <2>1 DEF Settle, Context, NoCall
  <2> QED
    BY <1>2, <2>1, <2>2 DEF Settle
<1>3. ASSUME NEW id, NEW s \in Find(id), Drop(s)
      PROVE  Cleared /\ Told
  <2>1. s \in Slot /\ calls \in [Slot -> Context \cup {NoCall}] /\ NoCall.token = NoToken
    BY <1>3, FindType DEF CallInv, TypeOK, NoCall
  <2>2. Cleared
    BY <1>3, <2>1 DEF Drop
  <2> QED
    BY <1>3, <2>1, <2>2 DEF Drop
<1>4. ASSUME NEW id, CallEnd(id) \/ CallError(id) \/ CallConnected(id)
      PROVE  Cleared /\ Told
  BY <1>1, <1>2, <1>3, <1>4 DEF CallEnd, CallError, CallConnected
<1>5. ASSUME NEW id, NEW ok \in BOOLEAN, CallHold(id, ok) \/ CallActivate(id, ok)
      PROVE  Cleared /\ Told
  BY <1>1, <1>2, <1>5 DEF CallHold, CallActivate
<1>6. ASSUME NEW id, CallSetupInd(id)
      PROVE  Cleared /\ Told
  <2>1. ASSUME NEW d \in Find(DialId), NEW s \in Slot,
               calls' = [r \in Slot |->
                 [calls[r] EXCEPT !.id = IF r = d THEN id ELSE @,
                                  !.token = IF r = s THEN NoToken ELSE @]],
               Answer({}, Held({s}))
        PROVE  Cleared /\ Told
    <3>1. ASSUME NEW r \in Slot
          PROVE  calls'[r].token \in {calls[r].token, NoToken}
      <4>1. calls'[r] = [calls[r] EXCEPT !.id = IF r = d THEN id ELSE @,
                                         !.token = IF r = s THEN NoToken ELSE @]
        BY <2>1
      <4>2. calls[r] \in Context \cup {NoCall}
        BY SlotType DEF CallInv
      <4>3. calls'[r].token = IF r = s THEN NoToken ELSE calls[r].token
        BY <4>1, <4>2 DEF Context, NoCall
      <4> QED
        BY <4>3
    <3> QED
      BY <2>1, <3>1
  <2> QED
    BY <1>1, <1>6, <2>1 DEF CallSetupInd
<1>7. ASSUME NEW id, CallAlert(id)
      PROVE  Cleared /\ Told
  <2>1. ASSUME NEW s \in Find(id), calls' = [calls EXCEPT ![s].state = "ALERTING"],
               UNCHANGED requestVars
        PROVE  Cleared /\ Told
    <3>1. s \in Slot /\ calls \in [Slot -> Context \cup {NoCall}]
      BY FindType DEF CallInv, TypeOK
    <3> QED
      BY <2>1, <3>1 DEF Context, NoCall
  <2> QED
    BY <1>1, <1>7, <2>1 DEF CallAlert
<1>8. ASSUME NEW id, CallIncoming(id)
      PROVE  Cleared /\ Told
  <2>1. ASSUME NEW s \in NewSlot, NEW st, UNCHANGED requestVars,
               calls' = [calls EXCEPT ![s] = [id |-> id, state |-> st, token |-> NoToken]]
        PROVE  Cleared /\ Told
    <3>1. s \in Slot /\ calls \in [Slot -> Context \cup {NoCall}]
      BY NewSlotType DEF CallInv, TypeOK
    <3> QED
      BY <2>1, <3>1
  <2> QED
    BY <1>1, <1>8, <2>1 DEF CallIncoming
<1>9. ASSUME NEW a, NEW h, CallSwap(a, h, TRUE) \/ CallSwap(a, h, FALSE)
      PROVE  Cleared /\ Told
  <2>1. ASSUME NEW p \in Find(a), NEW q \in Find(h),
               calls' = [calls EXCEPT ![p].state = "ACTIVE",
                           ![q].state = "HOLDING", ![q].token = NoToken],
               Answer({}, Held({q}))
        PROVE  Cleared /\ Told
    <3>1. p \in Slot /\ q \in Slot /\ calls \in [Slot -> Context \cup {NoCall}]
      BY FindType DEF CallInv, TypeOK
    <3>2. Cleared
      BY <2>1, <3>1 DEF Context, NoCall
    <3> QED
      BY <2>1, <3>1, <3>2
  <2> QED
    BY <1>1, <1>2, <1>9, <2>1 DEF CallSwap
<1>10. ASSUME NEW op \in {"SETUP", "RELEASE", "ANSWER", "HOLD", "ACTIVATE", "SWAP"}, Take(op)
       PROVE  Untouched
  BY <1>10, TailMoved DEF Take, Untouched, IsTone
<1>11. CASE ModemStep
  <2>1. \/ ModemSetup \/ ModemRelease \/ ModemAnswer
        \/ ModemHold \/ ModemActivate \/ ModemSwap
    BY <1>11 DEF ModemStep
  <2>2. CASE ModemSetup
    BY <2>2, <1>4, <1>6, <1>10, IndicationSpared DEF ModemSetup
  <2>3. CASE ModemRelease
    BY <2>3, <1>1, <1>4, <1>10, IndicationSpared DEF ModemRelease
  <2>4. CASE ModemAnswer
    BY <2>4, <1>1, <1>4, <1>10, IndicationSpared DEF ModemAnswer
  <2>5. CASE ModemHold
    BY <2>5, <1>5, <1>10, IndicationSpared DEF ModemHold
  <2>6. CASE ModemActivate
    BY <2>6, <1>5, <1>10, IndicationSpared DEF ModemActivate
  <2>7. CASE ModemSwap
    BY <2>7, <1>9, <1>10, IndicationSpared DEF ModemSwap
  <2> QED
    BY <2>1, <2>2, <2>3, <2>4, <2>5, <2>6, <2>7
<1>12. ASSUME NEW c \in CallId, FarStep(c)
       PROVE  Spared /\ Untouched
  <2>1. cmds' = cmds
    BY <1>12 DEF FarStep, FarAlert, FarAnswer, FarCall, FarEnd
  <2>2. Cleared /\ Told
    BY <1>4, <1>7, <1>8, <1>12 DEF FarStep, FarAlert, FarAnswer, FarCall, FarEnd
  <2> QED
    BY <2>1, <2>2, IndicationSpared, SameMoved DEF Untouched
<1> QED
  BY <1>11, <1>12

-----------------------------------------------------------------------------
(* What holds of the tones: one start and one stop at most are on their    *)
(* way, their requests wait outside the table, and once the library has    *)
(* forgotten a tone a stop for it comes after everything that starts one.  *)

ToneTypes ==
  /\ tone \in BOOLEAN /\ doubled \in BOOLEAN /\ moved \in BOOLEAN
  /\ start \in Token \cup {NoToken} /\ stop \in Token \cup {NoToken}
  /\ playing \in CallId \cup {NoId}

OneEach == ~doubled => \A i, j \in Tones : cmds[i].op = cmds[j].op => i = j

StopLast ==
  ~moved /\ ~tone =>
    \/ Tones = {} /\ playing = NoId
    \/ \E l \in Highest(Tones) :
         /\ cmds[l].op = "STOP"
         /\ playing \in {NoId, cmds[l].call}
         /\ \A i \in Tones : cmds[i].op = "START" => cmds[i].call = cmds[l].call

ToneInv == CallInv /\ ToneTypes /\ OneEach /\ TonesAwaited /\ StopLast

LEMMA ToneInit == TonesInit => ToneInv
<1> SUFFICES ASSUME TonesInit PROVE ToneInv
  OBVIOUS
<1>1. Init /\ CallInv
  BY CallInit DEF TonesInit
<1>2. cmds = <<>> /\ DOMAIN <<>> = {} /\ stray = FALSE
  BY <1>1 DEF Init, RequestInit
<1>3. Tones = {} /\ ~Waits("START") /\ ~Waits("STOP")
  BY <1>2 DEF Tones, Waits
<1>4. ToneTypes
  BY DEF TonesInit, ToneTypes
<1>5. OneEach /\ TonesAwaited /\ StopLast
  BY <1>2, <1>3 DEF TonesInit, OneEach, TonesAwaited, StopLast
<1> QED
  BY <1>1, <1>4, <1>5 DEF ToneInv

(* The tones that are left keep their order when commands are taken from   *)
(* the head of the line or appended behind them.                           *)
LEMMA MovedTones ==
  ASSUME NEW n \in {0, 1}, Moved(n)
  PROVE  /\ \A i \in Tones' : i \in Nat \ {0} /\ i + n \in Tones /\ cmds'[i] = cmds[i + n]
         /\ \A i \in Tones : i \in Nat \ {0} /\ (i > n => i - n \in Tones' /\ cmds'[i - n] = cmds[i])
<1>1. ASSUME NEW i \in Tones'
      PROVE  i \in Nat \ {0} /\ i + n \in Tones /\ cmds'[i] = cmds[i + n]
  <2>1. i \in DOMAIN cmds' /\ IsTone(cmds'[i])
    BY <1>1 DEF Tones, IsTone
  <2>2. i \in Nat \ {0} /\ i + n \in DOMAIN cmds /\ cmds'[i] = cmds[i + n]
    BY <2>1 DEF Moved
  <2> QED
    BY <2>1, <2>2 DEF Tones, IsTone
<1>2. ASSUME NEW i \in Tones
      PROVE  i \in Nat \ {0} /\ (i > n => i - n \in Tones' /\ cmds'[i - n] = cmds[i])
  <2>1. i \in DOMAIN cmds /\ IsTone(cmds[i])
    BY <1>2 DEF Tones, IsTone
  <2>2. i \in Nat \ {0} /\ (i > n => i - n \in DOMAIN cmds' /\ cmds'[i - n] = cmds[i])
    BY <2>1 DEF Moved
  <2> QED
    BY <2>1, <2>2 DEF Tones, IsTone
<1> QED
  BY <1>1, <1>2

LEMMA WaitingTone ==
  ASSUME NEW op \in {"START", "STOP"}
  PROVE  Waits(op) <=> \E i \in Tones : cmds[i].op = op
BY DEF Waits, Tones

LEMMA WaitingToneNext ==
  ASSUME NEW op \in {"START", "STOP"}
  PROVE  Waits(op)' <=> \E i \in Tones' : cmds'[i].op = op
BY DEF Waits, Tones

(* No two of a kind.                                                       *)
LEMMA MovedOneEach ==
  ASSUME OneEach, NEW n \in {0, 1}, Moved(n), doubled' = doubled
  PROVE  OneEach'
<1> SUFFICES ASSUME ~doubled, NEW i \in Tones', NEW j \in Tones', cmds'[i].op = cmds'[j].op
             PROVE  i = j
  BY DEF OneEach
<1>1. /\ i \in Nat /\ j \in Nat /\ i + n \in Tones /\ j + n \in Tones
      /\ cmds'[i] = cmds[i + n] /\ cmds'[j] = cmds[j + n]
  BY MovedTones
<1>2. i + n = j + n
  BY <1>1 DEF OneEach
<1> QED
  BY <1>1, <1>2

(* The last tone stays the last, and so does what it says of the modem.    *)
LEMMA MovedStopLast ==
  ASSUME StopLast, NEW n \in {0, 1}, Moved(n), tone' = tone, moved' = moved,
         \A l \in Highest(Tones) : l > n /\ playing' \in {NoId, playing, cmds[l].call},
         Tones = {} => playing' \in {NoId, playing}
  PROVE  StopLast'
<1> SUFFICES ASSUME ~moved, ~tone PROVE StopLast'
  BY DEF StopLast
<1>1. CASE Tones = {} /\ playing = NoId
  <2>1. Tones' = {}
    BY <1>1, MovedTones
  <2> QED
    BY <1>1, <2>1 DEF StopLast
<1>2. ASSUME NEW l \in Highest(Tones), cmds[l].op = "STOP", playing \in {NoId, cmds[l].call},
             \A i \in Tones : cmds[i].op = "START" => cmds[i].call = cmds[l].call
      PROVE  StopLast'
  <2>1. l \in Tones /\ \A i \in Tones : i <= l
    BY <1>2 DEF Highest
  <2>2. l \in Nat /\ l > n /\ l - n \in Tones' /\ cmds'[l - n] = cmds[l]
    BY <1>2, <2>1, MovedTones
  <2>3. \A i \in Tones' : i \in Nat /\ i + n \in Tones /\ cmds'[i] = cmds[i + n]
    BY MovedTones
  <2>4. \A i \in Tones' : i <= l - n
    BY <2>1, <2>2, <2>3
  <2>5. l - n \in Highest(Tones')
    BY <2>2, <2>4 DEF Highest
  <2>6. playing' \in {NoId, cmds'[l - n].call}
    BY <1>2, <2>2
  <2>7. \A i \in Tones' : cmds'[i].op = "START" => cmds'[i].call = cmds'[l - n].call
    BY <1>2, <2>2, <2>3
  <2>8. \E m \in Highest(Tones') :
          /\ cmds'[m].op = "STOP"
          /\ playing' \in {NoId, cmds'[m].call}
          /\ \A i \in Tones' : cmds'[i].op = "START" => cmds'[i].call = cmds'[m].call
    BY <1>2, <2>2, <2>5, <2>6, <2>7
  <2> QED
    BY <2>8 DEF StopLast, Highest
<1> QED
  BY <1>1, <1>2 DEF StopLast

(* A step of the calls.                                                    *)
LEMMA CallStepTones ==
  ASSUME ToneInv, CallInv', Spared, Untouched,
         playing' = IF playing # NoId /\ net'[playing] = "idle" THEN NoId ELSE playing,
         UNCHANGED <<tone, start, stop, doubled, moved>>
  PROVE  ToneInv'
<1>1. PICK n \in {0, 1} : Moved(n) /\ (n = 1 => ~IsTone(cmds[1]))
  BY DEF Untouched
<1>2. \A i \in Tones : i \in Nat /\ i > n
  <2> SUFFICES ASSUME NEW i \in Tones PROVE i \in Nat /\ i > n
    OBVIOUS
  <2>1. i \in Nat \ {0} /\ IsTone(cmds[i])
    BY <1>1, MovedTones DEF Tones, IsTone
  <2> QED
    BY <1>1, <2>1
<1>3. ToneTypes'
  BY DEF ToneInv, ToneTypes
<1>4. OneEach'
  BY <1>1, MovedOneEach DEF ToneInv
<1>5. ASSUME NEW op \in {"START", "STOP"}, Waits(op)'
      PROVE  Waits(op)
  BY <1>1, <1>5, MovedTones, WaitingTone, WaitingToneNext
<1>6. TonesAwaited'
  <2>1. ~stray'
    BY DEF CallInv, TokensOnce
  <2> QED
    BY <1>5, <2>1 DEF ToneInv, TonesAwaited, Spared
<1>7. StopLast'
  BY <1>1, <1>2, MovedStopLast DEF ToneInv, Highest
<1> QED
  BY <1>3, <1>4, <1>6, <1>7 DEF ToneInv

(* A command for a tone waits behind the others.                           *)
LEMMA ToneAppended ==
  ASSUME CallInv, NEW k \in Command, IsTone(k), cmds' = cmds \o <<k>>
  PROVE  /\ Tones' = Tones \cup {Len(cmds) + 1} /\ Len(cmds) \in Nat
         /\ cmds'[Len(cmds) + 1] = k
         /\ \A i \in Tones : i \in Nat /\ i <= Len(cmds) /\ cmds'[i] = cmds[i]
<1>1. cmds \in Seq(Command) /\ Len(cmds) \in Nat
  BY DEF CallInv, TypeOK
<1>2. /\ DOMAIN cmds' = DOMAIN cmds \cup {Len(cmds) + 1}
      /\ cmds'[Len(cmds) + 1] = k
      /\ \A i \in DOMAIN cmds : i \in Nat /\ i <= Len(cmds) /\ cmds'[i] = cmds[i]
  BY <1>1
<1>3. \A i \in Tones : i \in Nat /\ i <= Len(cmds) /\ cmds'[i] = cmds[i]
  BY <1>2 DEF Tones
<1>4. Tones' = {i \in DOMAIN cmds' : cmds'[i].op \in {"START", "STOP"}}
  BY DEF Tones
<1>5. Tones' = Tones \cup {Len(cmds) + 1}
  BY <1>2, <1>4 DEF Tones, IsTone
<1> QED
  BY <1>1, <1>2, <1>3, <1>5

LEMMA ToneSendInv ==
  ASSUME CallInv, NEW t, Idle(t), NEW q \in Seq(Command), Send(q),
         Answer({t}, {}), UNCHANGED <<calls, net>>
  PROVE  /\ CallInv' /\ pending' = pending \cup {t}
         /\ t \in Token \ (pending \cup Stored) /\ Stored' = Stored /\ Stored \subseteq pending
<1>1. pending' = pending \cup {t} /\ stray' = stray /\ t \in Token \ pending
  BY DEF Answer, Idle, CallInv, TypeOK, RequestTypeOK
<1>2. TypeOK'
  BY <1>1, SendType DEF CallInv, TypeOK, RequestTypeOK
<1>3. TokensOnce' /\ DialSlot' /\ IdsDistinct' /\ OneIncoming'
  BY <1>1 DEF CallInv, TokensOnce, DialSlot, IdsDistinct, OneIncoming
<1>4. Stored \subseteq pending /\ Stored' = Stored
  BY DEF CallInv, TokensOnce, Stored, Held
<1> QED
  BY <1>1, <1>2, <1>3, <1>4 DEF CallInv

LEMMA ToneAnswerInv ==
  ASSUME CallInv, NEW op, Take(op), NEW x \in pending, x \notin Stored,
         Answer({}, {x}), UNCHANGED <<calls, net, crossed>>
  PROVE  CallInv' /\ pending' = pending \ {x} /\ stray' = FALSE /\ Stored' = Stored
<1>1. pending' = pending \ {x} /\ stray' = FALSE
  BY DEF Answer, CallInv, TokensOnce, TypeOK, RequestTypeOK
<1>2. TypeOK'
  BY <1>1, TakeType DEF CallInv, TypeOK, RequestTypeOK
<1>3. ASSUME NEW s \in Slot, calls[s].token # NoToken
      PROVE  calls[s].token \in pending'
  BY <1>1, <1>3 DEF CallInv, TokensOnce, Stored, Held
<1>4. TokensOnce'
  BY <1>1, <1>3 DEF CallInv, TokensOnce
<1>5. DialSlot' /\ IdsDistinct' /\ OneIncoming'
  BY DEF CallInv, DialSlot, IdsDistinct, OneIncoming
<1>6. Stored' = Stored
  BY DEF Stored, Held
<1> QED
  BY <1>1, <1>2, <1>4, <1>5, <1>6 DEF CallInv

(* A request answered on the spot touches no tone.                         *)
LEMMA ToneReply ==
  ASSUME ToneInv, NEW t, Idle(t), Reply(t), UNCHANGED toneVars
  PROVE  ToneInv'
<1>1. CallInv' /\ cmds' = cmds /\ calls' = calls /\ pending' = pending /\ stray' = stray
  BY ReplyInv DEF ToneInv, Reply, Answer, Idle, CallInv, TypeOK, RequestTypeOK
<1>2. /\ Tones' = Tones /\ Highest(Tones)' = Highest(Tones) /\ Stored' = Stored
      /\ Waits("START")' = Waits("START") /\ Waits("STOP")' = Waits("STOP")
  BY <1>1 DEF Tones, Highest, Stored, Held, Waits
<1>3. ToneTypes' /\ OneEach' /\ TonesAwaited'
  BY <1>1, <1>2 DEF ToneInv, toneVars, ToneTypes, OneEach, TonesAwaited
<1>4. StopLast'
  BY <1>1, <1>2 DEF ToneInv, toneVars, StopLast
<1> QED
  BY <1>1, <1>3, <1>4 DEF ToneInv

LEMMA ActiveCallType ==
  ASSUME CallInv, NEW s \in ActiveCall, NEW op \in {"START", "STOP"}
  PROVE  /\ s \in Slot /\ calls[s].id \in CallId /\ Tone(op, s) \in Command
         /\ Tone(op, s).op = op /\ Tone(op, s).call = calls[s].id
<1>1. s \in InState("ACTIVE")
  BY DEF ActiveCall, Lowest
<1>2. s \in Slot /\ calls[s].id \in CallId
  BY <1>1, InStateType DEF CallInv, CallState
<1>3. Tone(op, s) \in ToneCommand
  BY <1>2 DEF Tone, ToneCommand
<1> QED
  BY <1>2, <1>3 DEF Command, Tone

(* One start or stop is sent, for a request that is new.                   *)
LEMMA OneTone ==
  ASSUME ToneInv, NEW t, Idle(t), NEW s \in ActiveCall, NEW op \in {"START", "STOP"},
         Send(<<Tone(op, s)>>), Answer({t}, {}), UNCHANGED <<calls, net, playing>>,
         ~doubled, ~doubled' => ~Waits(op), doubled' \in BOOLEAN,
         tone' = (op = "START"), moved' \in BOOLEAN,
         IF op = "START" THEN start' = t /\ stop' = stop ELSE stop' = t /\ start' = start,
         op = "STOP" /\ ~moved' => ~moved /\ ~Elsewhere(s)
  PROVE  ToneInv'
<1>1. PICK k \in Command : k = Tone(op, s) /\ k.op = op /\ k.call = calls[s].id /\ calls[s].id \in CallId
  BY ActiveCallType DEF ToneInv
<1>2. Send(<<k>>) /\ cmds' = cmds \o <<k>> /\ <<k>> \in Seq(Command) /\ IsTone(k)
  BY <1>1 DEF Send, IsTone
<1>3. /\ CallInv' /\ pending' = pending \cup {t}
      /\ t \in Token \ (pending \cup Stored) /\ Stored' = Stored /\ Stored \subseteq pending
  BY <1>2, ToneSendInv DEF ToneInv
<1>4. PICK n \in Nat :
        /\ Tones' = Tones \cup {n + 1} /\ cmds'[n + 1] = k
        /\ \A i \in Tones : i \in Nat /\ i <= n /\ cmds'[i] = cmds[i]
  BY <1>2, ToneAppended DEF ToneInv
<1>5. ToneTypes'
  BY <1>3 DEF ToneInv, ToneTypes
<1>6. OneEach'
  <2> SUFFICES ASSUME ~doubled', NEW i \in Tones', NEW j \in Tones', cmds'[i].op = cmds'[j].op
               PROVE  i = j
    BY DEF OneEach
  <2>1. \A m \in Tones : cmds[m].op # op
    BY WaitingTone
  <2>2. CASE i \in Tones /\ j \in Tones
    BY <1>4, <2>2 DEF ToneInv, OneEach
  <2>3. CASE i = n + 1 \/ j = n + 1
    BY <1>1, <1>4, <2>1, <2>3
  <2> QED
    BY <1>4, <2>2, <2>3
<1>7. TonesAwaited'
  <2> SUFFICES ASSUME ~doubled' PROVE TonesAwaited'
    BY DEF TonesAwaited
  <2>1. ~stray' /\ ~Waits(op)
    BY <1>3 DEF CallInv, TokensOnce
  <2>2. ASSUME NEW o \in {"START", "STOP"}, o # op, Waits(o)'
        PROVE  Waits(o)
    BY <1>1, <1>4, <2>2, WaitingTone, WaitingToneNext
  <2>3. /\ Waits("START") => start \in pending \ Stored
        /\ Waits("STOP") => stop \in pending \ Stored
    BY DEF ToneInv, TonesAwaited
  <2>4. CASE op = "START"
    <3>1. start' = t /\ stop' = stop /\ (Waits("STOP")' => Waits("STOP"))
      BY <2>2, <2>4
    <3> QED
      BY <1>3, <2>1, <2>3, <3>1 DEF TonesAwaited
  <2>5. CASE op = "STOP"
    <3>1. stop' = t /\ start' = start /\ (Waits("START")' => Waits("START"))
      BY <2>2, <2>5
    <3> QED
      BY <1>3, <2>1, <2>3, <3>1 DEF TonesAwaited
  <2> QED
    BY <2>4, <2>5
<1>8. StopLast'
  <2> SUFFICES ASSUME ~moved', op = "STOP" PROVE StopLast'
    BY DEF StopLast
  <2>1. ~Elsewhere(s)
    OBVIOUS
  <2>2. playing' \in {NoId, k.call}
    BY <1>1, <2>1 DEF Elsewhere, ToneInv, ToneTypes
  <2>3. \A i \in Tones : cmds[i].op = "START" => cmds[i].call = k.call
    <3> SUFFICES ASSUME NEW i \in Tones, cmds[i].op = "START" PROVE cmds[i].call = k.call
      OBVIOUS
    <3>1. i \in DOMAIN cmds /\ cmds[i] \in Command
      BY DEF Tones, ToneInv, CallInv, TypeOK
    <3>2. cmds[i].call \in CallId
      BY <3>1 DEF Command, ToneCommand
    <3> QED
      BY <1>1, <2>1, <3>1, <3>2 DEF Elsewhere
  <2>4. n + 1 \in Highest(Tones')
    BY <1>4 DEF Highest
  <2>5. \A i \in Tones' : cmds'[i].op = "START" => cmds'[i].call = k.call
    BY <1>1, <1>4, <2>3
  <2>6. \E m \in Highest(Tones') :
          /\ cmds'[m].op = "STOP"
          /\ playing' \in {NoId, cmds'[m].call}
          /\ \A i \in Tones' : cmds'[i].op = "START" => cmds'[i].call = cmds'[m].call
    BY <1>1, <1>4, <2>2, <2>4, <2>5
  <2> QED
    BY <2>6 DEF StopLast, Highest
<1> QED
  BY <1>3, <1>5, <1>6, <1>7, <1>8 DEF ToneInv

LEMMA DtmfStartTones ==
  ASSUME ToneInv, ~doubled, NEW t, Idle(t), DtmfStart(t)
  PROVE  ToneInv'
<1>1. CASE Reply(t) /\ UNCHANGED toneVars
  BY <1>1, ToneReply
<1>2. ASSUME NEW s \in ActiveCall,
             Send((IF tone THEN <<Tone("STOP", s)>> ELSE <<>>) \o <<Tone("START", s)>>),
             tone' = TRUE, start' = t, doubled' = (tone \/ Waits("START")),
             moved' = (moved \/ (tone /\ Elsewhere(s))), Answer({t}, {}),
             UNCHANGED <<calls, net, stop, playing>>
      PROVE  ToneInv'
  <2>1. tone \in BOOLEAN /\ moved' \in BOOLEAN /\ doubled' \in BOOLEAN
    BY <1>2 DEF ToneInv, ToneTypes, Waits, Elsewhere
  <2>2. CASE ~tone
    <3>1. <<>> \o <<Tone("START", s)>> = <<Tone("START", s)>>
      OBVIOUS
    <3>2. Send(<<Tone("START", s)>>)
      BY <1>2, <2>2, <3>1
    <3> QED
      BY <1>2, <2>1, <2>2, <3>2, OneTone
  <2>3. CASE tone
    <3>1. PICK j \in Command, k \in Command : j = Tone("STOP", s) /\ k = Tone("START", s)
      BY <1>2, ActiveCallType DEF ToneInv
    <3>2. PICK q \in Seq(Command) : q = <<j>> \o <<k>>
      <4>1. <<j>> \in Seq(Command) /\ <<k>> \in Seq(Command)
        OBVIOUS
      <4>2. <<j>> \o <<k>> \in Seq(Command)
        BY <4>1
      <4> QED
        BY <4>2
    <3>3. Send(q)
      BY <1>2, <2>3, <3>1, <3>2
    <3>4. CallInv' /\ t \in Token
      BY <1>2, <3>3, ToneSendInv DEF ToneInv
    <3>5. ToneTypes'
      BY <1>2, <2>1, <3>4 DEF ToneInv, ToneTypes
    <3>6. doubled' /\ tone'
      BY <1>2, <2>3
    <3>7. OneEach' /\ TonesAwaited' /\ StopLast'
      BY <3>6 DEF OneEach, TonesAwaited, StopLast
    <3> QED
      BY <3>4, <3>5, <3>7 DEF ToneInv
  <2> QED
    BY <2>2, <2>3
<1> QED
  BY <1>1, <1>2 DEF DtmfStart

LEMMA DtmfStopTones ==
  ASSUME ToneInv, ~doubled, NEW t, Idle(t), DtmfStop(t)
  PROVE  ToneInv'
<1>1. CASE Reply(t) /\ UNCHANGED toneVars
  BY <1>1, ToneReply
<1>2. ASSUME NEW s \in ActiveCall, Send(<<Tone("STOP", s)>>),
             tone' = FALSE, stop' = t, doubled' = Waits("STOP"),
             moved' = (moved \/ Elsewhere(s)), Answer({t}, {}),
             UNCHANGED <<calls, net, start, playing>>
      PROVE  ToneInv'
  <2>1. moved' \in BOOLEAN /\ doubled' \in BOOLEAN
    BY <1>2 DEF ToneInv, ToneTypes, Waits, Elsewhere
  <2> QED
    BY <1>2, <2>1, OneTone
<1> QED
  BY <1>1, <1>2 DEF DtmfStop

(* The modem takes a start or a stop and confirms it: of its kind it was   *)
(* the only one.                                                           *)
LEMMA Confirmed ==
  ASSUME ToneInv, ~doubled, NEW op \in {"START", "STOP"}, Take(op),
         NEW x, x = IF op = "START" THEN start ELSE stop, Answer({}, {x}),
         UNCHANGED <<calls, net, crossed, tone, start, stop, doubled, moved>>
  PROVE  /\ CallInv' /\ OneEach' /\ TonesAwaited'
         /\ Moved(1) /\ 1 \in Tones /\ cmds[1] = Head(cmds) /\ cmds[1].op = op
         /\ Head(cmds) \in ToneCommand
<1>1. Moved(1) /\ 1 \in Tones /\ cmds[1] = Head(cmds) /\ cmds[1].op = op /\ Head(cmds) \in Command
  BY TailMoved DEF ToneInv, Take, Tones
<1>2. Waits(op)
  BY <1>1, WaitingTone
<1>3. x \in pending /\ x \notin Stored
  BY <1>2 DEF ToneInv, TonesAwaited
<1>4. CallInv' /\ pending' = pending \ {x} /\ stray' = FALSE /\ Stored' = Stored
  BY <1>3, ToneAnswerInv DEF ToneInv
<1>5. OneEach'
  BY <1>1, MovedOneEach DEF ToneInv
<1>6. ~Waits(op)'
  <2> SUFFICES ASSUME NEW i \in Tones', cmds'[i].op = op PROVE FALSE
    BY WaitingToneNext
  <2>1. i \in Nat \ {0} /\ i + 1 \in Tones /\ cmds'[i] = cmds[i + 1]
    BY <1>1, MovedTones
  <2>2. i + 1 = 1
    BY <1>1, <2>1 DEF ToneInv, OneEach
  <2> QED
    BY <2>1, <2>2
<1>7. ASSUME NEW o \in {"START", "STOP"}, Waits(o)'
      PROVE  Waits(o)
  <2>1. PICK i \in Tones' : cmds'[i].op = o
    BY <1>7, WaitingToneNext
  <2>2. i + 1 \in Tones /\ cmds'[i] = cmds[i + 1]
    BY <1>1, MovedTones
  <2> QED
    BY <2>1, <2>2, WaitingTone
<1>8. TonesAwaited'
  <2>1. /\ Waits("START") => start \in pending \ Stored
        /\ Waits("STOP") => stop \in pending \ Stored
        /\ start = stop => ~(Waits("START") /\ Waits("STOP"))
    BY DEF ToneInv, TonesAwaited
  <2>2. CASE op = "START"
    <3>1. x = start /\ Waits("START") /\ ~Waits("START")' /\ (Waits("STOP")' => Waits("STOP"))
      BY <1>2, <1>6, <1>7, <2>2
    <3> QED
      BY <1>4, <2>1, <3>1 DEF TonesAwaited
  <2>3. CASE op = "STOP"
    <3>1. x = stop /\ Waits("STOP") /\ ~Waits("STOP")' /\ (Waits("START")' => Waits("START"))
      BY <1>2, <1>6, <1>7, <2>3
    <3> QED
      BY <1>4, <2>1, <3>1 DEF TonesAwaited
  <2> QED
    BY <2>2, <2>3
<1>9. Head(cmds) \in ToneCommand
  BY <1>1 DEF Command
<1> QED
  BY <1>1, <1>4, <1>5, <1>8, <1>9

LEMMA CallDtmfStartTones ==
  ASSUME ToneInv, ~doubled, CallDtmfStart
  PROVE  ToneInv'
<1>1. /\ Take("START") /\ Answer({}, {start}) /\ playing' \in {playing, Head(cmds).call}
      /\ UNCHANGED <<calls, net, crossed, tone, start, stop, doubled, moved>>
  BY DEF CallDtmfStart
<1>2. /\ CallInv' /\ OneEach' /\ TonesAwaited'
      /\ Moved(1) /\ 1 \in Tones /\ cmds[1] = Head(cmds) /\ cmds[1].op = "START"
      /\ Head(cmds) \in ToneCommand
  BY <1>1, Confirmed
<1>3. ToneTypes'
  BY <1>1, <1>2 DEF ToneInv, ToneTypes, ToneCommand
<1>4. StopLast'
  <2> SUFFICES ASSUME ~moved, ~tone PROVE StopLast'
    BY <1>1 DEF StopLast
  <2>1. PICK l \in Highest(Tones) :
          /\ cmds[l].op = "STOP"
          /\ \A i \in Tones : cmds[i].op = "START" => cmds[i].call = cmds[l].call
    BY <1>2 DEF ToneInv, StopLast
  <2>2. \A m \in Highest(Tones) : m = l
    <3> SUFFICES ASSUME NEW m \in Highest(Tones) PROVE m = l
      OBVIOUS
    <3>1. m \in Tones /\ l \in Tones /\ m <= l /\ l <= m
      BY DEF Highest
    <3>2. m \in Nat /\ l \in Nat
      BY <1>2, <3>1, MovedTones
    <3> QED
      BY <3>1, <3>2
  <2>3. l \in Tones /\ l \in Nat \ {0} /\ l # 1
    BY <1>2, <2>1, MovedTones DEF Highest
  <2>4. playing' \in {NoId, playing, cmds[l].call}
    BY <1>1, <1>2, <2>1
  <2> QED
    BY <1>1, <1>2, <2>2, <2>3, <2>4, MovedStopLast DEF ToneInv
<1> QED
  BY <1>2, <1>3, <1>4 DEF ToneInv

(* A stop that is the last tone is the only one on its way.                *)
LEMMA CallDtmfStopTones ==
  ASSUME ToneInv, ~doubled, CallDtmfStop
  PROVE  ToneInv'
<1>1. /\ Take("STOP") /\ Answer({}, {stop})
      /\ playing' = IF playing = Head(cmds).call THEN NoId ELSE playing
      /\ UNCHANGED <<calls, net, crossed, tone, start, stop, doubled, moved>>
  BY DEF CallDtmfStop
<1>2. /\ CallInv' /\ OneEach' /\ TonesAwaited'
      /\ Moved(1) /\ 1 \in Tones /\ cmds[1] = Head(cmds) /\ cmds[1].op = "STOP"
      /\ Head(cmds) \in ToneCommand
  BY <1>1, Confirmed
<1>3. ToneTypes'
  BY <1>1, <1>2 DEF ToneInv, ToneTypes
<1>4. StopLast'
  <2> SUFFICES ASSUME ~moved, ~tone PROVE StopLast'
    BY <1>1 DEF StopLast
  <2>1. PICK l \in Highest(Tones) : cmds[l].op = "STOP" /\ playing \in {NoId, cmds[l].call}
    BY <1>2 DEF ToneInv, StopLast
  <2>2. l \in Tones /\ \A i \in Tones : i <= l
    BY DEF Highest
  <2>3. l = 1
    BY <1>2, <2>1, <2>2 DEF ToneInv, OneEach
  <2>4. Tones' = {}
    <3> SUFFICES ASSUME NEW i \in Tones' PROVE FALSE
      OBVIOUS
    <3>1. i \in Nat \ {0} /\ i + 1 \in Tones
      BY <1>2, MovedTones
    <3> QED
      BY <2>2, <2>3, <3>1
  <2>5. playing' = NoId
    BY <1>1, <1>2, <2>1, <2>3
  <2> QED
    BY <2>4, <2>5 DEF StopLast
<1> QED
  BY <1>2, <1>3, <1>4 DEF ToneInv

LEMMA TonesStep ==
  ASSUME ToneInv, [TonesNext]_allVars
  PROVE  ToneInv'
<1>1. CASE UNCHANGED allVars
  <2>1. UNCHANGED vars /\ UNCHANGED toneVars
    BY <1>1 DEF allVars
  <2>2. CallInv'
    BY <2>1, StutterInv DEF ToneInv
  <2>3. /\ Tones' = Tones /\ Highest(Tones)' = Highest(Tones) /\ Stored' = Stored
        /\ Waits("START")' = Waits("START") /\ Waits("STOP")' = Waits("STOP")
    BY <2>1 DEF vars, Tones, Highest, Stored, Held, Waits
  <2>4. ToneTypes' /\ OneEach' /\ TonesAwaited'
    BY <2>1, <2>3 DEF ToneInv, vars, toneVars, ToneTypes, OneEach, TonesAwaited
  <2>5. StopLast'
    BY <2>1, <2>3 DEF ToneInv, vars, toneVars, StopLast
  <2> QED
    BY <2>2, <2>4, <2>5 DEF ToneInv
<1> SUFFICES ASSUME TonesNext PROVE ToneInv'
  BY <1>1
<1>2. ~doubled /\ CallInv
  BY DEF TonesNext, ToneInv
<1>3. ASSUME NEW t \in Token, Idle(t), CallStep(Request(t))
      PROVE  ToneInv'
  BY <1>2, <1>3, RequestInv, RequestUntouched, CallStepTones DEF CallStep
<1>4. ASSUME NEW t \in Token, Idle(t), ToneRequest(t)
      PROVE  ToneInv'
  BY <1>2, <1>4, ToneReply, DtmfStartTones, DtmfStopTones DEF ToneRequest, Dtmf
<1>5. CASE CallStep(ModemStep)
  BY <1>2, <1>5, ModemStepInv, IndicationUntouched, CallStepTones DEF CallStep
<1>6. CASE ToneStep
  BY <1>2, <1>6, CallDtmfStartTones, CallDtmfStopTones DEF ToneStep
<1>7. ASSUME NEW c \in CallId, CallStep(FarStep(c))
      PROVE  ToneInv'
  BY <1>2, <1>7, FarStepInv, IndicationUntouched, CallStepTones DEF CallStep
<1> QED
  BY <1>3, <1>4, <1>5, <1>6, <1>7 DEF TonesNext

LEMMA ToneInvariant == TonesSpec => []ToneInv
  BY ToneInit, TonesStep, PTL DEF TonesSpec

(* Although dtmf_start and dtmf_stop are never cleared, and whatever calls *)
(* come, end and cross, a confirmation completes the request its command   *)
(* was sent for, as long as no start or stop was doubled.                  *)
THEOREM TonesRequestsAwaited == TonesSpec => []TonesAwaited
  BY ToneInvariant, PTL DEF ToneInv

(* Once its commands are through the modem plays no tone that dtmf_tone    *)
(* has forgotten, for any number of calls, unless a stop was sent for      *)
(* another call than its start.                                            *)
THEOREM TonesForgotten == TonesSpec => []ToneKnown
<1>1. ToneInv => ToneKnown
  <2> SUFFICES ASSUME ToneInv, ~moved, ~tone
               PROVE  /\ Tones = {} => playing = NoId
                      /\ \A i \in Highest(Tones) : cmds[i].op = "STOP"
    BY DEF ToneKnown
  <2>1. CASE Tones = {} /\ playing = NoId
    BY <2>1 DEF Highest
  <2>2. ASSUME NEW l \in Highest(Tones), cmds[l].op = "STOP"
        PROVE  Tones # {} /\ \A i \in Highest(Tones) : cmds[i].op = "STOP"
    <3>1. Tones \subseteq Nat
      BY DEF Tones, ToneInv, CallInv, TypeOK
    <3>2. \A i \in Highest(Tones) : i = l
      BY <2>2, <3>1 DEF Highest
    <3> QED
      BY <2>2, <3>2 DEF Highest
  <2> QED
    BY <2>1, <2>2 DEF ToneInv, StopLast
<1> QED
  BY ToneInvariant, <1>1, PTL
=============================================================================
