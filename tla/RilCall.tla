------------------------------- MODULE RilCall -------------------------------
(***************************************************************************)
(* Voice calls (mocha-ril/call.c): the table of call contexts, the         *)
(* requests of the framework that act on it and the indications of the     *)
(* modem that update it.                                                   *)
(*                                                                         *)
(* Every handler runs under RIL_LOCK, so a handler is one action.  What is *)
(* concurrent is the modem: commands travel to it in order, and while they *)
(* do the far end answers, hangs up or calls.  Indications travel back in  *)
(* order as well; as a call context leaves or enters a state only through  *)
(* an indication, the modem's step and the handler of the indication it    *)
(* sends are one action here, and only the commands are in a queue.        *)
(***************************************************************************)
EXTENDS Integers, Sequences, FiniteSets, RilRequests

CONSTANTS
  CallId,    (* the call identifiers the modem assigns                     *)
  DialId,    (* 0xFF, the callId of a dialled call the modem has not named *)
  NoId,      (* the identifier of an empty slot                            *)
  MaxCalls,  (* MAX_CALLS, the size of the table                           *)
  MaxCmds    (* bound on the commands on their way to the modem            *)

ASSUME CallAssumption ==
  /\ DialId \notin CallId
  /\ NoId \notin CallId \cup {DialId}
  /\ MaxCalls \in Nat \ {0}
  /\ MaxCmds \in Nat

VARIABLES
  calls,     (* ril_data.calls                                             *)
  cmds,      (* TAPI_CALL commands the modem has not processed             *)
  net,       (* the modem's own view of its calls                          *)
  crossed    (* history: a command was sent on a call while an earlier one *)
             (* on it was unanswered, or a call of a swap on its way ended *)

vars == <<calls, cmds, net, crossed, pending, stray>>

Slot == 1..MaxCalls
CallState == {"DIALING", "ALERTING", "ACTIVE", "HOLDING", "INCOMING", "WAITING"}
Phase == {"idle", "orig", "ringing", "active", "held"}

NoCall == [id |-> NoId, state |-> "NONE", token |-> NoToken]

Context == [id : CallId \cup {DialId}, state : CallState,
            token : Token \cup {NoToken}]

(* Only the command that sets a call up is sent before the call has its    *)
(* identifier; `other' is the held call of a swap.  Those of RilTones wait *)
(* in the same line and change no call.                                    *)
ToneCommand == [op : {"START", "STOP"}, id : {NoId}, other : {NoId}, call : CallId]

Command ==
  [op : {"SETUP"}, id : {DialId}, other : {NoId}] \cup
  [op : {"RELEASE", "ANSWER", "HOLD", "ACTIVATE"}, id : CallId, other : {NoId}] \cup
  [op : {"SWAP"}, id : CallId, other : CallId] \cup
  ToneCommand

TypeOK ==
  /\ calls \in [Slot -> Context \cup {NoCall}]
  /\ cmds \in Seq(Command)
  /\ net \in [CallId -> Phase]
  /\ crossed \in BOOLEAN
  /\ RequestTypeOK

Init ==
  /\ calls = [s \in Slot |-> NoCall]
  /\ cmds = <<>>
  /\ net = [c \in CallId |-> "idle"]
  /\ crossed = FALSE
  /\ RequestInit

-----------------------------------------------------------------------------
(* The call table.                                                         *)

Lowest(S)  == {s \in S : \A r \in S : s <= r}
Highest(S) == {s \in S : \A r \in S : r <= s}

(* find_ril_call_context and new_ril_call_context: the first match, if any *)
Find(id) == Lowest({s \in Slot : calls[s].id = id})
NewSlot  == Lowest({s \in Slot : calls[s].id = NoId})

(* The calls in a state.  The loops of the handlers skip the call that is  *)
(* still being dialled and end with the last call they meet.               *)
InState(st) == {s \in Slot : calls[s].id # DialId /\ calls[s].state = st}
Latest(st)  == Highest(InState(st))

(* "another one is pending": a call of S holds the token of a request.     *)
Busy(S) == \E s \in S : calls[s].token # NoToken

(* The tokens of unanswered requests that S holds.                         *)
Held(S) == {calls[s].token : s \in S} \ {NoToken}

-----------------------------------------------------------------------------
(* Commands to the modem.                                                  *)

Cmd(op, s)    == [op |-> op, id |-> calls[s].id, other |-> NoId]
SwapCmd(a, h) == [op |-> "SWAP", id |-> calls[a].id, other |-> calls[h].id]

Named(q) == {q[i].id : i \in DOMAIN q} \cup {q[i].other : i \in DOMAIN q}

Send(q) ==
  /\ Len(cmds) + Len(q) <= MaxCmds
  /\ cmds' = cmds \o q
  /\ crossed' = (crossed \/ (Named(q) \cap Named(cmds)) \ {NoId} # {})

-----------------------------------------------------------------------------
(* Requests of the framework.                                              *)

(* The token is completed before the handler returns, nothing else moves.  *)
Reply(t) ==
  /\ Answer({t}, {t})
  /\ UNCHANGED <<calls, cmds, net, crossed>>

(* The token is kept in slot s and the commands of q are sent.             *)
Keep(t, s, q) ==
  /\ calls' = [calls EXCEPT ![s].token = t]
  /\ Send(q)
  /\ Answer({t}, {})
  /\ UNCHANGED net

(* The handler returns without keeping or completing the token.            *)
Forget(t) ==
  /\ Answer({t}, {})
  /\ UNCHANGED <<calls, cmds, net, crossed>>

(* Mutant: the test for a call that is being dialled is missing.           *)
DialTwice(t) ==
  \/ NewSlot = {} /\ Reply(t)
  \/ \E s \in NewSlot :
       /\ calls' = [calls EXCEPT ![s] =
                     [id |-> DialId, state |-> "DIALING", token |-> t]]
       /\ Send(<<[op |-> "SETUP", id |-> DialId, other |-> NoId]>>)
       /\ Answer({t}, {})
       /\ UNCHANGED net

Dial(t) ==
  \/ /\ Find(DialId) # {} \/ NewSlot = {}
     /\ Reply(t)
  \/ \E s \in NewSlot :
       /\ Find(DialId) = {}
       /\ calls' = [calls EXCEPT ![s] =
                     [id |-> DialId, state |-> "DIALING", token |-> t]]
       /\ Send(<<[op |-> "SETUP", id |-> DialId, other |-> NoId]>>)
       /\ Answer({t}, {})
       /\ UNCHANGED net

Hangup(t, s) ==
  \/ /\ calls[s].id = NoId \/ Busy({s})
     /\ Reply(t)
  \/ /\ calls[s].id # NoId /\ ~Busy({s})
     /\ Keep(t, s, <<Cmd("RELEASE", s)>>)

(* The branches of the handler: a waiting call is released whatever other  *)
(* calls there are, else the active, the held, the incoming one.           *)
WaitingOrBackground ==
  CASE InState("WAITING") # {} -> Latest("WAITING")
    [] InState("WAITING") = {} /\ InState("ACTIVE") # {} -> Latest("ACTIVE")
    [] InState("WAITING") \cup InState("ACTIVE") = {} /\ InState("HOLDING") # {}
         -> Latest("HOLDING")
    [] OTHER -> Latest("INCOMING")

HangupWaitingOrBackground(t) ==
  LET all == InState("ACTIVE") \cup InState("HOLDING") \cup
             InState("WAITING") \cup InState("INCOMING")
  IN \/ /\ all = {} \/ Busy(all)
        /\ Reply(t)
     \/ /\ ~Busy(all)
        /\ \E s \in WaitingOrBackground : Keep(t, s, <<Cmd("RELEASE", s)>>)

HangupForegroundResumeBackground(t) ==
  LET active == InState("ACTIVE")
      hold == InState("HOLDING")
  IN \/ /\ active \cup hold = {} \/ Busy(active \cup hold)
        /\ Reply(t)
     \/ /\ ~Busy(active \cup hold)
        /\ \/ \E a \in Latest("ACTIVE"), h \in Latest("HOLDING") :
                Keep(t, h, <<Cmd("RELEASE", a), Cmd("ACTIVATE", h)>>)
           \/ /\ hold = {}
              /\ \E a \in Latest("ACTIVE") : Keep(t, a, <<Cmd("RELEASE", a)>>)
           \/ /\ active = {}
              /\ \E h \in Latest("HOLDING") : Keep(t, h, <<Cmd("RELEASE", h)>>)

(* Every incoming call up to the first busy one gets the same token and is *)
(* answered; without an incoming call nothing happens at all.              *)
AnswerCall(t) ==
  LET ringing == InState("INCOMING")
      hit == {s \in ringing : \A r \in ringing : r <= s => ~Busy({r})}
  IN \E order \in [1..Cardinality(hit) -> hit] :
       /\ \A i, j \in DOMAIN order : i < j => order[i] < order[j]
       /\ Send([i \in DOMAIN order |-> Cmd("ANSWER", order[i])])
       /\ calls' = [s \in Slot |->
             IF s \in hit THEN [calls[s] EXCEPT !.token = t] ELSE calls[s]]
       /\ Answer({t}, IF Busy(ringing) THEN {t} ELSE {})
       /\ UNCHANGED net

SwitchWaitingOrHoldingAndActive(t) ==
  LET active == InState("ACTIVE")
      hold == InState("HOLDING")
      wait == InState("WAITING")
      all == active \cup hold \cup wait
  IN \/ /\ all = {} \/ Busy(all)
        /\ Reply(t)
     \/ /\ ~Busy(all)
        /\ \/ \E a \in Latest("ACTIVE"), h \in Latest("HOLDING") :
                Keep(t, a, <<SwapCmd(a, h)>>)
           \/ /\ hold = {}
              /\ \E a \in Latest("ACTIVE"), w \in Latest("WAITING") :
                   Keep(t, w, <<Cmd("HOLD", a), Cmd("ANSWER", w)>>)
           \/ /\ active = {} /\ hold # {}
              /\ \E w \in Latest("WAITING") : Keep(t, w, <<Cmd("ANSWER", w)>>)
           \/ /\ hold \cup wait = {}
              /\ \E a \in Latest("ACTIVE") : Keep(t, a, <<Cmd("HOLD", a)>>)
           \/ /\ active \cup wait = {}
              /\ \E h \in Latest("HOLDING") : Keep(t, h, <<Cmd("ACTIVATE", h)>>)
           \/ /\ active \cup hold = {} /\ wait # {}
              /\ Forget(t)

-----------------------------------------------------------------------------
(* Indications of the modem: what the handler does to the table and to the *)
(* framework.                                                              *)

NoEffect == UNCHANGED <<calls, pending, stray>>

(* Mutant: the token is completed but not cleared.                         *)
SettleKeepsToken(s, st) ==
  /\ calls' = [calls EXCEPT ![s].state = st]
  /\ Answer({}, Held({s}))

(* The context's token, if any, is completed and cleared.                  *)
Settle(s, st) ==
  /\ calls' = [calls EXCEPT ![s].state = st, ![s].token = NoToken]
  /\ Answer({}, Held({s}))

(* The context's token, if any, is completed and the slot becomes free.    *)
Drop(s) ==
  /\ calls' = [calls EXCEPT ![s] = NoCall]
  /\ Answer({}, Held({s}))

CallEnd(id) ==
  \/ Find(id) = {} /\ NoEffect
  \/ \E s \in Find(id) : Drop(s)

CallError(id) ==
  \/ Find(id) = {} /\ NoEffect
  \/ \E s \in Find(id) : Drop(s)

(* The dialled call gets its name; the name is then looked up again.       *)
CallSetupInd(id) ==
  \/ Find(DialId) = {} /\ NoEffect
  \/ \E d \in Find(DialId), s \in Slot :
       /\ s \in Lowest(Find(id) \cup {d})
       /\ calls' = [r \in Slot |->
             [calls[r] EXCEPT !.id = IF r = d THEN id ELSE @,
                              !.token = IF r = s THEN NoToken ELSE @]]
       /\ Answer({}, Held({s}))

CallAlert(id) ==
  \/ Find(id) = {} /\ NoEffect
  \/ \E s \in Find(id) : /\ calls' = [calls EXCEPT ![s].state = "ALERTING"]
                         /\ UNCHANGED requestVars

CallConnected(id) ==
  \/ Find(id) = {} /\ NoEffect
  \/ \E s \in Find(id) : Settle(s, "ACTIVE")

CallIncoming(id) ==
  \/ NewSlot = {} /\ NoEffect
  \/ \E s \in NewSlot :
       /\ calls' = [calls EXCEPT ![s] =
             [id |-> id,
              state |-> IF InState("ACTIVE") \cup InState("HOLDING") # {}
                        THEN "WAITING" ELSE "INCOMING",
              token |-> NoToken]]
       /\ UNCHANGED requestVars

(* Mutant: the state moves only if the context still holds a token.        *)
CallHoldPendingOnly(id, ok) ==
  \/ ~Busy(Find(id)) /\ NoEffect
  \/ \E s \in Find(id) :
       Busy({s}) /\ Settle(s, IF ok THEN "HOLDING" ELSE calls[s].state)

CallHold(id, ok) ==
  \/ Find(id) = {} /\ NoEffect
  \/ \E s \in Find(id) : Settle(s, IF ok THEN "HOLDING" ELSE calls[s].state)

(* Mutant: a refusal does not answer the request.                          *)
CallActivateOkOnly(id, ok) ==
  \/ (~Busy(Find(id)) \/ ~ok) /\ NoEffect
  \/ \E s \in Find(id) : Busy({s}) /\ ok /\ Settle(s, "ACTIVE")

(* The state moves only if the context still holds a token.                *)
CallActivate(id, ok) ==
  \/ ~Busy(Find(id)) /\ NoEffect
  \/ \E s \in Find(id) :
       Busy({s}) /\ Settle(s, IF ok THEN "ACTIVE" ELSE calls[s].state)

CallSwap(activatedId, heldId, ok) ==
  \/ (Find(activatedId) = {} \/ ~Busy(Find(heldId))) /\ NoEffect
  \/ \E a \in Find(activatedId), h \in Find(heldId) :
       /\ Busy({h})
       /\ \/ /\ ok
             /\ calls' = [calls EXCEPT ![a].state = "ACTIVE",
                                       ![h].state = "HOLDING", ![h].token = NoToken]
             /\ Answer({}, Held({h}))
          \/ ~ok /\ Settle(h, calls[h].state)

-----------------------------------------------------------------------------
(* The modem (not part of this repository): it processes commands in the   *)
(* order they were sent and announces what the network does.               *)

Take(op) == cmds # <<>> /\ Head(cmds).op = op /\ cmds' = Tail(cmds)

(* A call gets an identifier no other call has, or the set-up fails.       *)
ModemSetup ==
  /\ Take("SETUP")
  /\ UNCHANGED crossed
  /\ \/ \E c \in CallId : /\ net[c] = "idle"
                          /\ net' = [net EXCEPT ![c] = "orig"]
                          /\ CallSetupInd(c)
     \/ /\ CallError(DialId)
        /\ UNCHANGED net

(* A command on a call that is over is ignored, or refused where the modem *)
(* owes a confirmation; the network may refuse a supplementary service.    *)
ModemRelease ==
  /\ Take("RELEASE")
  /\ UNCHANGED crossed
  /\ LET c == Head(cmds).id
     IN \/ /\ net[c] # "idle"
           /\ net' = [net EXCEPT ![c] = "idle"]
           /\ CallEnd(c)
        \/ /\ net[c] = "idle"
           /\ NoEffect /\ UNCHANGED net

ModemAnswer ==
  /\ Take("ANSWER")
  /\ UNCHANGED crossed
  /\ LET c == Head(cmds).id
     IN \/ /\ net[c] = "ringing"
           /\ net' = [net EXCEPT ![c] = "active"]
           /\ CallConnected(c)
        \/ /\ net[c] # "ringing"
           /\ NoEffect /\ UNCHANGED net

ModemHold ==
  /\ Take("HOLD")
  /\ UNCHANGED crossed
  /\ LET c == Head(cmds).id
     IN \/ /\ net[c] = "active"
           /\ net' = [net EXCEPT ![c] = "held"]
           /\ CallHold(c, TRUE)
        \/ CallHold(c, FALSE) /\ UNCHANGED net

ModemActivate ==
  /\ Take("ACTIVATE")
  /\ UNCHANGED crossed
  /\ LET c == Head(cmds).id
     IN \/ /\ net[c] = "held"
           /\ net' = [net EXCEPT ![c] = "active"]
           /\ CallActivate(c, TRUE)
        \/ CallActivate(c, FALSE) /\ UNCHANGED net

ModemSwap ==
  /\ Take("SWAP")
  /\ UNCHANGED crossed
  /\ LET a == Head(cmds).id
         h == Head(cmds).other
     IN \/ /\ net[a] = "active" /\ net[h] = "held"
           /\ net' = [net EXCEPT ![a] = "held", ![h] = "active"]
           /\ CallSwap(h, a, TRUE)
        \/ CallSwap(h, a, FALSE) /\ UNCHANGED net

(* The far end of a dialled call rings, then answers.                      *)
FarAlert(c) ==
  /\ net[c] = "orig"
  /\ CallAlert(c)
  /\ UNCHANGED <<cmds, net, crossed>>

FarAnswer(c) ==
  /\ net[c] = "orig"
  /\ net' = [net EXCEPT ![c] = "active"]
  /\ CallConnected(c)
  /\ UNCHANGED <<cmds, crossed>>

(* A call comes in; the network offers one call at a time.                 *)
FarCall(c) ==
  /\ net[c] = "idle"
  /\ \A d \in CallId : net[d] # "ringing"
  /\ net' = [net EXCEPT ![c] = "ringing"]
  /\ CallIncoming(c)
  /\ UNCHANGED <<cmds, crossed>>

(* A swap that the modem has not processed names call c.                   *)
SwapNames(c) ==
  \E i \in DOMAIN cmds : cmds[i].op = "SWAP" /\ c \in {cmds[i].id, cmds[i].other}

(* The far end hangs up, or the network gives the call up: ipc_call_error  *)
(* does to a call of the table what ipc_call_end does.                     *)
FarEnd(c) ==
  /\ net[c] # "idle"
  /\ net' = [net EXCEPT ![c] = "idle"]
  /\ CallEnd(c)
  /\ crossed' = (crossed \/ SwapNames(c))
  /\ UNCHANGED cmds

-----------------------------------------------------------------------------
Request(t) ==
  \/ Dial(t)
  \/ \E s \in Slot : Hangup(t, s)
  \/ HangupWaitingOrBackground(t)
  \/ HangupForegroundResumeBackground(t)
  \/ AnswerCall(t)
  \/ SwitchWaitingOrHoldingAndActive(t)

ModemStep ==
  ModemSetup \/ ModemRelease \/ ModemAnswer \/ ModemHold \/ ModemActivate \/ ModemSwap

FarStep(c) == FarAlert(c) \/ FarAnswer(c) \/ FarCall(c) \/ FarEnd(c)

Next ==
  \/ \E t \in Token : Idle(t) /\ Request(t)
  \/ ModemStep
  \/ \E c \in CallId : FarStep(c)

Spec == Init /\ [][Next]_vars

-----------------------------------------------------------------------------
(* Safety.                                                                 *)

(* A request kept in the table is one the framework waits for, no two      *)
(* calls keep the same request, and no request was completed twice: what   *)
(* the `token != 0' tests and `token = 0' resets of call.c are there for.  *)
TokensOnce ==
  /\ \A s \in Slot : calls[s].token # NoToken => calls[s].token \in pending
  /\ \A r, s \in Slot :
       calls[r].token = calls[s].token /\ calls[r].token # NoToken => r = s
  /\ ~stray

(* At most one call is being dialled, and the request that dialled it is   *)
(* unanswered: so ipc_call_setup_ind names the right call, and a hangup    *)
(* never sends the modem the identifier 0xFF.                              *)
DialSlot ==
  \A r, s \in Slot :
    calls[s].id = DialId =>
      /\ calls[r].id = DialId => r = s
      /\ calls[s].state = "DIALING"
      /\ calls[s].token # NoToken

(* The identifiers in the table are distinct and name calls the modem has, *)
(* so find_ril_call_context's first match is the only one.                 *)
IdsDistinct ==
  \A r, s \in Slot :
    calls[r].id \in CallId =>
      /\ net[calls[r].id] # "idle"
      /\ calls[r].id = calls[s].id => r = s

(* An incoming call rings at the modem, where at most one does: the loop   *)
(* of ril_request_answer never gives one request to two calls.             *)
OneIncoming ==
  /\ \A c, d \in CallId : net[c] = "ringing" /\ net[d] = "ringing" => c = d
  /\ \A s \in Slot : calls[s].state = "INCOMING" =>
       calls[s].id \in CallId /\ net[calls[s].id] = "ringing"

StatesOf(phase) ==
  CASE phase = "orig"    -> {"DIALING", "ALERTING"}
    [] phase = "ringing" -> {"INCOMING", "WAITING"}
    [] phase = "active"  -> {"ACTIVE"}
    [] phase = "held"    -> {"HOLDING"}
    [] OTHER             -> {}

(* As long as no commands crossed, the state reported for a call is the    *)
(* state it has at the modem, although the confirmations of SWAP and       *)
(* ACTIVATE are dropped when the context no longer holds a token.          *)
ViewAgrees ==
  ~crossed => \A s \in Slot :
    calls[s].id \in CallId => calls[s].state \in StatesOf(net[calls[s].id])

(* As long as no commands crossed, a call that holds a request has a       *)
(* command on its way: nothing waits for an answer that is not coming.     *)
TokenBacked ==
  ~crossed => \A s \in Slot :
    calls[s].token # NoToken => \E i \in DOMAIN cmds : cmds[i].id = calls[s].id

-----------------------------------------------------------------------------
(* An action property.                                                     *)

Stored == Held(Slot)

(* A request kept in the table leaves it only by being completed.          *)
NeverForgotten == [][\A t \in Stored : t \in Stored' \/ t \notin pending']_vars
=============================================================================
