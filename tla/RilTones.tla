------------------------------ MODULE RilTones ------------------------------
(***************************************************************************)
(* DTMF tones (mocha-ril/call.c) on the calls of RilCall.                  *)
(*                                                                         *)
(* A tone is started and stopped on the active call, by commands that wait *)
(* in the same line as those of the calls.  The library keeps one token    *)
(* for each and never clears it, and remembers whether a tone is on: then  *)
(* a start stops it first, with a command that no request is answered by.  *)
(***************************************************************************)
EXTENDS RilCall

CONSTANT
  MayCross  (* bound: whether commands on one call may cross               *)

ASSUME TonesAssumption == MayCross \in BOOLEAN

VARIABLES
  tone,     (* state.dtmf_tone is not 0                                    *)
  start,    (* tokens.dtmf_start                                           *)
  stop,     (* tokens.dtmf_stop                                            *)
  playing,  (* the call on which the modem plays a tone, or NoId           *)
  doubled,  (* history: a start had to stop a tone first, or a command was *)
            (* sent before the last one of its kind was confirmed          *)
  moved     (* history: a stop was sent for another call than its start    *)

toneVars == <<tone, start, stop, playing, doubled, moved>>
allVars == <<vars, toneVars>>

TonesInit ==
  /\ Init
  /\ tone = FALSE /\ start = NoToken /\ stop = NoToken
  /\ playing = NoId
  /\ doubled = FALSE /\ moved = FALSE

-----------------------------------------------------------------------------
(* Commands: `call' is the call they are for.  As RilCall's crossed is     *)
(* about commands that change calls, id names none.                        *)
Tone(op, s) == [op |-> op, id |-> NoId, other |-> NoId, call |-> calls[s].id]

Tones == {i \in DOMAIN cmds : cmds[i].op \in {"START", "STOP"}}
Waits(op) == \E i \in DOMAIN cmds : cmds[i].op = op

(* find_active_call.                                                       *)
ActiveCall == Lowest(InState("ACTIVE"))

(* A tone plays, or is to be started, on another call than that of s.      *)
Elsewhere(s) ==
  \E c \in CallId \ {calls[s].id} :
    playing = c \/ \E i \in DOMAIN cmds : cmds[i].op = "START" /\ cmds[i].call = c

-----------------------------------------------------------------------------
(* Requests of the framework.                                              *)

(* ril_request_dtmf: "Implement me!".                                      *)
Dtmf(t) == Reply(t) /\ UNCHANGED toneVars

(* ril_request_dtmf_start.  The error exit is that of a missing tone, too. *)
DtmfStart(t) ==
  \/ Reply(t) /\ UNCHANGED toneVars
  \/ \E s \in ActiveCall :
       /\ Send((IF tone THEN <<Tone("STOP", s)>> ELSE <<>>) \o <<Tone("START", s)>>)
       /\ tone' = TRUE /\ start' = t
       /\ doubled' = (tone \/ Waits("START"))
       /\ moved' = (moved \/ (tone /\ Elsewhere(s)))
       /\ Answer({t}, {})
       /\ UNCHANGED <<calls, net, stop, playing>>

(* Mutant: the tone is forgotten when there is no active call.             *)
DtmfStopForgets(t) ==
  \/ /\ ActiveCall = {}
     /\ Reply(t)
     /\ tone' = FALSE
     /\ UNCHANGED <<start, stop, playing, doubled, moved>>
  \/ \E s \in ActiveCall :
       /\ Send(<<Tone("STOP", s)>>)
       /\ tone' = FALSE /\ stop' = t
       /\ doubled' = Waits("STOP")
       /\ moved' = (moved \/ Elsewhere(s))
       /\ Answer({t}, {})
       /\ UNCHANGED <<calls, net, start, playing>>

(* Mutant: the token is kept only if a tone is on.                         *)
DtmfStopUnkept(t) ==
  \/ ActiveCall = {} /\ Reply(t) /\ UNCHANGED toneVars
  \/ \E s \in ActiveCall :
       /\ Send(<<Tone("STOP", s)>>)
       /\ tone' = FALSE /\ stop' = IF tone THEN t ELSE stop
       /\ doubled' = Waits("STOP")
       /\ moved' = (moved \/ Elsewhere(s))
       /\ Answer({t}, {})
       /\ UNCHANGED <<calls, net, start, playing>>

(* ril_request_dtmf_stop: sent whether a tone is on or not; without an     *)
(* active call dtmf_tone stays as it is.                                   *)
DtmfStop(t) ==
  \/ ActiveCall = {} /\ Reply(t) /\ UNCHANGED toneVars
  \/ \E s \in ActiveCall :
       /\ Send(<<Tone("STOP", s)>>)
       /\ tone' = FALSE /\ stop' = t
       /\ doubled' = Waits("STOP")
       /\ moved' = (moved \/ Elsewhere(s))
       /\ Answer({t}, {})
       /\ UNCHANGED <<calls, net, start, playing>>

-----------------------------------------------------------------------------
(* The modem, and the confirmations it sends.                              *)

(* ipc_call_dtmf_start, after a start that succeeds or not.                *)
CallDtmfStart ==
  /\ Take("START")
  /\ LET c == Head(cmds).call
     IN \/ net[c] = "active" /\ playing' = c
        \/ UNCHANGED playing
  /\ Answer({}, {start})
  /\ UNCHANGED <<calls, net, crossed, tone, start, stop, doubled, moved>>

(* Mutant: a stop that fails, its call having ended, answers nobody.       *)
CallDtmfStopOkOnly ==
  /\ Take("STOP")
  /\ playing' = IF playing = Head(cmds).call THEN NoId ELSE playing
  /\ Answer({}, IF net[Head(cmds).call] = "active" THEN {stop} ELSE {})
  /\ UNCHANGED <<calls, net, crossed, tone, start, stop, doubled, moved>>

(* ipc_call_dtmf_stop.                                                     *)
CallDtmfStop ==
  /\ Take("STOP")
  /\ playing' = IF playing = Head(cmds).call THEN NoId ELSE playing
  /\ Answer({}, {stop})
  /\ UNCHANGED <<calls, net, crossed, tone, start, stop, doubled, moved>>

(* A step of the calls; a tone ends with its call.                         *)
CallStep(step) ==
  /\ step
  /\ playing' = IF playing # NoId /\ net'[playing] = "idle" THEN NoId ELSE playing
  /\ UNCHANGED <<tone, start, stop, doubled, moved>>

-----------------------------------------------------------------------------
ToneRequest(t) == Dtmf(t) \/ DtmfStart(t) \/ DtmfStop(t)

ToneStep == CallDtmfStart \/ CallDtmfStop

(* Nothing is claimed of what follows once tones were doubled.             *)
TonesNext ==
  /\ ~doubled /\ (crossed => MayCross)
  /\ \/ \E t \in Token : Idle(t) /\ (CallStep(Request(t)) \/ ToneRequest(t))
     \/ CallStep(ModemStep)
     \/ ToneStep
     \/ \E c \in CallId : CallStep(FarStep(c))

TonesSpec == TonesInit /\ [][TonesNext]_allVars

(* The modem keeps processing the commands it is sent.  Nothing is assumed *)
(* of the framework, the network or the far ends.                          *)
FairTonesSpec == TonesSpec /\ WF_allVars(CallStep(ModemStep) \/ ToneStep)

-----------------------------------------------------------------------------
(* Properties.                                                             *)

(* ipc_call_dtmf_start, ipc_call_dtmf_stop: although the tokens are never  *)
(* cleared and calls come and go, a confirmation completes the request its *)
(* command was sent for, as long as no start found a tone that was not     *)
(* stopped and the framework waited for the last confirmation.             *)
TonesAwaited ==
  ~doubled =>
    /\ Waits("START") => start \in pending \ Stored
    /\ Waits("STOP") => stop \in pending \ Stored
    /\ start = stop => ~(Waits("START") /\ Waits("STOP"))
    /\ ~stray

(* ril_request_dtmf_start, ril_request_dtmf_stop: once its commands are    *)
(* through the modem plays no tone the library has forgotten, whatever     *)
(* happened to the calls, unless the stop went to another call.            *)
ToneKnown ==
  ~moved /\ ~tone =>
    /\ Tones = {} => playing = NoId
    /\ \A i \in Highest(Tones) : cmds[i].op = "STOP"

(* Liveness: every request that is kept, for a call or for a tone, is      *)
(* answered, unless commands on its call crossed or tones were doubled.    *)
Kept(t) ==
  \/ t \in Stored
  \/ start = t /\ Waits("START")
  \/ stop = t /\ Waits("STOP")

AllAnswered ==
  Kept(AnyToken) ~>
    (AnyToken \notin pending \/ doubled \/ (crossed /\ AnyToken \in Stored))
=============================================================================
