------------------------------- MODULE RilSms -------------------------------
(***************************************************************************)
(* Outgoing text messages (mocha-ril/sms.c): one message is given to the   *)
(* modem at a time, its token is kept in ril_data.tokens.outgoing_sms, and *)
(* the messages that arrive meanwhile wait in ril_data.outgoing_sms.       *)
(*                                                                         *)
(* A message is its token; PDU and SMSC address are left out.  Whether a   *)
(* request can be sent at all (its strings convert, an SMSC is given or    *)
(* known, the list entry can be allocated) is a free choice.  The error    *)
(* exit of ril_request_send_sms_complete is not taken: it needs a PDU and  *)
(* an SMSC of more than 0xfe bytes, and no SMS-SUBMIT is that long.        *)
(***************************************************************************)
EXTENDS Integers, Sequences, Functions, RilRequests

CONSTANT
  MaxSent   (* bound on the messages the modem has not reported on         *)

ASSUME SmsAssumption == MaxSent \in Nat \ {0}

VARIABLES
  queue,    (* ril_data.outgoing_sms                                       *)
  inflight, (* ril_data.tokens.outgoing_sms                                *)
  sent,     (* messages given to the modem it has not reported on          *)
  dropped   (* history: the in-flight token was cleared by the error path  *)

vars == <<queue, inflight, sent, dropped, pending, stray>>

TypeOK ==
  /\ queue \in Seq(Token)
  /\ inflight \in Token \cup {NoToken}
  /\ sent \in Seq(Token)
  /\ dropped \in BOOLEAN
  /\ RequestTypeOK

Init ==
  /\ queue = <<>>
  /\ inflight = NoToken
  /\ sent = <<>>
  /\ dropped = FALSE
  /\ RequestInit

-----------------------------------------------------------------------------
(* Mutants: the list is not tested for being empty; the message stays in   *)
(* the list; the last entry is taken; the list is not looked at.           *)
SendNextUntested(out) ==
  LET t == IF queue = <<>> THEN NoToken ELSE Head(queue)
  IN /\ inflight' = t
     /\ queue' = IF queue = <<>> THEN queue ELSE Tail(queue)
     /\ sent' = Append(out, t)

SendNextRegistered(out) ==
  /\ inflight' = IF queue = <<>> THEN NoToken ELSE Head(queue)
  /\ sent' = IF queue = <<>> THEN out ELSE Append(out, Head(queue))
  /\ UNCHANGED queue

SendNextFromEnd(out) ==
  \/ /\ queue = <<>>
     /\ inflight' = NoToken
     /\ sent' = out
     /\ UNCHANGED queue
  \/ /\ queue # <<>>
     /\ inflight' = queue[Len(queue)]
     /\ sent' = Append(out, queue[Len(queue)])
     /\ queue' = SubSeq(queue, 1, Len(queue) - 1)

SendNextIdle(out) ==
  /\ inflight' = NoToken
  /\ sent' = out
  /\ UNCHANGED queue

(* ril_request_send_sms_next: the first message of the list, if any, goes  *)
(* to the modem; `out' is what the modem still has to report on.           *)
SendNext(out) ==
  \/ /\ queue = <<>>
     /\ inflight' = NoToken
     /\ sent' = out
     /\ UNCHANGED queue
  \/ /\ queue # <<>>
     /\ inflight' = Head(queue)
     /\ sent' = Append(out, Head(queue))
     /\ queue' = Tail(queue)

(* Mutant: the message is sent although another one is in flight.          *)
SendAtOnce(t) ==
  /\ Len(sent) < MaxSent
  /\ inflight' = t
  /\ sent' = Append(sent, t)
  /\ Answer({t}, {})
  /\ UNCHANGED <<queue, dropped>>

(* Mutant: the message is put at the front of the list.                    *)
SendSmsFirst(t) ==
  /\ Len(sent) < MaxSent
  /\ \/ /\ inflight # NoToken
        /\ queue' = <<t>> \o queue
        /\ UNCHANGED <<inflight, sent>>
     \/ /\ inflight = NoToken
        /\ inflight' = t
        /\ sent' = Append(sent, t)
        /\ UNCHANGED queue
  /\ Answer({t}, {})
  /\ UNCHANGED dropped

(* ril_request_send_sms for a message that can be sent.                    *)
SendSms(t) ==
  /\ Len(sent) < MaxSent
  /\ \/ /\ inflight # NoToken
        /\ queue' = Append(queue, t)
        /\ UNCHANGED <<inflight, sent>>
     \/ /\ inflight = NoToken
        /\ inflight' = t
        /\ sent' = Append(sent, t)
        /\ UNCHANGED queue
  /\ Answer({t}, {})
  /\ UNCHANGED dropped

(* Its error path: the request fails and the next message is sent, whether *)
(* or not another one is in flight.                                        *)
RejectSms(t) ==
  /\ Len(sent) < MaxSent
  /\ Answer({t}, {t})
  /\ SendNext(sent)
  /\ dropped' = (dropped \/ inflight # NoToken)

(* ipc_sms_send_status: the modem reports on the messages in the order it  *)
(* was given them; the token in flight is completed whichever message the  *)
(* report is about.                                                        *)
SendStatus ==
  /\ sent # <<>>
  /\ Answer({}, {inflight})
  /\ SendNext(Tail(sent))
  /\ UNCHANGED dropped

Next ==
  \/ \E t \in Token : Idle(t) /\ (SendSms(t) \/ RejectSms(t))
  \/ SendStatus

Spec == Init /\ [][Next]_vars

(* The modem reports on every message, sent or not.                        *)
FairSpec == Spec /\ WF_vars(SendStatus)

-----------------------------------------------------------------------------
(* Safety.                                                                 *)

(* A message waits only behind one that is in flight, whose report will    *)
(* send it: no path leaves the list with nothing to set it moving.         *)
QueueBehind == queue # <<>> => inflight # NoToken

(* The messages that wait and the one in flight are different requests,    *)
(* and the framework waits for all of them.                                *)
Awaited ==
  /\ Range(queue) \cup ({inflight} \ {NoToken}) \subseteq pending
  /\ inflight \notin Range(queue)
  /\ IsInjective(queue)

(* Unless the error path ran behind a message in flight, the token in      *)
(* flight is the message the modem has, so its report answers the right    *)
(* request, and no report finds the token cleared.                         *)
InFlight ==
  ~dropped =>
    /\ sent = IF inflight = NoToken THEN <<>> ELSE <<inflight>>
    /\ ~stray

(* "Another outgoing SMS is being processed, adding to the list"           *)
(* (sms.c:337): the modem processes one message at a time.  The error path *)
(* of another request breaks this.                                         *)
OneOutstanding == Len(sent) <= 1

-----------------------------------------------------------------------------
(* Refinement and liveness.                                                *)

(* The message in flight and the ones behind it are one line.              *)
Line == IF inflight = NoToken THEN <<>> ELSE <<inflight>> \o queue

Outbox == INSTANCE RequestLine WITH Request <- Token, line <- Line

(* The messages go to the modem in the order of the requests, none is      *)
(* overtaken, and the one in flight stays until its report, or the error   *)
(* path, lets the next one follow.                                         *)
OutboxSafety == Outbox!Spec

(* Every request is answered.  A token the error path cleared is not, but   *)
(* even after that every message that waits in the list is sent.           *)
Answered ==
  \A t \in Token :
    t \in pending ~> (t \notin pending \/ (dropped /\ t \notin Range(queue)))
=============================================================================
