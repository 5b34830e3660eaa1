------------------------------- MODULE RilGprs -------------------------------
(***************************************************************************)
(* Data connections (mocha-ril/gprs.c): the list of connections, one per   *)
(* tunnel interface, the requests that set them up and take them down and  *)
(* the network indications of the modem.                                   *)
(*                                                                         *)
(* Handlers run under RIL_LOCK and are one action each.  As for the calls, *)
(* commands reach the modem through a queue and the modem's step is joined *)
(* with the handler of the indication it sends.  Setting a context up      *)
(* takes the modem a while, in which it serves other commands.             *)
(*                                                                         *)
(* The modem names a context only in the confirmation of its set-up; until *)
(* then the connection is looked up by 0xFFFFFFFF, and the first one of    *)
(* the list is taken.  Addresses, interfaces and user data are left out.   *)
(***************************************************************************)
EXTENDS Integers, Sequences, FiniteSets, RilRequests

CONSTANTS
  ContextId,      (* the context identifiers the modem assigns             *)
  Starting,       (* 0xFFFFFFFF, the contextId of a connection without one *)
  MaxConnections, (* MAX_CONNECTIONS                                       *)
  MaxCmds         (* bound on commands on their way and set-ups under way  *)

ASSUME GprsAssumption ==
  /\ Starting \notin ContextId
  /\ MaxConnections \in Nat \ {0}
  /\ MaxCmds \in Nat

Cid == 1..MaxConnections

VARIABLES
  used,     (* the cids of the connections in ril_data.gprs_connections    *)
  conn,     (* the connection with each cid                                *)
  lastFailed, (* ril_data.state.gprs_last_failed_cid                       *)
  cmds,     (* PROTO commands the modem has not processed                  *)
  attempts, (* set-ups the modem is busy with                              *)
  up,       (* the contexts the modem has                                  *)
  crossed   (* history: the framework or the network did not wait its turn *)

vars == <<used, conn, lastFailed, cmds, attempts, up, crossed, pending, stray>>

(* `active' is 0 (no link), 1 (suspended) or 2 (up); `failed' says that    *)
(* fail_cause has been set; `ahead' are the connections before it in the   *)
(* list.                                                                   *)
Connection ==
  [context : ContextId \cup {Starting}, token : Token \cup {NoToken},
   active : 0..2, failed : BOOLEAN, ahead : SUBSET Cid]

NoConnection ==
  [context |-> Starting, token |-> NoToken, active |-> 0, failed |-> FALSE, ahead |-> {}]

Command == [op : {"START"}, context : {Starting}] \cup
           [op : {"STOP"}, context : ContextId \cup {Starting}]

(* The list is one: of two connections exactly one comes before the other. *)
ListOrder ==
  \A c, d \in used :
    /\ conn[c].ahead \subseteq used
    /\ c # d => (c \in conn[d].ahead <=> d \notin conn[c].ahead)
    /\ c \notin conn[c].ahead

TypeOK ==
  /\ used \subseteq Cid
  /\ conn \in [Cid -> Connection]
  /\ ListOrder
  /\ lastFailed \in Cid \cup {0}
  /\ cmds \in Seq(Command)
  /\ attempts \in Nat
  /\ up \subseteq ContextId
  /\ crossed \in BOOLEAN
  /\ RequestTypeOK

Init ==
  /\ used = {}
  /\ conn = [c \in Cid |-> NoConnection]
  /\ lastFailed = 0
  /\ cmds = <<>>
  /\ attempts = 0
  /\ up = {}
  /\ crossed = FALSE
  /\ RequestInit

-----------------------------------------------------------------------------
(* The list of connections.                                                *)

(* ril_gprs_connection_find_contextId: the first match of the list.        *)
With(context) == {c \in used : conn[c].context = context}
Find(context) == {c \in With(context) : conn[c].ahead \cap With(context) = {}}

(* The cid ril_gprs_connection_start takes: the lowest unused one.         *)
FreeCid == {c \in Cid \ used : \A d \in Cid \ used : c <= d}

(* The token of connection c, if it holds one.                             *)
Held(c) == {conn[c].token} \ {NoToken}

(* ril_gprs_connection_stop: c leaves the list.                            *)
Unlist(c) ==
  /\ used' = used \ {c}
  /\ conn' = [d \in Cid |-> IF d = c THEN NoConnection
                            ELSE [conn[d] EXCEPT !.ahead = @ \ {c}]]

UnchangedList == UNCHANGED <<used, conn, lastFailed>>

-----------------------------------------------------------------------------
(* Commands to the modem.                                                  *)

Send(op, context) == cmds' = Append(cmds, [op |-> op, context |-> context])

StopSent(context) == \E i \in DOMAIN cmds : cmds[i] = [op |-> "STOP", context |-> context]

Room(n) == Len(cmds) + attempts + n <= MaxCmds

-----------------------------------------------------------------------------
(* Requests of the framework.                                              *)

Reply(t) ==
  /\ Answer({t}, {t})
  /\ UNCHANGED <<used, conn, cmds, attempts, up>>

(* No cid, no interface, no data or an unknown connection type fail the    *)
(* request; else the new connection holds its token.                       *)
SetupDataCall(t) ==
  \/ Reply(t) /\ UNCHANGED <<lastFailed, crossed>>
  \/ \E c \in FreeCid :
       /\ Room(1)
       /\ used' = used \cup {c}
       /\ conn' = [conn EXCEPT ![c] =
             [context |-> Starting, token |-> t, active |-> 0, failed |-> FALSE,
              ahead |-> used]]
       /\ Send("START", Starting)
       /\ Answer({t}, {})
       /\ crossed' = (crossed \/ With(Starting) # {} \/ lastFailed # 0)
       /\ UNCHANGED <<lastFailed, attempts, up>>

(* Mutant: the context is not stopped.                                     *)
DeactivateUnsent(t, c) ==
  \/ c \notin used /\ Reply(t) /\ UNCHANGED <<lastFailed, crossed>>
  \/ /\ c \in used
     /\ conn' = [conn EXCEPT ![c].token = t]
     /\ Answer({t}, {})
     /\ crossed' = (crossed \/ Held(c) # {} \/ conn[c].context = Starting
                            \/ StopSent(conn[c].context))
     /\ UNCHANGED <<used, lastFailed, cmds, attempts, up>>

(* The token replaces the one the connection holds, if any.                *)
DeactivateDataCall(t, c) ==
  \/ c \notin used /\ Reply(t) /\ UNCHANGED <<lastFailed, crossed>>
  \/ /\ c \in used
     /\ Room(1)
     /\ conn' = [conn EXCEPT ![c].token = t]
     /\ Send("STOP", conn[c].context)
     /\ Answer({t}, {})
     /\ crossed' = (crossed \/ Held(c) # {} \/ conn[c].context = Starting
                            \/ StopSent(conn[c].context))
     /\ UNCHANGED <<used, lastFailed, attempts, up>>

(* The connection that failed last is taken off the list, token and all.   *)
LastDataCallFailCause(t) ==
  \/ /\ lastFailed \notin used
     /\ Reply(t)
     /\ lastFailed' = 0
     /\ UNCHANGED crossed
  \/ /\ lastFailed \in used
     /\ Unlist(lastFailed)
     /\ lastFailed' = 0
     /\ Answer({t}, {t})
     /\ UNCHANGED <<cmds, attempts, up, crossed>>

-----------------------------------------------------------------------------
(* Indications of the modem.                                               *)

NoEffect == UnchangedList /\ UNCHANGED <<cmds, pending, stray>>

(* The connection fails: its token is completed, even if it holds none.    *)
Fail(c, context, active) ==
  /\ conn' = [conn EXCEPT ![c].context = context, ![c].failed = TRUE,
                          ![c].token = NoToken, ![c].active = active]
  /\ lastFailed' = c
  /\ Answer({}, {conn[c].token})
  /\ UNCHANGED used

StartingNetworkInd ==
  \/ Find(Starting) = {} /\ NoEffect
  \/ \E c \in Find(Starting) : Fail(c, Starting, conn[c].active) /\ UNCHANGED cmds

(* A connection that fails after the modem said ok is still marked up.     *)
ActiveAfter(c, ok) == IF ok THEN 2 ELSE conn[c].active

(* Mutant: the context of a set-up that failed is not stopped.             *)
StartNetworkCnfNoStop(context, ok) ==
  \/ Find(Starting) = {} /\ NoEffect
  \/ \E c \in Find(Starting) :
       \/ Fail(c, context, ActiveAfter(c, ok)) /\ UNCHANGED cmds
       \/ /\ ok
          /\ conn' = [conn EXCEPT ![c].context = context, ![c].active = 2,
                                  ![c].token = NoToken]
          /\ Answer({}, {conn[c].token})
          /\ UNCHANGED <<used, lastFailed, cmds>>

(* Mutant: the token is left in the connection.                            *)
StartNetworkCnfUncleared(context, ok) ==
  \/ Find(Starting) = {} /\ NoEffect
  \/ \E c \in Find(Starting) :
       \/ Fail(c, context, ActiveAfter(c, ok)) /\ Send("STOP", context)
       \/ /\ ok
          /\ conn' = [conn EXCEPT ![c].context = context, ![c].active = 2]
          /\ Answer({}, {conn[c].token})
          /\ UNCHANGED <<used, lastFailed, cmds>>

(* The set-up succeeds only if the modem says so, the tunnel thread starts *)
(* and the interface can be configured; the two last may each fail.        *)
StartNetworkCnf(context, ok) ==
  \/ Find(Starting) = {} /\ NoEffect
  \/ \E c \in Find(Starting) :
       \/ Fail(c, context, ActiveAfter(c, ok)) /\ Send("STOP", context)
       \/ /\ ok
          /\ conn' = [conn EXCEPT ![c].context = context, ![c].active = 2,
                                  ![c].token = NoToken]
          /\ Answer({}, {conn[c].token})
          /\ UNCHANGED <<used, lastFailed, cmds>>

(* Mutant: the token is not completed.                                     *)
StopNetworkSilent(context) ==
  \/ Find(context) = {} /\ UnchangedList /\ UNCHANGED requestVars
  \/ \E c \in Find(context) : Unlist(c) /\ UNCHANGED <<lastFailed, pending, stray>>

(* ipc_proto_stop_network_cnf and ipc_proto_stop_network_ind.              *)
StopNetwork(context) ==
  \/ Find(context) = {} /\ UnchangedList /\ UNCHANGED requestVars
  \/ \E c \in Find(context) :
       /\ Unlist(c)
       /\ Answer({}, Held(c))
       /\ UNCHANGED lastFailed

(* ipc_proto_suspend_network_ind and ipc_proto_resume_network_ind.         *)
SetActive(context, active) ==
  /\ Find(context) # {}
  /\ \E c \in Find(context) : conn' = [conn EXCEPT ![c].active = active]
  /\ UNCHANGED <<used, lastFailed, cmds, attempts, up, crossed, pending, stray>>

-----------------------------------------------------------------------------
(* The modem (not part of this repository).                                *)

Take(op) == cmds # <<>> /\ Head(cmds).op = op /\ cmds' = Tail(cmds)

ModemStart ==
  /\ Take("START")
  /\ attempts' = attempts + 1
  /\ UnchangedList
  /\ UNCHANGED <<up, crossed, pending, stray>>

(* An attempt ends: the network refuses it, or it gets a context.          *)
ModemRefused ==
  /\ attempts > 0
  /\ attempts' = attempts - 1
  /\ StartingNetworkInd
  /\ UNCHANGED <<up, crossed>>

ModemStarted ==
  /\ attempts > 0
  /\ attempts' = attempts - 1
  /\ \E c \in ContextId \ up, ok \in BOOLEAN :
       /\ up' = up \cup {c}
       /\ StartNetworkCnf(c, ok)
  /\ UNCHANGED crossed

(* Every STOP is confirmed, with the context it names.                     *)
ModemStop ==
  /\ Take("STOP")
  /\ up' = up \ {Head(cmds).context}
  /\ StopNetwork(Head(cmds).context)
  /\ UNCHANGED <<attempts, crossed>>

(* The network ends a context, suspends it or resumes it.                  *)
NetStop(c) ==
  /\ c \in up
  /\ up' = up \ {c}
  /\ StopNetwork(c)
  /\ crossed' = (crossed \/ StopSent(c))
  /\ UNCHANGED <<cmds, attempts>>

NetSuspend(c) == c \in up /\ SetActive(c, 1)
NetResume(c)  == c \in up /\ SetActive(c, 2)

-----------------------------------------------------------------------------
Request(t) ==
  \/ SetupDataCall(t)
  \/ \E c \in Cid : DeactivateDataCall(t, c)
  \/ LastDataCallFailCause(t)

ModemStep == ModemStart \/ ModemRefused \/ ModemStarted \/ ModemStop

NetStep(c) == NetStop(c) \/ NetSuspend(c) \/ NetResume(c)

Next ==
  \/ \E t \in Token : Idle(t) /\ Request(t)
  \/ ModemStep
  \/ \E c \in ContextId : NetStep(c)

Spec == Init /\ [][Next]_vars

(* The modem serves its commands and concludes what it has started.        *)
FairSpec ==
  /\ Spec
  /\ WF_vars(ModemStart \/ ModemStop)
  /\ WF_vars(ModemRefused \/ ModemStarted)

-----------------------------------------------------------------------------
(* Safety.                                                                 *)

(* A request is held by one connection, and the framework waits for it.    *)
TokensHeld ==
  \A c, d \in used :
    /\ Held(c) \subseteq pending
    /\ Held(c) \cap Held(d) # {} => c = d

(* A context belongs to one connection, and the modem has it: a STOP or an *)
(* indication never reaches the wrong connection.                          *)
ContextsDistinct ==
  \A c, d \in used :
    conn[c].context \in ContextId =>
      /\ conn[c].context \in up
      /\ conn[c].context = conn[d].context => c = d

(* Unless the framework or the network got ahead, each context of the      *)
(* modem has a connection or is being stopped: no context is left up that  *)
(* nothing can take down.                                                  *)
NoOrphan ==
  ~crossed => \A x \in up : With(x) # {} \/ StopSent(x)

(* Nor is a request kept by a connection the modem owes nothing.           *)
TokenBacked ==
  ~crossed => \A c \in used :
    conn[c].token # NoToken =>
      IF conn[c].context = Starting
      THEN attempts > 0 \/ \E i \in DOMAIN cmds : cmds[i].op = "START"
      ELSE StopSent(conn[c].context)

(* Nor is a token completed twice, or RIL_TOKEN_NULL.                      *)
NoStray == ~crossed => ~stray

(* "No GPRS connection was reported to have failed" (gprs.c:628) is the    *)
(* answer when gprs_last_failed_cid names none: the connection it names is *)
(* one that failed.  A cid that is used again breaks this.                 *)
FailedCid == lastFailed \in used => conn[lastFailed].failed

-----------------------------------------------------------------------------
(* Liveness.                                                               *)

Stored == UNION {Held(c) : c \in used}

(* Unless the framework or the network got ahead, a request that is kept   *)
(* is completed: no deactivation, failure or stop of the network takes it  *)
(* out of the list without, and the modem always owes it an answer.        *)
Answered == AnyToken \in Stored ~> (AnyToken \notin pending \/ crossed)
=============================================================================
