------------------------------ MODULE RilSimIo ------------------------------
(***************************************************************************)
(* SIM file access (mocha-ril/sim.c, mocha-ipc/sim.c).  The requests are   *)
(* listed in ril_data.sim_io; the first of them is with the modem and its  *)
(* token is in ril_data.tokens.sim_io.  Until the library has read the     *)
(* SMSC number from the SIM that token is RIL_TOKEN_DATA_WAITING and       *)
(* nothing is sent.                                                        *)
(*                                                                         *)
(* The library reads the number itself, from file 0x6f42: the event parser *)
(* keeps the answers about that file from the handler of SIM I/O, also     *)
(* when it was the framework that asked.  File contents, status words and  *)
(* the strings of a request are left out; the request that fails at once,  *)
(* for its strings or its pin2, is a free choice.                          *)
(***************************************************************************)
EXTENDS Integers, SequencesExt, RilRequests

CONSTANTS
  DataWaiting, (* RIL_TOKEN_DATA_WAITING                                   *)
  MaxCmds      (* bound on the commands the modem has not answered         *)

ASSUME SimIoAssumption ==
  /\ DataWaiting \notin Token \cup {NoToken}
  /\ MaxCmds \in Nat \ {0}

VARIABLES
  queue,    (* ril_data.sim_io                                             *)
  current,  (* ril_data.tokens.sim_io                                      *)
  smsc,     (* the SMSC number is known                                    *)
  cmds      (* the SIM commands the modem has not answered                 *)

vars == <<queue, current, smsc, cmds, pending, stray>>

(* "update" is also SEEK, whose answer is treated alike; "other" is every  *)
(* command ril_request_sim_io_complete does not know.                      *)
Op == {"info", "read", "update", "other"}
File == {"smsp", "plain"}

(* What the framework asks of the SIM, and what the library asks itself.   *)
Access == [op : Op, file : File, token : Token]
SmscAccess == [op : {"info", "read"}, file : {"smsp"}, token : {NoToken}]

SmscAsk(op) == [op |-> op, file |-> "smsp", token |-> NoToken]

TypeOK ==
  /\ queue \in Seq(Access)
  /\ current \in Token \cup {NoToken, DataWaiting}
  /\ smsc \in BOOLEAN
  /\ cmds \in Seq(Access \cup SmscAccess)
  /\ RequestTypeOK

Init ==
  /\ queue = <<>>
  /\ current = NoToken
  /\ smsc = FALSE
  /\ cmds = <<>>
  /\ RequestInit

-----------------------------------------------------------------------------
(* ril_request_sim_io_complete: what the modem is sent for a request.      *)
Issue(r) == IF r.op = "other" THEN <<>> ELSE <<r>>

(* ril_request_sim_io_next, once the list is `list' and the modem still    *)
(* has to answer `out'.                                                    *)
SimIoNext(list, out) ==
  /\ queue' = list
  /\ \/ /\ list = <<>>
        /\ current' = NoToken
        /\ cmds' = out
     \/ /\ list # <<>>
        /\ current' = Head(list).token
        /\ cmds' = out \o Issue(Head(list))

(* Mutant: a request is put at the front of the list.                      *)
SimIoFirst(r) ==
  /\ queue' = <<r>> \o queue
  /\ \/ /\ current # NoToken
        /\ UNCHANGED <<current, cmds>>
     \/ /\ current = NoToken
        /\ current' = IF smsc THEN r.token ELSE DataWaiting
        /\ cmds' = IF smsc THEN cmds \o Issue(r) ELSE cmds
  /\ Answer({r.token}, {})
  /\ UNCHANGED smsc

(* ril_request_sim_io and ril_request_sim_io_register, and the exit taken  *)
(* when the request cannot be sent.                                        *)
SimIo(r) ==
  /\ queue' = Append(queue, r)
  /\ \/ /\ current # NoToken
        /\ UNCHANGED <<current, cmds>>
     \/ /\ current = NoToken /\ ~smsc
        /\ current' = DataWaiting
        /\ UNCHANGED cmds
     \/ /\ current = NoToken /\ smsc
        /\ current' = r.token
        /\ cmds' = cmds \o Issue(r)
  /\ Answer({r.token}, {})
  /\ UNCHANGED smsc

SimIoError(t) ==
  /\ Answer({t}, {t})
  /\ UNCHANGED <<queue, current, smsc, cmds>>

(* ipc_sim_status with SIM_STATE_READY: the library asks for the SMSC file *)
(* each time, until it knows the number.                                   *)
SimReady ==
  /\ ~smsc
  /\ Len(cmds) < MaxCmds
  /\ cmds' = Append(cmds, SmscAsk("info"))
  /\ UNCHANGED <<queue, current, smsc, pending, stray>>

-----------------------------------------------------------------------------
(* The answers of the modem, in the order of the commands.                 *)

(* sim_parse_event: who is told of the answer to c.                        *)
ForSmsc(c) == c.file = "smsp" /\ c.op \in {"info", "read"}

(* SIM_EVENT_FILE_INFO of the SMSC file: its first record is read.         *)
SmscInfo ==
  /\ cmds # <<>> /\ ForSmsc(Head(cmds)) /\ Head(cmds).op = "info"
  /\ cmds' = Append(Tail(cmds), SmscAsk("read"))
  /\ UNCHANGED <<queue, current, smsc, pending, stray>>

(* Mutants: the number is stored and the requests are not sent; the list   *)
(* is moved on whatever it waits for.                                      *)
SmscNumberOnly ==
  /\ cmds # <<>> /\ ForSmsc(Head(cmds)) /\ Head(cmds).op = "read"
  /\ smsc' = TRUE
  /\ cmds' = Tail(cmds)
  /\ UNCHANGED <<queue, current, pending, stray>>

SmscNumberAlways ==
  /\ cmds # <<>> /\ ForSmsc(Head(cmds)) /\ Head(cmds).op = "read"
  /\ smsc' = TRUE
  /\ SimIoNext(queue, Tail(cmds))
  /\ UNCHANGED <<pending, stray>>

(* ipc_sim_smsc_number: a number that is known is not read again.          *)
SmscNumber ==
  /\ cmds # <<>> /\ ForSmsc(Head(cmds)) /\ Head(cmds).op = "read"
  /\ smsc' = TRUE
  /\ IF ~smsc /\ current = DataWaiting
     THEN SimIoNext(queue, Tail(cmds))
     ELSE cmds' = Tail(cmds) /\ UNCHANGED <<queue, current>>
  /\ UNCHANGED <<pending, stray>>

(* ril_request_sim_io_unregister of ril_request_sim_io_info_find_token.    *)
Unregister(list, t) == RemoveFirstMatch(list, LAMBDA r : r.token = t)

(* Mutants: the request stays listed; its token is not completed.          *)
SimIoResponseListed ==
  /\ cmds # <<>> /\ ~ForSmsc(Head(cmds))
  /\ Answer({}, {current})
  /\ SimIoNext(queue, Tail(cmds))
  /\ UNCHANGED smsc

SimIoResponseSilent ==
  /\ cmds # <<>> /\ ~ForSmsc(Head(cmds))
  /\ UNCHANGED <<pending, stray>>
  /\ SimIoNext(Unregister(queue, current), Tail(cmds))
  /\ UNCHANGED smsc

(* ipc_sim_io_response: the request whose token is current is completed    *)
(* and leaves the list; without one the list is moved on all the same.     *)
SimIoResponse ==
  /\ cmds # <<>> /\ ~ForSmsc(Head(cmds))
  /\ Answer({}, {queue[i].token : i \in DOMAIN queue} \cap {current})
  /\ SimIoNext(Unregister(queue, current), Tail(cmds))
  /\ UNCHANGED smsc

Modem == SmscInfo \/ SmscNumber \/ SimIoResponse

Next ==
  \/ \E r \in Access : Idle(r.token) /\ SimIo(r)
  \/ \E t \in Token : Idle(t) /\ SimIoError(t)
  \/ SimReady
  \/ Modem

Spec == Init /\ [][Next]_vars

(* The modem answers every command it was sent.                            *)
FairSpec == Spec /\ WF_vars(Modem)

-----------------------------------------------------------------------------
(* Safety.                                                                 *)

(* sim.c:248, 685-692: the listed requests are those the framework waits   *)
(* for, each listed once, and the token of the first is current: a request *)
(* is neither lost from the list nor answered from behind another.         *)
FirstIsCurrent ==
  /\ pending = {queue[i].token : i \in DOMAIN queue}
  /\ \A i, j \in DOMAIN queue : queue[i].token = queue[j].token => i = j
  /\ current \in Token => queue # <<>> /\ current = Head(queue).token

(* A request waits only behind one that is with the modem, or for the SMSC *)
(* number, and for that only while it is unknown.                          *)
WaitsForReason ==
  /\ queue # <<>> => current # NoToken
  /\ current = DataWaiting => ~smsc

(* ipc_sim_io_response looks at the current token only, not at what the    *)
(* answer is about: it is right because no answer to an earlier request    *)
(* can still be under way.                                                 *)
OwnAnswer ==
  /\ \A i \in DOMAIN cmds : ~ForSmsc(cmds[i]) => cmds[i].token = current
  /\ ~stray

(* "Another SIM I/O is being processed, adding to the list" (sim.c:834):   *)
(* while a token is current, the modem has something to answer.  A command *)
(* of an unknown kind and an answer about the SMSC file break this.        *)
BeingProcessed == current \in Token => cmds # <<>>

-----------------------------------------------------------------------------
(* Refinement and liveness.                                                *)

Line == [i \in DOMAIN queue |-> queue[i].token]

Requests == INSTANCE RequestLine WITH Request <- Token, line <- Line

(* sim.c: the requests are worked on in the order they came in, none is    *)
(* overtaken, through the wait for the SMSC number as well.                *)
InOrder == Requests!Spec

(* The requests that stop the list: the modem is not asked, or its answer  *)
(* goes elsewhere; and the SIM is not ready, so the number is not asked    *)
(* for.                                                                    *)
Stopped ==
  \/ current \in Token /\ (Head(queue).op = "other" \/ ForSmsc(Head(queue)))
  \/ current = DataWaiting /\ cmds = <<>>

(* ril_request_sim_io: every request is answered, unless the list stops.   *)
Answered == \A t \in Token : t \in pending ~> (t \notin pending \/ Stopped)
=============================================================================
