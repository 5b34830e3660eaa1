------------------------------ MODULE RilClient ------------------------------
(***************************************************************************)
(* The client of the modem and the threads that share it (RIL_Init and     *)
(* ril_on_request in mocha-ril/mocha-ril.c, client.c, ipc.c, and the       *)
(* client objects of mocha-ipc/ipc.c).                                     *)
(*                                                                         *)
(* The reader is a thread of its own: it receives a frame with the mutex   *)
(* of the client, dispatches it with RIL_LOCK, and after an error frees    *)
(* the inner object and creates another.  The others, the thread that      *)
(* starts the library and then brings the requests, and the thread of the  *)
(* local server, hold RIL_LOCK while a handler runs, and send with the     *)
(* mutex of the client, through a pointer they read before they have it.   *)
(*                                                                         *)
(* Handlers are reduced to what the client sees of them: one packet sent   *)
(* or none, a token completed or kept.                                     *)
(***************************************************************************)
EXTENDS Integers, RilRequests

CONSTANTS
  Loops,    (* how often the reader starts its loop, 5 in the code         *)
  Tries     (* how often a creation is tried, 5 in the code                *)

ASSUME ClientAssumption == Loops \in Nat \ {0} /\ Tries \in Nat \ {0}

VARIABLES
  ril,      (* who has RIL_LOCK                                            *)
  mutex,    (* who has the mutex of the client                             *)
  init,     (* the progress of RIL_Init                                    *)
  pub,      (* ril_data.ipc_packet_client is set                           *)
  state,    (* client->state, "FREED" once the client is                   *)
  obj,      (* client->data, the number of the inner object                *)
  inner,    (* what the inner object holds: "open" client and descriptor,  *)
            (* a client that is not open, or "none"                        *)
  live,     (* the inner objects that are allocated                        *)
  reader,   (* the step of ril_client_thread and ipc_read_loop             *)
  loops,    (* c of ril_client_thread                                      *)
  tries,    (* c of ril_client_create                                      *)
  pc,       (* the step of each of the other threads                       *)
  ptr,      (* the object whose ipc_client a thread sends with             *)
  token,    (* the token of the request that runs                          *)
  kept,     (* the tokens handlers keep for an answer of the modem         *)
  unready,  (* history: a request came while the client was not READY      *)
  failed,   (* history: a try of a creation failed                         *)
  excused,  (* history: the threads whose handler began before the client  *)
            (* was ready, or saw the reader destroy it                     *)
  hurt,     (* history: who used or freed an object that was not live      *)
  early     (* history: a frame was handled before RIL_Init had ended      *)

lockVars == <<ril, mutex>>
clientVars == <<state, obj, inner, live>>
readerVars == <<reader, loops, tries>>
threadVars == <<pc, ptr, token>>
history == <<unready, failed, excused, hurt, early>>
vars == <<lockVars, init, pub, clientVars, readerVars, threadVars, kept,
          requestVars, history>>

Thread == {"rild", "srs"}
Nobody == "nobody"
Object == 0 .. Tries * (Loops + 1)

(* A client whose device is open and on, one whose device failed, no one.  *)
Outcome == {"open", "closed", "none"}

TypeOK ==
  /\ {ril, mutex} \subseteq Thread \cup {"reader", Nobody}
  /\ init \in {"start", "create", "thread", "publish", "end", "done"}
  /\ pub \in BOOLEAN
  /\ state \in {"NEW", "CREATED", "READY", "ERROR", "DESTROYED", "FREED"}
  /\ obj \in Object /\ live \subseteq Object
  /\ inner \in Outcome
  /\ reader \in {"none", "loop", "select", "recv", "frame", "handle", "reply",
                 "sending", "destroy", "create", "last", "free", "ended"}
  /\ loops \in 0 .. Loops /\ tries \in 0 .. Tries
  /\ pc \in [Thread -> {"idle", "handler", "send", "sending", "return"}]
  /\ ptr \in [Thread \cup {"reader"} -> Object]
  /\ token \in Token \cup {NoToken} /\ kept \subseteq Token
  /\ unready \in BOOLEAN /\ failed \in BOOLEAN /\ early \in BOOLEAN
  /\ excused \subseteq Thread /\ hurt \subseteq Thread \cup {"reader"}
  /\ RequestTypeOK

Init ==
  /\ ril = Nobody /\ mutex = Nobody
  /\ init = "start" /\ pub = FALSE
  /\ state = "NEW" /\ obj = 0 /\ inner = "none" /\ live = {}
  /\ reader = "none" /\ loops = Loops /\ tries = Tries
  /\ pc = [s \in Thread |-> "idle"]
  /\ ptr = [s \in Thread \cup {"reader"} |-> 0]
  /\ token = NoToken /\ kept = {}
  /\ unready = FALSE /\ failed = FALSE /\ excused = {} /\ hurt = {} /\ early = FALSE
  /\ RequestInit

-----------------------------------------------------------------------------
(* The inner object.                                                       *)

(* ipc_create, ipc_client_new and the wrappers it calls: data is a new     *)
(* object in any case, also when there is no client for the device or its  *)
(* descriptor cannot be opened.                                            *)
NewObject(holds) ==
  /\ obj' = obj + 1
  /\ live' = live \cup {obj + 1}
  /\ inner' = holds
  /\ failed' = (failed \/ holds # "open")

(* ipc_destroy, without a lock; client->data keeps its value.              *)
FreeObject ==
  /\ live' = live \ {obj}
  /\ hurt' = IF obj \in live THEN hurt ELSE hurt \cup {"reader"}
  /\ excused' = excused \cup {s \in Thread : pc[s] # "idle"}

(* A thread sends with a pointer it has read: ipc_client_send.             *)
Usable(o) == o \in live /\ (o = obj => inner # "none")

-----------------------------------------------------------------------------
(* RIL_Init, called by the thread that later brings the requests.          *)

(* Mutant: RIL_LOCK is not taken.                                          *)
InitBeginUnlocked ==
  /\ init = "start"
  /\ init' = "create"
  /\ UNCHANGED <<lockVars, pub, clientVars, readerVars, threadVars, kept, requestVars, history>>

(* ril_data_init, ipc_init, the callbacks, ril_client_new.                 *)
InitBegin ==
  /\ init = "start" /\ ril = Nobody
  /\ ril' = "rild"
  /\ init' = "create"
  /\ UNCHANGED <<mutex, pub, clientVars, readerVars, threadVars, kept, requestVars, history>>

(* One try of ril_client_create; the last failure leaves no client.        *)
InitCreate(holds) ==
  /\ init = "create"
  /\ NewObject(holds)
  /\ IF holds = "open"
     THEN init' = "thread" /\ state' = "CREATED" /\ tries' = Tries
     ELSE IF tries = 1
          THEN init' = "end" /\ state' = "ERROR" /\ tries' = Tries
          ELSE tries' = tries - 1 /\ UNCHANGED <<init, state>>
  /\ UNCHANGED <<lockVars, pub, reader, loops, threadVars, kept, requestVars, unready, excused, hurt, early>>

(* ril_client_thread_start: the reader runs before it is known.            *)
InitThread ==
  /\ init = "thread"
  /\ \/ init' = "publish" /\ reader' = "loop"
     \/ init' = "end" /\ UNCHANGED reader
  /\ UNCHANGED <<lockVars, pub, clientVars, loops, tries, threadVars, kept, requestVars, history>>

InitPublish ==
  /\ init = "publish"
  /\ init' = "end"
  /\ pub' = TRUE
  /\ UNCHANGED <<lockVars, clientVars, readerVars, threadVars, kept, requestVars, history>>

(* The local server is started, the radio and the power are set to OFF.    *)
InitEnd ==
  /\ init = "end"
  /\ init' = "done"
  /\ ril' = IF ril = "rild" THEN Nobody ELSE ril
  /\ UNCHANGED <<mutex, pub, clientVars, readerVars, threadVars, kept, requestVars, history>>

RilInit ==
  \/ InitBegin
  \/ \E holds \in Outcome : InitCreate(holds)
  \/ InitThread \/ InitPublish \/ InitEnd

-----------------------------------------------------------------------------
(* The reader.                                                             *)

(* A turn of ril_client_thread: READY, then ipc_read_loop, which gives up  *)
(* at once without a descriptor.                                           *)
Loop ==
  /\ reader = "loop"
  /\ IF loops = 0
     THEN reader' = "last" /\ UNCHANGED state
     ELSE state' = "READY" /\ reader' = "select"
  /\ UNCHANGED <<lockVars, init, pub, obj, inner, live, loops, tries, threadVars, kept, requestVars, history>>

(* select returns and the mutex is taken.                                  *)
Select ==
  /\ reader = "select" /\ inner = "open" /\ mutex = Nobody
  /\ mutex' = "reader"
  /\ reader' = "recv"
  /\ UNCHANGED <<ril, init, pub, clientVars, loops, tries, threadVars, kept, requestVars, history>>

(* ipc_client_recv gives a frame.                                          *)
Recv ==
  /\ reader = "recv"
  /\ reader' = "frame"
  /\ mutex' = Nobody
  /\ UNCHANGED <<ril, init, pub, clientVars, loops, tries, threadVars, kept, requestVars, history>>

(* It fails, or there is no descriptor: the read loop returns -1.          *)
ReadError ==
  /\ \/ reader = "recv" /\ mutex' = Nobody
     \/ reader = "select" /\ inner # "open" /\ UNCHANGED mutex
  /\ state' = "ERROR"
  /\ reader' = "destroy"
  /\ UNCHANGED <<ril, init, pub, obj, inner, live, loops, tries, threadVars, kept, requestVars, history>>


(* ipc_dispatch, with RIL_LOCK.                                            *)
Dispatch ==
  /\ reader = "frame" /\ ril = Nobody
  /\ ril' = "reader"
  /\ reader' = "handle"
  /\ early' = (early \/ init # "done")
  /\ UNCHANGED <<mutex, init, pub, clientVars, loops, tries, threadVars, kept, requestVars,
                 unready, failed, excused, hurt>>

(* The handler completes one of the tokens that are kept, or none, and     *)
(* returns or answers the modem; ipc_send gives up when there is no client.*)
Handle(done) ==
  /\ reader = "handle"
  /\ Answer({}, done)
  /\ kept' = kept \ done
  /\ \/ reader' = "select" /\ ril' = Nobody /\ UNCHANGED ptr
     \/ pub /\ reader' = "reply" /\ ptr' = [ptr EXCEPT !["reader"] = obj] /\ UNCHANGED ril
  /\ UNCHANGED <<mutex, init, pub, clientVars, loops, tries, pc, token, history>>

Reply ==
  /\ reader = "reply" /\ mutex = Nobody
  /\ mutex' = "reader"
  /\ reader' = "sending"
  /\ UNCHANGED <<ril, init, pub, clientVars, loops, tries, threadVars, kept, requestVars, history>>

Replied ==
  /\ reader = "sending"
  /\ hurt' = IF Usable(ptr["reader"]) THEN hurt ELSE hurt \cup {"reader"}
  /\ mutex' = Nobody /\ ril' = Nobody
  /\ reader' = "select"
  /\ ptr' = [ptr EXCEPT !["reader"] = 0]
  /\ UNCHANGED <<init, pub, clientVars, loops, tries, pc, token, kept, requestVars,
                 unready, failed, excused, early>>

(* ril_client_destroy; ipc_destroy never fails.                            *)
Destroy ==
  /\ reader = "destroy"
  /\ FreeObject
  /\ state' = "DESTROYED"
  /\ reader' = "create"
  /\ UNCHANGED <<lockVars, init, pub, obj, inner, loops, tries, threadVars, kept, requestVars,
                 unready, failed, early>>

(* Mutant: the object is not created again.                                *)
CreateSkipped(holds) ==
  /\ reader = "create"
  /\ reader' = "loop" /\ loops' = loops - 1
  /\ UNCHANGED <<lockVars, init, pub, clientVars, tries, threadVars, kept, requestVars, history>>

(* One try of ril_client_create; its result is not looked at.              *)
Create(holds) ==
  /\ reader = "create"
  /\ NewObject(holds)
  /\ IF holds = "open" \/ tries = 1
     THEN /\ state' = IF holds = "open" THEN "CREATED" ELSE "ERROR"
          /\ reader' = "loop" /\ loops' = loops - 1 /\ tries' = Tries
     ELSE tries' = tries - 1 /\ UNCHANGED <<state, reader, loops>>
  /\ UNCHANGED <<lockVars, init, pub, threadVars, kept, requestVars, unready, excused, hurt, early>>

(* After the last turn.                                                    *)
DestroyLast ==
  /\ reader = "last"
  /\ FreeObject
  /\ state' = "DESTROYED"
  /\ reader' = "free"
  /\ UNCHANGED <<lockVars, init, pub, obj, inner, loops, tries, threadVars, kept, requestVars,
                 unready, failed, early>>

(* ril_client_free: ril_data still points to the client.                   *)
ClientFree ==
  /\ reader = "free"
  /\ state' = "FREED"
  /\ reader' = "ended"
  /\ UNCHANGED <<lockVars, init, pub, obj, inner, live, loops, tries, threadVars, kept, requestVars, history>>

Reader ==
  \/ Loop \/ Select \/ Recv \/ ReadError \/ Dispatch
  \/ \E done \in {{}} \cup {{t} : t \in kept} : Handle(done)
  \/ Reply \/ Replied \/ Destroy
  \/ \E holds \in Outcome : Create(holds)
  \/ DestroyLast \/ ClientFree

-----------------------------------------------------------------------------
(* The other threads.                                                      *)

(* ril_modem_check; the state of a client that is freed can be anything.   *)
Ready == pub /\ state \in {"READY", "FREED"}

(* Mutant: a request is completed before it is handled in any case.        *)
RequestUnchecked(t) ==
  /\ init = "done" /\ pc["rild"] = "idle" /\ ril = Nobody
  /\ ril' = "rild"
  /\ pc' = [pc EXCEPT !["rild"] = "handler"]
  /\ token' = t
  /\ Answer({t}, {t})
  /\ unready' = (unready \/ ~pub)
  /\ UNCHANGED <<mutex, init, pub, clientVars, readerVars, ptr, kept, failed, excused, hurt, early>>

(* ril_on_request: without a modem the request is completed, and then      *)
(* handled all the same.                                                   *)
Request(t) ==
  /\ init = "done" /\ pc["rild"] = "idle" /\ ril = Nobody
  /\ ril' = "rild"
  /\ pc' = [pc EXCEPT !["rild"] = "handler"]
  /\ token' = t
  /\ \E ready \in IF state = "FREED" THEN BOOLEAN ELSE {Ready} :
       /\ Answer({t}, IF ready THEN {} ELSE {t})
       /\ unready' = (unready \/ ~ready)
       /\ excused' = IF ready /\ state # "FREED" THEN excused ELSE excused \cup {"rild"}
  /\ UNCHANGED <<mutex, init, pub, clientVars, readerVars, ptr, kept, failed, hurt, early>>

(* srs_dispatch: a message of a local client, with no test of the modem.   *)
SrsDispatch ==
  /\ init = "done" /\ pc["srs"] = "idle" /\ ril = Nobody
  /\ ril' = "srs"
  /\ pc' = [pc EXCEPT !["srs"] = "handler"]
  /\ excused' = IF pub /\ state = "READY" THEN excused ELSE excused \cup {"srs"}
  /\ UNCHANGED <<mutex, init, pub, clientVars, readerVars, ptr, token, kept, requestVars,
                 unready, failed, hurt, early>>

(* A request answered without the modem.                                   *)
ReplyAtOnce ==
  /\ pc["rild"] = "handler"
  /\ Answer({}, {token})
  /\ pc' = [pc EXCEPT !["rild"] = "return"]
  /\ UNCHANGED <<lockVars, init, pub, clientVars, readerVars, ptr, token, kept, history>>

(* ipc_send, ipc_modem_io: the pointer is read.                            *)
SendBegin(s) ==
  /\ pc[s] = "handler"
  /\ kept' = IF s = "rild" THEN kept \cup {token} ELSE kept
  /\ IF pub
     THEN pc' = [pc EXCEPT ![s] = "send"] /\ ptr' = [ptr EXCEPT ![s] = obj]
     ELSE pc' = [pc EXCEPT ![s] = "return"] /\ UNCHANGED ptr
  /\ UNCHANGED <<lockVars, init, pub, clientVars, readerVars, token, requestVars, history>>

SendLock(s) ==
  /\ pc[s] = "send" /\ mutex = Nobody
  /\ mutex' = s
  /\ pc' = [pc EXCEPT ![s] = "sending"]
  /\ UNCHANGED <<ril, init, pub, clientVars, readerVars, ptr, token, kept, requestVars, history>>

SendEnd(s) ==
  /\ pc[s] = "sending"
  /\ hurt' = IF Usable(ptr[s]) \/ s \in excused THEN hurt ELSE hurt \cup {s}
  /\ mutex' = Nobody
  /\ pc' = [pc EXCEPT ![s] = "return"]
  /\ UNCHANGED <<ril, init, pub, clientVars, readerVars, ptr, token, kept, requestVars,
                 unready, failed, excused, early>>

Return(s) ==
  /\ pc[s] = "return"
  /\ ril' = Nobody
  /\ pc' = [pc EXCEPT ![s] = "idle"]
  /\ token' = IF s = "rild" THEN NoToken ELSE token
  /\ ptr' = [ptr EXCEPT ![s] = 0]
  /\ excused' = excused \ {s}
  /\ UNCHANGED <<mutex, init, pub, clientVars, readerVars, kept, requestVars,
                 unready, failed, hurt, early>>

Handler(s) ==
  \/ s = "rild" /\ ReplyAtOnce
  \/ SendBegin(s) \/ SendLock(s) \/ SendEnd(s) \/ Return(s)

Next ==
  \/ RilInit
  \/ Reader
  \/ \E t \in Token : Idle(t) /\ Request(t)
  \/ SrsDispatch
  \/ \E s \in Thread : Handler(s)

Spec == Init /\ [][Next]_vars

(* The threads run.                                                        *)
FairSpec == Spec /\ WF_vars(Reader) /\ \A s \in Thread : WF_vars(Handler(s))

-----------------------------------------------------------------------------
(* Safety.                                                                 *)

(* ipc_send, ipc_destroy, ril_client_thread: the reader frees an object    *)
(* once and keeps no other, unless the creation of one failed; neither its *)
(* own handlers use one that is not there, nor those of a thread that      *)
(* began when the client was READY and is through before the reader sees   *)
(* an error, although none of them holds the mutex when it reads the       *)
(* pointer.  (READY says nothing after a creation that failed.)            *)
Lifetimes ==
  /\ "reader" \notin hurt
  /\ ~failed => hurt = {} /\ live \subseteq {obj}

(* RIL_Init: the reader runs before the client is known and before power   *)
(* and radio get their first values, but no frame is handled until then:   *)
(* an answer of the library always finds its way.                          *)
InitFirst == ~early /\ (reader \in {"handle", "reply", "sending"} => pub)

(* ril_on_request: a request is completed once, by its handler or by the   *)
(* frame that answers it, as long as none came while the client was not    *)
(* READY; such a request is completed and handled, so completed twice.     *)
CompletedOnce == ~unready => ~stray /\ kept \subseteq pending

-----------------------------------------------------------------------------
=============================================================================
