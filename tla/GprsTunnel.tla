----------------------------- MODULE GprsTunnel -----------------------------
(***************************************************************************)
(* The tunnel threads of the data connections (mocha-ril/gprs.c).  Each    *)
(* connection has a thread that carries frames from its interface to the   *)
(* modem.  It holds the connection's mutex while it looks for a frame and  *)
(* takes RIL_LOCK to send one.  A handler, which runs under RIL_LOCK,      *)
(* stops the thread by setting thread_state and then passing through the   *)
(* mutex, after which it sets the connection to zero and frees it.         *)
(*                                                                         *)
(* All handlers are one process here, because RIL_LOCK lets one run at a   *)
(* time.  Unlike in the other modules, what a handler does in between is a *)
(* step of its own.                                                        *)
(*                                                                         *)
(* A connection is a piece of memory, and a thread that has not exited     *)
(* when it is freed works on in it: what it reads there is anything, and   *)
(* it may be a later connection that was given the same memory.            *)
(***************************************************************************)
EXTENDS Integers, FiniteSets

CONSTANTS
  Conn,     (* the memory of the connections                               *)
  Thread,   (* the threads                                                 *)
  NoConn,   (* no connection                                               *)
  Nobody    (* the owner of a free lock                                    *)

ASSUME TunnelAssumption ==
  /\ NoConn \notin Conn
  /\ Nobody \notin Thread \cup {"handler"}
  /\ "handler" \notin Thread

VARIABLES
  rilLock,  (* owner of ril_data.mutex                                     *)
  live,     (* the connections there are; the other memory is free         *)
  mutex,    (* gprs_connection->mutex: its owner                           *)
  state,    (* gprs_connection->thread_state                               *)
  thread,   (* where each thread is                                        *)
  on,       (* the memory of the connection it was started for             *)
  handler,  (* where the handler is                                        *)
  at,       (* the connection it works on                                  *)
  haunted   (* history: the memory that was freed before its thread exited *)

connVars == <<live, mutex, state, haunted>>
threadVars == <<thread, on>>
handlerVars == <<handler, at>>
tunnelVars == <<rilLock, connVars, threadVars, handlerVars>>

ThreadPlace == {"none", "lock", "select", "check", "frame", "send", "unlock",
                "exited", "lost"}
HandlerPlace == {"idle", "run", "created", "pass", "passed", "stopped"}

TunnelTypeOK ==
  /\ rilLock \in Thread \cup {Nobody, "handler"}
  /\ live \subseteq Conn /\ haunted \subseteq Conn
  /\ mutex \in [Conn -> Thread \cup {Nobody, "handler"}]
  /\ state \in [Conn -> 0..2]
  /\ thread \in [Thread -> ThreadPlace]
  /\ on \in [Thread -> Conn \cup {NoConn}]
  /\ handler \in HandlerPlace
  /\ at \in Conn \cup {NoConn}

TunnelInit ==
  /\ rilLock = Nobody
  /\ live = {} /\ haunted = {}
  /\ mutex = [c \in Conn |-> Nobody]
  /\ state = [c \in Conn |-> 0]
  /\ thread = [t \in Thread |-> "none"]
  /\ on = [t \in Thread |-> NoConn]
  /\ handler = "idle" /\ at = NoConn

-----------------------------------------------------------------------------
(* gprs_tunneling_thread.                                                  *)

Go(t, from, to) == thread[t] = from /\ thread' = [thread EXCEPT ![t] = to] /\ UNCHANGED on

Looking == {"lock", "select", "check", "frame", "send", "unlock"}
Holding == Looking \ {"lock"}

(* The memory the thread works on is nobody's.                             *)
Astray(t) == on[t] \notin live

(* What it finds in that memory may keep it waiting for ever, or end the   *)
(* process.                                                                *)
Lost(t) ==
  /\ thread[t] \in Looking /\ Astray(t)
  /\ Go(t, thread[t], "lost")
  /\ UNCHANGED <<rilLock, connVars, handlerVars>>

(* A lock of the mutex that was set to zero, or was overwritten, is taken  *)
(* whoever has it.                                                         *)
Lock(t) ==
  /\ Go(t, "lock", "select")
  /\ IF Astray(t)
     THEN UNCHANGED mutex
     ELSE mutex[on[t]] = Nobody /\ mutex' = [mutex EXCEPT ![on[t]] = t]
  /\ UNCHANGED <<rilLock, live, state, haunted, handlerVars>>

(* The mutex is a normal one: it is free after that, whoever had it.       *)
GiveBack(t) ==
  /\ mutex' = IF Astray(t) THEN mutex ELSE [mutex EXCEPT ![on[t]] = Nobody]
  /\ UNCHANGED <<live, state, haunted>>

(* The select ends with a frame to read, or after 300 ms.                  *)
Select(t) ==
  /\ Go(t, "select", "check")
  /\ UNCHANGED <<rilLock, connVars, handlerVars>>

(* Mutant: thread_state is not looked at.                                  *)
CheckNothing(t) ==
  /\ Go(t, "check", "frame") \/ Go(t, "check", "unlock")
  /\ UNCHANGED <<rilLock, connVars, handlerVars>>

(* The thread exits when it finds that it was stopped, else it reads a     *)
(* frame, if any.                                                          *)
Check(t) ==
  /\ thread[t] = "check"
  /\ \/ /\ Astray(t) \/ state[on[t]] = 2
        /\ Go(t, "check", "exited")
        /\ GiveBack(t)
     \/ /\ Astray(t) \/ state[on[t]] # 2
        /\ Go(t, "check", "frame") \/ Go(t, "check", "unlock")
        /\ UNCHANGED connVars
  /\ UNCHANGED <<rilLock, handlerVars>>

TakeRilLock(t) ==
  /\ rilLock = Nobody
  /\ Go(t, "frame", "send")
  /\ rilLock' = t
  /\ UNCHANGED <<connVars, handlerVars>>

(* proto_send_data, then RIL_UNLOCK.                                       *)
SendFrame(t) ==
  /\ Go(t, "send", "unlock")
  /\ rilLock' = Nobody
  /\ UNCHANGED <<connVars, handlerVars>>

Unlock(t) ==
  /\ Go(t, "unlock", "lock")
  /\ GiveBack(t)
  /\ UNCHANGED <<rilLock, handlerVars>>

-----------------------------------------------------------------------------
(* The handlers.                                                           *)

Turn(from, to) == handler = from /\ handler' = to

Enter ==
  /\ rilLock = Nobody
  /\ Turn("idle", "run")
  /\ rilLock' = "handler"
  /\ UNCHANGED <<connVars, threadVars, at>>

(* ril_gprs_connection_register: the memory is any that is free.           *)
Register(c) ==
  /\ c \notin live
  /\ Turn("run", "run")
  /\ live' = live \cup {c}
  /\ mutex' = [mutex EXCEPT ![c] = Nobody]
  /\ state' = [state EXCEPT ![c] = 0]
  /\ UNCHANGED <<rilLock, threadVars, at, haunted>>

(* gprs_start_tunneling_thread, once for a connection, whose context has a *)
(* name from then on: the thread runs before thread_state is 1.            *)
Create(t, c) ==
  /\ thread[t] = "none" /\ c \in live /\ state[c] = 0
  /\ Turn("run", "created")
  /\ at' = c
  /\ thread' = [thread EXCEPT ![t] = "lock"]
  /\ on' = [on EXCEPT ![t] = c]
  /\ UNCHANGED <<rilLock, connVars>>

Created ==
  /\ Turn("created", "run")
  /\ state' = [state EXCEPT ![at] = 1]
  /\ at' = NoConn
  /\ UNCHANGED <<rilLock, live, mutex, haunted, threadVars>>

(* Mutant: the handler does not pass through the mutex.                    *)
StopUnsynchronised(c) ==
  /\ c \in live
  /\ Turn("run", "stopped")
  /\ at' = c
  /\ state' = [state EXCEPT ![c] = IF @ = 1 THEN 2 ELSE @]
  /\ UNCHANGED <<rilLock, live, mutex, haunted, threadVars>>

(* gprs_stop_tunneling_thread, called by ril_gprs_connection_unregister: a *)
(* thread that was not started is not stopped.                             *)
Stop(c) ==
  /\ c \in live
  /\ at' = c
  /\ \/ /\ state[c] = 1
        /\ Turn("run", "pass")
        /\ state' = [state EXCEPT ![c] = 2]
     \/ /\ state[c] # 1
        /\ Turn("run", "stopped")
        /\ UNCHANGED state
  /\ UNCHANGED <<rilLock, live, mutex, haunted, threadVars>>

(* pthread_mutex_lock and pthread_mutex_unlock.                            *)
Pass ==
  /\ Turn("pass", "passed")
  /\ mutex[at] = Nobody
  /\ mutex' = [mutex EXCEPT ![at] = "handler"]
  /\ UNCHANGED <<rilLock, live, state, haunted, threadVars, at>>

Passed ==
  /\ Turn("passed", "stopped")
  /\ mutex' = [mutex EXCEPT ![at] = Nobody]
  /\ UNCHANGED <<rilLock, live, state, haunted, threadVars, at>>

(* The threads that work on a connection.                                  *)
Users(c) == {t \in Thread : on[t] = c /\ thread[t] \in Looking}

(* pthread_mutex_destroy, memset and free: thread_state is 0 again.        *)
Free ==
  /\ Turn("stopped", "run")
  /\ live' = live \ {at}
  /\ mutex' = [mutex EXCEPT ![at] = Nobody]
  /\ state' = [state EXCEPT ![at] = 0]
  /\ haunted' = IF Users(at) = {} THEN haunted ELSE haunted \cup {at}
  /\ at' = NoConn
  /\ UNCHANGED <<rilLock, threadVars>>

Leave ==
  /\ Turn("run", "idle")
  /\ rilLock' = Nobody
  /\ UNCHANGED <<connVars, threadVars, at>>

-----------------------------------------------------------------------------
ThreadStep(t) ==
  \/ Lock(t) \/ Select(t) \/ Check(t)
  \/ TakeRilLock(t) \/ SendFrame(t) \/ Unlock(t)
  \/ Lost(t)

HandlerStep ==
  \/ Enter \/ Created \/ Pass \/ Passed \/ Free \/ Leave
  \/ \E c \in Conn : Register(c) \/ Stop(c) \/ \E t \in Thread : Create(t, c)

TunnelNext == HandlerStep \/ \E t \in Thread : ThreadStep(t)

TunnelSpec == TunnelInit /\ [][TunnelNext]_tunnelVars

(* Threads are scheduled, and so is the handler that has begun; whether a  *)
(* handler begins, starts or stops a connection is up to its caller.  A    *)
(* lock that is taken and released for ever is not promised to the others. *)
TunnelFairSpec ==
  /\ TunnelSpec
  /\ WF_tunnelVars(Created \/ Pass \/ Passed \/ Free \/ Leave)
  /\ \A t \in Thread : WF_tunnelVars(ThreadStep(t))

-----------------------------------------------------------------------------
(* Safety.                                                                 *)

Carrying(c) == {t \in Users(c) : thread[t] \in {"frame", "send", "unlock"}}

(* gprs_stop_tunneling_thread: when the stop of a connection has returned, *)
(* and the connection is about to be freed, its thread has no frame on its *)
(* way.  That fails where a thread has outlived an earlier connection in   *)
(* the same memory, and gives back the mutex another has.                  *)
StoppedQuiet ==
  handler = "stopped" /\ at \notin haunted => Carrying(at) = {}

(* What the code does not keep (no run checks it): a thread that is before *)
(* its test when the connection is freed reads thread_state as 0, or as    *)
(* what has the memory by then, and carries frames again.                  *)
FreedQuiet == \A c \in Conn \ live : Carrying(c) = {}

-----------------------------------------------------------------------------
(* Liveness.                                                               *)

(* The thread waits for RIL_LOCK with the mutex, the handler for the mutex *)
(* with RIL_LOCK.                                                          *)
Embrace == handler = "pass" /\ mutex[at] \in {t \in Thread : thread[t] = "frame"}

(* gprs_stop_tunneling_thread returns within a turn of the thread's loop,  *)
(* except in that one case, in which it never does.                        *)
StopReturnsOrEmbrace == handler = "pass" ~> (handler = "stopped" \/ Embrace)
=============================================================================
