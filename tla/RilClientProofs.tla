-------------------------- MODULE RilClientProofs --------------------------
(***************************************************************************)
(* Theorems about the client and its threads, for any number of turns of   *)
(* the reader, of tries of a creation, and of requests: objects live as    *)
(* long as they are used, no frame is handled before the start is over,    *)
(* and no request is completed twice.                                      *)
(***************************************************************************)
EXTENDS RilClient, TLAPS

(* The steps of the reader in which there is an object, in which it has a  *)
(* descriptor, and in which it handles a frame.                            *)
WithObject == {"loop", "select", "recv", "frame", "handle", "reply", "sending",
               "destroy", "last"}
WithFrame == {"recv", "frame", "handle", "reply", "sending"}
Handling == {"handle", "reply", "sending"}

Types ==
  /\ init \in {"start", "create", "thread", "publish", "end", "done"}
  /\ pc \in [Thread -> {"idle", "handler", "send", "sending", "return"}]
  /\ ptr \in [Thread \cup {"reader"} -> Nat]
  /\ obj \in Nat /\ live \subseteq Nat
  /\ pub \in BOOLEAN /\ failed \in BOOLEAN /\ early \in BOOLEAN
  /\ unready \in BOOLEAN /\ stray \in BOOLEAN

(* RIL_LOCK belongs to the start until that is over, and then to the one   *)
(* handler that runs; the reader begins before the client is known.        *)
StartOrder ==
  /\ init \in {"create", "thread", "publish", "end"} => ril = "rild"
  /\ init # "done" => \A s \in Thread : pc[s] = "idle"
  /\ \A s \in Thread : pc[s] # "idle" => ril = s
  /\ reader \in Handling => ril = "reader" /\ init = "done"
  /\ init \in {"start", "create", "thread"} => reader = "none"
  /\ init = "publish" => reader # "none"
  /\ pub <=> init \in {"end", "done"} /\ reader # "none"
  /\ ~early

(* The reader has an object whenever it uses or frees one, and does so     *)
(* through the pointer that was read last; without a creation that failed  *)
(* it has no other.                                                        *)
Objects ==
  /\ reader \in WithObject \/ init = "thread" => obj \in live
  /\ reader \in WithFrame => inner = "open"
  /\ reader \in {"reply", "sending"} => ptr["reader"] = obj
  /\ state = "READY" => reader \in WithFrame \cup {"select"}
  /\ "reader" \notin hurt
  /\ ~failed =>
       /\ live \subseteq {obj}
       /\ obj \in live => inner = "open"
       /\ reader = "create" \/ init \in {"start", "create"} => live = {}

(* A thread that began when the client was READY, and whose object the     *)
(* reader has not destroyed, sends through the pointer to that object.     *)
Senders ==
  /\ \A s \in Thread : pc[s] # "idle" /\ s \notin excused =>
       /\ reader \in WithFrame \cup {"select", "destroy"}
       /\ pc[s] \in {"send", "sending"} => ptr[s] = obj
  /\ ~failed => hurt = {}

(* The token of the request that runs is pending, and is kept nowhere yet. *)
TokensOpen ==
  ~unready =>
    /\ ~stray
    /\ kept \subseteq pending
    /\ pc["rild"] = "handler" => token \in pending \ kept

IInv == Types /\ StartOrder /\ Objects /\ Senders /\ TokensOpen


(* Before RIL_Init nothing runs, there is no object and no request is      *)
(* kept.                                                                   *)
LEMMA ClientInit == Init => IInv
<1>. SUFFICES ASSUME Init
              PROVE  IInv
  OBVIOUS
<1>1. Types
  BY DEF Init, Types, Thread, RequestInit
<1>2. StartOrder
  BY DEF Init, StartOrder, Thread, Handling
<1>3. Objects
  BY DEF Init, Objects, WithObject, WithFrame
<1>4. Senders
  BY DEF Init, Senders, Thread
<1>5. TokensOpen
  BY DEF Init, TokensOpen, Thread, RequestInit
<1>. QED
  BY <1>1, <1>2, <1>3, <1>4, <1>5 DEF IInv

(* The start: nobody runs beside it until it is over, except that the      *)
(* reader may have begun, and waits for RIL_LOCK with its first frame.     *)
LEMMA ClientStart ==
  ASSUME IInv, RilInit
  PROVE  IInv'
<1>1. CASE InitBegin
  <2>1. Types'
    BY <1>1
       DEF IInv, Types, InitBegin, clientVars, threadVars, history,
           requestVars
  <2>2. StartOrder'
    BY <1>1
       DEF IInv, StartOrder, InitBegin, readerVars, threadVars, history
  <2>3. Objects'
    BY <1>1
       DEF IInv, Objects, InitBegin, clientVars, readerVars, threadVars,
           history
  <2>4. Senders'
    BY <1>1
       DEF IInv, Senders, InitBegin, clientVars, readerVars, threadVars,
           history
  <2>5. TokensOpen'
    BY <1>1
       DEF IInv, TokensOpen, InitBegin, threadVars, history, requestVars
  <2>. QED
    BY <2>1, <2>2, <2>3, <2>4, <2>5 DEF IInv
<1>2. CASE \E holds \in Outcome : InitCreate(holds)
  <2>1. Types'
    BY <1>2
       DEF IInv, Types, InitCreate, threadVars, requestVars, NewObject
  <2>2. StartOrder'
    BY <1>2
       DEF IInv, StartOrder, InitCreate, lockVars, threadVars, NewObject
  <2>3. Objects'
    BY <1>2
       DEF IInv, StartOrder, Objects, WithFrame, InitCreate, NewObject
  <2>4. Senders'
    BY <1>2
       DEF IInv, StartOrder, Senders, InitCreate, threadVars, NewObject
  <2>5. TokensOpen'
    BY <1>2
       DEF IInv, TokensOpen, InitCreate, threadVars, requestVars, NewObject
  <2>. QED
    BY <2>1, <2>2, <2>3, <2>4, <2>5 DEF IInv
<1>3. CASE InitThread
  <2>1. Types'
    BY <1>3
       DEF IInv, Types, InitThread, clientVars, threadVars, history,
           requestVars
  <2>2. StartOrder'
    BY <1>3
       DEF IInv, StartOrder, Handling, InitThread, lockVars, threadVars,
           history
  <2>3. Objects'
    BY <1>3
       DEF IInv, StartOrder, Objects, WithFrame, InitThread, clientVars,
           history
  <2>4. Senders'
    BY <1>3
       DEF IInv, StartOrder, Senders, InitThread, threadVars, history
  <2>5. TokensOpen'
    BY <1>3
       DEF IInv, TokensOpen, InitThread, threadVars, history, requestVars
  <2>. QED
    BY <2>1, <2>2, <2>3, <2>4, <2>5 DEF IInv
<1>4. CASE InitPublish
  <2>1. Types'
    BY <1>4
       DEF IInv, Types, InitPublish, clientVars, threadVars, history,
           requestVars
  <2>2. StartOrder'
    BY <1>4
       DEF IInv, StartOrder, InitPublish, lockVars, readerVars, threadVars,
           history
  <2>3. Objects'
    BY <1>4
       DEF IInv, Objects, InitPublish, clientVars, readerVars, threadVars,
           history
  <2>4. Senders'
    BY <1>4
       DEF IInv, Senders, InitPublish, clientVars, readerVars, threadVars,
           history
  <2>5. TokensOpen'
    BY <1>4
       DEF IInv, TokensOpen, InitPublish, threadVars, history, requestVars
  <2>. QED
    BY <2>1, <2>2, <2>3, <2>4, <2>5 DEF IInv
<1>5. CASE InitEnd
  <2>1. Types'
    BY <1>5
       DEF IInv, Types, InitEnd, clientVars, threadVars, history, requestVars
  <2>2. StartOrder'
    BY <1>5
       DEF IInv, StartOrder, InitEnd, readerVars, threadVars, history
  <2>3. Objects'
    BY <1>5
       DEF IInv, Objects, InitEnd, clientVars, readerVars, threadVars, history
  <2>4. Senders'
    BY <1>5
       DEF IInv, Senders, InitEnd, clientVars, readerVars, threadVars, history
  <2>5. TokensOpen'
    BY <1>5
       DEF IInv, TokensOpen, InitEnd, threadVars, history, requestVars
  <2>. QED
    BY <2>1, <2>2, <2>3, <2>4, <2>5 DEF IInv
<1>. QED
  BY <1>1, <1>2, <1>3, <1>4, <1>5 DEF RilInit

(* The reader: it frees the object it has, excuses who is about to send,   *)
(* and has none until it has made another.                                 *)
LEMMA ClientReader ==
  ASSUME IInv, Reader
  PROVE  IInv'
<1>1. CASE Loop
  <2>1. Types'
    BY <1>1
       DEF IInv, Types, Loop, threadVars, history, requestVars
  <2>2. StartOrder'
    BY <1>1
       DEF IInv, StartOrder, Handling, Loop, lockVars, threadVars, history
  <2>3. Objects'
    BY <1>1
       DEF IInv, Objects, WithObject, WithFrame, Loop, history
  <2>4. Senders'
    BY <1>1
       DEF IInv, Senders, WithFrame, Loop, threadVars, history
  <2>5. TokensOpen'
    BY <1>1
       DEF IInv, TokensOpen, Loop, threadVars, history, requestVars
  <2>. QED
    BY <2>1, <2>2, <2>3, <2>4, <2>5 DEF IInv
<1>2. CASE Select
  <2>1. Types'
    BY <1>2
       DEF IInv, Types, Select, clientVars, threadVars, history, requestVars
  <2>2. StartOrder'
    BY <1>2
       DEF IInv, StartOrder, Handling, Select, threadVars, history
  <2>3. Objects'
    BY <1>2
       DEF IInv, Objects, WithObject, WithFrame, Select, clientVars, history
  <2>4. Senders'
    BY <1>2
       DEF IInv, Senders, WithFrame, Select, clientVars, threadVars, history
  <2>5. TokensOpen'
    BY <1>2
       DEF IInv, TokensOpen, Select, threadVars, history, requestVars
  <2>. QED
    BY <2>1, <2>2, <2>3, <2>4, <2>5 DEF IInv
<1>3. CASE Recv
  <2>1. Types'
    BY <1>3
       DEF IInv, Types, Recv, clientVars, threadVars, history, requestVars
  <2>2. StartOrder'
    BY <1>3
       DEF IInv, StartOrder, Handling, Recv, threadVars, history
  <2>3. Objects'
    BY <1>3
       DEF IInv, Objects, WithObject, WithFrame, Recv, clientVars, history
  <2>4. Senders'
    BY <1>3
       DEF IInv, Senders, WithFrame, Recv, clientVars, threadVars, history
  <2>5. TokensOpen'
    BY <1>3
       DEF IInv, TokensOpen, Recv, threadVars, history, requestVars
  <2>. QED
    BY <2>1, <2>2, <2>3, <2>4, <2>5 DEF IInv
<1>4. CASE ReadError
  <2>1. Types'
    BY <1>4
       DEF IInv, Types, ReadError, threadVars, history, requestVars
  <2>2. StartOrder'
    BY <1>4
       DEF IInv, StartOrder, Handling, ReadError, threadVars, history
  <2>3. Objects'
    BY <1>4
       DEF IInv, Objects, WithObject, WithFrame, ReadError, history
  <2>4. Senders'
    BY <1>4
       DEF IInv, Senders, ReadError, threadVars, history
  <2>5. TokensOpen'
    BY <1>4
       DEF IInv, TokensOpen, ReadError, threadVars, history, requestVars
  <2>. QED
    BY <2>1, <2>2, <2>3, <2>4, <2>5 DEF IInv
<1>5. CASE Dispatch
  <2>1. Types'
    BY <1>5
       DEF IInv, Types, Dispatch, clientVars, threadVars, requestVars
  <2>2. StartOrder'
    BY <1>5
       DEF IInv, Types, StartOrder, Dispatch, threadVars, Thread, Nobody
  <2>3. Objects'
    BY <1>5
       DEF IInv, Objects, WithObject, WithFrame, Dispatch, clientVars
  <2>4. Senders'
    BY <1>5
       DEF IInv, Senders, WithFrame, Dispatch, clientVars, threadVars
  <2>5. TokensOpen'
    BY <1>5
       DEF IInv, TokensOpen, Dispatch, threadVars, requestVars
  <2>. QED
    BY <2>1, <2>2, <2>3, <2>4, <2>5 DEF IInv
<1>6. CASE \E done \in {{}} \cup {{t} : t \in kept} : Handle(done)
  <2>1. Types'
    BY <1>6
       DEF IInv, Types, Handle, clientVars, history, Answer
  <2>2. StartOrder'
    BY <1>6
       DEF IInv, StartOrder, Handling, Handle, history, Answer, Thread
  <2>3. Objects'
    BY <1>6
       DEF IInv, Types, Objects, WithObject, WithFrame, Handle, clientVars,
           history, Answer
  <2>4. Senders'
    BY <1>6
       DEF IInv, Types, Senders, WithFrame, Handle, clientVars, history,
           Answer
  <2>5. TokensOpen'
    BY <1>6
       DEF IInv, Types, TokensOpen, Handle, history, Answer
  <2>. QED
    BY <2>1, <2>2, <2>3, <2>4, <2>5 DEF IInv
<1>7. CASE Reply
  <2>1. Types'
    BY <1>7
       DEF IInv, Types, Reply, clientVars, threadVars, history, requestVars
  <2>2. StartOrder'
    BY <1>7
       DEF IInv, StartOrder, Handling, Reply, threadVars, history
  <2>3. Objects'
    BY <1>7
       DEF IInv, Objects, WithObject, WithFrame, Reply, clientVars,
           threadVars, history
  <2>4. Senders'
    BY <1>7
       DEF IInv, Senders, WithFrame, Reply, clientVars, threadVars, history
  <2>5. TokensOpen'
    BY <1>7
       DEF IInv, TokensOpen, Reply, threadVars, history, requestVars
  <2>. QED
    BY <2>1, <2>2, <2>3, <2>4, <2>5 DEF IInv
<1>8. CASE Replied
  <2>1. Types'
    BY <1>8
       DEF IInv, Types, Replied, clientVars, requestVars, Usable
  <2>2. StartOrder'
    BY <1>8
       DEF IInv, StartOrder, Handling, Replied, Usable, Thread
  <2>3. Objects'
    BY <1>8
       DEF IInv, Objects, WithObject, WithFrame, Replied, clientVars, Usable
  <2>4. Senders'
    BY <1>8
       DEF IInv, Objects, Senders, WithObject, Replied, clientVars, Usable,
           Thread
  <2>5. TokensOpen'
    BY <1>8
       DEF IInv, TokensOpen, Replied, requestVars, Usable
  <2>. QED
    BY <2>1, <2>2, <2>3, <2>4, <2>5 DEF IInv
<1>9. CASE Destroy
  <2>1. Types'
    BY <1>9
       DEF IInv, Types, Destroy, threadVars, requestVars, FreeObject
  <2>2. StartOrder'
    BY <1>9
       DEF IInv, StartOrder, Handling, Destroy, lockVars, threadVars,
           FreeObject
  <2>3. Objects'
    BY <1>9
       DEF IInv, StartOrder, Objects, WithObject, WithFrame, Destroy,
           FreeObject
  <2>4. Senders'
    BY <1>9
       DEF IInv, Objects, Senders, WithObject, Destroy, threadVars, FreeObject
  <2>5. TokensOpen'
    BY <1>9
       DEF IInv, TokensOpen, Destroy, threadVars, requestVars, FreeObject
  <2>. QED
    BY <2>1, <2>2, <2>3, <2>4, <2>5 DEF IInv
<1>10. CASE \E holds \in Outcome : Create(holds)
  <2>1. Types'
    BY <1>10
       DEF IInv, Types, Create, threadVars, requestVars, NewObject
  <2>2. StartOrder'
    BY <1>10
       DEF IInv, StartOrder, Handling, Create, lockVars, threadVars, NewObject
  <2>3. Objects'
    BY <1>10
       DEF IInv, StartOrder, Objects, WithFrame, Create, NewObject
  <2>4. Senders'
    BY <1>10
       DEF IInv, Senders, WithFrame, Create, threadVars, NewObject
  <2>5. TokensOpen'
    BY <1>10
       DEF IInv, TokensOpen, Create, threadVars, requestVars, NewObject
  <2>. QED
    BY <2>1, <2>2, <2>3, <2>4, <2>5 DEF IInv
<1>11. CASE DestroyLast
  <2>1. Types'
    BY <1>11
       DEF IInv, Types, DestroyLast, threadVars, requestVars, FreeObject
  <2>2. StartOrder'
    BY <1>11
       DEF IInv, StartOrder, Handling, DestroyLast, lockVars, threadVars,
           FreeObject
  <2>3. Objects'
    BY <1>11
       DEF IInv, StartOrder, Objects, WithObject, WithFrame, DestroyLast,
           FreeObject
  <2>4. Senders'
    BY <1>11
       DEF IInv, Objects, Senders, WithObject, DestroyLast, threadVars,
           FreeObject
  <2>5. TokensOpen'
    BY <1>11
       DEF IInv, TokensOpen, DestroyLast, threadVars, requestVars, FreeObject
  <2>. QED
    BY <2>1, <2>2, <2>3, <2>4, <2>5 DEF IInv
<1>12. CASE ClientFree
  <2>1. Types'
    BY <1>12
       DEF IInv, Types, ClientFree, threadVars, history, requestVars
  <2>2. StartOrder'
    BY <1>12
       DEF IInv, StartOrder, Handling, ClientFree, lockVars, threadVars,
           history
  <2>3. Objects'
    BY <1>12
       DEF IInv, Objects, WithObject, WithFrame, ClientFree, history
  <2>4. Senders'
    BY <1>12
       DEF IInv, Senders, WithFrame, ClientFree, threadVars, history
  <2>5. TokensOpen'
    BY <1>12
       DEF IInv, TokensOpen, ClientFree, threadVars, history, requestVars
  <2>. QED
    BY <2>1, <2>2, <2>3, <2>4, <2>5 DEF IInv
<1>. QED
  BY <1>1, <1>2, <1>3, <1>4, <1>5, <1>6, <1>7, <1>8, <1>9, <1>10, <1>11, <1>12 DEF Reader

(* A handler begins: RIL_LOCK was free, so no other handler runs.          *)
LEMMA ClientRequest ==
  ASSUME IInv, (\E t \in Token : Idle(t) /\ Request(t)) \/ SrsDispatch
  PROVE  IInv'
<1>1. CASE \E t \in Token : Idle(t) /\ Request(t)
  <2>1. Types'
    BY <1>1
       DEF IInv, Types, Request, clientVars, Answer, Ready, Idle
  <2>2. StartOrder'
    BY <1>1
       DEF IInv, StartOrder, Request, readerVars, Answer, Ready, Idle, Thread,
           Nobody
  <2>3. Objects'
    BY <1>1
       DEF IInv, Objects, Request, clientVars, readerVars, Answer, Ready, Idle
  <2>4. Senders'
    BY <1>1
       DEF IInv, Types, StartOrder, Objects, Senders, Request, clientVars,
           readerVars, Answer, Ready, Idle
  <2>5. TokensOpen'
    BY <1>1
       DEF IInv, TokensOpen, Handling, Request, Answer, Ready, Idle
  <2>. QED
    BY <2>1, <2>2, <2>3, <2>4, <2>5 DEF IInv
<1>2. CASE SrsDispatch
  <2>1. Types'
    BY <1>2
       DEF IInv, Types, SrsDispatch, clientVars, requestVars
  <2>2. StartOrder'
    BY <1>2
       DEF IInv, StartOrder, SrsDispatch, readerVars, Thread, Nobody
  <2>3. Objects'
    BY <1>2
       DEF IInv, Objects, SrsDispatch, clientVars, readerVars
  <2>4. Senders'
    BY <1>2
       DEF IInv, Objects, Senders, SrsDispatch, clientVars, readerVars
  <2>5. TokensOpen'
    BY <1>2
       DEF IInv, TokensOpen, SrsDispatch, requestVars
  <2>. QED
    BY <2>1, <2>2, <2>3, <2>4, <2>5 DEF IInv
<1>. QED
  BY <1>1, <1>2

(* A handler goes on: the object it sends with is the one the reader has.  *)
LEMMA ClientHandler ==
  ASSUME IInv, NEW s \in Thread, Handler(s)
  PROVE  IInv'
<1>1. CASE s = "rild" /\ ReplyAtOnce
  <2>1. Types'
    BY <1>1
       DEF IInv, Types, ReplyAtOnce, clientVars, history, Answer
  <2>2. StartOrder'
    BY <1>1
       DEF IInv, StartOrder, ReplyAtOnce, lockVars, readerVars, history,
           Answer
  <2>3. Objects'
    BY <1>1
       DEF IInv, Objects, ReplyAtOnce, clientVars, readerVars, history, Answer
  <2>4. Senders'
    BY <1>1
       DEF IInv, Senders, ReplyAtOnce, clientVars, readerVars, history, Answer
  <2>5. TokensOpen'
    BY <1>1
       DEF IInv, Types, TokensOpen, ReplyAtOnce, history, Answer
  <2>. QED
    BY <2>1, <2>2, <2>3, <2>4, <2>5 DEF IInv
<1>2. CASE SendBegin(s)
  <2>1. Types'
    BY <1>2
       DEF IInv, Types, SendBegin, clientVars, history, requestVars
  <2>2. StartOrder'
    BY <1>2
       DEF IInv, Types, StartOrder, SendBegin, lockVars, readerVars, history
  <2>3. Objects'
    BY <1>2
       DEF IInv, Types, Objects, SendBegin, clientVars, readerVars, history
  <2>4. Senders'
    BY <1>2
       DEF IInv, Types, Senders, SendBegin, clientVars, readerVars, history
  <2>5. TokensOpen'
    BY <1>2
       DEF IInv, Types, TokensOpen, SendBegin, history, requestVars, Thread
  <2>. QED
    BY <2>1, <2>2, <2>3, <2>4, <2>5 DEF IInv
<1>3. CASE SendLock(s)
  <2>1. Types'
    BY <1>3
       DEF IInv, Types, SendLock, clientVars, history, requestVars
  <2>2. StartOrder'
    BY <1>3
       DEF IInv, StartOrder, SendLock, readerVars, history
  <2>3. Objects'
    BY <1>3
       DEF IInv, Objects, SendLock, clientVars, readerVars, history
  <2>4. Senders'
    BY <1>3
       DEF IInv, Senders, SendLock, clientVars, readerVars, history
  <2>5. TokensOpen'
    BY <1>3
       DEF IInv, TokensOpen, SendLock, history, requestVars
  <2>. QED
    BY <2>1, <2>2, <2>3, <2>4, <2>5 DEF IInv
<1>4. CASE SendEnd(s)
  <2>1. Types'
    BY <1>4
       DEF IInv, Types, SendEnd, clientVars, requestVars, Usable
  <2>2. StartOrder'
    BY <1>4
       DEF IInv, StartOrder, SendEnd, readerVars, Usable
  <2>3. Objects'
    BY <1>4
       DEF IInv, Objects, SendEnd, clientVars, readerVars, Usable, Thread
  <2>4. Senders'
    BY <1>4
       DEF IInv, Objects, Senders, WithObject, WithFrame, SendEnd, clientVars,
           readerVars, Usable
  <2>5. TokensOpen'
    BY <1>4
       DEF IInv, TokensOpen, SendEnd, requestVars, Usable
  <2>. QED
    BY <2>1, <2>2, <2>3, <2>4, <2>5 DEF IInv
<1>5. CASE Return(s)
  <2>1. Types'
    BY <1>5
       DEF IInv, Types, Return, clientVars, requestVars
  <2>2. StartOrder'
    BY <1>5
       DEF IInv, Types, StartOrder, Return, readerVars, Thread
  <2>3. Objects'
    BY <1>5
       DEF IInv, Objects, Return, clientVars, readerVars, Thread
  <2>4. Senders'
    BY <1>5
       DEF IInv, Types, Senders, Return, clientVars, readerVars
  <2>5. TokensOpen'
    BY <1>5
       DEF IInv, TokensOpen, Return, requestVars
  <2>. QED
    BY <2>1, <2>2, <2>3, <2>4, <2>5 DEF IInv
<1>. QED
  BY <1>1, <1>2, <1>3, <1>4, <1>5 DEF Handler

(* A step that changes nothing keeps the invariant.                        *)
LEMMA ClientStutter ==
  ASSUME IInv, UNCHANGED vars
  PROVE  IInv'
BY DEF IInv, Types, StartOrder, Objects, Senders, TokensOpen, vars, lockVars, clientVars,
       readerVars, threadVars, history, requestVars

(* The five parts of the invariant always hold, however the start          *)
(* (RIL_Init), the read loop (ipc_client_read_loop), the recreation after  *)
(* a read error and the request handlers interleave.                       *)
THEOREM ClientInvariant == Spec => []IInv
<1>1. Init => IInv
  BY ClientInit
<1>2. IInv /\ [Next]_vars => IInv'
  <2>. SUFFICES ASSUME IInv, [Next]_vars
                PROVE  IInv'
    OBVIOUS
  <2>. QED
    BY ClientStart, ClientReader, ClientRequest, ClientHandler, ClientStutter DEF Next
<1>. QED
  BY <1>1, <1>2, PTL DEF Spec

(* The inner client is not freed under anybody who uses it: the read loop  *)
(* never uses one that it destroyed, and, if no creation failed, a handler *)
(* that began while the client was READY does so only if the read loop     *)
(* destroyed it in between (ipc_send takes the pointer before the lock).   *)
THEOREM ClientLifetimes == Spec => []Lifetimes
<1>1. IInv => Lifetimes
  BY DEF IInv, Objects, Senders, Lifetimes
<1>. QED
  BY ClientInvariant, <1>1, PTL

(* No frame is handled before RIL_Init has given RIL_LOCK back, although   *)
(* the read loop starts before ril_data names the client: ipc_dispatch     *)
(* waits for the lock.                                                     *)
THEOREM ClientInitFirst == Spec => []InitFirst
<1>1. IInv => InitFirst
  BY DEF IInv, StartOrder, Handling, InitFirst
<1>. QED
  BY ClientInvariant, <1>1, PTL

(* No request is completed twice, unless one came in while the client was  *)
(* not READY: ril_on_request completes such a request and then dispatches  *)
(* it all the same.                                                        *)
THEOREM ClientCompletedOnce == Spec => []CompletedOnce
<1>1. IInv => CompletedOnce
  BY DEF IInv, TokensOpen, CompletedOnce
<1>. QED
  BY ClientInvariant, <1>1, PTL
=============================================================================
