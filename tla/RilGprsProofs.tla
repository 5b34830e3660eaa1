---------------------------- MODULE RilGprsProofs ----------------------------
(***************************************************************************)
(* Proofs about data connections, for every number of connections,         *)
(* contexts, requests and commands.  The modem names a context only in the *)
(* confirmation of its set-up; the connection found is the right one as    *)
(* long as the framework and the network wait their turn, because then at  *)
(* most one set-up is under way and its connection is the only one that    *)
(* has no context.                                                         *)
(*                                                                         *)
(* And about the tunnel threads, for every set of connections: the thread  *)
(* of a connection that was stopped carries no frame.                      *)
(***************************************************************************)
EXTENDS RilGprs, GprsTunnel, TLAPS

(* The START commands on their way.                                        *)
Starts == {i \in DOMAIN cmds : cmds[i].op = "START"}
OnlyStart == \A i, j \in Starts : i = j

(* One set-up at a time, for a connection that holds its token and is the  *)
(* only one without a context.                                             *)
OneStart ==
  ~crossed =>
    /\ attempts <= 1
    /\ OnlyStart
    /\ attempts > 0 => Starts = {}
    /\ attempts > 0 \/ Starts # {} => \E c \in With(Starting) : conn[c].token # NoToken
    /\ \A c, d \in With(Starting) : c = d

StopsNamed == ~crossed => ~StopSent(Starting)

(* The connection that failed last, which the framework may take off the   *)
(* list: it never got a context, or that is being stopped.                 *)
FailedStopped ==
  ~crossed /\ lastFailed \in used =>
    IF conn[lastFailed].context = Starting
    THEN conn[lastFailed].token = NoToken
    ELSE StopSent(conn[lastFailed].context)

(* What holds in any case, and what holds while everyone waits their turn. *)
ListInv == TypeOK /\ TokensHeld /\ ContextsDistinct
TurnInv == NoOrphan /\ TokenBacked /\ NoStray /\ OneStart /\ StopsNamed /\ FailedStopped
GprsInv == ListInv /\ TurnInv

-----------------------------------------------------------------------------
(* The queue of commands.                                                  *)
LEMMA Sent ==
  ASSUME cmds \in Seq(Command), NEW op \in {"START", "STOP"},
         NEW context \in ContextId \cup {Starting},
         op = "START" => context = Starting, Send(op, context)
  PROVE  /\ cmds' \in Seq(Command)
         /\ \A x : StopSent(x)' <=> StopSent(x) \/ (op = "STOP" /\ x = context)
         /\ op = "STOP" => Starts' = Starts
         /\ op = "START" => Starts' # {} /\ (Starts = {} => OnlyStart')
<1> DEFINE c == [op |-> op, context |-> context]
<1>1. c \in Command
  BY DEF Command
<1>2. c.op = op /\ \A x : c = [op |-> "STOP", context |-> x] <=> op = "STOP" /\ x = context
  OBVIOUS
<1>3. cmds' = Append(cmds, c)
  BY DEF Send
<1> HIDE DEF c
<1>4. /\ cmds' \in Seq(Command) /\ Len(cmds) \in Nat /\ DOMAIN cmds = 1 .. Len(cmds)
      /\ DOMAIN cmds' = 1 .. Len(cmds) \cup {Len(cmds) + 1}
      /\ cmds'[Len(cmds) + 1] = c
      /\ \A i \in 1 .. Len(cmds) : cmds'[i] = cmds[i]
  BY <1>1, <1>3
<1>5. Starts' = Starts \cup {i \in {Len(cmds) + 1} : op = "START"}
  BY <1>2, <1>4 DEF Starts
<1>6. \A x : StopSent(x)' <=> StopSent(x) \/ (op = "STOP" /\ x = context)
  BY <1>2, <1>4 DEF StopSent
<1> QED
  BY <1>4, <1>5, <1>6 DEF OnlyStart

LEMMA Taken ==
  ASSUME cmds \in Seq(Command), NEW op \in {"START", "STOP"}, Take(op)
  PROVE  /\ cmds' \in Seq(Command)
         /\ Head(cmds) \in Command /\ Head(cmds).op = op
         /\ \A x : StopSent(x)' => StopSent(x)
         /\ \A x : StopSent(x) /\ ~(op = "STOP" /\ x = Head(cmds).context) => StopSent(x)'
         /\ op = "STOP" => StopSent(Head(cmds).context)
         /\ OnlyStart => OnlyStart'
         /\ op = "START" => Starts # {} /\ (OnlyStart => Starts' = {})
         /\ op = "STOP" => (Starts' = {} <=> Starts = {})
<1>1. cmds # <<>> /\ cmds' = Tail(cmds) /\ Head(cmds).op = op
  BY DEF Take
<1>2. /\ cmds' \in Seq(Command) /\ Len(cmds) \in Nat /\ Len(cmds) >= 1
      /\ DOMAIN cmds = 1 .. Len(cmds) /\ DOMAIN cmds' = 1 .. (Len(cmds) - 1)
      /\ Head(cmds) = cmds[1] /\ Head(cmds) \in Command
      /\ \A i \in 1 .. (Len(cmds) - 1) : cmds'[i] = cmds[i + 1]
  BY <1>1
<1>3. \A i \in DOMAIN cmds' : i + 1 \in DOMAIN cmds /\ i \in Int /\ i + 1 # 1
  BY <1>2
<1>4. \A i \in DOMAIN cmds : i # 1 => i - 1 \in DOMAIN cmds' /\ cmds'[i - 1] = cmds[i]
  BY <1>2
<1>5. \A i \in Starts' : i + 1 \in Starts
  BY <1>2, <1>3 DEF Starts
<1>6. \A i \in Starts : i # 1 => i - 1 \in Starts'
  BY <1>2, <1>4 DEF Starts
<1>7. 1 \in DOMAIN cmds /\ (1 \in Starts <=> op = "START")
  BY <1>1, <1>2 DEF Starts
<1>8. \A x : StopSent(x)' => StopSent(x)
  BY <1>2, <1>3 DEF StopSent
<1>9. ASSUME NEW x, StopSent(x), ~(op = "STOP" /\ x = Head(cmds).context)
      PROVE  StopSent(x)'
  <2>1. PICK i \in DOMAIN cmds : cmds[i] = [op |-> "STOP", context |-> x]
    BY <1>9 DEF StopSent
  <2>2. i # 1
    BY <1>1, <1>2, <1>9, <2>1
  <2> QED
    BY <1>4, <2>1, <2>2 DEF StopSent
<1>10. op = "STOP" => StopSent(Head(cmds).context)
  <2>1. Head(cmds).op = "STOP" =>
          Head(cmds) = [op |-> "STOP", context |-> Head(cmds).context]
    BY <1>2 DEF Command
  <2> QED
    BY <1>1, <1>2, <1>7, <2>1 DEF StopSent
<1>11. OnlyStart => OnlyStart'
  <2>1. ASSUME OnlyStart, NEW i \in Starts', NEW j \in Starts'
        PROVE  i = j
    <3>1. i + 1 = j + 1
      BY <1>5, <2>1 DEF OnlyStart
    <3>2. i \in Int /\ j \in Int
      BY <1>3 DEF Starts
    <3> QED
      BY <3>1, <3>2
  <2> QED
    BY <2>1 DEF OnlyStart
<1>12. op = "START" => Starts # {} /\ (OnlyStart => Starts' = {})
  BY <1>3, <1>5, <1>7 DEF OnlyStart, Starts
<1>13. op = "STOP" => (Starts' = {} <=> Starts = {})
  BY <1>5, <1>6, <1>7
<1> QED
  BY <1>1, <1>2, <1>8, <1>9, <1>10, <1>11, <1>12, <1>13

-----------------------------------------------------------------------------
(* ril_gprs_connection_find_contextId finds the only match.                *)
LEMMA FindOnly ==
  ASSUME TypeOK, NEW x, NEW c \in With(x), \A d \in With(x) : d = c
  PROVE  Find(x) = {c}
<1>1. c \in used /\ c \notin conn[c].ahead
  BY DEF TypeOK, ListOrder, With
<1>2. conn[c].ahead \cap With(x) = {}
  BY <1>1
<1> QED
  BY <1>2 DEF Find

LEMMA FindIn ==
  ASSUME NEW x, NEW c \in Find(x)
  PROVE  c \in used /\ conn[c].context = x
BY DEF Find, With

(* A step that only changes fields of connection c, not its place.         *)
LEMMA ChangedOrder ==
  ASSUME TypeOK, used' = used, \A d \in used : conn'[d].ahead = conn[d].ahead
  PROVE  ListOrder'
BY DEF TypeOK, ListOrder

LEMMA Unlisted ==
  ASSUME TypeOK, NEW c \in used, Unlist(c)
  PROVE  /\ used' = used \ {c}
         /\ conn' \in [Cid -> Connection]
         /\ \A d \in used' : /\ conn'[d].context = conn[d].context
                             /\ conn'[d].token = conn[d].token
         /\ ListOrder'
<1>1. /\ used \subseteq Cid /\ conn \in [Cid -> Connection] /\ ListOrder
      /\ used' = used \ {c}
      /\ conn' = [d \in Cid |-> IF d = c THEN NoConnection
                                ELSE [conn[d] EXCEPT !.ahead = @ \ {c}]]
  BY DEF TypeOK, Unlist
<1>2. NoConnection \in Connection
  BY DEF NoConnection, Connection
<1>3. ASSUME NEW d \in Cid
      PROVE  LET e == [conn[d] EXCEPT !.ahead = @ \ {c}]
             IN  /\ e \in Connection /\ e.context = conn[d].context
                 /\ e.token = conn[d].token /\ e.ahead = conn[d].ahead \ {c}
  <2>1. conn[d] \in Connection
    BY <1>1
  <2> QED
    BY <2>1 DEF Connection
<1>4. conn' \in [Cid -> Connection]
  BY <1>1, <1>2, <1>3
<1>5. \A d \in used' : /\ conn'[d].context = conn[d].context
                       /\ conn'[d].token = conn[d].token
                       /\ conn'[d].ahead = conn[d].ahead \ {c}
  BY <1>1, <1>3
<1>6. ListOrder'
  BY <1>1, <1>5 DEF ListOrder
<1> QED
  BY <1>1, <1>4, <1>5, <1>6

-----------------------------------------------------------------------------
(* The invariant, one kind of step after the other.                        *)
LEMMA GprsInit == Init => GprsInv
<1> SUFFICES ASSUME Init PROVE GprsInv
  OBVIOUS
<1>1. /\ used = {} /\ conn = [c \in Cid |-> NoConnection] /\ lastFailed = 0
      /\ cmds = <<>> /\ attempts = 0 /\ up = {} /\ crossed = FALSE
      /\ pending = {} /\ stray = FALSE
  BY DEF Init, RequestInit
<1>2. cmds \in Seq(Command) /\ NoConnection \in Connection
  BY <1>1 DEF NoConnection, Connection
<1>3. TypeOK
  BY <1>1, <1>2 DEF TypeOK, RequestTypeOK, ListOrder
<1>4. TokensHeld /\ ContextsDistinct /\ NoOrphan /\ TokenBacked /\ NoStray /\ FailedStopped
  BY <1>1 DEF TokensHeld, ContextsDistinct, NoOrphan, TokenBacked, NoStray, FailedStopped
<1>5. DOMAIN cmds = {}
  BY <1>1
<1>6. OneStart /\ StopsNamed
  BY <1>1, <1>5 DEF OneStart, OnlyStart, Starts, With, StopsNamed, StopSent
<1> QED
  BY <1>3, <1>4, <1>6 DEF GprsInv, ListInv, TurnInv

LEMMA Typed ==
  ASSUME GprsInv
  PROVE  /\ used \subseteq Cid /\ conn \in [Cid -> Connection] /\ ListOrder
         /\ lastFailed \in Cid \cup {0} /\ cmds \in Seq(Command) /\ attempts \in Nat
         /\ up \subseteq ContextId /\ crossed \in BOOLEAN
         /\ pending \subseteq Token /\ stray \in BOOLEAN
BY DEF GprsInv, ListInv, TypeOK, RequestTypeOK

LEMMA Fields ==
  ASSUME NEW r \in Connection
  PROVE  /\ r.context \in ContextId \cup {Starting} /\ r.token \in Token \cup {NoToken}
         /\ r.active \in 0 .. 2 /\ r.ahead \subseteq Cid
BY DEF Connection

(* A request that is answered at once.                                     *)
LEMMA ReplyInv ==
  ASSUME GprsInv, NEW t \in Token, Idle(t), Reply(t), lastFailed' \in {lastFailed, 0},
         crossed' = crossed
  PROVE  GprsInv'
<1>1. /\ UNCHANGED <<used, conn, cmds, attempts, up, crossed>>
      /\ pending' = pending /\ stray' = stray
  BY Typed DEF Reply, Answer, Idle
<1>2. 0 \notin Cid
  BY GprsAssumption DEF Cid
<1>3. TypeOK'
  BY <1>1 DEF GprsInv, ListInv, TypeOK, RequestTypeOK, ListOrder
<1>4. TokensHeld' /\ ContextsDistinct'
  BY <1>1 DEF GprsInv, ListInv, TokensHeld, Held, ContextsDistinct
<1>5. NoOrphan' /\ TokenBacked' /\ NoStray'
  BY <1>1 DEF GprsInv, TurnInv, NoOrphan, With, StopSent, TokenBacked, NoStray
<1>6. OneStart' /\ StopsNamed'
  BY <1>1 DEF GprsInv, TurnInv, OneStart, OnlyStart, Starts, With, StopsNamed, StopSent
<1>7. FailedStopped'
  BY <1>1, <1>2, Typed DEF GprsInv, TurnInv, FailedStopped, StopSent
<1> QED
  BY <1>3, <1>4, <1>5, <1>6, <1>7 DEF GprsInv, ListInv, TurnInv

(* A connection joins the list: if that crosses nothing, no other waits    *)
(* for a context.                                                          *)
LEMMA SetupInv ==
  ASSUME GprsInv, NEW t \in Token, Idle(t), SetupDataCall(t)
  PROVE  GprsInv'
<1>1. CASE Reply(t) /\ UNCHANGED <<lastFailed, crossed>>
  BY <1>1, ReplyInv
<1>2. CASE ~(Reply(t) /\ UNCHANGED <<lastFailed, crossed>>)
  <2> DEFINE r == [context |-> Starting, token |-> t, active |-> 0, failed |-> FALSE,
                   ahead |-> used]
  <2>1. PICK c \in FreeCid :
          /\ used' = used \cup {c} /\ conn' = [conn EXCEPT ![c] = r]
          /\ Send("START", Starting) /\ Answer({t}, {})
          /\ crossed' = (crossed \/ With(Starting) # {} \/ lastFailed # 0)
          /\ UNCHANGED <<lastFailed, attempts, up>>
    BY <1>2 DEF SetupDataCall
  <2>2. /\ used \subseteq Cid /\ conn \in [Cid -> Connection] /\ ListOrder
        /\ lastFailed \in Cid \cup {0} /\ cmds \in Seq(Command) /\ attempts \in Nat
        /\ up \subseteq ContextId /\ crossed \in BOOLEAN
        /\ pending \subseteq Token /\ stray \in BOOLEAN
    BY Typed
  <2>3. c \in Cid /\ c \notin used
    BY DEF FreeCid
  <2>4. /\ r \in Connection /\ r.context = Starting /\ r.token = t /\ r.ahead = used
    BY <2>2 DEF Connection
  <2> HIDE DEF r
  <2>5. /\ conn' \in [Cid -> Connection] /\ conn'[c] = r
        /\ \A d \in used : conn'[d] = conn[d] /\ d # c
    BY <2>1, <2>2, <2>3, <2>4
  <2>6. /\ cmds' \in Seq(Command)
        /\ \A x : StopSent(x)' <=> StopSent(x)
        /\ Starts' # {} /\ (Starts = {} => OnlyStart')
    BY <2>1, <2>2, Sent
  <2>7. pending' = pending \cup {t} /\ stray' = stray /\ t \notin pending /\ t # NoToken
    BY <2>1, <2>2, TokenAssumption DEF Answer, Idle
  <2>8. ListOrder'
    BY <2>1, <2>2, <2>3, <2>4, <2>5 DEF ListOrder
  <2>9. TypeOK'
    BY <2>1, <2>2, <2>3, <2>5, <2>6, <2>7, <2>8 DEF TypeOK, RequestTypeOK
  <2>10. TokensHeld'
    <3>1. Held(c)' = {t} /\ \A d \in used : Held(d)' = Held(d) /\ t \notin Held(d)
      BY <2>4, <2>5, <2>7 DEF Held, GprsInv, ListInv, TokensHeld
    <3> QED
      BY <2>1, <2>7, <3>1 DEF TokensHeld, GprsInv, ListInv
  <2>11. ContextsDistinct'
    BY <2>1, <2>4, <2>5, GprsAssumption DEF ContextsDistinct, GprsInv, ListInv
  <2>12. TurnInv'
    <3> SUFFICES ASSUME ~crossed' PROVE TurnInv'
      BY DEF TurnInv, NoOrphan, TokenBacked, NoStray, OneStart, StopsNamed, FailedStopped
    <3>1. ~crossed /\ With(Starting) = {} /\ lastFailed = 0
      BY <2>1, <2>2
    <3>2. attempts = 0 /\ Starts = {}
      BY <2>2, <3>1 DEF GprsInv, TurnInv, OneStart
    <3>3. NoOrphan' /\ StopsNamed' /\ NoStray'
      BY <2>1, <2>5, <2>6, <2>7, <3>1
         DEF GprsInv, TurnInv, NoOrphan, With, StopsNamed, NoStray
    <3>4. \E i \in DOMAIN cmds' : cmds'[i].op = "START"
      BY <2>6 DEF Starts
    <3>5. TokenBacked'
      BY <2>1, <2>4, <2>5, <2>6, <3>1, <3>4 DEF GprsInv, TurnInv, TokenBacked, With
    <3>6. With(Starting)' = {c}
      BY <2>1, <2>4, <2>5, <3>1 DEF With
    <3>7. OneStart'
      BY <2>1, <2>4, <2>5, <2>6, <2>7, <3>2, <3>6 DEF OneStart
    <3>8. FailedStopped'
      BY <2>1, <2>3, <2>2, <3>1, GprsAssumption DEF FailedStopped, Cid
    <3> QED
      BY <3>3, <3>5, <3>7, <3>8 DEF TurnInv
  <2> QED
    BY <2>9, <2>10, <2>11, <2>12 DEF GprsInv, ListInv
<1> QED
  BY <1>1, <1>2

(* A connection is told to stop: its token waits for the confirmation.     *)
LEMMA DeactivateInv ==
  ASSUME GprsInv, NEW t \in Token, Idle(t), NEW c \in Cid, DeactivateDataCall(t, c)
  PROVE  GprsInv'
<1>1. CASE c \notin used
  BY <1>1, ReplyInv DEF DeactivateDataCall
<1>2. CASE c \in used
  <2> DEFINE r == [conn[c] EXCEPT !.token = t]
             x == conn[c].context
  <2>1. /\ used' = used /\ conn' = [conn EXCEPT ![c] = r]
        /\ Send("STOP", x) /\ Answer({t}, {})
        /\ crossed' = (crossed \/ Held(c) # {} \/ x = Starting \/ StopSent(x))
        /\ UNCHANGED <<lastFailed, attempts, up>>
    BY <1>2 DEF DeactivateDataCall
  <2>2. /\ used \subseteq Cid /\ conn \in [Cid -> Connection] /\ ListOrder
        /\ lastFailed \in Cid \cup {0} /\ cmds \in Seq(Command) /\ attempts \in Nat
        /\ up \subseteq ContextId /\ crossed \in BOOLEAN
        /\ pending \subseteq Token /\ stray \in BOOLEAN
    BY Typed
  <2>3. /\ r \in Connection /\ r.context = x /\ r.token = t /\ r.ahead = conn[c].ahead
        /\ x \in ContextId \cup {Starting}
    <3>1. conn[c] \in Connection
      BY <2>2
    <3> QED
      BY <3>1 DEF Connection
  <2> HIDE DEF r
  <2>4. /\ conn' \in [Cid -> Connection] /\ conn'[c] = r
        /\ \A d \in Cid : d # c => conn'[d] = conn[d]
        /\ \A d \in Cid : conn'[d].context = conn[d].context /\ conn'[d].ahead = conn[d].ahead
    BY <2>1, <2>2, <2>3
  <2> HIDE DEF x
  <2>5. /\ cmds' \in Seq(Command) /\ Starts' = Starts
        /\ \A y : StopSent(y)' <=> StopSent(y) \/ y = x
    BY <2>1, <2>2, <2>3, Sent
  <2>6. pending' = pending \cup {t} /\ stray' = stray /\ t \notin pending /\ t # NoToken
    BY <2>1, <2>2, TokenAssumption DEF Answer, Idle
  <2>7. ListOrder'
    BY <2>1, <2>2, <2>4, ChangedOrder DEF GprsInv, ListInv
  <2>8. TypeOK'
    BY <2>1, <2>2, <2>4, <2>5, <2>6, <2>7 DEF TypeOK, RequestTypeOK
  <2>9. TokensHeld'
    <3>1. Held(c)' = {t} /\ \A d \in used : d # c => Held(d)' = Held(d) /\ t \notin Held(d)
      BY <2>2, <2>3, <2>4, <2>6 DEF Held, GprsInv, ListInv, TokensHeld
    <3> QED
      BY <2>1, <2>6, <3>1 DEF TokensHeld, GprsInv, ListInv
  <2>10. ContextsDistinct'
    BY <2>1, <2>2, <2>4 DEF ContextsDistinct, GprsInv, ListInv
  <2>11. With(Starting)' = With(Starting) /\ \A y : With(y)' = With(y)
    BY <2>1, <2>2, <2>4 DEF With
  <2>12. TurnInv'
    <3> SUFFICES ASSUME ~crossed' PROVE TurnInv'
      BY DEF TurnInv, NoOrphan, TokenBacked, NoStray, OneStart, StopsNamed, FailedStopped
    <3>1. ~crossed /\ x # Starting /\ ~StopSent(x) /\ conn[c].context = x
      BY <2>1, <2>2 DEF x
    <3>2. NoOrphan' /\ StopsNamed' /\ NoStray'
      BY <2>1, <2>5, <2>6, <2>11, <3>1 DEF GprsInv, TurnInv, NoOrphan, StopsNamed, NoStray
    <3>3. TokenBacked'
      BY <2>1, <2>2, <2>3, <2>4, <2>5, <3>1 DEF GprsInv, TurnInv, TokenBacked, Starts
    <3>4. \A d \in With(Starting) : d # c /\ d \in Cid
      BY <2>2, <3>1 DEF With
    <3>5. OneStart'
      BY <2>1, <2>4, <2>5, <2>11, <3>1, <3>4 DEF GprsInv, TurnInv, OneStart, OnlyStart
    <3>6. FailedStopped'
      BY <2>1, <2>2, <2>4, <2>5, <3>1 DEF GprsInv, TurnInv, FailedStopped
    <3> QED
      BY <3>2, <3>3, <3>5, <3>6 DEF TurnInv
  <2> QED
    BY <2>8, <2>9, <2>10, <2>12 DEF GprsInv, ListInv
<1> QED
  BY <1>1, <1>2

(* The connection that failed last leaves the list, with its token if it   *)
(* has one; if that crosses nothing its context is being stopped.          *)
LEMMA FailCauseInv ==
  ASSUME GprsInv, NEW t \in Token, Idle(t), LastDataCallFailCause(t)
  PROVE  GprsInv'
<1>1. CASE lastFailed \notin used
  BY <1>1, ReplyInv DEF LastDataCallFailCause
<1>2. CASE lastFailed \in used
  <2>1. /\ Unlist(lastFailed) /\ lastFailed' = 0 /\ Answer({t}, {t})
        /\ UNCHANGED <<cmds, attempts, up, crossed>>
    BY <1>2 DEF LastDataCallFailCause
  <2>2. /\ used' = used \ {lastFailed} /\ conn' \in [Cid -> Connection] /\ ListOrder'
        /\ \A d \in used' : /\ conn'[d].context = conn[d].context
                            /\ conn'[d].token = conn[d].token
    BY <1>2, <2>1, Unlisted DEF GprsInv, ListInv
  <2>3. pending' = pending /\ stray' = stray
    BY <2>1, Typed DEF Answer, Idle
  <2>4. 0 \notin Cid
    BY GprsAssumption DEF Cid
  <2>5. TypeOK'
    BY <2>1, <2>2, <2>3, Typed DEF TypeOK, RequestTypeOK
  <2>6. TokensHeld' /\ ContextsDistinct'
    BY <2>1, <2>2, <2>3 DEF GprsInv, ListInv, TokensHeld, Held, ContextsDistinct
  <2>7. TurnInv'
    <3> SUFFICES ASSUME ~crossed' PROVE TurnInv'
      BY DEF TurnInv, NoOrphan, TokenBacked, NoStray, OneStart, StopsNamed, FailedStopped
    <3>1. ~crossed /\ \A x : StopSent(x)' = StopSent(x)
      BY <2>1 DEF StopSent
    <3>2. IF conn[lastFailed].context = Starting
          THEN conn[lastFailed].token = NoToken ELSE StopSent(conn[lastFailed].context)
      BY <1>2, <3>1 DEF GprsInv, TurnInv, FailedStopped
    <3>3. /\ \A x : \A d \in With(x) : d = lastFailed \/ d \in With(x)'
          /\ \A x : With(x)' \subseteq With(x) \ {lastFailed}
      BY <2>2 DEF With
    <3>4. NoOrphan'
      <4>1. ASSUME NEW x \in up, With(x) # {}
            PROVE  With(x)' # {} \/ StopSent(x)
        <5>1. CASE lastFailed \in With(x)
          <6>1. conn[lastFailed].context = x /\ x # Starting
            BY <5>1, Typed, GprsAssumption DEF With
          <6> QED
            BY <3>2, <6>1
        <5>2. CASE lastFailed \notin With(x)
          BY <3>3, <4>1, <5>2
        <5> QED
          BY <5>1, <5>2
      <4> QED
        BY <2>1, <3>1, <4>1 DEF GprsInv, TurnInv, NoOrphan
    <3>5. StopsNamed' /\ NoStray'
      BY <2>3, <3>1 DEF GprsInv, TurnInv, StopsNamed, NoStray
    <3>6. TokenBacked'
      BY <2>1, <2>2, <3>1 DEF GprsInv, TurnInv, TokenBacked
    <3>7. OneStart'
      <4>1. Starts' = Starts
        BY <2>1 DEF Starts
      <4>2. /\ attempts <= 1 /\ OnlyStart /\ (attempts > 0 => Starts = {})
            /\ attempts > 0 \/ Starts # {} => \E c \in With(Starting) : conn[c].token # NoToken
            /\ \A c, d \in With(Starting) : c = d
        BY <3>1 DEF GprsInv, TurnInv, OneStart
      <4>3. ASSUME NEW c \in With(Starting), conn[c].token # NoToken
            PROVE  c \in With(Starting)' /\ conn'[c].token # NoToken
        <5>1. c \in used /\ conn[c].context = Starting /\ c # lastFailed
          BY <3>2, <4>3 DEF With
        <5> QED
          BY <2>2, <3>3, <4>3, <5>1
      <4> QED
        BY <2>1, <3>3, <4>1, <4>2, <4>3 DEF OneStart, OnlyStart
    <3>8. FailedStopped'
      BY <2>1, <2>2, <2>4, Typed DEF FailedStopped
    <3> QED
      BY <3>4, <3>5, <3>6, <3>7, <3>8 DEF TurnInv
  <2> QED
    BY <2>5, <2>6, <2>7 DEF GprsInv, ListInv
<1> QED
  BY <1>1, <1>2

(* A set-up under way has its connection, which is the one found.          *)
LEMMA StartFinds ==
  ASSUME GprsInv, ~crossed, attempts > 0
  PROVE  /\ attempts = 1 /\ Starts = {}
         /\ Find(Starting) = With(Starting)
         /\ \E c \in With(Starting) : With(Starting) = {c} /\ conn[c].token \in pending
<1>1. /\ attempts <= 1 /\ Starts = {} /\ \A c, d \in With(Starting) : c = d
  BY DEF GprsInv, TurnInv, OneStart
<1>2. PICK c \in With(Starting) : conn[c].token # NoToken
  BY DEF GprsInv, TurnInv, OneStart
<1>3. With(Starting) = {c}
  BY <1>1
<1>4. Find(Starting) = {c}
  BY <1>1, FindOnly DEF GprsInv, ListInv
<1>5. conn[c].token \in pending
  BY <1>2 DEF GprsInv, ListInv, TokensHeld, Held, With
<1> QED
  BY <1>1, <1>3, <1>4, <1>5, Typed

(* What every end of an attempt does to the connection found: x is its     *)
(* context from now on, and a set-up that got one and fails is stopped.    *)
Concluded(c, x) ==
  /\ attempts > 0 /\ attempts' = attempts - 1
  /\ used' = used /\ conn' \in [Cid -> Connection]
  /\ \A d \in Cid : conn'[d].ahead = conn[d].ahead /\ (d # c => conn'[d] = conn[d])
  /\ conn'[c].context = x /\ conn'[c].token = NoToken
  /\ Answer({}, {conn[c].token})
  /\ crossed' = crossed
  /\ \/ x = Starting /\ up' = up /\ cmds' = cmds /\ lastFailed' = c
     \/ /\ x \in ContextId \ up /\ up' = up \cup {x}
        /\ \/ Send("STOP", x) /\ lastFailed' = c
           \/ cmds' = cmds /\ lastFailed' = lastFailed

LEMMA ConcludedInv ==
  ASSUME GprsInv, NEW c \in Find(Starting), NEW x \in ContextId \cup {Starting},
         Concluded(c, x)
  PROVE  GprsInv'
<1>1. /\ used \subseteq Cid /\ conn \in [Cid -> Connection] /\ ListOrder
      /\ lastFailed \in Cid \cup {0} /\ cmds \in Seq(Command) /\ attempts \in Nat
      /\ up \subseteq ContextId /\ crossed \in BOOLEAN
      /\ pending \subseteq Token /\ stray \in BOOLEAN
  BY Typed
<1>2. c \in used /\ c \in Cid /\ conn[c].context = Starting
  BY <1>1, FindIn
<1>3. /\ attempts > 0 /\ attempts' = attempts - 1
      /\ used' = used /\ conn' \in [Cid -> Connection]
      /\ \A d \in Cid : conn'[d].ahead = conn[d].ahead /\ (d # c => conn'[d] = conn[d])
      /\ conn'[c].context = x /\ conn'[c].token = NoToken /\ crossed' = crossed
      /\ pending' = pending \ {conn[c].token}
      /\ stray' = (stray \/ conn[c].token \notin pending)
      /\ up' = up \cup ({x} \ {Starting}) /\ (x \in ContextId => x \notin up)
      /\ lastFailed' \in {c, lastFailed}
  BY <1>1, GprsAssumption DEF Concluded, Answer
<1>4. /\ cmds' \in Seq(Command) /\ Starts' = Starts
      /\ \A y : StopSent(y) => StopSent(y)'
      /\ \A y : StopSent(y)' => StopSent(y) \/ (y = x /\ x # Starting)
      /\ lastFailed' = c /\ x # Starting => StopSent(x)' \/ lastFailed = c
      /\ lastFailed' # lastFailed /\ x # Starting => StopSent(x)'
  <2>1. CASE cmds' = cmds
    <3>1. lastFailed' # lastFailed => x = Starting \/ StopSent(x)'
      <4>1. CASE Send("STOP", x)
        BY <1>1, <4>1, Sent
      <4> QED
        BY <4>1 DEF Concluded
    <3>2. Starts' = Starts /\ \A y : StopSent(y)' = StopSent(y)
      BY <2>1 DEF Starts, StopSent
    <3> QED
      BY <1>1, <1>3, <2>1, <3>1, <3>2
  <2>2. CASE Send("STOP", x) /\ x \in ContextId
    BY <1>1, <2>2, Sent, GprsAssumption
  <2> QED
    BY <2>1, <2>2 DEF Concluded
<1>5. ListOrder'
  BY <1>1, <1>3, ChangedOrder DEF GprsInv, ListInv
<1>6. TypeOK'
  BY <1>1, <1>2, <1>3, <1>4, <1>5 DEF TypeOK, RequestTypeOK
<1>7. TokensHeld'
  <2>1. Held(c)' = {} /\ \A d \in used : d # c => Held(d)' = Held(d)
    BY <1>1, <1>3 DEF Held
  <2>2. \A d \in used : d # c => conn[c].token \notin Held(d)
    BY <1>2 DEF Held, GprsInv, ListInv, TokensHeld
  <2> QED
    BY <1>3, <2>1, <2>2 DEF TokensHeld, GprsInv, ListInv
<1>8. ContextsDistinct'
  BY <1>1, <1>2, <1>3, GprsAssumption DEF ContextsDistinct, GprsInv, ListInv
<1>9. TurnInv'
  <2> SUFFICES ASSUME ~crossed' PROVE TurnInv'
    BY DEF TurnInv, NoOrphan, TokenBacked, NoStray, OneStart, StopsNamed, FailedStopped
  <2>1. /\ ~crossed /\ attempts = 1 /\ Starts = {} /\ With(Starting) = {c}
        /\ conn[c].token \in pending
    BY <1>3, StartFinds
  <2>2. /\ \A y \in ContextId : With(y) \subseteq With(y)'
        /\ x \in ContextId => With(x)' # {}
        /\ With(Starting)' \subseteq {c}
    BY <1>1, <1>2, <1>3, <2>1, GprsAssumption DEF With
  <2>3. NoOrphan'
    BY <1>1, <1>3, <1>4, <2>1, <2>2 DEF GprsInv, TurnInv, NoOrphan
  <2>4. StopsNamed'
    BY <1>4, <2>1 DEF GprsInv, TurnInv, StopsNamed
  <2>5. NoStray'
    BY <1>3, <2>1 DEF GprsInv, TurnInv, NoStray
  <2>6. TokenBacked'
    <3>1. \A d \in used : d # c => conn[d].context # Starting
      BY <2>1 DEF With
    <3> QED
      BY <1>1, <1>3, <1>4, <2>1, <3>1 DEF GprsInv, TurnInv, TokenBacked
  <2>7. OneStart'
    BY <1>3, <1>4, <2>1, <2>2 DEF OneStart, OnlyStart
  <2>8. FailedStopped'
    <3>1. CASE lastFailed' = lastFailed /\ lastFailed # c
      BY <1>1, <1>3, <1>4, <2>1, <3>1 DEF GprsInv, TurnInv, FailedStopped
    <3>2. CASE lastFailed = c
      BY <1>2, <2>1, <3>2, TokenAssumption, <1>1 DEF GprsInv, TurnInv, FailedStopped
    <3>3. CASE lastFailed' # lastFailed
      BY <1>3, <1>4, <3>3 DEF FailedStopped
    <3> QED
      BY <1>3, <3>1, <3>2, <3>3
  <2> QED
    BY <2>3, <2>4, <2>5, <2>6, <2>7, <2>8 DEF TurnInv
<1> QED
  BY <1>6, <1>7, <1>8, <1>9 DEF GprsInv, ListInv

(* Nothing was found for the context of a set-up: it was crossed, and the  *)
(* context is one that no connection has.                                  *)
LEMMA NotFoundInv ==
  ASSUME GprsInv, attempts > 0, attempts' = attempts - 1, Find(Starting) = {}, NoEffect,
         up \subseteq up', up' \subseteq ContextId, crossed' = crossed
  PROVE  GprsInv'
<1>1. crossed'
  BY StartFinds
<1>2. UNCHANGED <<used, conn, lastFailed, cmds, pending, stray>>
  BY DEF NoEffect, UnchangedList
<1>3. TypeOK'
  BY <1>2, Typed DEF TypeOK, RequestTypeOK, ListOrder
<1>4. TokensHeld' /\ ContextsDistinct'
  BY <1>2 DEF GprsInv, ListInv, TokensHeld, Held, ContextsDistinct
<1> QED
  BY <1>1, <1>3, <1>4
     DEF GprsInv, ListInv, TurnInv, NoOrphan, TokenBacked, NoStray, OneStart, StopsNamed,
         FailedStopped

(* Fields set when a set-up ends leave a connection a connection: the code *)
(* sets the cid, the active flag, the token and the failure cause.         *)
LEMMA EndedType ==
  ASSUME NEW q \in Connection, NEW x \in ContextId, NEW a \in 0 .. 2
  PROVE  /\ [q EXCEPT !.context = x, !.failed = TRUE, !.token = NoToken, !.active = a]
              \in Connection
         /\ [q EXCEPT !.context = x, !.active = a, !.token = NoToken] \in Connection
BY DEF Connection

(* ipc_proto_starting_network_ind, ipc_proto_start_network_cnf.            *)
LEMMA AttemptInv ==
  ASSUME GprsInv, ModemRefused \/ ModemStarted
  PROVE  GprsInv'
<1>1. used \subseteq Cid /\ conn \in [Cid -> Connection] /\ attempts \in Nat
  BY Typed
<1>2. CASE ModemRefused
  <2>1. /\ attempts > 0 /\ attempts' = attempts - 1 /\ StartingNetworkInd
        /\ UNCHANGED <<up, crossed>>
    BY <1>2 DEF ModemRefused
  <2>2. CASE Find(Starting) = {} /\ NoEffect
    BY <2>1, <2>2, NotFoundInv, Typed
  <2>3. ASSUME NEW c \in Find(Starting), Fail(c, Starting, conn[c].active), UNCHANGED cmds
        PROVE  GprsInv'
    <3> DEFINE r == [conn[c] EXCEPT !.context = Starting, !.failed = TRUE,
                                    !.token = NoToken, !.active = conn[c].active]
    <3>1. c \in Cid /\ conn[c] \in Connection
      BY <1>1, FindIn
    <3>2. /\ r \in Connection /\ r.context = Starting /\ r.token = NoToken
          /\ r.ahead = conn[c].ahead
      BY <3>1 DEF Connection
    <3>3. conn' = [conn EXCEPT ![c] = r]
      BY <1>1, <2>3, <3>1 DEF Fail
    <3> HIDE DEF r
    <3>4. /\ conn' \in [Cid -> Connection]
          /\ \A d \in Cid : conn'[d].ahead = conn[d].ahead /\ (d # c => conn'[d] = conn[d])
          /\ conn'[c].context = Starting /\ conn'[c].token = NoToken
      BY <1>1, <3>1, <3>2, <3>3
    <3>5. used' = used /\ lastFailed' = c /\ Answer({}, {conn[c].token})
      BY <2>3 DEF Fail
    <3>6. Concluded(c, Starting)
      BY <2>1, <2>3, <3>4, <3>5 DEF Concluded
    <3> QED
      BY <3>6, ConcludedInv
  <2> QED
    BY <2>1, <2>2, <2>3 DEF StartingNetworkInd
<1>3. CASE ModemStarted
  <2>1. PICK x \in ContextId \ up, ok \in BOOLEAN :
          /\ attempts > 0 /\ attempts' = attempts - 1
          /\ up' = up \cup {x} /\ StartNetworkCnf(x, ok) /\ crossed' = crossed
    BY <1>3 DEF ModemStarted
  <2>2. CASE Find(Starting) = {} /\ NoEffect
    BY <2>1, <2>2, NotFoundInv, Typed
  <2>3. ASSUME NEW c \in Find(Starting), NEW r \in Connection,
               r.context = x, r.token = NoToken, r.ahead = conn[c].ahead,
               conn' = [conn EXCEPT ![c] = r],
               Answer({}, {conn[c].token}), used' = used,
               \/ Send("STOP", x) /\ lastFailed' = c
               \/ UNCHANGED <<cmds, lastFailed>>
        PROVE  GprsInv'
    <3>1. c \in Cid
      BY <1>1, FindIn
    <3>2. Concluded(c, x)
      BY <1>1, <2>1, <2>3, <3>1 DEF Concluded
    <3> QED
      BY <3>2, ConcludedInv
  <2>4. ASSUME NEW c \in Find(Starting), Fail(c, x, ActiveAfter(c, ok)), Send("STOP", x)
        PROVE  GprsInv'
    <3> DEFINE r == [conn[c] EXCEPT !.context = x, !.failed = TRUE,
                                    !.token = NoToken, !.active = ActiveAfter(c, ok)]
    <3>1. c \in Cid /\ conn[c] \in Connection
      BY <1>1, FindIn
    <3>2. r \in Connection /\ r.context = x /\ r.token = NoToken /\ r.ahead = conn[c].ahead
      <4>1. x \in ContextId
        OBVIOUS
      <4>2. conn[c].active \in 0 .. 2
        BY <3>1 DEF Connection
      <4>3. ActiveAfter(c, ok) \in 0 .. 2
        BY <4>2 DEF ActiveAfter
      <4>4. r \in Connection
        BY <3>1, <4>1, <4>3, EndedType
      <4>5. r.context = x /\ r.token = NoToken /\ r.ahead = conn[c].ahead
        BY <3>1 DEF Connection
      <4> QED
        BY <4>4, <4>5
    <3>3. conn' = [conn EXCEPT ![c] = r]
      BY <1>1, <2>4, <3>1 DEF Fail
    <3>4. Answer({}, {conn[c].token}) /\ used' = used /\ lastFailed' = c
      BY <2>4 DEF Fail
    <3> HIDE DEF r
    <3> QED
      BY <2>3, <2>4, <3>2, <3>3, <3>4
  <2>5. ASSUME NEW c \in Find(Starting),
               conn' = [conn EXCEPT ![c].context = x, ![c].active = 2, ![c].token = NoToken],
               Answer({}, {conn[c].token}), UNCHANGED <<used, lastFailed, cmds>>
        PROVE  GprsInv'
    <3> DEFINE r == [conn[c] EXCEPT !.context = x, !.active = 2, !.token = NoToken]
    <3>1. c \in Cid /\ conn[c] \in Connection
      BY <1>1, FindIn
    <3>2. r \in Connection /\ r.context = x /\ r.token = NoToken /\ r.ahead = conn[c].ahead
      <4>1. x \in ContextId /\ 2 \in 0 .. 2
        OBVIOUS
      <4>2. r \in Connection
        BY <3>1, <4>1, EndedType
      <4>3. r.context = x /\ r.token = NoToken /\ r.ahead = conn[c].ahead
        BY <3>1 DEF Connection
      <4> QED
        BY <4>2, <4>3
    <3>3. conn' = [conn EXCEPT ![c] = r]
      BY <1>1, <2>5, <3>1
    <3> HIDE DEF r
    <3> QED
      BY <2>3, <2>5, <3>2, <3>3
  <2> QED
    BY <2>1, <2>2, <2>4, <2>5 DEF StartNetworkCnf
<1> QED
  BY <1>2, <1>3

(* The modem begins to set a context up.                                   *)
LEMMA ModemStartInv ==
  ASSUME GprsInv, ModemStart
  PROVE  GprsInv'
<1>1. /\ UNCHANGED <<used, conn, lastFailed, up, crossed, pending, stray>>
      /\ attempts' = attempts + 1 /\ Take("START") /\ attempts \in Nat
  BY Typed DEF ModemStart, UnchangedList
<1>2. /\ cmds' \in Seq(Command) /\ \A x : StopSent(x)' <=> StopSent(x)
      /\ Starts # {} /\ (OnlyStart => Starts' = {})
  BY <1>1, Taken, Typed
<1>3. TypeOK'
  BY <1>1, <1>2, Typed DEF TypeOK, RequestTypeOK, ListOrder
<1>4. TokensHeld' /\ ContextsDistinct'
  BY <1>1 DEF GprsInv, ListInv, TokensHeld, Held, ContextsDistinct
<1>5. NoOrphan' /\ NoStray' /\ StopsNamed' /\ FailedStopped'
  BY <1>1, <1>2 DEF GprsInv, TurnInv, NoOrphan, With, NoStray, StopsNamed, FailedStopped
<1>6. TokenBacked'
  BY <1>1, <1>2 DEF GprsInv, TurnInv, TokenBacked
<1>7. OneStart'
  <2>1. SUFFICES ASSUME ~crossed' PROVE OneStart'
    BY DEF OneStart
  <2>2. /\ ~crossed /\ OnlyStart /\ attempts = 0
        /\ \E c \in With(Starting) : conn[c].token # NoToken
        /\ \A c, d \in With(Starting) : c = d
    BY <1>1, <1>2, <2>1 DEF GprsInv, TurnInv, OneStart
  <2>3. With(Starting)' = With(Starting)
    BY <1>1 DEF With
  <2> QED
    BY <1>1, <1>2, <2>2, <2>3 DEF OneStart, OnlyStart
<1> QED
  BY <1>3, <1>4, <1>5, <1>6, <1>7 DEF GprsInv, ListInv, TurnInv

(* A context ends: its connection, the only one that has it, leaves the    *)
(* list with its token completed.                                          *)
LEMMA StoppedInv ==
  ASSUME GprsInv, NEW x \in ContextId \cup {Starting}, StopNetwork(x),
         up' = up \ {x}, attempts' = attempts, cmds' \in Seq(Command),
         \A y : StopSent(y)' => StopSent(y),
         \A y : StopSent(y) /\ y # x => StopSent(y)',
         OnlyStart => OnlyStart', Starts' = {} <=> Starts = {},
         crossed' \in BOOLEAN, ~crossed' => ~crossed /\ x # Starting
  PROVE  GprsInv'
<1>1. /\ used \subseteq Cid /\ conn \in [Cid -> Connection] /\ ListOrder
      /\ lastFailed \in Cid \cup {0} /\ attempts \in Nat /\ up \subseteq ContextId
      /\ pending \subseteq Token /\ stray \in BOOLEAN
  BY Typed
<1>2. x \in ContextId => \A c \in With(x) : Find(x) = {c}
  <2>1. x \in ContextId => \A c, d \in With(x) : c = d
    BY DEF GprsInv, ListInv, ContextsDistinct, With
  <2> QED
    BY <2>1, FindOnly DEF GprsInv, ListInv
<1>3. /\ used' \subseteq used /\ conn' \in [Cid -> Connection] /\ ListOrder'
      /\ \A d \in used' : /\ conn'[d].context = conn[d].context
                          /\ conn'[d].token = conn[d].token
      /\ \A d \in used \ used' : conn[d].context = x
      /\ x \in ContextId => \A d \in used' : conn[d].context # x
      /\ lastFailed' = lastFailed
      /\ pending' \subseteq pending /\ stray' = stray
      /\ \A d \in used' : Held(d) \subseteq pending'
  <2>1. CASE Find(x) = {} /\ UnchangedList /\ UNCHANGED requestVars
    <3>1. UNCHANGED <<used, conn, lastFailed, pending, stray>>
      BY <2>1 DEF UnchangedList, requestVars
    <3>2. x \in ContextId => With(x) = {}
      BY <1>2, <2>1
    <3> QED
      BY <1>1, <3>1, <3>2 DEF With, ListOrder, GprsInv, ListInv, TokensHeld
  <2>2. ASSUME NEW c \in Find(x), Unlist(c), Answer({}, Held(c)), UNCHANGED lastFailed
        PROVE  <1>3
    <3>1. c \in used /\ conn[c].context = x /\ c \in With(x)
      BY FindIn DEF With
    <3>2. /\ used' = used \ {c} /\ conn' \in [Cid -> Connection] /\ ListOrder'
          /\ \A d \in used' : /\ conn'[d].context = conn[d].context
                              /\ conn'[d].token = conn[d].token
      BY <2>2, <3>1, Unlisted DEF GprsInv, ListInv
    <3>3. x \in ContextId => \A d \in used' : conn[d].context # x
      BY <3>1, <3>2 DEF GprsInv, ListInv, ContextsDistinct
    <3>4. /\ Held(c) \subseteq pending
          /\ \A d \in used' : Held(d) \subseteq pending /\ Held(c) \cap Held(d) = {}
      BY <3>1, <3>2 DEF GprsInv, ListInv, TokensHeld
    <3>5. pending' = pending \ Held(c) /\ stray' = stray
      BY <1>1, <2>2, <3>4 DEF Answer
    <3> QED
      BY <2>2, <3>1, <3>2, <3>3, <3>4, <3>5
  <2> QED
    BY <2>1, <2>2 DEF StopNetwork
<1>4. TypeOK'
  BY <1>1, <1>3 DEF TypeOK, RequestTypeOK
<1>5. TokensHeld'
  BY <1>3 DEF TokensHeld, Held, GprsInv, ListInv
<1>6. ContextsDistinct'
  BY <1>3 DEF ContextsDistinct, GprsInv, ListInv
<1>7. TurnInv'
  <2> SUFFICES ASSUME ~crossed' PROVE TurnInv'
    BY DEF TurnInv, NoOrphan, TokenBacked, NoStray, OneStart, StopsNamed, FailedStopped
  <2>1. ~crossed /\ x # Starting /\ x \in ContextId
    OBVIOUS
  <2>2. \A y : y # x => With(y)' = With(y)
    BY <1>3 DEF With
  <2>3. NoOrphan'
    BY <2>1, <2>2 DEF GprsInv, TurnInv, NoOrphan
  <2>4. NoStray' /\ StopsNamed'
    BY <1>3, <2>1 DEF GprsInv, TurnInv, NoStray, StopsNamed
  <2>5. TokenBacked'
    BY <1>3, <2>1 DEF GprsInv, TurnInv, TokenBacked, Starts
  <2>6. OneStart'
    BY <1>3, <2>1, <2>2 DEF GprsInv, TurnInv, OneStart, With
  <2>7. FailedStopped'
    BY <1>3, <2>1 DEF GprsInv, TurnInv, FailedStopped
  <2> QED
    BY <2>3, <2>4, <2>5, <2>6, <2>7 DEF TurnInv
<1> QED
  BY <1>4, <1>5, <1>6, <1>7 DEF GprsInv, ListInv

LEMMA ModemStopInv ==
  ASSUME GprsInv, ModemStop
  PROVE  GprsInv'
<1> DEFINE x == Head(cmds).context
<1>1. /\ Take("STOP") /\ up' = up \ {x} /\ StopNetwork(x) /\ UNCHANGED <<attempts, crossed>>
  BY DEF ModemStop
<1>2. /\ cmds' \in Seq(Command) /\ Head(cmds) \in Command /\ StopSent(x)
      /\ \A y : StopSent(y)' => StopSent(y)
      /\ \A y : StopSent(y) /\ y # x => StopSent(y)'
      /\ (OnlyStart => OnlyStart') /\ (Starts' = {} <=> Starts = {})
  BY <1>1, Taken, Typed
<1>3. x \in ContextId \cup {Starting}
  BY <1>2 DEF Command
<1> HIDE DEF x
<1>4. ~crossed => x # Starting
  BY <1>2 DEF GprsInv, TurnInv, StopsNamed
<1> QED
  BY <1>1, <1>2, <1>3, <1>4, StoppedInv, Typed

LEMMA NetStopInv ==
  ASSUME GprsInv, NEW x \in ContextId, NetStop(x)
  PROVE  GprsInv'
<1>1. /\ up' = up \ {x} /\ StopNetwork(x) /\ UNCHANGED <<cmds, attempts>>
      /\ crossed' = (crossed \/ StopSent(x))
  BY DEF NetStop
<1>2. Starts' = Starts /\ \A y : StopSent(y)' = StopSent(y)
  BY <1>1 DEF Starts, StopSent
<1>3. (OnlyStart => OnlyStart') /\ cmds' \in Seq(Command) /\ crossed \in BOOLEAN
  BY <1>1, <1>2, Typed DEF OnlyStart
<1>4. crossed' \in BOOLEAN /\ (~crossed' => ~crossed /\ x # Starting)
  BY <1>1, <1>3, GprsAssumption DEF StopSent
<1> QED
  BY <1>1, <1>2, <1>3, <1>4, StoppedInv

(* A suspension changes the link of a connection and nothing else of it.   *)
LEMMA SetActiveInv ==
  ASSUME GprsInv, NEW x \in ContextId, NEW a \in 0 .. 2, SetActive(x, a)
  PROVE  GprsInv'
<1>1. PICK c \in Find(x) : conn' = [conn EXCEPT ![c].active = a]
  BY DEF SetActive
<1>2. UNCHANGED <<used, lastFailed, cmds, attempts, up, crossed, pending, stray>>
  BY DEF SetActive
<1>3. c \in Cid /\ conn \in [Cid -> Connection] /\ used \subseteq Cid
  BY FindIn, Typed
<1>4. [conn[c] EXCEPT !.active = a] \in Connection
  <2>1. conn[c] \in Connection
    BY <1>3
  <2> QED
    BY <2>1 DEF Connection
<1>5. /\ conn' \in [Cid -> Connection]
      /\ \A d \in Cid : /\ conn'[d].context = conn[d].context
                        /\ conn'[d].token = conn[d].token /\ conn'[d].ahead = conn[d].ahead
  BY <1>1, <1>3, <1>4
<1>6. ListOrder'
  BY <1>2, <1>3, <1>5, ChangedOrder DEF GprsInv, ListInv
<1>7. TypeOK'
  BY <1>2, <1>5, <1>6, Typed DEF TypeOK, RequestTypeOK
<1>8. TokensHeld' /\ ContextsDistinct'
  BY <1>2, <1>3, <1>5 DEF GprsInv, ListInv, TokensHeld, Held, ContextsDistinct
<1>9. /\ \A y : With(y)' = With(y) /\ StopSent(y)' = StopSent(y)
      /\ Starts' = Starts
  BY <1>2, <1>3, <1>5 DEF With, StopSent, Starts
<1>10. NoOrphan' /\ NoStray' /\ StopsNamed'
  BY <1>2, <1>9 DEF GprsInv, TurnInv, NoOrphan, NoStray, StopsNamed
<1>11. TokenBacked' /\ FailedStopped'
  BY <1>2, <1>3, <1>5, <1>9 DEF GprsInv, TurnInv, TokenBacked, FailedStopped
<1>12. OneStart'
  <2>1. \A c1 \in With(Starting) : conn'[c1].token = conn[c1].token
    BY <1>3, <1>5 DEF With
  <2> QED
    BY <1>2, <1>9, <2>1 DEF GprsInv, TurnInv, OneStart, OnlyStart
<1> QED
  BY <1>7, <1>8, <1>10, <1>11, <1>12 DEF GprsInv, ListInv, TurnInv

LEMMA GprsStep == GprsInv /\ [Next]_vars => GprsInv'
<1> SUFFICES ASSUME GprsInv, [Next]_vars PROVE GprsInv'
  OBVIOUS
<1>1. ASSUME NEW t \in Token, Idle(t), Request(t) PROVE GprsInv'
  BY <1>1, SetupInv, DeactivateInv, FailCauseInv DEF Request
<1>2. CASE ModemStep
  BY <1>2, ModemStartInv, AttemptInv, ModemStopInv DEF ModemStep
<1>3. ASSUME NEW x \in ContextId, NetStep(x) PROVE GprsInv'
  <2>1. 1 \in 0 .. 2 /\ 2 \in 0 .. 2
    OBVIOUS
  <2> QED
    BY <1>3, <2>1, NetStopInv, SetActiveInv DEF NetStep, NetSuspend, NetResume
<1>4. CASE UNCHANGED vars
  BY <1>4 DEF vars, GprsInv, ListInv, TurnInv, TypeOK, RequestTypeOK, ListOrder, TokensHeld,
              Held, ContextsDistinct, NoOrphan, With, StopSent, TokenBacked, NoStray,
              OneStart, OnlyStart, Starts, StopsNamed, FailedStopped
<1> QED
  BY <1>1, <1>2, <1>3, <1>4 DEF Next

LEMMA GprsInvariant == Spec => []GprsInv
  BY GprsInit, GprsStep, PTL DEF Spec

-----------------------------------------------------------------------------
(* gprs.c: a request is held by one connection at most, and the framework  *)
(* waits for it, whatever the order of requests and indications.           *)
THEOREM GprsTokensHeld == Spec => []TokensHeld
  BY GprsInvariant, PTL DEF GprsInv, ListInv

(* A context identifier that a connection has is one of the modem, and no  *)
(* other connection has it: ril_gprs_connection_find_contextId cannot find *)
(* the wrong connection by it.                                             *)
THEOREM GprsContextsDistinct == Spec => []ContextsDistinct
  BY GprsInvariant, PTL DEF GprsInv, ListInv

(* While everyone waits their turn no context stays up that no connection  *)
(* has and no command stops.                                               *)
THEOREM GprsNoOrphan == Spec => []NoOrphan
  BY GprsInvariant, PTL DEF GprsInv, TurnInv

(* And the modem owes an answer to every request a connection keeps.       *)
THEOREM GprsTokenBacked == Spec => []TokenBacked
  BY GprsInvariant, PTL DEF GprsInv, TurnInv

(* And no request is completed twice, although a connection that fails has *)
(* its token completed without a test.                                     *)
THEOREM GprsNoStray == Spec => []NoStray
  BY GprsInvariant, PTL DEF GprsInv, TurnInv

-----------------------------------------------------------------------------
(* The tunnel threads.                                                     *)

(* In memory that no thread has outlived: a thread works on a connection   *)
(* there is, and has its mutex from the lock to the unlock of its loop.    *)
MutexHeld ==
  \A t \in Thread :
    thread[t] \in Looking /\ on[t] \notin haunted =>
      /\ on[t] \in live
      /\ thread[t] # "lock" => mutex[on[t]] = t

(* thread_state follows the handler: 1 from the creation to the stop.      *)
StateFollows ==
  \A t \in Thread :
    thread[t] \in Looking /\ on[t] \notin haunted =>
      \/ state[on[t]] = 1
      \/ handler \in {"created", "pass", "passed", "stopped"} /\ at = on[t]

(* Who was started was started for some connection.                        *)
Started == \A t \in Thread : thread[t] = "none" \/ on[t] \in Conn

(* What the handler knows of the connection it works on.                   *)
HandlerKnows ==
  /\ handler \in {"created", "pass", "passed", "stopped"} => at \in Conn
  /\ handler \in {"pass", "passed"} => state[at] = 2
  /\ handler = "passed" /\ at \notin haunted => mutex[at] = "handler"
  /\ handler = "stopped" /\ at \notin haunted =>
       state[at] = 2 \/ \A t \in Thread : on[t] = at => thread[t] \notin Looking

(* StoppedQuiet, thread by thread.                                         *)
Quiet ==
  handler = "stopped" /\ at \notin haunted =>
    \A t \in Thread : on[t] = at => thread[t] \notin {"frame", "send", "unlock"}

TunnelInv ==
  /\ TunnelTypeOK /\ MutexHeld /\ StateFollows /\ Started /\ HandlerKnows /\ Quiet

LEMMA TunnelInitInv == TunnelInit => TunnelInv
BY TunnelAssumption
   DEF TunnelInit, TunnelInv, TunnelTypeOK, MutexHeld, StateFollows, Started, HandlerKnows,
       Quiet, ThreadPlace, HandlerPlace, Looking

(* A step of a thread keeps the invariant: the thread of a stopped         *)
(* connection finds thread_state at 2 and exits.                           *)
LEMMA TunnelThread ==
  ASSUME TunnelInv, NEW t \in Thread, ThreadStep(t)
  PROVE  TunnelInv'
<1>. USE TunnelAssumption DEF TunnelInv, TunnelTypeOK, ThreadPlace, HandlerPlace, Looking, Holding
<1>1. CASE Lock(t)
  <2>1. TunnelTypeOK'
    BY <1>1 DEF HandlerKnows, Lock, Astray, Go, connVars, threadVars, handlerVars
  <2>2. MutexHeld'
    BY <1>1 DEF MutexHeld, Started, HandlerKnows, Lock, Astray, Go, connVars, threadVars, handlerVars
  <2>3. StateFollows'
    BY <1>1 DEF StateFollows, MutexHeld, Started, HandlerKnows, Lock, Astray, Go, connVars, threadVars, handlerVars
  <2>4. Started'
    BY <1>1 DEF Started, Lock, Astray, Go, connVars, threadVars, handlerVars
  <2>5. HandlerKnows'
    BY <1>1 DEF HandlerKnows, StateFollows, MutexHeld, Started, Quiet, Lock, Astray, Go, connVars, threadVars, handlerVars
  <2>6. Quiet'
    BY <1>1 DEF Quiet, HandlerKnows, MutexHeld, StateFollows, Started, Lock, Astray, Go, connVars, threadVars, handlerVars
  <2>. QED
    BY <2>1, <2>2, <2>3, <2>4, <2>5, <2>6
<1>2. CASE Select(t)
  <2>1. TunnelTypeOK'
    BY <1>2 DEF HandlerKnows, Select, Astray, Go, connVars, threadVars, handlerVars
  <2>2. MutexHeld'
    BY <1>2 DEF MutexHeld, Started, HandlerKnows, Select, Astray, Go, connVars, threadVars, handlerVars
  <2>3. StateFollows'
    BY <1>2 DEF StateFollows, MutexHeld, Started, HandlerKnows, Select, Astray, Go, connVars, threadVars, handlerVars
  <2>4. Started'
    BY <1>2 DEF Started, Select, Astray, Go, connVars, threadVars, handlerVars
  <2>5. HandlerKnows'
    BY <1>2 DEF HandlerKnows, StateFollows, MutexHeld, Started, Quiet, Select, Astray, Go, connVars, threadVars, handlerVars
  <2>6. Quiet'
    BY <1>2 DEF Quiet, HandlerKnows, MutexHeld, StateFollows, Started, Select, Astray, Go, connVars, threadVars, handlerVars
  <2>. QED
    BY <2>1, <2>2, <2>3, <2>4, <2>5, <2>6
<1>3. CASE Check(t)
  <2>1. TunnelTypeOK'
    BY <1>3 DEF HandlerKnows, Check, Astray, GiveBack, Go, connVars, threadVars, handlerVars
  <2>2. MutexHeld'
    BY <1>3 DEF MutexHeld, Started, HandlerKnows, Check, Astray, GiveBack, Go, connVars, threadVars, handlerVars
  <2>3. StateFollows'
    BY <1>3 DEF StateFollows, MutexHeld, Started, HandlerKnows, Check, Astray, GiveBack, Go, connVars, threadVars, handlerVars
  <2>4. Started'
    BY <1>3 DEF Started, Check, Astray, GiveBack, Go, connVars, threadVars, handlerVars
  <2>5. HandlerKnows'
    BY <1>3 DEF HandlerKnows, StateFollows, MutexHeld, Started, Quiet, Check, Astray, GiveBack, Go, connVars, threadVars, handlerVars
  <2>6. Quiet'
    BY <1>3 DEF Quiet, HandlerKnows, MutexHeld, StateFollows, Started, Check, Astray, GiveBack, Go, connVars, threadVars, handlerVars
  <2>. QED
    BY <2>1, <2>2, <2>3, <2>4, <2>5, <2>6
<1>4. CASE TakeRilLock(t)
  <2>1. TunnelTypeOK'
    BY <1>4 DEF HandlerKnows, TakeRilLock, Astray, Go, connVars, threadVars, handlerVars
  <2>2. MutexHeld'
    BY <1>4 DEF MutexHeld, Started, HandlerKnows, TakeRilLock, Astray, Go, connVars, threadVars, handlerVars
  <2>3. StateFollows'
    BY <1>4 DEF StateFollows, MutexHeld, Started, HandlerKnows, TakeRilLock, Astray, Go, connVars, threadVars, handlerVars
  <2>4. Started'
    BY <1>4 DEF Started, TakeRilLock, Astray, Go, connVars, threadVars, handlerVars
  <2>5. HandlerKnows'
    BY <1>4 DEF HandlerKnows, StateFollows, MutexHeld, Started, Quiet, TakeRilLock, Astray, Go, connVars, threadVars, handlerVars
  <2>6. Quiet'
    BY <1>4 DEF Quiet, HandlerKnows, MutexHeld, StateFollows, Started, TakeRilLock, Astray, Go, connVars, threadVars, handlerVars
  <2>. QED
    BY <2>1, <2>2, <2>3, <2>4, <2>5, <2>6
<1>5. CASE SendFrame(t)
  <2>1. TunnelTypeOK'
    BY <1>5 DEF HandlerKnows, SendFrame, Astray, Go, connVars, threadVars, handlerVars
  <2>2. MutexHeld'
    BY <1>5 DEF MutexHeld, Started, HandlerKnows, SendFrame, Astray, Go, connVars, threadVars, handlerVars
  <2>3. StateFollows'
    BY <1>5 DEF StateFollows, MutexHeld, Started, HandlerKnows, SendFrame, Astray, Go, connVars, threadVars, handlerVars
  <2>4. Started'
    BY <1>5 DEF Started, SendFrame, Astray, Go, connVars, threadVars, handlerVars
  <2>5. HandlerKnows'
    BY <1>5 DEF HandlerKnows, StateFollows, MutexHeld, Started, Quiet, SendFrame, Astray, Go, connVars, threadVars, handlerVars
  <2>6. Quiet'
    BY <1>5 DEF Quiet, HandlerKnows, MutexHeld, StateFollows, Started, SendFrame, Astray, Go, connVars, threadVars, handlerVars
  <2>. QED
    BY <2>1, <2>2, <2>3, <2>4, <2>5, <2>6
<1>6. CASE Unlock(t)
  <2>1. TunnelTypeOK'
    BY <1>6 DEF HandlerKnows, Unlock, Astray, GiveBack, Go, connVars, threadVars, handlerVars
  <2>2. MutexHeld'
    BY <1>6 DEF MutexHeld, Started, HandlerKnows, Unlock, Astray, GiveBack, Go, connVars, threadVars, handlerVars
  <2>3. StateFollows'
    BY <1>6 DEF StateFollows, MutexHeld, Started, HandlerKnows, Unlock, Astray, GiveBack, Go, connVars, threadVars, handlerVars
  <2>4. Started'
    BY <1>6 DEF Started, Unlock, Astray, GiveBack, Go, connVars, threadVars, handlerVars
  <2>5. HandlerKnows'
    BY <1>6 DEF HandlerKnows, StateFollows, MutexHeld, Started, Quiet, Unlock, Astray, GiveBack, Go, connVars, threadVars, handlerVars
  <2>6. Quiet'
    BY <1>6 DEF Quiet, HandlerKnows, MutexHeld, StateFollows, Started, Unlock, Astray, GiveBack, Go, connVars, threadVars, handlerVars
  <2>. QED
    BY <2>1, <2>2, <2>3, <2>4, <2>5, <2>6
<1>7. CASE Lost(t)
  <2>1. TunnelTypeOK'
    BY <1>7 DEF HandlerKnows, Lost, Astray, Go, connVars, threadVars, handlerVars
  <2>2. MutexHeld'
    BY <1>7 DEF MutexHeld, Started, HandlerKnows, Lost, Astray, Go, connVars, threadVars, handlerVars
  <2>3. StateFollows'
    BY <1>7 DEF StateFollows, MutexHeld, Started, HandlerKnows, Lost, Astray, Go, connVars, threadVars, handlerVars
  <2>4. Started'
    BY <1>7 DEF Started, Lost, Astray, Go, connVars, threadVars, handlerVars
  <2>5. HandlerKnows'
    BY <1>7 DEF HandlerKnows, StateFollows, MutexHeld, Started, Quiet, Lost, Astray, Go, connVars, threadVars, handlerVars
  <2>6. Quiet'
    BY <1>7 DEF Quiet, HandlerKnows, MutexHeld, StateFollows, Started, Lost, Astray, Go, connVars, threadVars, handlerVars
  <2>. QED
    BY <2>1, <2>2, <2>3, <2>4, <2>5, <2>6
<1>. QED
  BY <1>1, <1>2, <1>3, <1>4, <1>5, <1>6, <1>7 DEF ThreadStep

(* A step of the handler keeps it: past the mutex, the thread is not in    *)
(* the part of its loop that holds it.                                     *)
LEMMA TunnelHandler ==
  ASSUME TunnelInv, HandlerStep
  PROVE  TunnelInv'
<1>. USE TunnelAssumption DEF TunnelInv, TunnelTypeOK, ThreadPlace, HandlerPlace, Looking, Holding
<1>1. CASE Enter
  <2>1. TunnelTypeOK'
    BY <1>1 DEF HandlerKnows, Enter, Turn, connVars, threadVars, handlerVars
  <2>2. MutexHeld'
    BY <1>1 DEF MutexHeld, Started, HandlerKnows, Enter, Turn, connVars, threadVars, handlerVars
  <2>3. StateFollows'
    BY <1>1 DEF StateFollows, MutexHeld, Started, HandlerKnows, Enter, Turn, connVars, threadVars, handlerVars
  <2>4. Started'
    BY <1>1 DEF Started, Enter, Turn, connVars, threadVars, handlerVars
  <2>5. HandlerKnows'
    BY <1>1 DEF HandlerKnows, StateFollows, MutexHeld, Started, Quiet, Enter, Turn, connVars, threadVars, handlerVars
  <2>6. Quiet'
    BY <1>1 DEF Quiet, HandlerKnows, MutexHeld, StateFollows, Started, Enter, Turn, connVars, threadVars, handlerVars
  <2>. QED
    BY <2>1, <2>2, <2>3, <2>4, <2>5, <2>6
<1>2. CASE Created
  <2>1. TunnelTypeOK'
    BY <1>2 DEF HandlerKnows, Created, Turn, connVars, threadVars, handlerVars
  <2>2. MutexHeld'
    BY <1>2 DEF MutexHeld, Started, HandlerKnows, Created, Turn, connVars, threadVars, handlerVars
  <2>3. StateFollows'
    BY <1>2 DEF StateFollows, MutexHeld, Started, HandlerKnows, Created, Turn, connVars, threadVars, handlerVars
  <2>4. Started'
    BY <1>2 DEF Started, Created, Turn, connVars, threadVars, handlerVars
  <2>5. HandlerKnows'
    BY <1>2 DEF HandlerKnows, StateFollows, MutexHeld, Started, Quiet, Created, Turn, connVars, threadVars, handlerVars
  <2>6. Quiet'
    BY <1>2 DEF Quiet, HandlerKnows, MutexHeld, StateFollows, Started, Created, Turn, connVars, threadVars, handlerVars
  <2>. QED
    BY <2>1, <2>2, <2>3, <2>4, <2>5, <2>6
<1>3. CASE Pass
  <2>1. TunnelTypeOK'
    BY <1>3 DEF HandlerKnows, Pass, Turn, connVars, threadVars, handlerVars
  <2>2. MutexHeld'
    BY <1>3 DEF MutexHeld, Started, HandlerKnows, Pass, Turn, connVars, threadVars, handlerVars
  <2>3. StateFollows'
    BY <1>3 DEF StateFollows, MutexHeld, Started, HandlerKnows, Pass, Turn, connVars, threadVars, handlerVars
  <2>4. Started'
    BY <1>3 DEF Started, Pass, Turn, connVars, threadVars, handlerVars
  <2>5. HandlerKnows'
    BY <1>3 DEF HandlerKnows, StateFollows, MutexHeld, Started, Quiet, Pass, Turn, connVars, threadVars, handlerVars
  <2>6. Quiet'
    BY <1>3 DEF Quiet, HandlerKnows, MutexHeld, StateFollows, Started, Pass, Turn, connVars, threadVars, handlerVars
  <2>. QED
    BY <2>1, <2>2, <2>3, <2>4, <2>5, <2>6
<1>4. CASE Passed
  <2>1. TunnelTypeOK'
    BY <1>4 DEF HandlerKnows, Passed, Turn, connVars, threadVars, handlerVars
  <2>2. MutexHeld'
    BY <1>4 DEF MutexHeld, Started, HandlerKnows, Passed, Turn, connVars, threadVars, handlerVars
  <2>3. StateFollows'
    BY <1>4 DEF StateFollows, MutexHeld, Started, HandlerKnows, Passed, Turn, connVars, threadVars, handlerVars
  <2>4. Started'
    BY <1>4 DEF Started, Passed, Turn, connVars, threadVars, handlerVars
  <2>5. HandlerKnows'
    BY <1>4 DEF HandlerKnows, StateFollows, MutexHeld, Started, Quiet, Passed, Turn, connVars, threadVars, handlerVars
  <2>6. Quiet'
    BY <1>4 DEF Quiet, HandlerKnows, MutexHeld, StateFollows, Started, Passed, Turn, connVars, threadVars, handlerVars
  <2>. QED
    BY <2>1, <2>2, <2>3, <2>4, <2>5, <2>6
<1>5. CASE Free
  <2>1. TunnelTypeOK'
    BY <1>5 DEF HandlerKnows, Free, Users, Turn, connVars, threadVars, handlerVars
  <2>2. MutexHeld'
    BY <1>5 DEF MutexHeld, Started, HandlerKnows, Free, Users, Turn, connVars, threadVars, handlerVars
  <2>3. StateFollows'
    BY <1>5 DEF StateFollows, MutexHeld, Started, HandlerKnows, Free, Users, Turn, connVars, threadVars, handlerVars
  <2>4. Started'
    BY <1>5 DEF Started, Free, Users, Turn, connVars, threadVars, handlerVars
  <2>5. HandlerKnows'
    BY <1>5 DEF HandlerKnows, StateFollows, MutexHeld, Started, Quiet, Free, Users, Turn, connVars, threadVars, handlerVars
  <2>6. Quiet'
    BY <1>5 DEF Quiet, HandlerKnows, MutexHeld, StateFollows, Started, Free, Users, Turn, connVars, threadVars, handlerVars
  <2>. QED
    BY <2>1, <2>2, <2>3, <2>4, <2>5, <2>6
<1>6. CASE Leave
  <2>1. TunnelTypeOK'
    BY <1>6 DEF HandlerKnows, Leave, Turn, connVars, threadVars, handlerVars
  <2>2. MutexHeld'
    BY <1>6 DEF MutexHeld, Started, HandlerKnows, Leave, Turn, connVars, threadVars, handlerVars
  <2>3. StateFollows'
    BY <1>6 DEF StateFollows, MutexHeld, Started, HandlerKnows, Leave, Turn, connVars, threadVars, handlerVars
  <2>4. Started'
    BY <1>6 DEF Started, Leave, Turn, connVars, threadVars, handlerVars
  <2>5. HandlerKnows'
    BY <1>6 DEF HandlerKnows, StateFollows, MutexHeld, Started, Quiet, Leave, Turn, connVars, threadVars, handlerVars
  <2>6. Quiet'
    BY <1>6 DEF Quiet, HandlerKnows, MutexHeld, StateFollows, Started, Leave, Turn, connVars, threadVars, handlerVars
  <2>. QED
    BY <2>1, <2>2, <2>3, <2>4, <2>5, <2>6
<1>7. CASE \E c \in Conn : Register(c)
  <2>1. TunnelTypeOK'
    BY <1>7 DEF HandlerKnows, Register, Turn, connVars, threadVars, handlerVars
  <2>2. MutexHeld'
    BY <1>7 DEF MutexHeld, Started, HandlerKnows, Register, Turn, connVars, threadVars, handlerVars
  <2>3. StateFollows'
    BY <1>7 DEF StateFollows, MutexHeld, Started, HandlerKnows, Register, Turn, connVars, threadVars, handlerVars
  <2>4. Started'
    BY <1>7 DEF Started, Register, Turn, connVars, threadVars, handlerVars
  <2>5. HandlerKnows'
    BY <1>7 DEF HandlerKnows, StateFollows, MutexHeld, Started, Quiet, Register, Turn, connVars, threadVars, handlerVars
  <2>6. Quiet'
    BY <1>7 DEF Quiet, HandlerKnows, MutexHeld, StateFollows, Started, Register, Turn, connVars, threadVars, handlerVars
  <2>. QED
    BY <2>1, <2>2, <2>3, <2>4, <2>5, <2>6
<1>8. CASE \E c \in Conn : Stop(c)
  <2>1. TunnelTypeOK'
    BY <1>8 DEF HandlerKnows, Stop, Turn, connVars, threadVars, handlerVars
  <2>2. MutexHeld'
    BY <1>8 DEF MutexHeld, Started, HandlerKnows, Stop, Turn, connVars, threadVars, handlerVars
  <2>3. StateFollows'
    BY <1>8 DEF StateFollows, MutexHeld, Started, HandlerKnows, Stop, Turn, connVars, threadVars, handlerVars
  <2>4. Started'
    BY <1>8 DEF Started, Stop, Turn, connVars, threadVars, handlerVars
  <2>5. HandlerKnows'
    BY <1>8 DEF HandlerKnows, StateFollows, MutexHeld, Started, Quiet, Stop, Turn, connVars, threadVars, handlerVars
  <2>6. Quiet'
    BY <1>8 DEF Quiet, HandlerKnows, MutexHeld, StateFollows, Started, Stop, Turn, connVars, threadVars, handlerVars
  <2>. QED
    BY <2>1, <2>2, <2>3, <2>4, <2>5, <2>6
<1>9. CASE \E c \in Conn, t \in Thread : Create(t, c)
  <2>1. TunnelTypeOK'
    BY <1>9 DEF HandlerKnows, Create, Turn, connVars, threadVars, handlerVars
  <2>2. MutexHeld'
    BY <1>9 DEF MutexHeld, Started, HandlerKnows, Create, Turn, connVars, threadVars, handlerVars
  <2>3. StateFollows'
    BY <1>9 DEF StateFollows, MutexHeld, Started, HandlerKnows, Create, Turn, connVars, threadVars, handlerVars
  <2>4. Started'
    BY <1>9 DEF Started, Create, Turn, connVars, threadVars, handlerVars
  <2>5. HandlerKnows'
    BY <1>9 DEF HandlerKnows, StateFollows, MutexHeld, Started, Quiet, Create, Turn, connVars, threadVars, handlerVars
  <2>6. Quiet'
    BY <1>9 DEF Quiet, HandlerKnows, MutexHeld, StateFollows, Started, Create, Turn, connVars, threadVars, handlerVars
  <2>. QED
    BY <2>1, <2>2, <2>3, <2>4, <2>5, <2>6
<1>. QED
  BY <1>1, <1>2, <1>3, <1>4, <1>5, <1>6, <1>7, <1>8, <1>9 DEF HandlerStep

LEMMA TunnelInvariant == TunnelSpec => []TunnelInv
<1>1. TunnelInv /\ [TunnelNext]_tunnelVars => TunnelInv'
  <2>. SUFFICES ASSUME TunnelInv, [TunnelNext]_tunnelVars PROVE TunnelInv'
    OBVIOUS
  <2>1. CASE HandlerStep
    BY <2>1, TunnelHandler
  <2>2. CASE \E t \in Thread : ThreadStep(t)
    BY <2>2, TunnelThread
  <2>3. CASE UNCHANGED tunnelVars
    BY <2>3
       DEF tunnelVars, connVars, threadVars, handlerVars, TunnelInv, TunnelTypeOK, MutexHeld,
           StateFollows, Started, HandlerKnows, Quiet
  <2>. QED
    BY <2>1, <2>2, <2>3 DEF TunnelNext
<1>. QED
  BY TunnelInitInv, <1>1, PTL DEF TunnelSpec

(* The variables keep their types (gprs.c:79-190).                         *)
THEOREM TunnelTypes == TunnelSpec => []TunnelTypeOK
<1>1. TunnelInv => TunnelTypeOK
  BY DEF TunnelInv
<1>. QED
  BY TunnelInvariant, <1>1, PTL

(* When gprs_stop_tunneling_thread has returned, and the connection is     *)
(* about to be freed, none of its threads carries a frame, unless a thread *)
(* outlived an earlier connection in that memory: for any number of        *)
(* connections and threads.                                                *)
THEOREM TunnelStopped == TunnelSpec => []StoppedQuiet
<1>1. TunnelInv => StoppedQuiet
  BY DEF TunnelInv, Quiet, StoppedQuiet, Carrying, Users
<1>. QED
  BY TunnelInvariant, <1>1, PTL
=============================================================================
