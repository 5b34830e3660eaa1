--------------------------- MODULE RilSimIoProofs ---------------------------
(***************************************************************************)
(* Proofs about SIM file access, for every number of requests and of       *)
(* commands under way.  ipc_sim_io_response looks at the current token     *)
(* only; it answers the right request because the modem has at most one    *)
(* command whose answer goes there, and the token of that is current.      *)
(***************************************************************************)
EXTENDS RilSimIo, TLAPS

(* At most one answer to the handler of SIM I/O is under way.              *)
OneOut ==
  \A i, j \in DOMAIN cmds : ~ForSmsc(cmds[i]) /\ ~ForSmsc(cmds[j]) => i = j

SimIoInv == TypeOK /\ FirstIsCurrent /\ WaitsForReason /\ OwnAnswer /\ OneOut

(* The tokens of a list, one entry each, and answers for the library only. *)
Tokens(q) == {q[i].token : i \in DOMAIN q}
Distinct(q) == \A i, j \in DOMAIN q : q[i].token = q[j].token => i = j
SmscOnly(out) == \A i \in DOMAIN out : ForSmsc(out[i])

LEMMA SimIoInit == Init => SimIoInv
<1> SUFFICES ASSUME Init PROVE SimIoInv
  OBVIOUS
<1>1. /\ queue = <<>> /\ cmds = <<>> /\ current = NoToken /\ smsc = FALSE
      /\ pending = {} /\ stray = FALSE
  BY DEF Init, RequestInit
<1>2. TypeOK
  <2>1. queue \in Seq(Access) /\ cmds \in Seq(Access \cup SmscAccess)
    BY <1>1
  <2> QED
    BY <1>1, <2>1 DEF TypeOK, RequestTypeOK
<1>3. FirstIsCurrent /\ OwnAnswer /\ OneOut
  <2>1. DOMAIN queue = {} /\ DOMAIN cmds = {} /\ current \notin Token
    BY <1>1, TokenAssumption
  <2> QED
    BY <1>1, <2>1 DEF FirstIsCurrent, OwnAnswer, OneOut
<1>4. WaitsForReason
  BY <1>1, SimIoAssumption DEF WaitsForReason
<1> QED
  BY <1>2, <1>3, <1>4 DEF SimIoInv

(* sim.c:614-637: what leaves the list is its first entry when that has    *)
(* the token looked for.                                                   *)
LEMMA RemoveFront ==
  ASSUME NEW S, NEW q \in Seq(S), q # <<>>, NEW t, Head(q).token = t
  PROVE  Unregister(q, t) = Tail(q)
<1> DEFINE I == {i \in 1..Len(q) : q[i].token = t}
<1>1. /\ Head(q) = q[1] /\ Len(q) \in Nat /\ Len(q) >= 1
      /\ SubSeq(q, 2, Len(q)) = Tail(q) /\ SubSeq(q, 1, 0) = <<>>
  OBVIOUS
<1>2. 1 \in I /\ (CHOOSE x \in I : \A y \in I : x <= y) = 1
  BY <1>1
<1>3. SubSeq(q, 1, 1 - 1) \o SubSeq(q, 1 + 1, Len(q)) = Tail(q)
  BY <1>1
<1>4. (\E i \in 1..Len(q) : q[i].token = t) /\ I # {}
  BY <1>2
<1> QED
  BY <1>2, <1>3, <1>4, Zenon DEF Unregister, RemoveFirstMatch, SelectInSeq, Min, RemoveAt

LEMMA TailTokens ==
  ASSUME NEW q \in Seq(Access), q # <<>>, Distinct(q)
  PROVE  /\ Tail(q) \in Seq(Access)
         /\ Tokens(Tail(q)) = Tokens(q) \ {Head(q).token}
         /\ Distinct(Tail(q))
<1>1. /\ Head(q) = q[1] /\ Len(q) \in Nat /\ Len(q) >= 1 /\ DOMAIN q = 1..Len(q)
      /\ Tail(q) \in Seq(Access) /\ DOMAIN Tail(q) = 1..(Len(q) - 1)
      /\ \A i \in 1..(Len(q) - 1) : Tail(q)[i] = q[i + 1]
  OBVIOUS
<1>2. Tokens(Tail(q)) \subseteq Tokens(q) \ {Head(q).token}
  BY <1>1 DEF Tokens, Distinct
<1>3. ASSUME NEW i \in DOMAIN q, q[i].token # Head(q).token
      PROVE  q[i].token \in Tokens(Tail(q))
  <2>1. i # 1 /\ i - 1 \in DOMAIN Tail(q) /\ Tail(q)[i - 1] = q[i]
    BY <1>1, <1>3
  <2> QED
    BY <2>1 DEF Tokens
<1>4. Tokens(q) \ {Head(q).token} \subseteq Tokens(Tail(q))
  BY <1>3 DEF Tokens
<1>5. Distinct(Tail(q))
  <2>1. ASSUME NEW i \in DOMAIN Tail(q), NEW j \in DOMAIN Tail(q),
               Tail(q)[i].token = Tail(q)[j].token
        PROVE  i = j
    <3>1. /\ i \in Int /\ j \in Int
          /\ i + 1 \in DOMAIN q /\ j + 1 \in DOMAIN q
          /\ q[i + 1].token = q[j + 1].token
      BY <1>1, <2>1
    <3>2. i + 1 = j + 1
      BY <3>1 DEF Distinct
    <3> QED
      BY <3>1, <3>2
  <2> QED
    BY <2>1 DEF Distinct
<1> QED
  BY <1>1, <1>2, <1>4, <1>5

LEMMA AppendTokens ==
  ASSUME NEW q \in Seq(Access), NEW r \in Access, Distinct(q), r.token \notin Tokens(q)
  PROVE  /\ Append(q, r) \in Seq(Access) /\ Append(q, r) # <<>>
         /\ Tokens(Append(q, r)) = Tokens(q) \cup {r.token}
         /\ Distinct(Append(q, r))
         /\ Head(Append(q, r)) = IF q = <<>> THEN r ELSE Head(q)
<1>1. /\ Len(q) \in Nat /\ DOMAIN q = 1..Len(q)
      /\ Append(q, r) \in Seq(Access) /\ Append(q, r) # <<>>
      /\ DOMAIN Append(q, r) = 1..(Len(q) + 1)
      /\ Append(q, r)[Len(q) + 1] = r
      /\ \A i \in 1..Len(q) : Append(q, r)[i] = q[i]
  OBVIOUS
<1>2. 1..(Len(q) + 1) = 1..Len(q) \cup {Len(q) + 1}
  BY <1>1
<1>3. Tokens(Append(q, r)) = Tokens(q) \cup {r.token}
  BY <1>1, <1>2 DEF Tokens
<1>4. Distinct(Append(q, r))
  BY <1>1, <1>2 DEF Distinct, Tokens
<1>5. Head(Append(q, r)) = IF q = <<>> THEN r ELSE Head(q)
  <2>1. CASE q = <<>>
    BY <2>1
  <2>2. CASE q # <<>>
    BY <2>2
  <2> QED
    BY <2>1, <2>2
<1> QED
  BY <1>1, <1>3, <1>4, <1>5

(* What is sent for one request, behind answers for the library only.      *)
LEMMA IssueOut ==
  ASSUME NEW out \in Seq(Access \cup SmscAccess), SmscOnly(out), NEW r \in Access
  PROVE  /\ out \o Issue(r) \in Seq(Access \cup SmscAccess)
         /\ \A i \in DOMAIN (out \o Issue(r)) :
              ~ForSmsc((out \o Issue(r))[i]) =>
                i = Len(out) + 1 /\ (out \o Issue(r))[i] = r
<1>1. CASE r.op = "other"
  <2>1. Issue(r) = <<>> /\ out \o <<>> = out
    BY <1>1 DEF Issue
  <2> QED
    BY <2>1 DEF SmscOnly
<1>2. CASE r.op # "other"
  <2>1. Issue(r) = <<r>> /\ out \o <<r>> = Append(out, r)
    BY <1>2 DEF Issue
  <2>2. /\ Append(out, r) \in Seq(Access \cup SmscAccess) /\ Len(out) \in Nat
        /\ DOMAIN Append(out, r) = 1..(Len(out) + 1) /\ DOMAIN out = 1..Len(out)
        /\ Append(out, r)[Len(out) + 1] = r
        /\ \A i \in 1..Len(out) : Append(out, r)[i] = out[i]
    OBVIOUS
  <2>3. 1..(Len(out) + 1) = 1..Len(out) \cup {Len(out) + 1}
    BY <2>2
  <2> QED
    BY <2>1, <2>2, <2>3 DEF SmscOnly
<1> QED
  BY <1>1, <1>2

-----------------------------------------------------------------------------
(* ril_request_sim_io_next keeps the invariant whenever the list names the *)
(* requests the framework waits for and no answer to one is under way.     *)
LEMMA SimIoNextInv ==
  ASSUME NEW list \in Seq(Access), NEW out \in Seq(Access \cup SmscAccess),
         SimIoNext(list, out), SmscOnly(out), Distinct(list),
         pending' = Tokens(list), pending' \subseteq Token, stray' = FALSE, smsc' \in BOOLEAN
  PROVE  SimIoInv'
<1>1. CASE list = <<>>
  <2>1. queue' = <<>> /\ current' = NoToken /\ cmds' = out /\ pending' = {}
    BY <1>1 DEF SimIoNext, Tokens
  <2>2. TypeOK'
    <3>1. queue' \in Seq(Access)
      BY <2>1
    <3> QED
      BY <2>1, <3>1 DEF TypeOK, RequestTypeOK
  <2>3. FirstIsCurrent'
    <3>1. DOMAIN queue' = {} /\ current' \notin Token
      BY <2>1, TokenAssumption
    <3> QED
      BY <2>1, <3>1 DEF FirstIsCurrent
  <2>4. WaitsForReason'
    BY <2>1, SimIoAssumption DEF WaitsForReason
  <2>5. OwnAnswer' /\ OneOut'
    BY <2>1 DEF OwnAnswer, OneOut, SmscOnly
  <2> QED
    BY <2>2, <2>3, <2>4, <2>5 DEF SimIoInv
<1>2. CASE list # <<>>
  <2> DEFINE r == Head(list)
  <2>1. queue' = list /\ current' = r.token /\ cmds' = out \o Issue(r)
    BY <1>2 DEF SimIoNext
  <2>2. r \in Access /\ r.token \in Token
    <3>1. r \in Access
      BY <1>2
    <3> QED
      BY <3>1 DEF Access
  <2>3. r.token # DataWaiting /\ r.token # NoToken
    BY <2>2, SimIoAssumption, TokenAssumption
  <2> HIDE DEF r
  <2>4. /\ cmds' \in Seq(Access \cup SmscAccess)
        /\ \A i \in DOMAIN cmds' : ~ForSmsc(cmds'[i]) => i = Len(out) + 1 /\ cmds'[i] = r
    BY <2>1, <2>2, IssueOut
  <2>5. TypeOK'
    BY <2>1, <2>2, <2>4 DEF TypeOK, RequestTypeOK
  <2>6. FirstIsCurrent'
    BY <1>2, <2>1, <2>2 DEF FirstIsCurrent, Tokens, Distinct, r
  <2>7. WaitsForReason'
    BY <2>1, <2>3 DEF WaitsForReason
  <2>8. OwnAnswer' /\ OneOut'
    BY <2>1, <2>4 DEF OwnAnswer, OneOut
  <2> QED
    BY <2>5, <2>6, <2>7, <2>8 DEF SimIoInv
<1> QED
  BY <1>1, <1>2

(* The parts of the invariant that lists of the model share.               *)
LEMMA SimIoLists ==
  ASSUME SimIoInv
  PROVE  /\ queue \in Seq(Access) /\ cmds \in Seq(Access \cup SmscAccess)
         /\ pending = Tokens(queue) /\ Distinct(queue) /\ pending \subseteq Token
         /\ stray = FALSE /\ smsc \in BOOLEAN
         /\ current \notin Token => SmscOnly(cmds)
<1>1. /\ queue \in Seq(Access) /\ cmds \in Seq(Access \cup SmscAccess)
      /\ pending \subseteq Token /\ smsc \in BOOLEAN
  BY DEF SimIoInv, TypeOK, RequestTypeOK
<1>2. pending = Tokens(queue) /\ Distinct(queue)
  BY DEF SimIoInv, FirstIsCurrent, Tokens, Distinct
<1>3. stray = FALSE
  BY DEF SimIoInv, TypeOK, RequestTypeOK, OwnAnswer
<1>4. current \notin Token => SmscOnly(cmds)
  <2>1. ASSUME NEW i \in DOMAIN cmds, ~ForSmsc(cmds[i])
        PROVE  cmds[i].token \in Token /\ cmds[i].token = current
    <3>1. cmds[i] \in Access \cup SmscAccess
      BY <1>1
    <3> QED
      BY <2>1, <3>1 DEF ForSmsc, Access, SmscAccess, SimIoInv, OwnAnswer
  <2> QED
    BY <2>1 DEF SmscOnly
<1> QED
  BY <1>1, <1>2, <1>3, <1>4

(* A request joins the list at its end, so what is current stays so; it is *)
(* sent only when nothing is current, and then it is alone in the list.    *)
LEMMA SimIoJoin ==
  ASSUME SimIoInv, NEW r \in Access, Idle(r.token), SimIo(r)
  PROVE  SimIoInv'
<1>1. /\ queue \in Seq(Access) /\ cmds \in Seq(Access \cup SmscAccess)
      /\ pending = Tokens(queue) /\ Distinct(queue) /\ pending \subseteq Token
      /\ stray = FALSE /\ smsc \in BOOLEAN
      /\ current \notin Token => SmscOnly(cmds)
  BY SimIoLists
<1>2. r.token \in Token /\ r.token \notin Tokens(queue)
  BY <1>1 DEF Access, Idle
<1>3. /\ queue' = Append(queue, r) /\ smsc' = smsc
      /\ pending' = pending \cup {r.token} /\ stray' = FALSE
  BY <1>1 DEF SimIo, Answer
<1>4. /\ queue' \in Seq(Access) /\ queue' # <<>>
      /\ Tokens(queue') = Tokens(queue) \cup {r.token}
      /\ Distinct(queue')
      /\ Head(queue') = IF queue = <<>> THEN r ELSE Head(queue)
  BY <1>1, <1>2, <1>3, AppendTokens
<1>5. current = NoToken => queue = <<>>
  BY DEF SimIoInv, WaitsForReason
<1>6. /\ pending' = {queue'[i].token : i \in DOMAIN queue'}
      /\ \A i, j \in DOMAIN queue' : queue'[i].token = queue'[j].token => i = j
  BY <1>1, <1>3, <1>4 DEF Tokens, Distinct
<1>7. CASE current # NoToken /\ UNCHANGED <<current, cmds>>
  <2>1. TypeOK'
    BY <1>1, <1>2, <1>3, <1>4, <1>7 DEF SimIoInv, TypeOK, RequestTypeOK
  <2>2. FirstIsCurrent'
    BY <1>4, <1>6, <1>7 DEF SimIoInv, FirstIsCurrent
  <2>3. WaitsForReason' /\ OwnAnswer' /\ OneOut'
    BY <1>3, <1>7 DEF SimIoInv, WaitsForReason, OwnAnswer, OneOut
  <2> QED
    BY <2>1, <2>2, <2>3 DEF SimIoInv
<1>8. CASE current = NoToken /\ ~smsc /\ current' = DataWaiting /\ UNCHANGED cmds
  <2>1. TypeOK'
    BY <1>1, <1>2, <1>3, <1>4, <1>8 DEF SimIoInv, TypeOK, RequestTypeOK
  <2>2. FirstIsCurrent'
    BY <1>6, <1>8, SimIoAssumption DEF FirstIsCurrent
  <2>3. WaitsForReason'
    BY <1>3, <1>8, SimIoAssumption DEF WaitsForReason
  <2>4. OwnAnswer' /\ OneOut'
    BY <1>1, <1>3, <1>8, TokenAssumption DEF OwnAnswer, OneOut, SmscOnly
  <2> QED
    BY <2>1, <2>2, <2>3, <2>4 DEF SimIoInv
<1>9. CASE current = NoToken /\ smsc /\ current' = r.token /\ cmds' = cmds \o Issue(r)
  <2>1. queue' # <<>> /\ Head(queue') = r
    BY <1>4, <1>5, <1>9
  <2>2. SimIoNext(queue', cmds)
    BY <1>9, <2>1 DEF SimIoNext
  <2>3. SmscOnly(cmds)
    BY <1>1, <1>9, TokenAssumption
  <2>4. pending' = Tokens(queue') /\ pending' \subseteq Token
    BY <1>1, <1>2, <1>3, <1>4
  <2> QED
    BY <1>1, <1>3, <1>4, <2>2, <2>3, <2>4, SimIoNextInv
<1> QED
  BY <1>7, <1>8, <1>9 DEF SimIo

(* What the library asks itself goes to its own parser, whatever waits.    *)
LEMMA SimIoSmsc ==
  ASSUME SimIoInv, SimReady \/ SmscInfo
  PROVE  SimIoInv'
<1>1. UNCHANGED <<queue, current, smsc, pending, stray>>
  BY DEF SimReady, SmscInfo
<1>2. PICK out \in Seq(Access \cup SmscAccess), op \in {"info", "read"} :
        /\ cmds' = Append(out, SmscAsk(op))
        /\ out = cmds \/ (cmds # <<>> /\ out = Tail(cmds))
  <2>1. cmds \in Seq(Access \cup SmscAccess)
    BY DEF SimIoInv, TypeOK
  <2>2. CASE SimReady
    BY <2>1, <2>2 DEF SimReady
  <2>3. CASE SmscInfo
    <3>1. Tail(cmds) \in Seq(Access \cup SmscAccess) /\ cmds # <<>>
      BY <2>1, <2>3 DEF SmscInfo
    <3> QED
      BY <2>3, <3>1 DEF SmscInfo
  <2> QED
    BY <2>2, <2>3
<1>3. SmscAsk(op) \in SmscAccess /\ ForSmsc(SmscAsk(op))
  BY DEF SmscAsk, SmscAccess, ForSmsc
<1>4. /\ cmds \in Seq(Access \cup SmscAccess)
      /\ cmds' \in Seq(Access \cup SmscAccess)
      /\ Len(out) \in Nat /\ DOMAIN cmds' = 1..(Len(out) + 1)
      /\ cmds'[Len(out) + 1] = SmscAsk(op)
      /\ \A i \in 1..Len(out) : cmds'[i] = out[i]
  BY <1>2, <1>3 DEF SimIoInv, TypeOK
<1>5. PICK k \in {0, 1} : \A i \in 1..Len(out) : i + k \in DOMAIN cmds /\ out[i] = cmds[i + k]
  <2>1. CASE out = cmds
    BY <2>1, <1>4
  <2>2. CASE cmds # <<>> /\ out = Tail(cmds)
    BY <2>2, <1>4
  <2> QED
    BY <1>2, <2>1, <2>2
<1>6. \A i \in DOMAIN cmds' : ~ForSmsc(cmds'[i]) =>
        i \in 1..Len(out) /\ i + k \in DOMAIN cmds /\ cmds'[i] = cmds[i + k]
  <2>1. 1..(Len(out) + 1) = 1..Len(out) \cup {Len(out) + 1}
    BY <1>4
  <2> QED
    BY <1>3, <1>4, <1>5, <2>1
<1>7. TypeOK'
  BY <1>1, <1>4 DEF SimIoInv, TypeOK, RequestTypeOK
<1>8. FirstIsCurrent' /\ WaitsForReason'
  BY <1>1 DEF SimIoInv, FirstIsCurrent, WaitsForReason
<1>9. OwnAnswer'
  BY <1>1, <1>6 DEF SimIoInv, OwnAnswer
<1>10. OneOut'
  <2>1. ASSUME NEW i \in DOMAIN cmds', NEW j \in DOMAIN cmds',
               ~ForSmsc(cmds'[i]), ~ForSmsc(cmds'[j])
        PROVE  i = j
    <3>1. i + k = j + k
      BY <1>6, <2>1 DEF SimIoInv, OneOut
    <3>2. i \in Int /\ j \in Int /\ k \in Int
      BY <1>4
    <3> QED
      BY <3>1, <3>2
  <2> QED
    BY <2>1 DEF OneOut
<1> QED
  BY <1>7, <1>8, <1>9, <1>10 DEF SimIoInv

(* The number comes: the first request goes out if the list waits for it,  *)
(* and then nothing but answers for the library is under way.              *)
LEMMA SimIoNumber ==
  ASSUME SimIoInv, SmscNumber
  PROVE  SimIoInv'
<1>1. /\ queue \in Seq(Access) /\ cmds \in Seq(Access \cup SmscAccess)
      /\ pending = Tokens(queue) /\ Distinct(queue) /\ pending \subseteq Token
      /\ stray = FALSE /\ smsc \in BOOLEAN
      /\ current \notin Token => SmscOnly(cmds)
  BY SimIoLists
<1>2. /\ cmds # <<>> /\ smsc' = TRUE /\ pending' = pending /\ stray' = FALSE
  BY <1>1 DEF SmscNumber
<1>3. /\ Tail(cmds) \in Seq(Access \cup SmscAccess)
      /\ Len(cmds) \in Nat /\ DOMAIN cmds = 1..Len(cmds)
      /\ DOMAIN Tail(cmds) = 1..(Len(cmds) - 1)
      /\ \A i \in 1..(Len(cmds) - 1) : Tail(cmds)[i] = cmds[i + 1]
  BY <1>1, <1>2
<1>4. CASE ~smsc /\ current = DataWaiting
  <2>1. SimIoNext(queue, Tail(cmds))
    BY <1>4 DEF SmscNumber
  <2>2. SmscOnly(Tail(cmds))
    BY <1>1, <1>3, <1>4, SimIoAssumption DEF SmscOnly
  <2> QED
    BY <1>1, <1>2, <1>3, <2>1, <2>2, SimIoNextInv
<1>5. CASE ~(~smsc /\ current = DataWaiting)
  <2>1. cmds' = Tail(cmds) /\ UNCHANGED <<queue, current>>
    BY <1>5 DEF SmscNumber
  <2>2. TypeOK'
    BY <1>1, <1>2, <1>3, <2>1 DEF SimIoInv, TypeOK, RequestTypeOK
  <2>3. FirstIsCurrent'
    BY <1>2, <2>1 DEF SimIoInv, FirstIsCurrent
  <2>4. WaitsForReason'
    BY <1>5, <2>1 DEF SimIoInv, WaitsForReason
  <2>5. OwnAnswer' /\ OneOut'
    BY <1>2, <1>3, <2>1 DEF SimIoInv, OwnAnswer, OneOut
  <2> QED
    BY <2>2, <2>3, <2>4, <2>5 DEF SimIoInv
<1> QED
  BY <1>4, <1>5

(* What the handler of SIM I/O finds: the answer is to the first request,  *)
(* whose token is current, and no other answer for it is under way.        *)
LEMMA SimIoResponseFinds ==
  ASSUME SimIoInv, SimIoResponse
  PROVE  /\ current \in Token /\ queue # <<>> /\ Head(queue).token = current
         /\ SmscOnly(Tail(cmds)) /\ Tail(cmds) \in Seq(Access \cup SmscAccess)
         /\ pending' = pending \ {current} /\ stray' = FALSE
         /\ SimIoNext(Tail(queue), Tail(cmds))
<1>1. /\ queue \in Seq(Access) /\ cmds \in Seq(Access \cup SmscAccess)
      /\ pending = Tokens(queue) /\ stray = FALSE
      /\ current \notin Token => SmscOnly(cmds)
  BY SimIoLists
<1>2. cmds # <<>> /\ ~ForSmsc(Head(cmds))
  BY DEF SimIoResponse
<1>3. /\ Head(cmds) = cmds[1] /\ Len(cmds) \in Nat /\ DOMAIN cmds = 1..Len(cmds)
      /\ 1 \in DOMAIN cmds
      /\ Tail(cmds) \in Seq(Access \cup SmscAccess)
      /\ DOMAIN Tail(cmds) = 1..(Len(cmds) - 1)
      /\ \A i \in 1..(Len(cmds) - 1) : Tail(cmds)[i] = cmds[i + 1]
  BY <1>1, <1>2
<1>4. current \in Token
  BY <1>1, <1>2, <1>3 DEF SmscOnly
<1>5. queue # <<>> /\ Head(queue).token = current
  BY <1>4 DEF SimIoInv, FirstIsCurrent
<1>6. SmscOnly(Tail(cmds))
  BY <1>2, <1>3 DEF SmscOnly, SimIoInv, OneOut
<1>7. Unregister(queue, current) = Tail(queue)
  BY <1>1, <1>5, RemoveFront
<1>8. SimIoNext(Tail(queue), Tail(cmds))
  BY <1>7 DEF SimIoResponse
<1>9. {queue[i].token : i \in DOMAIN queue} = pending /\ current \in pending
  <2>1. 1 \in DOMAIN queue /\ Head(queue) = queue[1]
    BY <1>1, <1>5
  <2> QED
    BY <1>1, <1>5, <2>1 DEF Tokens
<1>10. pending' = pending \ {current} /\ stray' = FALSE
  BY <1>1, <1>9 DEF SimIoResponse, Answer
<1> QED
  BY <1>3, <1>4, <1>5, <1>6, <1>8, <1>10

LEMMA SimIoAnswered ==
  ASSUME SimIoInv, SimIoResponse
  PROVE  SimIoInv'
<1>1. /\ queue \in Seq(Access) /\ pending = Tokens(queue) /\ Distinct(queue)
      /\ pending \subseteq Token /\ smsc \in BOOLEAN
  BY SimIoLists
<1>2. /\ queue # <<>> /\ Head(queue).token = current
      /\ SmscOnly(Tail(cmds)) /\ Tail(cmds) \in Seq(Access \cup SmscAccess)
      /\ pending' = pending \ {current} /\ stray' = FALSE
      /\ SimIoNext(Tail(queue), Tail(cmds)) /\ smsc' = smsc
  BY SimIoResponseFinds DEF SimIoResponse
<1>3. /\ Tail(queue) \in Seq(Access) /\ Distinct(Tail(queue))
      /\ Tokens(Tail(queue)) = Tokens(queue) \ {current}
  BY <1>1, <1>2, TailTokens
<1> QED
  BY <1>1, <1>2, <1>3, SimIoNextInv

LEMMA SimIoStep == SimIoInv /\ [Next]_vars => SimIoInv'
<1> SUFFICES ASSUME SimIoInv, [Next]_vars PROVE SimIoInv'
  OBVIOUS
<1>1. ASSUME NEW t \in Token, Idle(t), SimIoError(t) PROVE SimIoInv'
  <2>1. UNCHANGED vars
    BY <1>1 DEF SimIoError, Answer, Idle, vars, SimIoInv, TypeOK, RequestTypeOK, OwnAnswer
  <2> QED
    BY <2>1 DEF vars, SimIoInv, TypeOK, RequestTypeOK, FirstIsCurrent, WaitsForReason,
                OwnAnswer, OneOut
<1>2. CASE UNCHANGED vars
  BY <1>2 DEF vars, SimIoInv, TypeOK, RequestTypeOK, FirstIsCurrent, WaitsForReason,
              OwnAnswer, OneOut
<1> QED
  BY <1>1, <1>2, SimIoJoin, SimIoSmsc, SimIoNumber, SimIoAnswered DEF Next, Modem

LEMMA SimIoInvariant == Spec => []SimIoInv
  BY SimIoInit, SimIoStep, PTL DEF Spec

-----------------------------------------------------------------------------
(* The list names exactly the requests the framework waits for, each once, *)
(* and a current token is that of the first.                               *)
THEOREM SimIoFirstIsCurrent == Spec => []FirstIsCurrent
  BY SimIoInvariant, PTL DEF SimIoInv

(* ril_request_sim_io: a request waits only behind one that is with the    *)
(* modem, or for the SMSC number while that is unknown.                    *)
THEOREM SimIoWaits == Spec => []WaitsForReason
  BY SimIoInvariant, PTL DEF SimIoInv

(* ipc_sim_io_response completes the request the answer is about, and no   *)
(* request twice, although it looks at the current token only.             *)
THEOREM SimIoOwnAnswer == Spec => []OwnAnswer
  BY SimIoInvariant, PTL DEF SimIoInv

(* The tokens of the list, in its order.                                   *)
LEMMA LineTokens ==
  ASSUME NEW q \in Seq(Access)
  PROVE  [i \in DOMAIN q |-> q[i].token] \in Seq(Token)
<1>1. Len(q) \in Nat /\ DOMAIN q = 1..Len(q)
  OBVIOUS
<1>2. \A i \in DOMAIN q : q[i].token \in Token
  <2>1. \A i \in DOMAIN q : q[i] \in Access
    OBVIOUS
  <2> QED
    BY <2>1 DEF Access
<1> QED
  BY <1>1, <1>2

(* sim.c implements the line of RequestLine: requests are worked on in     *)
(* arrival order, none is overtaken, through the wait for the number too.  *)
THEOREM SimIoInOrder == Spec => InOrder
<1>1. Init => Requests!Init
  BY DEF Init, Requests!Init, Line
<1>2. SimIoInv /\ [Next]_vars => [Requests!Next]_Line
  <2> SUFFICES ASSUME SimIoInv, [Next]_vars PROVE [Requests!Next]_Line
    OBVIOUS
  <2>1. queue \in Seq(Access)
    BY SimIoLists
  <2>2. queue' = queue => Line' = Line
    BY DEF Line
  <2>3. ASSUME NEW r \in Access, SimIo(r) PROVE [Requests!Next]_Line
    <3>1. queue' = Append(queue, r) /\ r.token \in Token
      BY <2>3 DEF SimIo, Access
    <3>2. Line \in Seq(Token) /\ Line' \in Seq(Token)
      <4>1. queue' \in Seq(Access)
        BY <2>1, <3>1
      <4> QED
        BY <2>1, <4>1, LineTokens DEF Line
    <3>3. /\ Len(queue) \in Nat /\ DOMAIN queue = 1..Len(queue)
          /\ Len(queue') = Len(queue) + 1 /\ DOMAIN queue' = 1..(Len(queue) + 1)
          /\ queue'[Len(queue) + 1] = r
          /\ \A i \in 1..Len(queue) : queue'[i] = queue[i]
      BY <2>1, <3>1
    <3>4. /\ DOMAIN Line = 1..Len(queue) /\ DOMAIN Line' = 1..(Len(queue) + 1)
          /\ Line'[Len(queue) + 1] = r.token
          /\ \A i \in 1..Len(queue) : Line'[i] = Line[i]
      BY <3>3 DEF Line
    <3>5. Len(Line) = Len(queue) /\ Len(Line') = Len(queue) + 1
      BY <3>2, <3>3, <3>4
    <3>6. Line' = Append(Line, r.token)
      BY <3>1, <3>2, <3>3, <3>4, <3>5
    <3> QED
      BY <3>1, <3>6 DEF Requests!Next, Requests!Join
  <2>4. CASE SimIoResponse
    <3>1. queue' = Tail(queue) /\ queue # <<>>
      BY <2>4, SimIoResponseFinds DEF SimIoNext
    <3>2. Line # <<>> /\ Line' = Tail(Line)
      BY <2>1, <3>1 DEF Line
    <3> QED
      BY <3>2 DEF Requests!Next, Requests!Leave
  <2>5. CASE SmscNumber
    <3>1. queue' = queue
      BY <2>5 DEF SmscNumber, SimIoNext
    <3> QED
      BY <2>2, <3>1
  <2> QED
    BY <2>2, <2>3, <2>4, <2>5
       DEF Next, Modem, SimIoError, SimReady, SmscInfo, vars
<1> QED
  BY SimIoInvariant, <1>1, <1>2, PTL DEF Spec, InOrder, Requests!Spec
=============================================================================
