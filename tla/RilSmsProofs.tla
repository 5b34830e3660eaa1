----------------------------- MODULE RilSmsProofs -----------------------------
(***************************************************************************)
(* Proofs about RilSms, for every number of requests and of messages the   *)
(* modem has not reported on.  The invariants are inductive together: a    *)
(* report answers the right request because the token in flight is not one *)
(* that waits, and the list moves because it waits behind a message.       *)
(***************************************************************************)
EXTENDS RilSms, TLAPS

SmsInv == TypeOK /\ QueueBehind /\ Awaited /\ InFlight

LEMMA SmsInit == Init => SmsInv
  <1> SUFFICES ASSUME Init PROVE SmsInv
    OBVIOUS
  <1> USE TokenAssumption DEF Init, RequestInit
  <1>1. TypeOK
    <2>1. queue \in Seq(Token) /\ sent \in Seq(Token)
      OBVIOUS
    <2>2. RequestTypeOK
      BY DEF RequestTypeOK
    <2>3. QED
      BY <2>1, <2>2 DEF TypeOK
  <1>2. QueueBehind /\ InFlight
    BY DEF QueueBehind, InFlight
  <1>3. Awaited
    <2>1. DOMAIN queue = {} /\ Range(queue) = {}
      BY DEF Range
    <2>2. QED
      BY <2>1 DEF Awaited, IsInjective
  <1>4. QED
    BY <1>1, <1>2, <1>3 DEF SmsInv

(* Head, tail and what is appended of a queue without repetitions.         *)
LEMMA TailRange ==
  ASSUME NEW S, NEW q \in Seq(S), q # <<>>, IsInjective(q)
  PROVE  /\ Head(q) \in Range(q)
         /\ Tail(q) \in Seq(S)
         /\ Range(Tail(q)) = Range(q) \ {Head(q)}
         /\ IsInjective(Tail(q))
  <1>1. Head(q) = q[1] /\ Len(q) \in Nat /\ Len(q) >= 1 /\ DOMAIN q = 1..Len(q)
    OBVIOUS
  <1>2. /\ Tail(q) \in Seq(S) /\ DOMAIN Tail(q) = 1..(Len(q) - 1)
        /\ \A i \in 1..(Len(q) - 1) : Tail(q)[i] = q[i + 1]
    OBVIOUS
  <1>3. Head(q) \in Range(q)
    BY <1>1 DEF Range
  <1>4. Range(Tail(q)) = Range(q) \ {Head(q)}
    <2>1. ASSUME NEW x \in Range(Tail(q))
          PROVE  x \in Range(q) \ {Head(q)}
      <3>1. PICK i \in 1..(Len(q) - 1) : x = q[i + 1]
        BY <1>2 DEF Range
      <3>2. i + 1 \in DOMAIN q /\ 1 \in DOMAIN q /\ i + 1 # 1
        BY <1>1, <3>1
      <3>3. QED
        BY <1>1, <3>1, <3>2 DEF Range, IsInjective
    <2>2. ASSUME NEW x \in Range(q) \ {Head(q)}
          PROVE  x \in Range(Tail(q))
      <3>1. PICK i \in 1..Len(q) : x = q[i]
        BY <1>1 DEF Range
      <3>2. i # 1 /\ i - 1 \in 1..(Len(q) - 1) /\ (i - 1) + 1 = i
        BY <1>1, <3>1, <2>2
      <3>3. Tail(q)[i - 1] = x
        BY <1>2, <3>1, <3>2
      <3>4. QED
        BY <1>2, <3>2, <3>3 DEF Range
    <2>3. QED
      BY <2>1, <2>2
  <1>5. IsInjective(Tail(q))
    <2>1. ASSUME NEW i \in DOMAIN Tail(q), NEW j \in DOMAIN Tail(q), Tail(q)[i] = Tail(q)[j]
          PROVE  i = j
      <3>1. i + 1 \in DOMAIN q /\ j + 1 \in DOMAIN q /\ q[i + 1] = q[j + 1]
        BY <1>1, <1>2, <2>1
      <3>2. i + 1 = j + 1
        BY <3>1 DEF IsInjective
      <3>3. QED
        BY <1>1, <1>2, <2>1, <3>2
    <2>2. QED
      BY <2>1 DEF IsInjective
  <1>6. QED
    BY <1>2, <1>3, <1>4, <1>5

LEMMA AppendRange ==
  ASSUME NEW S, NEW q \in Seq(S), NEW t \in S, IsInjective(q), t \notin Range(q)
  PROVE  /\ Append(q, t) \in Seq(S)
         /\ Append(q, t) # <<>>
         /\ Range(Append(q, t)) = Range(q) \cup {t}
         /\ IsInjective(Append(q, t))
  <1>1. /\ Len(q) \in Nat /\ DOMAIN q = 1..Len(q)
        /\ Append(q, t) \in Seq(S) /\ Append(q, t) # <<>>
        /\ DOMAIN Append(q, t) = 1..(Len(q) + 1)
        /\ Append(q, t)[Len(q) + 1] = t
        /\ \A i \in 1..Len(q) : Append(q, t)[i] = q[i]
    OBVIOUS
  <1>2. 1..(Len(q) + 1) = 1..Len(q) \cup {Len(q) + 1}
    BY <1>1
  <1>3. Range(Append(q, t)) = Range(q) \cup {t}
    BY <1>1, <1>2 DEF Range
  <1>4. IsInjective(Append(q, t))
    <2>1. ASSUME NEW i \in DOMAIN Append(q, t), NEW j \in DOMAIN Append(q, t),
                 Append(q, t)[i] = Append(q, t)[j]
          PROVE  i = j
      <3>1. \A k \in 1..Len(q) : Append(q, t)[k] # t
        BY <1>1 DEF Range
      <3>2. CASE i \in 1..Len(q) /\ j \in 1..Len(q)
        BY <1>1, <2>1, <3>2 DEF IsInjective
      <3>3. CASE i = Len(q) + 1 \/ j = Len(q) + 1
        BY <1>1, <1>2, <2>1, <3>1, <3>3
      <3>4. QED
        BY <1>1, <1>2, <3>2, <3>3
    <2>2. QED
      BY <2>1 DEF IsInjective
  <1>5. QED
    BY <1>1, <1>3, <1>4

-----------------------------------------------------------------------------
(* The next message of the list goes to the modem, which has nothing else  *)
(* to report on unless a token was dropped.                                *)
LEMMA SendNextInv ==
  ASSUME SmsInv, NEW out \in Seq(Token), SendNext(out),
         RequestTypeOK', dropped' \in BOOLEAN, Range(queue) \subseteq pending',
         ~dropped' => out = <<>> /\ ~stray'
  PROVE  SmsInv'
  <1> USE DEF SmsInv
  <1>1. CASE queue = <<>>
    <2>1. queue' = queue /\ inflight' = NoToken /\ sent' = out
      BY <1>1 DEF SendNext
    <2>2. Range(queue) = {}
      BY <1>1 DEF Range
    <2>3. TypeOK' /\ QueueBehind'
      BY <1>1, <2>1 DEF TypeOK, QueueBehind
    <2>4. Awaited'
      BY <2>1, <2>2 DEF Awaited
    <2>5. InFlight'
      BY <2>1 DEF InFlight
    <2>6. QED
      BY <2>3, <2>4, <2>5
  <1>2. CASE queue # <<>>
    <2>1. inflight' = Head(queue) /\ queue' = Tail(queue) /\ sent' = Append(out, Head(queue))
      BY <1>2 DEF SendNext
    <2>2. queue \in Seq(Token) /\ IsInjective(queue)
      BY DEF TypeOK, Awaited
    <2>3. /\ Head(queue) \in Range(queue) /\ Tail(queue) \in Seq(Token)
          /\ Range(Tail(queue)) = Range(queue) \ {Head(queue)}
          /\ IsInjective(Tail(queue))
      BY <1>2, <2>2, TailRange
    <2>4. Head(queue) \in Token
      BY <1>2, <2>2
    <2>5. TypeOK'
      BY <2>1, <2>3, <2>4 DEF TypeOK
    <2>6. QueueBehind'
      BY <2>1, <2>4, TokenAssumption DEF QueueBehind
    <2>7. Awaited'
      BY <2>1, <2>3 DEF Awaited
    <2>8. InFlight'
      <3>1. out = <<>> => Append(out, Head(queue)) = <<Head(queue)>>
        BY <2>4
      <3>2. QED
        BY <2>1, <2>4, <3>1, TokenAssumption DEF InFlight
    <2>9. QED
      BY <2>5, <2>6, <2>7, <2>8
  <1>3. QED
    BY <1>1, <1>2

LEMMA SendSmsInv ==
  ASSUME SmsInv, NEW t \in Token, Idle(t), SendSms(t)
  PROVE  SmsInv'
  <1> USE DEF SmsInv
  <1>1. /\ pending' = pending \cup {t} /\ stray' = stray /\ dropped' = dropped
        /\ t \notin pending /\ t # NoToken
    BY TokenAssumption DEF SendSms, Answer, Idle, TypeOK, RequestTypeOK
  <1>2. queue \in Seq(Token) /\ IsInjective(queue) /\ t \notin Range(queue) /\ t # inflight
    BY <1>1, TokenAssumption DEF TypeOK, Awaited
  <1>3. CASE inflight # NoToken /\ queue' = Append(queue, t) /\ UNCHANGED <<inflight, sent>>
    <2>1. /\ Append(queue, t) \in Seq(Token)
          /\ Range(Append(queue, t)) = Range(queue) \cup {t}
          /\ IsInjective(Append(queue, t))
      BY <1>2, AppendRange
    <2>2. TypeOK'
      BY <1>1, <1>3, <2>1 DEF TypeOK, RequestTypeOK
    <2>3. QueueBehind' /\ InFlight'
      BY <1>1, <1>3 DEF QueueBehind, InFlight
    <2>4. Awaited'
      BY <1>1, <1>2, <1>3, <2>1 DEF Awaited
    <2>5. QED
      BY <2>2, <2>3, <2>4
  <1>4. CASE inflight = NoToken /\ inflight' = t /\ sent' = Append(sent, t) /\ UNCHANGED queue
    <2>1. TypeOK'
      BY <1>1, <1>4 DEF TypeOK, RequestTypeOK
    <2>2. QueueBehind'
      BY <1>1, <1>4 DEF QueueBehind
    <2>3. Awaited'
      BY <1>1, <1>2, <1>4 DEF Awaited
    <2>4. InFlight'
      <3>1. sent = <<>> => Append(sent, t) = <<t>>
        OBVIOUS
      <3>2. QED
        BY <1>1, <1>4, <3>1 DEF InFlight
    <2>5. QED
      BY <2>1, <2>2, <2>3, <2>4
  <1>5. QED
    BY <1>3, <1>4 DEF SendSms

LEMMA RejectSmsInv ==
  ASSUME SmsInv, NEW t \in Token, Idle(t), RejectSms(t)
  PROVE  SmsInv'
  <1> USE DEF SmsInv
  <1>1. pending' = pending /\ stray' = stray /\ sent \in Seq(Token) /\ SendNext(sent)
        /\ dropped' = (dropped \/ inflight # NoToken)
    BY DEF RejectSms, Answer, Idle, TypeOK, RequestTypeOK
  <1>2. Range(queue) \subseteq pending'
    BY <1>1 DEF Awaited
  <1>3. ~dropped' => sent = <<>> /\ ~stray'
    BY <1>1 DEF InFlight
  <1>4. RequestTypeOK' /\ dropped' \in BOOLEAN
    BY <1>1 DEF TypeOK, RequestTypeOK
  <1>5. QED
    BY <1>1, <1>2, <1>3, <1>4, SendNextInv

LEMMA SendStatusInv ==
  ASSUME SmsInv, SendStatus
  PROVE  SmsInv'
  <1> USE DEF SmsInv
  <1>1. /\ pending' = pending \ {inflight}
        /\ stray' = (stray \/ inflight \notin pending)
        /\ sent # <<>> /\ SendNext(Tail(sent)) /\ dropped' = dropped
    BY DEF SendStatus, Answer
  <1>2. Tail(sent) \in Seq(Token)
    BY <1>1 DEF TypeOK
  <1>3. Range(queue) \subseteq pending'
    BY <1>1 DEF Awaited
  <1>4. ~dropped' => Tail(sent) = <<>> /\ ~stray'
    <2> SUFFICES ASSUME ~dropped PROVE Tail(sent) = <<>> /\ ~stray'
      BY <1>1
    <2>1. inflight # NoToken /\ sent = <<inflight>> /\ ~stray
      BY <1>1 DEF InFlight
    <2>2. inflight \in pending
      BY <2>1 DEF Awaited
    <2>3. Tail(<<inflight>>) = <<>>
      OBVIOUS
    <2>4. QED
      BY <1>1, <2>1, <2>2, <2>3
  <1>5. RequestTypeOK' /\ dropped' \in BOOLEAN
    BY <1>1 DEF TypeOK, RequestTypeOK
  <1>6. QED
    BY <1>1, <1>2, <1>3, <1>4, <1>5, SendNextInv

LEMMA SmsNext == SmsInv /\ [Next]_vars => SmsInv'
  <1> SUFFICES ASSUME SmsInv, [Next]_vars PROVE SmsInv'
    OBVIOUS
  <1>1. CASE Next
    BY <1>1, SendSmsInv, RejectSmsInv, SendStatusInv DEF Next
  <1>2. CASE UNCHANGED vars
    BY <1>2 DEF vars, SmsInv, TypeOK, RequestTypeOK, QueueBehind, Awaited, InFlight
  <1>3. QED
    BY <1>1, <1>2

LEMMA SmsInvariant == Spec => []SmsInv
  BY SmsInit, SmsNext, PTL DEF Spec

-----------------------------------------------------------------------------
(* The list never waits for a report that is not coming: a message waits   *)
(* only behind one in flight.                                              *)
THEOREM SmsQueueBehind == Spec => []QueueBehind
  BY SmsInvariant, PTL DEF SmsInv

(* No two of the waiting messages are the same request, and the framework  *)
(* still waits for each of them.                                           *)
THEOREM SmsAwaited == Spec => []Awaited
  BY SmsInvariant, PTL DEF SmsInv

(* As long as no request failed behind a message in flight, a report       *)
(* answers the request it is about, and exactly once.                      *)
THEOREM SmsInFlight == Spec => []InFlight
  BY SmsInvariant, PTL DEF SmsInv

(* sms.c implements the line of RequestLine: arrival order, no overtaking,  *)
(* messages leave from the front only, even when requests fail.            *)
THEOREM SmsOutboxSafety == Spec => OutboxSafety
  <1>1. Init => Outbox!Init
    BY DEF Init, Outbox!Init, Line
  <1>2. SmsInv /\ [Next]_vars => [Outbox!Next]_Line
    <2> SUFFICES ASSUME SmsInv, [Next]_vars PROVE [Outbox!Next]_Line
      OBVIOUS
    <2> USE DEF SmsInv
    <2>1. /\ queue \in Seq(Token) /\ inflight \in Token \cup {NoToken}
          /\ inflight = NoToken => queue = <<>>
      BY DEF TypeOK, QueueBehind
    <2>2. ASSUME NEW out, SendNext(out)
          PROVE  [Outbox!Next]_Line
      <3>1. CASE inflight = NoToken
        <4>1. Line' = Line
          BY <3>1, <2>1, <2>2 DEF SendNext, Line
        <4>2. QED
          BY <4>1
      <3>2. CASE inflight # NoToken /\ queue = <<>>
        <4>1. Line = <<inflight>> /\ Line' = <<>>
          BY <3>2, <2>1, <2>2 DEF SendNext, Line
        <4>2. Outbox!Leave
          BY <4>1 DEF Outbox!Leave
        <4>3. QED
          BY <4>2 DEF Outbox!Next
      <3>3. CASE inflight # NoToken /\ queue # <<>>
        <4>1. Line = <<inflight>> \o queue
          BY <3>3 DEF Line
        <4>2. Head(queue) \in Token
          BY <2>1, <3>3
        <4>3. Line' = <<Head(queue)>> \o Tail(queue)
          BY <3>3, <2>2, <4>2, TokenAssumption DEF SendNext, Line
        <4>4. <<Head(queue)>> \o Tail(queue) = queue
          BY <2>1, <3>3
        <4>5. Tail(<<inflight>> \o queue) = queue /\ <<inflight>> \o queue # <<>>
          BY <2>1
        <4>6. Outbox!Leave
          BY <4>1, <4>3, <4>4, <4>5 DEF Outbox!Leave
        <4>7. QED
          BY <4>6 DEF Outbox!Next
      <3>4. QED
        BY <3>1, <3>2, <3>3
    <2>3. ASSUME NEW t \in Token, SendSms(t)
          PROVE  [Outbox!Next]_Line
      <3>1. CASE inflight # NoToken /\ queue' = Append(queue, t) /\ UNCHANGED inflight
        <4>1. Line = <<inflight>> \o queue /\ Line' = <<inflight>> \o Append(queue, t)
          BY <3>1 DEF Line
        <4>2. <<inflight>> \o Append(queue, t) = Append(<<inflight>> \o queue, t)
          BY <2>1
        <4>3. Outbox!Join(t)
          BY <4>1, <4>2 DEF Outbox!Join
        <4>4. QED
          BY <4>3 DEF Outbox!Next
      <3>2. CASE inflight = NoToken /\ inflight' = t /\ UNCHANGED queue
        <4>1. Line = <<>> /\ Line' = <<t>>
          BY <3>2, <2>1, TokenAssumption DEF Line
        <4>2. Outbox!Join(t)
          BY <4>1 DEF Outbox!Join
        <4>3. QED
          BY <4>2 DEF Outbox!Next
      <3>3. QED
        BY <2>3, <3>1, <3>2 DEF SendSms
    <2>4. CASE UNCHANGED vars
      BY <2>4 DEF vars, Line
    <2>5. QED
      BY <2>2, <2>3, <2>4 DEF Next, RejectSms, SendStatus
  <1>3. QED
    BY SmsInvariant, <1>1, <1>2, PTL DEF Spec, OutboxSafety, Outbox!Spec
=============================================================================
