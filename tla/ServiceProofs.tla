--------------------------- MODULE ServiceProofs ---------------------------
(***************************************************************************)
(* Proofs about the two services the library gives to others.              *)
(*                                                                         *)
(* The local server, for every number of peers, descriptors, messages and  *)
(* indications: the list of clients, the descriptors and the connections   *)
(* match although two threads remove clients without a lock in common and  *)
(* descriptors are used again, but for who is registered, read or removed  *)
(* while another client is taken out of the list.                          *)
(*                                                                         *)
(* The file service, for every length of a frame and of a packet and every *)
(* number of descriptors and directories: a request that comes in parts is *)
(* dispatched whole, and a handle means what was opened with it.           *)
(***************************************************************************)
EXTENDS SrsServer, FileService, SequenceTheorems, WellFoundedInduction, TLAPS

-----------------------------------------------------------------------------
(* The local server: the invariant.                                        *)

Alive == server \in {"accept", "register", "link"}

(* The clients the server has, with the one that is not in the list yet.   *)
Known == Listed \cup ({accepted} \ {NoPeer})

Once == \A i, j \in DOMAIN clients : clients[i] = clients[j] => i = j

Entries ==
  /\ server = "accept" => accepted = NoPeer
  /\ Once
  /\ accepted \notin Listed
  /\ \A p \in Known \ excused : fdOf[p] \in Fd

(* Who is known, or has a descriptor, has connected and was accepted; who  *)
(* has closed is excused.                                                  *)
Met ==
  /\ \A p \in Known : peer[p] # "off" /\ p \notin backlog
  /\ \A f \in Fd : owner[f] # NoPeer => peer[owner[f]] # "off" /\ owner[f] \notin backlog
  /\ \A p \in backlog : peer[p] # "off"
  /\ \A p \in Peer : peer[p] = "closed" => p \in excused

(* A connection has one descriptor, and it is the one of its entry, unless *)
(* the client is freed already.                                            *)
Owned ==
  /\ \A f \in Fd : owner[f] \in Known => fdOf[owner[f]] \in {f, 0}
  /\ \A f, g \in Fd : owner[f] = owner[g] /\ owner[f] # NoPeer => f = g
  /\ \A f \in Fd : owner[f] # NoPeer => owner[f] \in Known \cup dropped

Kept ==
  \A p \in Peer \ excused :
    peer[p] # "off" /\ p \notin backlog => p \in Known /\ owner[fdOf[p]] = p

(* A descriptor the reader is going to read has something to be read, or   *)
(* its peer is excused; for the one it has taken out of the set this holds *)
(* only of a client that is in the list.                                   *)
Waiting(f) == owner[f] # NoPeer /\ owner[f] \notin excused => toServer[owner[f]] # <<>>

Turn ==
  /\ server = "link" => srs = "acceptor"
  /\ reader \in {"recv", "dispatch", "drop"} => srs = "reader"
  /\ reader = "recv" => fd \in Fd \ ready
  /\ reader \in {"scan", "recv", "dispatch", "drop"} => \A f \in ready : Waiting(f)
  /\ reader = "recv" /\ owner[fd] \in Listed => Waiting(fd)

(* A pointer that is used was that of a client.                            *)
Pointers ==
  /\ gpsd \in {"send", "drop"} => ptr["gpsd"] \in Peer
  /\ reader \in {"dispatch", "drop"} => ptr["reader"] \in Peer
  /\ reader = "recv" => fd \in Fd
  /\ server \in {"register", "link"} => accepted \in Peer

Matched == Entries /\ Met /\ Owned /\ Kept /\ Turn
SrsInv == TypeOK /\ Pointers /\ (Alive => Matched)

-----------------------------------------------------------------------------
(* The local server: the list.                                             *)

(* A set of numbers from 0 on that holds one has a least one.              *)
LEMMA LeastIn ==
  ASSUME NEW S, S \subseteq Nat, S # {}
  PROVE  Min(S) \in S
<1> DEFINE R == OpToRel(<, Nat)
<1>1. PICK x \in S : \A y \in S : ~ (<<y, x>> \in R)
  <2> HIDE DEF R
  <2>1. IsWellFoundedOn(R, Nat)
    BY NatLessThanWellFounded DEF R
  <2> QED
    BY <2>1, WFMin
<1>2. ASSUME NEW y \in S PROVE x <= y
  <2>1. x \in Nat /\ y \in Nat
    OBVIOUS
  <2>2. CASE y < x
    <3>1. <<y, x>> \in Nat \X Nat /\ <<y, x>>[1] < <<y, x>>[2]
      BY <2>1, <2>2
    <3> QED
      BY <1>1, <3>1 DEF OpToRel
  <2> QED
    BY <2>1, <2>2
<1> QED
  BY <1>2 DEF Min

(* A walk sees clients of the list.                                        *)
LEMMA Seen ==
  ASSUME clients \in Seq(Peer), NEW seen \in Views
  PROVE  seen \in Seq(Peer) /\ ToSet(seen) \subseteq Listed
<1>1. CASE seen = clients
  BY <1>1 DEF Listed
<1>2. CASE seen # clients
  <2>1. PICK i \in DOMAIN clients : seen = SubSeq(clients, 1, i - 1)
    BY <1>2 DEF Views
  <2>2. /\ i \in 1 .. Len(clients) /\ Len(clients) \in Nat
        /\ seen \in Seq(Peer) /\ DOMAIN seen = 1 .. i - 1
        /\ \A j \in 1 .. i - 1 : seen[j] = clients[j]
    BY <2>1
  <2> QED
    BY <2>2 DEF Listed, ToSet
<1> QED
  BY <1>1, <1>2

(* srs_client_info_find_fd gives a client of the list that has the         *)
(* descriptor, if it gives one.                                            *)
LEMMA FoundFd ==
  ASSUME clients \in Seq(Peer), NEW seen \in Views, NEW f
  PROVE  FindFd(seen, f) # NoPeer => FindFd(seen, f) \in Listed /\ fdOf[FindFd(seen, f)] = f
<1> DEFINE I == {i \in 1 .. Len(seen) : fdOf[seen[i]] = f}
<1>1. /\ seen \in Seq(Peer) /\ ToSet(seen) \subseteq Listed
      /\ DOMAIN seen = 1 .. Len(seen) /\ I \subseteq Nat /\ 0 \notin I
  BY Seen
<1>2. CASE I = {}
  BY <1>2, Zenon DEF FindFd, First, SelectInSeq
<1>3. CASE I # {}
  <2>1. Min(I) \in I
    BY <1>1, <1>3, LeastIn
  <2>2. FindFd(seen, f) = IF Min(I) = 0 THEN NoPeer ELSE seen[Min(I)]
    BY <1>3, Zenon DEF FindFd, First, SelectInSeq
  <2>3. FindFd(seen, f) = seen[Min(I)]
    BY <1>1, <2>1, <2>2
  <2> HIDE DEF I
  <2>4. Min(I) \in DOMAIN seen /\ fdOf[seen[Min(I)]] = f
    BY <1>1, <2>1 DEF I
  <2> QED
    BY <1>1, <2>3, <2>4 DEF ToSet
<1> QED
  BY <1>2, <1>3

(* srs_client_info_find_type gives a client of the list, or none.          *)
LEMMA FoundGps ==
  ASSUME clients \in Seq(Peer)
  PROVE  FindGps \in Peer \cup {NoPeer}
<1> DEFINE I == {i \in 1 .. Len(clients) : clients[i] \in gps}
<1>1. DOMAIN clients = 1 .. Len(clients) /\ I \subseteq Nat
  OBVIOUS
<1>2. CASE I = {}
  BY <1>2, Zenon DEF FindGps, First, SelectInSeq
<1>3. CASE I # {}
  <2>1. Min(I) \in I
    BY <1>1, <1>3, LeastIn
  <2>2. FindGps = IF Min(I) = 0 THEN NoPeer ELSE clients[Min(I)]
    BY <1>3, Zenon DEF FindGps, First, SelectInSeq
  <2> HIDE DEF I
  <2>3. Min(I) \in DOMAIN clients
    BY <1>1, <2>1 DEF I
  <2> QED
    BY <2>2, <2>3
<1> QED
  BY <1>2, <1>3

(* A sequence without one of its elements.                                 *)
LEMMA Without ==
  ASSUME NEW S, NEW q \in Seq(S), NEW n \in 1 .. Len(q),
         NEW r, r = SubSeq(q, 1, n - 1) \o SubSeq(q, n + 1, Len(q))
  PROVE  /\ r \in Seq(S) /\ Len(r) = Len(q) - 1 /\ DOMAIN r = 1 .. Len(q) - 1
         /\ \A i \in 1 .. Len(q) - 1 : r[i] = IF i < n THEN q[i] ELSE q[i + 1]
<1> DEFINE a == SubSeq(q, 1, n - 1)
           b == SubSeq(q, n + 1, Len(q))
<1>1. Len(q) \in Nat /\ n \in Nat /\ n >= 1 /\ n <= Len(q)
  OBVIOUS
<1>2. a \in Seq(S) /\ Len(a) = n - 1 /\ \A i \in 1 .. n - 1 : a[i] = q[i]
  BY <1>1
<1>3. b \in Seq(S) /\ Len(b) = Len(q) - n
  BY <1>1, SubSeqProperties
<1>4. \A i \in 1 .. Len(q) - n : b[i] = q[n + i]
  BY <1>1, SubSeqProperties
<1> HIDE DEF a, b
<1>5. r = a \o b
  BY DEF a, b
<1>6. /\ r \in Seq(S) /\ Len(r) = Len(a) + Len(b)
      /\ \A i \in 1 .. Len(a) + Len(b) : r[i] = IF i <= Len(a) THEN a[i] ELSE b[i - Len(a)]
  <2>1. /\ a \o b \in Seq(S) /\ Len(a \o b) = Len(a) + Len(b)
        /\ \A i \in 1 .. Len(a) + Len(b) :
             (a \o b)[i] = IF i <= Len(a) THEN a[i] ELSE b[i - Len(a)]
    BY <1>2, <1>3, ConcatProperties, Zenon
  <2> QED
    BY <1>5, <2>1, Zenon
<1>7. Len(a) + Len(b) = Len(q) - 1
  BY <1>1, <1>2, <1>3
<1>8. DOMAIN r = 1 .. Len(q) - 1
  <2>1. r \in Seq(S) /\ Len(r) = Len(q) - 1
    BY <1>6, <1>7
  <2>2. DOMAIN r = 1 .. Len(r)
    BY <2>1, LenProperties, Zenon
  <2> QED
    BY <2>1, <2>2, Zenon
<1>9. ASSUME NEW i \in 1 .. Len(q) - 1 PROVE r[i] = IF i < n THEN q[i] ELSE q[i + 1]
  <2>1. r[i] = IF i <= Len(a) THEN a[i] ELSE b[i - Len(a)]
    BY <1>6, <1>7
  <2>2. CASE i < n
    <3>1. i <= Len(a) /\ i \in 1 .. n - 1
      BY <1>1, <1>2, <2>2
    <3> QED
      BY <1>2, <2>1, <2>2, <3>1
  <2>3. CASE ~(i < n)
    <3>1. /\ ~(i <= Len(a)) /\ i - Len(a) \in 1 .. Len(q) - n
          /\ n + (i - Len(a)) = i + 1
      BY <1>1, <1>2, <2>3
    <3> QED
      BY <1>4, <2>1, <2>3, <3>1
  <2> QED
    BY <2>2, <2>3
<1> QED
  BY <1>6, <1>7, <1>8, <1>9

(* srs_client_unregister takes the client out of the list.                 *)
LEMMA Removed ==
  ASSUME clients \in Seq(Peer), NEW p
  PROVE  /\ RemoveFirst(clients, p) \in Seq(Peer)
         /\ ToSet(RemoveFirst(clients, p)) \subseteq Listed
         /\ \A q \in Listed : q # p => q \in ToSet(RemoveFirst(clients, p))
         /\ p \notin Listed => RemoveFirst(clients, p) = clients
         /\ Once => /\ p \notin ToSet(RemoveFirst(clients, p))
                    /\ \A i, j \in DOMAIN RemoveFirst(clients, p) :
                         RemoveFirst(clients, p)[i] = RemoveFirst(clients, p)[j] => i = j
<1> DEFINE I == {i \in 1 .. Len(clients) : clients[i] = p}
           n == Min(I)
           r == SubSeq(clients, 1, n - 1) \o SubSeq(clients, n + 1, Len(clients))
<1>1. DOMAIN clients = 1 .. Len(clients) /\ Len(clients) \in Nat /\ I \subseteq Nat
  OBVIOUS
<1>2. CASE I = {}
  <2>1. RemoveFirst(clients, p) = clients
    BY <1>2, Zenon DEF RemoveFirst
  <2>2. p \notin Listed
    BY <1>1, <1>2 DEF Listed, ToSet
  <2> QED
    BY <2>1, <2>2 DEF Listed, Once
<1>3. CASE I # {}
  <2>1. n \in I
    BY <1>1, <1>3, LeastIn
  <2>2. RemoveFirst(clients, p) = r
    BY <1>3, Zenon DEF RemoveFirst, RemoveAt, SelectInSeq
  <2> HIDE DEF n
  <2>3. n \in 1 .. Len(clients) /\ clients[n] = p
    BY <2>1
  <2> DEFINE k(i) == IF i < n THEN i ELSE i + 1
  <2>4. /\ r \in Seq(Peer) /\ Len(r) = Len(clients) - 1 /\ DOMAIN r = 1 .. Len(clients) - 1
        /\ \A i \in 1 .. Len(clients) - 1 : r[i] = IF i < n THEN clients[i] ELSE clients[i + 1]
    <3>1. n \in 1 .. Len(clients)
      BY <2>3
    <3>2. \A q : q = SubSeq(clients, 1, n - 1) \o SubSeq(clients, n + 1, Len(clients)) =>
            /\ q \in Seq(Peer) /\ Len(q) = Len(clients) - 1 /\ DOMAIN q = 1 .. Len(clients) - 1
            /\ \A i \in 1 .. Len(clients) - 1 : q[i] = IF i < n THEN clients[i] ELSE clients[i + 1]
      BY <3>1, Without, Zenon
    <3> QED
      BY <3>2, Zenon
  <2> HIDE DEF r, I
  <2>5. /\ \A i \in DOMAIN r : r[i] = clients[k(i)]
        /\ \A i \in DOMAIN r : k(i) \in DOMAIN clients /\ k(i) # n
        /\ \A i, j \in DOMAIN r : k(i) = k(j) => i = j
        /\ \A j \in DOMAIN clients : j # n => \E i \in DOMAIN r : k(i) = j
    <3>1. \A i \in DOMAIN r : r[i] = clients[k(i)]
      BY <2>4
    <3>2. \A i \in DOMAIN r : k(i) \in DOMAIN clients /\ k(i) # n
      BY <1>1, <2>3, <2>4
    <3>3. \A i, j \in DOMAIN r : k(i) = k(j) => i = j
      BY <1>1, <2>3, <2>4
    <3>4. ASSUME NEW j \in DOMAIN clients, j # n PROVE \E i \in DOMAIN r : k(i) = j
      <4>1. CASE j < n
        <5>1. j \in DOMAIN r /\ k(j) = j
          BY <1>1, <2>3, <2>4, <4>1
        <5> QED
          BY <5>1
      <4>2. CASE ~(j < n)
        <5>1. j - 1 \in DOMAIN r /\ k(j - 1) = j
          BY <1>1, <2>3, <2>4, <3>4, <4>2
        <5> QED
          BY <5>1
      <4> QED
        BY <4>1, <4>2
    <3> QED
      BY <3>1, <3>2, <3>3, <3>4
  <2> HIDE DEF k
  <2>6. n \in DOMAIN clients
    BY <1>1, <2>3
  <2>7. ToSet(r) \subseteq Listed
    BY <2>5 DEF ToSet, Listed
  <2>8. ASSUME NEW q \in Listed, q # p PROVE q \in ToSet(r)
    <3>1. PICK j \in DOMAIN clients : clients[j] = q
      BY DEF Listed, ToSet
    <3>2. j # n
      BY <2>3, <2>8, <3>1
    <3>3. PICK i \in DOMAIN r : k(i) = j
      BY <2>5, <3>2
    <3> QED
      BY <2>5, <3>1, <3>3 DEF ToSet
  <2>9. ASSUME Once PROVE \A i, j \in DOMAIN r : r[i] = r[j] => i = j
    <3>1. ASSUME NEW i \in DOMAIN r, NEW j \in DOMAIN r, r[i] = r[j] PROVE i = j
      <4>1. k(i) = k(j)
        BY <2>5, <2>9, <3>1 DEF Once
      <4> QED
        BY <2>5, <4>1
    <3> QED
      BY <3>1
  <2>10. ASSUME Once PROVE p \notin ToSet(r)
    BY <2>3, <2>5, <2>6, <2>10 DEF Once, ToSet
  <2>11. p \in Listed
    BY <1>1, <2>3 DEF Listed, ToSet
  <2> QED
    BY <2>2, <2>4, <2>7, <2>8, <2>9, <2>10, <2>11
<1> QED
  BY <1>2, <1>3

-----------------------------------------------------------------------------
(* The local server: the types, and what a pointer is.                     *)

LEMMA SrsTypesInit == Init => TypeOK /\ Pointers
<1> SUFFICES ASSUME Init PROVE TypeOK /\ Pointers
  OBVIOUS
<1>1. <<>> \in Seq(Peer) /\ <<>> \in Seq({"ping", "hello"}) /\ <<>> \in Seq({"ping", "gps"})
  OBVIOUS
<1> QED
  BY <1>1, SrsAssumption DEF Init, TypeOK, Pointers, Fd, Sender, Nobody

Sound == TypeOK /\ Pointers

LEMMA PeerSound ==
  ASSUME Sound, NEW p \in Peer, PeerStep(p)
  PROVE  Sound'
<1> USE DEF Sound, TypeOK
<1>1. /\ UNCHANGED <<listVars, serverVars, srs, ril, readerVars, gpsVars, ptr>>
      /\ dropped' = dropped /\ excused' \subseteq Peer
  BY DEF PeerStep, history, Close
<1>2. /\ peer' \in [Peer -> {"off", "connected", "closed"}]
      /\ asked' \in [Peer -> {"no", "asked", "answered", "merged"}]
      /\ toServer' \in [Peer -> Seq({"ping", "hello"})]
      /\ toPeer' \in [Peer -> Seq({"ping", "gps"})]
      /\ backlog' \subseteq Peer
  <2>1. CASE Connect(p)
    BY <2>1 DEF Connect
  <2>2. CASE Hello(p)
    <3>1. Append(toServer[p], "hello") \in Seq({"ping", "hello"})
      OBVIOUS
    <3> QED
      BY <2>2, <3>1 DEF Hello
  <2>3. CASE Ping(p)
    <3>1. Append(toServer[p], "ping") \in Seq({"ping", "hello"})
      OBVIOUS
    <3> QED
      BY <2>3, <3>1 DEF Ping
  <2>4. CASE Receive(p)
    <3>1. Tail(toPeer[p]) \in Seq({"ping", "gps"})
      BY <2>4 DEF Receive
    <3> QED
      BY <2>4, <3>1 DEF Receive
  <2>5. CASE Close(p)
    BY <2>5 DEF Close
  <2> QED
    BY <2>1, <2>2, <2>3, <2>4, <2>5 DEF PeerStep
<1> QED
  BY <1>1, <1>2 DEF Pointers, listVars, serverVars, readerVars, gpsVars

LEMMA AcceptorSound ==
  ASSUME Sound, Acceptor
  PROVE  Sound'
<1> USE DEF Sound, listVars, serverVars, readerVars, gpsVars, history, peerVars
<1>1. ASSUME NEW p \in Peer, Accept(p) PROVE Sound'
  BY <1>1 DEF Accept, TypeOK, Pointers
<1>2. CASE Register
  <2>1. behind' \in Peer \cup {NoPeer}
    <3>1. clients \in Seq(Peer) /\ behind' \in {LastEntry} \cup Unlinking
      BY <1>2 DEF Register, TypeOK
    <3>2. LastEntry \in Peer \cup {NoPeer}
      <4>1. CASE clients = <<>>
        BY <4>1 DEF LastEntry
      <4>2. CASE clients # <<>>
        <5>1. Len(clients) \in DOMAIN clients
          BY <3>1, <4>2
        <5> QED
          BY <3>1, <4>2, <5>1 DEF LastEntry, Last
      <4> QED
        BY <4>1, <4>2
    <3>3. Unlinking \subseteq Peer
      BY <3>1 DEF Unlinking, Listed, ToSet
    <3> QED
      BY <3>1, <3>2, <3>3
  <2> QED
    BY <1>2, <2>1 DEF Register, TypeOK, Pointers
<1>5. CASE Link
  <2>1. clients' \in Seq(Peer)
    <3>1. Append(clients, accepted) \in Seq(Peer)
      BY <1>5 DEF Link, TypeOK, Pointers
    <3> QED
      BY <1>5, <3>1 DEF Link, TypeOK
  <2>2. excused' \subseteq Peer /\ dropped' \subseteq Peer
    BY <1>5 DEF Link, TypeOK, Pointers
  <2> QED
    BY <1>5, <2>1, <2>2 DEF Link, TypeOK, Pointers
<1>3. CASE AcceptFails
  BY <1>3 DEF AcceptFails, TypeOK, Pointers
<1>4. CASE Destroy
  BY <1>4 DEF Destroy, TypeOK, Pointers
<1> QED
  BY <1>1, <1>2, <1>3, <1>4, <1>5 DEF Acceptor

(* A thread that removes a client leaves the types alone.                  *)
LEMMA UnregisterTypes ==
  ASSUME TypeOK, NEW p, NEW seen, Unregister(p, seen)
  PROVE  clients' \in Seq(Peer) /\ fdOf' \in [Peer -> Fd \cup {0}] /\ gps' \subseteq Peer
<1>1. CASE p \in ToSet(seen)
  <2>1. clients' \in Seq(Peer)
    BY <1>1, Removed DEF Unregister, TypeOK
  <2> QED
    BY <1>1, <2>1 DEF Unregister, Wipe, TypeOK
<1>2. CASE p \notin ToSet(seen)
  BY <1>2 DEF Unregister, TypeOK
<1> QED
  BY <1>1, <1>2

LEMMA CloseTypes ==
  ASSUME TypeOK, NEW s \in Sender, NEW p \in Peer \cup {NoPeer}, CloseAny(p, s)
  PROVE  /\ owner' \in [Fd -> Peer \cup {NoPeer}] /\ excused' \subseteq Peer
         /\ dropped' \subseteq Peer /\ ptr' \in [Sender -> Peer \cup {NoPeer}]
         /\ ril' = Nobody /\ UNCHANGED <<peerVars, serverVars, srs>>
         /\ \A t \in Sender : t # s => ptr'[t] = ptr[t]
<1>1. PICK f \in Fd \cup {0} :
        /\ owner' = IF f = 0 THEN owner ELSE [owner EXCEPT ![f] = NoPeer]
        /\ excused' = (excused \cup {p} \cup (IF f = 0 THEN {} ELSE {owner[f]})) \ {NoPeer}
  BY DEF CloseAny
<1>2. owner' \in [Fd -> Peer \cup {NoPeer}] /\ excused' \subseteq Peer
  BY <1>1 DEF TypeOK
<1> QED
  BY <1>2 DEF CloseAny, TypeOK

LEMMA MeansPeer ==
  ASSUME TypeOK, NEW q, NEW p \in Means(q)
  PROVE  p \in Listed \cup {NoPeer} /\ Listed \subseteq Peer
  BY DEF Means, Listed, ToSet, TypeOK

LEMMA WriteTypes ==
  ASSUME TypeOK, NEW p \in Peer \cup {NoPeer}, NEW what \in {"ping", "gps"},
         Writable(p), Write(p, what)
  PROVE  /\ toPeer' \in [Peer -> Seq({"ping", "gps"})]
         /\ asked' \in [Peer -> {"no", "asked", "answered", "merged"}]
<1>1. fdOf[p] \in Fd /\ owner[fdOf[p]] \in Peer
  BY DEF Writable, TypeOK
<1>2. Append(toPeer[owner[fdOf[p]]], what) \in Seq({"ping", "gps"})
  BY <1>1 DEF TypeOK
<1> QED
  BY <1>1, <1>2 DEF Write, TypeOK

LEMMA GpsSound ==
  ASSUME Sound, Gps
  PROVE  Sound'
<1> USE DEF Sound, listVars, serverVars, readerVars, gpsVars, history, peerVars
<1>1. CASE GpsFind
  <2>1. FindGps \in Peer
    BY <1>1, FoundGps DEF GpsFind, TypeOK
  <2> QED
    BY <1>1, <2>1, SrsAssumption DEF GpsFind, TypeOK, Pointers, Sender
<1>2. CASE GpsSend
  <2>1. PICK p \in Means(ptr["gpsd"]) :
          IF server = "destroyed" \/ Writable(p)
          THEN /\ IF server = "destroyed" THEN UNCHANGED <<toPeer, asked>> ELSE Write(p, "gps")
               /\ gpsd' = "idle" /\ ril' = Nobody
               /\ ptr' = [ptr EXCEPT !["gpsd"] = NoPeer]
          ELSE gpsd' = "drop" /\ UNCHANGED <<toPeer, asked, ril, ptr>>
    BY <1>2 DEF GpsSend
  <2>2. p \in Peer \cup {NoPeer}
    BY MeansPeer
  <2>3. /\ toPeer' \in [Peer -> Seq({"ping", "gps"})]
        /\ asked' \in [Peer -> {"no", "asked", "answered", "merged"}]
    BY <2>1, <2>2, WriteTypes DEF TypeOK
  <2>4. /\ ptr' \in [Sender -> Peer \cup {NoPeer}] /\ ptr'["reader"] = ptr["reader"]
        /\ gpsd' \in {"idle", "drop"} /\ gpsd' # "idle" => ptr'["gpsd"] = ptr["gpsd"]
        /\ ril' \in Sender \cup {Nobody}
    BY <2>1 DEF TypeOK, Sender
  <2> QED
    BY <1>2, <2>3, <2>4 DEF GpsSend, TypeOK, Pointers
<1>3. CASE GpsDrop
  <2>1. PICK p \in Means(ptr["gpsd"]) \cup {NoPeer} :
          /\ Wipe(p) /\ ptr' = [ptr EXCEPT !["gpsd"] = p]
          /\ excused' = (excused \cup {p}) \ {NoPeer}
    BY <1>3 DEF GpsDrop
  <2>2. p \in Peer \cup {NoPeer}
    BY <2>1, MeansPeer
  <2>3. /\ fdOf' \in [Peer -> Fd \cup {0}] /\ gps' \subseteq Peer /\ excused' \subseteq Peer
        /\ ptr' \in [Sender -> Peer \cup {NoPeer}] /\ ptr'["reader"] = ptr["reader"]
    BY <2>1, <2>2 DEF Wipe, TypeOK, Sender
  <2> QED
    BY <1>3, <2>3 DEF GpsDrop, TypeOK, Pointers
<1>4. CASE GpsUnlink
  <2>1. /\ CloseAny(ptr["gpsd"], "gpsd") /\ ptr["gpsd"] \in Peer \cup {NoPeer} /\ gpsd' = "idle"
        /\ "gpsd" \in Sender /\ UNCHANGED <<fdOf, gps, readerVars, inds>>
    BY <1>4 DEF GpsUnlink, TypeOK, Sender
  <2>2. clients' \in Seq(Peer)
    BY <1>4, Removed DEF GpsUnlink, TypeOK
  <2> QED
    BY <2>1, <2>2, CloseTypes DEF TypeOK, Pointers, Sender
<1> QED
  BY <1>1, <1>2, <1>3, <1>4 DEF Gps

(* srs_client_info_get_fd_set gives a descriptor of the set, and one of a  *)
(* client, or none.                                                        *)
LEMMA Scanned ==
  ASSUME TypeOK, Scan
  PROVE  \/ reader' = "fill" /\ srs' = Nobody /\ ready' = {} /\ fd' = fd
         \/ reader' = "recv" /\ fd' \in ready /\ ready' = ready \ {fd'} /\ srs' = "reader"
<1>1. PICK seen \in Views :
        LET p == First(seen, LAMBDA q : fdOf[q] \in ready)
        IN  IF p = NoPeer
            THEN reader' = "fill" /\ srs' = Nobody /\ ready' = {} /\ UNCHANGED fd
            ELSE reader' = "recv" /\ srs' = "reader" /\ fd' = fdOf[p] /\ ready' = ready \ {fdOf[p]}
  BY DEF Scan
<1> DEFINE p == First(seen, LAMBDA q : fdOf[q] \in ready)
           I == {i \in 1 .. Len(seen) : fdOf[seen[i]] \in ready}
<1>2. /\ p = NoPeer => reader' = "fill" /\ srs' = Nobody /\ ready' = {} /\ fd' = fd
      /\ p # NoPeer => /\ reader' = "recv" /\ srs' = "reader" /\ fd' = fdOf[p]
                       /\ ready' = ready \ {fdOf[p]}
  BY <1>1
<1>3. seen \in Seq(Peer) /\ DOMAIN seen = 1 .. Len(seen) /\ I \subseteq Nat /\ 0 \notin I
  BY Seen DEF TypeOK
<1>4. p # NoPeer => fdOf[p] \in ready
  <2>1. CASE I = {}
    BY <2>1, Zenon DEF First, SelectInSeq
  <2>2. CASE I # {}
    <3>1. Min(I) \in I
      BY <1>3, <2>2, LeastIn
    <3>2. p = IF Min(I) = 0 THEN NoPeer ELSE seen[Min(I)]
      BY <2>2, Zenon DEF First, SelectInSeq
    <3> QED
      BY <3>1, <3>2
  <2> QED
    BY <2>1, <2>2
<1> HIDE DEF p
<1> QED
  BY <1>2, <1>4

LEMMA ReaderSound ==
  ASSUME Sound, Reader
  PROVE  Sound'
<1> USE DEF Sound, listVars, serverVars, readerVars, gpsVars, history, peerVars
<1>1. CASE Fill
  <2>1. \A seen \in Views : FdSet(seen) \subseteq Fd
    BY Seen DEF FdSet, TypeOK, ToSet
  <2> QED
    BY <1>1, <2>1 DEF Fill, TypeOK, Pointers
<1>2. CASE Select
  BY <1>2 DEF Select, TypeOK, Pointers
<1>3. CASE SelectFails
  BY <1>3 DEF SelectFails, TypeOK, Pointers
<1>4. CASE Scan
  <2>1. UNCHANGED <<peerVars, listVars, serverVars, ril, message, gpsVars, ptr, history>>
    BY <1>4 DEF Scan
  <2> QED
    BY <1>4, <2>1, Scanned DEF TypeOK, Pointers
<1>5. CASE Recv
  <2>1. /\ fd \in Fd /\ owner[fd] \in Peer /\ toServer[owner[fd]] # <<>>
        /\ reader = "recv"
    BY <1>5 DEF Recv, Holds, Pointers, TypeOK
  <2>2. PICK p \in Peer : ptr' = [ptr EXCEPT !["reader"] = p]
    <3>1. PICK seen \in Views :
            FindFd(seen, fd) # NoPeer /\ ptr' = [ptr EXCEPT !["reader"] = FindFd(seen, fd)]
      BY <1>5 DEF Recv
    <3>2. FindFd(seen, fd) \in Peer
      BY <3>1, FoundFd DEF TypeOK, Listed, ToSet
    <3> QED
      BY <3>1, <3>2
  <2>3. toServer[owner[fd]][1] \in {"ping", "hello"}
    BY <2>1 DEF TypeOK
  <2>4. <<>> \in Seq({"ping", "hello"})
    OBVIOUS
  <2> QED
    BY <1>5, <2>1, <2>2, <2>3, <2>4 DEF Recv, TypeOK, Pointers, Sender
<1>6. CASE RecvFails
  <2>1. clients' \in Seq(Peer) /\ fdOf' \in [Peer -> Fd \cup {0}] /\ gps' \subseteq Peer
    BY <1>6, UnregisterTypes DEF RecvFails
  <2>2. fd \in Fd /\ owner[fd] \in Peer \cup {NoPeer}
    BY <1>6 DEF RecvFails, Pointers, TypeOK
  <2>3. owner' \in [Fd -> Peer \cup {NoPeer}] /\ excused' \subseteq Peer
    BY <1>6, <2>2 DEF RecvFails, TypeOK
  <2> QED
    BY <1>6, <2>1, <2>3 DEF RecvFails, TypeOK, Pointers
<1>7. CASE Dispatch
  <2>1. PICK p \in Means(ptr["reader"]) :
          IF message = "ping" /\ server # "destroyed" /\ ~Writable(p)
          THEN /\ reader' = "drop" /\ ril' = "reader"
               /\ UNCHANGED <<gps, toPeer, asked, ptr>>
          ELSE /\ reader' = "scan" /\ ptr' = [ptr EXCEPT !["reader"] = NoPeer]
               /\ gps' = IF message = "hello" THEN (gps \cup {p}) \ {NoPeer} ELSE gps
               /\ IF message = "ping" /\ server # "destroyed"
                  THEN Write(p, "ping") ELSE UNCHANGED <<toPeer, asked>>
               /\ UNCHANGED ril
    BY <1>7 DEF Dispatch
  <2>2. p \in Peer \cup {NoPeer}
    BY MeansPeer
  <2>3. /\ toPeer' \in [Peer -> Seq({"ping", "gps"})]
        /\ asked' \in [Peer -> {"no", "asked", "answered", "merged"}]
    BY <2>1, <2>2, WriteTypes DEF TypeOK
  <2>4. /\ ptr' \in [Sender -> Peer \cup {NoPeer}] /\ ptr'["gpsd"] = ptr["gpsd"]
        /\ reader' \in {"scan", "drop"} /\ reader' = "drop" => ptr'["reader"] = ptr["reader"]
        /\ ril' \in Sender \cup {Nobody} /\ gps' \subseteq Peer
    BY <2>1, <2>2 DEF TypeOK, Sender
  <2> QED
    BY <1>7, <2>3, <2>4 DEF Dispatch, TypeOK, Pointers
<1>8. CASE ReaderDrop
  <2>1. PICK p \in Means(ptr["reader"]) : Unregister(p, clients) /\ CloseAny(p, "reader")
    BY <1>8 DEF ReaderDrop
  <2>2. /\ p \in Peer \cup {NoPeer} /\ "reader" \in Sender
        /\ clients' \in Seq(Peer) /\ fdOf' \in [Peer -> Fd \cup {0}] /\ gps' \subseteq Peer
    BY <2>1, MeansPeer, UnregisterTypes DEF Sender
  <2>3. reader' = "scan" /\ UNCHANGED <<ready, fd, message, gpsVars>>
    BY <1>8 DEF ReaderDrop
  <2> QED
    BY <2>1, <2>2, <2>3, CloseTypes DEF TypeOK, Pointers, Sender
<1> QED
  BY <1>1, <1>2, <1>3, <1>4, <1>5, <1>6, <1>7, <1>8 DEF Reader

-----------------------------------------------------------------------------
(* The local server: the list, the descriptors and the connections.        *)

LEMMA SrsMatchedInit == Init => Matched
<1> SUFFICES ASSUME Init PROVE Matched
  OBVIOUS
<1>1. Listed = {} /\ Known = {} /\ DOMAIN clients = {}
  BY DEF Init, Listed, Known, ToSet
<1> QED
  BY <1>1, SrsAssumption
  DEF Init, Matched, Entries, Once, Met, Owned, Kept, Turn, Nobody

LEMMA ListedTypes ==
  ASSUME TypeOK
  PROVE  Listed \subseteq Peer /\ NoPeer \notin Listed /\ Known \subseteq Peer /\ 0 \notin Fd
  BY SrsAssumption DEF TypeOK, Listed, Known, ToSet, Fd

LEMMA SameListed ==
  ASSUME clients' = clients
  PROVE  Listed' = Listed /\ Once' = Once
  BY DEF Listed, Once, ToSet

LEMMA PeerMatched ==
  ASSUME Sound, Matched, NEW p \in Peer, PeerStep(p)
  PROVE  Matched'
<1> USE DEF Sound
<1>1. /\ UNCHANGED <<listVars, serverVars, srs, ril, readerVars, gpsVars, ptr>>
      /\ dropped' = dropped /\ excused \subseteq excused' /\ excused' \subseteq excused \cup {p}
  BY DEF PeerStep, history, Close
<1>2. Listed' = Listed /\ Once' = Once /\ Known' = Known
  BY <1>1, SameListed DEF listVars, serverVars, Known
<1>3. /\ owner' = owner /\ fdOf' = fdOf /\ server' = server /\ accepted' = accepted
      /\ srs' = srs /\ reader' = reader /\ ready' = ready /\ fd' = fd
  BY <1>1 DEF listVars, serverVars, readerVars
<1>4. /\ \A q \in Peer : q # p => peer'[q] = peer[q] /\ (q \in backlog' <=> q \in backlog)
      /\ \/ peer[p] = "off" /\ peer'[p] = "connected" /\ p \in backlog'
         \/ /\ peer[p] # "off" /\ peer'[p] # "off" /\ (p \in backlog' <=> p \in backlog)
            /\ peer'[p] = peer[p] \/ p \in excused'
  BY DEF PeerStep, Connect, Hello, Ping, Receive, Close, TypeOK
<1>5. \A q \in Peer : toServer[q] # <<>> => toServer'[q] # <<>>
  <2>1. Append(toServer[p], "hello") # <<>> /\ Append(toServer[p], "ping") # <<>>
    <3>1. toServer[p] \in Seq({"ping", "hello"})
      BY DEF TypeOK
    <3> QED
      BY <3>1, AppendProperties
  <2>2. \/ toServer' = toServer
        \/ toServer' = [toServer EXCEPT ![p] = Append(toServer[p], "hello")]
        \/ toServer' = [toServer EXCEPT ![p] = Append(toServer[p], "ping")]
    BY DEF PeerStep, Connect, Hello, Ping, Receive, Close
  <2> QED
    BY <2>1, <2>2 DEF TypeOK
<1>6. Entries'
  BY <1>1, <1>2, <1>3 DEF Matched, Entries
<1>7. Met'
  <2>1. Known \subseteq Peer
    BY ListedTypes
  <2>2. \A f \in Fd : owner[f] \in Peer \cup {NoPeer}
    BY DEF TypeOK
  <2>3. backlog' \subseteq Peer
    BY PeerSound DEF TypeOK
  <2>4. \A q \in Peer : peer[q] # "off" => peer'[q] # "off" /\ (q \in backlog' <=> q \in backlog)
    BY <1>4
  <2>5. \A q \in backlog' : peer'[q] # "off"
    BY <1>4, <2>3 DEF Matched, Met
  <2>6. \A q \in Peer : peer'[q] = "closed" => q \in excused'
    BY <1>1, <1>4 DEF Matched, Met
  <2> QED
    BY <1>2, <1>3, <2>1, <2>2, <2>4, <2>5, <2>6 DEF Matched, Met
<1>8. Owned'
  BY <1>1, <1>2, <1>3 DEF Matched, Owned
<1>9. Kept'
  BY <1>1, <1>2, <1>3, <1>4 DEF Matched, Kept, Met
<1>10. Turn'
  <2>1. \A f \in Fd : Waiting(f) => Waiting(f)'
    BY <1>1, <1>3, <1>5 DEF Waiting, TypeOK
  <2>2. ready \subseteq Fd /\ reader = "recv" => fd \in Fd
    BY DEF TypeOK, Pointers
  <2> QED
    BY <1>2, <1>3, <2>1, <2>2 DEF Matched, Turn, TypeOK
<1> QED
  BY <1>6, <1>7, <1>8, <1>9, <1>10 DEF Matched

(* Steps that touch nothing of it.                                         *)
LEMMA SameMatched ==
  ASSUME Matched,
         UNCHANGED <<peer, backlog, toServer, owner, clients, fdOf, server, accepted,
                     srs, excused, dropped>>,
         Turn'
  PROVE  Matched'
<1>1. Listed' = Listed /\ Once' = Once /\ Known' = Known
  BY SameListed DEF Known
<1> QED
  BY <1>1 DEF Matched, Entries, Met, Owned, Kept

LEMMA AcceptMatched ==
  ASSUME Sound, Matched, NEW p \in Peer, Accept(p)
  PROVE  Matched'
<1> USE DEF Sound
<1>1. PICK f \in Fd :
        /\ owner[f] = NoPeer
        /\ owner' = [owner EXCEPT ![f] = p]
        /\ fdOf' = [fdOf EXCEPT ![p] = f]
        /\ excused' = IF f \in ready THEN excused \cup {p} ELSE excused
  BY DEF Accept
<1>2. /\ server = "accept" /\ p \in backlog /\ backlog' = backlog \ {p}
      /\ server' = "register" /\ accepted' = p
      /\ UNCHANGED <<peer, toServer, clients, srs, reader, ready, fd, dropped>>
  BY DEF Accept, readerVars
<1>3. Listed' = Listed /\ Once' = Once
  BY <1>2, SameListed
<1>4. /\ accepted = NoPeer /\ Known = Listed /\ Known' = Listed \cup {p} /\ p \notin Listed
      /\ \A g \in Fd : owner[g] # p
      /\ peer[p] # "off"
  BY <1>2, <1>3, SrsAssumption DEF Matched, Entries, Met, Known
<1>5. /\ \A g \in Fd : owner'[g] = IF g = f THEN p ELSE owner[g]
      /\ \A q \in Peer : fdOf'[q] = IF q = p THEN f ELSE fdOf[q]
      /\ Listed \subseteq Peer /\ NoPeer \notin Listed /\ NoPeer # p
  BY <1>1, ListedTypes, SrsAssumption DEF TypeOK
<1>6. Entries'
  BY <1>1, <1>2, <1>3, <1>4, <1>5 DEF Matched, Entries
<1>7. Met'
  BY <1>1, <1>2, <1>3, <1>4, <1>5 DEF Matched, Met
<1>8. Owned'
  BY <1>2, <1>3, <1>4, <1>5 DEF Matched, Owned
<1>9. Kept'
  <2>1. ASSUME NEW q \in Peer \ excused', peer'[q] # "off", q \notin backlog'
        PROVE  q \in Known' /\ owner'[fdOf'[q]] = q
    <3>1. CASE q = p
      BY <1>4, <1>5, <3>1
    <3>2. CASE q # p
      <4>1. q \in Listed /\ owner[fdOf[q]] = q /\ fdOf[q] \in Fd
        BY <1>1, <1>2, <1>4, <2>1, <3>2 DEF Matched, Kept, Entries
      <4>2. fdOf[q] # f
        BY <1>1, <1>5, <4>1
      <4> QED
        BY <1>4, <1>5, <3>2, <4>1, <4>2
    <3> QED
      BY <3>1, <3>2
  <2> QED
    BY <2>1 DEF Kept
<1>10. Turn'
  <2>1. \A g \in ready : Waiting(g) => Waiting(g)'
    BY <1>1, <1>2, <1>5 DEF Waiting, TypeOK
  <2>2. reader = "recv" /\ owner'[fd] \in Listed /\ Waiting(fd) => Waiting(fd)'
    BY <1>1, <1>2, <1>4, <1>5 DEF Waiting, TypeOK, Pointers
  <2> QED
    BY <1>2, <1>3, <1>4, <1>5, <2>1, <2>2 DEF Matched, Turn, Pointers
<1> QED
  BY <1>6, <1>7, <1>8, <1>9, <1>10 DEF Matched

LEMMA RegisterMatched ==
  ASSUME Sound, Matched, Register
  PROVE  Matched'
<1>1. /\ server = "register" /\ srs = Nobody /\ server' = "link" /\ srs' = "acceptor"
      /\ UNCHANGED <<peer, backlog, toServer, owner, clients, fdOf, accepted, reader, ready, fd,
                     excused, dropped>>
  BY DEF Register, peerVars, listVars, readerVars, history
<1>2. Listed' = Listed /\ Once' = Once /\ Known' = Known
  BY <1>1, SameListed DEF Known
<1>3. Entries' /\ Met' /\ Owned' /\ Kept'
  BY <1>1, <1>2 DEF Matched, Entries, Met, Owned, Kept
<1>4. Turn'
  BY <1>1, <1>2 DEF Matched, Turn, Waiting, Nobody
<1> QED
  BY <1>3, <1>4 DEF Matched

LEMMA LinkMatched ==
  ASSUME Sound, Matched, Link
  PROVE  Matched'
<1> USE DEF Sound
<1>1. /\ server = "link" /\ srs = "acceptor" /\ accepted \in Peer
      /\ server' = "accept" /\ accepted' = NoPeer /\ srs' = Nobody
      /\ UNCHANGED <<peer, backlog, toServer, owner, fdOf, reader, ready, fd>>
      /\ \/ clients' = Append(clients, accepted) /\ UNCHANGED <<excused, dropped>>
         \/ /\ clients' = clients /\ dropped' = dropped \cup {accepted}
            /\ excused \subseteq excused' /\ accepted \in excused'
  BY DEF Link, Matched, Turn, Pointers, TypeOK, peerVars, readerVars, history
<1>2. Turn'
  <2>1. reader \notin {"recv", "dispatch", "drop"}
    BY <1>1 DEF Matched, Turn
  <2> QED
    BY <1>1, <2>1 DEF Matched, Turn, Waiting
<1>3. CASE clients' = Append(clients, accepted) /\ UNCHANGED <<excused, dropped>>
  <2>1. /\ Len(clients) \in Nat /\ DOMAIN clients = 1 .. Len(clients)
        /\ DOMAIN clients' = 1 .. Len(clients) + 1
        /\ \A i \in 1 .. Len(clients) : clients'[i] = clients[i]
        /\ clients'[Len(clients) + 1] = accepted
    BY <1>3 DEF TypeOK
  <2>2. Listed' = Listed \cup {accepted}
    BY <2>1 DEF Listed, ToSet
  <2>3. Known' = Known
    BY <1>1, <2>2, SrsAssumption DEF Known
  <2>4. Once'
    BY <2>1 DEF Matched, Entries, Once, Listed, ToSet
  <2>5. Entries'
    BY <1>1, <1>3, <2>2, <2>3, <2>4, ListedTypes, SrsAssumption DEF Matched, Entries
  <2>6. Met' /\ Owned' /\ Kept'
    BY <1>1, <1>3, <2>3 DEF Matched, Met, Owned, Kept
  <2> QED
    BY <1>2, <2>5, <2>6 DEF Matched
<1>4. CASE /\ clients' = clients /\ dropped' = dropped \cup {accepted}
           /\ excused \subseteq excused' /\ accepted \in excused'
  <2>1. Listed' = Listed /\ Once' = Once /\ Known' = Listed /\ Known = Listed \cup {accepted}
    BY <1>1, <1>4, SameListed, SrsAssumption DEF Known
  <2>2. Entries'
    BY <1>1, <1>4, <2>1, ListedTypes DEF Matched, Entries
  <2>3. Met' /\ Owned' /\ Kept'
    BY <1>1, <1>4, <2>1 DEF Matched, Met, Owned, Kept
  <2> QED
    BY <1>2, <2>2, <2>3 DEF Matched
<1> QED
  BY <1>1, <1>3, <1>4

(* Who is freed while his entry is in the list.                            *)
LEMMA WipedMatched ==
  ASSUME Sound, Matched, NEW p \in Listed \cup {NoPeer}, Wipe(p),
         UNCHANGED <<peer, backlog, toServer, owner, clients, server, accepted, srs, reader,
                     ready, fd, dropped>>,
         excused' = (excused \cup {p}) \ {NoPeer}
  PROVE  Matched'
<1> USE DEF Sound
<1>1. Listed' = Listed /\ Once' = Once /\ Known' = Known
  BY SameListed DEF Known
<1>2. Known \subseteq Peer /\ Listed \subseteq Peer /\ NoPeer \notin excused /\ NoPeer \notin Listed
  BY ListedTypes, SrsAssumption DEF TypeOK
<1>3. excused \subseteq excused' /\ (p # NoPeer => p \in excused')
  BY <1>2
<1>4. \A q \in Peer : fdOf'[q] = fdOf[q] \/ (q = p /\ fdOf'[q] = 0 /\ q \in excused')
  BY <1>2, <1>3, SrsAssumption DEF Wipe, TypeOK
<1>5. Entries' /\ Met' /\ Owned'
  BY <1>1, <1>2, <1>3, <1>4 DEF Matched, Entries, Met, Owned
<1>6. Kept'
  BY <1>1, <1>3, <1>4 DEF Matched, Kept
<1>7. Turn'
  BY <1>1, <1>3 DEF Matched, Turn, Waiting
<1> QED
  BY <1>5, <1>6, <1>7 DEF Matched

(* A client leaves the list, and a descriptor is closed.                   *)
LEMMA TakenOut ==
  ASSUME Sound, Matched, NEW p \in Peer \cup {NoPeer}, clients' = RemoveFirst(clients, p),
         UNCHANGED <<server, accepted>>
  PROVE  /\ Listed' = Listed \ {p} /\ Once'
         /\ Known' \subseteq Known /\ \A q \in Known : q # p => q \in Known'
<1> USE DEF Sound
<1>1. clients \in Seq(Peer) /\ Once
  BY DEF Matched, Entries, TypeOK
<1>2. Listed' = Listed \ {p}
  BY <1>1, Removed DEF Listed
<1>3. Once'
  <2>1. \A i, j \in DOMAIN RemoveFirst(clients, p) :
          RemoveFirst(clients, p)[i] = RemoveFirst(clients, p)[j] => i = j
    BY <1>1, Removed
  <2> QED
    BY <1>1, <2>1, Zenon DEF Once
<1>4. Known' \subseteq Known /\ \A q \in Known : q # p => q \in Known'
  BY <1>2 DEF Known
<1> QED
  BY <1>2, <1>3, <1>4

(* What else is known of a client that is freed is not lost.               *)
LEMMA Unregistered ==
  ASSUME Sound, Matched, NEW p \in Peer \cup {NoPeer}, NEW seen, Unregister(p, seen),
         ToSet(seen) \subseteq Listed
  PROVE  /\ clients' = RemoveFirst(clients, p) \/ clients' = RemoveFirst(clients, NoPeer)
         /\ \A q \in Peer : q # p => fdOf'[q] = fdOf[q]
         /\ fdOf' = fdOf \/ (p \in Listed /\ clients' = RemoveFirst(clients, p))
<1> USE DEF Sound
<1>1. CASE p \in ToSet(seen)
  BY <1>1 DEF Unregister, Wipe, TypeOK
<1>2. CASE p \notin ToSet(seen)
  <2>1. RemoveFirst(clients, NoPeer) = clients
    BY Removed, ListedTypes DEF TypeOK
  <2> QED
    BY <1>2, <2>1 DEF Unregister
<1> QED
  BY <1>1, <1>2

LEMMA ClosedMatched ==
  ASSUME Sound, Matched, NEW p \in Peer \cup {NoPeer}, clients' = RemoveFirst(clients, p),
         NEW f \in Fd \cup {0},
         \A q \in Peer : q # p => fdOf'[q] = fdOf[q],
         fdOf' = fdOf \/ p \in Listed,
         UNCHANGED <<peer, backlog, toServer, server, accepted, srs, ready>>,
         owner' = IF f = 0 THEN owner ELSE [owner EXCEPT ![f] = NoPeer],
         excused \subseteq excused', dropped \subseteq dropped',
         p # NoPeer => p \in excused',
         p \in dropped' \/ \A g \in Fd : owner'[g] # p \/ p = NoPeer,
         f # 0 /\ owner[f] # NoPeer => owner[f] \in excused',
         \/ reader' = reader /\ fd' = fd
         \/ reader \in {"recv", "drop"} /\ reader' = "scan"
  PROVE  Matched'
<1> USE DEF Sound
<1>1. /\ Listed' = Listed \ {p} /\ Once'
      /\ Known' \subseteq Known /\ \A q \in Known : q # p => q \in Known'
  BY TakenOut
<1>2. /\ \A g \in Fd : owner'[g] \in {owner[g], NoPeer}
      /\ \A g \in Fd : g # f => owner'[g] = owner[g]
      /\ NoPeer \notin Known /\ Known \subseteq Peer
  BY ListedTypes, SrsAssumption DEF TypeOK
<1>8. ASSUME NEW q \in Known' PROVE fdOf'[q] = fdOf[q]
  <2>1. p \in Listed => p \notin Known'
    BY <1>1 DEF Known, Matched, Entries
  <2> QED
    BY <1>1, <1>2, <2>1
<1>3. Entries'
  BY <1>1, <1>8 DEF Matched, Entries
<1>4. Met'
  BY <1>1, <1>2 DEF Matched, Met
<1>5. Owned'
  <2>1. ASSUME NEW g \in Fd, owner'[g] \in Known' PROVE fdOf'[owner'[g]] \in {g, 0}
    BY <1>1, <1>2, <1>8, <2>1 DEF Matched, Owned
  <2>2. \A g, h \in Fd : owner'[g] = owner'[h] /\ owner'[g] # NoPeer => g = h
    BY <1>2 DEF Matched, Owned
  <2>3. ASSUME NEW g \in Fd, owner'[g] # NoPeer PROVE owner'[g] \in Known' \cup dropped'
    BY <1>1, <1>2, <2>3 DEF Matched, Owned
  <2> QED
    BY <2>1, <2>2, <2>3 DEF Owned
<1>6. Kept'
  <2>1. ASSUME NEW q \in Peer \ excused', peer[q] # "off", q \notin backlog
        PROVE  q \in Known' /\ owner'[fdOf'[q]] = q
    <3>1. q \in Known /\ owner[fdOf[q]] = q /\ fdOf[q] \in Fd
      BY <2>1 DEF Matched, Kept, Entries
    <3>2. q # p /\ q \in Known' /\ fdOf'[q] = fdOf[q]
      BY <1>1, <1>2, <1>8, <2>1, <3>1
    <3>3. fdOf[q] # f
      BY <1>2, <2>1, <3>1, ListedTypes
    <3> QED
      BY <1>2, <3>1, <3>2, <3>3
  <2> QED
    BY <2>1 DEF Kept
<1>7. Turn'
  <2>1. \A g \in Fd : Waiting(g) => Waiting(g)'
    BY <1>2 DEF Waiting
  <2>2. ready \subseteq Fd /\ (reader = "recv" => fd \in Fd)
    BY DEF TypeOK, Pointers
  <2>3. reader = "recv" /\ owner'[fd] \in Listed' => owner[fd] \in Listed
    BY <1>1, <1>2, <2>2, ListedTypes
  <2> QED
    BY <2>1, <2>2, <2>3 DEF Matched, Turn
<1> QED
  BY <1>3, <1>4, <1>5, <1>6, <1>7 DEF Matched

LEMMA CloseMatched ==
  ASSUME Sound, Matched, NEW s \in Sender, NEW p \in Peer \cup {NoPeer}, CloseAny(p, s),
         clients' = RemoveFirst(clients, p),
         \A q \in Peer : q # p => fdOf'[q] = fdOf[q],
         fdOf' = fdOf \/ p \in Listed,
         UNCHANGED <<ready, fd>>,
         reader' = reader \/ (reader = "drop" /\ reader' = "scan")
  PROVE  Matched'
<1>1. PICK f \in Fd \cup {0} :
        /\ owner' = IF f = 0 THEN owner ELSE [owner EXCEPT ![f] = NoPeer]
        /\ excused' = (excused \cup {p} \cup (IF f = 0 THEN {} ELSE {owner[f]})) \ {NoPeer}
  BY DEF CloseAny
<1>2. /\ dropped' = (dropped \cup {p}) \ {NoPeer}
      /\ UNCHANGED <<peer, backlog, toServer, server, accepted, srs>>
  BY DEF CloseAny, peerVars, serverVars
<1>3. /\ excused \subseteq excused' /\ (p # NoPeer => p \in excused')
      /\ dropped \subseteq dropped'
  BY <1>1, <1>2, SrsAssumption DEF Sound, TypeOK
<1>4. f # 0 /\ owner[f] # NoPeer => owner[f] \in excused'
  BY <1>1
<1>5. p \in dropped' \/ \A g \in Fd : owner'[g] # p \/ p = NoPeer
  BY <1>2
<1> QED
  BY <1>1, <1>2, <1>3, <1>4, <1>5, ClosedMatched

(* srs_client_read_loop closes a descriptor: its client, if it is still    *)
(* his, has closed, because select found something to be read.             *)
LEMMA RecvFailsMatched ==
  ASSUME Sound, Matched, RecvFails
  PROVE  Matched'
<1> USE DEF Sound
<1>0. PICK seen \in Views, walk \in Views :
        LET p == FindFd(seen, fd)
        IN  /\ ~(p # NoPeer /\ Holds(fd))
            /\ Unregister(p, walk)
            /\ excused' = (excused \cup ({owner[fd]} \ {p})) \ {NoPeer}
  BY DEF RecvFails
<1> DEFINE p == FindFd(seen, fd)
<1>1. /\ reader = "recv" /\ reader' = "scan" /\ Unregister(p, walk) /\ ~(p # NoPeer /\ Holds(fd))
      /\ owner' = [owner EXCEPT ![fd] = NoPeer]
      /\ excused' = (excused \cup ({owner[fd]} \ {p})) \ {NoPeer}
      /\ UNCHANGED <<peer, backlog, toServer, server, accepted, srs, ready, dropped>>
  BY <1>0 DEF RecvFails, peerVars, serverVars
<1>2. /\ p # NoPeer => p \in Listed /\ fdOf[p] = fd
      /\ fd \in Fd /\ fd # 0 /\ NoPeer \notin excused /\ Listed \subseteq Peer
      /\ ToSet(walk) \subseteq Listed
  BY <1>1, FoundFd, Seen, ListedTypes, SrsAssumption DEF TypeOK, Pointers
<1> HIDE DEF p
<1>3. p # NoPeer => p \in excused
  <2> SUFFICES ASSUME p # NoPeer, p \notin excused PROVE FALSE
    OBVIOUS
  <2>1. p \in Known /\ p \in Peer \ excused
    BY <1>2 DEF Known
  <2>2. owner[fd] = p
    BY <1>2, <2>1 DEF Matched, Kept, Met
  <2>3. toServer[p] = <<>>
    BY <1>1, <2>2 DEF Holds
  <2> QED
    BY <1>1, <1>2, <2>2, <2>3 DEF Matched, Turn, Waiting
<1>4. \A g \in Fd : owner'[g] # p \/ p = NoPeer
  <2> SUFFICES ASSUME NEW g \in Fd, owner'[g] = p, p # NoPeer PROVE FALSE
    OBVIOUS
  <2>1. g # fd /\ owner[g] = p
    BY <1>1, <1>2 DEF TypeOK
  <2> QED
    BY <1>2, <2>1 DEF Matched, Owned, Known
<1>5. /\ owner' = IF fd = 0 THEN owner ELSE [owner EXCEPT ![fd] = NoPeer]
      /\ excused \subseteq excused' /\ dropped \subseteq dropped'
      /\ p # NoPeer => p \in excused'
      /\ fd # 0 /\ owner[fd] # NoPeer => owner[fd] \in excused'
  BY <1>1, <1>2, <1>3
<1>6. p \in Peer \cup {NoPeer} /\ fd \in Fd \cup {0}
  BY <1>2
<1>7. /\ \A q \in Peer : q # p => fdOf'[q] = fdOf[q]
      /\ \/ clients' = RemoveFirst(clients, p) /\ (fdOf' = fdOf \/ p \in Listed)
         \/ clients' = RemoveFirst(clients, NoPeer) /\ fdOf' = fdOf
  BY <1>1, <1>2, <1>6, Unregistered
<1>8. CASE clients' = RemoveFirst(clients, p) /\ (fdOf' = fdOf \/ p \in Listed)
  BY <1>1, <1>4, <1>5, <1>6, <1>7, <1>8, ClosedMatched
<1>9. CASE clients' = RemoveFirst(clients, NoPeer) /\ fdOf' = fdOf
  BY <1>1, <1>5, <1>6, <1>9, ClosedMatched
<1> QED
  BY <1>7, <1>8, <1>9

LEMMA ReaderMatched ==
  ASSUME Sound, Matched, Reader
  PROVE  Matched'
<1> USE DEF Sound, peerVars, listVars, serverVars, history
<1>1. CASE Fill
  <2>1. UNCHANGED <<peer, backlog, toServer, owner, clients, fdOf, server, accepted,
                    srs, excused, dropped>>
    BY <1>1 DEF Fill
  <2>2. reader' \in {"fill", "select", "ended"}
    BY <1>1 DEF Fill
  <2> QED
    BY <2>1, <2>2, SameMatched DEF Matched, Turn
<1>2. CASE Select
  <2>1. UNCHANGED <<peer, backlog, toServer, owner, clients, fdOf, server, accepted,
                    srs, excused, dropped>>
    BY <1>2 DEF Select
  <2>2. /\ reader' = "scan" /\ ready' \subseteq Fd
        /\ \A f \in ready' : toServer[owner[f]] # <<>> \/ peer[owner[f]] = "closed"
    BY <1>2 DEF Select, Readable, Holds, TypeOK
  <2>3. \A f \in ready' : Waiting(f)'
    BY <2>1, <2>2 DEF Waiting, Matched, Met, TypeOK
  <2> QED
    BY <2>1, <2>2, <2>3, SameMatched DEF Matched, Turn
<1>3. CASE SelectFails
  <2>1. UNCHANGED <<peer, backlog, toServer, owner, clients, fdOf, server, accepted,
                    srs, dropped>>
    BY <1>3 DEF SelectFails
  <2>2. /\ reader' = "scan" /\ ready' = ready /\ excused \subseteq excused'
        /\ \A f \in ready : owner[f] # NoPeer => owner[f] \in excused'
    BY <1>3 DEF SelectFails
  <2>3. Turn'
    BY <2>1, <2>2 DEF Matched, Turn, Waiting
  <2>4. Listed' = Listed /\ Once' = Once /\ Known' = Known
    BY <2>1, SameListed DEF Known
  <2> QED
    BY <2>1, <2>2, <2>3, <2>4 DEF Matched, Entries, Met, Owned, Kept
<1>4. CASE Scan
  <2>1. UNCHANGED <<peer, backlog, toServer, owner, clients, fdOf, server, accepted,
                    excused, dropped>> /\ reader = "scan" /\ srs \in {Nobody, "reader"}
    BY <1>4 DEF Scan
  <2>2. Listed' = Listed /\ Once' = Once /\ Known' = Known
    BY <2>1, SameListed DEF Known
  <2>3. Turn'
    <3>1. CASE reader' = "fill"
      BY <2>1, <3>1 DEF Matched, Turn, Nobody
    <3>2. CASE reader' # "fill"
      <4>1. reader' = "recv" /\ fd' \in ready /\ ready' = ready \ {fd'} /\ srs' = "reader"
        BY <1>4, <3>2, Scanned
      <4>2. \A f \in ready : Waiting(f)'
        BY <2>1 DEF Matched, Turn, Waiting
      <4> QED
        BY <2>1, <4>1, <4>2 DEF Matched, Turn, TypeOK, Nobody
    <3> QED
      BY <3>1, <3>2
  <2> QED
    BY <2>1, <2>2, <2>3 DEF Matched, Entries, Met, Owned, Kept
<1>5. CASE Recv
  <2>1. /\ UNCHANGED <<peer, backlog, owner, clients, fdOf, server, accepted,
                       srs, ready, excused, dropped>>
        /\ reader = "recv" /\ reader' = "dispatch"
        /\ toServer' = [toServer EXCEPT ![owner[fd]] = <<>>] /\ owner[fd] # NoPeer
    BY <1>5 DEF Recv, Holds
  <2>2. fd \in Fd \ ready /\ ready \subseteq Fd
    BY <2>1 DEF Matched, Turn, TypeOK
  <2>3. ASSUME NEW f \in ready PROVE Waiting(f)'
    <3>1. owner[f] # owner[fd]
      BY <2>1, <2>2, <2>3 DEF Matched, Owned
    <3>2. toServer'[owner[f]] = toServer[owner[f]] \/ owner[f] = NoPeer
      BY <2>1, <2>2, <2>3, <3>1 DEF TypeOK
    <3> QED
      BY <2>1, <2>3, <3>2 DEF Matched, Turn, Waiting
  <2>4. Turn'
    BY <2>1, <2>3 DEF Matched, Turn
  <2>5. Listed' = Listed /\ Once' = Once /\ Known' = Known
    BY <2>1, SameListed DEF Known
  <2> QED
    BY <2>1, <2>4, <2>5 DEF Matched, Entries, Met, Owned, Kept
<1>6. CASE RecvFails
  BY <1>6, RecvFailsMatched
<1>7. CASE Dispatch
  <2>1. /\ UNCHANGED <<peer, backlog, toServer, owner, clients, fdOf, server, accepted,
                       srs, excused, dropped, ready>>
        /\ reader = "dispatch" /\ reader' \in {"scan", "drop"}
    BY <1>7 DEF Dispatch
  <2>2. Turn'
    BY <2>1 DEF Matched, Turn, Waiting
  <2> QED
    BY <2>1, <2>2, SameMatched
<1>8. CASE ReaderDrop
  <2>1. PICK p \in Means(ptr["reader"]) : Unregister(p, clients) /\ CloseAny(p, "reader")
    BY <1>8 DEF ReaderDrop
  <2>2. /\ p \in Listed \cup {NoPeer} /\ p \in Peer \cup {NoPeer} /\ "reader" \in Sender
        /\ reader = "drop" /\ reader' = "scan" /\ UNCHANGED <<ready, fd>>
    BY <1>8, <2>1, MeansPeer DEF ReaderDrop, Sender
  <2>3. /\ clients' = RemoveFirst(clients, p) /\ (fdOf' = fdOf \/ p \in Listed)
        /\ \A q \in Peer : q # p => fdOf'[q] = fdOf[q]
    <3>1. CASE p \in Listed
      BY <2>1, <3>1 DEF Unregister, Wipe, Listed, TypeOK
    <3>2. CASE p \notin Listed
      BY <2>1, <3>2, Removed DEF Unregister, Listed, TypeOK
    <3> QED
      BY <3>1, <3>2
  <2> QED
    BY <2>1, <2>2, <2>3, CloseMatched
<1> QED
  BY <1>1, <1>2, <1>3, <1>4, <1>5, <1>6, <1>7, <1>8 DEF Reader

LEMMA GpsMatched ==
  ASSUME Sound, Matched, Gps
  PROVE  Matched'
<1> USE DEF Sound, peerVars, listVars, serverVars, readerVars, history
<1>1. CASE GpsFind \/ GpsSend
  <2>1. UNCHANGED <<peer, backlog, toServer, owner, clients, fdOf, server, accepted,
                    srs, excused, dropped, reader, ready, fd>>
    BY <1>1 DEF GpsFind, GpsSend
  <2>2. Turn'
    <3>1. Listed' = Listed
      BY <2>1, SameListed
    <3> QED
      BY <2>1, <3>1 DEF Matched, Turn, Waiting
  <2> QED
    BY <2>1, <2>2, SameMatched
<1>2. CASE GpsDrop
  <2>1. PICK p \in Means(ptr["gpsd"]) \cup {NoPeer} :
          Wipe(p) /\ excused' = (excused \cup {p}) \ {NoPeer}
    BY <1>2 DEF GpsDrop
  <2>2. /\ UNCHANGED <<peer, backlog, toServer, owner, clients, server, accepted, srs, reader,
                       ready, fd, dropped>>
        /\ p \in Listed \cup {NoPeer}
    BY <1>2, MeansPeer DEF GpsDrop
  <2> QED
    BY <2>1, <2>2, WipedMatched
<1>3. CASE GpsUnlink
  <2>1. /\ CloseAny(ptr["gpsd"], "gpsd") /\ ptr["gpsd"] \in Peer \cup {NoPeer} /\ "gpsd" \in Sender
        /\ clients' = RemoveFirst(clients, ptr["gpsd"]) /\ fdOf' = fdOf
        /\ reader' = reader /\ UNCHANGED <<ready, fd>>
    BY <1>3 DEF GpsUnlink, TypeOK, Sender
  <2> QED
    BY <2>1, CloseMatched
<1> QED
  BY <1>1, <1>2, <1>3 DEF Gps

(* Nothing is claimed once everybody is excused.                           *)
LEMMA AstrayMatched ==
  ASSUME Sound, Astray
  PROVE  Sound' /\ server' = server /\ (Matched => Matched')
<1>1. /\ excused' = Peer
      /\ UNCHANGED <<peerVars, listVars, serverVars, srs, ril, readerVars, gpsVars, ptr, dropped>>
  BY DEF Astray
<1>2. Sound' /\ server' = server
  BY <1>1 DEF Sound, TypeOK, Pointers, peerVars, listVars, serverVars, readerVars, gpsVars
<1>3. ASSUME Matched PROVE Matched'
  <2>1. Listed' = Listed /\ Once' = Once /\ Known' = Known
    BY <1>1, SameListed DEF Known, listVars, serverVars
  <2>2. Known \subseteq Peer
    BY ListedTypes DEF Sound
  <2>3. /\ excused \subseteq excused'
        /\ UNCHANGED <<peer, backlog, toServer, owner, fdOf, server, accepted, srs, reader, ready,
                       fd, dropped>>
    BY <1>1 DEF Sound, TypeOK, peerVars, listVars, serverVars, readerVars
  <2>4. Entries' /\ Met' /\ Owned' /\ Kept'
    BY <1>1, <1>3, <2>1, <2>2, <2>3 DEF Matched, Entries, Met, Owned, Kept
  <2>5. Turn'
    BY <1>3, <2>1, <2>3 DEF Matched, Turn, Waiting
  <2> QED
    BY <2>4, <2>5 DEF Matched
<1> QED
  BY <1>2, <1>3

-----------------------------------------------------------------------------
(* The local server: the theorems.                                         *)

LEMMA SrsStep == SrsInv /\ [Next]_vars => SrsInv'
<1> SUFFICES ASSUME SrsInv, [Next]_vars PROVE SrsInv'
  OBVIOUS
<1>1. Sound /\ (Alive => Matched /\ Entries)
  BY DEF SrsInv, Sound, Matched
<1>2. ASSUME NEW p \in Peer, PeerStep(p) PROVE SrsInv'
  <2>1. server' = server
    BY <1>2 DEF PeerStep, serverVars
  <2> QED
    BY <1>1, <1>2, <2>1, PeerSound, PeerMatched DEF SrsInv, Sound, Alive
<1>3. CASE Acceptor
  <2>1. Sound'
    BY <1>1, <1>3, AcceptorSound
  <2>2. ASSUME NEW p \in Peer, Accept(p) PROVE Matched'
    BY <1>1, <2>2, AcceptMatched DEF Accept, Alive
  <2>3. ASSUME Register PROVE Matched'
    BY <1>1, <2>3, RegisterMatched DEF Register, Alive
  <2>5. ASSUME Link PROVE Matched'
    BY <1>1, <2>5, LinkMatched DEF Link, Alive
  <2>4. ASSUME AcceptFails \/ Destroy PROVE ~Alive'
    BY <2>4 DEF AcceptFails, Destroy, Alive
  <2> QED
    BY <1>3, <2>1, <2>2, <2>3, <2>4, <2>5 DEF Acceptor, SrsInv, Sound
<1>4. CASE Gps
  <2>1. server' = server
    BY <1>4 DEF Gps, GpsFind, GpsSend, GpsDrop, GpsUnlink, CloseAny, serverVars
  <2> QED
    BY <1>1, <1>4, <2>1, GpsSound, GpsMatched DEF SrsInv, Sound, Alive
<1>5. CASE Reader
  <2>1. server' = server
    BY <1>5 DEF Reader, Fill, Select, SelectFails, Scan, Recv, RecvFails, Dispatch, ReaderDrop,
                CloseAny, serverVars
  <2> QED
    BY <1>1, <1>5, <2>1, ReaderSound, ReaderMatched DEF SrsInv, Sound, Alive
<1>7. CASE Astray
  BY <1>1, <1>7, AstrayMatched DEF SrsInv, Sound, Alive
<1>6. CASE UNCHANGED vars
  <2>1. Sound'
    BY <1>1, <1>6 DEF Sound, TypeOK, Pointers, vars, peerVars, listVars, serverVars, readerVars,
                      gpsVars, history
  <2>2. Alive' => Matched'
    <3>1. /\ UNCHANGED <<peer, backlog, toServer, owner, clients, fdOf, server, accepted,
                         srs, excused, dropped, reader, ready, fd>>
          /\ Alive' = Alive /\ Listed' = Listed
      BY <1>6, SameListed DEF vars, peerVars, listVars, serverVars, readerVars, history, Alive
    <3>2. ASSUME Alive PROVE Turn'
      BY <1>1, <3>1, <3>2 DEF Matched, Turn, Waiting
    <3> QED
      BY <1>1, <3>1, <3>2, SameMatched
  <2> QED
    BY <2>1, <2>2 DEF SrsInv, Sound
<1> QED
  BY <1>2, <1>3, <1>4, <1>5, <1>6, <1>7 DEF Next

LEMMA SrsInvariant == Spec => []SrsInv
<1>1. Init => SrsInv
  BY SrsTypesInit, SrsMatchedInit DEF SrsInv
<1> QED
  BY <1>1, SrsStep, PTL DEF Spec

(* srs.c: every variable has its type, through the end of the server too.  *)
THEOREM SrsTypes == Spec => []TypeOK
  BY SrsInvariant, PTL DEF SrsInv

(* srs_client_register, srs_client_unregister and the closes of            *)
(* srs_client_read_loop and srs_client_send keep the list, the descriptors *)
(* and the connections matched, for any number of peers and descriptors,   *)
(* but for the peers the conditions of ClientsKept name: with a removal    *)
(* that has no lock in common with a registration and the reader, those    *)
(* are the client that is being registered, the one the reader looks for,  *)
(* and everybody once freed memory is used.                                *)
THEOREM SrsClientsKept == Spec => []ClientsKept
<1>1. SrsInv => ClientsKept
  <2> SUFFICES ASSUME SrsInv, server \notin {"failed", "destroyed"} PROVE ClientsKept
    BY DEF ClientsKept
  <2>1. Matched /\ Known \subseteq Listed \cup {accepted}
    BY DEF SrsInv, Alive, TypeOK, Known
  <2> QED
    BY <2>1 DEF Matched, Kept, Owned, ClientsKept
<1> QED
  BY <1>1, SrsInvariant, PTL

-----------------------------------------------------------------------------
(* The file service: frames.                                               *)

(* The number of frames of a packet, each of them, and those from one on.  *)
Count(r) == IF r.size > MaxSingle THEN Parts(r) + 1 ELSE 1

FrameAt(r, j) ==
  IF r.size <= MaxSingle THEN Frame(FALSE, r.size, r, 1)
  ELSE IF j = 1 THEN Frame(TRUE, HeadSize, r, 0)
  ELSE Frame(TRUE, PartSize(r, j - 1), r, j - 1)

Rest(r, j) == SubSeq(Fragments(r), j, Len(Fragments(r)))

LEMMA Multiples ==
  ASSUME NEW c \in Nat, NEW a \in Int, NEW b \in Int, a <= b
  PROVE  a * c <= b * c /\ a * c \in Int /\ b * c \in Int
  OBVIOUS

(* All parts but the last are full, and the last is not empty.             *)
LEMMA PartsCover ==
  ASSUME NEW r, r.size \in Nat, r.size > MaxSingle
  PROVE  /\ Parts(r) \in Nat /\ Parts(r) >= 2
         /\ (Parts(r) - 1) * MaxSingle < r.size
         /\ r.size <= Parts(r) * MaxSingle
<1> DEFINE n == Parts(r)
<1>1. MaxSingle \in Nat /\ MaxSingle > 0
  BY FramingAssumption
<1>2. r.size + MaxSingle - 1 \in Nat
  BY <1>1
<1>3. /\ n \in Nat /\ n * MaxSingle <= r.size + MaxSingle - 1
      /\ r.size + MaxSingle - 1 < (n + 1) * MaxSingle
  BY <1>1, <1>2 DEF Parts
<1>4. /\ (n + 1) * MaxSingle = n * MaxSingle + MaxSingle
      /\ (n - 1) * MaxSingle = n * MaxSingle - MaxSingle
  BY <1>1, <1>3
<1> HIDE DEF n
<1>5. n >= 2
  BY <1>1, <1>3, <1>4
<1> QED
  BY <1>1, <1>3, <1>4, <1>5 DEF n

LEMMA FragmentsAre ==
  ASSUME NEW r, r.size \in Nat
  PROVE  /\ Count(r) \in Nat \ {0}
         /\ Fragments(r) \in Seq({FrameAt(r, i) : i \in 1 .. Count(r)})
         /\ Len(Fragments(r)) = Count(r)
         /\ \A i \in 1 .. Count(r) : Fragments(r)[i] = FrameAt(r, i)
<1> DEFINE S == {FrameAt(r, i) : i \in 1 .. Count(r)}
<1>1. CASE r.size > MaxSingle
  <2> DEFINE n == Parts(r)
             s == <<Frame(TRUE, HeadSize, r, 0)>>
             t == [k \in 1 .. n |-> Frame(TRUE, PartSize(r, k), r, k)]
  <2>1. n \in Nat /\ Count(r) = n + 1 /\ MaxSingle \in Nat /\ ~(r.size <= MaxSingle)
    BY <1>1, PartsCover, FramingAssumption DEF Count
  <2> HIDE DEF n
  <2>2. FrameAt(r, 1) = Frame(TRUE, HeadSize, r, 0)
    BY <2>1 DEF FrameAt
  <2>3. ASSUME NEW k \in 1 .. n
        PROVE  FrameAt(r, k + 1) = Frame(TRUE, PartSize(r, k), r, k) /\ k + 1 \in 1 .. Count(r)
    <3>1. k + 1 # 1 /\ (k + 1) - 1 = k /\ k + 1 \in 1 .. Count(r)
      BY <2>1
    <3>2. FrameAt(r, k + 1) = Frame(TRUE, PartSize(r, (k + 1) - 1), r, (k + 1) - 1)
      BY <2>1, <3>1, Zenon DEF FrameAt
    <3> QED
      BY <3>1, <3>2, Zenon
  <2>4. s \in Seq(S) /\ Len(s) = 1 /\ s[1] = FrameAt(r, 1)
    <3>1. FrameAt(r, 1) \in S
      <4>1. 1 \in 1 .. Count(r)
        BY <2>1
      <4> QED
        BY <4>1, Zenon
    <3>2. s = <<FrameAt(r, 1)>>
      BY <2>2, Zenon
    <3> HIDE DEF s, S
    <3> QED
      BY <3>1, <3>2
  <2>6. /\ t \in Seq(S) /\ Len(t) = n
        /\ \A k \in 1 .. n : t[k] = FrameAt(r, k + 1)
    <3>1. t = [k \in 1 .. n |-> FrameAt(r, k + 1)]
      BY <2>3, Zenon
    <3>2. \A k \in 1 .. n : FrameAt(r, k + 1) \in S
      BY <2>3
    <3> HIDE DEF t, S
    <3> QED
      BY <2>1, <3>1, <3>2
  <2>7. Fragments(r) = s \o t
    BY <1>1 DEF Fragments, n
  <2> HIDE DEF s, t, S
  <2>8. /\ s \o t \in Seq(S) /\ Len(s \o t) = Len(s) + Len(t)
        /\ \A i \in 1 .. Len(s) + Len(t) : (s \o t)[i] = IF i <= Len(s) THEN s[i] ELSE t[i - Len(s)]
    BY <2>4, <2>6, ConcatProperties, Zenon
  <2>9. ASSUME NEW i \in 1 .. Count(r)
        PROVE  (IF i <= 1 THEN s[i] ELSE t[i - 1]) = FrameAt(r, i)
    <3>1. CASE i = 1
      BY <3>1, <2>4
    <3>2. CASE i # 1
      <4>1. i - 1 \in 1 .. n /\ (i - 1) + 1 = i /\ ~(i <= 1)
        BY <3>2, <2>1
      <4> QED
        BY <4>1, <2>6
    <3> QED
      BY <3>1, <3>2
  <2> QED
    BY <2>1, <2>4, <2>6, <2>7, <2>8, <2>9 DEF S
<1>2. CASE ~(r.size > MaxSingle)
  <2>1. Count(r) = 1 /\ r.size <= MaxSingle
    BY <1>2, FramingAssumption DEF Count
  <2>2. Fragments(r) = <<FrameAt(r, 1)>>
    BY <1>2, <2>1 DEF Fragments, FrameAt
  <2> QED
    BY <2>1, <2>2
<1> QED
  BY <1>1, <1>2

(* The frames from one on: the one received next, and those after it.      *)
LEMMA RestFrames ==
  ASSUME NEW r, r.size \in Nat
  PROVE  /\ Count(r) \in Nat \ {0} /\ Rest(r, 1) = Fragments(r)
         /\ Rest(r, Count(r) + 1) = <<>>
         /\ \A j \in 1 .. Count(r) :
              /\ Rest(r, j) # <<>> /\ Head(Rest(r, j)) = FrameAt(r, j)
              /\ Tail(Rest(r, j)) = Rest(r, j + 1)
<1> DEFINE S == {FrameAt(r, i) : i \in 1 .. Count(r)}
           s == Fragments(r)
<1>1. /\ Count(r) \in Nat \ {0} /\ s \in Seq(S) /\ Len(s) = Count(r)
      /\ \A i \in 1 .. Count(r) : s[i] = FrameAt(r, i)
  BY FragmentsAre
<1> HIDE DEF S, s
<1>2. Rest(r, 1) = s
  BY <1>1, SubSeqFull, Zenon DEF Rest, s
<1>3. Rest(r, Count(r) + 1) = <<>>
  <2>1. Len(s) < Count(r) + 1 /\ Len(s) \in Int /\ Count(r) + 1 \in Int
    BY <1>1
  <2> QED
    BY <2>1, SubSeqEmpty, Zenon DEF Rest, s
<1>4. ASSUME NEW j \in 1 .. Count(r)
      PROVE  /\ Rest(r, j) # <<>> /\ Head(Rest(r, j)) = FrameAt(r, j)
             /\ Tail(Rest(r, j)) = Rest(r, j + 1)
  <2> DEFINE n == Len(s)
  <2>1. j \in 1 .. Len(s) /\ n \in j .. Len(s) /\ j \in Int /\ n \in Int /\ j <= n
    BY <1>1
  <2>2. \A i \in j .. n : s[i] \in S
    BY <1>1, <2>1, ElementOfSeq
  <2>3. Head(SubSeq(s, j, n)) = s[j] /\ Tail(SubSeq(s, j, n)) = SubSeq(s, j + 1, n)
    BY <1>1, <2>1, HeadTailOfSubSeq, Zenon
  <2>4. SubSeq(s, j, n) \in Seq(S) /\ Len(SubSeq(s, j, n)) = n - j + 1
    BY <2>1, <2>2, SubSeqProperties
  <2>5. SubSeq(s, j, n) # <<>>
    BY <2>1, <2>4
  <2> QED
    BY <1>1, <2>3, <2>5 DEF Rest, s
<1> QED
  BY <1>1, <1>2, <1>3, <1>4 DEF s

(* fd &= 0xFFF gives the descriptor back, with the flags and without.      *)
LEMMA FlagsOff ==
  ASSUME NEW d \in FileFd
  PROVE  d % FdLimit = d /\ (d + FdFlags) % FdLimit = d
<1>1. /\ d \in Nat /\ FdLimit \in Nat /\ d < FdLimit /\ FdFlags \in Nat /\ FdFlags % FdLimit = 0
  BY FileAssumption DEF FileFd
<1>2. d % FdLimit = d
  BY <1>1
<1>3. (d + FdFlags) % FdLimit = d
  BY <1>1
<1> QED
  BY <1>2, <1>3

-----------------------------------------------------------------------------
(* The file service: the invariant.                                        *)

(* What was gathered of a packet when its frames from one on are to come.  *)
Received(r, j) ==
  IF j = 1 THEN ~mistaken
  ELSE /\ r.size > MaxSingle
       /\ IF mistaken THEN multi = NoPacket
          ELSE /\ multi = r /\ position = (j - 2) * MaxSingle
               /\ gathered = [k \in 1 .. j - 2 |-> <<r, k>>]

OnWire(r) == \E j \in 1 .. Count(r) : wire = Rest(r, j) /\ Received(r, j)

(* One thing at a time is asked, on its way or answered.                   *)
Line ==
  /\ mistaken \in BOOLEAN /\ wrong \in BOOLEAN /\ (~mistaken => ~wrong)
  /\ up # <<>> => up = <<Head(up)>> /\ due = {} /\ wire = <<>>
  /\ due # {} => \E r : /\ due = {r} /\ r.size \in Nat /\ r.op # "other"
                        /\ wire = <<>> \/ OnWire(r)
  /\ wire # <<>> => due # {}

(* The entries the next directories get are 0 .. Dirs - 1, in turn: how    *)
(* many of them ago an entry was given away.                               *)
Dirs == MaxOpenDirs - 1
Distance(s) == IF dirIndex > s THEN dirIndex - s ELSE dirIndex - s + Dirs

Tables ==
  /\ opens \in Nat /\ dirIndex \in 0 .. Dirs - 1
  /\ fds \in [FileFd -> Nat] /\ dirArray \in [Slot -> Nat]

(* A handle that means what was opened with it.                            *)
StandsDir(h) ==
  /\ h.value \in 0 .. Dirs - 1 /\ dirArray[h.value] = h.opening /\ h.opening \in streams
  /\ Distance(h.value) - 1 <= opens - h.opening
StandsFile(h) == \E d \in FileFd : h.value \in {d, d + FdFlags} /\ fds[d] = h.opening
Stands(h) == h.opening \in 1 .. opens /\ (IF h.dir THEN StandsDir(h) ELSE StandsFile(h))

(* The handle an answer gives the modem.                                   *)
Grants(a) == a.ret >= 0 /\ a.request.op \in {"open", "create", "open_dir"}
NewHandle(a) == [dir |-> a.request.op = "open_dir", value |-> a.ret, opening |-> opens]

(* What the modem holds, closes, has room for and is given.                *)
Closing(r) ==
  r.op \in {"close", "close_dir"} =>
    /\ (r.handle.dir <=> r.op = "close_dir") /\ Stands(r.handle)
    /\ \A h \in held : h.opening # r.handle.opening
Room(r) == r.op = "open_dir" => \A h \in held : h.dir => opens + 1 - h.opening < Dirs

Handles ==
  /\ \A h \in held : Stands(h)
  /\ \A h, g \in held : h.opening = g.opening => h = g
  /\ \A r \in due : Closing(r) /\ Room(r)
  /\ up # <<>> /\ Grants(Head(up)) =>
       Stands(NewHandle(Head(up))) /\ \A h \in held : h.opening # opens

(* Once the modem has opened a directory too many, packets are still       *)
(* whole, but no handle is known to stand.                                 *)
FileInv == ~stale => Line /\ (~late => Tables /\ Handles)

-----------------------------------------------------------------------------
(* The file service: a frame is received.                                  *)

LEMMA FrameKinds ==
  ASSUME NEW r, r.size \in Nat, NEW j \in 1 .. Count(r)
  PROVE  LET f == FrameAt(r, j)
         IN  /\ r.size <= MaxSingle => ~f.internal /\ f.packet = r /\ Count(r) = 1
             /\ ~(r.size <= MaxSingle) =>
                  /\ f.internal /\ f.packet = r /\ Count(r) = Parts(r) + 1
                  /\ f.size = IF j = 1 THEN HeadSize ELSE PartSize(r, j - 1)
                  /\ f.part = j - 1
<1> DEFINE f == FrameAt(r, j)
<1>0. Count(r) \in Nat \ {0}
  BY FragmentsAre
<1>1. MaxSingle \in Nat /\ Count(r) \in Nat \ {0} /\ j \in Nat
  BY <1>0, FramingAssumption
<1>2. CASE r.size <= MaxSingle
  <2>1. f = Frame(FALSE, r.size, r, 1) /\ Count(r) = 1
    BY <1>1, <1>2 DEF FrameAt, Count
  <2> HIDE DEF f
  <2>2. ~f.internal /\ f.packet = r
    BY <2>1 DEF Frame
  <2> QED
    BY <1>2, <2>1, <2>2, Zenon DEF f
<1>3. CASE ~(r.size <= MaxSingle)
  <2>1. Count(r) = Parts(r) + 1
    BY <1>1, <1>3 DEF Count
  <2>2. CASE j = 1
    <3>1. f = Frame(TRUE, HeadSize, r, 0)
      BY <1>3, <2>2, Zenon DEF FrameAt
    <3> HIDE DEF f
    <3>2. f.internal /\ f.packet = r /\ f.size = HeadSize /\ f.part = 0
      BY <3>1 DEF Frame
    <3>3. j - 1 = 0
      BY <2>2
    <3> QED
      BY <1>3, <2>1, <2>2, <3>2, <3>3, Zenon DEF f
  <2>3. CASE j # 1
    <3>1. f = Frame(TRUE, PartSize(r, j - 1), r, j - 1)
      BY <1>3, <2>3, Zenon DEF FrameAt
    <3> HIDE DEF f
    <3>2. f.internal /\ f.packet = r /\ f.size = PartSize(r, j - 1) /\ f.part = j - 1
      BY <3>1 DEF Frame
    <3> QED
      BY <1>3, <2>1, <2>3, <3>2, Zenon DEF f
  <2> QED
    BY <2>2, <2>3
<1> QED
  BY <1>2, <1>3

(* What part k holds: with the parts before it the packet is complete just *)
(* when it is the last.                                                    *)
LEMMA PartPosition ==
  ASSUME NEW r, r.size \in Nat, r.size > MaxSingle, NEW k \in 1 .. Parts(r)
  PROVE  /\ PartSize(r, k) \in Nat
         /\ (k - 1) * MaxSingle + PartSize(r, k) = r.size <=> k = Parts(r)
         /\ k < Parts(r) => (k - 1) * MaxSingle + PartSize(r, k) = k * MaxSingle
<1> DEFINE n == Parts(r)
<1>1. /\ n \in Nat /\ n >= 2 /\ (n - 1) * MaxSingle < r.size /\ r.size <= n * MaxSingle
  BY PartsCover
<1>2. MaxSingle \in Nat /\ k \in Nat /\ k >= 1 /\ k <= n
  BY <1>1, FramingAssumption
<1>3. /\ (k - 1) * MaxSingle \in Int /\ k * MaxSingle \in Int /\ (n - 1) * MaxSingle \in Int
      /\ (k - 1) * MaxSingle + MaxSingle = k * MaxSingle
  BY <1>1, <1>2
<1> HIDE DEF n
<1>4. CASE k < n
  <2>1. PartSize(r, k) = MaxSingle
    BY <1>4 DEF PartSize, n
  <2>2. k * MaxSingle <= (n - 1) * MaxSingle
    BY <1>1, <1>2, <1>4, Multiples
  <2>3. k * MaxSingle # r.size /\ k # n
    BY <1>1, <1>3, <1>4, <2>2
  <2> QED
    BY <1>2, <1>3, <2>1, <2>3 DEF n
<1>5. CASE k = n
  <2>1. PartSize(r, k) = r.size - (k - 1) * MaxSingle
    BY <1>2, <1>5 DEF PartSize, n
  <2>2. (k - 1) * MaxSingle < r.size
    BY <1>1, <1>5
  <2> QED
    BY <1>2, <1>3, <1>5, <2>1, <2>2 DEF n
<1> QED
  BY <1>1, <1>2, <1>4, <1>5

(* The next frame of a packet: it is kept, or it is the last one, and the  *)
(* request is done, whole and as it was sent.                              *)
LEMMA FrameStep ==
  ASSUME Line, NEW r, due = {r}, r.size \in Nat, r.op # "other",
         NEW j \in 1 .. Count(r), wire = Rest(r, j), Received(r, j), IpcRecv
  PROVE  /\ wire' = Rest(r, j + 1) /\ mistaken' \in BOOLEAN
         /\ \/ /\ UNCHANGED <<due, up, tableVars, wrong>>
               /\ mistaken => mistaken'
               /\ j < Count(r) => Received(r, j + 1)'
            \/ /\ j = Count(r) /\ due' = {} /\ UNCHANGED <<wrong, mistaken>>
               /\ ParseFm(r)
<1> DEFINE f == FrameAt(r, j)
           Quiet == /\ UNCHANGED <<due, up, tableVars, wrong>> /\ mistaken' \in BOOLEAN
                    /\ mistaken => mistaken'
                    /\ j < Count(r) => Received(r, j + 1)'
           Done == /\ j = Count(r) /\ due' = {} /\ UNCHANGED <<wrong, mistaken>>
                   /\ ParseFm(r)
<1>1. Head(wire) = f /\ Tail(wire) = Rest(r, j + 1) /\ Count(r) \in Nat
  BY RestFrames
<1>2. wire' = Rest(r, j + 1) /\ IpcDispatch(f)
  BY <1>1, Zenon DEF IpcRecv
<1>3. /\ r.size <= MaxSingle => ~f.internal /\ f.packet = r /\ Count(r) = 1
      /\ ~(r.size <= MaxSingle) =>
           /\ f.internal /\ f.packet = r /\ Count(r) = Parts(r) + 1
           /\ f.size = IF j = 1 THEN HeadSize ELSE PartSize(r, j - 1)
           /\ f.part = j - 1
  BY FrameKinds
<1>4. mistaken \in BOOLEAN /\ wrong \in BOOLEAN /\ MaxSingle \in Nat /\ HeadSize \in Nat
  BY FramingAssumption DEF Line
<1>5. r # Other /\ r \in due /\ due \ {r} = {}
  BY DEF Other, Packet
<1> HIDE DEF f
<1>6. CASE r.size <= MaxSingle
  <2>1. Single(f) /\ Deliver(r, TRUE)
    BY <1>2, <1>3, <1>6, Zenon DEF IpcDispatch, Header, Part, LastPart, Completes
  <2>2. j = Count(r)
    BY <1>3, <1>6
  <2>3. mistaken' = mistaken
    BY <2>1 DEF Single, framingVars
  <2>4. wrong' = wrong /\ due' = {} /\ ParseFm(r)
    BY <2>1, <1>4, <1>5, Zenon DEF Deliver
  <2> QED
    BY <1>2, <1>4, <2>2, <2>3, <2>4
<1>7. CASE ~(r.size <= MaxSingle) /\ j = 1
  <2>1. Header(f) /\ UNCHANGED <<due, up, tableVars, wrong>>
    BY <1>2, <1>3, <1>7, Zenon DEF IpcDispatch, Part, LastPart, Completes, Single
  <2>2. f.part = 0 /\ f.packet = r
    BY <1>3, <1>7
  <2>3. multi' = r /\ gathered' = <<>> /\ position' = 0
    BY <2>1, <2>2, Zenon DEF Header
  <2>4. mistaken' = mistaken /\ ~mistaken
    BY <2>1, <2>2, <1>4, <1>7, Zenon DEF Header, Received
  <2>5. /\ (j + 1) - 2 = 0 /\ r.size > MaxSingle /\ j + 1 # 1
        /\ position' = ((j + 1) - 2) * MaxSingle
        /\ gathered' = [k \in 1 .. (j + 1) - 2 |-> <<r, k>>]
    BY <1>4, <1>7, <2>3
  <2>6. Received(r, j + 1)'
    BY <2>3, <2>4, <2>5, Zenon DEF Received
  <2> QED
    BY <1>2, <1>4, <2>1, <2>4, <2>6, Zenon
<1>8. CASE ~(r.size <= MaxSingle) /\ j # 1
  <2> DEFINE m == j - 1
  <2>1. /\ m \in 1 .. Parts(r) /\ r.size > MaxSingle /\ f.internal /\ f.packet = r
        /\ f.size = PartSize(r, m) /\ f.part = m /\ m # 0
        /\ Parts(r) \in Nat /\ Count(r) = Parts(r) + 1
        /\ j + 1 # 1 /\ (j + 1) - 2 = m /\ j - 2 = m - 1 /\ j \in Nat /\ j = m + 1
    <3>1. Parts(r) \in Nat
      BY <1>4, <1>8, PartsCover
    <3> QED
      BY <1>1, <1>3, <1>4, <1>8, <3>1
  <2>2. /\ PartSize(r, m) \in Nat
        /\ (m - 1) * MaxSingle + PartSize(r, m) = r.size <=> m = Parts(r)
        /\ m < Parts(r) => (m - 1) * MaxSingle + PartSize(r, m) = m * MaxSingle
    BY <2>1, PartPosition
  <2>3. IF mistaken THEN multi = NoPacket
        ELSE /\ multi = r /\ position = (m - 1) * MaxSingle
             /\ gathered = [k \in 1 .. m - 1 |-> <<r, k>>]
    BY <1>8, <2>1, Zenon DEF Received
  <2>a. Append([k \in 1 .. m - 1 |-> <<r, k>>], <<r, m>>) = [k \in 1 .. m |-> <<r, k>>]
    BY <2>1
  <2> HIDE DEF m
  <2>4. CASE Header(f) /\ UNCHANGED <<due, up, tableVars, wrong>>
    <3>1. mistaken' = TRUE /\ multi' = NoPacket
      BY <2>1, <2>4, Zenon DEF Header
    <3>2. Received(r, j + 1)'
      BY <2>1, <3>1, Zenon DEF Received
    <3> QED
      BY <1>2, <2>4, <3>1, <3>2, Zenon
  <2>5. CASE Part(f) /\ UNCHANGED <<due, up, tableVars, wrong>>
    <3>1. mistaken' = mistaken /\ multi' = multi /\ gathered' = Append(gathered, <<r, m>>)
          /\ position' = position + PartSize(r, m)
      BY <2>1, <2>5, Zenon DEF Part
    <3>2. CASE mistaken
      <4>1. Received(r, j + 1)'
        BY <2>1, <2>3, <3>1, <3>2, Zenon DEF Received
      <4> QED
        BY <1>2, <1>4, <2>5, <3>1, <4>1, Zenon
    <3>3. CASE ~mistaken
      <4>1. multi' = r /\ gathered' = [k \in 1 .. m |-> <<r, k>>]
        BY <2>a, <2>3, <3>1, <3>3, Zenon
      <4>2. ASSUME j < Count(r)
            PROVE  Received(r, j + 1)'
        <5>1. position' = m * MaxSingle
          BY <2>1, <2>2, <2>3, <3>1, <3>3, <4>2
        <5> QED
          BY <2>1, <3>1, <3>3, <4>1, <5>1, Zenon DEF Received
      <4> QED
        BY <1>2, <1>4, <2>5, <3>1, <4>2, Zenon
    <3> QED
      BY <1>4, <3>2, <3>3
  <2>6. CASE LastPart(f) /\ Deliver(multi, Whole(f))
    <3>1. multi # NoPacket /\ position + f.size = multi.size /\ mistaken' = mistaken
      BY <2>6, Zenon DEF LastPart, Completes
    <3>2. ~mistaken /\ multi = r
      BY <1>4, <2>3, <3>1, Zenon
    <3>3. m = Parts(r)
      BY <2>1, <2>2, <2>3, <3>1, <3>2
    <3>4. Whole(f) = TRUE
      <4>1. Append(gathered, <<f.packet, f.part>>) = [k \in 1 .. Parts(multi) |-> <<multi, k>>]
        BY <2>1, <2>3, <2>a, <3>2, <3>3, Zenon
      <4> QED
        BY <4>1, Zenon DEF Whole
    <3>5. wrong' = wrong /\ due' = {} /\ ParseFm(r)
      BY <1>4, <1>5, <2>6, <3>2, <3>4, Zenon DEF Deliver
    <3>6. j = Count(r)
      BY <2>1, <3>3
    <3> QED
      BY <1>2, <1>4, <3>1, <3>5, <3>6, Zenon
  <2> QED
    BY <1>2, <2>1, <2>4, <2>5, <2>6, Zenon DEF IpcDispatch, Single
<1> QED
  BY <1>6, <1>7, <1>8

-----------------------------------------------------------------------------
(* The file service: the operations and the handles.                       *)

LEMMA KeepsStands ==
  ASSUME Tables, UNCHANGED tableVars
  PROVE  Tables' /\ \A h : Stands(h) => Stands(h)'
<1>1. /\ fds' = fds /\ dirArray' = dirArray /\ dirIndex' = dirIndex /\ opens' = opens
      /\ streams' = streams
  BY DEF tableVars
<1> QED
  BY <1>1 DEF Tables, Stands, StandsDir, StandsFile, Distance, Dirs

(* A file is opened on a descriptor that was free.                         *)
LEMMA OpenedStands ==
  ASSUME Tables, NEW r, NEW a, NEW flags \in {0, FdFlags}, Opened(r, a, flags)
  PROVE  /\ Tables' /\ \A h : Stands(h) => Stands(h)'
         /\ a.ret >= 0 => /\ opens' = opens + 1
                          /\ \A h : ~h.dir /\ h.value = a.ret /\ h.opening = opens' => Stands(h)'
<1>1. CASE a = Answer(-1, 0) /\ Keeps
  <2>1. a.ret = -1
    BY <1>1 DEF Answer
  <2> QED
    BY <1>1, <2>1, KeepsStands DEF Keeps
<1>2. CASE /\ \E d \in FileFd :
                /\ fds[d] = 0 /\ \A e \in FileFd : e < d => fds[e] # 0
                /\ fds' = [fds EXCEPT ![d] = opens + 1]
                /\ a = Answer(d + flags, 0)
           /\ opens' = opens + 1
           /\ UNCHANGED <<dirArray, dirIndex, streams>>
  <2>1. PICK d \in FileFd : /\ fds[d] = 0 /\ fds' = [fds EXCEPT ![d] = opens + 1]
                            /\ a = Answer(d + flags, 0)
    BY <1>2
  <2>2. a.ret = d + flags
    BY <2>1 DEF Answer
  <2>3. /\ opens \in Nat /\ opens' = opens + 1 /\ opens' \in Nat /\ dirArray' = dirArray
        /\ dirIndex' = dirIndex /\ fds \in [FileFd -> Nat] /\ streams' = streams
    BY <1>2 DEF Tables
  <2>4. /\ fds' \in [FileFd -> Nat] /\ fds'[d] = opens'
        /\ \A e \in FileFd : e # d => fds'[e] = fds[e]
    BY <2>1, <2>3
  <2>5. Tables'
    BY <2>3, <2>4 DEF Tables, Dirs
  <2>6. ASSUME NEW h, Stands(h)
        PROVE  Stands(h)'
    <3>1. h.opening \in 1 .. opens /\ h.opening \in 1 .. opens'
      BY <2>3, <2>6 DEF Stands
    <3>2. CASE h.dir
      <4>1. StandsDir(h)
        BY <2>6, <3>2 DEF Stands
      <4>2. StandsDir(h)'
        BY <2>3, <3>1, <4>1, FileAssumption DEF StandsDir, Distance, Dirs, Tables
      <4> QED
        BY <3>1, <3>2, <4>2, Zenon DEF Stands
    <3>3. CASE ~h.dir
      <4>1. PICK e \in FileFd : h.value \in {e, e + FdFlags} /\ fds[e] = h.opening
        BY <2>6, <3>3, Zenon DEF Stands, StandsFile
      <4>2. e # d
        BY <2>1, <3>1, <4>1
      <4>3. StandsFile(h)'
        BY <2>4, <4>1, <4>2, Zenon DEF StandsFile
      <4> QED
        BY <3>1, <3>3, <4>3, Zenon DEF Stands
    <3> QED
      BY <3>2, <3>3
  <2>7. ASSUME NEW h, ~h.dir, h.value = a.ret, h.opening = opens'
        PROVE  Stands(h)'
    <3>1. h.opening \in 1 .. opens'
      BY <2>3, <2>7
    <3>2. h.value \in {d, d + FdFlags}
      BY <2>2, <2>7, FileAssumption DEF FileFd
    <3>3. StandsFile(h)'
      BY <2>4, <2>7, <3>2, Zenon DEF StandsFile
    <3> QED
      BY <2>7, <3>1, <3>3, Zenon DEF Stands
  <2> QED
    BY <2>3, <2>5, <2>6, <2>7
<1> QED
  BY <1>1, <1>2, Zenon DEF Opened

(* A directory gets the next entry; those opened less than Dirs ago have   *)
(* others.                                                                 *)
LEMMA OpenDirStands ==
  ASSUME Tables, NEW r, NEW a, FmOpenDir(r, a)
  PROVE  /\ Tables'
         /\ \A h : Stands(h) /\ (h.dir => opens + 1 - h.opening < Dirs) => Stands(h)'
         /\ a.ret >= 0 => /\ opens' = opens + 1
                          /\ \A h : h.dir /\ h.value = a.ret /\ h.opening = opens' => Stands(h)'
<1>1. CASE a = Answer(-1, 0) /\ Keeps
  <2>1. a.ret = -1
    BY <1>1 DEF Answer
  <2> QED
    BY <1>1, <2>1, KeepsStands DEF Keeps
<1>2. CASE /\ a = Answer(dirIndex, 0)
           /\ opens' = opens + 1
           /\ dirArray' = [dirArray EXCEPT ![dirIndex] = opens + 1]
           /\ streams' = streams \cup {opens + 1}
           /\ dirIndex' = IF dirIndex + 1 = MaxOpenDirs - 1 THEN 0 ELSE dirIndex + 1
           /\ UNCHANGED fds
  <2>1. /\ a.ret = dirIndex /\ Dirs \in Nat \ {0} /\ Dirs = MaxOpenDirs - 1
        /\ 0 .. Dirs - 1 \subseteq Slot
    BY <1>2, FileAssumption DEF Answer, Dirs, Slot
  <2>2. /\ opens \in Nat /\ opens' = opens + 1 /\ opens' \in Nat /\ fds' = fds
        /\ dirIndex \in 0 .. Dirs - 1 /\ dirArray \in [Slot -> Nat]
        /\ dirIndex' = IF dirIndex + 1 = Dirs THEN 0 ELSE dirIndex + 1
    BY <1>2 DEF Tables, Dirs
  <2>3. /\ dirArray' \in [Slot -> Nat] /\ dirArray'[dirIndex] = opens'
        /\ \A s \in Slot : s # dirIndex => dirArray'[s] = dirArray[s]
    BY <1>2, <2>1, <2>2
  <2>4. dirIndex' \in 0 .. Dirs - 1
    BY <2>1, <2>2
  <2>5. Tables'
    BY <2>2, <2>3, <2>4 DEF Tables, Dirs
  <2>6. ASSUME NEW h, Stands(h), h.dir => opens + 1 - h.opening < Dirs
        PROVE  Stands(h)'
    <3>1. h.opening \in 1 .. opens /\ h.opening \in 1 .. opens'
      BY <2>2, <2>6 DEF Stands
    <3>2. CASE h.dir
      <4> DEFINE s == h.value
      <4>1. /\ s \in 0 .. Dirs - 1 /\ s \in Slot /\ dirArray[s] = h.opening /\ h.opening \in streams
            /\ Distance(s) - 1 <= opens - h.opening /\ opens + 1 - h.opening < Dirs
        BY <2>1, <2>6, <3>2, Zenon DEF Stands, StandsDir
      <4> HIDE DEF s
      <4>2. s # dirIndex
        BY <2>1, <2>2, <3>1, <4>1 DEF Distance
      <4>3. Distance(s)' = Distance(s) + 1 /\ Distance(s) \in Int
        BY <2>1, <2>2, <4>1, <4>2 DEF Distance, Dirs
      <4>4. dirArray'[s] = h.opening /\ Distance(s)' - 1 <= opens' - h.opening
        BY <2>2, <2>3, <3>1, <4>1, <4>2, <4>3
      <4>5. h.opening \in streams'
        BY <1>2, <4>1
      <4>6. StandsDir(h)'
        BY <4>1, <4>4, <4>5, Zenon DEF StandsDir, Dirs, s
      <4> QED
        BY <3>1, <3>2, <4>6, Zenon DEF Stands
    <3>3. CASE ~h.dir
      <4>1. StandsFile(h)'
        BY <2>2, <2>6, <3>3, Zenon DEF Stands, StandsFile
      <4> QED
        BY <3>1, <3>3, <4>1, Zenon DEF Stands
    <3> QED
      BY <3>2, <3>3
  <2>7. ASSUME NEW h, h.dir, h.value = a.ret, h.opening = opens'
        PROVE  Stands(h)'
    <3>1. h.opening \in 1 .. opens' /\ h.value = dirIndex
      BY <2>1, <2>2, <2>7
    <3>2. StandsDir(h)'
      <4>1. h.opening \in streams'
        BY <1>2, <2>2, <2>7
      <4> QED
        BY <2>1, <2>2, <2>3, <2>7, <3>1, <4>1 DEF StandsDir, Distance, Dirs
    <3> QED
      BY <2>7, <3>1, <3>2, Zenon DEF Stands
  <2> QED
    BY <2>2, <2>5, <2>6, <2>7
<1> QED
  BY <1>1, <1>2, Zenon DEF FmOpenDir

(* A file is closed: the handles of the others stand.                      *)
LEMMA CloseFileStands ==
  ASSUME Tables, NEW r, NEW a, FmCloseFile(r, a), Stands(r.handle), ~r.handle.dir
  PROVE  Tables' /\ \A h : Stands(h) /\ h.opening # r.handle.opening => Stands(h)'
<1>1. UNCHANGED <<dirArray, dirIndex, streams, opens>>
  BY DEF FmCloseFile
<1>2. PICK d \in FileFd : r.handle.value \in {d, d + FdFlags} /\ fds[d] = r.handle.opening
  BY Zenon DEF Stands, StandsFile
<1>3. FdOf(r.handle) = d
  BY <1>2, FlagsOff, Zenon DEF FdOf
<1>4. fds \in [FileFd -> Nat] /\ (fds' = fds \/ fds' = [fds EXCEPT ![d] = 0])
  BY <1>3, Zenon DEF FmCloseFile, Tables
<1>5. fds' \in [FileFd -> Nat] /\ \A e \in FileFd : e # d => fds'[e] = fds[e]
  BY <1>4
<1>6. Tables'
  BY <1>1, <1>5 DEF Tables, Dirs
<1>7. ASSUME NEW h, Stands(h), h.opening # r.handle.opening
      PROVE  Stands(h)'
  <2>1. CASE h.dir
    BY <1>1, <1>7, <2>1 DEF Stands, StandsDir, Distance, Dirs
  <2>2. CASE ~h.dir
    <3>1. PICK e \in FileFd : h.value \in {e, e + FdFlags} /\ fds[e] = h.opening
      BY <1>7, <2>2, Zenon DEF Stands, StandsFile
    <3>2. e # d
      BY <1>2, <1>7, <3>1
    <3>3. StandsFile(h)'
      BY <1>5, <3>1, <3>2, Zenon DEF StandsFile
    <3> QED
      BY <1>1, <1>7, <2>2, <3>3, Zenon DEF Stands
  <2> QED
    BY <2>1, <2>2
<1> QED
  BY <1>6, <1>7

(* A directory is closed: what its entry holds is the one that was opened  *)
(* with the handle, and the handles of the others stand.                   *)
LEMMA CloseDirStands ==
  ASSUME Tables, NEW r, NEW a, FmCloseDir(r, a), Stands(r.handle), r.handle.dir
  PROVE  Tables' /\ \A h : Stands(h) /\ h.opening # r.handle.opening => Stands(h)'
<1>1. dirArray[r.handle.value] = r.handle.opening /\ ~Freed(r)
  BY Zenon DEF Stands, StandsDir, Freed
<1>2. /\ UNCHANGED <<dirArray, dirIndex, fds, opens>>
      /\ streams' = streams \ {r.handle.opening}
  BY <1>1, Zenon DEF FmCloseDir
<1>3. Tables'
  BY <1>2 DEF Tables, Dirs
<1>4. ASSUME NEW h, Stands(h), h.opening # r.handle.opening
      PROVE  Stands(h)'
  <2>1. CASE h.dir
    BY <1>2, <1>4, <2>1 DEF Stands, StandsDir, Distance, Dirs
  <2>2. CASE ~h.dir
    BY <1>2, <1>4, <2>2 DEF Stands, StandsFile
  <2> QED
    BY <2>1, <2>2
<1> QED
  BY <1>3, <1>4

(* There is one answer, or none.                                           *)
LEMMA OneAnswer ==
  ASSUME up = <<>>, NEW r, ParseFm(r)
  PROVE  up' # <<>> => up' = <<Head(up')>>
<1>1. up' = up \/ \E x : up' = Append(up, x)
  BY Zenon DEF ParseFm
<1> QED
  BY <1>1

(* A request is done and answered: the handles the modem has stand, and    *)
(* the one it is given.                                                    *)
LEMMA ParseFmStands ==
  ASSUME Tables, Handles, up = <<>>, NEW r, due = {r}, due' = {}, held' = held, ParseFm(r)
  PROVE  Tables' /\ Handles'
<1> DEFINE Kind(a) == [request |-> r, ret |-> a.ret,
                       frames |-> Sent(Packet("answer", NoHandle, 0, 1 + a.size))]
<1>1. /\ \A h \in held : Stands(h)
      /\ \A h, g \in held : h.opening = g.opening => h = g
      /\ Closing(r) /\ Room(r)
  BY Zenon DEF Handles
<1>2. opens \in Nat /\ \A h \in held : h.opening \in 1 .. opens
  BY <1>1 DEF Tables, Stands
<1>3. CASE Keeps /\ (up' = up \/ \E n : up' = Append(up, [request |-> r, ret |-> 0, frames |-> n])
                     /\ r.op = "nothing")
  <2>1. Tables' /\ \A h \in held : Stands(h)'
    BY <1>1, <1>3, KeepsStands DEF Keeps
  <2>2. up' # <<>> => Head(up').request.op = "nothing"
    BY <1>3
  <2>3. ~(up # <<>> /\ Grants(Head(up)))'
    BY <2>2 DEF Grants
  <2> QED
    BY <1>1, <2>1, <2>3, Zenon DEF Handles
<1>4. CASE \E a \in Answers : Operation(r, a) /\ up' = Append(up, Kind(a))
  <2>1. PICK a \in Answers : Operation(r, a) /\ up' = Append(up, Kind(a))
    BY <1>4
  <2>2. PICK x : x.request = r /\ x.ret = a.ret /\ up' = <<x>>
    BY <2>1
  <2>3. up' # <<>> /\ Head(up') = x
    BY <2>2
  <2>4. SUFFICES
          /\ Tables' /\ \A h \in held : Stands(h)'
          /\ Grants(x) => /\ Stands(NewHandle(x))'
                          /\ \A h \in held : h.opening # opens'
    BY <1>1, <2>3, Zenon DEF Handles, Grants, NewHandle
  <2>5. CASE r.op = "close"
    <3>1. FmCloseFile(r, a)
      BY <2>1, <2>5 DEF Operation, FmOpenFile, FmCreateFile, FmReadFile, FmWriteFile,
                        FmStatus, FmFileAttributes, FmFalse, FmOpenDir, FmCloseDir
    <3>2. ~Grants(x)
      BY <2>2, <2>5 DEF Grants
    <3>3. /\ ~r.handle.dir /\ Stands(r.handle) /\ \A h \in held : h.opening # r.handle.opening
      BY <1>1, <2>5 DEF Closing
    <3> QED
      BY <1>1, <3>1, <3>2, <3>3, CloseFileStands
  <2>9. CASE r.op = "close_dir"
    <3>1. FmCloseDir(r, a)
      BY <2>1, <2>9 DEF Operation, FmOpenFile, FmCreateFile, FmCloseFile, FmReadFile, FmWriteFile,
                        FmStatus, FmFileAttributes, FmFalse, FmOpenDir
    <3>2. ~Grants(x)
      BY <2>2, <2>9 DEF Grants
    <3>3. /\ r.handle.dir /\ Stands(r.handle) /\ \A h \in held : h.opening # r.handle.opening
      BY <1>1, <2>9 DEF Closing
    <3> QED
      BY <1>1, <3>1, <3>2, <3>3, CloseDirStands
  <2>6. CASE FmOpenFile(r, a) \/ FmCreateFile(r, a)
    <3>1. PICK flags \in {0, FdFlags} : Opened(r, a, flags)
      BY <2>6 DEF FmOpenFile, FmCreateFile
    <3>2. r.op # "open_dir"
      BY <2>6 DEF FmOpenFile, FmCreateFile
    <3>3. /\ Tables' /\ \A h : Stands(h) => Stands(h)'
          /\ a.ret >= 0 => /\ opens' = opens + 1
                           /\ \A h : ~h.dir /\ h.value = a.ret /\ h.opening = opens' => Stands(h)'
      BY <3>1, OpenedStands
    <3>4. ASSUME Grants(x)
          PROVE  Stands(NewHandle(x))' /\ \A h \in held : h.opening # opens'
      <4>1. a.ret >= 0 /\ opens' = opens + 1
        BY <2>2, <3>3, <3>4 DEF Grants
      <4>2. [dir |-> x.request.op = "open_dir", value |-> x.ret, opening |-> opens'].dir = FALSE
        BY <2>2, <3>2
      <4>3. Stands([dir |-> x.request.op = "open_dir", value |-> x.ret, opening |-> opens])'
        BY <2>2, <3>3, <4>1, <4>2
      <4> QED
        BY <1>2, <4>1, <4>3 DEF NewHandle
    <3> QED
      BY <1>1, <3>3, <3>4
  <2>7. CASE FmOpenDir(r, a)
    <3>1. r.op = "open_dir"
      BY <2>7 DEF FmOpenDir
    <3>2. /\ Tables' /\ \A h \in held : Stands(h)'
          /\ a.ret >= 0 => /\ opens' = opens + 1
                           /\ \A h : h.dir /\ h.value = a.ret /\ h.opening = opens' => Stands(h)'
      BY <1>1, <2>7, <3>1, OpenDirStands DEF Room
    <3>3. ASSUME Grants(x)
          PROVE  Stands(NewHandle(x))' /\ \A h \in held : h.opening # opens'
      <4>1. a.ret >= 0 /\ opens' = opens + 1
        BY <2>2, <3>2, <3>3 DEF Grants
      <4>2. [dir |-> x.request.op = "open_dir", value |-> x.ret, opening |-> opens'].dir = TRUE
        BY <2>2, <3>1
      <4>3. Stands([dir |-> x.request.op = "open_dir", value |-> x.ret, opening |-> opens])'
        BY <2>2, <3>2, <4>1, <4>2
      <4> QED
        BY <1>2, <4>1, <4>3 DEF NewHandle
    <3> QED
      BY <1>1, <3>2, <3>3
  <2>8. CASE Keeps /\ r.op \notin {"open", "create", "open_dir"}
    <3>1. ~Grants(x)
      BY <2>2, <2>8 DEF Grants
    <3> QED
      BY <1>1, <2>8, <3>1, KeepsStands DEF Keeps
  <2> QED
    BY <2>1, <2>5, <2>6, <2>7, <2>8, <2>9, Zenon
       DEF Operation, FmCloseFile, FmReadFile, FmWriteFile, FmStatus, TrueOrFalse,
           FmFileAttributes, FmFalse, FmCloseDir
<1> QED
  BY <1>3, <1>4, Zenon DEF ParseFm, FmNothing

-----------------------------------------------------------------------------
(* The file service: the steps.                                            *)

LEMMA FileInitInv == FileInit => FileInv
<1> SUFFICES ASSUME FileInit PROVE Line /\ Tables /\ Handles
  BY Zenon DEF FileInv
<1>1. Line
  BY DEF FileInit, FramingInit, Line
<1>2. Tables
  BY FileAssumption DEF FileInit, Tables, Dirs
<1>3. Handles
  BY DEF FileInit, Handles
<1> QED
  BY <1>1, <1>2, <1>3

LEMMA AskStep == ASSUME FileInv, ~stale, NEW r \in Requests, Ask(r) PROVE FileInv'
<1>1. /\ Line /\ due' = {r} /\ wire' = Fragments(r) /\ up = <<>> /\ up' = <<>>
      /\ UNCHANGED <<mistaken, wrong>> /\ ~mistaken /\ UNCHANGED tableVars
      /\ held' = IF r.op \in {"close", "close_dir"} THEN held \ {r.handle} ELSE held
  BY DEF Ask, FileInv, framingVars
<1>2. /\ r.size \in Nat /\ r.op # "other"
      /\ r.op \in {"close", "close_dir"} => r.handle \in held /\ (r.handle.dir <=> r.op = "close_dir")
  <2>1. CASE \E op \in {"open", "create", "open_dir", "status", "attributes", "false", "nothing"} :
               r = Packet(op, NoHandle, 0, 1)
    <3>1. PICK op \in {"open", "create", "open_dir", "status", "attributes", "false", "nothing"} :
            r = Packet(op, NoHandle, 0, 1)
      BY <2>1
    <3>2. r.op = op /\ r.size = 1
      BY <3>1 DEF Packet
    <3> QED
      BY <3>2
  <2>2. CASE \E h \in held : r = Packet(IF h.dir THEN "close_dir" ELSE "close", h, 0, 1)
    <3>1. PICK h \in held : r = Packet(IF h.dir THEN "close_dir" ELSE "close", h, 0, 1)
      BY <2>2
    <3>2. r.op = (IF h.dir THEN "close_dir" ELSE "close") /\ r.size = 1 /\ r.handle = h
      BY <3>1 DEF Packet
    <3> QED
      BY <3>2
  <2>3. CASE \E n \in Lengths : r = Packet("read", NoHandle, n, 1)
    BY <2>3 DEF Packet
  <2>4. CASE \E n \in Lengths : r = Packet("write", NoHandle, n, 1 + n)
    BY <2>4, FileAssumption DEF Packet
  <2> QED
    BY <2>1, <2>2, <2>3, <2>4, Zenon DEF Requests
<1>3. held' \subseteq held /\ (r.op \in {"close", "close_dir"} => r.handle \notin held')
  BY <1>1
<1>4. Line'
  <2>1. OnWire(r)'
    <3>1. wire' = Rest(r, 1) /\ 1 \in 1 .. Count(r)
      BY <1>1, <1>2, RestFrames
    <3>2. Received(r, 1)'
      BY <1>1, Zenon DEF Received
    <3> QED
      BY <3>1, <3>2, Zenon DEF OnWire
  <2> QED
    BY <1>1, <1>2, <2>1, Zenon DEF Line
<1>5. ASSUME ~late'
      PROVE  Tables' /\ Handles'
  <2>1. /\ ~late /\ Tables /\ Handles
        /\ r.op = "open_dir" => \A h \in held : ~Overdue(h)
    BY <1>5, Zenon DEF Ask, FileInv
  <2>2. Tables' /\ \A h : Stands(h) => Stands(h)'
    BY <1>1, <2>1, KeepsStands
  <2>3. /\ \A h \in held : Stands(h)
        /\ \A h, g \in held : h.opening = g.opening => h = g
    BY <2>1, Zenon DEF Handles
  <2>4. \A h \in held' : Stands(h)'
    BY <1>3, <2>2, <2>3, Zenon
  <2>5. \A h, g \in held' : h.opening = g.opening => h = g
    BY <1>3, <2>3, Zenon
  <2>6. Closing(r)'
    <3> SUFFICES ASSUME r.op \in {"close", "close_dir"}
                 PROVE  /\ r.handle.dir <=> r.op = "close_dir"
                        /\ Stands(r.handle)' /\ \A h \in held' : h.opening # r.handle.opening
      BY Zenon DEF Closing
    <3> QED
      BY <1>2, <1>3, <2>2, <2>3, Zenon
  <2>7. Room(r)'
    <3>1. opens' = opens /\ opens \in Nat
      BY <1>1, <2>1 DEF tableVars, Tables
    <3>2. \A h \in held : h.opening \in Nat
      BY <2>3, <3>1 DEF Stands
    <3> QED
      BY <1>3, <2>1, <3>1, <3>2, FileAssumption DEF Room, Overdue, Dirs
  <2>8. \A q \in due' : Closing(q)' /\ Room(q)'
    BY <1>1, <2>6, <2>7
  <2> QED
    BY <1>1, <2>2, <2>4, <2>5, <2>8, Zenon DEF Handles
<1> QED
  BY <1>4, <1>5, Zenon DEF FileInv

LEMMA TakeStep == ASSUME FileInv, ~stale, Take PROVE FileInv'
<1> DEFINE a == Head(up)
           new == IF a.ret >= 0 /\ a.request.op \in {"open", "create", "open_dir"}
                  THEN {[dir |-> a.request.op = "open_dir", value |-> a.ret, opening |-> opens]}
                  ELSE {}
<1>1. /\ Line /\ (~late' => Tables /\ Handles) /\ up # <<>> /\ up' = Tail(up)
      /\ UNCHANGED <<mistaken, wrong, wire, due>> /\ UNCHANGED tableVars
      /\ held' = held \/ held' = held \cup new
  BY Zenon DEF Take, FileInv, framingVars, wireVars
<1>2. up = <<a>> /\ due = {} /\ wire = <<>>
  BY <1>1 DEF Line
<1>3. up' = <<>>
  BY <1>1, <1>2
<1>4. Line'
  BY <1>1, <1>2, <1>3, Zenon DEF Line
<1>5. ASSUME ~late'
      PROVE  Tables' /\ \A h : Stands(h) => Stands(h)'
  BY <1>1, <1>5, KeepsStands
<1>6. ASSUME ~late'
      PROVE  Handles'
  <2>1. /\ \A h \in held : Stands(h)
        /\ \A h, g \in held : h.opening = g.opening => h = g
        /\ Grants(a) => Stands(NewHandle(a)) /\ \A h \in held : h.opening # opens
    BY <1>1, <1>6, Zenon DEF Handles
  <2>2. CASE held' = held
    BY <1>1, <1>2, <1>3, <1>5, <1>6, <2>1, <2>2, Zenon DEF Handles
  <2>3. CASE held' = held \cup new
    <3>1. CASE ~Grants(a)
      <4>1. held' = held
        BY <2>3, <3>1, Zenon DEF Grants
      <4> QED
        BY <4>1, <2>2
    <3>2. CASE Grants(a)
      <4>1. held' = held \cup {NewHandle(a)}
        BY <2>3, <3>2, Zenon DEF Grants, NewHandle
      <4>2. NewHandle(a).opening = opens
        BY DEF NewHandle
      <4> HIDE DEF a, new
      <4>3. \A h \in held' : Stands(h)'
        <5> DEFINE n == NewHandle(a)
        <5>1. \A h \in held \cup {n} : Stands(h)
          BY <2>1, <3>2, Zenon
        <5> HIDE DEF n
        <5> QED
          BY <1>5, <1>6, <4>1, <5>1 DEF n
      <4>4. \A h, g \in held' : h.opening = g.opening => h = g
        BY <2>1, <3>2, <4>1, <4>2, Zenon
      <4> QED
        BY <1>1, <1>2, <1>3, <4>3, <4>4, Zenon DEF Handles
    <3> QED
      BY <3>1, <3>2
  <2> QED
    BY <1>1, <2>2, <2>3
<1> QED
  BY <1>4, <1>5, <1>6, Zenon DEF FileInv

LEMMA ReceiveStep == ASSUME FileInv, ~stale, IpcRecv PROVE FileInv'
<1>1. /\ Line /\ (~late' => Tables /\ Handles)
      /\ wire # <<>> /\ held' = held
  BY DEF FileInv, IpcRecv
<1>2. PICK r : due = {r} /\ r.size \in Nat /\ r.op # "other" /\ OnWire(r)
  BY <1>1, Zenon DEF Line
<1>3. PICK j \in 1 .. Count(r) : wire = Rest(r, j) /\ Received(r, j)
  BY <1>2, Zenon DEF OnWire
<1>4. up = <<>> /\ mistaken \in BOOLEAN /\ wrong \in BOOLEAN /\ (~mistaken => ~wrong)
  BY <1>1, <1>2, Zenon DEF Line
<1>5. /\ wire' = Rest(r, j + 1) /\ mistaken' \in BOOLEAN
      /\ \/ /\ UNCHANGED <<due, up, tableVars, wrong>>
            /\ mistaken => mistaken'
            /\ j < Count(r) => Received(r, j + 1)'
         \/ /\ j = Count(r) /\ due' = {} /\ UNCHANGED <<wrong, mistaken>>
            /\ ParseFm(r)
  BY <1>1, <1>2, <1>3, FrameStep, Zenon
<1>6. Count(r) \in Nat /\ Rest(r, Count(r) + 1) = <<>> /\ j \in 1 .. Count(r)
  BY <1>2, RestFrames
<1>7. CASE /\ UNCHANGED <<due, up, tableVars, wrong>>
           /\ mistaken => mistaken'
           /\ j < Count(r) => Received(r, j + 1)'
  <2>1. wire' = <<>> \/ OnWire(r)'
    <3>1. CASE j < Count(r)
      <4>1. j + 1 \in 1 .. Count(r)
        BY <1>6, <3>1
      <4> QED
        BY <1>5, <1>7, <3>1, <4>1, Zenon DEF OnWire
    <3>2. CASE ~(j < Count(r))
      BY <1>5, <1>6, <3>2
    <3> QED
      BY <3>1, <3>2
  <2>2. due' = due /\ up' = up /\ wrong' = wrong /\ tableVars' = tableVars
    BY <1>7
  <2>3. Line'
    <3>1. wrong' \in BOOLEAN /\ (~mistaken' => ~wrong')
      <4>1. wrong' = wrong /\ (mistaken => mistaken')
        BY <1>7, <2>2, Zenon
      <4> QED
        BY <1>4, <4>1, Zenon
    <3> QED
      BY <1>2, <1>4, <1>5, <2>1, <2>2, <3>1, Zenon DEF Line
  <2>4. ASSUME ~late'
        PROVE  Tables' /\ Handles'
    <3>1. Tables' /\ \A h : Stands(h) => Stands(h)'
      BY <1>1, <2>2, <2>4, KeepsStands
    <3>2. opens' = opens
      BY <2>2 DEF tableVars
    <3>3. \A q : (Closing(q) => Closing(q)') /\ (Room(q) => Room(q)')
      BY <1>1, <3>1, <3>2, Zenon DEF Closing, Room, Dirs
    <3> QED
      BY <1>1, <1>4, <2>2, <2>4, <3>1, <3>3, Zenon DEF Handles
  <2> QED
    BY <2>3, <2>4, Zenon DEF FileInv
<1>8. CASE /\ j = Count(r) /\ due' = {} /\ UNCHANGED <<wrong, mistaken>>
           /\ ParseFm(r)
  <2>1. /\ ~late' => Tables' /\ Handles'
        /\ up' # <<>> => up' = <<Head(up')>>
    BY <1>1, <1>2, <1>4, <1>8, ParseFmStands, OneAnswer, Zenon
  <2>2. wire' = <<>>
    BY <1>5, <1>6, <1>8, Zenon
  <2>3. Line'
    BY <1>4, <1>8, <2>1, <2>2, Zenon DEF Line
  <2> QED
    BY <2>1, <2>3, Zenon DEF FileInv
<1> QED
  BY <1>5, <1>7, <1>8, Zenon

(* A packet of one frame that is no request changes nothing.               *)
LEMMA OtherStep == ASSUME FileInv, ~stale, IpcRecvOther PROVE FileInv'
<1>1. /\ Line /\ (~late' => Tables /\ Handles)
      /\ wire # <<>> /\ held' = held /\ wire' = wire
  BY DEF FileInv, IpcRecvOther
<1>2. PICK r : due = {r} /\ r.size \in Nat /\ r.op # "other" /\ OnWire(r)
  BY <1>1, Zenon DEF Line
<1>3. Fragments(Other)[1] = Frame(FALSE, Other.size, Other, 1)
  <2>1. ~(Other.size > MaxSingle)
    BY FramingAssumption DEF Other, Packet
  <2>2. Fragments(Other) = <<Frame(FALSE, Other.size, Other, 1)>>
    BY <2>1, Zenon DEF Fragments
  <2> QED
    BY <2>2
<1>4. ~Fragments(Other)[1].internal /\ Fragments(Other)[1].packet = Other
  BY <1>3 DEF Frame
<1>5. UNCHANGED framingVars /\ Deliver(Other, TRUE)
  BY <1>4, Zenon DEF IpcRecvOther, IpcDispatch, Header, Part, LastPart, Completes, Single
<1>6. Other \notin due
  BY <1>2 DEF Other, Packet
<1>7. wrong' = wrong /\ due' = due /\ up' = up /\ tableVars' = tableVars
  <2>1. wrong \in BOOLEAN
    BY <1>1 DEF Line
  <2>2. due \ {Other} = due
    BY <1>6
  <2>3. wrong' = wrong
    BY <1>5, <2>1, Zenon DEF Deliver
  <2> QED
    BY <1>5, <2>2, <2>3, Zenon DEF Deliver
<1>8. multi' = multi /\ gathered' = gathered /\ position' = position /\ mistaken' = mistaken
  BY <1>5 DEF framingVars
<1>9. Line'
  <2>1. OnWire(r)'
    BY <1>1, <1>2, <1>8, Zenon DEF OnWire, Received
  <2> QED
    BY <1>1, <1>2, <1>7, <1>8, <2>1, Zenon DEF Line
<1>10. up = <<>>
  BY <1>1, <1>2, Zenon DEF Line
<1>11. ASSUME ~late'
       PROVE  Tables' /\ Handles'
  <2>1. Tables' /\ \A h : Stands(h) => Stands(h)'
    BY <1>1, <1>7, <1>11, KeepsStands
  <2>2. opens' = opens
    BY <1>7 DEF tableVars
  <2>3. \A q : (Closing(q) => Closing(q)') /\ (Room(q) => Room(q)')
    BY <1>1, <2>1, <2>2, Zenon DEF Closing, Room, Dirs
  <2> QED
    BY <1>1, <1>7, <1>10, <1>11, <2>1, <2>3, Zenon DEF Handles
<1> QED
  BY <1>9, <1>11, Zenon DEF FileInv

LEMMA FileStep == FileInv /\ [FileNext]_fileVars => FileInv'
<1> SUFFICES ASSUME FileInv, [FileNext]_fileVars, ~stale' PROVE FileInv'
  BY DEF FileInv
<1>1. CASE UNCHANGED fileVars
  <2>1. /\ UNCHANGED <<multi, gathered, position, mistaken, wire, due, up>>
        /\ UNCHANGED <<fds, dirArray, dirIndex, streams, opens, held, wrong, stale, late>>
    BY <1>1 DEF fileVars, framingVars, wireVars, tableVars
  <2>2. Line /\ (~late => Tables /\ Handles)
    BY <2>1 DEF FileInv
  <2>3. Line'
    BY <2>1, <2>2, Zenon DEF Line, OnWire, Received
  <2>4. ASSUME ~late
        PROVE  Tables' /\ Handles'
    <3>1. Tables' /\ \A h : Stands(h) => Stands(h)'
      BY <2>1, <2>2, <2>4, KeepsStands DEF tableVars
    <3>2. \A a : (Grants(a) <=> Grants(a)') /\ (Stands(NewHandle(a)) => Stands(NewHandle(a))')
      BY <2>1, Zenon DEF Grants, NewHandle, Stands, StandsDir, StandsFile, Distance
    <3>3. \A q : (Closing(q) => Closing(q)') /\ (Room(q) => Room(q)')
      BY <2>1, <3>1, Zenon DEF Closing, Room, Dirs
    <3>4. Handles'
      BY <2>1, <2>2, <2>4, <3>1, <3>2, <3>3, Zenon DEF Handles, Grants, NewHandle
    <3> QED
      BY <3>1, <3>4
  <2> QED
    BY <2>1, <2>3, <2>4, Zenon DEF FileInv
<1>2. CASE FileNext
  <2>1. CASE \E r \in Requests : Ask(r)
    BY <2>1, AskStep, Zenon DEF Ask
  <2>2. CASE Take
    <3>1. stale' = stale
      BY <2>2, Zenon DEF Take
    <3> QED
      BY <2>2, <3>1, TakeStep
  <2>3. CASE IpcRecv
    <3>1. stale' = stale
      BY <2>3 DEF IpcRecv
    <3> QED
      BY <2>3, <3>1, ReceiveStep
  <2>4. CASE IpcRecvOther
    <3>1. stale' = stale
      BY <2>4 DEF IpcRecvOther
    <3> QED
      BY <2>4, <3>1, OtherStep
  <2>5. CASE IpcRecvShort
    BY <2>5, Zenon DEF IpcRecvShort
  <2> QED
    BY <1>2, <2>1, <2>2, <2>3, <2>4, <2>5, Zenon DEF FileNext
<1> QED
  BY <1>1, <1>2

LEMMA FileInvariant == FileSpec => []FileInv
  BY FileInitInv, FileStep, PTL DEF FileSpec

-----------------------------------------------------------------------------
(* The file service: types, after a short read too.                        *)

Openings == {"open", "create", "open_dir"}
AnyPacket ==
  [op : {"open", "create", "open_dir", "status", "attributes", "false", "nothing",
         "close", "close_dir", "read", "write", "other"},
   handle : Handle, length : Nat, size : Nat]

(* What opens something has one frame; the others are called ordinary.     *)
AnyFrame ==
  {f \in [internal : BOOLEAN, size : Nat, packet : AnyPacket, part : Nat] :
     f.internal => f.packet.op \notin Openings}
Ordinary == {f \in AnyFrame : f.packet.op \notin Openings}

AnswersTyped == \E S : up \in Seq(S) /\ \A a \in S : Grants(a) => a.ret \in HandleValue

TableTypes ==
  /\ fds \in [FileFd -> Opening] /\ dirArray \in [Slot -> Opening]
  /\ dirIndex \in 0 .. Dirs - 1 /\ streams \subseteq Opening /\ opens \in Opening
  /\ AnswersTyped

FrameTypes ==
  /\ position \in Nat
  /\ multi = NoPacket \/ (multi \in AnyPacket /\ multi.op \notin Openings)

(* An opening on the wire is the only frame, and there is room for it; the *)
(* short read can repeat one more.                                         *)
WireTypes ==
  /\ last \in Seq(AnyFrame)
  /\ stale \/ opens <= MaxOpens
  /\ \/ wire \in Seq(Ordinary)
     \/ ~stale /\ opens < MaxOpens /\ \E f \in AnyFrame : wire = <<f>>

FlagTypes ==
  /\ mistaken \in BOOLEAN /\ wrong \in BOOLEAN /\ stale \in BOOLEAN /\ late \in BOOLEAN
  /\ dead \in BOOLEAN /\ awaited \in BOOLEAN

FileTypeInv ==
  /\ device \in {"jet", "wave"} /\ held \subseteq Handle
  /\ TableTypes /\ FrameTypes /\ WireTypes /\ FlagTypes

(* An answer is added.                                                     *)
LEMMA AnswerTyped ==
  ASSUME AnswersTyped, NEW a, up' = Append(up, a), Grants(a) => a.ret \in HandleValue
  PROVE  AnswersTyped'
<1>1. PICK S : up \in Seq(S) /\ \A x \in S : Grants(x) => x.ret \in HandleValue
  BY Zenon DEF AnswersTyped
<1>2. up \in Seq(S \cup {a})
  BY <1>1, SeqMonotonic, Zenon
<1>3. Append(up, a) \in Seq(S \cup {a})
  BY <1>2
<1>4. \A x \in S \cup {a} : Grants(x) => x.ret \in HandleValue
  BY <1>1, Zenon
<1>5. up' \in Seq(S \cup {a}) /\ \A x \in S \cup {a} : Grants(x)' => x.ret \in HandleValue'
  BY <1>3, <1>4, Zenon DEF Grants, HandleValue
<1> QED
  BY <1>5, Zenon DEF AnswersTyped

LEMMA ParseFmTypes ==
  ASSUME TableTypes, NEW r, ParseFm(r), r.op \in Openings => opens <= MaxOpens
  PROVE  /\ TableTypes' /\ opens' <= opens + 1
         /\ r.op \notin Openings => opens' = opens
<1> DEFINE Kind(a) == [request |-> r, ret |-> a.ret,
                       frames |-> Sent(Packet("answer", NoHandle, 0, 1 + a.size))]
<1>1. /\ opens \in Nat /\ opens <= MaxOpens + 1 /\ MaxOpens \in Nat /\ Dirs \in Nat \ {0}
      /\ Dirs = MaxOpenDirs - 1 /\ 0 .. Dirs - 1 \subseteq Slot
  BY FileAssumption DEF TableTypes, Opening, Dirs, Slot
<1>2. ASSUME Keeps, AnswersTyped'
      PROVE  TableTypes' /\ opens' <= opens + 1 /\ opens' = opens
  <2>1. /\ fds' = fds /\ dirArray' = dirArray /\ dirIndex' = dirIndex /\ opens' = opens
        /\ streams' = streams
    BY <1>2 DEF Keeps, tableVars
  <2>2. opens' <= opens + 1
    BY <1>1, <2>1
  <2> QED
    BY <1>2, <2>1, <2>2, Zenon DEF TableTypes
<1>3. CASE /\ FmNothing(r) /\ Keeps
           /\ up' = Append(up, [request |-> r, ret |-> 0,
                                frames |-> Sent(Packet("answer", NoHandle, 0, 1))])
  <2> DEFINE n == [request |-> r, ret |-> 0,
                   frames |-> Sent(Packet("answer", NoHandle, 0, 1))]
  <2>1. up' = Append(up, n) /\ ~Grants(n)
    BY <1>3 DEF FmNothing, Grants
  <2> HIDE DEF n
  <2>2. AnswersTyped'
    BY <2>1, AnswerTyped, Zenon DEF TableTypes
  <2>3. r.op \notin Openings
    BY <1>3 DEF FmNothing, Openings
  <2> QED
    BY <1>2, <1>3, <2>2
<1>4. CASE (FmNothing(r) \/ (r.op = "close_dir" /\ Freed(r))) /\ up' = up /\ Keeps
  <2>1. AnswersTyped'
    BY <1>4, Zenon DEF TableTypes, AnswersTyped, Grants, HandleValue
  <2> QED
    BY <1>2, <1>4, <2>1
<1>5. CASE \E a \in Answers : Operation(r, a) /\ up' = Append(up, Kind(a))
  <2>1. PICK a \in Answers : Operation(r, a) /\ up' = Append(up, Kind(a))
    BY <1>5
  <2>2. Kind(a).request = r /\ Kind(a).ret = a.ret
    OBVIOUS
  <2> HIDE DEF Kind
  <2>3. ASSUME Grants(Kind(a)) => a.ret \in HandleValue
        PROVE  AnswersTyped'
    BY <2>1, <2>2, <2>3, AnswerTyped, Zenon DEF TableTypes
  <2>4. CASE FmOpenFile(r, a) \/ FmCreateFile(r, a)
    <3>1. PICK flags \in {0, FdFlags} : Opened(r, a, flags)
      BY <2>4 DEF FmOpenFile, FmCreateFile
    <3>2. r.op \in Openings
      BY <2>4 DEF FmOpenFile, FmCreateFile, Openings
    <3>3. CASE a = Answer(-1, 0) /\ Keeps
      <4>1. a.ret \in HandleValue
        BY <3>3 DEF Answer, HandleValue
      <4> QED
        BY <1>2, <2>3, <3>3, <4>1
    <3>4. CASE /\ \E d \in FileFd : fds' = [fds EXCEPT ![d] = opens + 1] /\ a = Answer(d + flags, 0)
               /\ opens' = opens + 1 /\ UNCHANGED <<dirArray, dirIndex, streams>>
      <4>1. PICK d \in FileFd : fds' = [fds EXCEPT ![d] = opens + 1] /\ a = Answer(d + flags, 0)
        BY <3>4
      <4>2. a.ret = d + flags
        BY <4>1 DEF Answer
      <4>3. a.ret \in HandleValue
        BY <4>2, FileAssumption DEF HandleValue, FileFd
      <4>4. AnswersTyped'
        BY <2>3, <4>3
      <4>5. opens' \in Opening
        BY <1>1, <3>2, <3>4 DEF Opening
      <4>6. fds' \in [FileFd -> Opening]
        BY <3>4, <4>1, <4>5 DEF TableTypes
      <4>7. TableTypes'
        BY <3>4, <4>4, <4>5, <4>6 DEF TableTypes
      <4> QED
        BY <1>1, <3>2, <3>4, <4>7
    <3> QED
      BY <3>1, <3>3, <3>4, Zenon DEF Opened
  <2>5. CASE FmOpenDir(r, a)
    <3>1. r.op \in Openings
      BY <2>5 DEF FmOpenDir, Openings
    <3>2. CASE a = Answer(-1, 0) /\ Keeps
      <4>1. a.ret \in HandleValue
        BY <3>2 DEF Answer, HandleValue
      <4> QED
        BY <1>2, <2>3, <3>2, <4>1
    <3>3. CASE /\ a = Answer(dirIndex, 0)
               /\ opens' = opens + 1
               /\ dirArray' = [dirArray EXCEPT ![dirIndex] = opens + 1]
               /\ streams' = streams \cup {opens + 1}
               /\ dirIndex' = IF dirIndex + 1 = MaxOpenDirs - 1 THEN 0 ELSE dirIndex + 1
               /\ UNCHANGED fds
      <4>1. a.ret \in HandleValue
        BY <1>1, <3>3 DEF Answer, HandleValue, TableTypes
      <4>2. AnswersTyped'
        BY <2>3, <4>1
      <4>3. opens' \in Opening
        BY <1>1, <3>1, <3>3 DEF Opening
      <4>4. dirArray' \in [Slot -> Opening]
        BY <3>3, <4>3 DEF TableTypes
      <4>5. dirIndex' \in 0 .. Dirs - 1
        BY <1>1, <3>3 DEF TableTypes
      <4>6. streams' \subseteq Opening
        BY <3>3, <4>3 DEF TableTypes
      <4>7. TableTypes'
        BY <3>3, <4>2, <4>3, <4>4, <4>5, <4>6 DEF TableTypes, Dirs
      <4> QED
        BY <1>1, <3>1, <3>3, <4>7
    <3> QED
      BY <2>5, <3>2, <3>3, Zenon DEF FmOpenDir
  <2>6. CASE FmCloseFile(r, a)
    <3>1. /\ r.op \notin Openings /\ opens' = opens /\ dirArray' = dirArray
          /\ dirIndex' = dirIndex /\ streams' = streams
      BY <2>6 DEF FmCloseFile, Openings
    <3>2. fds' \in [FileFd -> Opening]
      <4>1. 0 \in Opening
        BY <1>1 DEF Opening
      <4> QED
        BY <2>6, <4>1 DEF FmCloseFile, TableTypes
    <3>3. ~Grants(Kind(a))
      BY <2>2, <3>1 DEF Grants, Openings
    <3>4. TableTypes'
      BY <2>3, <3>1, <3>2, <3>3 DEF TableTypes
    <3> QED
      BY <1>1, <3>1, <3>4
  <2>7. CASE FmCloseDir(r, a)
    <3>1. /\ r.op \notin Openings /\ opens' = opens /\ dirArray' = dirArray
          /\ dirIndex' = dirIndex /\ streams' \subseteq streams
      BY <2>7 DEF FmCloseDir, Openings
    <3>2. fds' \in [FileFd -> Opening]
      <4>1. 0 \in Opening
        BY <1>1 DEF Opening
      <4>2. fds' = fds \/ \E d \in FileFd : fds' = [fds EXCEPT ![d] = 0]
        BY <2>7, Zenon DEF FmCloseDir
      <4> QED
        BY <4>1, <4>2 DEF TableTypes
    <3>3. ~Grants(Kind(a))
      BY <2>2, <3>1 DEF Grants, Openings
    <3>4. TableTypes'
      BY <2>3, <3>1, <3>2, <3>3 DEF TableTypes
    <3> QED
      BY <1>1, <3>1, <3>4
  <2>8. CASE Keeps /\ r.op \notin Openings
    <3>1. ~Grants(Kind(a))
      BY <2>2, <2>8 DEF Grants, Openings
    <3> QED
      BY <1>2, <2>3, <2>8, <3>1
  <2> QED
    <3>1. CASE r.op \in {"read", "write", "status", "attributes", "false"} /\ Keeps
      BY <2>8, <3>1 DEF Openings
    <3> QED
      BY <2>1, <2>4, <2>5, <2>6, <2>7, <3>1, Zenon
         DEF Operation, FmReadFile, FmWriteFile, FmStatus, TrueOrFalse, FmFileAttributes,
             FmFalse
<1> QED
  BY <1>3, <1>5, <1>4, Zenon DEF ParseFm

(* A frame is dispatched, the expected one or another.                     *)
LEMMA DispatchTypes ==
  ASSUME TableTypes, FrameTypes, FlagTypes, NEW f \in AnyFrame, IpcDispatch(f),
         f.packet.op \in Openings => opens <= MaxOpens
  PROVE  /\ TableTypes' /\ FrameTypes' /\ device' = device
         /\ mistaken' \in BOOLEAN /\ wrong' \in BOOLEAN /\ dead' \in BOOLEAN
         /\ opens' <= opens + 1 /\ (f.packet.op \notin Openings => opens' = opens)
<1>1. /\ f.internal \in BOOLEAN /\ f.size \in Nat /\ f.packet \in AnyPacket
      /\ f.internal => f.packet.op \notin Openings
  BY DEF AnyFrame
<1>2. opens \in Nat /\ position \in Nat
  BY FileAssumption DEF TableTypes, Opening, FrameTypes
<1>3. ASSUME UNCHANGED <<due, up, tableVars, wrong, dead>>
      PROVE  /\ TableTypes' /\ wrong' \in BOOLEAN /\ dead' \in BOOLEAN
             /\ opens' <= opens + 1 /\ opens' = opens
  <2>1. /\ fds' = fds /\ dirArray' = dirArray /\ dirIndex' = dirIndex /\ opens' = opens
        /\ streams' = streams /\ up' = up /\ wrong' = wrong /\ dead' = dead
    BY <1>3 DEF tableVars
  <2>2. AnswersTyped'
    BY <2>1, Zenon DEF TableTypes, AnswersTyped, Grants, HandleValue
  <2>3. TableTypes'
    BY <2>1, <2>2, Zenon DEF TableTypes
  <2>4. wrong' \in BOOLEAN /\ dead' \in BOOLEAN
    BY <2>1, Zenon DEF FlagTypes
  <2>5. opens' <= opens + 1
    BY <1>2, <2>1
  <2> QED
    BY <2>1, <2>3, <2>4, <2>5
<1>4. ASSUME NEW p, NEW w, Deliver(p, w), p.op \in Openings => opens <= MaxOpens
      PROVE  /\ TableTypes' /\ wrong' \in BOOLEAN /\ dead' \in BOOLEAN
             /\ opens' <= opens + 1 /\ (p.op \notin Openings => opens' = opens)
  <2>1. wrong' \in BOOLEAN
    BY <1>4, Zenon DEF Deliver
  <2>2. CASE p = Other
    <3>1. UNCHANGED <<up, tableVars, dead>>
      BY <1>4, <2>2, Zenon DEF Deliver
    <3>2. /\ fds' = fds /\ dirArray' = dirArray /\ dirIndex' = dirIndex /\ opens' = opens
          /\ streams' = streams /\ up' = up /\ dead' = dead
      BY <3>1 DEF tableVars
    <3>3. AnswersTyped'
      BY <3>2, Zenon DEF TableTypes, AnswersTyped, Grants, HandleValue
    <3>4. TableTypes' /\ dead' \in BOOLEAN
      BY <3>2, <3>3, Zenon DEF TableTypes, FlagTypes
    <3>5. opens' <= opens + 1
      BY <1>2, <3>2
    <3> QED
      BY <2>1, <3>2, <3>4, <3>5
  <2>3. CASE p # Other
    <3>1. ParseFm(p)
      BY <1>4, <2>3, Zenon DEF Deliver
    <3>2. dead' \in BOOLEAN
      BY <3>1, Zenon DEF ParseFm, FlagTypes
    <3> QED
      BY <1>4, <2>1, <3>1, <3>2, ParseFmTypes
  <2> QED
    BY <2>2, <2>3
<1>5. CASE Header(f) /\ UNCHANGED <<due, up, tableVars, wrong, dead>>
  <2>1. FrameTypes'
    BY <1>1, <1>5 DEF Header, FrameTypes
  <2>2. device' = device /\ mistaken' \in BOOLEAN
    BY <1>5, Zenon DEF Header
  <2> QED
    BY <1>3, <1>5, <2>1, <2>2, Zenon
<1>6. CASE Part(f) /\ UNCHANGED <<due, up, tableVars, wrong, dead>>
  <2>1. FrameTypes'
    BY <1>1, <1>2, <1>6 DEF Part, FrameTypes
  <2>2. device' = device /\ mistaken' \in BOOLEAN
    BY <1>6, Zenon DEF Part, FlagTypes
  <2> QED
    BY <1>3, <1>6, <2>1, <2>2, Zenon
<1>7. CASE LastPart(f) /\ Deliver(multi, Whole(f))
  <2>1. multi \in AnyPacket /\ multi.op \notin Openings /\ f.internal
    BY <1>7, Zenon DEF LastPart, Completes, FrameTypes
  <2>2. FrameTypes'
    BY <1>7 DEF LastPart, FrameTypes
  <2>3. device' = device /\ mistaken' \in BOOLEAN
    BY <1>7, Zenon DEF LastPart, FlagTypes
  <2> QED
    BY <1>1, <1>4, <1>7, <2>1, <2>2, <2>3, Zenon
<1>8. CASE Single(f) /\ Deliver(f.packet, TRUE)
  <2>1. device' = device /\ multi' = multi /\ position' = position /\ mistaken' = mistaken
    BY <1>8 DEF Single, framingVars
  <2>2. FrameTypes' /\ mistaken' \in BOOLEAN
    BY <2>1, Zenon DEF FrameTypes, FlagTypes
  <2> QED
    BY <1>4, <1>8, <2>1, <2>2, Zenon
<1> QED
  BY <1>5, <1>6, <1>7, <1>8, Zenon DEF IpcDispatch

LEMMA NoHandleTyped == NoHandle \in Handle
  BY FileAssumption DEF NoHandle, Handle, HandleValue, Opening

(* The frames of a request, and of another packet.                         *)
LEMMA FragmentsTyped ==
  ASSUME NEW r \in AnyPacket, r.op \in Openings => r.size = 1
  PROVE  /\ Fragments(r) \in Seq(AnyFrame)
         /\ r.op \notin Openings => Fragments(r) \in Seq(Ordinary)
         /\ r.op \in Openings => \E f \in AnyFrame : Fragments(r) = <<f>>
<1>1. r.size \in Nat /\ MaxSingle \in Nat /\ HeadSize \in Nat \ {0} /\ HeadSize < MaxSingle
  BY FramingAssumption DEF AnyPacket
<1>2. /\ Count(r) \in Nat \ {0}
      /\ Fragments(r) \in Seq({FrameAt(r, i) : i \in 1 .. Count(r)})
  BY <1>1, FragmentsAre
<1>3. ASSUME NEW i \in 1 .. Count(r)
      PROVE  FrameAt(r, i) \in AnyFrame /\ FrameAt(r, i).packet = r
  <2>1. CASE r.size <= MaxSingle
    BY <1>1, <2>1 DEF FrameAt, Frame, AnyFrame
  <2>2. CASE ~(r.size <= MaxSingle)
    <3>1. r.op \notin Openings
      BY <1>1, <2>2
    <3>2. CASE i = 1
      BY <1>1, <2>2, <3>1, <3>2 DEF FrameAt, Frame, AnyFrame
    <3>3. CASE i # 1
      <4>1. Count(r) = Parts(r) + 1 /\ Parts(r) \in Nat /\ i - 1 \in 1 .. Parts(r) /\ i - 1 \in Nat
        <5>1. Parts(r) \in Nat
          BY <1>1, <2>2, PartsCover
        <5>2. Count(r) = Parts(r) + 1
          BY <1>1, <2>2 DEF Count
        <5> QED
          BY <3>3, <5>1, <5>2
      <4>2. PartSize(r, i - 1) \in Nat
        BY <1>1, <2>2, <4>1, PartPosition
      <4>3. FrameAt(r, i) = Frame(TRUE, PartSize(r, i - 1), r, i - 1)
        BY <2>2, <3>3, Zenon DEF FrameAt
      <4> QED
        BY <3>1, <4>1, <4>2, <4>3 DEF Frame, AnyFrame
    <3> QED
      BY <3>2, <3>3
  <2> QED
    BY <2>1, <2>2
<1>4. {FrameAt(r, i) : i \in 1 .. Count(r)} \subseteq AnyFrame
  BY <1>3, Zenon
<1>5. Fragments(r) \in Seq(AnyFrame)
  BY <1>2, <1>4, SeqMonotonic, Zenon
<1>6. ASSUME r.op \notin Openings
      PROVE  Fragments(r) \in Seq(Ordinary)
  <2>1. {FrameAt(r, i) : i \in 1 .. Count(r)} \subseteq Ordinary
    BY <1>3, <1>6, Zenon DEF Ordinary
  <2> QED
    BY <1>2, <2>1, SeqMonotonic, Zenon
<1>7. ASSUME r.op \in Openings
      PROVE  \E f \in AnyFrame : Fragments(r) = <<f>>
  <2>1. r.size <= MaxSingle /\ ~(r.size > MaxSingle) /\ 1 \in 1 .. Count(r)
    BY <1>1, <1>2, <1>7
  <2>2. FrameAt(r, 1) = Frame(FALSE, r.size, r, 1)
    BY <2>1, Zenon DEF FrameAt
  <2>3. Fragments(r) = <<Frame(FALSE, r.size, r, 1)>>
    BY <2>1, Zenon DEF Fragments
  <2> QED
    BY <1>3, <2>1, <2>2, <2>3, Zenon
<1> QED
  BY <1>5, <1>6, <1>7

LEMMA RequestTyped ==
  ASSUME held \subseteq Handle, NEW r \in Requests
  PROVE  r \in AnyPacket /\ (r.op \in Openings => r.size = 1)
<1>1. NoHandle \in Handle
  BY NoHandleTyped
<1>2. CASE \E op \in {"open", "create", "open_dir", "status", "attributes", "false", "nothing"} :
             r = Packet(op, NoHandle, 0, 1)
  BY <1>1, <1>2 DEF Packet, AnyPacket
<1>3. CASE \E h \in held : r = Packet(IF h.dir THEN "close_dir" ELSE "close", h, 0, 1)
  <2>1. PICK h \in held : r = Packet(IF h.dir THEN "close_dir" ELSE "close", h, 0, 1)
    BY <1>3
  <2>2. PICK op \in {"close_dir", "close"} : r = Packet(op, h, 0, 1)
    BY <2>1, Zenon
  <2> QED
    BY <2>2 DEF Packet, AnyPacket
<1>4. CASE \E n \in Lengths : r = Packet("read", NoHandle, n, 1)
  BY <1>1, <1>4, FileAssumption DEF Packet, AnyPacket
<1>5. CASE \E n \in Lengths : r = Packet("write", NoHandle, n, 1 + n)
  BY <1>1, <1>5, FileAssumption DEF Packet, AnyPacket, Openings
<1> QED
  BY <1>2, <1>3, <1>4, <1>5, Zenon DEF Requests

LEMMA FileTypeInit == FileInit => FileTypeInv
<1> SUFFICES ASSUME FileInit PROVE FileTypeInv
  OBVIOUS
<1>1. 0 \in Opening /\ 0 \in 0 .. Dirs - 1
  BY FileAssumption DEF Opening, Dirs
<1>2. AnswersTyped
  <2> DEFINE S == {}
  <2>1. up \in Seq(S) /\ \A a \in S : Grants(a) => a.ret \in HandleValue
    BY DEF FileInit
  <2> HIDE DEF S
  <2> QED
    BY <2>1, Zenon DEF AnswersTyped
<1>3. TableTypes
  BY <1>1, <1>2 DEF FileInit, TableTypes
<1>4. FrameTypes /\ device \in {"jet", "wave"} /\ held \subseteq Handle
  BY DEF FileInit, FramingInit, FrameTypes
<1>5. WireTypes
  BY FileAssumption DEF FileInit, WireTypes
<1>6. FlagTypes
  BY DEF FileInit, FramingInit, FlagTypes
<1> QED
  BY <1>3, <1>4, <1>5, <1>6 DEF FileTypeInv

(* What a step that receives no frame leaves alone.                        *)
LEMMA TablesKept ==
  ASSUME TableTypes, FrameTypes, UNCHANGED <<framingVars, tableVars>>, AnswersTyped'
  PROVE  TableTypes' /\ FrameTypes'
<1>1. /\ fds' = fds /\ dirArray' = dirArray /\ dirIndex' = dirIndex /\ opens' = opens
      /\ streams' = streams /\ multi' = multi /\ position' = position
  BY DEF tableVars, framingVars
<1> QED
  BY <1>1, Zenon DEF TableTypes, FrameTypes

LEMMA AskTypes == ASSUME FileTypeInv, NEW r \in Requests, Ask(r) PROVE FileTypeInv'
<1>1. /\ wire' = Fragments(r) /\ awaited' = TRUE /\ UNCHANGED <<framingVars, tableVars>>
      /\ UNCHANGED <<last, up, wrong, stale, dead>> /\ ~stale
      /\ r.op \in Openings => opens < MaxOpens
      /\ held' \subseteq held /\ late' \in BOOLEAN
  BY DEF Ask, Openings, FileTypeInv, FlagTypes
<1>2. r \in AnyPacket /\ (r.op \in Openings => r.size = 1)
  BY RequestTyped, Zenon DEF FileTypeInv
<1>3. AnswersTyped'
  BY <1>1, Zenon DEF FileTypeInv, TableTypes, AnswersTyped, Grants, HandleValue
<1>4. TableTypes' /\ FrameTypes'
  BY <1>1, <1>3, TablesKept, Zenon DEF FileTypeInv
<1>5. opens' = opens /\ device' = device /\ mistaken' = mistaken
  BY <1>1 DEF tableVars, framingVars
<1>6. WireTypes'
  <2>1. \/ Fragments(r) \in Seq(Ordinary)
        \/ opens < MaxOpens /\ \E f \in AnyFrame : Fragments(r) = <<f>>
    BY <1>1, <1>2, FragmentsTyped, Zenon
  <2> QED
    BY <1>1, <1>5, <2>1, Zenon DEF FileTypeInv, WireTypes
<1>7. FlagTypes'
  BY <1>1, <1>5, Zenon DEF FileTypeInv, FlagTypes
<1>8. device' \in {"jet", "wave"} /\ held' \subseteq Handle
  BY <1>1, <1>5, Zenon DEF FileTypeInv
<1> QED
  BY <1>4, <1>6, <1>7, <1>8, Zenon DEF FileTypeInv

LEMMA TakeTypes == ASSUME FileTypeInv, Take PROVE FileTypeInv'
<1> DEFINE a == Head(up)
           new == IF a.ret >= 0 /\ a.request.op \in {"open", "create", "open_dir"}
                  THEN {[dir |-> a.request.op = "open_dir", value |-> a.ret, opening |-> opens]}
                  ELSE {}
<1>1. /\ up # <<>> /\ up' = Tail(up) /\ UNCHANGED <<framingVars, tableVars>>
      /\ UNCHANGED <<wire, last, wrong, stale, late, dead>>
      /\ (held' = held /\ awaited' = awaited) \/ (held' = held \cup new /\ awaited' = FALSE)
  BY Zenon DEF Take, wireVars
<1>2. PICK S : up \in Seq(S) /\ \A x \in S : Grants(x) => x.ret \in HandleValue
  BY Zenon DEF FileTypeInv, TableTypes, AnswersTyped
<1>3. Head(up) \in S /\ Tail(up) \in Seq(S)
  BY <1>1, <1>2, HeadTailProperties, Zenon
<1>4. AnswersTyped'
  BY <1>1, <1>2, <1>3, Zenon DEF AnswersTyped, Grants, HandleValue
<1>5. TableTypes' /\ FrameTypes'
  BY <1>1, <1>4, TablesKept, Zenon DEF FileTypeInv
<1>6. opens' = opens /\ device' = device /\ mistaken' = mistaken
  BY <1>1 DEF tableVars, framingVars
<1>7. WireTypes' /\ FlagTypes'
  BY <1>1, <1>6, Zenon DEF FileTypeInv, WireTypes, FlagTypes
<1>8. new \subseteq Handle
  <2>1. CASE Grants(a)
    <3>1. a.ret \in HandleValue /\ opens \in Opening
      BY <1>2, <1>3, <2>1, Zenon DEF FileTypeInv, TableTypes
    <3>2. [dir |-> a.request.op = "open_dir", value |-> a.ret, opening |-> opens] \in Handle
      <4>1. (a.request.op = "open_dir") \in BOOLEAN
        BY Zenon
      <4> QED
        BY <3>1, <4>1, Zenon DEF Handle
    <3> QED
      BY <3>2, Zenon
  <2>2. CASE ~Grants(a)
    BY <2>2, Zenon DEF Grants
  <2> QED
    BY <2>1, <2>2
<1>9. device' \in {"jet", "wave"} /\ held' \subseteq Handle
  <2>1. held \subseteq Handle /\ device \in {"jet", "wave"}
    BY DEF FileTypeInv
  <2> HIDE DEF new
  <2> QED
    BY <1>1, <1>6, <1>8, <2>1
<1> QED
  BY <1>5, <1>7, <1>9, Zenon DEF FileTypeInv

(* The frame at the head of the wire, and what is behind it.               *)
LEMMA HeadTyped ==
  ASSUME WireTypes, wire # <<>>
  PROVE  /\ Head(wire) \in AnyFrame /\ Tail(wire) \in Seq(Ordinary)
         /\ <<Head(wire)>> \in Seq(AnyFrame)
         /\ Head(wire).packet.op \in Openings => ~stale /\ opens < MaxOpens
<1>1. CASE wire \in Seq(Ordinary)
  <2>1. Head(wire) \in Ordinary /\ Tail(wire) \in Seq(Ordinary)
    BY <1>1, HeadTailProperties, Zenon
  <2>2. Head(wire) \in AnyFrame /\ Head(wire).packet.op \notin Openings
    BY <2>1 DEF Ordinary
  <2> QED
    BY <2>1, <2>2
<1>2. CASE ~stale /\ opens < MaxOpens /\ \E f \in AnyFrame : wire = <<f>>
  <2>1. PICK f \in AnyFrame : wire = <<f>>
    BY <1>2
  <2>2. Head(wire) = f /\ Tail(wire) = <<>>
    BY <2>1
  <2> QED
    BY <1>2, <2>2
<1> QED
  BY <1>1, <1>2 DEF WireTypes

LEMMA RecvTypes == ASSUME FileTypeInv, IpcRecv PROVE FileTypeInv'
<1>1. /\ wire # <<>> /\ wire' = Tail(wire) /\ (last' = <<Head(wire)>> \/ last' = <<>>)
      /\ IpcDispatch(Head(wire)) /\ UNCHANGED <<awaited, held, stale, late>>
  BY Zenon DEF IpcRecv
<1>2. /\ Head(wire) \in AnyFrame /\ Tail(wire) \in Seq(Ordinary)
      /\ <<Head(wire)>> \in Seq(AnyFrame)
      /\ Head(wire).packet.op \in Openings => ~stale /\ opens < MaxOpens
  BY <1>1, HeadTyped, Zenon DEF FileTypeInv
<1>3. opens \in Nat /\ MaxOpens \in Nat /\ (stale \/ opens <= MaxOpens)
  BY FileAssumption DEF FileTypeInv, TableTypes, Opening, WireTypes
<1>4. Head(wire).packet.op \in Openings => opens <= MaxOpens
  BY <1>2, <1>3
<1>5. /\ TableTypes' /\ FrameTypes' /\ device' = device
      /\ mistaken' \in BOOLEAN /\ wrong' \in BOOLEAN /\ dead' \in BOOLEAN
      /\ opens' <= opens + 1 /\ (Head(wire).packet.op \notin Openings => opens' = opens)
  BY <1>1, <1>2, <1>4, DispatchTypes, Zenon DEF FileTypeInv
<1>6. stale' \/ opens' <= MaxOpens
  <2>1. opens' \in Nat
    BY <1>5, FileAssumption DEF TableTypes, Opening
  <2>2. CASE Head(wire).packet.op \in Openings
    <3>1. opens' <= MaxOpens
      BY <1>2, <1>3, <1>5, <2>1, <2>2
    <3> QED
      BY <3>1
  <2>3. CASE Head(wire).packet.op \notin Openings
    <3>1. opens' = opens /\ stale' = stale
      BY <1>1, <1>5, <2>3
    <3> QED
      BY <1>3, <3>1, Zenon
  <2> QED
    BY <2>2, <2>3
<1>7. WireTypes'
  <2>1. last' \in Seq(AnyFrame)
    BY <1>1, <1>2, EmptySeq, Zenon
  <2> QED
    BY <1>1, <1>2, <1>6, <2>1, Zenon DEF WireTypes
<1>8. FlagTypes'
  BY <1>1, <1>5, Zenon DEF FileTypeInv, FlagTypes
<1> QED
  BY <1>1, <1>5, <1>7, <1>8, Zenon DEF FileTypeInv

LEMMA OtherTypes == ASSUME FileTypeInv, IpcRecvOther PROVE FileTypeInv'
<1>1. /\ last' = Fragments(Other) \/ last' = <<>>
      /\ IpcDispatch(Fragments(Other)[1]) /\ UNCHANGED <<wire, awaited, held, stale, late>>
  BY Zenon DEF IpcRecvOther
<1>2. Other \in AnyPacket /\ Other.op = "other" /\ Other.op \notin Openings
  BY NoHandleTyped DEF Other, Packet, AnyPacket, Openings
<1>3. Fragments(Other) \in Seq(AnyFrame)
  BY <1>2, FragmentsTyped, Zenon
<1>4. Fragments(Other) = <<Frame(FALSE, Other.size, Other, 1)>>
  <2>1. ~(Other.size > MaxSingle)
    BY FramingAssumption DEF Other, Packet
  <2> QED
    BY <2>1, Zenon DEF Fragments
<1>5. Fragments(Other)[1] \in AnyFrame /\ Fragments(Other)[1].packet = Other
  <2>1. Fragments(Other)[1] = Frame(FALSE, Other.size, Other, 1)
    BY <1>4
  <2>2. Other.size \in Nat
    BY <1>2 DEF AnyPacket
  <2> QED
    BY <1>2, <2>1, <2>2 DEF Frame, AnyFrame
<1>6. /\ TableTypes' /\ FrameTypes' /\ device' = device
      /\ mistaken' \in BOOLEAN /\ wrong' \in BOOLEAN /\ dead' \in BOOLEAN
      /\ opens' = opens
  BY <1>1, <1>2, <1>5, DispatchTypes, Zenon DEF FileTypeInv
<1>7. WireTypes'
  <2>1. last' \in Seq(AnyFrame)
    BY <1>1, <1>3, EmptySeq, Zenon
  <2> QED
    BY <1>1, <1>6, <2>1, Zenon DEF FileTypeInv, WireTypes
<1>8. FlagTypes'
  BY <1>1, <1>6, Zenon DEF FileTypeInv, FlagTypes
<1> QED
  BY <1>1, <1>6, <1>7, <1>8, Zenon DEF FileTypeInv

LEMMA ShortTypes == ASSUME FileTypeInv, IpcRecvShort PROVE FileTypeInv'
<1>1. /\ wire # <<>> /\ wire' = Tail(wire) /\ stale' = TRUE /\ ~stale
      /\ UNCHANGED <<last, awaited, held, late>>
  BY Zenon DEF IpcRecvShort
<1>2. Tail(wire) \in Seq(Ordinary)
  BY <1>1, HeadTyped, Zenon DEF FileTypeInv
<1>3. WireTypes'
  BY <1>1, <1>2, Zenon DEF FileTypeInv, WireTypes
<1>4. CASE last # <<>> /\ IpcDispatch(last[1])
  <2>1. last[1] \in AnyFrame
    <3>1. last \in Seq(AnyFrame)
      BY DEF FileTypeInv, WireTypes
    <3> QED
      BY <1>4, <3>1
  <2>2. opens <= MaxOpens
    BY <1>1, Zenon DEF FileTypeInv, WireTypes
  <2>3. /\ TableTypes' /\ FrameTypes' /\ device' = device
        /\ mistaken' \in BOOLEAN /\ wrong' \in BOOLEAN /\ dead' \in BOOLEAN
    BY <1>4, <2>1, <2>2, DispatchTypes, Zenon DEF FileTypeInv
  <2>4. FlagTypes'
    BY <1>1, <2>3, Zenon DEF FileTypeInv, FlagTypes
  <2> QED
    BY <1>1, <1>3, <2>3, <2>4, Zenon DEF FileTypeInv
<1>5. CASE dead' = TRUE /\ UNCHANGED <<framingVars, due, up, tableVars, wrong>>
  <2>1. AnswersTyped'
    BY <1>5, Zenon DEF FileTypeInv, TableTypes, AnswersTyped, Grants, HandleValue
  <2>2. TableTypes' /\ FrameTypes'
    BY <1>5, <2>1, TablesKept, Zenon DEF FileTypeInv
  <2>3. device' = device /\ mistaken' = mistaken
    BY <1>5 DEF framingVars
  <2>4. FlagTypes'
    BY <1>1, <1>5, <2>3, Zenon DEF FileTypeInv, FlagTypes
  <2> QED
    BY <1>1, <1>3, <2>2, <2>3, <2>4, Zenon DEF FileTypeInv
<1> QED
  BY <1>4, <1>5, Zenon DEF IpcRecvShort

LEMMA FileTypesStep == FileTypeInv /\ [FileNext]_fileVars => FileTypeInv'
<1> SUFFICES ASSUME FileTypeInv, [FileNext]_fileVars PROVE FileTypeInv'
  OBVIOUS
<1>1. CASE UNCHANGED fileVars
  <2>1. /\ UNCHANGED <<framingVars, tableVars>> /\ UNCHANGED <<wire, last, up, awaited>>
        /\ UNCHANGED <<held, wrong, stale, late, dead>>
    BY <1>1 DEF fileVars, wireVars
  <2>2. AnswersTyped'
    BY <2>1, Zenon DEF FileTypeInv, TableTypes, AnswersTyped, Grants, HandleValue
  <2>3. TableTypes' /\ FrameTypes'
    BY <2>1, <2>2, TablesKept, Zenon DEF FileTypeInv
  <2>4. opens' = opens /\ device' = device /\ mistaken' = mistaken
    BY <2>1 DEF tableVars, framingVars
  <2>5. WireTypes' /\ FlagTypes'
    BY <2>1, <2>4, Zenon DEF FileTypeInv, WireTypes, FlagTypes
  <2> QED
    BY <2>1, <2>3, <2>4, <2>5, Zenon DEF FileTypeInv
<1>2. CASE FileNext
  BY <1>2, AskTypes, TakeTypes, RecvTypes, OtherTypes, ShortTypes, Zenon DEF FileNext
<1> QED
  BY <1>1, <1>2

-----------------------------------------------------------------------------
(* The file service: the theorems.                                         *)

(* fm.c, ipc_dispatch: every variable has its type, the table of           *)
(* directories and its index too, also when a short read dispatches a      *)
(* frame again.                                                            *)
THEOREM FileTypes == FileSpec => []FileTypeOK
<1>1. FileTypeInv => FileTypeOK
  <2> SUFFICES ASSUME FileTypeInv PROVE FileTypeOK
    OBVIOUS
  <2>1. dirIndex \in Slot
    BY FileAssumption DEF FileTypeInv, TableTypes, Dirs, Slot
  <2>2. {mistaken, wrong, stale, late, dead, awaited} \subseteq BOOLEAN
    BY Zenon DEF FileTypeInv, FlagTypes
  <2> QED
    BY <2>1, <2>2, Zenon DEF FileTypeInv, FileTypeOK, TableTypes, FrameTypes
<1> QED
  BY <1>1, FileTypeInit, FileTypesStep, PTL DEF FileSpec

(* ipc_dispatch: for every length of a frame and of a packet, a packet is  *)
(* dispatched once, whole and as it was sent, whatever comes between its   *)
(* parts, unless a part was taken for a header or a read was short.        *)
THEOREM FilePacketsWhole == FileSpec => []PacketsWhole
<1>1. FileInv => PacketsWhole
  BY Zenon DEF FileInv, Line, PacketsWhole
<1> QED
  BY <1>1, FileInvariant, PTL

(* fm.c: for every number of descriptors and of directories, a handle the  *)
(* modem has means what it has opened with it, and nobody has closed that, *)
(* though closedir closes whatever its entry holds: as long as the modem   *)
(* opens no directory when MAX_OPEN_DIRS - 2 others were opened since one  *)
(* that it keeps.                                                          *)
THEOREM FileOwnHandle == FileSpec => []OwnHandle
<1>1. ASSUME FileInv, ~stale, ~late, NEW h \in held
      PROVE  IF h.dir
             THEN dirArray[h.value] = h.opening /\ h.opening \in streams
             ELSE FdOf(h) \in FileFd /\ fds[FdOf(h)] = h.opening
  <2>1. Stands(h)
    BY <1>1, Zenon DEF FileInv, Handles
  <2>2. CASE h.dir
    BY <2>1, <2>2, Zenon DEF Stands, StandsDir, Dirs
  <2>3. CASE ~h.dir
    <3>1. PICK d \in FileFd : h.value \in {d, d + FdFlags} /\ fds[d] = h.opening
      BY <2>1, <2>3, Zenon DEF Stands, StandsFile
    <3>2. FdOf(h) = d
      BY <3>1, FlagsOff, Zenon DEF FdOf
    <3> QED
      BY <2>3, <3>1, <3>2, Zenon
  <2> QED
    BY <2>2, <2>3
<1>2. FileInv => OwnHandle
  BY <1>1, Zenon DEF OwnHandle
<1> QED
  BY <1>2, FileInvariant, PTL
=============================================================================
