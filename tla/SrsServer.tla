------------------------------ MODULE SrsServer ------------------------------
(***************************************************************************)
(* The local server of the library (mocha-ril/srs.c, srs_dispatch of       *)
(* mocha-ril.c, find_srs_gps_client of gps.c) and its peers, the processes *)
(* that use srs-client/srs-client.c.                                       *)
(*                                                                         *)
(* Three threads share the list of clients: the acceptor appends to it     *)
(* with the mutex of the server; the reader walks it, and removes whom it  *)
(* cannot read or write, with that mutex; and the handler of an indication *)
(* of the GPS walks it, and removes whom it cannot write, with RIL_LOCK    *)
(* only.  So the handler's removal has two steps here, the free of the     *)
(* client and that of its entry, and a registration has two, the walk and  *)
(* the link, and the reader walks between them.  The mutex of the          *)
(* ril_client surrounds one read or one write, which is one step.          *)
(*                                                                         *)
(* A peer connects once and stands for its connection: the entry of the    *)
(* list and the descriptor that are made for it are known by its name.     *)
(* The commands to the sound and to the GPS are not told apart.            *)
(***************************************************************************)
EXTENDS Integers, SequencesExt

CONSTANTS
  Peer,     (* the connections                                             *)
  NoPeer,   (* none of them, a pointer that is NULL                        *)
  MaxFd,    (* the descriptors the server has for them                     *)
  Buffer,   (* the messages a socket holds for its peer                    *)
  MaxInd    (* the messages for the GPS client                             *)

ASSUME SrsAssumption ==
  /\ NoPeer \notin Peer
  /\ MaxFd \in Nat \ {0} /\ Buffer \in Nat \ {0} /\ MaxInd \in Nat

VARIABLES
  peer,      (* the state of each peer                                     *)
  asked,     (* its ping: "no", "asked", "answered", "merged" when it is   *)
             (* read with another message and lost                         *)
  toServer,  (* what it has written                                        *)
  toPeer,    (* what it can read                                           *)
  backlog,   (* who has connected and is not accepted                      *)
  owner,     (* whose connection a descriptor of the server is             *)
  clients,   (* client_data->clients                                       *)
  fdOf,      (* client->fd                                                 *)
  gps,       (* the clients of type SRS_CLIENT_TYPE_GPS                    *)
  server,    (* the thread of the client: accepting, or its end            *)
  accepted,  (* the client it is to register                               *)
  behind,    (* the entry it found at the end of the list                  *)
  srs,       (* who has the mutex of the server                            *)
  ril,       (* who has RIL_LOCK                                           *)
  reader,    (* the step of srs_client_read_loop                           *)
  ready,     (* its fd_set                                                 *)
  fd,        (* the descriptor it works on                                 *)
  message,   (* the message it has read                                    *)
  gpsd,      (* the step of the handler of an indication                   *)
  inds,      (* the messages to come                                       *)
  ptr,       (* the client a thread works on                               *)
  excused,   (* history: who closed, did not read, met a wrong close, or   *)
             (* was registered during a removal                            *)
  dropped    (* history: who was removed by a sender, or lost to that      *)

peerVars == <<peer, asked, toServer, toPeer, backlog>>
listVars == <<owner, clients, fdOf, gps>>
serverVars == <<server, accepted, behind>>
readerVars == <<reader, ready, fd, message>>
gpsVars == <<gpsd, inds>>
history == <<excused, dropped>>
vars == <<peerVars, listVars, serverVars, srs, ril, readerVars, gpsVars, ptr, history>>

Fd == 1 .. MaxFd
Nobody == "nobody"
Sender == {"reader", "gpsd"}

TypeOK ==
  /\ peer \in [Peer -> {"off", "connected", "closed"}]
  /\ asked \in [Peer -> {"no", "asked", "answered", "merged"}]
  /\ toServer \in [Peer -> Seq({"ping", "hello"})]
  /\ toPeer \in [Peer -> Seq({"ping", "gps"})]
  /\ backlog \subseteq Peer
  /\ owner \in [Fd -> Peer \cup {NoPeer}]
  /\ clients \in Seq(Peer) /\ fdOf \in [Peer -> Fd \cup {0}] /\ gps \subseteq Peer
  /\ server \in {"accept", "register", "link", "failed", "destroyed"}
  /\ accepted \in Peer \cup {NoPeer} /\ behind \in Peer \cup {NoPeer}
  /\ srs \in {"reader", "acceptor", Nobody} /\ ril \in Sender \cup {Nobody}
  /\ reader \in {"fill", "select", "scan", "recv", "dispatch", "drop", "ended"}
  /\ ready \subseteq Fd /\ fd \in Fd \cup {0} /\ message \in {"ping", "hello", "none"}
  /\ gpsd \in {"idle", "send", "drop", "unlink"} /\ inds \in 0 .. MaxInd
  /\ ptr \in [Sender -> Peer \cup {NoPeer}]
  /\ excused \subseteq Peer /\ dropped \subseteq Peer

(* srs_create.                                                             *)
Init ==
  /\ peer = [p \in Peer |-> "off"] /\ asked = [p \in Peer |-> "no"]
  /\ toServer = [p \in Peer |-> <<>>] /\ toPeer = [p \in Peer |-> <<>>]
  /\ backlog = {}
  /\ owner = [f \in Fd |-> NoPeer]
  /\ clients = <<>> /\ fdOf = [p \in Peer |-> 0] /\ gps = {}
  /\ server = "accept" /\ accepted = NoPeer /\ behind = NoPeer
  /\ srs = Nobody /\ ril = Nobody
  /\ reader = "fill" /\ ready = {} /\ fd = 0 /\ message = "none"
  /\ gpsd = "idle" /\ inds = MaxInd
  /\ ptr = [s \in Sender |-> NoPeer]
  /\ excused = {} /\ dropped = {}

-----------------------------------------------------------------------------
(* The list.                                                               *)

Listed == ToSet(clients)

(* The entry the handler is about to free, whose client is freed.          *)
Unlinking == IF gpsd = "unlink" THEN {ptr["gpsd"]} \cap Listed ELSE {}

(* What a walk sees: the list, or, when it stands on an entry that is      *)
(* freed and zero, what was before that.                                   *)
Views ==
  {clients} \cup {SubSeq(clients, 1, i - 1) : i \in {j \in DOMAIN clients : clients[j] \in Unlinking}}

(* The first client with the property; none.                               *)
First(seen, Is(_)) ==
  LET i == SelectInSeq(seen, Is)
  IN  IF i = 0 THEN NoPeer ELSE seen[i]

(* srs_client_info_find_type, srs_client_info_find_fd.                     *)
FindGps == First(clients, LAMBDA p : p \in gps)
FindFd(seen, f) == First(seen, LAMBDA p : fdOf[p] = f)

(* srs_client_info_fill_fd_set.  A client that is freed has descriptor 0,  *)
(* which is none of the server's.                                          *)
FdSet(seen) == {fdOf[p] : p \in ToSet(seen)} \ {0}

(* srs_client_unregister: the client is set to zero and freed,             *)
Wipe(p) ==
  /\ fdOf' = IF p \in Listed THEN [fdOf EXCEPT ![p] = 0] ELSE fdOf
  /\ gps' = gps \ {p}

(* and so is its entry, if the walk comes to it.                           *)
Unregister(p, seen) ==
  IF p \in ToSet(seen)
  THEN Wipe(p) /\ clients' = RemoveFirst(clients, p)
  ELSE UNCHANGED <<clients, fdOf, gps>>

(* There is something to read; or the end of the connection, too.          *)
Holds(f) == owner[f] # NoPeer /\ toServer[owner[f]] # <<>>
Readable(f) == Holds(f) \/ (owner[f] # NoPeer /\ peer[owner[f]] = "closed")

(* The client a pointer leads to: its own, or, once that is freed, another *)
(* that has its memory, or nothing that is one.                            *)
Means(p) == IF p \in Listed THEN {p} ELSE Listed \cup {NoPeer}

-----------------------------------------------------------------------------
(* The peers (external processes that use srs-client.c).                   *)

(* There is somebody at the other end.                                     *)
Served(p) == p \in backlog \/ \E f \in Fd : owner[f] = p

Connect(p) ==
  /\ peer[p] = "off" /\ server # "destroyed"
  /\ peer' = [peer EXCEPT ![p] = "connected"]
  /\ backlog' = backlog \cup {p}
  /\ UNCHANGED <<asked, toServer, toPeer>>

(* srs_client_send of SRS_GPS_HELLO.                                       *)
Hello(p) ==
  /\ peer[p] = "connected" /\ Served(p) /\ p \notin gps
  /\ ~\E i \in DOMAIN toServer[p] : toServer[p][i] = "hello"
  /\ toServer' = [toServer EXCEPT ![p] = Append(@, "hello")]
  /\ UNCHANGED <<peer, asked, toPeer, backlog>>

(* srs_client_ping; it then waits for a message or SRS_CLIENT_TIMEOUT.     *)
Ping(p) ==
  /\ peer[p] = "connected" /\ Served(p) /\ asked[p] = "no"
  /\ asked' = [asked EXCEPT ![p] = "asked"]
  /\ toServer' = [toServer EXCEPT ![p] = Append(@, "ping")]
  /\ UNCHANGED <<peer, toPeer, backlog>>

(* srs_client_recv_message, for the ping or in the thread of the client.   *)
Receive(p) ==
  /\ peer[p] = "connected" /\ toPeer[p] # <<>>
  /\ toPeer' = [toPeer EXCEPT ![p] = Tail(@)]
  /\ UNCHANGED <<peer, asked, toServer, backlog>>

(* srs_client_close, or the end of the process.                            *)
Close(p) ==
  /\ peer[p] = "connected"
  /\ peer' = [peer EXCEPT ![p] = "closed"]
  /\ toPeer' = [toPeer EXCEPT ![p] = <<>>]
  /\ excused' = excused \cup {p}
  /\ UNCHANGED <<asked, toServer, backlog, dropped>>

PeerStep(p) ==
  /\ \/ /\ Connect(p) \/ Hello(p) \/ Ping(p) \/ Receive(p)
        /\ UNCHANGED history
     \/ Close(p)
  /\ UNCHANGED <<listVars, serverVars, srs, ril, readerVars, gpsVars, ptr>>

-----------------------------------------------------------------------------
(* The acceptor: srs_read_loop and the end of the thread of the client.    *)

(* accept gives the lowest descriptor that is free; the reader can still   *)
(* have it in its set, for a client that is gone.                          *)
Accept(p) ==
  /\ server = "accept" /\ p \in backlog
  /\ backlog' = backlog \ {p}
  /\ \E f \in Fd :
       /\ owner[f] = NoPeer /\ \A g \in 1 .. f - 1 : owner[g] # NoPeer
       /\ owner' = [owner EXCEPT ![f] = p]
       /\ fdOf' = [fdOf EXCEPT ![p] = f]
       /\ excused' = IF f \in ready THEN excused \cup {p} ELSE excused
  /\ server' = "register" /\ accepted' = p
  /\ UNCHANGED <<peer, asked, toServer, toPeer, clients, gps, behind, srs, ril, readerVars, gpsVars,
                 ptr, dropped>>

(* srs_client_register, with the mutex of the server: the end of the list  *)
(* is found, or the entry that is freed meanwhile is taken for it;         *)
LastEntry == IF clients = <<>> THEN NoPeer ELSE Last(clients)

Register ==
  /\ server = "register" /\ srs = Nobody
  /\ behind' \in {LastEntry} \cup Unlinking
  /\ server' = "link" /\ srs' = "acceptor"
  /\ UNCHANGED <<peerVars, listVars, accepted, ril, readerVars, gpsVars, ptr, history>>

(* and the client is linked behind it, or becomes the list when that is    *)
(* empty.  Behind an entry that is being freed, or was, it can be lost:    *)
(* nobody will read it.  What else a write to freed memory does is not     *)
(* known: the client's own entry may have it, and the list be a circle.    *)
Link ==
  /\ server = "link"
  /\ \/ /\ behind = LastEntry \/ clients = <<>>
        /\ clients' = Append(clients, accepted)
        /\ UNCHANGED history
     \/ /\ behind # LastEntry \/ behind \in Unlinking
        /\ UNCHANGED clients
        /\ excused' \in {excused \cup {accepted}, Peer} /\ dropped' = dropped \cup {accepted}
  /\ server' = "accept" /\ accepted' = NoPeer /\ behind' = NoPeer /\ srs' = Nobody
  /\ UNCHANGED <<peerVars, owner, fdOf, gps, ril, readerVars, gpsVars, ptr>>

(* accept fails, for want of a descriptor for instance: running is reset.  *)
AcceptFails ==
  /\ server = "accept"
  /\ server' = "failed"
  /\ UNCHANGED <<peerVars, listVars, accepted, behind, srs, ril, readerVars, gpsVars, ptr, history>>

(* srs_destroy, without a lock and without having waited for the reader,   *)
(* which is a detached thread and cannot be joined.                        *)
Destroy ==
  /\ server = "failed"
  /\ owner' = [f \in Fd |-> IF f \in FdSet(clients) THEN NoPeer ELSE owner[f]]
  /\ clients' = <<>> /\ fdOf' = [p \in Peer |-> 0] /\ gps' = {}
  /\ server' = "destroyed"
  /\ toServer' = [p \in Peer |-> <<>>] /\ backlog' = {}
  /\ excused' = Peer /\ dropped' = {}
  /\ UNCHANGED <<peer, asked, toPeer, accepted, behind, srs, ril, readerVars, gpsVars, ptr>>

Acceptor == (\E p \in Peer : Accept(p)) \/ Register \/ Link \/ AcceptFails \/ Destroy

-----------------------------------------------------------------------------
(* Sending (srs_send, srs_client_send, srs_client_send_message).           *)

(* The write is done or refused; it is done on the descriptor, whoever has *)
(* it by now.                                                              *)
Writable(p) ==
  /\ p # NoPeer /\ fdOf[p] # 0 /\ owner[fdOf[p]] # NoPeer
  /\ peer[owner[fdOf[p]]] # "closed"
  /\ Len(toPeer[owner[fdOf[p]]]) < Buffer

Write(p, what) ==
  /\ toPeer' = [toPeer EXCEPT ![owner[fdOf[p]]] = Append(@, what)]
  /\ asked' = IF what = "ping" THEN [asked EXCEPT ![owner[fdOf[p]]] = "answered"] ELSE asked

(* After a failure the client and its entry are freed, and the descriptor  *)
(* that is closed is read from the client: none, or any.                   *)
CloseAny(p, s) ==
  /\ dropped' = (dropped \cup {p}) \ {NoPeer}
  /\ \E f \in Fd \cup {0} :
       /\ owner' = IF f = 0 THEN owner ELSE [owner EXCEPT ![f] = NoPeer]
       /\ excused' = (excused \cup {p} \cup (IF f = 0 THEN {} ELSE {owner[f]})) \ {NoPeer}
  /\ ptr' = [ptr EXCEPT ![s] = NoPeer]
  /\ ril' = Nobody
  /\ UNCHANGED <<peerVars, serverVars, srs>>

(* The handler of an indication sends to the first client of type GPS;     *)
(* the pointer is found with RIL_LOCK, not with the mutex of the server.   *)
(* A position has up to three messages, each found and sent on its own:    *)
(* RIL_LOCK is free between them here, which only adds interleavings.      *)
GpsFind ==
  /\ gpsd = "idle" /\ inds > 0 /\ ril = Nobody /\ FindGps # NoPeer
  /\ ril' = "gpsd"
  /\ ptr' = [ptr EXCEPT !["gpsd"] = FindGps]
  /\ gpsd' = "send" /\ inds' = inds - 1
  /\ UNCHANGED <<peerVars, listVars, serverVars, srs, readerVars, history>>

GpsSend ==
  /\ gpsd = "send"
  /\ \E p \in Means(ptr["gpsd"]) :
       IF server = "destroyed" \/ Writable(p)
       THEN /\ IF server = "destroyed" THEN UNCHANGED <<toPeer, asked>> ELSE Write(p, "gps")
            /\ gpsd' = "idle" /\ ril' = Nobody
            /\ ptr' = [ptr EXCEPT !["gpsd"] = NoPeer]
       ELSE gpsd' = "drop" /\ UNCHANGED <<toPeer, asked, ril, ptr>>
  /\ UNCHANGED <<peer, toServer, backlog, listVars, serverVars, srs, readerVars, inds, history>>

(* The reader removes whom it cannot read, with another lock.              *)
Reading == reader = "recv" /\ ~(FindFd(clients, fd) # NoPeer /\ Holds(fd))

(* Its removal: first the client is freed, the one that has the memory by  *)
(* now, unless the walk is cut short by a removal of the reader's;         *)
GpsDrop ==
  /\ gpsd = "drop"
  /\ \E p \in Means(ptr["gpsd"]) \cup (IF Reading THEN {NoPeer} ELSE {}) :
       /\ Wipe(p)
       /\ ptr' = [ptr EXCEPT !["gpsd"] = p]
       /\ excused' = (excused \cup {p}) \ {NoPeer}
  /\ gpsd' = "unlink"
  /\ UNCHANGED <<peerVars, owner, clients, serverVars, srs, ril, readerVars, inds, dropped>>

(* then its entry.                                                         *)
GpsUnlink ==
  /\ gpsd = "unlink"
  /\ clients' = RemoveFirst(clients, ptr["gpsd"])
  /\ CloseAny(ptr["gpsd"], "gpsd")
  /\ gpsd' = "idle"
  /\ UNCHANGED <<fdOf, gps, readerVars, inds>>

(* Who walks the list while another thread frees a client or an entry can  *)
(* use what it reads there: a wrong descriptor, a pointer to anything, or  *)
(* the client itself, which is then freed twice.  So can two who free      *)
(* entries at once.  Nothing is claimed of what follows.                   *)
Astray ==
  /\ \/ gpsd = "unlink" /\ server = "register" /\ srs = Nobody
     \/ gpsd = "unlink" /\ reader \in {"fill", "scan", "recv"} /\ srs # "acceptor"
     \/ Reading /\ (gpsd = "drop" \/ (gpsd = "idle" /\ inds > 0 /\ ril = Nobody))
  /\ excused' = Peer
  /\ UNCHANGED <<peerVars, listVars, serverVars, srs, ril, readerVars, gpsVars, ptr, dropped>>

Gps == GpsFind \/ GpsSend \/ GpsDrop \/ GpsUnlink

-----------------------------------------------------------------------------
(* The reader: srs_client_read_loop.                                       *)

(* The top of the loop; with nobody to read from it sleeps and tries again.*)
Fill ==
  /\ reader = "fill" /\ srs = Nobody
  /\ IF server \in {"failed", "destroyed"}
     THEN reader' = "ended" /\ UNCHANGED ready
     ELSE \E seen \in Views :
            ready' = FdSet(seen) /\ reader' = IF FdSet(seen) = {} THEN "fill" ELSE "select"
  /\ UNCHANGED <<peerVars, listVars, serverVars, srs, ril, fd, message, gpsVars, ptr, history>>

(* select leaves the descriptors that are ready.                           *)
Select ==
  /\ reader = "select"
  /\ ready' = {f \in ready : Readable(f)}
  /\ reader' = "scan"
  /\ UNCHANGED <<peerVars, listVars, serverVars, srs, ril, fd, message, gpsVars, ptr, history>>

(* It is interrupted, or a descriptor is closed already: the set is left   *)
(* as it was, and its result is not looked at.                             *)
SelectFails ==
  /\ reader = "select"
  /\ reader' = "scan"
  /\ excused' = excused \cup ({owner[f] : f \in ready} \ {NoPeer})
  /\ UNCHANGED <<peerVars, listVars, serverVars, srs, ril, ready, fd, message, gpsVars, ptr, dropped>>

(* Mutant: the descriptor stays in the set.                                *)
ScanKept ==
  /\ reader = "scan" /\ srs \in {Nobody, "reader"}
  /\ \E seen \in Views :
       LET p == First(seen, LAMBDA q : fdOf[q] \in ready)
       IN  IF p = NoPeer
           THEN reader' = "fill" /\ srs' = Nobody /\ ready' = {} /\ UNCHANGED fd
           ELSE reader' = "recv" /\ srs' = "reader" /\ fd' = fdOf[p] /\ UNCHANGED ready
  /\ UNCHANGED <<peerVars, listVars, serverVars, ril, message, gpsVars, ptr, history>>

(* srs_client_info_get_fd_set, with the mutex of the server, which the     *)
(* first turn takes and the last gives back: the descriptor is taken out   *)
(* of the set.                                                             *)
Scan ==
  /\ reader = "scan" /\ srs \in {Nobody, "reader"}
  /\ \E seen \in Views :
       LET p == First(seen, LAMBDA q : fdOf[q] \in ready)
       IN  IF p = NoPeer
           THEN reader' = "fill" /\ srs' = Nobody /\ ready' = {} /\ UNCHANGED fd
           ELSE reader' = "recv" /\ srs' = "reader" /\ fd' = fdOf[p] /\ ready' = ready \ {fdOf[p]}
  /\ UNCHANGED <<peerVars, listVars, serverVars, ril, message, gpsVars, ptr, history>>

(* Mutant: the data of the message is not taken, and a ping without it is  *)
(* not answered.                                                           *)
RecvNoData ==
  /\ reader = "recv" /\ Holds(fd)
  /\ \E seen \in Views :
       FindFd(seen, fd) # NoPeer /\ ptr' = [ptr EXCEPT !["reader"] = FindFd(seen, fd)]
  /\ message' = "none"
  /\ toServer' = [toServer EXCEPT ![owner[fd]] = <<>>]
  /\ asked' = IF "ping" \in ToSet(Tail(toServer[owner[fd]]))
              THEN [asked EXCEPT ![owner[fd]] = "merged"] ELSE asked
  /\ reader' = "dispatch" /\ fd' = 0
  /\ UNCHANGED <<peer, toPeer, backlog, listVars, serverVars, srs, ril, ready, gpsVars, history>>

(* srs_client_recv: one read takes all there is, and one message is made   *)
(* of it.                                                                  *)
Recv ==
  /\ reader = "recv" /\ Holds(fd)
  /\ \E seen \in Views :
       FindFd(seen, fd) # NoPeer /\ ptr' = [ptr EXCEPT !["reader"] = FindFd(seen, fd)]
  /\ message' = toServer[owner[fd]][1]
  /\ toServer' = [toServer EXCEPT ![owner[fd]] = <<>>]
  /\ asked' = IF "ping" \in ToSet(Tail(toServer[owner[fd]]))
              THEN [asked EXCEPT ![owner[fd]] = "merged"] ELSE asked
  /\ reader' = "dispatch" /\ fd' = 0
  /\ UNCHANGED <<peer, toPeer, backlog, listVars, serverVars, srs, ril, ready, gpsVars, history>>

(* There is nothing, the connection has ended, or the client is not found, *)
(* since a sender has removed it or frees the entry the walk stands on:    *)
(* the descriptor is closed in any case, whosever it is by now.            *)
RecvFails ==
  /\ reader = "recv"
  /\ \E seen, walk \in Views :
       LET p == FindFd(seen, fd)
       IN  /\ ~(p # NoPeer /\ Holds(fd))
           /\ Unregister(p, walk)
           /\ excused' = (excused \cup ({owner[fd]} \ {p})) \ {NoPeer}
  /\ owner' = [owner EXCEPT ![fd] = NoPeer]
  /\ reader' = "scan" /\ fd' = 0
  /\ UNCHANGED <<peerVars, serverVars, srs, ril, ready, message, gpsVars, ptr, dropped>>

(* srs_dispatch, with RIL_LOCK and still the mutex of the server: the type *)
(* of a client is set, or a ping is sent back.                             *)
Dispatch ==
  /\ reader = "dispatch" /\ ril = Nobody
  /\ \E p \in Means(ptr["reader"]) :
       IF message = "ping" /\ server # "destroyed" /\ ~Writable(p)
       THEN /\ reader' = "drop" /\ ril' = "reader"
            /\ UNCHANGED <<gps, toPeer, asked, ptr>>
       ELSE /\ reader' = "scan" /\ ptr' = [ptr EXCEPT !["reader"] = NoPeer]
            /\ gps' = IF message = "hello" THEN (gps \cup {p}) \ {NoPeer} ELSE gps
            /\ IF message = "ping" /\ server # "destroyed"
               THEN Write(p, "ping") ELSE UNCHANGED <<toPeer, asked>>
            /\ UNCHANGED ril
  /\ message' = "none"
  /\ UNCHANGED <<peer, toServer, backlog, owner, clients, fdOf, serverVars, srs,
                 ready, fd, gpsVars, history>>

(* With both locks, nobody else walks.                                     *)
ReaderDrop ==
  /\ reader = "drop"
  /\ \E p \in Means(ptr["reader"]) : Unregister(p, clients) /\ CloseAny(p, "reader")
  /\ reader' = "scan"
  /\ UNCHANGED <<ready, fd, message, gpsVars>>

Reader ==
  \/ Fill \/ Select \/ SelectFails \/ Scan
  \/ Recv \/ RecvFails \/ Dispatch \/ ReaderDrop

-----------------------------------------------------------------------------
(* Nothing is claimed of what follows once every peer is excused.          *)
Next ==
  /\ excused # Peer
  /\ (\E p \in Peer : PeerStep(p)) \/ Acceptor \/ Gps \/ Reader \/ Astray

Spec == Init /\ [][Next]_vars

(* Every thread of the library goes on while it can; the peers need not,   *)
(* and accept need not fail.  The acceptor gets the mutex of the server    *)
(* some time, since the reader waits in select, for up to three            *)
(* milliseconds, without it.                                               *)
FairSpec ==
  Spec /\ SF_vars((\E p \in Peer : Accept(p)) \/ Register \/ Link \/ Destroy)
       /\ WF_vars(Gps) /\ WF_vars(Reader)

-----------------------------------------------------------------------------
(* The list, the descriptors and the connections match: a connection that  *)
(* is accepted has its entry and keeps its descriptor until its peer       *)
(* closes it, does not read what it is sent, or meets the failure of a     *)
(* select, a close of a descriptor read from freed memory, or a close for  *)
(* a client that had the descriptor before; or until the handler's removal *)
(* of another client, without the mutex of the server, meets its           *)
(* registration (Link), the search for it (RecvFails), or any use of freed *)
(* memory (Astray).  And the server has no descriptor without an entry but *)
(* those of the clients a sender has removed or that were lost to that     *)
(* (srs_client_register, srs_client_unregister, and the closes of          *)
(* srs_client_read_loop and srs_client_send).                              *)
ClientsKept ==
  server \notin {"failed", "destroyed"} =>
  /\ \A p \in Peer \ excused :
       peer[p] # "off" /\ p \notin backlog =>
         p \in Listed \cup {accepted} /\ owner[fdOf[p]] = p
  /\ \A f \in Fd : owner[f] # NoPeer => owner[f] \in Listed \cup {accepted} \cup dropped

(* A ping is answered to who sent it (srs_client_ping, srs_control_ping),  *)
(* unless his connection ended as above, the server did, or two of his     *)
(* messages were read as one.  No peer is told from another, so this is    *)
(* stated of one.                                                          *)
AnyPeer == CHOOSE p \in Peer : TRUE

PingAnswered ==
  asked[AnyPeer] = "asked" ~>
    asked[AnyPeer] \in {"answered", "merged"} \/ AnyPeer \in excused
=============================================================================
