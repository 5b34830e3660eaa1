----------------------------- MODULE FileService -----------------------------
(***************************************************************************)
(* The file service the library gives the modem (mocha-ipc/fm.c), over     *)
(* the frames of IpcFraming: the modem asks, the library does the file     *)
(* operation and answers.                                                  *)
(*                                                                         *)
(* The files themselves belong to the system: an operation on them may     *)
(* succeed or fail.  What is modelled of them is what a handle means: a    *)
(* descriptor or a directory is known by the number of its opening.        *)
(***************************************************************************)
EXTENDS IpcFraming, FiniteSets

CONSTANTS
  MaxOpenDirs,  (* MAX_OPEN_DIRS, 10 in the code                           *)
  MaxFileFd,    (* descriptors are 0 .. MaxFileFd                          *)
  FdLimit,      (* 0x1000: & 0xFFF is % FdLimit                            *)
  FdFlags,      (* 0x61000, a multiple of FdLimit                          *)
  MaxOpens,     (* bound on the files and directories opened               *)
  Lengths       (* the lengths of a read or a write                        *)

ASSUME FileAssumption ==
  /\ MaxOpenDirs \in Nat /\ MaxOpenDirs > 1
  /\ MaxFileFd \in Nat /\ FdLimit \in Nat /\ MaxFileFd < FdLimit
  /\ FdFlags \in Nat /\ FdFlags % FdLimit = 0
  /\ MaxOpens \in Nat
  /\ Lengths \subseteq Nat \ {0}

VARIABLES
  wire,     (* the frames of a request the library has not received        *)
  last,     (* resp of ipc_read_loop: the frame received last              *)
  due,      (* the packets of the modem that were not dispatched           *)
  up,       (* the answers on their way to the modem                       *)
  awaited,  (* history: the modem waits for an answer                      *)
  fds,      (* the descriptors: which opening each is, 0 for none          *)
  dirArray, (* the directories: which opening each entry is, 0 for none    *)
  dirIndex, (* the entry the next one gets                                 *)
  streams,  (* the directories that are open; closedir frees what is not   *)
  opens,    (* history: the number of openings                             *)
  held,     (* history: the handles the modem has, and what they are       *)
  wrong,    (* history: a packet was dispatched that was not sent so       *)
  stale,    (* history: a short read, after which a frame is used again    *)
  late,     (* history: the modem asked for a directory too many while it  *)
            (* kept an earlier one                                         *)
  dead      (* the process has ended                                       *)

wireVars == <<wire, last, due>>
tableVars == <<fds, dirArray, dirIndex, streams, opens>>
fileVars == <<framingVars, wireVars, up, awaited, tableVars, held, wrong, stale, late, dead>>

FileFd == 0 .. MaxFileFd
Slot == 0 .. MaxOpenDirs - 1
Opening == 0 .. MaxOpens + 1
HandleValue == {-1} \cup Slot \cup FileFd \cup {d + FdFlags : d \in FileFd}

(* A handle the modem was given: of a file or a directory, and which.      *)
Handle == [dir : BOOLEAN, value : HandleValue, opening : Opening]
NoHandle == [dir |-> FALSE, value |-> -1, opening |-> 0]

(* The packets of the modem: requests, and others, which are not answered. *)
(* "status" are the requests that are answered true or false, "false" and  *)
(* "nothing" those that are not implemented.  A request on a file has its  *)
(* handle only where it changes what the handle means.                     *)
Packet(op, h, n, size) == [op |-> op, handle |-> h, length |-> n, size |-> size]
Requests ==
  {Packet(op, NoHandle, 0, 1) :
     op \in {"open", "create", "open_dir", "status", "attributes", "false", "nothing"}}
  \cup {Packet(IF h.dir THEN "close_dir" ELSE "close", h, 0, 1) : h \in held}
  \cup {Packet("read", NoHandle, n, 1) : n \in Lengths}
  \cup {Packet("write", NoHandle, n, 1 + n) : n \in Lengths}
Other == Packet("other", NoHandle, 0, 1)

FileTypeOK ==
  /\ device \in {"jet", "wave"} /\ position \in Nat
  /\ fds \in [FileFd -> Opening] /\ dirArray \in [Slot -> Opening]
  /\ dirIndex \in Slot /\ streams \subseteq Opening /\ opens \in Opening
  /\ held \subseteq Handle
  /\ {mistaken, wrong, stale, late, dead, awaited} \subseteq BOOLEAN

FileInit ==
  /\ FramingInit
  /\ wire = <<>> /\ last = <<>> /\ due = {}
  /\ up = <<>> /\ awaited = FALSE
  /\ fds = [d \in FileFd |-> 0] /\ dirArray = [s \in Slot |-> 0] /\ dirIndex = 0
  /\ streams = {} /\ opens = 0 /\ held = {}
  /\ wrong = FALSE /\ stale = FALSE /\ late = FALSE /\ dead = FALSE

-----------------------------------------------------------------------------
(* The file operations: each is given a request `r' and fills an answer    *)
(* `a' (ret, and the length of what follows).                              *)

Answer(ret, size) == [ret |-> ret, size |-> size]
Keeps == UNCHANGED tableVars

(* fd &= 0xFFF.                                                            *)
FdOf(h) == h.value % FdLimit

(* FmOpenFile: a descriptor with flags, or -1; FmCreateFile: without them. *)
Opened(r, a, flags) ==
  \/ /\ \E d \in FileFd :
          /\ fds[d] = 0 /\ \A e \in FileFd : e < d => fds[e] # 0
          /\ fds' = [fds EXCEPT ![d] = opens + 1]
          /\ a = Answer(d + flags, 0)
     /\ opens' = opens + 1
     /\ UNCHANGED <<dirArray, dirIndex, streams>>
  \/ a = Answer(-1, 0) /\ Keeps

FmOpenFile(r, a) == r.op = "open" /\ Opened(r, a, FdFlags)
FmCreateFile(r, a) == r.op = "create" /\ Opened(r, a, 0)

FmCloseFile(r, a) ==
  /\ r.op = "close"
  /\ IF FdOf(r.handle) \in FileFd /\ fds[FdOf(r.handle)] # 0
     THEN fds' = [fds EXCEPT ![FdOf(r.handle)] = 0] /\ a = Answer(1, 0)
     ELSE UNCHANGED fds /\ a = Answer(0, 0)
  /\ UNCHANGED <<dirArray, dirIndex, streams, opens>>

(* FmReadFile: the number of bytes read, then the bytes; a read that fails *)
(* has the number -1, and the answer is shorter by that.                   *)
FmReadFile(r, a) ==
  /\ r.op = "read"
  /\ \/ \E n \in 0 .. r.length : a = Answer(1, 1 + n)
     \/ a = Answer(0, 1)
  /\ Keeps

(* The operations that change no handle and answer true or false:          *)
(* FmWriteFile, FmTruncateFile, FmCreateDir, and FmFlushFile, FmSeekFile,  *)
(* FmTellFile (the offset) and FmRemoveFile.                               *)
TrueOrFalse(a) == a \in {Answer(b, 0) : b \in {0, 1}} /\ Keeps

FmWriteFile(r, a) == r.op = "write" /\ TrueOrFalse(a)
FmStatus(r, a) == r.op = "status" /\ TrueOrFalse(a)

(* FmGetFileAttributes, FmFGetFileAttributes: attributes follow in any     *)
(* case.                                                                   *)
FmFileAttributes(r, a) ==
  /\ r.op = "attributes"
  /\ a \in {Answer(b, 1) : b \in {0, 1}}
  /\ Keeps

(* FmSetFileAttributes, FmReadDir: not implemented, and they say false.    *)
FmFalse(r, a) ==
  /\ r.op = "false"
  /\ a = Answer(0, 0)
  /\ Keeps

(* Mutant: the index does not move.                                        *)
FmOpenDirSame(r, a) ==
  /\ r.op = "open_dir"
  /\ \/ /\ a = Answer(dirIndex, 0)
        /\ opens' = opens + 1
        /\ dirArray' = [dirArray EXCEPT ![dirIndex] = opens + 1]
        /\ streams' = streams \cup {opens + 1}
        /\ UNCHANGED <<fds, dirIndex>>
     \/ a = Answer(-1, 0) /\ Keeps

(* FmOpenDir: the next entry, whether it is in use or not; the last one is *)
(* never reached.                                                          *)
FmOpenDir(r, a) ==
  /\ r.op = "open_dir"
  /\ \/ /\ a = Answer(dirIndex, 0)
        /\ opens' = opens + 1
        /\ dirArray' = [dirArray EXCEPT ![dirIndex] = opens + 1]
        /\ streams' = streams \cup {opens + 1}
        /\ dirIndex' = IF dirIndex + 1 = MaxOpenDirs - 1 THEN 0 ELSE dirIndex + 1
        /\ UNCHANGED fds
     \/ a = Answer(-1, 0) /\ Keeps

(* The directory of the entry is closed already.                           *)
Freed(r) == dirArray[r.handle.value] \notin streams

(* FmCloseDir: what the entry holds is closed, whose directory it is by    *)
(* now, and the entry keeps its value.  Of a directory that was closed     *)
(* before, the memory and the descriptor may be another's, which is closed *)
(* instead.                                                                *)
FmCloseDir(r, a) ==
  /\ r.op = "close_dir"
  /\ a \in {Answer(b, 0) : b \in {0, 1}}
  /\ \/ ~Freed(r) /\ streams' = streams \ {dirArray[r.handle.value]} /\ UNCHANGED fds
     \/ Freed(r) /\ UNCHANGED <<streams, fds>>
     \/ Freed(r) /\ (\E o \in streams : streams' = streams \ {o}) /\ UNCHANGED fds
     \/ Freed(r) /\ (\E d \in FileFd : fds' = [fds EXCEPT ![d] = 0]) /\ UNCHANGED streams
  /\ UNCHANGED <<dirArray, dirIndex, opens>>

(* FmMoveFile, FmRemoveDir, FmGetQuotaSpace fill nothing in.               *)
FmNothing(r) == r.op = "nothing"

(* fileOps.                                                                *)
Operation(r, a) ==
  \/ FmOpenFile(r, a) \/ FmCreateFile(r, a) \/ FmCloseFile(r, a)
  \/ FmReadFile(r, a) \/ FmWriteFile(r, a) \/ FmStatus(r, a)
  \/ FmFileAttributes(r, a) \/ FmFalse(r, a)
  \/ FmOpenDir(r, a) \/ FmCloseDir(r, a)

Answers ==
  [ret : {-1, 0, 1} \cup Slot \cup FileFd \cup {d + FdFlags : d \in FileFd}, size : {0}]
  \cup [ret : {0, 1}, size : UNION {1 .. 1 + n : n \in Lengths}]

(* Mutant: a request that fails is not answered.                           *)
ParseFmSilent(r) ==
  \E a \in Answers :
    /\ Operation(r, a)
    /\ up' = IF a.ret <= 0 THEN up
             ELSE Append(up, [request |-> r, ret |-> a.ret,
                              frames |-> Sent(Packet("answer", NoHandle, 0, 1 + a.size))])
    /\ UNCHANGED dead

(* ipc_parse_fm: the operation, then one answer with the header of the     *)
(* request.  An operation that fills nothing in leaves garbage in the      *)
(* answer: what is copied and freed is not known, and the process may end. *)
(* So it may when a directory is closed that is closed already.            *)
ParseFm(r) ==
  \/ \E a \in Answers :
       /\ Operation(r, a)
       /\ up' = Append(up, [request |-> r, ret |-> a.ret,
                            frames |-> Sent(Packet("answer", NoHandle, 0, 1 + a.size))])
       /\ UNCHANGED dead
  \/ /\ FmNothing(r)
     /\ up' = Append(up, [request |-> r, ret |-> 0,
                          frames |-> Sent(Packet("answer", NoHandle, 0, 1))])
     /\ UNCHANGED dead /\ Keeps
  \/ /\ FmNothing(r) \/ (r.op = "close_dir" /\ Freed(r))
     /\ dead' = TRUE
     /\ UNCHANGED up /\ Keeps

(* A packet is dispatched.                                                 *)
Deliver(p, whole) ==
  /\ wrong' = (wrong \/ ~whole \/ (p # Other /\ p \notin due))
  /\ due' = due \ {p}
  /\ IF p = Other
     THEN UNCHANGED <<up, tableVars, dead>>
     ELSE ParseFm(p)

-----------------------------------------------------------------------------
(* The modem asks one thing at a time.                                     *)

(* With the next one, MAX_OPEN_DIRS - 1 files and directories were opened  *)
(* since this directory was.                                               *)
Overdue(h) == h.dir /\ opens + 1 - h.opening >= MaxOpenDirs - 1

(* No more is asked after a short read or a mistaken header: nothing is    *)
(* claimed of what follows.                                                *)
Ask(r) ==
  /\ due = {} /\ up = <<>> /\ wire = <<>> /\ ~mistaken /\ ~stale
  /\ r.op \in {"open", "create", "open_dir"} => opens < MaxOpens
  /\ wire' = Fragments(r)
  /\ due' = {r} /\ awaited' = TRUE
  /\ held' = IF r.op \in {"close", "close_dir"} THEN held \ {r.handle} ELSE held
  /\ late' = (late \/ (r.op = "open_dir" /\ \E h \in held : Overdue(h)))
  /\ UNCHANGED <<framingVars, last, up, tableVars, wrong, stale, dead>>

(* The modem gets an answer, unless it cannot tell what the frames are.    *)
Take ==
  LET a == Head(up)
      new == IF a.ret >= 0 /\ a.request.op \in {"open", "create", "open_dir"}
             THEN {[dir |-> a.request.op = "open_dir", value |-> a.ret, opening |-> opens]}
             ELSE {}
  IN /\ up # <<>>
     /\ up' = Tail(up)
     /\ IF a.frames[1].packet = NoPacket
        THEN UNCHANGED <<awaited, held>>
        ELSE awaited' = FALSE /\ held' = held \cup new
     /\ UNCHANGED <<framingVars, wireVars, tableVars, wrong, stale, late, dead>>

-----------------------------------------------------------------------------
(* The reader: ipc_dispatch of the frame that was received.                *)
IpcDispatch(f) ==
  \/ (Header(f) \/ Part(f)) /\ UNCHANGED <<due, up, tableVars, wrong, dead>>
  \/ LastPart(f) /\ Deliver(multi, Whole(f))
  \/ Single(f) /\ Deliver(f.packet, TRUE)

(* jet_ipc_recv, wave_ipc_recv.                                            *)
IpcRecv ==
  /\ ~dead /\ wire # <<>>
  /\ wire' = Tail(wire)
  /\ last' = IF device = "jet" THEN <<Head(wire)>> ELSE <<>>
  /\ IpcDispatch(Head(wire))
  /\ UNCHANGED <<awaited, held, stale, late>>

(* A packet of one frame that is no request comes before the next frame of *)
(* a request.                                                              *)
IpcRecvOther ==
  /\ ~dead /\ wire # <<>>
  /\ last' = IF device = "jet" THEN Fragments(Other) ELSE <<>>
  /\ IpcDispatch(Fragments(Other)[1])
  /\ UNCHANGED <<wire, awaited, held, stale, late>>

(* A short read on the jet is not reported: the frame received before is   *)
(* dispatched once more, after its data was freed, and freed again, unless *)
(* that ends the process.                                                  *)
IpcRecvShort ==
  /\ ~dead /\ device = "jet" /\ wire # <<>> /\ ~stale
  /\ wire' = Tail(wire)
  /\ stale' = TRUE
  /\ \/ last # <<>> /\ IpcDispatch(last[1])
     \/ dead' = TRUE /\ UNCHANGED <<framingVars, due, up, tableVars, wrong>>
  /\ UNCHANGED <<last, awaited, held, late>>

FileNext ==
  \/ \E r \in Requests : Ask(r)
  \/ Take
  \/ IpcRecv \/ IpcRecvOther \/ IpcRecvShort

FileSpec == FileInit /\ [][FileNext]_fileVars

(* The modem takes the answers, the reader the frames of a request.        *)
FileFairSpec == FileSpec /\ WF_fileVars(Take) /\ WF_fileVars(IpcRecv)

-----------------------------------------------------------------------------
(* Safety.                                                                 *)

(* ipc_dispatch: whatever comes between its parts, a packet is dispatched  *)
(* once, whole and as it was sent, as long as its last part has not the    *)
(* length of a header and no read is short (on the jet).                   *)
PacketsWhole == ~mistaken /\ ~stale => ~wrong

(* FmOpenFile, FmCreateFile, FmOpenDir, FmCloseDir: through other openings *)
(* and closings, a handle the modem has means what it has opened with it,  *)
(* and nobody has closed that, as long as the modem opens no directory     *)
(* when MAX_OPEN_DIRS - 2 others were opened since one that it keeps.      *)
OwnHandle ==
  ~stale /\ ~late =>
    \A h \in held :
      IF h.dir
      THEN dirArray[h.value] = h.opening /\ h.opening \in streams
      ELSE FdOf(h) \in FileFd /\ fds[FdOf(h)] = h.opening

-----------------------------------------------------------------------------
(* Liveness: a request of the modem is answered, in the order it asks,     *)
(* unless a part is taken for a header, a read was short, the process      *)
(* ended, in an operation that fills nothing in or in the second closedir  *)
(* of a directory, or the header of a long answer was freed before it was  *)
(* sent (on the jet).                                                      *)
Lost == up # <<>> /\ Head(up).frames[1].packet = NoPacket

FileAnswered == due # {} ~> (~awaited \/ mistaken \/ stale \/ dead \/ Lost)
=============================================================================
