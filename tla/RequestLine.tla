----------------------------- MODULE RequestLine -----------------------------
(***************************************************************************)
(* What the request queues of libmocha-ril (outgoing messages, SIM I/O)    *)
(* promise: the requests wait in one line, in the order the framework      *)
(* handed them in, and leave it only from its front, the front being the   *)
(* request the modem is working on.                                        *)
(***************************************************************************)
EXTENDS Sequences

CONSTANT Request

VARIABLE line

Init == line = <<>>

Join(r) == line' = Append(line, r)

Leave == line # <<>> /\ line' = Tail(line)

Next == Leave \/ \E r \in Request : Join(r)

Spec == Init /\ [][Next]_line
=============================================================================
