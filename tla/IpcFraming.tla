----------------------------- MODULE IpcFraming -----------------------------
(***************************************************************************)
(* Packets and the frames that carry them between the modem and the        *)
(* library (mocha-ipc/ipc_dispatch.c, and the send and receive functions   *)
(* of the two devices, mocha-ipc/device/jet and device/wave).              *)
(*                                                                         *)
(* A packet that is longer than a frame travels as a header and parts, all *)
(* of them of the type FIFO_INTERNAL.  Nothing but its length says that    *)
(* such a frame is a header, so a part of that length is taken for one.    *)
(* Packets of other types may come between the parts.                      *)
(*                                                                         *)
(* Lengths are counted in units; what a packet says is left to the modules *)
(* that use this one.                                                      *)
(***************************************************************************)
EXTENDS Integers, Sequences

CONSTANTS
  MaxSingle,  (* MAX_SINGLE_FRAME_DATA, 0xFF4 in the code                  *)
  HeadSize,   (* the length of a header, 0xC in the code                   *)
  NoPacket    (* what a header says that is not one                        *)

ASSUME FramingAssumption ==
  /\ HeadSize \in Nat \ {0}
  /\ MaxSingle \in Nat
  /\ HeadSize < MaxSingle

VARIABLES
  device,   (* the device the library was built for                        *)
  multi,    (* multi_packet: the packet the last header announced          *)
  gathered, (* the parts copied since                                      *)
  position, (* multiFramePosition                                          *)
  mistaken  (* history: a part was taken for a header                      *)

framingVars == <<device, multi, gathered, position, mistaken>>

FramingInit ==
  /\ device \in {"jet", "wave"}
  /\ multi = NoPacket /\ gathered = <<>> /\ position = 0
  /\ mistaken = FALSE

(* The number of parts of a packet, and the length of each.                *)
Parts(p) == (p.size + MaxSingle - 1) \div MaxSingle
PartSize(p, k) ==
  IF k < Parts(p) THEN MaxSingle ELSE p.size - (k - 1) * MaxSingle

Frame(internal, size, packet, part) ==
  [internal |-> internal, size |-> size, packet |-> packet, part |-> part]

(* jet_ipc_send, wave_ipc_send: part 0 is the header.  The modem does the  *)
(* same.                                                                   *)
Fragments(p) ==
  IF p.size > MaxSingle
  THEN <<Frame(TRUE, HeadSize, p, 0)>>
       \o [k \in 1 .. Parts(p) |-> Frame(TRUE, PartSize(p, k), p, k)]
  ELSE <<Frame(FALSE, p.size, p, 1)>>

(* The library on the jet frees the header before it is sent.              *)
Sent(p) ==
  IF device = "jet" /\ p.size > MaxSingle
  THEN [Fragments(p) EXCEPT ![1].packet = NoPacket]
  ELSE Fragments(p)

-----------------------------------------------------------------------------
(* ipc_dispatch of a FIFO_INTERNAL frame.                                  *)

(* A header: memory for the packet, from the start.  In a part that is     *)
(* taken for one, the length found is anything, so the packet that begins  *)
(* is none.                                                                *)
Header(f) ==
  /\ f.internal /\ f.size = HeadSize
  /\ multi' = IF f.part = 0 THEN f.packet ELSE NoPacket
  /\ gathered' = <<>>
  /\ position' = 0
  /\ mistaken' = (mistaken \/ f.part # 0)
  /\ UNCHANGED device

(* Is this the part that makes the packet complete?                        *)
Completes(f) ==
  /\ f.internal /\ f.size # HeadSize
  /\ multi # NoPacket /\ position + f.size = multi.size

(* Mutant: every part is copied to the start.                              *)
PartAtStart(f) ==
  /\ f.internal /\ f.size # HeadSize /\ ~Completes(f)
  /\ gathered' = <<<<f.packet, f.part>>>>
  /\ position' = position + f.size
  /\ UNCHANGED <<device, multi, mistaken>>

(* Any other part is copied behind the ones before it.                     *)
Part(f) ==
  /\ f.internal /\ f.size # HeadSize /\ ~Completes(f)
  /\ gathered' = Append(gathered, <<f.packet, f.part>>)
  /\ position' = position + f.size
  /\ UNCHANGED <<device, multi, mistaken>>

(* The last part: the packet is dispatched (`Whole(f)') and freed.      *)
LastPart(f) ==
  /\ Completes(f)
  /\ gathered' = <<>>
  /\ position' = 0
  /\ UNCHANGED <<device, multi, mistaken>>

(* What is then dispatched is the packet the header announced, and `whole' *)
(* if its parts are the ones that were sent.                               *)
Whole(f) ==
  Append(gathered, <<f.packet, f.part>>) = [k \in 1 .. Parts(multi) |-> <<multi, k>>]

(* A frame of another type leaves the parts alone.                         *)
Single(f) ==
  /\ ~f.internal
  /\ UNCHANGED framingVars
=============================================================================
