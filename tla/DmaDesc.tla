------------------------------- MODULE DmaDesc -------------------------------
(***************************************************************************)
(* The descriptors of the USB DMA engine (dma_engine/src, vdesc/src).  A   *)
(* VDESC is a hardware descriptor the engine follows and, beside it, the   *)
(* software's own note of the data buffer the descriptor carries.  mem     *)
(* maps a descriptor to its hardware half, vd to its buf_addr.  Of the     *)
(* fields of zsDmaDesc this keeps the ownership bits, the "last segment"   *)
(* bit of ctrl, the three addresses, and leaves out lengths.               *)
(***************************************************************************)
EXTENDS Naturals, Sequences, FiniteSets, SequencesExt

CONSTANT NULL   \* the null address

Owners == {"SW", "HW"}

(* A hardware descriptor.                                                  *)
HwDescs(descs, bufs) ==
    [own : Owners, ls : BOOLEAN, last : descs \cup {NULL},
     next : descs \cup {NULL}, data : bufs]

(* init_usb_desc, then the data address of the buffer the VDESC carries.   *)
InitDesc(buf) ==
    [own |-> "SW", ls |-> FALSE, last |-> NULL, next |-> NULL, data |-> buf]

(* The descriptors of a chain, linked into a packet: every one names the   *)
(* next, the first names the last.  ls tells whether the software marks    *)
(* the last segment (transmission) or leaves that to the hardware.         *)
Linked(mem, vd, chain, ls) ==
    [d \in DOMAIN mem |->
        IF d \in ToSet(chain)
        THEN LET i == CHOOSE j \in DOMAIN chain : chain[j] = d IN
             [own  |-> "SW",
              ls   |-> ls /\ i = Len(chain),
              last |-> IF i = 1 THEN Last(chain) ELSE NULL,
              next |-> IF i < Len(chain) THEN chain[i + 1] ELSE NULL,
              data |-> vd[d]]
        ELSE mem[d]]

(* Step 1 of the put: every descriptor of the packet goes to the hardware. *)
GiveToHw(mem, chain) ==
    [d \in DOMAIN mem |-> IF d \in ToSet(chain)
                          THEN [mem[d] EXCEPT !.own = "HW"] ELSE mem[d]]

(* Step 3: the last descriptor of the packet points to the first, which is *)
(* to become the terminator.                                               *)
CloseRing(mem, first) == [mem EXCEPT ![mem[first].last].next = first]

(* Mutant of SingleLast: a packet of one descriptor is not special.        *)
SingleLast_Missing(mem, first, term) == mem

(* "If there is only one descriptor, update pointer of last descriptor":   *)
(* the packet will start, and so end, at the present terminator.           *)
SingleLast(mem, first, term) ==
    IF mem[first].last = first THEN [mem EXCEPT ![first].last = term] ELSE mem

(* Mutant of Swap: the buffers stay where they are.                        *)
Swap_Missing(vd, d, e) == vd

(* VDESC_swap_vdesc: the two descriptors exchange the buffers they carry.  *)
Swap(vd, d, e) == [vd EXCEPT ![d] = vd[e], ![e] = vd[d]]

(* zfDmaGetPacket: is the packet at the head of the queue finished?        *)
Completed(mem, head, term) == head # term /\ mem[head].own # "HW"

(* Mutant of AfterPacket: on to the next descriptor, not past the packet.  *)
AfterPacket_Next(mem, head) == mem[head].next

(* zfDmaGetPacket: the head of the queue once its first packet is taken.   *)
AfterPacket(mem, head) == mem[mem[head].last].next

(* The chain from d, along nextAddr, to the first descriptor that          *)
(* satisfies Stop; empty if there is none.                                 *)
ChainTo(mem, d, Stop(_)) ==
    LET n == Cardinality(DOMAIN mem)
        at[i \in 1..n] ==
            IF i = 1 THEN d
            ELSE LET e == at[i - 1] IN IF e = NULL THEN NULL ELSE mem[e].next
        ends == {k \in 1..n : at[k] # NULL /\ Stop(at[k])}
    IN  IF ends = {} THEN << >>
        ELSE LET k == CHOOSE k \in ends : \A j \in ends : k <= j
             IN  [i \in 1..k |-> at[i]]

(* relinkUSBDescToVdesc: the packet at d, to its last segment.             *)
PacketAt(mem, d) == ChainTo(mem, d, LAMBDA e : mem[e].ls)

(* The descriptors the queue holds, from its head to its terminator.       *)
QueueChain(mem, head, term) == ChainTo(mem, head, LAMBDA e : e = term)
=============================================================================
