-------------------------------- MODULE Baw --------------------------------
(***************************************************************************)
(* The block-ack window of a traffic identifier (wlan/if_owl.c,            *)
(* ath_atx_tid): which sequence numbers have been given to the hardware    *)
(* and not finished.  tx_buf_bitmap is a ring of slots; the slot at        *)
(* baw_head belongs to seq_start and the slots up to baw_tail follow it.   *)
(*                                                                         *)
(* The operators take any record with the fields seq_start, baw_head,      *)
(* baw_tail and bitmap (the set of slots whose bit is set).                *)
(***************************************************************************)
EXTENDS Integers, FiniteSetsExt

CONSTANTS
    SeqMax,       \* IEEE80211_SEQ_MAX
    BawSize,      \* WME_MAX_BA, the value of baw_size
    TidMaxBufs    \* ATH_TID_MAX_BUFS, the slots of tx_buf_bitmap

(* Both rings are powers of two in the code, which masks where this module *)
(* takes the remainder.                                                    *)
ASSUME BawAssumption ==
    /\ SeqMax \in Nat \ {0}
    /\ BawSize \in Nat \ {0}
    /\ TidMaxBufs \in Nat \ {0}
    /\ BawSize < TidMaxBufs
    /\ TidMaxBufs <= SeqMax

SeqNos == 0..(SeqMax - 1)
Slots  == 0..(TidMaxBufs - 1)

(* INCR, n times, on a sequence number and on a slot                       *)
SeqPlus(seq, n)  == (seq + n) % SeqMax
SlotPlus(slot, n) == (slot + n) % TidMaxBufs

(* ATH_BA_INDEX                                                            *)
BaIndex(start, seq) == (seq - start) % SeqMax

(* BAW_WITHIN                                                              *)
BawWithin(start, seq) == BaIndex(start, seq) < BawSize

(* cindex of ath_tx_addto_baw and ath_tx_update_baw                        *)
SlotOf(w, seq) == SlotPlus(w.baw_head, BaIndex(w.seq_start, seq))

(* The slots from baw_head to before baw_tail, counted and listed.         *)
Span(w) == (w.baw_tail - w.baw_head) % TidMaxBufs
Busy(w) == {i \in 0..(Span(w) - 1) : SlotPlus(w.baw_head, i) \in w.bitmap}

(* The sequence numbers the window says are unfinished.                    *)
Outstanding(w) == {SeqPlus(w.seq_start, i) : i \in Busy(w)}

(* ath_tx_addto_baw, for a frame that has not been retried                 *)
AddToBaw(w, seq) ==
    LET index == BaIndex(w.seq_start, seq)
        cindex == SlotOf(w, seq)
    IN  [w EXCEPT !.bitmap = @ \cup {cindex},
                  !.baw_tail = IF index >= Span(w) THEN SlotPlus(cindex, 1) ELSE @]

(* The window moved forward over n slots.                                  *)
Advance(w, n) ==
    [w EXCEPT !.seq_start = SeqPlus(@, n), !.baw_head = SlotPlus(@, n)]

(* How far the loop of ath_tx_update_baw goes: to the first slot whose bit *)
(* is set, or to the tail.                                                 *)
Clear(w) == Min(Busy(w) \cup {Span(w)})

(* Seeded fault: the bit cleared is the one at the head of the window.     *)
UpdateBaw_ClearsHead(w, seq) ==
    LET c == [w EXCEPT !.bitmap = @ \ {w.baw_head}]
    IN  Advance(c, Clear(c))

(* ath_tx_update_baw                                                       *)
UpdateBaw(w, seq) ==
    LET c == [w EXCEPT !.bitmap = @ \ {SlotOf(w, seq)}]
    IN  Advance(c, Clear(c))

(* The loop of ath_tgt_tx_cleanup: the bits of the window are cleared and  *)
(* the window moves to its tail.                                           *)
CloseBaw(w) ==
    Advance([w EXCEPT !.bitmap = @ \ {SlotPlus(w.baw_head, i) : i \in Busy(w)}],
            Span(w))
=============================================================================
