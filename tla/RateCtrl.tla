------------------------------ MODULE RateCtrl ------------------------------
(***************************************************************************)
(* Rate control of one station (the build for K2): the rates that are      *)
(* valid for it, the error estimate of every rate, the highest rate in use *)
(* (rateMaxPhy) and the probes that raise it.  A frame is given a series   *)
(* of four rates when it is sent, and its outcome is charged to them when  *)
(* it completes.  Rate updates of the host come in between.                *)
(*                                                                         *)
(* Time is left out: whether an interval has passed since the last probe   *)
(* or the last decay is chosen at each use.                                *)
(***************************************************************************)
EXTENDS Integers, Sequences, FiniteSets, SequencesExt, FiniteSetsExt

CONSTANTS
    Info,         \* the rate table: rate index -> its row
    Caps,         \* what the host may say of the station
    Outcomes,     \* what may become of a frame
    MaxAir,       \* bound: frames in the air
    MaxUpdates,   \* bound: completions
    MaxAssocs     \* bound: rate updates after the first

VARIABLES
    rc,       \* TX_RATE_CTRL
    air,      \* the series of the frames in the air, oldest first; old ones
              \* were sent before the last rate update
    last,     \* the series just handed out
    taint,    \* an old frame made rateMaxPhy a rate that is not valid
    left      \* completions and rate updates that may still come

vars == <<rc, air, last, taint, left>>

Rates == DOMAIN Info

\* The numbers of the enumeration WLAN_RC_PHY_*.
CCK == 0          OFDM == 1
HT20SS == 4       HT20DS == 5        HT40SS == 6       HT40DS == 7
HT20SSHGI == 8    HT20DSHGI == 9     HT40SSHGI == 10   HT40DSHGI == 11

PhyHT(p)  == p >= HT20SS
PhyDS(p)  == p \in {HT20DS, HT40DS, HT20DSHGI, HT40DSHGI}
Phy40(p)  == p \in {HT40SS, HT40DS, HT40SSHGI, HT40DSHGI}
PhySGI(p) == p \in HT20SSHGI..HT40DSHGI

----------------------------------------------------------------------------
(* Valid rates.                                                            *)

\* rcIsValidPhyRate
IsValidPhyRate(p, cap) ==
    /\ PhyHT(p) => cap.ht
    /\ PhyDS(p) => cap.ds
    /\ PhySGI(p) => cap.sgi
    /\ PhyHT(p) => (Phy40(p) <=> cap.cw40)

\* The modes for which a row is valid.
ValidFor(i, cap) == IF cap.ds THEN Info[i].valid ELSE Info[i].validSingleStream

\* WLAN_RC_CAP_MODE
CapMode(cap) == IF ~cap.ht THEN "legacy" ELSE IF cap.cw40 THEN "40" ELSE "20"

\* rcSibInitValidRates, without a rate set: rows that are valid for nothing
\* but legacy operation.
InitValidRates(cap) ==
    {i \in Rates : ValidFor(i, cap) = {"legacy"} /\ IsValidPhyRate(Info[i].phy, cap)}

\* rcSibSetValidRates
SetValidRates(cap) ==
    {i \in cap.rates : /\ ~PhyHT(Info[i].phy)
                       /\ CapMode(cap) \in ValidFor(i, cap)
                       /\ IsValidPhyRate(Info[i].phy, cap)}

\* rcSibSetValidHtRates
SetValidHtRates(cap) ==
    {i \in cap.rates : /\ PhyHT(Info[i].phy)
                       /\ (IF cap.cw40 THEN "40" ELSE "20") \in ValidFor(i, cap)
                       /\ ~(Info[i].dot11Rate = 15 /\ "20" \in ValidFor(i, cap) /\ cap.tkip)
                       /\ IsValidPhyRate(Info[i].phy, cap)}

ValidRates(cap) ==
    IF cap.rates = {} THEN InitValidRates(cap)
    ELSE SetValidRates(cap) \cup (IF cap.ht THEN SetValidHtRates(cap) ELSE {})

\* rcSortValidRates: the members of V in the order of the distinct numbers
\* key[i].
SortValidRates(V, key) ==
    [n \in 1..Cardinality(V) |->
        CHOOSE i \in V : Cardinality({j \in V : key[j] < key[i]}) = n - 1]

\* The stations are those with four valid rates at least: for fewer the code
\* reads validRateIndex before its start.  A real host names the four of CCK
\* or the eight of OFDM.
ASSUME FourRates == \A cap \in Caps : Cardinality(ValidRates(cap)) >= 4

UserRate == [i \in Rates |-> Info[i].userRateKbps]
PhyThenIndex == [i \in Rates |-> Info[i].phy * Cardinality(Rates) + i]

\* rcSibUpdate_ht: the valid rates are listed phy by phy, and the fourth from
\* the end is the first rateMaxPhy; then they are sorted.  The probe and the
\* count of clean packets stay as they were.
SibUpdate(r, cap) ==
    LET V == ValidRates(cap)
    IN  [r EXCEPT !.per = [i \in Rates |-> 0],
                  !.cw40 = cap.cw40,
                  !.rateTableSize = Max(V) + 1,
                  !.rateMaxPhy = SortValidRates(V, PhyThenIndex)[Cardinality(V) - 3],
                  !.valid = SortValidRates(V, UserRate)]

\* The state of a station is allocated without being cleared, so the first
\* rate update leaves probe and count with whatever the memory held.
Init ==
    /\ \E cap \in Caps, p \in Rates, clean \in BOOLEAN :
         rc = SibUpdate([valid |-> << >>, per |-> << >>, cw40 |-> FALSE, rateTableSize |-> 0,
                         rateMaxPhy |-> 0, probeRate |-> p, clean |-> clean], cap)
    /\ air = << >> /\ last = << >> /\ taint = FALSE
    /\ left = [updates |-> MaxUpdates, assocs |-> MaxAssocs]

----------------------------------------------------------------------------
(* Choosing rates.                                                         *)

Places(r, rate) == {i \in DOMAIN r.valid : r.valid[i] = rate}

\* rcGetNextValidTxRate, rcGetNextLowerValidTxRate: the neighbour in the list
\* of valid rates, as a set of at most one.
NextValid(r, rate) == {r.valid[i + 1] : i \in Places(r, rate) \ {Len(r.valid)}}
NextLower(r, rate) == {r.valid[i - 1] : i \in Places(r, rate) \ {1}}

\* rcRateGetIndex for one step down
StepDown(r, rate) == IF NextLower(r, rate) = {} THEN rate ELSE CHOOSE x \in NextLower(r, rate) : TRUE

\* rcRateFind_ht, its loop from the highest valid rate down.
BestRate(r) ==
    LET thruput(i) == Info[i].userRateKbps * (100 - Max({r.per[i], 12}))
        look(b, i) ==
            IF b.done \/ i > r.rateMaxPhy THEN b
            ELSE IF b.thruput >= Info[i].userRateKbps THEN [b EXCEPT !.done = TRUE]
            ELSE IF b.thruput <= thruput(i) THEN [b EXCEPT !.rate = i, !.thruput = thruput(i)]
            ELSE b
    IN  FoldLeft(look, [rate |-> 0, thruput |-> 0, done |-> FALSE], Reverse(r.valid)).rate

(* Seeded fault: the probe takes the next rate of the table, valid or not. *)
RateFind_NextIndex(r, due) ==
    LET probing == BestRate(r) >= r.rateMaxPhy /\ r.rateMaxPhy + 1 < r.rateTableSize
                   /\ due /\ r.clean
    IN  IF probing THEN [rate |-> r.rateMaxPhy + 1, probing |-> TRUE,
                         rc |-> [r EXCEPT !.probeRate = r.rateMaxPhy + 1, !.clean = FALSE]]
        ELSE [rate |-> BestRate(r), probing |-> FALSE, rc |-> r]

\* rcRateFind_ht: the rate, whether it is a probe, and the state it leaves;
\* due: the interval since the last probe has passed.
RateFind(r, due) ==
    LET best == BestRate(r)
        atMax == best >= r.rateMaxPhy
        next == NextValid(r, r.rateMaxPhy)
        probing == atMax /\ next # {} /\ due /\ r.clean
        rate == IF probing THEN CHOOSE x \in next : TRUE
                ELSE IF atMax THEN r.rateMaxPhy ELSE best
    IN  [rate |-> IF rate > r.rateTableSize - 1 THEN r.rateTableSize - 1 ELSE rate,
         probing |-> probing,
         rc |-> IF probing THEN [r EXCEPT !.probeRate = rate, !.clean = FALSE] ELSE r]

\* rcRateSetseries: the index of the base rate and the flags.
Setseries(rix, tries) ==
    [tries |-> tries, rix |-> Info[rix].baseIndex,
     cw40 |-> Phy40(Info[rix].phy), sgi |-> PhySGI(Info[rix].phy)]

\* rcUpdate_11n: the rate that the entry of a series stands for.
RateOf(s) ==
    LET row == Info[s.rix]
    IN  IF s.cw40 /\ s.sgi THEN row.htIndex
        ELSE IF s.sgi THEN row.sgiIndex
        ELSE IF s.cw40 THEN row.cw40Index
        ELSE row.baseIndex

\* rcRateFind_11n with the 10 tries and 4 rates of ath_tgt_rate_findrate: after
\* a probe with one try the rate below it, then step by step downwards.
Series(r, f) ==
    LET r1 == IF f.probing THEN StepDown(r, f.rate) ELSE f.rate
        r2 == StepDown(r, r1)
        r3 == StepDown(r, r2)
        r4 == StepDown(r, r3)
        s == IF f.probing
             THEN <<Setseries(f.rate, 1), Setseries(r1, 2), Setseries(r2, 2), Setseries(r3, 4)>>
             ELSE <<Setseries(r1, 2), Setseries(r2, 2), Setseries(r3, 2), Setseries(r4, 4)>>
        row == Info[f.rate]
        low == \/ row.dot11Rate = 2 /\ row.phy = HT40SS
               \/ row.dot11Rate = 3 /\ row.phy = HT20SS
    IN  IF low THEN [s EXCEPT ![4] = [s[3] EXCEPT !.tries = s[4].tries]] ELSE s

\* ath_rate_findrate
FindRate(due) ==
    /\ Len(air) < MaxAir
    /\ LET f == RateFind(rc, due)
       IN  /\ rc' = f.rc
           /\ last' = Series(f.rc, f)
           /\ air' = Append(air, [series |-> Series(f.rc, f), old |-> FALSE])
    /\ UNCHANGED <<taint, left>>

----------------------------------------------------------------------------
(* Charging the outcome.                                                   *)

\* nRetry2PerLookup
Retry2Per(n) == <<0, 25, 50, 75, 80, 83, 85, 87, 88, 90>>[Min({n, 9}) + 1]

\* The new estimate for the rate of u: x is 1 for a failure, 2 for a failure
\* before a later success, 0 for a success.
NewPer(per, u) ==
    LET retries == Min({u.retries, 9})
        kept == per - per \div 8
    IN  CASE u.x = 1 -> Min({per + 30, 100})
          [] u.x = 2 -> kept + 100 \div 8
          [] u.x = 0 /\ u.nBad > 0 ->
               kept + ((100 * (retries * u.nFrames + u.nBad)) \div (u.nFrames * (retries + 1))) \div 8
          [] OTHER -> kept + Retry2Per(retries) \div 8

\* A probe has ended; if with success, it raises rateMaxPhy.
ProbeEnd(r, u) ==
    LET won == u.x = 0 /\ u.retries = 0 /\ 2 * u.nBad <= u.nFrames
    IN  IF r.probeRate = 0 \/ r.probeRate # u.rate THEN r
        ELSE IF ~won THEN [r EXCEPT !.probeRate = 0]
        ELSE [r EXCEPT !.probeRate = 0, !.rateMaxPhy = u.rate,
                       !.per[u.rate] = IF @ > 30 THEN 20 ELSE @]

CountClean(r, u) ==
    [r EXCEPT !.clean = IF u.x # 0 THEN @ ELSE u.retries = 0 /\ (@ \/ u.rate = r.rateMaxPhy)]

\* A rate that looks bad is left for the next lower one.
StepDownMax(r, u) ==
    IF /\ r.per[u.rate] >= 55 /\ u.rate > 0
       /\ Info[u.rate].rateKbps <= Info[r.rateMaxPhy].rateKbps
       /\ NextLower(r, u.rate) # {}
    THEN [r EXCEPT !.rateMaxPhy = CHOOSE x \in NextLower(r, u.rate) : TRUE]
    ELSE r

(* Seeded fault: the estimates of the other rates stay.                    *)
KeepMonotone_Alone(r, u, lastPer) == r

\* Rates below, down to the first of another phy, have no higher estimate, and
\* rates above no lower.
KeepMonotone(r, u, lastPer) ==
    LET samePhyDownTo(i) == \A q \in i..u.rate : Info[q].phy = Info[u.rate].phy
        below == IF r.per[u.rate] < lastPer THEN {i \in 0..u.rate : samePhyDownTo(i)} ELSE {}
        above == u.rate..(r.rateTableSize - 1)
    IN  [r EXCEPT !.per = [i \in Rates |->
            IF i \in below THEN Min({r.per[q] : q \in i..u.rate})
            ELSE IF i \in above THEN Max({r.per[q] : q \in u.rate..i})
            ELSE r.per[i]]]

\* Every so often all estimates are reduced.
Decay(r) == [r EXCEPT !.per = [i \in Rates |-> IF i < r.rateTableSize THEN (7 * r.per[i]) \div 8
                                               ELSE r.per[i]]]

\* rcUpdate_ht
Update(r, u) ==
    LET lastPer == r.per[u.rate]
        r1 == [r EXCEPT !.per[u.rate] = NewPer(@, u)]
        r2 == StepDownMax(CountClean(ProbeEnd(r1, u), u), u)
        r3 == KeepMonotone(r2, u, lastPer)
    IN  IF u.due THEN Decay(r3) ELSE r3

\* rcUpdate_11n: failures of the rates before the last one tried, then the
\* outcome.  Nothing is charged from the first rate on whose width is no longer
\* the station's.  due: the first update of these reduces the estimates.
Charges(series, o, due) ==
    LET fail == IF o.fail THEN 1 ELSE 0
        before == [i \in 1..o.final |->
                     [rate |-> RateOf(series[i]), x |-> IF o.fail THEN 1 ELSE 2,
                      retries |-> series[i].tries, nFrames |-> o.nFrames, nBad |-> o.nFrames,
                      due |-> due /\ i = 1]]
        final == [rate |-> RateOf(series[o.final + 1]),
                  x |-> IF o.final = 0 /\ o.fail /\ series[1].tries = 1 THEN 2 ELSE fail,
                  retries |-> o.retries, nFrames |-> o.nFrames, nBad |-> o.nBad,
                  due |-> due /\ o.final = 0]
    IN  Append(before, final)

Charged(r, series, o, due) ==
    LET all == Charges(series, o, due)
        stop == {i \in DOMAIN all : series[i].cw40 /\ ~r.cw40} \cup {Len(all) + 1}
    IN  SubSeq(all, 1, Min(stop) - 1)

\* ath_rate_tx_complete
TxComplete(o, due) ==
    /\ air # << >> /\ left.updates > 0
    /\ LET f == Head(air)
       IN  /\ rc' = FoldLeft(Update, rc, Charged(rc, f.series, o, due))
           /\ taint' = ((taint \/ f.old) /\ rc'.rateMaxPhy \notin ToSet(rc.valid))
    /\ air' = Tail(air)
    /\ last' = << >>
    /\ left' = [left EXCEPT !.updates = @ - 1]

\* ath_rate_newassoc_11n; the host repeats it when the station's capabilities
\* or the width of the channel change.
NewAssoc(cap) ==
    /\ left.assocs > 0
    /\ rc' = SibUpdate(rc, cap)
    /\ air' = [i \in DOMAIN air |-> [air[i] EXCEPT !.old = TRUE]]
    /\ last' = << >> /\ taint' = FALSE
    /\ left' = [left EXCEPT !.assocs = @ - 1]

Next ==
    \/ \E due \in BOOLEAN : FindRate(due)
    \/ \E o \in Outcomes, due \in BOOLEAN : TxComplete(o, due)
    \/ \E cap \in Caps : NewAssoc(cap)

Spec == Init /\ [][Next]_vars
----------------------------------------------------------------------------
(* The highest rate in use is one of the valid rates, and a frame is given *)
(* valid rates only, none faster than the one before it, whatever probes   *)
(* and failures came before.  The one exception is a probe sent before the *)
(* last rate update that succeeds after it, until the rate is lowered.     *)
RatesValid ==
    ~taint =>
      /\ rc.rateMaxPhy \in ToSet(rc.valid)
      /\ \A i \in DOMAIN last :
           /\ RateOf(last[i]) \in ToSet(rc.valid)
           /\ i > 1 => Info[RateOf(last[i])].rateKbps <= Info[RateOf(last[i - 1])].rateKbps

(* Of neighbouring rows of one phy, and so of all rows of an unbroken run, *)
(* the slower has no higher estimate, also after a probe was forgiven, a   *)
(* decay, and the charge of a rate that is no longer valid.  This is less  *)
(* than the comment of the code says, "make sure the rates below this have *)
(* lower PER": from 39 Mb on, rows with and without the short guard        *)
(* interval alternate, the loop ends at the first row of the other kind,   *)
(* and the estimates of such rates do come out of order.                   *)
PerMonotone ==
    \A i \in Rates : i + 1 < rc.rateTableSize /\ Info[i].phy = Info[i + 1].phy
                      => rc.per[i] <= rc.per[i + 1]
=============================================================================
