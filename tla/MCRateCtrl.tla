----------------------------- MODULE MCRateCtrl -----------------------------
(***************************************************************************)
(* Rate control with eighteen rows of ar5416_11ngRateTable, numbered anew. *)
(***************************************************************************)
EXTENDS RateCtrl

Row(valid, single, phy, kbps, user, dot11, indices) ==
    [valid |-> valid, validSingleStream |-> single, phy |-> phy, rateKbps |-> kbps,
     userRateKbps |-> user, dot11Rate |-> dot11, baseIndex |-> indices[1],
     cw40Index |-> indices[2], sgiIndex |-> indices[3], htIndex |-> indices[4]]

Same(i) == <<i, i, i, i>>
AllModes == {"legacy", "20", "40"}

\* The rows with and without the short guard interval alternate as in the table.
Rows ==
    <<Row(AllModes, AllModes, CCK, 5500, 4900, 11, Same(0)),
      Row(AllModes, AllModes, CCK, 11000, 8100, 22, Same(1)),
      Row({"legacy"}, {"legacy"}, OFDM, 12000, 10100, 24, Same(2)),
      Row({"legacy"}, {"legacy"}, OFDM, 24000, 17700, 48, Same(3)),
      Row({"legacy"}, {"legacy"}, OFDM, 36000, 23700, 72, Same(4)),
      Row({"legacy"}, {"legacy"}, OFDM, 54000, 30900, 108, Same(5)),
      Row({"20"}, {"20"}, HT20SS, 26000, 25000, 3, <<6, 13, 6, 13>>),
      Row({"20"}, {"20"}, HT20SS, 39000, 36700, 4, <<7, 14, 8, 15>>),
      Row({}, {"20"}, HT20SSHGI, 43300, 39200, 4, <<7, 14, 8, 15>>),
      Row({}, {"20"}, HT20SS, 52000, 48100, 5, <<9, 16, 10, 17>>),
      Row({}, {"20"}, HT20SSHGI, 57800, 52300, 5, <<9, 16, 10, 17>>),
      Row({"20"}, {}, HT20DS, 52000, 48100, 11, Same(11)),
      Row({"20"}, {}, HT20DS, 130000, 116100, 15, Same(12)),
      Row({"40"}, {"40"}, HT40SS, 54000, 49800, 3, <<6, 13, 13, 13>>),
      Row({"40"}, {"40"}, HT40SS, 81500, 72200, 4, <<7, 14, 15, 15>>),
      Row({}, {"40"}, HT40SSHGI, 90000, 81500, 4, <<7, 14, 15, 15>>),
      Row({}, {"40"}, HT40SS, 108000, 92900, 5, <<9, 16, 17, 17>>),
      Row({}, {"40"}, HT40SSHGI, 120000, 102100, 5, <<9, 16, 17, 17>>)>>

MCInfo == [i \in 0..(Len(Rows) - 1) |-> Rows[i + 1]]

Cap(ht, ds, cw40, sgi, tkip, rates) ==
    [ht |-> ht, ds |-> ds, cw40 |-> cw40, sgi |-> sgi, tkip |-> tkip, rates |-> rates]

\* Without a rate set, legacy, two streams with TKIP, and 20 and 40 MHz with the
\* short guard interval.
MCCaps ==
    {Cap(FALSE, FALSE, FALSE, FALSE, FALSE, {}),
     Cap(FALSE, FALSE, FALSE, FALSE, FALSE, Rates),
     Cap(TRUE, TRUE, FALSE, FALSE, TRUE, Rates),
     Cap(TRUE, FALSE, FALSE, TRUE, FALSE, Rates),
     Cap(TRUE, FALSE, TRUE, TRUE, FALSE, Rates)}

\* final counts the rates that failed before the last one tried.
Outcome(final, fail, retries, nFrames, nBad) ==
    [final |-> final, fail |-> fail, retries |-> retries, nFrames |-> nFrames, nBad |-> nBad]

MCOutcomes ==
    {Outcome(0, FALSE, 0, 1, 0), Outcome(0, FALSE, 0, 4, 1), Outcome(0, TRUE, 1, 1, 0),
     Outcome(1, FALSE, 1, 4, 2), Outcome(3, TRUE, 4, 2, 2)}
=============================================================================
