----------------------------- MODULE MCCfdc2110 -----------------------------
(* Small instances of Cfdc2110.                                             *)
EXTENDS Cfdc2110

Rec(kind, sends, answers, room) ==
    [kind |-> kind, sends |-> sends, answers |-> answers, room |-> room]
Simple(kind) == Rec(kind, 1, 1, 2)
Batch(room, records) == [room |-> room, records |-> records]

\* Long commands and answers, what is fetched twice, not at all or too small.
TransportBatches == {
    Batch(2, <<Rec("forward", 2, 2, 0), Simple("fetch")>>),
    Batch(1, <<Rec("forward", 1, 2, 0), Rec("fetch", 1, 1, 1)>>),
    Batch(2, <<Simple("mam"), Rec("forward0", 2, 1, 0), Simple("short")>>) }

\* Commands of all kinds before a fetch.
MixedBatches == {
    Batch(2, <<Simple("local"), Simple("forward"), Simple("fetch"), Simple("fetch")>>),
    Batch(2, <<Simple("forward"), Simple("local"), Simple("fetch"), Simple("fetch")>>),
    Batch(2, <<Simple("local"), Simple("write"), Simple("fetch")>>),
    Batch(2, <<Simple("revision"), Simple("write"), Simple("fetch")>>),
    Batch(2, <<Simple("mam"), Simple("forward0"), Simple("forward"), Simple("short")>>) }

\* The count of opcode 0x99 and what follows it.
OverrideBatches == {
    Batch(2, <<Simple("revision"), Rec("forward0", 1, 2, 0), Simple("fetch")>>),
    Batch(2, <<Simple("revision"), Simple("forward"), Simple("fetch")>>),
    Batch(2, <<Simple("revision"), Simple("fetch"), Simple("forward0"), Simple("fetch")>>) }

\* A JTAG command over a response that is pending.
JtagBatches == {
    Batch(2, <<Simple("local"), Simple("jtag"), Simple("fetch")>>) }

AllBatches == TransportBatches \cup MixedBatches \cup OverrideBatches \cup JtagBatches
=============================================================================
