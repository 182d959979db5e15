------------------------------ MODULE MCParts ------------------------------
(***************************************************************************)
(* Parts for TLC: each part on bounds of its own.                          *)
(***************************************************************************)
EXTENDS Parts

CONSTANTS a, b, c, x

\* Spends.
LockedValues == [Bitcoin |-> {545, 684, 685, 892}, Liquid |-> {25, 26, 251}]
EstimatedRates == [Bitcoin |-> {10, 12, 1000}, Liquid |-> {1, 2, 30}]
RateCaps == [Bitcoin |-> 25, Liquid |-> 10]
ShortAndLongCsv == {144, 40000}
LeastAndMostDust == {"p2pkh", "p2tr"}

\* Prices.
SomePpms == {0, 1, 3, 10, 15}
SomeBases == {0, 1, 3, 28}
SomeRanges == [min : {0, 1, 4}, max : {4, 9, 15, 30}]
SomeMultipliers == {0, 2}

\* Terms: invoices and CSVs on both sides of every limit.
SixOrNoWait == {6, None}
ShortAndLongInvoice == {5, 7}
CsvsAroundLimits == {1, 5, 6}
CltvsAroundLimits == {0, 6}
WrongInvoice == {"invoice_hash"}

\* Paging.
ThreeSwaps == {a, b, c}
OneMadeUp == {x}

\* FeeRate.
TwoPasses == {1, 2}
OneEstimate == {5}
WithAndWithoutFallback == {"mainnet", "regtest"}

\* Signals.
TwoIds == {a, b}

\* History.
ThreeTxs == {1, 2, 3}
EveryClient == {"bitcoin", "liquid", "ts"}
=============================================================================
