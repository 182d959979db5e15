------------------------------- MODULE Parts -------------------------------
(***************************************************************************)
(* The parts around the passes side by side: a behaviour is of one of      *)
(* them, and the others rest in an initial state. A part's constants are   *)
(* explained in its module.                                                *)
(***************************************************************************)
EXTENDS Integers, FiniteSets

CONSTANTS
    Values, Rates, MaxFeeRate, AgreedCsvs, MaxOuts, FundsPerPass, MaxInputs, Dests,
    MaxU64, Million, Ppms, Bases, Ranges, Multipliers,
    MinConfs, BlockTime, FundingTimeout, ClaimMargin, MaxRefundCsv, MaxHtlcHold,
    QuoteTtl, Waits, Expiries, PickedCsvs, Cltvs, Wrongs, MaxTime,
    OurSwaps, MadeUp, Limit,
    Passes, Ttl, Estimates, Relay, Networks, MaxClock,
    SignalIds, MinDelay, MaxDelay, MaxPushes, MaxSockets,
    Txs, Spending, Page, PoolCap, MaxRetries, MaxHeight, MaxMoves, Clients,
    Newer, None

\* What is locked is some sats, and of a pass's funds no more are spent at once
\* than a builder takes.
ASSUME SpendsAssumption ==
    /\ \A chain \in {"Bitcoin", "Liquid"} :
          /\ Values[chain] \subseteq Nat \ {0}
          /\ \E most \in Values[chain] : \A value \in Values[chain] : value <= most
          /\ Rates[chain] \subseteq Nat /\ Rates[chain] # {}
          /\ MaxFeeRate[chain] \in Nat
    /\ AgreedCsvs \subseteq Nat
    /\ Dests \subseteq {"p2pkh", "p2sh", "p2wpkh", "p2tr"}
    /\ FundsPerPass \in Nat \ {0} /\ MaxInputs \in Nat /\ FundsPerPass <= MaxInputs

\* Amounts are u64s, and a service_ppm is a part of a million.
ASSUME AmountsAssumption ==
    /\ MaxU64 \in Nat /\ Million \in Nat \ {0}
    /\ Ppms \subseteq Nat /\ Bases \subseteq 0..MaxU64 /\ Multipliers \subseteq Nat
    /\ Ranges \subseteq [min : 0..MaxU64, max : 0..MaxU64]

\* Times are in seconds, delays in blocks.
ASSUME TermsAssumption ==
    /\ MinConfs \in Nat /\ BlockTime \in Nat /\ FundingTimeout \in Nat /\ QuoteTtl \in Nat
    /\ Waits \subseteq Nat \cup {None}
    /\ Expiries \subseteq Nat /\ PickedCsvs \subseteq Nat /\ Cltvs \subseteq Nat

\* A page holds a swap at least, and we create finitely many.
ASSUME PagesAssumption == IsFiniteSet(OurSwaps) /\ Limit \in Nat \ {0}

\* A page of a history lists a transaction at least, of finitely many.
ASSUME HistoryAssumption == IsFiniteSet(Txs) /\ Spending \in Txs /\ Page \in Nat \ {0}

\* An estimate holds for a while.
ASSUME TtlAssumption == Ttl \in Nat \ {0}

\* None is no number, no id and no word the parts use.
ASSUME NoneAssumption ==
    /\ None \notin Int /\ None \notin SignalIds /\ None \notin Txs
    /\ None \notin {"refused", "ours", "server", "other", "agreed", "dust", "Timeout"}
    /\ None \notin {"Keypath", "Preimage", "Csv"}

VARIABLES
    part,       \* the part that moves
    swap, outs, keys, tx, pass,
    offer, answer,
    now, lastBlock, deal, server, record, first, restored, deposit,
    honest, listed, created, stored, found, seen, due, offset, pages,
    loop,
    network, clock, rate, ask,
    kind, closed, timers, opening, socks, delay, shown, queue, wake,
    resolved, listener, heard, passed,
    client, blocks, height, pool, lag, bodies, read, stay, known, cut,
    told, view, fresh, released

spendsVars == <<swap, outs, keys, tx, pass>>
pricesVars == <<offer, answer>>
termsVars == <<now, lastBlock, deal, server, record, first, restored, deposit>>
pagingVars == <<honest, listed, created, stored, found, seen, due, offset, pages, loop>>
feerateVars == <<network, clock, rate, ask>>
signalsVars == <<kind, closed, timers, opening, socks, delay,
               shown, queue, wake, resolved, listener, heard, passed>>
historyVars == <<client, blocks, height, pool, lag, bodies, read, stay, known, cut>>
reportVars == <<told, view, fresh, released>>

-----------------------------------------------------------------------------
\* What a pass spends, and how.
Sp == INSTANCE Spends WITH Csvs <- AgreedCsvs

\* What an amount costs.
Pr == INSTANCE Prices

\* How a swap comes to be.
Te == INSTANCE Terms WITH Csvs <- PickedCsvs

\* Restore_all over the pages of the server.
Pg == INSTANCE Paging WITH Mine <- OurSwaps

\* The fee estimate kept between passes.
Fe == INSTANCE FeeRate

\* The push channel.
Si == INSTANCE Signals WITH Ids <- SignalIds

\* The reads of an address.
Hi == INSTANCE History

\* What the server says.
Re == INSTANCE Report WITH swap <- told

\* None is no answer of the server either.
ASSUME AnswersAssumption ==
    \A s \in [type : {"SwapIn", "SwapOut"}, status : Re!SwapInStatuses \cup Re!SwapOutStatuses,
              outpoint : {"agreed", "dust", None}, knows : BOOLEAN] :
        None # Re!Blind(Re!SwapState(s))

-----------------------------------------------------------------------------
\* Where a part may begin in several ways, the others rest in one.
Init ==
    /\ part \in {"spends", "prices", "terms", "paging", "feerate", "signals", "history", "report"}
    /\ Sp!Init
    /\ Pr!Init
    /\ Te!Init
    /\ Pg!Init
    /\ Fe!Init
    /\ Si!Init
    /\ Hi!Init
    /\ Re!Init
    /\ part # "feerate" => network = "mainnet"
    /\ part # "signals" => kind = "ts"
    /\ part # "history" => client = "ts"
    /\ part # "report" => told.type = "SwapIn"

Only(p) ==
    /\ part = p /\ UNCHANGED part
    /\ p # "spends" => UNCHANGED spendsVars
    /\ p # "prices" => UNCHANGED pricesVars
    /\ p # "terms" => UNCHANGED termsVars
    /\ p # "paging" => UNCHANGED pagingVars
    /\ p # "feerate" => UNCHANGED feerateVars
    /\ p # "signals" => UNCHANGED signalsVars
    /\ p # "history" => UNCHANGED historyVars
    /\ p # "report" => UNCHANGED reportVars

Next ==
    \/ Only("spends") /\ Sp!Next
    \/ Only("prices") /\ Pr!Next
    \/ Only("terms") /\ Te!Next
    \/ Only("paging") /\ Pg!Next
    \/ Only("feerate") /\ Fe!Next
    \/ Only("signals") /\ Si!Next
    \/ Only("history") /\ Hi!Next
    \/ Only("report") /\ Re!Next

partsVars == <<part, spendsVars, pricesVars, termsVars, pagingVars, feerateVars, signalsVars,
               historyVars, reportVars>>

Spec == Init /\ [][Next]_partsVars

-----------------------------------------------------------------------------
(* The properties, where they are stated and explained: in the parts.      *)

\* A refund batch that was weighed goes out.
RefundsGoOut == Sp!RefundsGoOut
\* A claim builds at the ceiling its opening gives.
ClaimsAlwaysBuild == Sp!ClaimsAlwaysBuild
\* A spend of ours follows the fee estimate up.
SpendKeepsUp == Sp!SpendKeepsUp
\* A spend in the mempool is read as what it is.
SpendIsReadBack == Sp!SpendIsReadBack
\* The range told is the range quoted.
RangeIsExact == Pr!RangeIsExact
\* A quote gives all that the amount sent can pay for.
BestPrice == Pr!BestPrice
\* A deposit paid by the deadline confirms before its invoice expires.
DepositConfirmsInTime == Te!DepositConfirmsInTime
\* A restored record is the one adopted.
RestoreRebuilds == Te!RestoreRebuilds
\* restore_all finds every swap listed as it began.
RestoreFindsAll == Pg!RestoreFindsAll
\* No server keeps the paging going.
PagingEnds == Pg!PagingEnds
\* No pass decides on an estimate older than its ttl.
RateFresh == Fe!RateFresh
\* One reconnection is under way at a time, and none after stop().
OneChannel == Si!OneChannel
\* Every id read from the socket reaches the loops in its order.
SignalsInOrder == Si!SignalsInOrder
\* A history or spend read over moving pages is whole.
HistoryWhole == Hi!HistoryWhole
\* An app driving a swap by hand lets no secret go early, and is owed no key it cannot read.
ByHandIsSafe == Re!ByHandIsSafe
=============================================================================
