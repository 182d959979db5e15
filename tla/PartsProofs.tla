---------------------------- MODULE PartsProofs ----------------------------
(***************************************************************************)
(* Theorems about the parts as they stand side by side: what is proved of  *)
(* a part holds of a behaviour in which that part moves or rests. Spends,  *)
(* Prices, Paging and Signals have modules of proofs of their own, which   *)
(* are instantiated here; Terms, FeeRate, Report and History are proved    *)
(* about here.                                                             *)
(***************************************************************************)
EXTENDS Parts, Sequences, FiniteSetTheorems, TLAPS

SpProofs == INSTANCE SpendsProofs WITH Csvs <- AgreedCsvs
PrProofs == INSTANCE PricesProofs
PgProofs == INSTANCE PagingProofs WITH Mine <- OurSwaps
SiProofs == INSTANCE SignalsProofs WITH Ids <- SignalIds

-----------------------------------------------------------------------------
(* Every part behaves as it does alone.                                    *)

LEMMA SpendsMoveAlone == Spec => SpProofs!Spec
<1>1. /\ \A u : Sp!NewScript(u) = SpProofs!NewScript(u)
      /\ \A u, v : Sp!WitnessWeight(u, v) = SpProofs!WitnessWeight(u, v)
      /\ \A u, v : Sp!RefundThreshold(u, v) = SpProofs!RefundThreshold(u, v)
      /\ \A u, v : Sp!MaxClaimFeeRate(u, v) = SpProofs!MaxClaimFeeRate(u, v)
      /\ \A u : Sp!Built(u) <=> SpProofs!Built(u)
      /\ \A u : Sp!TotalOf(u) = SpProofs!TotalOf(u)
      /\ \A u : Sp!SpendPath(u) = SpProofs!SpendPath(u)
      /\ \A u : Sp!Vsize(u) = SpProofs!Vsize(u)
      /\ \A u : Sp!Sorted(u) = SpProofs!Sorted(u)
      /\ \A u : Sp!RefundPath(u) = SpProofs!RefundPath(u)
      /\ \A u : Sp!ClaimPath(u) = SpProofs!ClaimPath(u)
      /\ \A u : Sp!OutSet(u) = SpProofs!OutSet(u)
  BY DEF Sp!NewScript, SpProofs!NewScript, Sp!Aggregate, SpProofs!Aggregate, Sp!BitcoinScript,
         SpProofs!BitcoinScript, Sp!BlindingKey, SpProofs!BlindingKey, Sp!LiquidScript,
         SpProofs!LiquidScript, Sp!SharedKey, SpProofs!SharedKey, Sp!ValidParameters,
         SpProofs!ValidParameters, Sp!WitnessWeight, SpProofs!WitnessWeight, Sp!ClaimScript,
         SpProofs!ClaimScript, Sp!ItemSize, SpProofs!ItemSize, Sp!PushInt, SpProofs!PushInt,
         Sp!RefundScript, SpProofs!RefundScript, Sp!Sum, SpProofs!Sum, Sp!RefundThreshold,
         SpProofs!RefundThreshold, Sp!BitcoinFee, SpProofs!BitcoinFee, Sp!CeilDiv,
         SpProofs!CeilDiv, Sp!FeeForVsize, SpProofs!FeeForVsize, Sp!LiquidFee,
         SpProofs!LiquidFee, Sp!MaxDust, SpProofs!MaxDust, Sp!RefundVsize, SpProofs!RefundVsize,
         Sp!SatPerKwu, SpProofs!SatPerKwu, Sp!MaxClaimFeeRate, SpProofs!MaxClaimFeeRate,
         Sp!ClaimVsize, SpProofs!ClaimVsize, Sp!Built, SpProofs!Built, Sp!TotalOf,
         SpProofs!TotalOf, Sp!SpendPath, SpProofs!SpendPath, Sp!WithoutAnnex,
         SpProofs!WithoutAnnex, Sp!Front, SpProofs!Front, Sp!Last, SpProofs!Last, Sp!Vsize,
         SpProofs!Vsize, Sp!Sorted, SpProofs!Sorted, Sp!Before, SpProofs!Before, Sp!Cardinality,
         SpProofs!Cardinality, Sp!SetToSeqs, SpProofs!SetToSeqs, Sp!RefundPath,
         SpProofs!RefundPath, Sp!ClaimPath, SpProofs!ClaimPath, Sp!OutSet, SpProofs!OutSet,
         Sp!Explicit, SpProofs!Explicit, Sp!Max, SpProofs!Max
<1>2. /\ Sp!Script = SpProofs!Script
      /\ \A u, v, w, x : Sp!BitcoinWeight(u, v, w, x) = SpProofs!BitcoinWeight(u, v, w, x)
      /\ \A u, v, w, x : Sp!LiquidWeight(u, v, w, x) = SpProofs!LiquidWeight(u, v, w, x)
      /\ \A u, v, w, x, y : Sp!Signed(u, v, w, x, y) = SpProofs!Signed(u, v, w, x, y)
      /\ \A u, v, w : Sp!BitcoinTx(u, v, w) = SpProofs!BitcoinTx(u, v, w)
      /\ \A u, v : Sp!BitcoinBuildFee(u, v) = SpProofs!BitcoinBuildFee(u, v)
      /\ \A u, v, w : Sp!LiquidTx(u, v, w) = SpProofs!LiquidTx(u, v, w)
      /\ \A u, v : Sp!LiquidBuildFee(u, v) = SpProofs!LiquidBuildFee(u, v)
      /\ \A u, v, w, x : Sp!LiquidFinal(u, v, w, x) = SpProofs!LiquidFinal(u, v, w, x)
      /\ \A u, v, w : Sp!ClaimRate(u, v, w) = SpProofs!ClaimRate(u, v, w)
  BY <1>1 DEF Sp!Script, SpProofs!Script, Sp!BitcoinWeight, SpProofs!BitcoinWeight, Sp!LengthOf,
         SpProofs!LengthOf, Sp!LiquidWeight, SpProofs!LiquidWeight, Sp!Signed, SpProofs!Signed,
         Sp!Sighash, SpProofs!Sighash, Sp!Sign, SpProofs!Sign, Sp!BitcoinTx, SpProofs!BitcoinTx,
         Sp!DustOf, SpProofs!DustOf, Sp!Refused, SpProofs!Refused, Sp!Skeleton,
         SpProofs!Skeleton, Sp!IsInjective, SpProofs!IsInjective, Sp!BitcoinBuildFee,
         SpProofs!BitcoinBuildFee, Sp!BitcoinFee, SpProofs!BitcoinFee, Sp!CeilDiv,
         SpProofs!CeilDiv, Sp!SatPerKwu, SpProofs!SatPerKwu, Sp!LiquidTx, SpProofs!LiquidTx,
         Sp!LiquidBuildFee, SpProofs!LiquidBuildFee, Sp!LiquidFee, SpProofs!LiquidFee,
         Sp!LiquidFinal, SpProofs!LiquidFinal, Sp!ClaimRate, SpProofs!ClaimRate, Sp!Min2,
         SpProofs!Min2
<1>3. /\ \A u : Sp!ValueOf(u) = SpProofs!ValueOf(u)
      /\ \A u : Sp!LiquidOpening(u) = SpProofs!LiquidOpening(u)
      /\ \A u, v, w, x, y, z : Sp!BitcoinSigned(u, v, w, x, y, z) = SpProofs!BitcoinSigned(u, v, w, x, y, z)
      /\ \A u, v : Sp!Paid(u, v) = SpProofs!Paid(u, v)
      /\ \A u : Sp!Opens(u) <=> SpProofs!Opens(u)
  BY <1>1, <1>2 DEF Sp!ValueOf, SpProofs!ValueOf, Sp!Explicit, SpProofs!Explicit,
         Sp!PrevoutSecrets, SpProofs!PrevoutSecrets, Sp!LiquidOpening, SpProofs!LiquidOpening,
         Sp!BitcoinSigned, SpProofs!BitcoinSigned, Sp!Paid, SpProofs!Paid, Sp!Refused,
         SpProofs!Refused, Sp!Opens, SpProofs!Opens, Sp!Sighash, SpProofs!Sighash, Sp!Range,
         SpProofs!Range
<1>4. /\ \A u : Sp!OutputAt(u) = SpProofs!OutputAt(u)
      /\ Sp!Ours = SpProofs!Ours
      /\ \A u, v : Sp!Economical(u, v) = SpProofs!Economical(u, v)
      /\ \A u, v, w, x : Sp!BitcoinKeypath(u, v, w, x) = SpProofs!BitcoinKeypath(u, v, w, x)
      /\ \A u, v, w : Sp!BitcoinClaim(u, v, w) = SpProofs!BitcoinClaim(u, v, w)
      /\ \A u, v, w : Sp!BitcoinRefund(u, v, w) = SpProofs!BitcoinRefund(u, v, w)
      /\ \A u : Sp!ValidPrevout(u) <=> SpProofs!ValidPrevout(u)
      /\ \A u : Sp!Accepts(u) <=> SpProofs!Accepts(u)
  BY <1>1, <1>2, <1>3 DEF Sp!OutputAt, SpProofs!OutputAt, Sp!BitcoinOpening,
         SpProofs!BitcoinOpening, Sp!Ours, SpProofs!Ours, Sp!IsOurs, SpProofs!IsOurs,
         Sp!Economical, SpProofs!Economical, Sp!BitcoinKeypath, SpProofs!BitcoinKeypath,
         Sp!Aggregate, SpProofs!Aggregate, Sp!KeypathWitness, SpProofs!KeypathWitness,
         Sp!SignKeypath, SpProofs!SignKeypath, Sp!BitcoinClaim, SpProofs!BitcoinClaim,
         Sp!ClaimWitness, SpProofs!ClaimWitness, Sp!BitcoinRefund, SpProofs!BitcoinRefund,
         Sp!CsvWitness, SpProofs!CsvWitness, Sp!ValidPrevout, SpProofs!ValidPrevout, Sp!Accepts,
         SpProofs!Accepts
<1>5. /\ \A u : Sp!LiquidInputs(u) = SpProofs!LiquidInputs(u)
      /\ \A u : Sp!Batches(u) = SpProofs!Batches(u)
  BY <1>1, <1>4 DEF Sp!LiquidInputs, SpProofs!LiquidInputs, Sp!Refused, SpProofs!Refused,
         Sp!IsInjective, SpProofs!IsInjective, Sp!Range, SpProofs!Range, Sp!Batches,
         SpProofs!Batches, Sp!Min2, SpProofs!Min2
<1>6. /\ \A u, v, w, x, y, z : Sp!LiquidSigned(u, v, w, x, y, z) = SpProofs!LiquidSigned(u, v, w, x, y, z)
  BY <1>1, <1>2, <1>5 DEF Sp!LiquidSigned, SpProofs!LiquidSigned
<1>7. /\ \A u, v, w, x : Sp!LiquidKeypath(u, v, w, x) = SpProofs!LiquidKeypath(u, v, w, x)
      /\ \A u, v, w : Sp!LiquidClaim(u, v, w) = SpProofs!LiquidClaim(u, v, w)
      /\ \A u, v, w : Sp!LiquidRefund(u, v, w) = SpProofs!LiquidRefund(u, v, w)
  BY <1>2, <1>3, <1>6 DEF Sp!LiquidKeypath, SpProofs!LiquidKeypath, Sp!Aggregate,
         SpProofs!Aggregate, Sp!KeypathWitness, SpProofs!KeypathWitness, Sp!SignKeypath,
         SpProofs!SignKeypath, Sp!LiquidClaim, SpProofs!LiquidClaim, Sp!ClaimWitness,
         SpProofs!ClaimWitness, Sp!LiquidRefund, SpProofs!LiquidRefund, Sp!CsvWitness,
         SpProofs!CsvWitness
<1>8. /\ \A u, v, w, x : Sp!SpendByKeypath(u, v, w, x) = SpProofs!SpendByKeypath(u, v, w, x)
      /\ \A u, v, w : Sp!ClaimByPreimage(u, v, w) = SpProofs!ClaimByPreimage(u, v, w)
      /\ \A u, v, w : Sp!RefundByCsv(u, v, w) = SpProofs!RefundByCsv(u, v, w)
  BY <1>4, <1>7 DEF Sp!SpendByKeypath, SpProofs!SpendByKeypath, Sp!ClaimByPreimage,
         SpProofs!ClaimByPreimage, Sp!RefundByCsv, SpProofs!RefundByCsv
<1>9. Sp!Init <=> SpProofs!Init
  BY DEF Sp!Init, SpProofs!Init, Sp!Idle, SpProofs!Idle
<1>10. \A u : Sp!Agree(u) <=> SpProofs!Agree(u)
  BY <1>1 DEF Sp!Agree, SpProofs!Agree
<1>11. \A u : Sp!Fund(u) <=> SpProofs!Fund(u)
  BY <1>4 DEF Sp!Fund, SpProofs!Fund, Sp!Idle, SpProofs!Idle
<1>12. Sp!RevealKey <=> SpProofs!RevealKey
  BY DEF Sp!RevealKey, SpProofs!RevealKey
<1>13. Sp!SendPreimage <=> SpProofs!SendPreimage
  BY DEF Sp!SendPreimage, SpProofs!SendPreimage
<1>14. Sp!Restore <=> SpProofs!Restore
  BY DEF Sp!Restore, SpProofs!Restore
<1>15. \A u : Sp!ServerSpends(u) <=> SpProofs!ServerSpends(u)
  BY <1>1, <1>4, <1>8 DEF Sp!ServerSpends, SpProofs!ServerSpends, Sp!Idle, SpProofs!Idle,
         Sp!Min, SpProofs!Min
<1>16. \A u, v : Sp!Broadcast(u, v) <=> SpProofs!Broadcast(u, v)
  BY <1>1, <1>4 DEF Sp!Broadcast, SpProofs!Broadcast
<1>17. \A u : Sp!Refund(u) <=> SpProofs!Refund(u)
  BY <1>1, <1>5, <1>8, <1>16 DEF Sp!Refund, SpProofs!Refund, Sp!Min2, SpProofs!Min2,
         Sp!SentByUs, SpProofs!SentByUs
<1>18. \A u : Sp!Claim(u) <=> SpProofs!Claim(u)
  BY <1>1, <1>2, <1>8, <1>16 DEF Sp!Claim, SpProofs!Claim
<1>19. Init => SpProofs!Init
  BY <1>9 DEF Init
<1>20. [Next]_partsVars => [SpProofs!Next]_SpProofs!vars
  <2>1. Sp!Next <=> SpProofs!Next
    BY <1>1, <1>10, <1>11, <1>12, <1>13, <1>14, <1>15, <1>17, <1>18 DEF Sp!Next, SpProofs!Next, Sp!Chains, SpProofs!Chains
  <2> QED
    BY <2>1 DEF Next, Only, partsVars, spendsVars, SpProofs!vars
<1> QED
  BY <1>19, <1>20, PTL DEF Spec, SpProofs!Spec

LEMMA PricesMoveAlone == Spec => PrProofs!Spec
<1>1. Init => PrProofs!Init
  BY DEF Init, Pr!Init, PrProofs!Init, Pr!NoAnswer, PrProofs!NoAnswer
<1>2. [Next]_partsVars => [PrProofs!Next]_PrProofs!priceVars
  <2>1. Only("prices") /\ Pr!Next => PrProofs!Next
    BY DEF Pr!Next, PrProofs!Next, Pr!ReadInfo, PrProofs!ReadInfo, Pr!Ask, PrProofs!Ask, Pr!U64,
           PrProofs!U64, Pr!Offer, PrProofs!Offer, Pr!NoAnswer, PrProofs!NoAnswer, Pr!Quote,
           PrProofs!Quote, Pr!Receives, PrProofs!Receives, Pr!Sends, PrProofs!Sends, Pr!MinAmount,
           PrProofs!MinAmount, Pr!MinSend, PrProofs!MinSend, Pr!RangeTold, PrProofs!RangeTold,
           Pr!Larger, PrProofs!Larger, Pr!Saturating, PrProofs!Saturating, Pr!Checked,
           PrProofs!Checked, Pr!MaxReceiveForSend, PrProofs!MaxReceiveForSend,
           Pr!MinSendForReceive, PrProofs!MinSendForReceive, Pr!SwapFee, PrProofs!SwapFee,
           Pr!ServiceFee, PrProofs!ServiceFee
  <2> QED
    BY <2>1 DEF Next, Only, partsVars, pricesVars, PrProofs!priceVars
<1> QED
  BY <1>1, <1>2, PTL DEF Spec, PrProofs!Spec

LEMMA PagingMovesAlone == Spec => PgProofs!Spec
<1>1. Init => PgProofs!Init
  BY DEF Init, Pg!Init, PgProofs!Init
<1>2. [Next]_partsVars => [PgProofs!Next]_PgProofs!pageVars
  <2>1. Only("paging") /\ Pg!Next => PgProofs!Next
    BY DEF Pg!Next, PgProofs!Next, Pg!Create, PgProofs!Create, Pg!Begin, PgProofs!Begin,
           Pg!TakePage, PgProofs!TakePage, Pg!HonestPage, PgProofs!HonestPage, Pg!AnyPage,
           PgProofs!AnyPage, Pg!PageLost, PgProofs!PageLost, Pg!Ids, PgProofs!Ids, Pg!Fresh,
           PgProofs!Fresh, Pg!Brings, PgProofs!Brings, Pg!InsertAt, PgProofs!InsertAt, Pg!Listed,
           PgProofs!Listed, Pg!Entry, PgProofs!Entry
  <2> QED
    BY <2>1 DEF Next, Only, partsVars, pagingVars, PgProofs!pageVars
<1> QED
  BY <1>1, <1>2, PTL DEF Spec, PgProofs!Spec

LEMMA SignalsMoveAlone == Spec => SiProofs!Spec
<1>1. Init => SiProofs!Init
  BY DEF Init, Si!Init, SiProofs!Init
<1>2. [Next]_partsVars => [SiProofs!Next]_SiProofs!signalVars
  <2>1. Only("signals") /\ Si!Next => SiProofs!Next
    BY DEF Si!Next, SiProofs!Next, Si!TimerFires, SiProofs!TimerFires, Si!UrlBuilt,
           SiProofs!UrlBuilt, Si!UrlFails, SiProofs!UrlFails, Si!Stop, SiProofs!Stop,
           Si!SocketOpens, SiProofs!SocketOpens, Si!SocketCloses, SiProofs!SocketCloses, Si!Pushed,
           SiProofs!Pushed, Si!OnUpdate, SiProofs!OnUpdate, Si!Subscribe, SiProofs!Subscribe,
           Si!Arrives, SiProofs!Arrives, Si!SubscriptionNext, SiProofs!SubscriptionNext,
           Si!SubscriptionEnds, SiProofs!SubscriptionEnds, Si!Ask, SiProofs!Ask, Si!Taken,
           SiProofs!Taken, Si!Rested, SiProofs!Rested, Si!ListenEnds, SiProofs!ListenEnds,
           Si!NextId, SiProofs!NextId, Si!Retry, SiProofs!Retry, Si!Report, SiProofs!Report,
           Si!Reached, SiProofs!Reached, Si!Last, SiProofs!Last, Si!channelVars,
           SiProofs!channelVars, Si!nextVars, SiProofs!nextVars
  <2> QED
    BY <2>1 DEF Next, Only, partsVars, signalsVars, SiProofs!signalVars
<1> QED
  BY <1>1, <1>2, PTL DEF Spec, SiProofs!Spec

-----------------------------------------------------------------------------
LEMMA SpendAmountsAre == SpProofs!Amounts
  BY SpendsAssumption, NoneAssumption DEF SpProofs!Amounts, SpProofs!Paths

(* A refund batch that was weighed worth refunding builds, opens and is     *)
(* taken, at the rate it was weighed at, on either path, of any size and to *)
(* any address (driver/tick.rs, partition_economical and refund_funds).     *)
THEOREM RefundsAlwaysGoOut == Spec => RefundsGoOut
<1>1. SpProofs!Spec => SpProofs!RefundsGoOut
  BY SpProofs!RefundsAlwaysGoOut, SpendAmountsAre
<1>2. [(swap # None /\ swap.side = "Source" /\ tx = None) =>
           pass'.did \notin {"failed", "refused"}]_SpProofs!vars
      => [(swap # None /\ swap.side = "Source" /\ tx = None) =>
           pass'.did \notin {"failed", "refused"}]_Sp!vars
  BY DEF SpProofs!vars, Sp!vars
<1> QED
  BY <1>1, <1>2, SpendsMoveAlone, PTL DEF RefundsGoOut, Sp!RefundsGoOut, SpProofs!RefundsGoOut

(* A claim at the ceiling of its opening builds, on the preimage path and   *)
(* on the keypath, whatever the estimate (driver/tick.rs, claim).           *)
THEOREM ClaimsBuild == Spec => []ClaimsAlwaysBuild
<1>1. SpProofs!Spec => []SpProofs!ClaimsAlwaysBuild
  BY SpProofs!ClaimsBuild, SpendAmountsAre
<1>2. SpProofs!ClaimsAlwaysBuild => ClaimsAlwaysBuild
  BY DEF SpProofs!ClaimsAlwaysBuild, ClaimsAlwaysBuild, Sp!ClaimsAlwaysBuild, SpProofs!WorthDust,
         Sp!WorthDust, SpProofs!MaxDust, Sp!MaxDust
<1> QED
  BY <1>1, <1>2, SpendsMoveAlone, PTL

(* A spend of ours in the mempool pays the rate of the last pass that       *)
(* rebuilt it, to the vbyte its size is rounded by, unless that pass could  *)
(* not afford to (driver/tick.rs, refund_funds; driver/mod.rs, spend).      *)
THEOREM SpendsKeepUp == Spec => []SpendKeepsUp
<1>1. SpProofs!Spec => []SpProofs!SpendKeepsUp
  BY SpProofs!SpendsKeepUp, SpendAmountsAre
<1>2. /\ \A u : Sp!Vsize(u) = SpProofs!Vsize(u)
      /\ Sp!SentByUs <=> SpProofs!SentByUs
  BY DEF SpProofs!Vsize, Sp!Vsize, SpProofs!CeilDiv, Sp!CeilDiv, SpProofs!SentByUs, Sp!SentByUs
<1>3. SpProofs!SpendKeepsUp => SpendKeepsUp
  BY <1>2 DEF SpProofs!SpendKeepsUp, SpendKeepsUp, Sp!SpendKeepsUp
<1> QED
  BY <1>1, <1>3, SpendsMoveAlone, PTL

(* A spend in the mempool is read by its witness as what it is, with the    *)
(* fee it pays, annex or not, and has a preimage just when it is a claim by *)
(* it (core, spend_path and extract_preimage).                              *)
THEOREM SpendsAreReadBack == Spec => []SpendIsReadBack
<1>1. SpProofs!Spec => []SpProofs!SpendIsReadBack
  BY SpProofs!SpendsAreReadBack, SpendAmountsAre
<1>2. /\ Sp!Script = SpProofs!Script
      /\ \A w : Sp!SpendPath(w) = SpProofs!SpendPath(w)
      /\ \A w : Sp!ExtractPreimage(w) <=> SpProofs!ExtractPreimage(w)
      /\ \A u : Sp!TotalOf(u) = SpProofs!TotalOf(u)
      /\ \A u : Sp!TxFee(u) = SpProofs!TxFee(u)
      /\ \A s : Sp!Cardinality(s) = SpProofs!Cardinality(s)
  <2>1. /\ Sp!Script = SpProofs!Script
        /\ \A u : Sp!TotalOf(u) = SpProofs!TotalOf(u)
        /\ \A s : Sp!Cardinality(s) = SpProofs!Cardinality(s)
    BY DEF Sp!Script, SpProofs!Script, Sp!NewScript, SpProofs!NewScript, Sp!Aggregate,
           SpProofs!Aggregate, Sp!BitcoinScript, SpProofs!BitcoinScript, Sp!BlindingKey,
           SpProofs!BlindingKey, Sp!LiquidScript, SpProofs!LiquidScript, Sp!SharedKey,
           SpProofs!SharedKey, Sp!ValidParameters, SpProofs!ValidParameters, Sp!TotalOf,
           SpProofs!TotalOf, Sp!Sum, SpProofs!Sum, Sp!Cardinality, SpProofs!Cardinality
  <2>2. /\ \A w : Sp!SpendPath(w) = SpProofs!SpendPath(w)
        /\ \A w : Sp!ExtractPreimage(w) <=> SpProofs!ExtractPreimage(w)
    BY DEF Sp!SpendPath, SpProofs!SpendPath, Sp!WithoutAnnex, SpProofs!WithoutAnnex, Sp!Front,
           SpProofs!Front, Sp!Last, SpProofs!Last, Sp!ExtractPreimage, SpProofs!ExtractPreimage,
           Sp!BitcoinPreimage, SpProofs!BitcoinPreimage, Sp!LiquidPreimage, SpProofs!LiquidPreimage
  <2>3. \A u : Sp!TxFee(u) = SpProofs!TxFee(u)
    BY <2>1 DEF Sp!TxFee, SpProofs!TxFee, Sp!BitcoinTxFee, SpProofs!BitcoinTxFee,
                Sp!LiquidTxFee, SpProofs!LiquidTxFee
  <2> QED
    BY <2>1, <2>2, <2>3
<1>3. SpProofs!SpendIsReadBack => SpendIsReadBack
  BY <1>2 DEF SpProofs!SpendIsReadBack, SpendIsReadBack, Sp!SpendIsReadBack
<1> QED
  BY <1>1, <1>3, SpendsMoveAlone, PTL

LEMMA AmountsAre == PrProofs!Amounts
  BY AmountsAssumption, NoneAssumption DEF PrProofs!Amounts, PrProofs!U64

(* A quote pinned by what is sent gives the most that can be received for   *)
(* it, at every policy and every width of the integers (fee/mod.rs:28).     *)
THEOREM QuotesAreBest == Spec => []BestPrice
<1>1. PrProofs!Spec => []PrProofs!BestPrice
  BY PrProofs!QuotesAreBest, AmountsAre
<1>2. PrProofs!BestPrice <=> BestPrice
  BY DEF PrProofs!BestPrice, BestPrice, Pr!BestPrice, PrProofs!NoAnswer, Pr!NoAnswer,
         PrProofs!Quoted, Pr!Quoted, PrProofs!MinSend, Pr!MinSend,
         PrProofs!MinSendForReceive, Pr!MinSendForReceive, PrProofs!SwapFee, Pr!SwapFee,
         PrProofs!ServiceFee, Pr!ServiceFee, PrProofs!Checked, Pr!Checked,
         PrProofs!Saturating, Pr!Saturating, PrProofs!U64, Pr!U64
<1> QED
  BY <1>1, <1>2, PricesMoveAlone, PTL

(* An amount is quoted just when it is within the range a refusal tells     *)
(* (driver/accept.rs:145).                                                  *)
THEOREM RangesAreExact == Spec => []RangeIsExact
<1>1. PrProofs!Spec => []PrProofs!RangeIsExact
  BY PrProofs!RangesAreExact, AmountsAre
<1>2. PrProofs!RangeIsExact <=> RangeIsExact
  BY DEF PrProofs!RangeIsExact, RangeIsExact, Pr!RangeIsExact, PrProofs!NoAnswer, Pr!NoAnswer,
         PrProofs!Quoted, Pr!Quoted, PrProofs!MinSend, Pr!MinSend,
         PrProofs!RangeTold, Pr!RangeTold, PrProofs!MinAmount, Pr!MinAmount,
         PrProofs!Larger, Pr!Larger,
         PrProofs!MinSendForReceive, Pr!MinSendForReceive, PrProofs!SwapFee, Pr!SwapFee,
         PrProofs!ServiceFee, Pr!ServiceFee, PrProofs!Checked, Pr!Checked,
         PrProofs!Saturating, Pr!Saturating, PrProofs!U64, Pr!U64
<1> QED
  BY <1>1, <1>2, PricesMoveAlone, PTL

(* restore_all reads at most one page more than the swaps of ours that the  *)
(* server lists, whatever it serves (driver/accept.rs).                     *)
THEOREM PagingAlwaysEnds == Spec => []PagingEnds
<1>1. PgProofs!Spec => []PgProofs!PagingEnds
  BY PgProofs!PagingAlwaysEnds, PagesAssumption DEF PgProofs!Sizes, PgProofs!IsFiniteSet, IsFiniteSet
<1>2. PgProofs!PagingEnds <=> PagingEnds
  BY DEF PgProofs!PagingEnds, PagingEnds, Pg!PagingEnds,
         PgProofs!Cardinality, Pg!Cardinality
<1> QED
  BY <1>1, <1>2, PagingMovesAlone, PTL

(* restore_all over an honest server finds every swap listed as it began,   *)
(* with creations meanwhile, fewer than a page between two reads           *)
(* (driver/accept.rs:567).                                                  *)
THEOREM EverySwapIsFound == Spec => []RestoreFindsAll
<1>1. PgProofs!Spec => []PgProofs!RestoreFindsAll
  BY PgProofs!EverySwapIsFound, PagesAssumption DEF PgProofs!Sizes, PgProofs!IsFiniteSet, IsFiniteSet
<1>2. PgProofs!RestoreFindsAll <=> RestoreFindsAll
  BY DEF PgProofs!RestoreFindsAll, RestoreFindsAll, Pg!RestoreFindsAll
<1> QED
  BY <1>1, <1>2, PagingMovesAlone, PTL

(* One reconnection of the push channel is under way at a time, and none    *)
(* once stop() was called (ts-sdk api.ts, subscribe; sdk ws.rs).            *)
THEOREM OneReconnection == Spec => []OneChannel
<1>1. SiProofs!Spec => []SiProofs!OneChannel
  BY SiProofs!OneReconnection, NoneAssumption
<1>2. SiProofs!OneChannel <=> OneChannel
  BY DEF SiProofs!OneChannel, OneChannel, Si!OneChannel, SiProofs!Live, Si!Live,
         SiProofs!Cardinality, Si!Cardinality
<1> QED
  BY <1>1, <1>2, SignalsMoveAlone, PTL

(* Until stop() every id read from the socket reaches the loops in its      *)
(* order, and next() never waits while one is queued (ts-sdk api.ts,        *)
(* signals; sdk driver/mod.rs, listen).                                     *)
THEOREM IdsInOrder == Spec => []SignalsInOrder
<1>1. SiProofs!Spec => []SiProofs!SignalsInOrder
  BY SiProofs!IdsInOrder, NoneAssumption
<1>2. SiProofs!SignalsInOrder <=> SignalsInOrder
  BY DEF SiProofs!SignalsInOrder, SignalsInOrder, Si!SignalsInOrder
<1> QED
  BY <1>1, <1>2, SignalsMoveAlone, PTL

-----------------------------------------------------------------------------
(* FeeRate: an estimate counts from the now of the pass that asked for it,  *)
(* which is no later than its making, so that the cache gives it up early   *)
(* if at all.                                                               *)

AsksTyped ==
    /\ clock \in Nat
    /\ rate = None \/ rate \in [value : Estimates, at : Nat, made : Nat]
    /\ ask \in [Passes -> [at : {"idle", "asks", "reads", "answered", "given", "failed"},
                           now : Nat, value : Estimates \cup {Relay, None}, made : Nat]]
    /\ \A p \in Passes : ask[p].at = "answered" => ask[p].value \in Estimates

\* A pass took its time before now, and its answer was made after that.
AskedFirst == \A p \in Passes : /\ ask[p].now <= clock
                                /\ ask[p].at = "answered" => ask[p].now <= ask[p].made

\* What is kept counts from no later than it was made.
StampedFirst == rate # None => rate.at <= rate.made

RatesInv == AsksTyped /\ AskedFirst /\ StampedFirst /\ Fe!RateFresh

LEMMA RatesStart == Ttl \in Nat \ {0} /\ Fe!Init => RatesInv
  BY DEF Fe!Init, Fe!Idle, RatesInv, AsksTyped, AskedFirst, StampedFirst, Fe!RateFresh

(* A pass moves on: everybody else's ask is untouched, so that only what    *)
(* this one asked, and what is kept, is to be looked at.                    *)
LEMMA RatesStep == Ttl \in Nat \ {0} /\ RatesInv /\ [Fe!Next]_Fe!rateVars => RatesInv'
<1> SUFFICES ASSUME Ttl \in Nat \ {0}, RatesInv, [Fe!Next]_Fe!rateVars PROVE RatesInv'
  OBVIOUS
<1> USE DEF RatesInv, AsksTyped, AskedFirst, StampedFirst, Fe!RateFresh
<1>1. CASE Fe!Tick
  BY <1>1 DEF Fe!Tick
<1>2. ASSUME NEW p \in Passes, Fe!Start(p) PROVE RatesInv'
  <2> DEFINE asks == [Fe!Idle EXCEPT !.at = "asks", !.now = clock]
  <2>1. /\ asks.at = "asks" /\ asks.now = clock
        /\ asks \in [at : {"asks"}, now : Nat, value : {None}, made : Nat]
    BY DEF Fe!Idle
  <2> HIDE DEF asks
  <2>2. /\ ask' = [ask EXCEPT ![p] = asks]
        /\ UNCHANGED <<clock, rate>>
    BY <1>2 DEF Fe!Start, asks
  <2>3. \A q \in Passes : ask'[q] = IF q = p THEN asks ELSE ask[q]
    BY <2>2
  <2>4. AsksTyped'
    BY <2>1, <2>2, <2>3
  <2> QED
    BY <2>1, <2>2, <2>3, <2>4
<1>3. ASSUME NEW p \in Passes, Fe!FromCache(p) PROVE RatesInv'
  <2>1. /\ ask[p].now < rate.made + Ttl
        /\ rate.value \in Estimates /\ rate.made \in Nat
    BY <1>3 DEF Fe!FromCache, Fe!Cached
  <2> QED
    BY <1>3, <2>1 DEF Fe!FromCache
<1>4. ASSUME NEW p \in Passes, Fe!Request(p) PROVE RatesInv'
  BY <1>4 DEF Fe!Request
<1>5. ASSUME NEW p \in Passes, NEW value \in Estimates, Fe!Estimate(p, value) PROVE RatesInv'
  BY <1>5 DEF Fe!Estimate
<1>6. ASSUME NEW p \in Passes, Fe!Keep(p) PROVE RatesInv'
  BY <1>6 DEF Fe!Keep, Fe!Stamp
<1>7. ASSUME NEW p \in Passes, Fe!Fail(p) PROVE RatesInv'
  <2>1. CASE Fe!Fallback = None
    BY <1>7, <2>1 DEF Fe!Fail
  <2>2. CASE Fe!Fallback # None
    <3>1. Fe!Fallback = Relay
      BY <2>2 DEF Fe!Fallback
    <3> DEFINE given == [at |-> "given", now |-> ask[p].now, value |-> Relay, made |-> clock]
    <3>2. /\ ask' = [ask EXCEPT ![p] = given]
          /\ UNCHANGED <<clock, rate>>
      <4>1. ask' = [ask EXCEPT ![p] = [ask[p] EXCEPT !.at = "given", !.value = Fe!Fallback, !.made = clock]]
        BY <1>7, <2>2 DEF Fe!Fail
      <4> QED
        BY <1>7, <3>1, <4>1 DEF Fe!Fail
    <3>3. \A q \in Passes : ask'[q] = IF q = p THEN given ELSE ask[q]
      BY <3>2
    <3>4. AsksTyped'
      BY <3>2, <3>3
    <3> QED
      BY <3>2, <3>3, <3>4
  <2> QED
    BY <2>1, <2>2
<1>8. CASE UNCHANGED Fe!rateVars
  BY <1>8 DEF Fe!rateVars
<1> QED
  BY <1>1, <1>2, <1>3, <1>4, <1>5, <1>6, <1>7, <1>8 DEF Fe!Next

LEMMA RatesHold == Spec => []RatesInv
<1>1. Init => RatesInv
  BY RatesStart, TtlAssumption DEF Init
<1>2. RatesInv /\ [Next]_partsVars => RatesInv'
  <2>1. [Next]_partsVars => [Fe!Next]_Fe!rateVars
    BY DEF Next, Only, partsVars, feerateVars, Fe!rateVars
  <2> QED
    BY <2>1, RatesStep, TtlAssumption
<1> QED
  BY <1>1, <1>2, PTL DEF Spec

(* No pass decides on an estimate made fee_rate_cache_ttl or longer before  *)
(* its now, however many passes read at once, however long an answer takes  *)
(* and in whichever order they are kept (driver/mod.rs, Registered).        *)
THEOREM RatesAreFresh == Spec => []RateFresh
<1>1. RatesInv => RateFresh
  BY DEF RatesInv, RateFresh
<1> QED
  BY <1>1, RatesHold, PTL

-----------------------------------------------------------------------------
(* Terms: the clock, the deal and the server's swap.                       *)

Clocked ==
    /\ now \in Nat /\ lastBlock \in Nat
    /\ lastBlock <= now /\ now <= lastBlock + BlockTime

\* What is agreed so far, by step.
Dealt ==
    /\ deal.step \in {"none", "quoted", "asked", "created", "lost", "adopted", "refused"}
    /\ deal.step = "none" => deal = Te!NoDeal
    /\ deal.step = "quoted" =>
          /\ deal \in [step : {"quoted"}, kind : {"SwapIn", "SwapOut"}, until : Int,
                       wait : Nat \cup {None}]
    /\ deal.step \in {"asked", "created", "lost", "adopted", "refused"} =>
          \/ /\ deal \in [step : {"asked", "created", "lost", "adopted", "refused"}, kind : {"SwapIn"},
                          wait : Nat \cup {None}, expiry : Nat, started : Nat]
             /\ deal.wait # None => deal.wait >= FundingTimeout + Te!Confirm
          \/ deal \in [step : {"asked", "created", "lost", "adopted", "refused"}, kind : {"SwapOut"},
                       wait : {None}, started : Nat]
    /\ deal.step = "asked" => deal.started <= now

Served ==
    /\ deal.step \in {"none", "quoted", "asked"} => server = None
    /\ deal.step \in {"created", "lost", "adopted", "refused"} =>
          /\ server \in [kind : {"SwapIn", "SwapOut"}, signed : Nat, csv : Nat, cltv : Nat,
                         expiry : Nat, until : Nat \cup {None}, wrong : SUBSET Wrongs,
                         canceled : BOOLEAN]
          /\ server.signed <= now
          /\ (server.kind = "SwapIn" /\ server.until # None) =>
                server.signed + FundingTimeout + Te!Confirm <= server.until
          /\ deal.started <= server.signed

\* A record is what accept() makes of the server's swap, by the time of the
\* request or by that of its signature.
Accepted(r) ==
    /\ r.started \in Nat /\ r.started <= server.signed
    /\ r = Te!Accept(r.started, server)

Recorded ==
    /\ deal.step \in {"none", "quoted", "asked", "created"} =>
          record = None /\ first = None /\ restored = None /\ deposit = None
    /\ record # None => Accepted(record)
    /\ first # None => Accepted(first)
    /\ (record # None /\ first # None) => first.started <= record.started
    /\ restored = "refused" => Te!Accept(server.signed, server) = None

\* Enough time is left for a block per confirmation that lacks, and one more.
TimeLeft ==
    deposit # None =>
        /\ deposit \in 0..MinConfs
        /\ server.kind = "SwapIn"
        /\ deposit < MinConfs =>
              /\ lastBlock + (MinConfs - deposit + 1) * BlockTime <= server.expiry
              /\ server.until # None =>
                    lastBlock + (MinConfs - deposit + 1) * BlockTime <= server.until

TermsInv == Clocked /\ Dealt /\ Served /\ Recorded /\ TimeLeft

USE DEF Te!Smaller, Te!Confirm

LEMMA AcceptedIs ==
    ASSUME NEW s \in Nat,
           server.kind \in {"SwapIn", "SwapOut"}, server.expiry \in Nat,
           Te!Accept(s, server) # None
    PROVE  LET r == Te!Accept(s, server)
           IN /\ r.kind = server.kind /\ r.csv = server.csv /\ r.expiry = server.expiry
              /\ r.started = s
              /\ r.expires = IF server.kind = "SwapIn" THEN Te!DepositDeadline(s, server.expiry)
                             ELSE server.expiry
  BY DEF Te!Accept, Te!HoldInvoiceDeadline

(* Only the fields a record is made of count.                              *)
LEMMA AcceptSame ==
    ASSUME server'.kind = server.kind, server'.csv = server.csv, server'.cltv = server.cltv,
           server'.expiry = server.expiry, server'.wrong = server.wrong, NEW s
    PROVE  Te!Accept(s, server') = Te!Accept(s, server)
  BY DEF Te!Accept

LEMMA TermsStart == Te!Init => TermsInv
  BY TermsAssumption, NoneAssumption
  DEF Te!Init, TermsInv, Clocked, Dealt, Served, Recorded, TimeLeft, Te!NoDeal

LEMMA TermsStep ==
    ASSUME TermsInv, Te!Next
    PROVE  TermsInv'
<1> USE TermsAssumption, NoneAssumption
<1> USE DEF TermsInv
<1>1. ASSUME NEW side \in {"SwapIn", "SwapOut"}, NEW wait \in Waits, Te!TakeQuote(side, wait)
      PROVE  TermsInv'
  BY <1>1 DEF Te!TakeQuote, Clocked, Dealt, Served, Recorded, TimeLeft, Te!NoDeal
<1>2. ASSUME NEW expiry \in Expiries, Te!SwapIn(expiry) PROVE TermsInv'
  BY <1>2 DEF Te!SwapIn, Clocked, Dealt, Served, Recorded, TimeLeft
<1>3. CASE Te!SwapOut
  BY <1>3 DEF Te!SwapOut, Clocked, Dealt, Served, Recorded, TimeLeft
<1>4. ASSUME NEW csv \in PickedCsvs, NEW wrong \in {{}} \cup {{f} : f \in Wrongs},
             NEW cltv \in Cltvs, NEW expiry \in Expiries, Te!CreateSwap(csv, cltv, expiry, wrong)
      PROVE  TermsInv'
  <2>1. Dealt'
    BY <1>4 DEF Te!CreateSwap, Dealt
  <2>2. Served'
    BY <1>4 DEF Te!CreateSwap, Dealt, Clocked, Served
  <2> QED
    BY <1>4, <2>1, <2>2 DEF Te!CreateSwap, Clocked, Dealt, Recorded, TimeLeft
<1>5. CASE Te!AnswerLost
  BY <1>5 DEF Te!AnswerLost, Clocked, Dealt, Served, Recorded, TimeLeft
<1>6. CASE Te!Adopt
  <2> DEFINE r == Te!Accept(deal.started, server)
  <2>1. CASE r # None /\ Te!CheckHoldInvoice(r)
    <3>1. record' = r /\ first' = r /\ server' = server /\ deal' = [deal EXCEPT !.step = "adopted"]
      BY <1>6, <2>1 DEF Te!Adopt
    <3>2. Dealt' /\ Served' /\ Clocked'
      BY <1>6, <3>1 DEF Te!Adopt, Dealt, Served, Clocked
    <3>3. deal.started \in Nat /\ deal.started <= server.signed /\ r.started = deal.started
      BY <1>6, <2>1, AcceptedIs DEF Te!Adopt, Dealt, Served
    <3> QED
      BY <1>6, <3>1, <3>2, <3>3 DEF Te!Adopt, Recorded, Accepted, TimeLeft
  <2>2. CASE ~(r # None /\ Te!CheckHoldInvoice(r))
    <3>1. /\ deal' = [deal EXCEPT !.step = "refused"]
          /\ \E canceled \in BOOLEAN : server' = [server EXCEPT !.canceled = canceled]
          /\ UNCHANGED <<record, first>>
      BY <1>6, <2>2 DEF Te!Adopt
    <3>2. Dealt' /\ Served' /\ Clocked'
      BY <1>6, <3>1 DEF Te!Adopt, Dealt, Served, Clocked
    <3> QED
      BY <1>6, <3>1, <3>2 DEF Te!Adopt, Recorded, TimeLeft
  <2> QED
    BY <2>1, <2>2
<1>7. CASE Te!LoseStore
  BY <1>7 DEF Te!LoseStore, Clocked, Dealt, Served, Recorded, Accepted, TimeLeft
<1>8. ASSUME NEW genuine \in BOOLEAN, Te!Restore(genuine) PROVE TermsInv'
  <2>1. server.signed \in Nat /\ server.signed <= server.signed
    BY <1>8 DEF Te!Restore, Dealt, Served
  <2>2. record' # None => Accepted(record)'
    BY <1>8, <2>1, AcceptedIs DEF Te!Restore, Te!Restored, Accepted, Dealt, Served
  <2>3. (record' # None /\ first # None) => first.started <= record'.started
    BY <1>8, <2>1, AcceptedIs
    DEF Te!Restore, Te!Restored, Accepted, Dealt, Served, Recorded
  <2> QED
    BY <1>8, <2>2, <2>3
    DEF Te!Restore, Te!Restored, Clocked, Dealt, Served, Recorded, Accepted, TimeLeft
<1>9. CASE Te!Deposit
  <2>1. server.kind = "SwapIn" /\ record.expires = Te!DepositDeadline(record.started, server.expiry)
    BY <1>9, AcceptedIs DEF Te!Deposit, Recorded, Accepted, Dealt, Served
  <2>2. (MinConfs - 0 + 1) * BlockTime = Te!Confirm
    OBVIOUS
  <2>3. TimeLeft'
    BY <1>9, <2>1, <2>2
    DEF Te!Deposit, Recorded, Accepted, Dealt, Served, Clocked, TimeLeft, Te!DepositDeadline
  <2> QED
    BY <1>9, <2>3 DEF Te!Deposit, Clocked, Dealt, Served, Recorded, Accepted
<1>10. CASE Te!Block
  <2>1. \A k \in Int : (k + 1) * BlockTime = k * BlockTime + BlockTime /\ k * BlockTime \in Int
    OBVIOUS
  <2>2. TimeLeft'
    BY <1>10, <2>1 DEF Te!Block, Clocked, Dealt, Served, Recorded, TimeLeft
  <2> QED
    BY <1>10, <2>2 DEF Te!Block, Clocked, Dealt, Served, Recorded, Accepted
<1>11. CASE Te!Tick
  BY <1>11 DEF Te!Tick, Clocked, Dealt, Served, Recorded, Accepted, TimeLeft
<1> QED
  BY <1>1, <1>2, <1>3, <1>4, <1>5, <1>6, <1>7, <1>8, <1>9, <1>10, <1>11 DEF Te!Next

LEMMA TermsHold == Spec => []TermsInv
<1>1. Init => TermsInv
  BY TermsStart DEF Init
<1>2. TermsInv /\ [Next]_partsVars => TermsInv'
  <2> SUFFICES ASSUME TermsInv, [Next]_partsVars PROVE TermsInv'
    OBVIOUS
  <2>1. CASE Te!Next
    BY <2>1, TermsStep
  <2>2. CASE UNCHANGED termsVars
    BY <2>2 DEF termsVars, TermsInv, Clocked, Dealt, Served, Recorded, Accepted, TimeLeft
  <2> QED
    BY <2>1, <2>2 DEF Next, Only, partsVars
<1> QED
  BY <1>1, <1>2, PTL DEF Spec

(* A deposit paid while the record says it may be confirms a block's time   *)
(* before its invoice expires, and before a server that keeps to its policy *)
(* stops waiting for it (decide/mod.rs, deposit_deadline).                  *)
THEOREM DepositsConfirmInTime == Spec => []DepositConfirmsInTime
<1>1. TermsInv => DepositConfirmsInTime
  <2> SUFFICES ASSUME TermsInv, deposit # None, deposit < MinConfs
               PROVE  /\ now + BlockTime <= server.expiry
                      /\ server.until # None => now + BlockTime <= server.until
    BY DEF DepositConfirmsInTime, Te!DepositConfirmsInTime
  <2>1. 2 * BlockTime <= (MinConfs - deposit + 1) * BlockTime
    <3>1. \A i, j, k \in Nat : i <= j => i * k <= j * k
      OBVIOUS
    <3> QED
      BY <3>1, TermsAssumption DEF TermsInv, TimeLeft
  <2>2. (MinConfs - deposit + 1) * BlockTime \in Int
    BY TermsAssumption DEF TermsInv, TimeLeft
  <2> QED
    BY <2>1, <2>2, TermsAssumption, NoneAssumption
    DEF TermsInv, Clocked, Dealt, Served, Recorded, TimeLeft
<1> QED
  BY <1>1, TermsHold, PTL

(* A restore makes the record that was adopted, its deadline later by no    *)
(* more than the request took to be signed, and refuses one only if that    *)
(* was some time (driver/accept.rs, restore_signed).                        *)
THEOREM RestoreIsFaithful == Spec => []RestoreRebuilds
<1>1. TermsInv => RestoreRebuilds
  <2> SUFFICES ASSUME TermsInv, first # None PROVE RestoreRebuilds
    BY DEF RestoreRebuilds, Te!RestoreRebuilds
  <2>1. /\ server.kind \in {"SwapIn", "SwapOut"} /\ server.expiry \in Nat
        /\ server.signed \in Nat
    BY DEF TermsInv, Dealt, Served, Recorded
  <2>2. /\ Accepted(first)
        /\ record # None => Accepted(record) /\ first.started <= record.started
        /\ restored = "refused" => Te!Accept(server.signed, server) = None
    BY DEF TermsInv, Recorded
  <2>3. ASSUME record # None
        PROVE  /\ record.csv = first.csv /\ record.expiry = first.expiry
               /\ record.expires - first.expires \in 0..(server.signed - first.started)
    <3> DEFINE expires(s) == IF server.kind = "SwapIn" THEN Te!DepositDeadline(s, server.expiry)
                             ELSE server.expiry
    <3>1. /\ first.csv = server.csv /\ first.expiry = server.expiry
          /\ first.expires = expires(first.started)
      BY <2>1, <2>2, AcceptedIs DEF Accepted
    <3>2. /\ record.csv = server.csv /\ record.expiry = server.expiry
          /\ record.expires = expires(record.started)
      BY <2>1, <2>2, <2>3, AcceptedIs DEF Accepted
    <3>3. /\ first.started \in Nat /\ record.started \in Nat
          /\ first.started <= record.started /\ record.started <= server.signed
      BY <2>2, <2>3 DEF Accepted
    <3>4. (MinConfs + 1) * BlockTime \in Int
      BY TermsAssumption
    <3> QED
      BY <2>1, <3>1, <3>2, <3>3, <3>4, TermsAssumption DEF Te!DepositDeadline
  <2>4. restored = "refused" => server.signed > first.started
    BY <2>1, <2>2 DEF Accepted
  <2> QED
    BY <2>3, <2>4 DEF RestoreRebuilds, Te!RestoreRebuilds
<1> QED
  BY <1>1, TermsHold, PTL

-----------------------------------------------------------------------------
(* Report: the swap as the server has it, and what was read of it.         *)

\* The statuses of a swap that has its opening, and of one that has a preimage.
Opened == {"PayInvoice", "AwaitClaimKeyRevealMessage", "AwaitClaimTxConfirmation", "Claimed",
           "AwaitPreimageRevealed", "AwaitRefundTxConfirmation", "Refunded"}
Paid == {"AwaitClaimKeyRevealMessage", "AwaitClaimTxConfirmation", "Claimed"}

Told ==
    /\ \/ told \in [type : {"SwapIn"}, status : Re!SwapInStatuses,
                    outpoint : {"agreed", None}, knows : BOOLEAN]
       \/ told \in [type : {"SwapOut"}, status : Re!SwapOutStatuses,
                    outpoint : {"agreed", "dust", None}, knows : BOOLEAN]
    /\ told.status \in Opened => told.outpoint # None
    /\ told.status \in {"AwaitClaimInvoicePay", "OpeningTxBroadcast"} => told.outpoint = None
    /\ (told.type = "SwapIn" /\ told.status \in Paid) => told.knows

\* Only what the server knows reads as a preimage of the swap, and a fresh
\* answer is the one it would make now.
Viewed ==
    /\ view.typed # None =>
          /\ view.typed.type = told.type
          /\ view.typed.preimage = "ours" => told.type = "SwapIn" /\ told.knows
    /\ view.poll.preimage # None => told.type = "SwapIn" /\ told.knows
    /\ fresh => LET reply == Re!Blind(Re!SwapState(told))
                IN view = [typed |-> Re!Typed(reply), poll |-> Re!Poll(told.type, reply)]

LetGo ==
    /\ released /\ told.type = "SwapIn" => told.knows
    /\ released /\ told.type = "SwapOut" => told.outpoint = "agreed"

ReportInv == Told /\ Viewed /\ LetGo

Answer == [type : {"SwapIn", "SwapOut"}, status : Re!SwapInStatuses \cup Re!SwapOutStatuses,
           hash : {"ours"}, invoice : {"ours"}, preimage : {"ours", None},
           outpoint : {"agreed", "dust", None}, key : {"server", None},
           error : {"Timeout", None}, terms : {TRUE}]

LEMMA AnswerIs ==
    ASSUME Told
    PROVE  LET a == Re!Blind(Re!SwapState(told))
           IN /\ a \in Answer /\ a # None
              /\ a.type = told.type /\ a.status = told.status /\ a.outpoint = told.outpoint
              /\ a.preimage = IF told.type = "SwapIn" /\ told.knows THEN "ours" ELSE None
              /\ a.error = IF told.status = "Canceled" THEN "Timeout" ELSE None
              /\ a.key = IF \/ told.type = "SwapIn" /\ told.status = "Canceled"
                            \/ told.type = "SwapOut" /\ told.status = "Claimed"
                         THEN "server" ELSE None
<1> DEFINE s == Re!SwapState(told)
<1>1. /\ told \in [type : {"SwapIn", "SwapOut"}, status : Re!SwapInStatuses \cup Re!SwapOutStatuses,
                   outpoint : {"agreed", "dust", None}, knows : BOOLEAN]
  BY DEF Told
<1>2. /\ s.type = told.type /\ s.status = told.status /\ s.outpoint = told.outpoint
      /\ s.preimage = IF told.type = "SwapIn" /\ told.knows THEN "ours" ELSE None
      /\ s.error = IF told.status = "Canceled" THEN "Timeout" ELSE None
      /\ s.key = "server"
      /\ s \in Answer
  BY <1>1 DEF Re!SwapState, Answer
<1> HIDE DEF s
<1>3. Re!Blind(s) # None
  BY <1>1, AnswersAssumption DEF s
<1> QED
  BY <1>2, <1>3 DEF Re!Blind, Answer, s

\* What a server's answer may say instead changes no type, and makes up no preimage.
LEMMA LieIs ==
    ASSUME NEW a \in Answer, NEW f \in DOMAIN Re!Lies, NEW g \in DOMAIN Re!Lies,
           NEW v \in Re!Lies[f], NEW w \in Re!Lies[g]
    PROVE  LET b == [a EXCEPT ![f] = v, ![g] = w]
           IN b.type = a.type /\ b.preimage \in {a.preimage, "other", None}
<1> DEFINE b == [a EXCEPT ![f] = v, ![g] = w]
<1>1. /\ DOMAIN Re!Lies = {"status", "hash", "invoice", "preimage", "outpoint", "key", "error", "terms"}
      /\ Re!Lies["preimage"] = {"other", None}
  BY DEF Re!Lies
<1>2. "type" \in DOMAIN a /\ "preimage" \in DOMAIN a
  BY DEF Answer
<1>3. b["type"] = a["type"]
  BY <1>1, <1>2
<1>4. b["preimage"] = IF g = "preimage" THEN w ELSE IF f = "preimage" THEN v ELSE a["preimage"]
  <2> DEFINE c == [a EXCEPT ![f] = v]
  <2>1. /\ "preimage" \in DOMAIN c
        /\ c["preimage"] = IF f = "preimage" THEN v ELSE a["preimage"]
    BY <1>2
  <2>2. b = [c EXCEPT ![g] = w]
    OBVIOUS
  <2> HIDE DEF b, c
  <2> QED
    BY <2>1, <2>2
<1> QED
  BY <1>1, <1>3, <1>4

LEMMA ReportStart == Re!Init => ReportInv
<1> SUFFICES ASSUME Re!Init PROVE ReportInv
  OBVIOUS
<1>1. Told
  <2>1. CASE told = [type |-> "SwapIn", status |-> "AwaitOpeningTxConfirmation",
                     outpoint |-> None, knows |-> FALSE]
    BY <2>1 DEF Told, Re!SwapInStatuses, Opened, Paid
  <2>2. CASE told = [type |-> "SwapOut", status |-> "AwaitClaimInvoicePay",
                     outpoint |-> None, knows |-> FALSE]
    BY <2>2 DEF Told, Re!SwapOutStatuses, Opened, Paid
  <2> QED
    BY <2>1, <2>2 DEF Re!Init
<1>2. /\ view.typed = None /\ view.poll.preimage = None
      /\ ~fresh /\ ~released
  BY DEF Re!Init
<1> QED
  BY <1>1, <1>2 DEF ReportInv, Viewed, LetGo

LEMMA ReportStep ==
    ASSUME ReportInv, Re!Next
    PROVE  ReportInv'
<1> USE NoneAssumption
<1> USE DEF ReportInv
<1>1. ASSUME NEW to, Re!Move(to),
             \/ to \in [type : {"SwapIn"}, status : Re!SwapInStatuses,
                        outpoint : {"agreed", None}, knows : BOOLEAN]
             \/ to \in [type : {"SwapOut"}, status : Re!SwapOutStatuses,
                        outpoint : {"agreed", "dust", None}, knows : BOOLEAN],
             to.type = told.type,
             told.knows => to.knows,
             told.outpoint = "agreed" => to.outpoint = "agreed",
             to.status \in Opened => to.outpoint # None,
             to.status \in {"AwaitClaimInvoicePay", "OpeningTxBroadcast"} => to.outpoint = None,
             (to.type = "SwapIn" /\ to.status \in Paid) => to.knows
      PROVE  ReportInv'
  BY <1>1 DEF Re!Move, Told, Viewed, LetGo
<1> USE DEF Told, Opened, Paid, Re!SwapInStatuses, Re!SwapOutStatuses
<1>2. CASE Re!ConfirmDeposit
  <2> DEFINE to == [told EXCEPT !.status = "PayInvoice", !.outpoint = "agreed"]
  <2>1. Re!Move(to)
    BY <1>2 DEF Re!ConfirmDeposit
  <2> QED
    BY <1>1, <1>2, <2>1 DEF Re!ConfirmDeposit
<1>3. CASE Re!PayInvoice
  <2> DEFINE to == [told EXCEPT !.status = "AwaitClaimKeyRevealMessage", !.knows = TRUE]
  <2>1. Re!Move(to)
    BY <1>3 DEF Re!PayInvoice
  <2> QED
    BY <1>1, <1>3, <2>1 DEF Re!PayInvoice
<1>4. CASE Re!ServerClaims
  <2> DEFINE to == [told EXCEPT !.status = "AwaitClaimTxConfirmation"]
  <2>1. Re!Move(to)
    BY <1>4 DEF Re!ServerClaims
  <2> QED
    BY <1>1, <1>4, <2>1 DEF Re!ServerClaims
<1>5. CASE Re!ClaimConfirms
  <2> DEFINE to == [told EXCEPT !.status = "Claimed"]
  <2>1. Re!Move(to)
    BY <1>5 DEF Re!ClaimConfirms
  <2> QED
    BY <1>1, <1>5, <2>1 DEF Re!ClaimConfirms
<1>6. CASE Re!HoldPayment
  <2> DEFINE to == [told EXCEPT !.status = "OpeningTxBroadcast"]
  <2>1. Re!Move(to)
    BY <1>6 DEF Re!HoldPayment
  <2> QED
    BY <1>1, <1>6, <2>1 DEF Re!HoldPayment
<1>7. CASE Re!ServerRefunds
  <2> DEFINE to == [told EXCEPT !.status = "AwaitRefundTxConfirmation"]
  <2>1. Re!Move(to)
    BY <1>7 DEF Re!ServerRefunds
  <2> QED
    BY <1>1, <1>7, <2>1 DEF Re!ServerRefunds
<1>8. CASE Re!RefundConfirms
  <2> DEFINE to == [told EXCEPT !.status = "Refunded"]
  <2>1. Re!Move(to)
    BY <1>8 DEF Re!RefundConfirms
  <2> QED
    BY <1>1, <1>8, <2>1 DEF Re!RefundConfirms
<1>9. CASE Re!Cancel
  <2> DEFINE to == [told EXCEPT !.status = "Canceled"]
  <2>1. Re!Move(to)
    BY <1>9 DEF Re!Cancel
  <2> QED
    BY <1>1, <1>9, <2>1 DEF Re!Cancel
<1>10. CASE Re!Open
  <2> SUFFICES ASSUME NEW outpoint \in {"agreed", "dust"},
                      Re!Move([told EXCEPT !.status = "AwaitPreimageRevealed", !.outpoint = outpoint])
               PROVE  ReportInv'
    BY <1>10 DEF Re!Open
  <2> QED
    BY <1>1, <1>10 DEF Re!Open
<1>11. ASSUME NEW reply, Re!Take(reply), reply.type = told.type,
             reply.preimage = "ours" => told.type = "SwapIn" /\ told.knows,
             fresh' => reply = Re!Blind(Re!SwapState(told))
      PROVE  ReportInv'
  <2>1. view' = [typed |-> Re!Typed(reply), poll |-> Re!Poll(told.type, reply)] /\ UNCHANGED <<told, released>>
    BY <1>11 DEF Re!Take
  <2>2. Re!Typed(reply) \in {reply, None}
    BY DEF Re!Typed, Re!SwapIn, Re!SwapOut
  <2>3. Re!Poll(told.type, reply).preimage # None => told.type = "SwapIn" /\ told.knows
    BY <1>11 DEF Re!Poll, Re!PollPreimage
  <2>4. Viewed'
    BY <1>11, <2>1, <2>2, <2>3 DEF Viewed
  <2> QED
    BY <2>1, <2>4 DEF LetGo
<1>12. CASE Re!GetSwap
  <2> DEFINE truth == Re!Blind(Re!SwapState(told))
  <2>1. /\ truth \in Answer /\ truth.type = told.type
        /\ truth.preimage = IF told.type = "SwapIn" /\ told.knows THEN "ours" ELSE None
    BY AnswerIs
  <2>2. CASE Re!Take(truth) /\ fresh' = TRUE
    BY <1>11, <2>1, <2>2
  <2>3. CASE \E f, g \in DOMAIN Re!Lies : \E v \in Re!Lies[f], w \in Re!Lies[g] :
                Re!Take([truth EXCEPT ![f] = v, ![g] = w]) /\ fresh' = FALSE
    <3>1. PICK f \in DOMAIN Re!Lies, g \in DOMAIN Re!Lies : \E v \in Re!Lies[f], w \in Re!Lies[g] :
                Re!Take([truth EXCEPT ![f] = v, ![g] = w]) /\ fresh' = FALSE
      BY <2>3
    <3>2. PICK v \in Re!Lies[f], w \in Re!Lies[g] :
                Re!Take([truth EXCEPT ![f] = v, ![g] = w]) /\ fresh' = FALSE
      BY <3>1
    <3> DEFINE reply == [truth EXCEPT ![f] = v, ![g] = w]
    <3>3. reply.type = told.type /\ reply.preimage \in {truth.preimage, "other", None}
      BY <2>1, LieIs
    <3> HIDE DEF truth, reply
    <3>4. Re!Take(reply) /\ ~fresh'
      BY <3>2 DEF reply
    <3> QED
      BY <1>11, <2>1, <3>3, <3>4
  <2> QED
    BY <1>12, <2>2, <2>3 DEF Re!GetSwap
<1>13. CASE Re!RevealClaim
  <2>1. told.type = "SwapIn" /\ told.knows
    BY <1>13 DEF Re!RevealClaim, Re!VerifyPayment, Viewed
  <2>2. Told' /\ told'.type = told.type /\ told'.knows
    BY <1>13, <2>1 DEF Re!RevealClaim
  <2> QED
    BY <1>13, <2>1, <2>2 DEF Re!RevealClaim, Viewed, LetGo
<1>14. CASE Re!RevealPreimage
  <2>1. told.type = "SwapOut" /\ told.outpoint = "agreed"
    BY <1>14 DEF Re!RevealPreimage, Re!VerifyOpening, Viewed
  <2>2. Told' /\ told'.type = told.type /\ told'.outpoint = "agreed" /\ (told.knows => told'.knows)
    BY <1>14, <2>1 DEF Re!RevealPreimage
  <2> QED
    BY <1>14, <2>1, <2>2 DEF Re!RevealPreimage, Viewed, LetGo
<1> QED
  BY <1>2, <1>3, <1>4, <1>5, <1>6, <1>7, <1>8, <1>9, <1>10, <1>12, <1>13, <1>14 DEF Re!Next

LEMMA ReportHolds == Spec => []ReportInv
<1>1. Init => ReportInv
  BY ReportStart DEF Init
<1>2. ReportInv /\ [Next]_partsVars => ReportInv'
  <2> SUFFICES ASSUME ReportInv, [Next]_partsVars PROVE ReportInv'
    OBVIOUS
  <2>1. CASE Re!Next
    BY <2>1, ReportStep
  <2>2. CASE UNCHANGED reportVars
    <3>1. told' = told /\ view' = view /\ fresh' = fresh /\ released' = released
      BY <2>2 DEF reportVars
    <3>2. Told' /\ LetGo'
      BY <3>1 DEF ReportInv, Told, LetGo
    <3>3. Viewed'
      BY <3>1 DEF ReportInv, Viewed
    <3> QED
      BY <3>2, <3>3 DEF ReportInv
  <2> QED
    BY <2>1, <2>2 DEF Next, Only, partsVars
<1> QED
  BY <1>1, <1>2, PTL DEF Spec

(* An app that drives a swap by hand and checks what the docs ask of it     *)
(* lets its refund key go only for a paid invoice and its preimage only for *)
(* the agreed opening, whatever the answers say; and an honest answer to a  *)
(* swap that ended reads, with the key that is due (sdk swap_in.rs,         *)
(* swap_out.rs, server into_api_response).                                  *)
THEOREM AppsByHandAreSafe == Spec => []ByHandIsSafe
<1>1. ReportInv => ByHandIsSafe
  <2> SUFFICES ASSUME ReportInv PROVE ByHandIsSafe
    OBVIOUS
  <2> DEFINE reply == Re!Blind(Re!SwapState(told))
  <2>1. ASSUME fresh
        PROVE  /\ view.typed # None /\ view.poll.status = told.status
               /\ Re!Over <=> Re!RefundByKeypath(view.typed) \/ Re!ClaimByKeypath(view.typed)
               /\ Re!Over <=> view.poll.key # None
    <3>1. view = [typed |-> Re!Typed(reply), poll |-> Re!Poll(told.type, reply)]
      BY <2>1 DEF ReportInv, Viewed
    <3>2. Re!Typed(reply) = reply
      BY AnswerIs, NoneAssumption
      DEF ReportInv, Told, Opened, Paid, Answer, Re!Typed, Re!SwapIn, Re!SwapOut, Re!SwapInStatuses, Re!SwapOutStatuses
    <3>3. reply # None /\ reply.status = told.status /\ reply.type = told.type
      BY AnswerIs DEF ReportInv
    <3>4. Re!Over <=> reply.key = "server"
      BY AnswerIs, NoneAssumption DEF ReportInv, Told, Re!Over
    <3>5. Re!Poll(told.type, reply).status = told.status
      BY <3>2, <3>3 DEF Re!Poll, Re!Typed, ReportInv, Told
    <3>6. Re!Poll(told.type, reply).key # None <=> reply.key = "server"
      BY NoneAssumption DEF Re!Poll, Re!PollKey
    <3>7. Re!Over <=> Re!RefundByKeypath(reply) \/ Re!ClaimByKeypath(reply)
      BY <3>3 DEF Re!Over, Re!RefundByKeypath, Re!ClaimByKeypath, ReportInv, Told
    <3> QED
      BY <3>1, <3>2, <3>3, <3>4, <3>5, <3>6, <3>7
  <2> QED
    BY <2>1 DEF ByHandIsSafe, Re!ByHandIsSafe, ReportInv, Viewed, LetGo
<1> QED
  BY <1>1, ReportHolds, PTL

-----------------------------------------------------------------------------
(* History: the blocks, and how far a read of them came.                   *)

Mined == [tx : Txs, height : Nat]
Entries == [tx : Txs, height : Nat \cup {None}]
Reads == [at : {"idle", "pages", "bodies", "done", "outspend", "body", "height", "spend"},
          last : Txs \cup {None}, tries : Nat, got : SUBSET Entries, moves : Nat]

\* A transaction is in one block, or in the mempool.
Chained ==
    /\ blocks \in Seq(Mined) /\ height \in Nat
    /\ pool \subseteq Txs /\ lag \subseteq Txs
    /\ \A i, j \in 1..Len(blocks) : blocks[i].tx = blocks[j].tx => i = j
    /\ \A i \in 1..Len(blocks) : blocks[i].tx \notin pool

\* The read under way, and what stayed in its block since it began.
Asked ==
    /\ read \in Reads
    /\ stay \subseteq {blocks[i] : i \in 1..Len(blocks)}
    /\ known \in BOOLEAN /\ cut \in BOOLEAN

\* Of what stayed, the pages so far have all that is as new as the last one's
\* anchor, and all of them everything.
Paged ==
    ~cut =>
        /\ read.at = "pages" /\ read.last # None =>
              \E k \in 1..Len(blocks) :
                  /\ blocks[k].tx = read.last
                  /\ \A i \in k..Len(blocks) : blocks[i] \in stay => blocks[i] \in read.got
        /\ read.at \in {"bodies", "done"} => stay \subseteq read.got

\* A spend known all along is served until it is read.
SpendSeen ==
    known =>
        /\ read.at \in {"outspend", "body", "height", "spend"}
        /\ Spending \in pool \/ \E i \in 1..Len(blocks) : blocks[i].tx = Spending
        /\ read.at # "outspend" => read.got # {}

HistoryInv == Chained /\ Asked /\ Paged /\ SpendSeen

(* A page lists the newest of what lies below its anchor, or of all.        *)
LEMMA ListingIs ==
    ASSUME Chained, NEW last \in Txs \cup {None},
           NEW k \in 1..Len(blocks) + 1,
           IF last = None THEN k = Len(blocks) + 1 ELSE k <= Len(blocks) /\ blocks[k].tx = last
    PROVE  LET page == Hi!ChainListing(last)
           IN  /\ page \in Seq(Mined) /\ Len(page) = Hi!Smaller(Page, k - 1)
               /\ \A i \in 1..Len(page) : page[i] = blocks[k - i]
<1> DEFINE n      == Len(blocks)
           newest == Hi!Reverse(blocks)
           after  == IF last = None THEN newest ELSE SubSeq(newest, n - k + 2, n)
<1>1. n \in Nat /\ Page \in Nat /\ None \notin Txs
  BY HistoryAssumption, NoneAssumption DEF Chained
<1>0. IF last = None THEN k = n + 1 ELSE k \in 1..n /\ blocks[k].tx = last
  OBVIOUS
<1>2. newest \in Seq(Mined) /\ Len(newest) = n /\ \A i \in 1..n : newest[i] = blocks[n - i + 1]
  BY DEF Chained, Hi!Reverse
<1>3. last # None => /\ last \in Hi!Mined
                     /\ (CHOOSE i \in DOMAIN newest : newest[i].tx = last) = n - k + 1
  <2>1. ASSUME last # None PROVE n - k + 1 \in 1..n /\ newest[n - k + 1] = blocks[k]
    <3>1. n - k + 1 \in 1..n /\ n - (n - k + 1) + 1 = k
      BY <1>0, <1>1, <2>1
    <3> HIDE DEF newest
    <3> QED
      BY <1>2, <3>1
  <2>2. ASSUME last # None, NEW i \in 1..n, newest[i].tx = last PROVE i = n - k + 1
    <3>1. n - i + 1 \in 1..n /\ blocks[n - i + 1].tx = blocks[k].tx
      <4> HIDE DEF newest
      <4> QED
        BY <1>0, <1>1, <1>2, <2>2
    <3>2. n - i + 1 = k
      BY <1>0, <2>2, <3>1 DEF Chained
    <3> QED
      BY <1>0, <1>1, <2>2, <3>2
  <2>3. DOMAIN newest = 1..n /\ DOMAIN blocks = 1..n
    BY <1>1, <1>2 DEF Chained
  <2> HIDE DEF newest
  <2>4. last # None => last \in Hi!Mined
    BY <1>1, <2>3 DEF Hi!Mined
  <2> QED
    BY <2>1, <2>2, <2>3, <2>4
<1>4. after \in Seq(Mined) /\ Len(after) = k - 1
      /\ \A i \in 1..k - 1 : after[i] = blocks[k - i]
  <2> HIDE DEF newest
  <2>1. CASE last = None
    BY <1>0, <1>1, <1>2, <2>1
  <2>2. CASE last # None
    <3>1. /\ SubSeq(newest, n - k + 2, n) \in Seq(Mined) /\ Len(SubSeq(newest, n - k + 2, n)) = k - 1
          /\ \A i \in 1..k - 1 : SubSeq(newest, n - k + 2, n)[i] = newest[n - k + 1 + i]
      BY <1>0, <1>1, <1>2, <2>2
    <3>2. \A i \in 1..k - 1 : n - k + 1 + i \in 1..n /\ n - (n - k + 1 + i) + 1 = k - i
      BY <1>0, <1>1, <2>2
    <3> QED
      BY <1>2, <2>2, <3>1, <3>2
  <2> QED
    BY <2>1, <2>2
<1>5. Hi!ChainListing(last) = SubSeq(after, 1, Hi!Smaller(Page, Len(after)))
  <2> HIDE DEF newest
  <2>1. CASE last = None
    BY <2>1 DEF Hi!ChainListing, newest
  <2>2. CASE last # None
    <3> DEFINE place == CHOOSE i \in DOMAIN newest : newest[i].tx = last
               below == SubSeq(newest, 1 + place, Len(newest))
    <3>1. Hi!ChainListing(last) = SubSeq(below, 1, Hi!Smaller(Page, Len(below)))
      BY <1>3, <2>2, Zenon DEF Hi!ChainListing, newest
    <3>2. 1 + place = n - k + 2
      <4>1. place = n - k + 1
        BY <1>3, <2>2
      <4> HIDE DEF place
      <4> QED
        BY <1>0, <1>1, <2>2, <4>1
    <3>3. below = after
      <4>1. Len(newest) = n
        BY <1>2
      <4>2. after = SubSeq(newest, n - k + 2, n)
        BY <2>2
      <4> HIDE DEF place, after, n
      <4> QED
        BY <3>2, <4>1, <4>2
    <3> QED
      BY <3>1, <3>3, Zenon
  <2> QED
    BY <2>1, <2>2
<1> HIDE DEF after, newest
<1>6. Hi!Smaller(Page, k - 1) \in 0..k - 1
  BY <1>1 DEF Hi!Smaller
<1> QED
  BY <1>1, <1>4, <1>5, <1>6

LEMMA ListingTyped ==
    ASSUME Chained, NEW last \in Txs \cup {None}
    PROVE  Hi!ChainListing(last) \in Seq(Mined)
<1> DEFINE n == Len(blocks)
<1>1. n \in Nat /\ DOMAIN blocks = 1..n /\ None \notin Txs
  BY NoneAssumption DEF Chained
<1>2. CASE last = None
  BY <1>1, <1>2, ListingIs
<1>3. CASE last # None /\ last \in Hi!Mined
  <2>1. PICK k \in 1..n : blocks[k].tx = last
    BY <1>1, <1>3 DEF Hi!Mined
  <2> QED
    BY <1>1, <1>3, <2>1, ListingIs
<1>4. CASE last # None /\ last \notin Hi!Mined
  <2>1. Hi!ChainListing(last) = SubSeq(<<>>, 1, Hi!Smaller(Page, Len(<<>>)))
    BY <1>4, Zenon DEF Hi!ChainListing
  <2>2. Hi!Smaller(Page, Len(<<>>)) = 0
    BY HistoryAssumption DEF Hi!Smaller
  <2>3. SubSeq(<<>>, 1, 0) = <<>>
    OBVIOUS
  <2> QED
    BY <2>1, <2>2, <2>3
<1> QED
  BY <1>2, <1>3, <1>4

LEMMA ConfirmationTyped ==
    ASSUME Chained, NEW tx0 \in Txs
    PROVE  Hi!Confirmation(tx0) \in Nat \cup {None}
<1>1. CASE tx0 \in Hi!Mined
  <2>1. \E e \in Hi!Range(blocks) : e.tx = tx0
    BY <1>1 DEF Hi!Mined, Hi!Range
  <2>2. \A e \in Hi!Range(blocks) : e.height \in Nat
    <3>1. \A i \in DOMAIN blocks : blocks[i] \in Mined
      BY DEF Chained
    <3>2. \A e \in Hi!Range(blocks) : e \in Mined
      BY <3>1, Zenon DEF Hi!Range
    <3> QED
      BY <3>2 DEF Mined
  <2> DEFINE there == CHOOSE e \in Hi!Range(blocks) : e.tx = tx0
  <2>3. there \in Hi!Range(blocks)
    BY <2>1
  <2>4. Hi!Confirmation(tx0) = there.height
    BY <1>1 DEF Hi!Confirmation
  <2> HIDE DEF there
  <2> QED
    BY <2>2, <2>3, <2>4
<1> QED
  BY <1>1 DEF Hi!Confirmation

(* The chain moves: it grows, or its end gives way. What stayed and was in  *)
(* a page so far still is.                                                  *)
LEMMA ChainMoves ==
    ASSUME HistoryInv, Chained', Hi!Track(Hi!Range(blocks'), pool'),
           \A i \in 1..Len(blocks) : i <= Len(blocks') => blocks'[i] = blocks[i]
    PROVE  HistoryInv'
<1> DEFINE n == Len(blocks)
           m == Len(blocks')
<1>1. /\ n \in Nat /\ DOMAIN blocks = 1..n /\ m \in Nat /\ DOMAIN blocks' = 1..m
      /\ Hi!Range(blocks') = {blocks'[i] : i \in 1..m}
  BY DEF HistoryInv, Chained, Hi!Range
<1>2. /\ read'.at = read.at /\ read'.last = read.last /\ read'.got = read.got
      /\ read' \in Reads
  BY DEF HistoryInv, Asked, Reads, Hi!Track
<1>3. stay' = stay \cap {blocks'[i] : i \in 1..m}
  BY <1>1 DEF Hi!Track
<1>4. /\ known' = (known /\ Spending \in {e.tx : e \in Hi!Range(blocks')} \cup pool')
      /\ cut' = (cut \/ (Hi!Reading /\ read.last # None
                            /\ read.last \notin {e.tx : e \in Hi!Range(blocks')}))
  BY DEF Hi!Track
<1>5. Asked'
  BY <1>2, <1>3, <1>4 DEF HistoryInv, Asked, Reads
<1>6. Paged'
  <2> SUFFICES ASSUME ~cut' PROVE Paged'
    BY DEF Paged
  <2>1. ~cut
    BY <1>4 DEF HistoryInv, Asked, Reads
  <2>2. CASE read.at = "pages" /\ read.last # None
    <3>1. PICK k \in 1..n :
            /\ blocks[k].tx = read.last
            /\ \A i \in k..n : blocks[i] \in stay => blocks[i] \in read.got
      BY <2>1, <2>2 DEF HistoryInv, Paged
    <3>2. PICK j \in 1..m : blocks'[j].tx = read.last
      BY <1>1, <1>4, <2>2 DEF Hi!Reading
    <3>3. j = k
      <4>1. CASE j <= n
        BY <1>1, <3>1, <3>2, <4>1 DEF HistoryInv, Chained
      <4>2. CASE n < j
        <5>1. k \in 1..m /\ blocks'[k] = blocks[k]
          BY <1>1, <3>1, <3>2, <4>2
        <5> QED
          BY <1>1, <3>1, <3>2, <5>1 DEF Chained
      <4> QED
        BY <1>1, <3>1, <3>2, <4>1, <4>2
    <3>4. ASSUME NEW i \in k..m, blocks'[i] \in stay' PROVE blocks'[i] \in read.got
      <4>1. CASE i <= n
        BY <1>1, <1>3, <3>1, <3>4, <4>1
      <4>2. CASE n < i
        <5>1. PICK h \in 1..n : blocks'[i] = blocks[h]
          BY <1>3, <3>4 DEF HistoryInv, Asked, Reads
        <5>2. h \in 1..m /\ i \in 1..m /\ blocks'[h] = blocks'[i]
          BY <1>1, <3>1, <3>4, <4>2, <5>1
        <5>3. h = i
          BY <5>2 DEF Chained
        <5> QED
          BY <1>1, <4>2, <5>3
      <4> QED
        BY <1>1, <3>1, <3>4, <4>1, <4>2
    <3> QED
      BY <1>2, <2>2, <3>2, <3>3, <3>4 DEF Paged
  <2>3. CASE ~(read.at = "pages" /\ read.last # None)
    BY <1>2, <1>3, <2>1, <2>3 DEF HistoryInv, Paged
  <2> QED
    BY <2>2, <2>3
<1>7. SpendSeen'
  <2>1. known' => known /\ (Spending \in pool' \/ \E i \in 1..m : blocks'[i].tx = Spending)
    BY <1>1, <1>4
  <2> QED
    BY <1>2, <2>1 DEF HistoryInv, SpendSeen
<1> QED
  BY <1>5, <1>6, <1>7 DEF HistoryInv

LEMMA HistoryStart == Hi!Init => HistoryInv
<1> SUFFICES ASSUME Hi!Init PROVE HistoryInv
  OBVIOUS
<1>1. blocks = <<>> /\ read = Hi!NoRead /\ stay = {} /\ known = FALSE /\ cut = FALSE
      /\ height = 0 /\ pool = {} /\ lag = {}
  BY DEF Hi!Init
<1>2. Chained
  <2>1. blocks \in Seq(Mined) /\ Len(blocks) = 0
    BY <1>1
  <2> QED
    BY <1>1, <2>1 DEF Chained
<1>3. Asked
  BY <1>1 DEF Asked, Reads, Hi!NoRead
<1>4. Paged /\ SpendSeen
  BY <1>1 DEF Paged, SpendSeen, Hi!NoRead
<1> QED
  BY <1>2, <1>3, <1>4 DEF HistoryInv

(* Every step of the chain leaves a chain, and moves only its end.          *)
LEMMA EnterMoves ==
    ASSUME HistoryInv, NEW entering \in Txs, Hi!Enter(entering) PROVE HistoryInv'
<1>1. Chained'
  BY DEF HistoryInv, Chained, Hi!Enter, Hi!Mined
<1>2. Hi!Track(Hi!Range(blocks'), pool') /\ blocks' = blocks
  BY DEF Hi!Enter
<1> QED
  BY <1>1, <1>2, ChainMoves

LEMMA LeaveMoves ==
    ASSUME HistoryInv, NEW leaving \in Txs, Hi!Leave(leaving) PROVE HistoryInv'
<1>1. Chained'
  BY DEF HistoryInv, Chained, Hi!Leave
<1>2. Hi!Track(Hi!Range(blocks'), pool') /\ blocks' = blocks
  BY DEF Hi!Leave
<1> QED
  BY <1>1, <1>2, ChainMoves

LEMMA MempoolMoves ==
    ASSUME HistoryInv, Hi!MempoolUpdates PROVE HistoryInv'
<1>1. Chained'
  BY DEF HistoryInv, Chained, Hi!MempoolUpdates
<1>2. Hi!Track(Hi!Range(blocks'), pool') /\ blocks' = blocks
  BY DEF Hi!MempoolUpdates
<1> QED
  BY <1>1, <1>2, ChainMoves

LEMMA MineMoves ==
    ASSUME HistoryInv, NEW txs \in SUBSET pool, Hi!Mine(txs) PROVE HistoryInv'
<1> DEFINE n     == Len(blocks)
           count == Cardinality(txs)
<1>1. n \in Nat /\ DOMAIN blocks = 1..n /\ count \in Nat
  <2>1. IsFiniteSet(txs)
    BY HistoryAssumption, FS_Subset DEF HistoryInv, Chained
  <2> QED
    BY <2>1, FS_CardinalityType DEF HistoryInv, Chained
<1>2. Hi!Cardinality(txs) = count
  BY DEF Hi!Cardinality, Cardinality, Hi!IsFiniteSet, IsFiniteSet
<1>3. PICK order \in Hi!Bijection(1..count, txs) :
        blocks' = blocks \o [i \in 1..count |-> [tx |-> order[i], height |-> height + 1]]
  BY <1>2 DEF Hi!Mine
<1>4. order \in [1..count -> txs] /\ \A i, j \in 1..count : order[i] = order[j] => i = j
  BY DEF Hi!Bijection, Hi!Injection, Hi!Surjection, Hi!IsInjective
<1> DEFINE block == [i \in 1..count |-> [tx |-> order[i], height |-> height + 1]]
<1>5. /\ block \in Seq(Mined) /\ Len(block) = count
      /\ \A i \in 1..count : block[i].tx = order[i]
  <2>1. \A i \in 1..count : block[i] = [tx |-> order[i], height |-> height + 1]
    OBVIOUS
  <2>2. \A i \in 1..count : order[i] \in Txs /\ height + 1 \in Nat
    BY <1>4 DEF HistoryInv, Chained
  <2>3. \A i \in 1..count : block[i] \in Mined /\ block[i].tx = order[i]
    BY <2>1, <2>2 DEF Mined
  <2>4. block \in [1..count -> Mined]
    BY <2>3
  <2> QED
    BY <1>1, <2>3, <2>4
<1> HIDE DEF block
<1>6. /\ blocks' \in Seq(Mined) /\ Len(blocks') = n + count
      /\ \A i \in 1..n : blocks'[i] = blocks[i]
      /\ \A i \in n + 1..n + count : blocks'[i] = block[i - n] /\ i - n \in 1..count
  BY <1>1, <1>3, <1>5 DEF block, HistoryInv, Chained
<1>7. \A i \in n + 1..n + count : blocks'[i].tx \in txs
  BY <1>4, <1>5, <1>6
<1>8. ASSUME NEW i \in 1..n + count, NEW j \in 1..n + count, blocks'[i].tx = blocks'[j].tx
      PROVE  i = j
  <2>1. CASE i <= n /\ j <= n
    BY <1>1, <1>6, <1>8, <2>1 DEF HistoryInv, Chained
  <2>2. CASE i > n /\ j > n
    <3>1. /\ blocks'[i] = block[i - n] /\ i - n \in 1..count
          /\ blocks'[j] = block[j - n] /\ j - n \in 1..count
      BY <1>1, <1>6, <2>2
    <3>2. i - n = j - n
      BY <1>4, <1>5, <1>8, <3>1
    <3> QED
      BY <1>1, <3>2
  <2>3. CASE (i <= n /\ j > n) \/ (i > n /\ j <= n)
    <3>1. \A h \in 1..n : blocks'[h].tx \notin txs
      BY <1>6 DEF HistoryInv, Chained
    <3> QED
      BY <1>1, <1>7, <1>8, <2>3, <3>1
  <2> QED
    BY <1>1, <2>1, <2>2, <2>3
<1>9. \A i \in 1..n + count : blocks'[i].tx \notin pool'
  <2>1. pool' = pool \ txs
    BY DEF Hi!Mine
  <2>2. \A i \in 1..n : blocks'[i].tx \notin pool
    BY <1>6 DEF HistoryInv, Chained
  <2> QED
    BY <1>1, <1>7, <2>1, <2>2
<1>10. Chained'
  <2>1. height' \in Nat /\ pool' \subseteq Txs /\ lag' \subseteq Txs
    BY DEF HistoryInv, Chained, Hi!Mine
  <2> HIDE DEF n, count
  <2> QED
    BY <1>6, <1>8, <1>9, <2>1 DEF Chained
<1>11. Hi!Track(Hi!Range(blocks'), pool')
  BY DEF Hi!Mine
<1> QED
  BY <1>6, <1>10, <1>11, ChainMoves

LEMMA ReorgMoves ==
    ASSUME HistoryInv, Hi!Reorg PROVE HistoryInv'
<1> DEFINE n     == Len(blocks)
           below == {i \in DOMAIN blocks : blocks[i].height < height}
           m     == Cardinality(below)
<1>1. n \in Nat /\ DOMAIN blocks = 1..n
  BY DEF HistoryInv, Chained
<1>2. m \in 0..n
  <2>1. IsFiniteSet(1..n) /\ Cardinality(1..n) = n
    <3>1. 1 \in Int /\ n \in Int
      BY <1>1
    <3>2. /\ IsFiniteSet(1..n)
          /\ Cardinality(1..n) = IF 1 > n THEN 0 ELSE n - 1 + 1
      <4> HIDE DEF n
      <4> QED
        BY <3>1, FS_Interval
    <3> QED
      BY <1>1, <3>2
  <2>2. below \subseteq 1..n
    BY <1>1
  <2> HIDE DEF below
  <2>3. IsFiniteSet(below) /\ m <= n
    BY <2>1, <2>2, FS_Subset
  <2> QED
    BY <1>1, <2>3, FS_CardinalityType
<1>3. Hi!Cardinality(below) = m
  <2> HIDE DEF below
  <2> QED
    BY DEF Hi!Cardinality, Cardinality, Hi!IsFiniteSet, IsFiniteSet
<1>4. /\ blocks' = SubSeq(blocks, 1, m) /\ height' = height - 1 /\ height > 0 /\ lag' = {}
      /\ pool' = pool \cup {e.tx : e \in Hi!Range(blocks) \ Hi!Range(blocks')}
      /\ Hi!Track(Hi!Range(blocks'), pool')
  BY <1>3 DEF Hi!Reorg
<1> HIDE DEF m
<1>5. /\ blocks' \in Seq(Mined) /\ Len(blocks') = m
      /\ \A i \in 1..m : blocks'[i] = blocks[i]
  BY <1>1, <1>2, <1>4 DEF HistoryInv, Chained
<1>6. /\ \A e \in Hi!Range(blocks) : \E i \in 1..n : e = blocks[i]
      /\ \A i \in 1..m : blocks'[i] \in Hi!Range(blocks')
  BY <1>1, <1>5 DEF Hi!Range
<1>7. \A i \in 1..m : blocks'[i].tx \notin pool'
  <2> SUFFICES ASSUME NEW i \in 1..m, NEW e \in Hi!Range(blocks) \ Hi!Range(blocks'),
                      e.tx = blocks'[i].tx
               PROVE  FALSE
    BY <1>1, <1>2, <1>4, <1>5 DEF HistoryInv, Chained
  <2>1. PICK j \in 1..n : e = blocks[j]
    BY <1>6
  <2>2. i \in 1..n /\ blocks[i].tx = blocks[j].tx
    BY <1>1, <1>2, <1>5, <2>1
  <2>3. i = j
    BY <2>2 DEF HistoryInv, Chained
  <2> QED
    BY <1>5, <1>6, <2>1, <2>3
<1>8. pool' \subseteq Txs
  <2>1. \A i \in 1..n : blocks[i].tx \in Txs
    <3>1. \A i \in 1..n : blocks[i] \in Mined
      BY DEF HistoryInv, Chained
    <3> QED
      BY <3>1 DEF Mined
  <2>2. \A e \in Hi!Range(blocks) : e.tx \in Txs
    BY <1>6, <2>1
  <2>3. pool \subseteq Txs
    BY DEF HistoryInv, Chained
  <2> QED
    BY <1>4, <2>2, <2>3
<1>9. \A i, j \in 1..m : blocks'[i].tx = blocks'[j].tx => i = j
  BY <1>1, <1>2, <1>5 DEF HistoryInv, Chained
<1>10. Chained'
  BY <1>4, <1>5, <1>7, <1>8, <1>9 DEF HistoryInv, Chained
<1> QED
  BY <1>1, <1>2, <1>4, <1>5, <1>10, ChainMoves

(* Every step of a read keeps what is whole whole.                          *)
LEMMA BeginKeeps ==
    ASSUME HistoryInv, NEW what \in {"pages", "outspend"}, Hi!Begin(what) PROVE HistoryInv'
<1>1. blocks' = blocks /\ height' = height /\ pool' = pool /\ lag' = lag
  BY DEF Hi!Begin, Hi!chainVars
<1>2. Chained'
  BY <1>1 DEF HistoryInv, Chained
<1>3. read' = [Hi!NoRead EXCEPT !.at = what]
      /\ read'.at = what /\ read'.last = None /\ read'.got = {}
  BY DEF Hi!Begin, Hi!NoRead
<1>4. read' \in Reads
  BY DEF Hi!Begin, Hi!NoRead, Reads
<1>5. DOMAIN blocks = 1..Len(blocks)
  BY DEF HistoryInv, Chained
<1>6. stay' \subseteq {blocks[i] : i \in 1..Len(blocks)}
  BY <1>5 DEF Hi!Begin, Hi!Range
<1>7. known' \in BOOLEAN /\ cut' = FALSE
      /\ (known' => what = "outspend" /\ Spending \in Hi!Mined \cup pool)
  BY DEF Hi!Begin
<1>8. Asked'
  BY <1>1, <1>4, <1>6, <1>7 DEF Asked, Reads
<1>9. Paged'
  BY <1>3 DEF Paged
<1>10. SpendSeen'
  BY <1>1, <1>3, <1>5, <1>7 DEF SpendSeen, Hi!Mined
<1> QED
  BY <1>2, <1>8, <1>9, <1>10 DEF HistoryInv

LEMMA PageTyped ==
    ASSUME Chained, NEW last \in Txs \cup {None}, NEW page \in Hi!AddressTxs(last)
    PROVE  /\ page \subseteq Entries
           /\ Hi!Range(Hi!ChainListing(last)) \subseteq page
<1>1. PICK inPool \in IF last = None THEN Hi!PoolListings ELSE {{}} :
        page = inPool \cup Hi!Range(Hi!ChainListing(last))
  BY DEF Hi!AddressTxs
<1>2. inPool \subseteq [tx : Txs, height : {None}]
  <2>1. CASE last = None
    <3> DEFINE some0 == pool \cup lag
    <3>1. PICK some \in Hi!kSubset(Hi!Smaller(PoolCap, Hi!Cardinality(some0)), some0) :
            inPool = {[tx |-> t, height |-> None] : t \in some}
      BY <1>1, <2>1 DEF Hi!PoolListings
    <3>2. some \subseteq some0
      BY <3>1 DEF Hi!kSubset
    <3>3. some0 \subseteq Txs
      BY DEF Chained
    <3> QED
      BY <3>1, <3>2, <3>3
  <2>2. CASE last # None
    BY <1>1, <2>2
  <2> QED
    BY <2>1, <2>2
<1>3. Hi!Range(Hi!ChainListing(last)) \subseteq Mined
  <2>1. Hi!ChainListing(last) \in Seq(Mined)
    BY ListingTyped
  <2>2. \A i \in DOMAIN Hi!ChainListing(last) : Hi!ChainListing(last)[i] \in Mined
    BY <2>1
  <2> QED
    BY <2>2, Zenon DEF Hi!Range
<1> QED
  BY <1>1, <1>2, <1>3 DEF Mined, Entries

LEMMA PageKeeps ==
    ASSUME HistoryInv, Hi!ReadPage PROVE HistoryInv'
<1> DEFINE n       == Len(blocks)
           listing == Hi!ChainListing(read.last)
           m       == Len(listing)
<1>1. n \in Nat /\ DOMAIN blocks = 1..n /\ Chained /\ Page \in Nat \ {0}
      /\ read.last \in Txs \cup {None} /\ None \notin Txs
  BY HistoryAssumption, NoneAssumption DEF HistoryInv, Chained, Asked, Reads
<1>2. blocks' = blocks /\ height' = height /\ pool' = pool /\ lag' = lag
      /\ stay' = stay /\ known' = known /\ cut' = cut /\ read.at = "pages"
  BY DEF Hi!ReadPage, Hi!chainVars
<1>3. PICK page \in Hi!AddressTxs(read.last) :
        read' = [read EXCEPT !.got = @ \cup page, !.tries = 0,
                   !.last = IF listing = <<>> THEN None ELSE Hi!Last(listing).tx,
                   !.at = IF Hi!More(m) THEN "pages"
                          ELSE IF client = "bitcoin" THEN "done" ELSE "bodies"]
  BY DEF Hi!ReadPage
<1>4. listing \in Seq(Mined) /\ m \in Nat /\ DOMAIN listing = 1..m
      /\ (listing # <<>> => m \in 1..m)
  <2>1. listing \in Seq(Mined)
    BY <1>1, ListingTyped
  <2> HIDE DEF listing
  <2> QED
    BY <2>1
<1>5. page \subseteq Entries /\ Hi!Range(listing) \subseteq page
  BY <1>1, PageTyped
<1>6. \A i \in 1..m : listing[i] \in page
  BY <1>4, <1>5, Zenon DEF Hi!Range
<1> HIDE DEF listing
<1>7. Hi!Last(listing) = listing[m]
  BY DEF Hi!Last
<1>8. \A i \in 1..m : listing[i].tx \in Txs
  <2>1. \A i \in 1..m : listing[i] \in Mined
    BY <1>4
  <2> QED
    BY <2>1 DEF Mined
<1>9. /\ read'.got = read.got \cup page
      /\ read'.last = IF listing = <<>> THEN None ELSE listing[m].tx
      /\ read'.at = IF Hi!More(m) THEN "pages"
                    ELSE IF client = "bitcoin" THEN "done" ELSE "bodies"
      /\ read' \in Reads
  <2> DEFINE after == IF listing = <<>> THEN None ELSE listing[m].tx
             next  == IF Hi!More(m) THEN "pages" ELSE IF client = "bitcoin" THEN "done" ELSE "bodies"
  <2>1. after \in Txs \cup {None} /\ next \in {"pages", "bodies", "done"}
    BY <1>4, <1>8
  <2>2. read' = [read EXCEPT !.got = @ \cup page, !.tries = 0, !.last = after, !.at = next]
    BY <1>3, <1>7
  <2> HIDE DEF after, next
  <2>3. /\ read'.got = read.got \cup page /\ read'.last = after /\ read'.at = next
        /\ read' \in Reads
    BY <1>5, <2>1, <2>2 DEF HistoryInv, Asked, Reads
  <2> QED
    BY <2>3 DEF after, next
<1>10. Chained' /\ Asked' /\ SpendSeen'
  BY <1>2, <1>9 DEF HistoryInv, Chained, Asked, Reads, SpendSeen
<1>11. Paged'
  <2> SUFFICES ASSUME ~cut PROVE Paged'
    BY <1>2 DEF Paged
  <2>1. PICK k \in 1..n + 1 :
          /\ IF read.last = None THEN k = n + 1 ELSE k <= n /\ blocks[k].tx = read.last
          /\ \A i \in k..n : blocks[i] \in stay => blocks[i] \in read.got
    <3>1. CASE read.last = None
      BY <1>1, <3>1
    <3>2. CASE read.last # None
      BY <1>1, <1>2, <3>2 DEF HistoryInv, Paged
    <3> QED
      BY <3>1, <3>2
  <2>2. m = Hi!Smaller(Page, k - 1) /\ \A i \in 1..m : listing[i] = blocks[k - i]
    BY <1>1, <2>1, ListingIs DEF listing
  <2>3. m \in 0..k - 1 /\ (m < Page => m = k - 1)
    BY <1>1, <2>2 DEF Hi!Smaller
  <2>4. ASSUME NEW i \in k - m..n, blocks[i] \in stay PROVE blocks[i] \in read'.got
    <3>1. CASE i >= k
      BY <1>1, <1>9, <2>1, <2>3, <2>4, <3>1
    <3>2. CASE i < k
      <4>1. k - i \in 1..m /\ k - (k - i) = i
        BY <1>1, <2>3, <3>2
      <4> QED
        BY <1>6, <1>9, <2>2, <4>1
    <3> QED
      BY <1>1, <2>3, <3>1, <3>2
  <2>5. CASE Hi!More(m)
    <3>1. ASSUME read'.last # None
          PROVE  k - m \in 1..n /\ blocks[k - m].tx = read'.last
      <4>1. m \in 1..m
        BY <1>4, <1>9, <3>1
      <4> QED
        BY <1>1, <1>9, <2>2, <2>3, <3>1, <4>1
    <3> QED
      BY <1>2, <1>9, <2>4, <2>5, <3>1 DEF Paged
  <2>6. CASE ~Hi!More(m)
    <3>1. k - m = 1
      BY <1>1, <2>3, <2>6 DEF Hi!More
    <3>2. stay \subseteq read'.got
      BY <2>4, <3>1 DEF HistoryInv, Asked, Reads
    <3> QED
      BY <1>2, <1>9, <2>6, <3>2 DEF Paged
  <2> QED
    BY <2>5, <2>6
<1> QED
  BY <1>10, <1>11 DEF HistoryInv

LEMMA BodyKeeps ==
    ASSUME HistoryInv, Hi!ReadBody PROVE HistoryInv'
<1> DEFINE body == Hi!Min(Hi!Missing)
<1>1. blocks' = blocks /\ height' = height /\ pool' = pool /\ lag' = lag
      /\ stay' = stay /\ known' = known /\ cut' = cut /\ read.at = "bodies"
  BY DEF Hi!ReadBody, Hi!chainVars
<1>2. \/ read' = [read EXCEPT !.tries = 0]
      \/ ~Hi!Served(body) /\ read' = [read EXCEPT !.tries = 0, !.got = {e \in @ : e.tx # body}]
  BY DEF Hi!ReadBody
<1> HIDE DEF body
<1>3. PICK got1 \in SUBSET read.got :
        /\ read' = [read EXCEPT !.tries = 0, !.got = got1]
        /\ \A e \in read.got : e \in got1 \/ (~Hi!Served(body) /\ e.tx = body)
  <2>1. CASE read' = [read EXCEPT !.tries = 0]
    BY <2>1 DEF HistoryInv, Asked, Reads
  <2>2. CASE ~Hi!Served(body) /\ read' = [read EXCEPT !.tries = 0, !.got = {e \in @ : e.tx # body}]
    <3> DEFINE got0 == {e \in read.got : e.tx # body}
    <3>1. read' = [read EXCEPT !.tries = 0, !.got = got0]
      BY <2>2
    <3>2. got0 \subseteq read.got /\ \A e \in read.got : e \in got0 \/ e.tx = body
      OBVIOUS
    <3> HIDE DEF got0
    <3> QED
      BY <2>2, <3>1, <3>2
  <2> QED
    BY <1>2, <2>1, <2>2
<1>4. /\ read'.at = read.at /\ read'.got = got1
      /\ read' \in Reads
  BY <1>3 DEF HistoryInv, Asked, Reads
<1>5. \A e \in read.got : e \in read'.got \/ (~Hi!Served(body) /\ e.tx = body)
  BY <1>4, <1>3
<1>6. ASSUME NEW e \in stay, e \in read.got PROVE e \in read'.got
  <2>1. PICK i \in 1..Len(blocks) : e = blocks[i]
    BY <1>6 DEF HistoryInv, Asked, Reads
  <2>2. DOMAIN blocks = 1..Len(blocks)
    BY DEF HistoryInv, Chained
  <2>3. Hi!Served(e.tx)
    BY <2>1, <2>2 DEF Hi!Served, Hi!Mined
  <2> QED
    BY <1>5, <1>6, <2>3
<1>7. Paged'
  BY <1>1, <1>4, <1>6 DEF HistoryInv, Paged
<1> QED
  BY <1>1, <1>4, <1>7 DEF HistoryInv, Chained, Asked, Reads, SpendSeen

LEMMA SpendReadKeeps ==
    ASSUME HistoryInv, Hi!Outspend \/ Hi!SpendBody \/ Hi!SpendHeight PROVE HistoryInv'
<1> DEFINE entry == [tx |-> Spending, height |-> Hi!Confirmation(Spending)]
<1>1. blocks' = blocks /\ height' = height /\ pool' = pool /\ lag' = lag
      /\ stay' = stay /\ known' = known /\ cut' = cut
      /\ read.at \in {"outspend", "body", "height"}
  BY DEF Hi!Outspend, Hi!SpendBody, Hi!SpendHeight, Hi!chainVars
<1>2. entry \in Entries
  BY HistoryAssumption, ConfirmationTyped DEF HistoryInv, Entries
<1> HIDE DEF entry
<1>3. DOMAIN blocks = 1..Len(blocks)
  BY DEF HistoryInv, Chained
<1>4. known => Hi!Served(Spending)
  BY <1>3 DEF HistoryInv, SpendSeen, Hi!Served, Hi!Mined
<1>5. PICK at1 \in {"body", "height", "spend"}, got1 \in SUBSET Entries :
        /\ read' = [read EXCEPT !.tries = 0, !.at = at1, !.got = got1]
        /\ known => got1 # {}
  <2>1. CASE Hi!Outspend
    <3> DEFINE at0  == IF Hi!Served(Spending) THEN "body" ELSE "spend"
               got0 == IF Hi!Served(Spending) THEN {entry} ELSE {}
    <3>1. read' = [read EXCEPT !.tries = 0, !.at = at0, !.got = got0]
      BY <2>1 DEF Hi!Outspend, entry
    <3>2. at0 \in {"body", "spend"} /\ got0 \subseteq Entries
          /\ (known => got0 # {})
      BY <1>2, <1>4
    <3> HIDE DEF at0, got0
    <3> QED
      BY <3>1, <3>2
  <2>2. CASE Hi!SpendBody
    <3> DEFINE there == Hi!Served(Spending) \/ (client = "ts" /\ Spending \in bodies)
               at0   == IF there /\ client # "ts" THEN "height" ELSE "spend"
               got0  == IF there THEN read.got ELSE {}
    <3>1. read' = [read EXCEPT !.tries = 0, !.at = at0, !.got = got0]
      BY <2>2 DEF Hi!SpendBody
    <3>2. at0 \in {"height", "spend"} /\ got0 \subseteq Entries
      BY DEF HistoryInv, Asked, Reads
    <3>3. known => got0 # {}
      BY <1>4, <2>2 DEF Hi!SpendBody, HistoryInv, SpendSeen
    <3> HIDE DEF at0, got0
    <3> QED
      BY <3>1, <3>2, <3>3
  <2>3. CASE Hi!SpendHeight
    <3>1. read' = [read EXCEPT !.tries = 0, !.at = "spend", !.got = {entry}]
      BY <2>3 DEF Hi!SpendHeight, entry
    <3>2. {entry} \in SUBSET Entries /\ {entry} # {}
      BY <1>2
    <3> QED
      BY <3>1, <3>2
  <2> QED
    BY <2>1, <2>2, <2>3
<1>6. /\ read'.at = at1 /\ read'.got = got1
      /\ read' \in Reads
  BY <1>5 DEF HistoryInv, Asked, Reads
<1> QED
  BY <1>1, <1>5, <1>6 DEF HistoryInv, Chained, Asked, Reads, Paged, SpendSeen

LEMMA OtherReadKeeps ==
    ASSUME HistoryInv, Hi!EndBodies \/ Hi!Retry \/ Hi!ReadFails \/ Hi!Decide PROVE HistoryInv'
<1>1. blocks' = blocks /\ height' = height /\ pool' = pool /\ lag' = lag
  BY DEF Hi!EndBodies, Hi!Retry, Hi!ReadFails, Hi!Decide, Hi!chainVars
<1>2. Chained'
  BY <1>1 DEF HistoryInv, Chained
<1>3. CASE Hi!EndBodies
  <2>1. /\ read'.at = "done" /\ read'.got = read.got /\ read.at = "bodies"
        /\ stay' = stay /\ known' = known /\ cut' = cut
        /\ read' \in Reads
    BY <1>3 DEF HistoryInv, Asked, Reads, Hi!EndBodies
  <2> QED
    BY <1>1, <1>2, <2>1 DEF HistoryInv, Asked, Reads, Paged, SpendSeen
<1>4. CASE Hi!Retry
  <2>1. /\ read'.at = read.at /\ read'.got = read.got /\ read'.last = read.last
        /\ stay' = stay /\ known' = known /\ cut' = cut
        /\ read' \in Reads
    BY <1>4 DEF HistoryInv, Asked, Reads, Hi!Retry
  <2> QED
    BY <1>1, <1>2, <2>1 DEF HistoryInv, Asked, Reads, Paged, SpendSeen
<1>5. CASE Hi!ReadFails \/ Hi!Decide
  <2>1. read' = Hi!NoRead /\ stay' = {} /\ known' = FALSE /\ cut' = FALSE
    BY <1>5 DEF Hi!ReadFails, Hi!Decide
  <2> QED
    BY <1>1, <1>2, <2>1 DEF HistoryInv, Asked, Reads, Paged, SpendSeen, Hi!NoRead
<1> QED
  BY <1>3, <1>4, <1>5

LEMMA HistoryHolds == Spec => []HistoryInv
<1>1. Init => HistoryInv
  BY HistoryStart DEF Init
<1>2. HistoryInv /\ [Next]_partsVars => HistoryInv'
  <2> SUFFICES ASSUME HistoryInv, [Next]_partsVars PROVE HistoryInv'
    OBVIOUS
  <2>1. CASE Hi!Next
    <3>1. CASE \E t \in Txs : Hi!Enter(t) \/ Hi!Leave(t)
      BY <3>1, EnterMoves, LeaveMoves
    <3>2. CASE \E txs \in SUBSET pool : Hi!Mine(txs)
      BY <3>2, MineMoves
    <3>3. CASE \E what \in {"pages", "outspend"} : Hi!Begin(what)
      BY <3>3, BeginKeeps
    <3> QED
      BY <2>1, <3>1, <3>2, <3>3, MempoolMoves, ReorgMoves, PageKeeps, BodyKeeps,
         SpendReadKeeps, OtherReadKeeps DEF Hi!Next
  <2>2. CASE UNCHANGED historyVars
    <3>1. /\ blocks' = blocks /\ height' = height /\ pool' = pool /\ lag' = lag
          /\ read' = read /\ stay' = stay /\ known' = known /\ cut' = cut
      BY <2>2 DEF historyVars
    <3> QED
      BY <3>1 DEF HistoryInv, Chained, Asked, Reads, Paged, SpendSeen
  <2> QED
    BY <2>1, <2>2 DEF Next, Only, partsVars
<1> QED
  BY <1>1, <1>2, PTL DEF Spec

(* A history is read whole however the chain moves between its pages, and a *)
(* spend known all through the read of its output is never read as none:    *)
(* for every page size, mempool listing, order within a block, number of    *)
(* moves and of retries (core's esplora clients, ts-sdk's esplora.ts).      *)
THEOREM HistoriesAreWhole == Spec => []HistoryWhole
<1>1. HistoryInv => HistoryWhole
  BY DEF HistoryInv, Paged, SpendSeen, HistoryWhole, Hi!HistoryWhole
<1> QED
  BY <1>1, HistoryHolds, PTL
=============================================================================
