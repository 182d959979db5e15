------------------------------- MODULE Spends -------------------------------
(***************************************************************************)
(* The transactions that spend a swap script: what is worth spending, what *)
(* each path weighs and pays, how a spend in the mempool is rebuilt as the *)
(* fee estimate moves, and how a witness is read back (anyswap-core's      *)
(* script and transaction modules, the SDK's swap_script.rs and utxo.rs,   *)
(* and the broadcasting half of driver/tick.rs).                           *)
(*                                                                         *)
(* Sizes are counted, for the fee and the dust are what can go wrong: a    *)
(* script is its length, a witness the names of its items, a signature the *)
(* keys that made it. Fee rates are in tenths of a sat/vB, which the       *)
(* builders' sat/kwu holds exactly. Overflow of a sum of inputs is out of  *)
(* reach: no chain has that many sats.                                     *)
(***************************************************************************)
EXTENDS Integers, Sequences, FiniteSets, SequencesExt, Functions, FiniteSetsExt

CONSTANTS
    Values,         \* per chain, what an output may lock, in sats
    Rates,          \* per chain, the fee estimates
    MaxFeeRate,     \* per chain, ChainConfig::max_fee_rate
    Csvs,           \* the CSVs agreed
    MaxOuts,        \* bound: outputs ever under the script
    FundsPerPass,   \* FUNDS_PER_PASS
    MaxInputs,      \* MAX_INPUTS of the Liquid builders
    Dests,          \* the types of address paid to
    None

VARIABLES
    swap,   \* the side agreed: chain, side, csv and the address it pays to
    outs,   \* the outputs under its script, and those that only look so
    keys,   \* the keys in hand, and whether the preimage is out
    tx,     \* the spend in the mempool
    pass    \* what the last pass did about it, and at what rate

vars == <<swap, outs, keys, tx, pass>>

Min2(a, b) == IF a < b THEN a ELSE b
CeilDiv(a, b) == (a + b - 1) \div b

Sum(amounts) ==
    LET sum[i \in 0..Len(amounts)] == IF i = 0 THEN 0 ELSE sum[i - 1] + amounts[i]
    IN sum[Len(amounts)]

-----------------------------------------------------------------------------
(* Scripts and witnesses.                                                  *)

\* minimal_non_dust of a destination; Elements' builder only refuses zero.
DustOf == [p2pkh |-> 546, p2sh |-> 540, p2wpkh |-> 294, p2tr |-> 330]
LengthOf == [p2pkh |-> 25, p2sh |-> 23, p2wpkh |-> 22, p2tr |-> 34]
MaxDust == 546

\* push_int: OP_1 to OP_16, else the bytes of the number after their count.
PushInt(n) == IF n <= 16 THEN 1 ELSE IF n <= 127 THEN 2 ELSE IF n <= 32767 THEN 3 ELSE 4

ClaimScript == 61
RefundScript(csv) == 35 + PushInt(csv)

\* aggregate_xonly: the same whichever key comes first; and ECDH, the blinding
\* key both ends of a Liquid script derive.
Aggregate(a, b) == {a, b}
SharedKey(own, peer) == {own, peer}
BlindingKey == SharedKey("ours", "server")

ValidParameters(claim, refund, csv) == claim # refund /\ 0 < csv /\ csv <= 65535

BitcoinScript(claim, refund, csv) ==
    IF ValidParameters(claim, refund, csv)
    THEN [internal |-> Aggregate(claim, refund), claim |-> claim, refund |-> refund, csv |-> csv]
    ELSE None
LiquidScript(claim, refund, csv, blinding) ==
    IF ValidParameters(claim, refund, csv)
    THEN [internal |-> Aggregate(claim, refund), claim |-> claim, refund |-> refund, csv |-> csv,
          blinding |-> blinding]
    ELSE None

\* SwapContext::script: our key in the role the side gives it.
NewScript(terms) ==
    LET claim == IF terms.side = "Source" THEN "server" ELSE "ours"
        refund == IF terms.side = "Source" THEN "ours" ELSE "server"
    IN IF terms.chain = "Bitcoin" THEN BitcoinScript(claim, refund, terms.csv)
                                  ELSE LiquidScript(claim, refund, terms.csv, BlindingKey)

Script == NewScript(swap)

\* The items a path puts in each input's witness.
KeypathWitness == <<"signature">>
ClaimWitness   == <<"signature", "preimage", "claim_script", "control">>
CsvWitness     == <<"signature", "refund_script", "control">>

ItemSize(item, csv) ==
    CASE item = "signature"     -> 65
      [] item = "preimage"      -> 33
      [] item = "claim_script"  -> 1 + ClaimScript
      [] item = "refund_script" -> 1 + RefundScript(csv)
      [] item = "control"       -> 66

WitnessWeight(witness, csv) ==
    1 + Sum([i \in 1..Len(witness) |-> ItemSize(witness[i], csv)])

\* Weight of the signed transaction, and on Liquid the discounted one, which
\* leaves out what the confidential destination adds.
BitcoinWeight(n, witness, csv, dest) ==
    4 * (4 + 1 + 41 * n + 1 + 9 + LengthOf[dest] + 4) + 2 + n * WitnessWeight(witness, csv)
LiquidWeight(n, witness, csv, dest) ==
    4 * (4 + 1 + 1 + 1 + 4 + 41 * n + 44 + LengthOf[dest] + 44) + 4
        + n * (3 + WitnessWeight(witness, csv))

-----------------------------------------------------------------------------
(* Fees.                                                                   *)

KeypathVsize == [Bitcoin |-> 111, Liquid |-> 250]
ClaimVsize   == [Bitcoin |-> 152, Liquid |-> 250]
RefundVsize  == [Bitcoin |-> 138, Liquid |-> 250]

SatPerKwu(rate) == CeilDiv(rate * 250, 10)
BitcoinFee(weight, rate) == CeilDiv(SatPerKwu(rate) * weight, 1000)
LiquidFee(vsize, rate) == CeilDiv(vsize * rate, 10)

FeeForVsize(chain, vsize, rate) ==
    IF chain = "Bitcoin" THEN BitcoinFee(4 * vsize, rate) ELSE LiquidFee(vsize, rate)

\* Mutant: the dust of the destination is left out.
RefundThresholdNoFloor(chain, rate) == FeeForVsize(chain, RefundVsize[chain], rate)

RefundThreshold(chain, rate) ==
    FeeForVsize(chain, RefundVsize[chain], rate) + (IF chain = "Bitcoin" THEN MaxDust ELSE 0)

\* Mutant: sized by the smaller claim.
MaxClaimFeeRateByKeypath(chain, value) ==
    10 * ((IF value > MaxDust THEN value - MaxDust ELSE 0) \div KeypathVsize[chain])

\* In whole sat/vB, here in tenths.
MaxClaimFeeRate(chain, value) ==
    LET dust == IF chain = "Bitcoin" THEN MaxDust ELSE 0
    IN 10 * ((IF value > dust THEN value - dust ELSE 0) \div ClaimVsize[chain])

-----------------------------------------------------------------------------
(* The outputs of a swap.                                                  *)

\* What an output shows, explicit or unblinded: nothing when it is blinded to
\* another key.
Explicit == {}
PrevoutSecrets(out) ==
    IF out.blinded \in {Explicit, Script.blinding} THEN [asset |-> out.asset] ELSE None

ValueOf(out) ==
    IF swap.chain = "Bitcoin" THEN out.value
    ELSE IF PrevoutSecrets(out) # None /\ PrevoutSecrets(out).asset = "policy" THEN out.value
    ELSE None

\* SwapScript::outputs: those paying the script that are this swap's.
IsOurs(out) == out.pays /\ ValueOf(out) # None

\* output_at with opening_value and validate_liquid_prevout.
BitcoinOpening(out) == IF out.pays THEN out.value ELSE None
LiquidOpening(out) ==
    IF PrevoutSecrets(out) # None /\ out.pays /\ PrevoutSecrets(out).asset = "policy"
    THEN out.value ELSE None
OutputAt(out) == IF swap.chain = "Bitcoin" THEN BitcoinOpening(out) ELSE LiquidOpening(out)

Ours == {o \in DOMAIN outs : IsOurs(outs[o])}

\* economical: each output weighed on its own.
Economical(utxos, rate) ==
    {o \in utxos : ValueOf(outs[o]) > RefundThreshold(swap.chain, rate)}

-----------------------------------------------------------------------------
(* The builders.  A result is a transaction, or why there is none.         *)

Refused(why) == [refused |-> why]
Built(result) == "refused" \notin DOMAIN result

TotalOf(utxos) == Sum([i \in 1..Len(utxos) |-> outs[utxos[i]].value])

\* A signature commits to the inputs, the output and the leaf it opens.
Sighash(tx0, leaf) == <<tx0.utxos, tx0.sequence, tx0.value, leaf>>
Sign(keys0, tx0, leaf) == [by |-> keys0, over |-> Sighash(tx0, leaf)]

Skeleton(utxos, fee, sequence) ==
    [utxos |-> utxos, sequence |-> sequence, fee |-> fee, value |-> TotalOf(utxos) - fee,
     dest |-> swap.dest]

Signed(tx0, witness, by, leaf, weight) ==
    IF Built(tx0)
    THEN [utxos |-> tx0.utxos, sequence |-> tx0.sequence, fee |-> tx0.fee, value |-> tx0.value,
          dest |-> tx0.dest, witness |-> witness, signature |-> Sign(by, tx0, leaf),
          weight |-> weight]
    ELSE tx0

\* sign_keypath: both keys in one session, under the key of the script.
SignKeypath(a, b) == Aggregate(a, b)

BitcoinTx(utxos, fee, sequence) ==
    IF utxos = <<>> THEN Refused("NoInputs")
    ELSE IF ~IsInjective(utxos) THEN Refused("DuplicateInput")
    ELSE IF TotalOf(utxos) < fee THEN Refused("InsufficientValue")
    ELSE IF TotalOf(utxos) - fee < DustOf[swap.dest] THEN Refused("DustOutput")
    ELSE Skeleton(utxos, fee, sequence)

BitcoinSigned(utxos, fee, sequence, witness, by, leaf) ==
    Signed(BitcoinTx(utxos, fee, sequence), witness, by, leaf,
           BitcoinWeight(Len(utxos), witness, swap.csv, swap.dest))

\* build_with_fee: built with no fee it is weighed, and built again with the
\* fee of that weight.
BitcoinBuildFee(tried, rate) == IF Built(tried) THEN BitcoinFee(tried.weight, rate) ELSE 0

BitcoinKeypath(utxos, claim, refund, rate) ==
    LET make(fee) == BitcoinSigned(utxos, fee, 0, KeypathWitness, SignKeypath(claim, refund), "key")
    IN make(BitcoinBuildFee(make(0), rate))
BitcoinClaim(utxos, claim, rate) ==
    LET make(fee) == BitcoinSigned(utxos, fee, 0, ClaimWitness, {claim}, "claim")
    IN make(BitcoinBuildFee(make(0), rate))
BitcoinRefund(utxos, refund, rate) ==
    LET make(fee) == BitcoinSigned(utxos, fee, Script.csv, CsvWitness, {refund}, "refund")
    IN make(BitcoinBuildFee(make(0), rate))

\* validate_prevout, and resolve_inputs over the batch.
ValidPrevout(out) == LiquidOpening(out) # None
LiquidInputs(utxos) ==
    IF utxos = <<>> THEN Refused("NoInputs")
    ELSE IF Len(utxos) > MaxInputs THEN Refused("TooManyInputs")
    ELSE IF ~IsInjective(utxos) THEN Refused("DuplicateInput")
    ELSE IF \E o \in Range(utxos) : ~ValidPrevout(outs[o]) THEN Refused("InvalidPrevout")
    ELSE [inputs |-> utxos]

LiquidTx(utxos, fee, sequence) ==
    CASE TotalOf(utxos) < fee -> Refused("InsufficientValue")
      [] TotalOf(utxos) = fee -> Refused("DustOutput")
      [] OTHER                -> Skeleton(utxos, fee, sequence)

LiquidSigned(utxos, fee, sequence, witness, by, leaf) ==
    IF ~Built(LiquidInputs(utxos)) THEN LiquidInputs(utxos)
    ELSE Signed(LiquidTx(utxos, fee, sequence), witness, by, leaf,
                LiquidWeight(Len(utxos), witness, swap.csv, swap.dest))

LiquidBuildFee(tried, rate) ==
    IF Built(tried) THEN LiquidFee(CeilDiv(tried.weight, 4), rate) ELSE 0
Paid(made, rate) ==
    IF Built(made) => made.fee >= LiquidBuildFee(made, rate) THEN made ELSE Refused("InsufficientFee")

\* validate_final_transaction.
LiquidFinal(made, utxos, sequence, items) ==
    IF Built(made) =>
         /\ made.utxos = utxos /\ made.sequence = sequence /\ Len(made.witness) = items
         /\ made.dest = swap.dest /\ made.value > 0 /\ made.value + made.fee = TotalOf(utxos)
    THEN made ELSE Refused("InvalidLiquidTransaction")

LiquidKeypath(utxos, claim, refund, rate) ==
    LET make(fee) == LiquidSigned(utxos, fee, 0, KeypathWitness, SignKeypath(claim, refund), "key")
    IN LiquidFinal(Paid(make(LiquidBuildFee(make(0), rate)), rate), utxos, 0, 1)
LiquidClaim(utxos, claim, rate) ==
    LET make(fee) == LiquidSigned(utxos, fee, 0, ClaimWitness, {claim}, "claim")
    IN LiquidFinal(Paid(make(LiquidBuildFee(make(0), rate)), rate), utxos, 0, 4)
LiquidRefund(utxos, refund, rate) ==
    LET make(fee) == LiquidSigned(utxos, fee, Script.csv, CsvWitness, {refund}, "refund")
    IN LiquidFinal(Paid(make(LiquidBuildFee(make(0), rate)), rate), utxos, Script.csv, 3)

SpendByKeypath(utxos, claim, refund, rate) ==
    IF swap.chain = "Bitcoin" THEN BitcoinKeypath(utxos, claim, refund, rate)
                              ELSE LiquidKeypath(utxos, claim, refund, rate)
ClaimByPreimage(utxos, claim, rate) ==
    IF swap.chain = "Bitcoin" THEN BitcoinClaim(utxos, claim, rate)
                              ELSE LiquidClaim(utxos, claim, rate)
RefundByCsv(utxos, refund, rate) ==
    IF swap.chain = "Bitcoin" THEN BitcoinRefund(utxos, refund, rate)
                              ELSE LiquidRefund(utxos, refund, rate)

-----------------------------------------------------------------------------
(* Reading a spend back.                                                   *)

\* Mutant: the annex is counted as an item.
WithoutAnnexKept(witness) == witness

WithoutAnnex(witness) ==
    IF Len(witness) > 1 /\ Last(witness) = "annex" THEN Front(witness) ELSE witness

\* SwapScript::spend_path.
SpendPath(witness) ==
    LET items == WithoutAnnex(witness)
    IN CASE Len(items) = 1                                   -> "Keypath"
         [] Len(items) = 3 /\ items[2] = "refund_script"     -> "Csv"
         [] Len(items) = 4 /\ items[3] = "claim_script"
              /\ items[2] = "preimage"                       -> "Preimage"
         [] OTHER                                            -> None

\* extract_preimage_at: the item a claim has second, if it opens the hash.
BitcoinPreimage(witness) == Len(witness) > 1 /\ witness[2] = "preimage"
LiquidPreimage(witness) == Len(witness) > 1 /\ witness[2] = "preimage"
ExtractPreimage(witness) ==
    IF swap.chain = "Bitcoin" THEN BitcoinPreimage(witness) ELSE LiquidPreimage(witness)

\* Tx::fee: on Bitcoin what the inputs carry over the output, on Liquid the
\* explicit fee output.
BitcoinTxFee(spend) == TotalOf(spend.utxos) - spend.value
LiquidTxFee(spend) == spend.fee
TxFee(spend) == IF swap.chain = "Bitcoin" THEN BitcoinTxFee(spend) ELSE LiquidTxFee(spend)

\* The network's side of a spend: its script opens, and a replacement pays
\* more, in all and by size.
Opens(spend) ==
    LET signed(leaf) == spend.signature.over = Sighash(spend, leaf)
    IN CASE Len(spend.witness) = 1 -> signed("key") /\ spend.signature.by = Script.internal
         [] "refund_script" \in Range(spend.witness) ->
               /\ signed("refund") /\ spend.signature.by = {Script.refund}
               /\ spend.sequence = Script.csv
         [] OTHER -> signed("claim") /\ spend.signature.by = {Script.claim}

Vsize(spend) == CeilDiv(spend.weight, 4)
Accepts(spend) ==
    /\ Opens(spend)
    /\ tx # None =>
        /\ spend.fee > tx.fee
        /\ spend.fee * Vsize(tx) > tx.fee * Vsize(spend)

-----------------------------------------------------------------------------
SentByUs == "ours" \in tx.signature.by

Idle == [did |-> "nothing", rate |-> 0]

Init ==
    /\ swap = None
    /\ outs = <<>>
    /\ keys = {}
    /\ tx = None
    /\ pass = Idle

\* accept(): a side is agreed, with where its money goes.
Agree(terms) ==
    /\ swap = None
    /\ NewScript(terms) # None
    /\ swap' = terms
    /\ keys' = {"ours"}
    /\ UNCHANGED <<outs, tx, pass>>

\* The server funds a claim, or the user or anyone a deposit.
Fund(out) ==
    /\ swap # None /\ tx = None /\ pass = Idle
    /\ Len(outs) < (IF swap.side = "Dest" THEN 1 ELSE MaxOuts)
    /\ swap.side = "Dest" => OutputAt(out) # None
    /\ outs' = Append(outs, out)
    /\ UNCHANGED <<swap, keys, tx, pass>>

\* The server reveals its key, the preimage is sent, and a lost store is
\* restored without either.
RevealKey ==
    /\ swap # None
    /\ keys' = keys \cup {"server"}
    /\ UNCHANGED <<swap, outs, tx, pass>>

SendPreimage ==
    /\ swap # None /\ swap.side = "Dest" /\ outs # <<>>
    /\ keys' = keys \cup {"preimage"}
    /\ UNCHANGED <<swap, outs, tx, pass>>

Restore ==
    /\ swap # None
    /\ keys' = {"ours"}
    /\ UNCHANGED <<swap, outs, tx, pass>>

\* The server spends by its own path, with an annex or without.
ServerSpends(annex) ==
    /\ swap # None /\ tx = None /\ Ours # {}
    /\ LET o == <<Min(Ours)>>
           spend == IF swap.side = "Source" THEN ClaimByPreimage(o, "server", Min(Rates[swap.chain]))
                                            ELSE RefundByCsv(o, "server", Min(Rates[swap.chain]))
       IN /\ Built(spend)
          /\ tx' = [spend EXCEPT !.witness = IF annex THEN Append(@, "annex") ELSE @]
    /\ pass' = Idle
    /\ UNCHANGED <<swap, outs, keys>>

\* Driver::spend's and refund_funds' broadcast: a refused replacement leaves
\* the spend it replaces.
Broadcast(result, rate) ==
    LET accepted == Built(result) /\ Accepts(result)
    IN /\ tx' = IF accepted THEN result ELSE tx
       /\ pass' = [did |-> IF ~Built(result) THEN "failed" ELSE IF accepted THEN "sent"
                           ELSE "refused",
                   rate |-> rate]
       /\ UNCHANGED <<swap, outs, keys>>

\* The funds worth refunding, the most valuable first.
Before(a, b) == outs[a].value > outs[b].value \/ (outs[a].value = outs[b].value /\ a < b)
Sorted(utxos) ==
    {s \in SetToSeqs(utxos) : \A i, j \in 1..Len(s) : i < j => Before(s[i], s[j])}
Batches(rate) ==
    {SubSeq(s, 1, Min2(FundsPerPass, Len(s))) : s \in Sorted(Economical(Ours, rate))}

\* Mutant: a rebuild takes the keypath as soon as the key is in hand.
RefundPathByKey(replaces) == IF "server" \notin keys THEN "Csv" ELSE "Keypath"

RefundPath(replaces) ==
    IF replaces = "Csv" \/ "server" \notin keys THEN "Csv" ELSE "Keypath"

\* refund_funds: the refund left in the mempool over its own funds, else the
\* funds the pass found refundable.
Refund(estimate) ==
    /\ swap # None /\ swap.side = "Source"
    /\ tx # None => SentByUs
    /\ LET rate == Min2(estimate, MaxFeeRate[swap.chain])
           path == RefundPath(IF tx # None THEN SpendPath(tx.witness) ELSE None)
       IN \E utxos \in IF tx # None THEN {tx.utxos} ELSE Batches(rate) :
             /\ utxos # <<>>
             /\ Broadcast(IF path = "Csv" THEN RefundByCsv(utxos, "ours", rate)
                          ELSE SpendByKeypath(utxos, "server", "ours", rate), rate)

\* claim, then Driver::spend: the path and the rate of a claim.
ClaimPath(pending) ==
    IF "server" \in keys /\ pending \in {None, "Keypath"} THEN "Keypath"
    ELSE IF "preimage" \in keys \/ pending \in {"Keypath", "Preimage"} THEN "Preimage"
    ELSE IF "server" \in keys THEN "Keypath"
    ELSE None
ClaimRate(estimate, pending, value) ==
    Min2(IF pending = "Csv" THEN MaxFeeRate[swap.chain]
                            ELSE Min2(estimate, MaxFeeRate[swap.chain]),
         MaxClaimFeeRate(swap.chain, value))

Claim(estimate) ==
    /\ swap # None /\ swap.side = "Dest" /\ outs # <<>>
    /\ LET pending == IF tx = None THEN None ELSE SpendPath(tx.witness)
           rate == ClaimRate(estimate, pending, outs[1].value)
       IN /\ ClaimPath(pending) # None
          /\ Broadcast(IF ClaimPath(pending) = "Keypath" THEN SpendByKeypath(<<1>>, "ours", "server", rate)
                       ELSE ClaimByPreimage(<<1>>, "ours", rate), rate)

Chains == {"Bitcoin", "Liquid"}
\* What the chain may show there: this swap's outputs, and one of the largest
\* value that is odd in one way.
OutSet(chain) ==
    LET good(v) == [pays |-> TRUE, asset |-> "policy", blinded |-> BlindingKey, value |-> v]
        most == good(Max(Values[chain]))
    IN {good(v) : v \in Values[chain]}
       \cup {[most EXCEPT !.pays = FALSE]}
       \cup IF chain = "Bitcoin" THEN {} ELSE
               {[most EXCEPT !.asset = "other"], [most EXCEPT !.blinded = Explicit],
                [most EXCEPT !.blinded = SharedKey("ours", "another")]}

Next ==
    \/ \E terms \in [chain : Chains, side : {"Source", "Dest"}, csv : Csvs, dest : Dests] :
          Agree(terms)
    \/ swap # None /\ \E out \in OutSet(swap.chain) : Fund(out)
    \/ RevealKey \/ SendPreimage \/ Restore
    \/ \E annex \in BOOLEAN : ServerSpends(annex)
    \/ swap # None /\ \E estimate \in Rates[swap.chain] : Refund(estimate)
    \/ swap # None /\ \E estimate \in Rates[swap.chain] : Claim(estimate)

Spec == Init /\ [][Next]_vars

-----------------------------------------------------------------------------
(* Properties.                                                             *)

\* What partition_economical kept builds and opens at the rate it was weighed
\* at, on either path, in any batch and to any address: the threshold of one
\* output covers its part of a batch, the dust floor and the longer path, and
\* `outputs` keeps nothing the builders would refuse.
RefundsGoOut == [][ (swap # None /\ swap.side = "Source" /\ tx = None) =>
                        pass'.did \notin {"failed", "refused"} ]_vars

WorthDust == swap.chain = "Bitcoin" => outs[1].value >= MaxDust

\* A claim at the ceiling max_claim_fee_rate gives builds on the preimage path
\* and on the keypath, to any address, whatever the estimate, as long as the
\* opening is worth the dust floor.
ClaimsAlwaysBuild ==
    (swap # None /\ swap.side = "Dest" /\ outs # <<>> /\ WorthDust) => pass.did # "failed"

\* A spend of ours in the mempool follows the estimate up: once a pass
\* rebuilds it, it pays at least that pass's rate for its size, to the vbyte
\* it is rounded by, unless it cannot afford to. A refund that changed path, or
\* a claim that fell back to the smaller keypath, would be refused for as long
\* as it paid less in all.
SpendKeepsUp ==
    (tx # None /\ SentByUs /\ pass.did # "failed") =>
        10 * tx.fee >= (Vsize(tx) - 1) * pass.rate

\* A spend in the mempool is read as what it is: by both keys or by the leaf it
\* opens, annex or not, with the fee it pays, and the preimage is found in a
\* claim by it and nowhere else; what is read decides the path of a rebuild and
\* what the user is told a refund cost.
SpendIsReadBack ==
    tx # None =>
        /\ SpendPath(tx.witness) = IF Cardinality(tx.signature.by) = 2 THEN "Keypath"
                                   ELSE IF Script.refund \in tx.signature.by THEN "Csv"
                                   ELSE "Preimage"
        /\ ExtractPreimage(tx.witness) <=> SpendPath(tx.witness) = "Preimage"
        /\ TxFee(tx) = tx.fee /\ TotalOf(tx.utxos) = tx.value + tx.fee
=============================================================================
