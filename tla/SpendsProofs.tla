---------------------------- MODULE SpendsProofs ----------------------------
(***************************************************************************)
(* Theorems about Spends, for any amounts, fee rates, csvs and addresses:  *)
(* a refund batch that was weighed goes out, a claim builds at its         *)
(* ceiling, a spend of ours follows the fee estimate up, and a spend in    *)
(* the mempool is read back as what it is.                                 *)
(*                                                                         *)
(* A spend of a path has a weight that is known but for the csv and the    *)
(* address (Weigh, and the bounds below it): no path of a refund weighs    *)
(* more per input than RefundVsize says, no path of a claim more than      *)
(* ClaimVsize. So n times the threshold of an output covers the fee of a   *)
(* batch of n and the dust of its address, at either path and in either    *)
(* round of a builder, and what partition_economical kept is enough for    *)
(* what the builders ask. The invariant says of the spend in the mempool   *)
(* that it is one of a path, with its witness, its signatures and its      *)
(* weight, and pays what it spends but its fee (Spent); a refused          *)
(* replacement paid no more than it for a size that is no smaller, or no   *)
(* more by size, so that the spend it leaves keeps up too.                 *)
(***************************************************************************)
EXTENDS Spends, FiniteSetTheorems, WellFoundedInduction, TLAPS

-----------------------------------------------------------------------------
(* Sums.                                                                   *)

LEMMA SmallestNat ==
    ASSUME NEW S \in SUBSET Nat, S # {}
    PROVE  \E n \in S : \A m \in S : n <= m
<1> DEFINE R == {ss \in Nat \X Nat : ss[1] < ss[2]}
<1>1. IsWellFoundedOn(R, Nat)
  BY NatLessThanWellFounded DEF OpToRel
<1>2. \A n, m \in Nat : n < m => <<n, m>> \in R
  OBVIOUS
<1> HIDE DEF R
<1>3. PICK n \in S : \A m \in S : <<m, n>> \notin R
  BY <1>1, WFMin
<1>4. ASSUME NEW m \in S PROVE n <= m
  <2>1. n \in Nat /\ m \in Nat /\ ~(m < n)
    BY <1>2, <1>3
  <2> QED
    BY <2>1
<1> QED
  BY <1>4

(* A step of the sum, the sum so far being there.                          *)
LEMMA SumSoFar ==
    ASSUME NEW amounts \in Seq(Nat)
    PROVE  \A n \in 0..Len(amounts) :
              \E s : s = [i \in 0..n |-> IF i = 0 THEN 0 ELSE s[i - 1] + amounts[i]]
<1> DEFINE Fits(s, n) == s = [i \in 0..n |-> IF i = 0 THEN 0 ELSE s[i - 1] + amounts[i]]
           Without == {n \in 0..Len(amounts) : ~ \E s : Fits(s, n)}
<1>1. SUFFICES ASSUME Without # {} PROVE FALSE
  OBVIOUS
<1>2. PICK n \in Without : \A m \in Without : n <= m
  <2>1. Without \in SUBSET Nat
    OBVIOUS
  <2> HIDE DEF Without
  <2> QED
    BY <1>1, <2>1, SmallestNat
<1>3. n \in 0..Len(amounts) /\ ~ \E s : Fits(s, n)
  OBVIOUS
<1>4. n # 0
  <2>1. Fits([i \in 0..0 |-> 0], 0)
    OBVIOUS
  <2> HIDE DEF Fits
  <2> QED
    BY <1>3, <2>1
<1>5. n - 1 \in 0..Len(amounts) /\ n - 1 < n
  BY <1>3, <1>4
<1>6. \E s : Fits(s, n - 1)
  <2> HIDE DEF Fits
  <2>1. n - 1 \notin Without
    <3>1. ~(n <= n - 1)
      BY <1>3
    <3> QED
      BY <1>2, <3>1
  <2> QED
    BY <1>5, <2>1
<1>7. PICK s : Fits(s, n - 1)
  BY <1>6
<1> DEFINE next == [i \in 0..n |-> IF i = n THEN s[n - 1] + amounts[n] ELSE s[i]]
<1>8. ASSUME NEW i \in 0..n
      PROVE  next[i] = IF i = 0 THEN 0 ELSE next[i - 1] + amounts[i]
  <2>1. CASE i = n
    <3>1. n - 1 \in 0..n /\ n - 1 # n
      BY <1>3, <1>4
    <3>2. next[n - 1] = s[n - 1] /\ next[n] = s[n - 1] + amounts[n]
      BY <1>3, <3>1
    <3> HIDE DEF next
    <3> QED
      BY <1>4, <2>1, <3>2
  <2>2. CASE i # n
    <3>1. i \in 0..n - 1
      BY <1>3, <2>2
    <3>2. s[i] = IF i = 0 THEN 0 ELSE s[i - 1] + amounts[i]
      BY <1>7, <3>1
    <3>3. i # 0 => i - 1 \in 0..n /\ i - 1 # n
      BY <1>3, <3>1
    <3>4. next[i] = s[i] /\ (i # 0 => next[i - 1] = s[i - 1])
      BY <2>2, <3>3
    <3> HIDE DEF next
    <3> QED
      BY <3>2, <3>4
  <2> QED
    BY <2>1, <2>2
<1>9. Fits(next, n)
  BY <1>8
<1> HIDE DEF Fits
<1> QED
  BY <1>3, <1>9

(* The sums of the beginnings of a sequence.                               *)
LEMMA SumIs ==
    ASSUME NEW amounts \in Seq(Nat)
    PROVE  \E s : /\ Sum(amounts) = s[Len(amounts)] /\ s[0] = 0
                  /\ \A i \in 1..Len(amounts) : s[i] = s[i - 1] + amounts[i]
                  /\ \A i \in 0..Len(amounts) : s[i] \in Nat
<1> DEFINE n == Len(amounts)
           Fits(s) == s = [i \in 0..n |-> IF i = 0 THEN 0 ELSE s[i - 1] + amounts[i]]
           sum == CHOOSE s : Fits(s)
<1>1. n \in Nat /\ \A i \in 1..n : amounts[i] \in Nat
  OBVIOUS
<1>2. \E s : Fits(s)
  BY <1>1, SumSoFar
<1>3. Fits(sum)
  <2> HIDE DEF Fits
  <2> QED
    BY <1>2
<1>4. Sum(amounts) = sum[n]
  BY DEF Sum
<1> HIDE DEF sum
<1>5. sum[0] = 0 /\ \A i \in 1..n : sum[i] = sum[i - 1] + amounts[i]
  BY <1>1, <1>3
<1> DEFINE Off == {i \in 0..n : sum[i] \notin Nat}
<1>6. Off = {}
  <2>1. SUFFICES ASSUME Off # {} PROVE FALSE
    OBVIOUS
  <2>2. Off \in SUBSET Nat
    OBVIOUS
  <2>3. PICK i \in Off : \A j \in Off : i <= j
    <3> HIDE DEF Off
    <3> QED
      BY <2>1, <2>2, SmallestNat
  <2>4. i # 0
    BY <1>5
  <2>5. i - 1 \in 0..n /\ i \in 1..n /\ ~(i <= i - 1)
    BY <1>1, <2>4
  <2>6. sum[i - 1] \in Nat
    BY <2>3, <2>5
  <2> QED
    BY <1>1, <1>5, <2>5, <2>6
<1> QED
  BY <1>4, <1>5, <1>6

LEMMA SumTyped ==
    ASSUME NEW amounts \in Seq(Nat)
    PROVE  Sum(amounts) \in Nat
<1>1. Len(amounts) \in 0..Len(amounts)
  OBVIOUS
<1> QED
  BY <1>1, SumIs

LEMMA SumAtLeast ==
    ASSUME NEW amounts \in Seq(Nat), NEW least \in Nat,
           \A i \in 1..Len(amounts) : amounts[i] >= least
    PROVE  Sum(amounts) >= Len(amounts) * least
<1> DEFINE n == Len(amounts)
<1>1. PICK s : /\ Sum(amounts) = s[n] /\ s[0] = 0
               /\ \A i \in 1..n : s[i] = s[i - 1] + amounts[i]
               /\ \A i \in 0..n : s[i] \in Nat
  BY SumIs
<1>2. n \in Nat /\ \A i \in 1..n : amounts[i] \in Nat
  OBVIOUS
<1> HIDE DEF n
<1> DEFINE Short == {i \in 0..n : ~(s[i] >= i * least)}
<1>3. Short = {}
  <2>1. SUFFICES ASSUME Short # {} PROVE FALSE
    OBVIOUS
  <2>2. Short \in SUBSET Nat
    OBVIOUS
  <2>3. PICK i \in Short : \A j \in Short : i <= j
    <3> HIDE DEF Short
    <3> QED
      BY <2>1, <2>2, SmallestNat
  <2>4. i # 0
    BY <1>1
  <2>5. i - 1 \in 0..n /\ i \in 1..n /\ ~(i <= i - 1)
    BY <1>2, <2>4
  <2>6. s[i - 1] >= (i - 1) * least
    BY <2>3, <2>5
  <2>7. (i - 1) * least + least = i * least
    BY <2>5
  <2>8. s[i] >= i * least
    <3>1. s[i] = s[i - 1] + amounts[i] /\ amounts[i] >= least /\ amounts[i] \in Nat /\ s[i - 1] \in Nat
      BY <1>1, <1>2, <2>5 DEF n
    <3>2. (i - 1) * least \in Int /\ i * least \in Int
      BY <2>5
    <3> QED
      BY <2>6, <2>7, <3>1, <3>2
  <2> QED
    BY <2>8
<1>4. n \in 0..n
  BY <1>2
<1> QED
  BY <1>1, <1>3, <1>4 DEF n

-----------------------------------------------------------------------------
(* Sizes.                                                                  *)

LEMMA PushIs == ASSUME NEW csv \in Nat PROVE PushInt(csv) \in 1..4
  BY DEF PushInt

LEMMA WitnessSizes ==
    ASSUME NEW csv \in Nat
    PROVE  /\ WitnessWeight(KeypathWitness, csv) = 66
           /\ WitnessWeight(ClaimWitness, csv) = 227
           /\ WitnessWeight(CsvWitness, csv) = 168 + PushInt(csv)
<1> DEFINE Sizes(witness) == [i \in 1..Len(witness) |-> ItemSize(witness[i], csv)]
<1>1. PushInt(csv) \in Nat
  BY PushIs
<1>2. /\ ItemSize("signature", csv) = 65 /\ ItemSize("preimage", csv) = 33
      /\ ItemSize("claim_script", csv) = 62 /\ ItemSize("control", csv) = 66
      /\ ItemSize("refund_script", csv) = 36 + PushInt(csv)
  BY <1>1 DEF ItemSize, ClaimScript, RefundScript
<1>3. WitnessWeight(KeypathWitness, csv) = 66
  <2> DEFINE f == Sizes(KeypathWitness)
  <2>1. f \in Seq(Nat) /\ Len(f) = 1 /\ f[1] = 65
    BY <1>2 DEF KeypathWitness
  <2>2. WitnessWeight(KeypathWitness, csv) = 1 + Sum(f)
    BY DEF WitnessWeight
  <2> HIDE DEF f
  <2>3. PICK s : /\ Sum(f) = s[1] /\ s[0] = 0 /\ \A i \in 1..1 : s[i] = s[i - 1] + f[i]
    BY <2>1, SumIs
  <2> QED
    BY <2>1, <2>2, <2>3
<1>4. WitnessWeight(ClaimWitness, csv) = 227
  <2> DEFINE f == Sizes(ClaimWitness)
  <2>1. f \in Seq(Nat) /\ Len(f) = 4 /\ f[1] = 65 /\ f[2] = 33 /\ f[3] = 62 /\ f[4] = 66
    BY <1>2 DEF ClaimWitness
  <2>2. WitnessWeight(ClaimWitness, csv) = 1 + Sum(f)
    BY DEF WitnessWeight
  <2> HIDE DEF f
  <2>3. PICK s : /\ Sum(f) = s[Len(f)] /\ s[0] = 0
                 /\ \A i \in 1..Len(f) : s[i] = s[i - 1] + f[i]
    <3>1. f \in Seq(Nat)
      BY <2>1
    <3> QED
      BY <3>1, SumIs, Zenon
  <2>4. s[1] = 65 /\ s[2] = s[1] + 33 /\ s[3] = s[2] + 62 /\ s[4] = s[3] + 66 /\ Sum(f) = s[4]
    BY <2>1, <2>3
  <2> QED
    BY <2>2, <2>3, <2>4
<1>5. WitnessWeight(CsvWitness, csv) = 168 + PushInt(csv)
  <2> DEFINE f == Sizes(CsvWitness)
  <2>1. f \in Seq(Nat) /\ Len(f) = 3 /\ f[1] = 65 /\ f[2] = 36 + PushInt(csv) /\ f[3] = 66
    BY <1>1, <1>2 DEF CsvWitness
  <2>2. WitnessWeight(CsvWitness, csv) = 1 + Sum(f)
    BY DEF WitnessWeight
  <2> HIDE DEF f
  <2>3. PICK s : /\ Sum(f) = s[Len(f)] /\ s[0] = 0
                 /\ \A i \in 1..Len(f) : s[i] = s[i - 1] + f[i]
    <3>1. f \in Seq(Nat)
      BY <2>1
    <3> QED
      BY <3>1, SumIs, Zenon
  <2>4. s[1] = 65 /\ s[2] = s[1] + 36 + PushInt(csv) /\ s[3] = s[2] + 66 /\ Sum(f) = s[3]
    BY <1>1, <2>1, <2>3
  <2> QED
    BY <1>1, <2>2, <2>3, <2>4
<1> QED
  BY <1>3, <1>4, <1>5

LEMMA TimesMore ==
    ASSUME NEW n \in Nat, NEW a \in Nat, NEW b \in Nat, a <= b
    PROVE  n * a <= n * b
<1>1. PICK d \in Nat : b = a + d
  <2>1. b - a \in Nat /\ b = a + (b - a)
    OBVIOUS
  <2> QED
    BY <2>1
<1>2. n * b = n * a + n * d /\ n * d \in Nat /\ n * a \in Nat
  BY <1>1
<1> QED
  BY <1>2

LEMMA DivIs ==
    ASSUME NEW a \in Nat, NEW b \in Nat \ {0}
    PROVE  a \div b \in Nat /\ b * (a \div b) <= a
<1> DEFINE q == a \div b
           r == a % b
<1>1. b \in Nat /\ b > 0
  OBVIOUS
<1>2. q \in Nat /\ r \in 0..b - 1 /\ a = b * q + r
  BY <1>1
<1> HIDE DEF q, r
<1>3. b * q \in Nat
  BY <1>2
<1>4. q \in Nat /\ b * q <= a
  BY <1>1, <1>2, <1>3
<1> QED
  BY <1>4 DEF q

(* A quotient rounded up is the least number that covers it.               *)
LEMMA CeilIs ==
    ASSUME NEW a \in Nat, NEW b \in Nat \ {0}
    PROVE  /\ CeilDiv(a, b) \in Nat
           /\ b * CeilDiv(a, b) >= a
           /\ b * CeilDiv(a, b) <= a + b - 1
<1> DEFINE q == (a + b - 1) \div b
           r == (a + b - 1) % b
<1>1. a + b - 1 \in Nat /\ b \in Nat /\ b > 0
  OBVIOUS
<1>2. q \in Nat /\ r \in 0..b - 1 /\ a + b - 1 = b * q + r
  BY <1>1
<1>3. CeilDiv(a, b) = q
  BY DEF CeilDiv
<1> HIDE DEF q, r
<1>4. b * q \in Nat
  BY <1>1, <1>2
<1> QED
  BY <1>1, <1>2, <1>3, <1>4

LEMMA CeilAtMost ==
    ASSUME NEW a \in Nat, NEW b \in Nat \ {0}, NEW c \in Nat, a <= b * c
    PROVE  CeilDiv(a, b) <= c
<1> DEFINE q == CeilDiv(a, b)
<1>1. q \in Nat /\ b * q <= a + b - 1
  BY CeilIs
<1> HIDE DEF q
<1>2. CASE q > c
  <2>1. b * (c + 1) <= b * q
    BY <1>1, <1>2, TimesMore
  <2>2. b * (c + 1) = b * c + b /\ b * c \in Nat /\ b * q \in Nat
    BY <1>1
  <2> QED
    BY <1>1, <2>1, <2>2
<1> QED
  BY <1>1, <1>2 DEF q

-----------------------------------------------------------------------------
(* What a spend of each path is.                                           *)

Paths == {"Keypath", "Preimage", "Csv"}
WitnessOf(path) ==
    CASE path = "Keypath" -> KeypathWitness [] path = "Preimage" -> ClaimWitness [] path = "Csv" -> CsvWitness
LeafOf(path) == CASE path = "Keypath" -> "key" [] path = "Preimage" -> "claim" [] path = "Csv" -> "refund"
Claimant(terms) == IF terms.side = "Source" THEN "server" ELSE "ours"
Refunder(terms) == IF terms.side = "Source" THEN "ours" ELSE "server"
SignersOf(terms, path) ==
    CASE path = "Keypath"  -> {"ours", "server"}
      [] path = "Preimage" -> {Claimant(terms)}
      [] path = "Csv"      -> {Refunder(terms)}
SequenceOf(terms, path) == IF path = "Csv" THEN terms.csv ELSE 0

\* Its weight, with n inputs, and the fee of a weight.
Weigh(terms, n, path) ==
    IF terms.chain = "Bitcoin" THEN BitcoinWeight(n, WitnessOf(path), terms.csv, terms.dest)
                               ELSE LiquidWeight(n, WitnessOf(path), terms.csv, terms.dest)
FeeOf(terms, weight, rate) ==
    IF terms.chain = "Bitcoin" THEN BitcoinFee(weight, rate) ELSE LiquidFee(CeilDiv(weight, 4), rate)

Terms ==
    [chain : {"Bitcoin", "Liquid"}, side : {"Source", "Dest"}, csv : Nat,
     dest : {"p2pkh", "p2sh", "p2wpkh", "p2tr"}]

(* The weights: any path of a refund is within RefundVsize per input, any   *)
(* path of a claim within ClaimVsize, and the keypath is the lightest.      *)
LEMMA WeightsAre ==
    ASSUME NEW terms, terms \in Terms, NEW n \in Nat \ {0}
    PROVE  /\ \A path \in Paths : Weigh(terms, n, path) \in Nat /\ Weigh(terms, n, path) > 0
           /\ \A path \in Paths : Weigh(terms, n, "Keypath") <= Weigh(terms, n, path)
           /\ Weigh(terms, n, "Csv") <= 4 * (RefundVsize[terms.chain] * n)
           /\ Weigh(terms, 1, "Keypath") <= 4 * ClaimVsize[terms.chain]
           /\ Weigh(terms, 1, "Preimage") <= 4 * ClaimVsize[terms.chain]
           /\ terms.chain = "Liquid" => Weigh(terms, 1, "Preimage") <= 932
<1> DEFINE csv == terms.csv
           push == PushInt(csv)
           length == LengthOf[terms.dest]
<1>1. csv \in Nat /\ push \in 1..4
  BY PushIs DEF Terms
<1>2. length \in 22..34
  BY DEF Terms, LengthOf
<1>3. /\ WitnessWeight(WitnessOf("Keypath"), csv) = 66
      /\ WitnessWeight(WitnessOf("Preimage"), csv) = 227
      /\ WitnessWeight(WitnessOf("Csv"), csv) = 168 + push
  BY <1>1, WitnessSizes DEF WitnessOf
<1>4. terms.chain \in {"Bitcoin", "Liquid"}
  BY DEF Terms
<1>5. /\ RefundVsize["Bitcoin"] = 138 /\ RefundVsize["Liquid"] = 250
      /\ ClaimVsize["Bitcoin"] = 152 /\ ClaimVsize["Liquid"] = 250
  BY DEF RefundVsize, ClaimVsize
<1>6. /\ n * 66 \in Nat /\ n * 227 \in Nat /\ n * (168 + push) \in Nat
      /\ n * 66 <= n * 227 /\ n * 66 <= n * (168 + push) /\ n * (168 + push) <= n * 172
  BY <1>1, TimesMore
<1>7. ASSUME terms.chain = "Bitcoin"
      PROVE  \A k \in Nat :
                /\ Weigh(terms, k, "Keypath") = 4 * (19 + 41 * k + length) + 2 + k * 66
                /\ Weigh(terms, k, "Preimage") = 4 * (19 + 41 * k + length) + 2 + k * 227
                /\ Weigh(terms, k, "Csv") = 4 * (19 + 41 * k + length) + 2 + k * (168 + push)
  <2> HIDE DEF push, length
  <2> TAKE k \in Nat
  <2>1. 4 + 1 + 41 * k + 1 + 9 + length + 4 = 19 + 41 * k + length
    BY <1>2
  <2> QED
    BY <1>3, <1>7, <2>1 DEF Weigh, BitcoinWeight, length
<1>8. ASSUME terms.chain = "Liquid"
      PROVE  \A k \in Nat :
                /\ Weigh(terms, k, "Keypath") = 4 * (99 + 41 * k + length) + 4 + k * 69
                /\ Weigh(terms, k, "Preimage") = 4 * (99 + 41 * k + length) + 4 + k * 230
                /\ Weigh(terms, k, "Csv") = 4 * (99 + 41 * k + length) + 4 + k * (171 + push)
  <2> HIDE DEF push, length
  <2> TAKE k \in Nat
  <2>1. 4 + 1 + 1 + 1 + 4 + 41 * k + 44 + length + 44 = 99 + 41 * k + length
    BY <1>2
  <2>2. 3 + (168 + push) = 171 + push
    BY <1>1
  <2> QED
    BY <1>3, <1>8, <2>1, <2>2 DEF Weigh, LiquidWeight, length
<1>9. /\ n * 69 \in Nat /\ n * 230 \in Nat /\ n * (171 + push) \in Nat
      /\ n * 69 <= n * 230 /\ n * 69 <= n * (171 + push) /\ n * (171 + push) <= n * 175
  BY <1>1, TimesMore
<1> HIDE DEF push, length
<1>10. CASE terms.chain = "Bitcoin"
  <2>1. /\ Weigh(terms, n, "Keypath") = 4 * (19 + 41 * n + length) + 2 + n * 66
        /\ Weigh(terms, n, "Preimage") = 4 * (19 + 41 * n + length) + 2 + n * 227
        /\ Weigh(terms, n, "Csv") = 4 * (19 + 41 * n + length) + 2 + n * (168 + push)
    BY <1>7, <1>10
  <2>2. /\ Weigh(terms, 1, "Keypath") = 4 * (19 + 41 * 1 + length) + 2 + 1 * 66
        /\ Weigh(terms, 1, "Preimage") = 4 * (19 + 41 * 1 + length) + 2 + 1 * 227
    BY <1>7, <1>10
  <2>3. Weigh(terms, n, "Csv") <= 4 * (138 * n)
    BY <1>2, <1>6, <2>1
  <2>4. Weigh(terms, 1, "Keypath") <= 608 /\ Weigh(terms, 1, "Preimage") <= 608
    BY <1>2, <2>2
  <2>5. \A path \in Paths : Weigh(terms, n, path) \in Nat /\ Weigh(terms, n, path) > 0
                            /\ Weigh(terms, n, "Keypath") <= Weigh(terms, n, path)
    BY <1>2, <1>6, <2>1 DEF Paths
  <2> QED
    BY <1>5, <1>10, <2>3, <2>4, <2>5
<1>11. CASE terms.chain = "Liquid"
  <2>1. /\ Weigh(terms, n, "Keypath") = 4 * (99 + 41 * n + length) + 4 + n * 69
        /\ Weigh(terms, n, "Preimage") = 4 * (99 + 41 * n + length) + 4 + n * 230
        /\ Weigh(terms, n, "Csv") = 4 * (99 + 41 * n + length) + 4 + n * (171 + push)
    BY <1>8, <1>11
  <2>2. /\ Weigh(terms, 1, "Keypath") = 4 * (99 + 41 * 1 + length) + 4 + 1 * 69
        /\ Weigh(terms, 1, "Preimage") = 4 * (99 + 41 * 1 + length) + 4 + 1 * 230
    BY <1>8, <1>11
  <2>3. Weigh(terms, n, "Csv") <= 4 * (250 * n)
    BY <1>2, <1>9, <2>1
  <2>4. Weigh(terms, 1, "Keypath") \in 0..932 /\ Weigh(terms, 1, "Preimage") \in 0..932
    BY <1>2, <2>2
  <2>5. \A path \in Paths : Weigh(terms, n, path) \in Nat /\ Weigh(terms, n, path) > 0
                            /\ Weigh(terms, n, "Keypath") <= Weigh(terms, n, path)
    BY <1>2, <1>9, <2>1 DEF Paths
  <2>6. 4 * ClaimVsize[terms.chain] = 1000 /\ 4 * (RefundVsize[terms.chain] * n) = 4 * (250 * n)
    BY <1>5, <1>11
  <2>7. /\ Weigh(terms, 1, "Keypath") <= 1000 /\ Weigh(terms, 1, "Preimage") <= 1000
        /\ Weigh(terms, 1, "Preimage") <= 932
    BY <2>4
  <2> QED
    BY <2>3, <2>5, <2>6, <2>7
<1> QED
  BY <1>4, <1>10, <1>11

-----------------------------------------------------------------------------
(* Fees.                                                                   *)

LEMMA KwuIs ==
    ASSUME NEW rate \in Nat
    PROVE  SatPerKwu(rate) \in Nat /\ SatPerKwu(rate) = 25 * rate
<1>1. rate * 250 \in Nat /\ rate * 250 <= 10 * (25 * rate) /\ 25 * rate \in Nat
  OBVIOUS
<1>2. CeilDiv(rate * 250, 10) <= 25 * rate
  BY <1>1, CeilAtMost
<1>3. CeilDiv(rate * 250, 10) \in Nat /\ 10 * CeilDiv(rate * 250, 10) >= rate * 250
  BY <1>1, CeilIs
<1> QED
  BY <1>2, <1>3 DEF SatPerKwu

(* A fee is a number, and what the rate asks of the whole vbytes.           *)
LEMMA FeeCovers ==
    ASSUME NEW terms, NEW weight \in Nat, NEW rate \in Nat
    PROVE  /\ FeeOf(terms, weight, rate) \in Nat
           /\ 10 * FeeOf(terms, weight, rate) >= (CeilDiv(weight, 4) - 1) * rate
<1> DEFINE v == CeilDiv(weight, 4)
           fee == FeeOf(terms, weight, rate)
<1>1. v \in Nat /\ 4 * v >= weight /\ 4 * v <= weight + 3
  <2>1. /\ CeilDiv(weight, 4) \in Nat /\ 4 * CeilDiv(weight, 4) >= weight
        /\ 4 * CeilDiv(weight, 4) <= weight + 4 - 1
    BY CeilIs
  <2> QED
    BY <2>1
<1> HIDE DEF v
<1>2. CASE terms.chain = "Bitcoin"
  <2> DEFINE kwu == SatPerKwu(rate)
  <2>1. kwu \in Nat /\ kwu = 25 * rate
    BY KwuIs
  <2> HIDE DEF kwu
  <2>2. kwu * weight \in Nat
    BY <2>1
  <2>3. fee = CeilDiv(kwu * weight, 1000)
    BY <1>2 DEF FeeOf, BitcoinFee, kwu
  <2>4. fee \in Nat /\ 1000 * fee >= kwu * weight
    BY <2>2, <2>3, CeilIs
  <2> HIDE DEF fee
  <2>5. kwu * weight = 25 * (rate * weight) /\ rate * weight \in Nat
    BY <2>1
  <2>6. 40 * fee >= rate * weight
    BY <2>4, <2>5
  <2>7. CASE v = 0
    <3>1. (v - 1) * rate <= 0
      BY <2>7
    <3> QED
      BY <2>4, <3>1, <1>1 DEF v, fee
  <2>8. CASE v # 0
    <3>1. v - 1 \in Nat /\ 4 * (v - 1) <= weight
      BY <1>1, <2>8
    <3>2. rate * (4 * (v - 1)) <= rate * weight
      BY <3>1, TimesMore
    <3>3. rate * (4 * (v - 1)) = 4 * ((v - 1) * rate) /\ (v - 1) * rate \in Nat
      BY <3>1
    <3>4. 10 * fee >= (v - 1) * rate
      BY <2>4, <2>5, <2>6, <3>2, <3>3
    <3> QED
      BY <2>4, <3>4 DEF v, fee
  <2> QED
    BY <2>7, <2>8
<1>3. CASE terms.chain # "Bitcoin"
  <2>1. fee = CeilDiv(v * rate, 10)
    BY <1>3 DEF FeeOf, LiquidFee, v
  <2>2. v * rate \in Nat
    BY <1>1
  <2>3. fee \in Nat /\ 10 * fee >= v * rate
    BY <2>1, <2>2, CeilIs
  <2> HIDE DEF fee
  <2>4. (v - 1) * rate = v * rate - rate
    BY <1>1
  <2> QED
    BY <2>2, <2>3, <2>4 DEF v, fee
<1> QED
  BY <1>2, <1>3

(* What fits n times in a size costs at most n times its fee.              *)
LEMMA FeeOfBatch ==
    ASSUME NEW terms, NEW weight \in Nat, NEW rate \in Nat, NEW n \in Nat, NEW v \in Nat,
           weight <= 4 * (v * n)
    PROVE  /\ FeeForVsize(terms.chain, v, rate) \in Nat
           /\ FeeOf(terms, weight, rate) <= n * FeeForVsize(terms.chain, v, rate)
<1> DEFINE one == FeeForVsize(terms.chain, v, rate)
<1>1. CASE terms.chain = "Bitcoin"
  <2> DEFINE kwu == SatPerKwu(rate)
  <2>1. kwu \in Nat
    BY KwuIs
  <2>2. one = CeilDiv(kwu * (4 * v), 1000) /\ FeeOf(terms, weight, rate) = CeilDiv(kwu * weight, 1000)
    BY <1>1 DEF FeeForVsize, FeeOf, BitcoinFee
  <2> HIDE DEF kwu
  <2>3. kwu * (4 * v) \in Nat /\ kwu * weight \in Nat
    BY <2>1
  <2>4. one \in Nat /\ kwu * (4 * v) <= 1000 * one
    BY <2>2, <2>3, CeilIs
  <2> HIDE DEF one
  <2>5. kwu * weight <= kwu * (4 * (v * n))
    BY <2>1, TimesMore
  <2>6. kwu * (4 * (v * n)) = n * (kwu * (4 * v))
    BY <2>1
  <2>7. n * (kwu * (4 * v)) <= n * (1000 * one)
    BY <2>3, <2>4, TimesMore
  <2>8. n * (1000 * one) = 1000 * (n * one) /\ n * one \in Nat /\ n * (kwu * (4 * v)) \in Nat
    BY <2>3, <2>4
  <2>9. kwu * weight <= 1000 * (n * one)
    BY <2>3, <2>5, <2>6, <2>7, <2>8
  <2>10. CeilDiv(kwu * weight, 1000) <= n * one
    BY <2>3, <2>8, <2>9, CeilAtMost
  <2> QED
    BY <2>2, <2>4, <2>10 DEF one
<1>2. CASE terms.chain # "Bitcoin"
  <2> DEFINE size == CeilDiv(weight, 4)
  <2>1. v * n \in Nat
    OBVIOUS
  <2>2. size \in Nat /\ size <= v * n
    BY <2>1, CeilIs, CeilAtMost
  <2>3. one = CeilDiv(v * rate, 10) /\ FeeOf(terms, weight, rate) = CeilDiv(size * rate, 10)
    BY <1>2 DEF FeeForVsize, FeeOf, LiquidFee
  <2> HIDE DEF size
  <2>4. v * rate \in Nat /\ size * rate \in Nat
    BY <2>2
  <2>5. one \in Nat /\ v * rate <= 10 * one
    BY <2>3, <2>4, CeilIs
  <2> HIDE DEF one
  <2>6. size * rate <= (v * n) * rate
    <3>1. rate * size <= rate * (v * n)
      BY <2>1, <2>2, TimesMore
    <3>2. rate * size = size * rate /\ rate * (v * n) = (v * n) * rate
      BY <2>1, <2>2
    <3> QED
      BY <3>1, <3>2
  <2>7. (v * n) * rate = n * (v * rate)
    OBVIOUS
  <2>8. n * (v * rate) <= n * (10 * one)
    BY <2>4, <2>5, TimesMore
  <2>9. n * (10 * one) = 10 * (n * one) /\ n * one \in Nat /\ n * (v * rate) \in Nat
    BY <2>4, <2>5
  <2>10. size * rate <= 10 * (n * one)
    BY <2>4, <2>6, <2>7, <2>8, <2>9
  <2>11. CeilDiv(size * rate, 10) <= n * one
    BY <2>4, <2>9, <2>10, CeilAtMost
  <2> QED
    BY <2>3, <2>5, <2>11 DEF one
<1> QED
  BY <1>1, <1>2

(* A size at a rate of at most k sat/vB costs at most k a vbyte.            *)
LEMMA FeeAtCeiling ==
    ASSUME NEW terms, NEW weight \in Nat, NEW rate \in Nat, NEW k \in Nat, NEW v \in Nat,
           weight <= 4 * v, rate <= 10 * k
    PROVE  FeeOf(terms, weight, rate) <= v * k
<1>1. v * k \in Nat
  OBVIOUS
<1>2. CASE terms.chain = "Bitcoin"
  <2> DEFINE kwu == SatPerKwu(rate)
  <2>1. kwu \in Nat /\ kwu <= 250 * k
    BY KwuIs
  <2>2. FeeOf(terms, weight, rate) = CeilDiv(kwu * weight, 1000)
    BY <1>2 DEF FeeOf, BitcoinFee
  <2> HIDE DEF kwu
  <2>3. kwu * weight <= kwu * (4 * v)
    BY <2>1, TimesMore
  <2>4. (4 * v) * kwu <= (4 * v) * (250 * k)
    BY <2>1, TimesMore
  <2>5. kwu * (4 * v) = (4 * v) * kwu /\ (4 * v) * (250 * k) = 1000 * (v * k)
        /\ kwu * weight \in Nat /\ (4 * v) * kwu \in Nat
    BY <2>1
  <2>6. kwu * weight <= 1000 * (v * k)
    BY <1>1, <2>3, <2>4, <2>5
  <2> QED
    BY <1>1, <2>2, <2>5, <2>6, CeilAtMost
<1>3. CASE terms.chain # "Bitcoin"
  <2> DEFINE size == CeilDiv(weight, 4)
  <2>1. size \in Nat /\ size <= v
    BY CeilIs, CeilAtMost
  <2>2. FeeOf(terms, weight, rate) = CeilDiv(size * rate, 10)
    BY <1>3 DEF FeeOf, LiquidFee
  <2> HIDE DEF size
  <2>3. size * rate <= size * (10 * k)
    BY <2>1, TimesMore
  <2>4. (10 * k) * size <= (10 * k) * v
    BY <2>1, TimesMore
  <2>5. size * (10 * k) = (10 * k) * size /\ (10 * k) * v = 10 * (v * k)
        /\ size * rate \in Nat /\ (10 * k) * size \in Nat
    BY <2>1
  <2>6. size * rate <= 10 * (v * k)
    BY <1>1, <2>3, <2>4, <2>5
  <2> QED
    BY <1>1, <2>2, <2>5, <2>6, CeilAtMost
<1> QED
  BY <1>2, <1>3

-----------------------------------------------------------------------------
(* The builders.                                                           *)

Record(utxos, fee, sequence, witness, by, leaf, weight) ==
    [utxos |-> utxos, sequence |-> sequence, fee |-> fee, value |-> TotalOf(utxos) - fee,
     dest |-> swap.dest, witness |-> witness,
     signature |-> [by |-> by, over |-> <<utxos, sequence, TotalOf(utxos) - fee, leaf>>],
     weight |-> weight]

LEMMA RecordIsBuilt ==
    ASSUME NEW utxos, NEW fee, NEW sequence, NEW witness, NEW by, NEW leaf, NEW weight
    PROVE  Built(Record(utxos, fee, sequence, witness, by, leaf, weight))
<1>1. DOMAIN Record(utxos, fee, sequence, witness, by, leaf, weight) =
          {"utxos", "sequence", "fee", "value", "dest", "witness", "signature", "weight"}
  BY DEF Record
<1> QED
  BY <1>1 DEF Built

LEMMA RefusedIsNot == ASSUME NEW why PROVE ~Built(Refused(why))
  BY DEF Built, Refused

LEMMA SkeletonSigned ==
    ASSUME NEW utxos, NEW fee, NEW sequence, NEW witness, NEW by, NEW leaf, NEW weight
    PROVE  Signed(Skeleton(utxos, fee, sequence), witness, by, leaf, weight) =
               Record(utxos, fee, sequence, witness, by, leaf, weight)
<1> DEFINE tx0 == Skeleton(utxos, fee, sequence)
<1>1. /\ tx0.utxos = utxos /\ tx0.sequence = sequence /\ tx0.fee = fee
      /\ tx0.value = TotalOf(utxos) - fee /\ tx0.dest = swap.dest
      /\ DOMAIN tx0 = {"utxos", "sequence", "fee", "value", "dest"}
  BY DEF Skeleton
<1>2. Built(tx0)
  BY <1>1 DEF Built
<1> HIDE DEF tx0
<1>3. Signed(tx0, witness, by, leaf, weight) = Record(utxos, fee, sequence, witness, by, leaf, weight)
  BY <1>1, <1>2 DEF Signed, Sign, Sighash, Record
<1> QED
  BY <1>3 DEF tx0

BitcoinFits(utxos, fee) ==
    /\ utxos # <<>> /\ IsInjective(utxos)
    /\ TotalOf(utxos) - fee >= DustOf[swap.dest]

LEMMA BitcoinSignedIs ==
    ASSUME NEW utxos, NEW fee \in Nat, NEW sequence, NEW witness, NEW by, NEW leaf,
           TotalOf(utxos) \in Nat, DustOf[swap.dest] \in Nat
    PROVE  LET r == BitcoinSigned(utxos, fee, sequence, witness, by, leaf)
           IN /\ Built(r) <=> BitcoinFits(utxos, fee)
              /\ Built(r) => r = Record(utxos, fee, sequence, witness, by, leaf,
                                        BitcoinWeight(Len(utxos), witness, swap.csv, swap.dest))
<1> DEFINE weight == BitcoinWeight(Len(utxos), witness, swap.csv, swap.dest)
<1>1. BitcoinSigned(utxos, fee, sequence, witness, by, leaf) =
          Signed(BitcoinTx(utxos, fee, sequence), witness, by, leaf, weight)
  BY DEF BitcoinSigned
<1> HIDE DEF weight
<1>2. CASE BitcoinFits(utxos, fee)
  <2>1. BitcoinTx(utxos, fee, sequence) = Skeleton(utxos, fee, sequence)
    BY <1>2 DEF BitcoinFits, BitcoinTx
  <2> QED
    BY <1>1, <1>2, <2>1, SkeletonSigned, RecordIsBuilt DEF weight
<1>3. CASE ~BitcoinFits(utxos, fee)
  <2>1. \E why : BitcoinTx(utxos, fee, sequence) = Refused(why)
    BY <1>3 DEF BitcoinFits, BitcoinTx
  <2>2. PICK why : BitcoinTx(utxos, fee, sequence) = Refused(why)
    BY <2>1
  <2>3. Signed(Refused(why), witness, by, leaf, weight) = Refused(why)
    BY RefusedIsNot DEF Signed
  <2> QED
    BY <1>1, <1>3, <2>2, <2>3, RefusedIsNot
<1> QED
  BY <1>2, <1>3

\* A builder's two rounds.
BitcoinRounds(utxos, sequence, witness, by, leaf, rate) ==
    BitcoinSigned(utxos, BitcoinBuildFee(BitcoinSigned(utxos, 0, sequence, witness, by, leaf), rate),
                  sequence, witness, by, leaf)

LEMMA BitcoinRoundsAre ==
    ASSUME NEW utxos, NEW rate \in Nat, NEW sequence, NEW witness, NEW by, NEW leaf,
           NEW weight, weight = BitcoinWeight(Len(utxos), witness, swap.csv, swap.dest),
           NEW fee \in Nat, fee = BitcoinFee(weight, rate),
           TotalOf(utxos) \in Nat, DustOf[swap.dest] \in Nat
    PROVE  LET r == BitcoinRounds(utxos, sequence, witness, by, leaf, rate)
           IN /\ BitcoinFits(utxos, fee) => Built(r)
              /\ Built(r) => /\ r = Record(utxos, fee, sequence, witness, by, leaf, weight)
                             /\ TotalOf(utxos) - fee \in Nat
<1> DEFINE tried == BitcoinSigned(utxos, 0, sequence, witness, by, leaf)
           r == BitcoinRounds(utxos, sequence, witness, by, leaf, rate)
<1>1. r = BitcoinSigned(utxos, BitcoinBuildFee(tried, rate), sequence, witness, by, leaf)
  BY DEF BitcoinRounds
<1>2. /\ Built(tried) <=> BitcoinFits(utxos, 0)
      /\ Built(tried) => tried = Record(utxos, 0, sequence, witness, by, leaf, weight)
  BY BitcoinSignedIs
<1>3. BitcoinFits(utxos, fee) => BitcoinFits(utxos, 0)
  BY DEF BitcoinFits
<1>4. BitcoinFits(utxos, fee) => TotalOf(utxos) - fee \in Nat
  BY DEF BitcoinFits
<1> HIDE DEF tried, r
<1>5. CASE Built(tried)
  <2>1. BitcoinBuildFee(tried, rate) = fee
    BY <1>2, <1>5 DEF BitcoinBuildFee, Record
  <2>2. r = BitcoinSigned(utxos, fee, sequence, witness, by, leaf)
    BY <1>1, <2>1
  <2>3. /\ Built(r) <=> BitcoinFits(utxos, fee)
        /\ Built(r) => r = Record(utxos, fee, sequence, witness, by, leaf, weight)
    BY <2>2, BitcoinSignedIs
  <2> QED
    BY <1>4, <2>3 DEF r
<1>6. CASE ~Built(tried)
  <2>1. BitcoinBuildFee(tried, rate) = 0
    BY <1>6 DEF BitcoinBuildFee
  <2>2. r = tried
    BY <1>1, <2>1 DEF tried
  <2> QED
    BY <1>2, <1>3, <1>6, <2>2 DEF r
<1> QED
  BY <1>5, <1>6

LiquidFits(utxos, fee) ==
    /\ utxos # <<>> /\ Len(utxos) <= MaxInputs /\ IsInjective(utxos)
    /\ \A o \in Range(utxos) : ValidPrevout(outs[o])
    /\ TotalOf(utxos) > fee

LEMMA LiquidSignedIs ==
    ASSUME NEW utxos, NEW fee \in Nat, NEW sequence, NEW witness, NEW by, NEW leaf,
           TotalOf(utxos) \in Nat, Len(utxos) \in Nat, MaxInputs \in Nat
    PROVE  LET r == LiquidSigned(utxos, fee, sequence, witness, by, leaf)
           IN /\ Built(r) <=> LiquidFits(utxos, fee)
              /\ Built(r) => r = Record(utxos, fee, sequence, witness, by, leaf,
                                        LiquidWeight(Len(utxos), witness, swap.csv, swap.dest))
<1> DEFINE weight == LiquidWeight(Len(utxos), witness, swap.csv, swap.dest)
           r == LiquidSigned(utxos, fee, sequence, witness, by, leaf)
           inputs == LiquidInputs(utxos)
           fit == /\ utxos # <<>> /\ Len(utxos) <= MaxInputs /\ IsInjective(utxos)
                  /\ \A o \in Range(utxos) : ValidPrevout(outs[o])
<1>1. r = IF ~Built(inputs) THEN inputs
          ELSE Signed(LiquidTx(utxos, fee, sequence), witness, by, leaf, weight)
  BY DEF LiquidSigned
<1>2. LiquidFits(utxos, fee) <=> fit /\ TotalOf(utxos) > fee
  BY DEF LiquidFits
<1>3. Built(inputs) <=> fit
  <2>1. CASE fit
    <3>1. inputs = [inputs |-> utxos]
      BY <2>1 DEF LiquidInputs
    <3>2. DOMAIN [inputs |-> utxos] = {"inputs"}
      OBVIOUS
    <3> HIDE DEF inputs, fit
    <3> QED
      BY <2>1, <3>1, <3>2 DEF Built
  <2>2. CASE ~fit
    <3>1. \E why : inputs = Refused(why)
      BY <2>2 DEF LiquidInputs
    <3> HIDE DEF inputs, fit
    <3> QED
      BY <2>2, <3>1, RefusedIsNot
  <2> QED
    BY <2>1, <2>2
<1> HIDE DEF weight, r, inputs, fit
<1>4. CASE ~fit
  BY <1>1, <1>2, <1>3, <1>4 DEF r
<1>5. CASE fit
  <2>1. r = Signed(LiquidTx(utxos, fee, sequence), witness, by, leaf, weight)
    BY <1>1, <1>3, <1>5
  <2>2. CASE TotalOf(utxos) > fee
    <3>1. LiquidTx(utxos, fee, sequence) = Skeleton(utxos, fee, sequence)
      BY <2>2 DEF LiquidTx
    <3>2. r = Record(utxos, fee, sequence, witness, by, leaf, weight)
      BY <2>1, <3>1, SkeletonSigned
    <3>3. Built(r)
      BY <3>2, RecordIsBuilt
    <3> QED
      BY <1>2, <1>5, <2>2, <3>2, <3>3 DEF r, weight
  <2>3. CASE ~(TotalOf(utxos) > fee)
    <3>1. \E why : LiquidTx(utxos, fee, sequence) = Refused(why)
      <4>1. TotalOf(utxos) < fee \/ TotalOf(utxos) = fee
        BY <2>3
      <4> QED
        BY <4>1 DEF LiquidTx
    <3>2. PICK why : LiquidTx(utxos, fee, sequence) = Refused(why)
      BY <3>1
    <3>3. Signed(Refused(why), witness, by, leaf, weight) = Refused(why)
      BY RefusedIsNot DEF Signed
    <3> QED
      BY <1>2, <2>1, <2>3, <3>2, <3>3, RefusedIsNot DEF r
  <2> QED
    BY <2>2, <2>3
<1> QED
  BY <1>4, <1>5

\* A builder's two rounds, and its checks.
LiquidRound(utxos, sequence, witness, by, leaf, rate) ==
    LiquidSigned(utxos, LiquidBuildFee(LiquidSigned(utxos, 0, sequence, witness, by, leaf), rate),
                 sequence, witness, by, leaf)
LiquidRounds(utxos, sequence, witness, by, leaf, rate, items) ==
    LiquidFinal(Paid(LiquidRound(utxos, sequence, witness, by, leaf, rate), rate), utxos, sequence, items)

LEMMA LiquidRoundIs ==
    ASSUME NEW utxos, NEW rate \in Nat, NEW sequence, NEW witness, NEW by, NEW leaf,
           NEW weight \in Nat, weight = LiquidWeight(Len(utxos), witness, swap.csv, swap.dest),
           NEW fee \in Nat, fee = LiquidFee(CeilDiv(weight, 4), rate),
           TotalOf(utxos) \in Nat, Len(utxos) \in Nat, MaxInputs \in Nat
    PROVE  LET r == LiquidRound(utxos, sequence, witness, by, leaf, rate)
           IN /\ LiquidFits(utxos, fee) => Built(r)
              /\ Built(r) => /\ r = Record(utxos, fee, sequence, witness, by, leaf, weight)
                             /\ TotalOf(utxos) > fee
<1> DEFINE tried == LiquidSigned(utxos, 0, sequence, witness, by, leaf)
           r == LiquidRound(utxos, sequence, witness, by, leaf, rate)
<1>1. r = LiquidSigned(utxos, LiquidBuildFee(tried, rate), sequence, witness, by, leaf)
  BY DEF LiquidRound
<1>2. /\ Built(tried) <=> LiquidFits(utxos, 0)
      /\ Built(tried) => tried = Record(utxos, 0, sequence, witness, by, leaf, weight)
  BY LiquidSignedIs
<1>3. LiquidFits(utxos, fee) => LiquidFits(utxos, 0) /\ TotalOf(utxos) > fee
  BY DEF LiquidFits
<1> HIDE DEF tried, r
<1>5. CASE Built(tried)
  <2>1. LiquidBuildFee(tried, rate) = fee
    BY <1>2, <1>5 DEF LiquidBuildFee, Record
  <2>2. r = LiquidSigned(utxos, fee, sequence, witness, by, leaf)
    BY <1>1, <2>1
  <2>3. /\ Built(r) <=> LiquidFits(utxos, fee)
        /\ Built(r) => r = Record(utxos, fee, sequence, witness, by, leaf, weight)
    BY <2>2, LiquidSignedIs
  <2> QED
    BY <1>3, <2>3 DEF r
<1>6. CASE ~Built(tried)
  <2>1. LiquidBuildFee(tried, rate) = 0
    BY <1>6 DEF LiquidBuildFee
  <2>2. r = tried
    BY <1>1, <2>1 DEF tried
  <2> QED
    BY <1>2, <1>3, <1>6, <2>2 DEF r
<1> QED
  BY <1>5, <1>6

LEMMA LiquidRoundsAre ==
    ASSUME NEW utxos, NEW rate \in Nat, NEW sequence, NEW witness, NEW by, NEW leaf,
           NEW weight \in Nat, weight = LiquidWeight(Len(utxos), witness, swap.csv, swap.dest),
           NEW fee \in Nat, fee = LiquidFee(CeilDiv(weight, 4), rate),
           TotalOf(utxos) \in Nat, Len(utxos) \in Nat, MaxInputs \in Nat
    PROVE  LET r == LiquidRounds(utxos, sequence, witness, by, leaf, rate, Len(witness))
           IN /\ LiquidFits(utxos, fee) => Built(r)
              /\ Built(r) => /\ r = Record(utxos, fee, sequence, witness, by, leaf, weight)
                             /\ TotalOf(utxos) > fee
<1> DEFINE made == LiquidRound(utxos, sequence, witness, by, leaf, rate)
           r == LiquidRounds(utxos, sequence, witness, by, leaf, rate, Len(witness))
<1>1. /\ LiquidFits(utxos, fee) => Built(made)
      /\ Built(made) => /\ made = Record(utxos, fee, sequence, witness, by, leaf, weight)
                        /\ TotalOf(utxos) > fee
  BY LiquidRoundIs
<1>2. r = LiquidFinal(Paid(made, rate), utxos, sequence, Len(witness))
  BY DEF LiquidRounds
<1> HIDE DEF made, r
<1>3. CASE Built(made)
  <2>1. /\ made.utxos = utxos /\ made.sequence = sequence /\ made.witness = witness
        /\ made.dest = swap.dest /\ made.value = TotalOf(utxos) - fee /\ made.fee = fee
        /\ made.weight = weight
    BY <1>1, <1>3 DEF Record
  <2>2. LiquidBuildFee(made, rate) = fee
    BY <1>3, <2>1 DEF LiquidBuildFee
  <2>3. Paid(made, rate) = made
    BY <2>1, <2>2 DEF Paid
  <2>4. made.value > 0 /\ made.value + made.fee = TotalOf(utxos)
    BY <1>1, <1>3, <2>1
  <2>5. r = made
    BY <1>2, <2>1, <2>3, <2>4 DEF LiquidFinal
  <2> QED
    BY <1>1, <1>3, <2>5 DEF r
<1>4. CASE ~Built(made)
  <2>1. Paid(made, rate) = made
    BY <1>4 DEF Paid
  <2>2. r = made
    BY <1>2, <1>4, <2>1 DEF LiquidFinal
  <2> QED
    BY <1>1, <1>4, <2>2 DEF r
<1> QED
  BY <1>3, <1>4

-----------------------------------------------------------------------------
(* A spend by its path.                                                    *)

Agreed == swap \in Terms /\ swap.csv >= 1 /\ swap.csv <= 65535

WeightOf(utxos, path) == Weigh(swap, Len(utxos), path)
Made(utxos, path, rate) ==
    Record(utxos, FeeOf(swap, WeightOf(utxos, path), rate), SequenceOf(swap, path), WitnessOf(path),
           SignersOf(swap, path), LeafOf(path), WeightOf(utxos, path))

\* The funds afford the spend, and the builder takes them.
Fits(utxos, path, rate) ==
    IF swap.chain = "Bitcoin" THEN BitcoinFits(utxos, FeeOf(swap, WeightOf(utxos, path), rate))
                              ELSE LiquidFits(utxos, FeeOf(swap, WeightOf(utxos, path), rate))

\* A result is the spend of its path, and there is one if the funds afford it.
IsMade(r, utxos, path, rate) ==
    /\ Fits(utxos, path, rate) => Built(r)
    /\ Built(r) => /\ r = Made(utxos, path, rate)
                   /\ TotalOf(utxos) - FeeOf(swap, WeightOf(utxos, path), rate) \in Nat

LEMMA ScriptIs ==
    ASSUME Agreed
    PROVE  /\ Script.csv = swap.csv /\ Script.claim = Claimant(swap)
           /\ Script.refund = Refunder(swap) /\ Script.internal = {"ours", "server"}
<1>1. swap.side \in {"Source", "Dest"} /\ swap.csv \in Nat /\ swap.csv >= 1 /\ swap.csv <= 65535
  BY DEF Agreed, Terms
<1> DEFINE claim == Claimant(swap)
           refund == Refunder(swap)
<1>2. claim # refund /\ {claim, refund} = {"ours", "server"}
  BY <1>1 DEF Claimant, Refunder
<1>3. Script = IF swap.chain = "Bitcoin" THEN BitcoinScript(claim, refund, swap.csv)
                                         ELSE LiquidScript(claim, refund, swap.csv, BlindingKey)
  BY DEF Script, NewScript, Claimant, Refunder
<1> HIDE DEF claim, refund
<1>4. ValidParameters(claim, refund, swap.csv)
  BY <1>1, <1>2 DEF ValidParameters
<1>5. /\ Script.csv = swap.csv /\ Script.claim = claim /\ Script.refund = refund
      /\ Script.internal = {claim, refund}
  BY <1>3, <1>4 DEF BitcoinScript, LiquidScript, Aggregate
<1> QED
  BY <1>2, <1>5 DEF claim, refund

LEMMA WitnessLengths ==
    Len(WitnessOf("Keypath")) = 1 /\ Len(WitnessOf("Preimage")) = 4 /\ Len(WitnessOf("Csv")) = 3
  BY DEF WitnessOf, KeypathWitness, ClaimWitness, CsvWitness

(* The two rounds of either chain's builder, whatever the path.             *)
LEMMA RoundsAreMade ==
    ASSUME Agreed, MaxInputs \in Nat,
           NEW utxos, Len(utxos) \in Nat \ {0}, TotalOf(utxos) \in Nat,
           NEW rate \in Nat, NEW path \in Paths
    PROVE  /\ swap.chain = "Bitcoin" =>
                IsMade(BitcoinRounds(utxos, SequenceOf(swap, path), WitnessOf(path),
                                     SignersOf(swap, path), LeafOf(path), rate),
                       utxos, path, rate)
           /\ swap.chain # "Bitcoin" =>
                IsMade(LiquidRounds(utxos, SequenceOf(swap, path), WitnessOf(path),
                                    SignersOf(swap, path), LeafOf(path), rate, Len(WitnessOf(path))),
                       utxos, path, rate)
<1> DEFINE weight == WeightOf(utxos, path)
           fee == FeeOf(swap, weight, rate)
<1>1. weight \in Nat
  BY WeightsAre DEF Agreed, WeightOf
<1>2. fee \in Nat
  BY <1>1, FeeCovers
<1>3. DustOf[swap.dest] \in Nat
  BY DEF Agreed, Terms, DustOf
<1>4. ASSUME swap.chain = "Bitcoin"
      PROVE  IsMade(BitcoinRounds(utxos, SequenceOf(swap, path), WitnessOf(path),
                                  SignersOf(swap, path), LeafOf(path), rate),
                    utxos, path, rate)
  <2>1. weight = BitcoinWeight(Len(utxos), WitnessOf(path), swap.csv, swap.dest)
    BY <1>4 DEF WeightOf, Weigh
  <2>2. fee = BitcoinFee(weight, rate)
    BY <1>4 DEF FeeOf
  <2> HIDE DEF weight, fee
  <2>0. LET r == BitcoinRounds(utxos, SequenceOf(swap, path), WitnessOf(path),
                               SignersOf(swap, path), LeafOf(path), rate)
        IN /\ BitcoinFits(utxos, fee) => Built(r)
           /\ Built(r) => /\ r = Record(utxos, fee, SequenceOf(swap, path), WitnessOf(path),
                                        SignersOf(swap, path), LeafOf(path), weight)
                          /\ TotalOf(utxos) - fee \in Nat
    <3>1. DustOf[swap.dest] \in Nat /\ TotalOf(utxos) \in Nat /\ rate \in Nat
      BY <1>3
    <3> QED
      BY <1>2, <2>1, <2>2, <3>1, BitcoinRoundsAre
  <2> DEFINE r == BitcoinRounds(utxos, SequenceOf(swap, path), WitnessOf(path),
                                SignersOf(swap, path), LeafOf(path), rate)
  <2>3. /\ BitcoinFits(utxos, fee) => Built(r)
        /\ Built(r) => /\ r = Record(utxos, fee, SequenceOf(swap, path), WitnessOf(path),
                                     SignersOf(swap, path), LeafOf(path), weight)
                       /\ TotalOf(utxos) - fee \in Nat
    BY <2>0
  <2> HIDE DEF r
  <2>4. IsMade(r, utxos, path, rate)
    BY <1>4, <2>3 DEF IsMade, Made, Fits, fee, weight
  <2> QED
    BY <2>4 DEF r
<1>5. ASSUME swap.chain # "Bitcoin"
      PROVE  IsMade(LiquidRounds(utxos, SequenceOf(swap, path), WitnessOf(path),
                                 SignersOf(swap, path), LeafOf(path), rate, Len(WitnessOf(path))),
                    utxos, path, rate)
  <2>1. weight = LiquidWeight(Len(utxos), WitnessOf(path), swap.csv, swap.dest)
    BY <1>5 DEF WeightOf, Weigh
  <2>2. fee = LiquidFee(CeilDiv(weight, 4), rate)
    BY <1>5 DEF FeeOf
  <2> HIDE DEF weight, fee
  <2> DEFINE r == LiquidRounds(utxos, SequenceOf(swap, path), WitnessOf(path),
                                SignersOf(swap, path), LeafOf(path), rate, Len(WitnessOf(path)))
  <2>3. /\ LiquidFits(utxos, fee) => Built(r)
        /\ Built(r) => /\ r = Record(utxos, fee, SequenceOf(swap, path), WitnessOf(path),
                                     SignersOf(swap, path), LeafOf(path), weight)
                       /\ TotalOf(utxos) > fee
    <3>1. Len(utxos) \in Nat
      OBVIOUS
    <3> QED
      BY <1>1, <1>2, <2>1, <2>2, <3>1, LiquidRoundsAre
  <2> HIDE DEF r
  <2>4. TotalOf(utxos) > fee => TotalOf(utxos) - fee \in Nat
    BY <1>2
  <2>5. IsMade(r, utxos, path, rate)
    BY <1>5, <2>3, <2>4 DEF IsMade, Made, Fits, fee, weight
  <2> QED
    BY <2>5 DEF r
<1> QED
  BY <1>4, <1>5

LEMMA SpendsAreMade ==
    ASSUME Agreed, MaxInputs \in Nat,
           NEW utxos, Len(utxos) \in Nat \ {0}, TotalOf(utxos) \in Nat, NEW rate \in Nat
    PROVE  /\ IsMade(SpendByKeypath(utxos, "ours", "server", rate), utxos, "Keypath", rate)
           /\ IsMade(SpendByKeypath(utxos, "server", "ours", rate), utxos, "Keypath", rate)
           /\ IsMade(ClaimByPreimage(utxos, Claimant(swap), rate), utxos, "Preimage", rate)
           /\ IsMade(RefundByCsv(utxos, Refunder(swap), rate), utxos, "Csv", rate)
<1>1. ASSUME NEW a, NEW b, {a, b} = {"ours", "server"}
      PROVE  IsMade(SpendByKeypath(utxos, a, b, rate), utxos, "Keypath", rate)
  <2>1. /\ SequenceOf(swap, "Keypath") = 0 /\ WitnessOf("Keypath") = KeypathWitness
        /\ SignersOf(swap, "Keypath") = SignKeypath(a, b) /\ LeafOf("Keypath") = "key"
    BY <1>1 DEF SequenceOf, WitnessOf, SignersOf, SignKeypath, Aggregate, LeafOf
  <2>2. BitcoinKeypath(utxos, a, b, rate) =
            BitcoinRounds(utxos, 0, KeypathWitness, SignKeypath(a, b), "key", rate)
    BY DEF BitcoinKeypath, BitcoinRounds
  <2>3. LiquidKeypath(utxos, a, b, rate) =
            LiquidRounds(utxos, 0, KeypathWitness, SignKeypath(a, b), "key", rate, 1)
    BY DEF LiquidKeypath, LiquidRounds, LiquidRound
  <2>4. "Keypath" \in Paths
    BY DEF Paths
  <2> QED
    BY <2>1, <2>2, <2>3, <2>4, RoundsAreMade, WitnessLengths DEF SpendByKeypath
<1>2. IsMade(ClaimByPreimage(utxos, Claimant(swap), rate), utxos, "Preimage", rate)
  <2>1. /\ SequenceOf(swap, "Preimage") = 0 /\ WitnessOf("Preimage") = ClaimWitness
        /\ SignersOf(swap, "Preimage") = {Claimant(swap)} /\ LeafOf("Preimage") = "claim"
    BY DEF SequenceOf, WitnessOf, SignersOf, LeafOf
  <2>2. BitcoinClaim(utxos, Claimant(swap), rate) =
            BitcoinRounds(utxos, 0, ClaimWitness, {Claimant(swap)}, "claim", rate)
    BY DEF BitcoinClaim, BitcoinRounds
  <2>3. LiquidClaim(utxos, Claimant(swap), rate) =
            LiquidRounds(utxos, 0, ClaimWitness, {Claimant(swap)}, "claim", rate, 4)
    BY DEF LiquidClaim, LiquidRounds, LiquidRound
  <2>4. "Preimage" \in Paths
    BY DEF Paths
  <2> QED
    BY <2>1, <2>2, <2>3, <2>4, RoundsAreMade, WitnessLengths DEF ClaimByPreimage
<1>3. IsMade(RefundByCsv(utxos, Refunder(swap), rate), utxos, "Csv", rate)
  <2>1. /\ SequenceOf(swap, "Csv") = Script.csv /\ WitnessOf("Csv") = CsvWitness
        /\ SignersOf(swap, "Csv") = {Refunder(swap)} /\ LeafOf("Csv") = "refund"
    BY ScriptIs DEF SequenceOf, WitnessOf, SignersOf, LeafOf
  <2>2. BitcoinRefund(utxos, Refunder(swap), rate) =
            BitcoinRounds(utxos, Script.csv, CsvWitness, {Refunder(swap)}, "refund", rate)
    BY DEF BitcoinRefund, BitcoinRounds
  <2>3. LiquidRefund(utxos, Refunder(swap), rate) =
            LiquidRounds(utxos, Script.csv, CsvWitness, {Refunder(swap)}, "refund", rate, 3)
    BY DEF LiquidRefund, LiquidRounds, LiquidRound
  <2>4. "Csv" \in Paths
    BY DEF Paths
  <2> QED
    BY <2>1, <2>2, <2>3, <2>4, RoundsAreMade, WitnessLengths DEF RefundByCsv
<1> QED
  BY <1>1, <1>2, <1>3

-----------------------------------------------------------------------------
(* Reading a spend back.                                                   *)

LEMMA PathsRead ==
    ASSUME NEW path \in Paths,
           NEW witness, witness \in {WitnessOf(path), Append(WitnessOf(path), "annex")}
    PROVE  SpendPath(witness) = path /\ (ExtractPreimage(witness) <=> path = "Preimage")
<1> DEFINE items == WitnessOf(path)
           annexed == Append(items, "annex")
           Items == {"signature", "preimage", "claim_script", "refund_script", "control", "annex"}
<1>1. \/ path = "Keypath" /\ items = <<"signature">>
      \/ path = "Preimage" /\ items = <<"signature", "preimage", "claim_script", "control">>
      \/ path = "Csv" /\ items = <<"signature", "refund_script", "control">>
  BY DEF Paths, WitnessOf, KeypathWitness, ClaimWitness, CsvWitness
<1>2. items \in Seq(Items) /\ Len(items) \in 1..4 /\ items[Len(items)] \in {"signature", "control"}
  <2>1. CASE items = <<"signature">>
    BY <2>1
  <2>2. CASE items = <<"signature", "preimage", "claim_script", "control">>
    BY <2>2
  <2>3. CASE items = <<"signature", "refund_script", "control">>
    BY <2>3
  <2> HIDE DEF items
  <2> QED
    BY <1>1, <2>1, <2>2, <2>3
<1>3. /\ Len(annexed) = Len(items) + 1 /\ annexed[Len(items) + 1] = "annex"
      /\ \A i \in 1..Len(items) : annexed[i] = items[i]
      /\ annexed \in Seq(Items)
  <2> HIDE DEF items
  <2>1. items \in Seq(Items)
    BY <1>2
  <2> QED
    BY <2>1
<1>4. SubSeq(annexed, 1, Len(items)) = items
  BY <1>2
<1> HIDE DEF items, annexed
<1>5. WithoutAnnex(annexed) = items
  <2>1. Len(annexed) > 1 /\ Last(annexed) = "annex"
    BY <1>2, <1>3 DEF Last
  <2>2. Front(annexed) = items
    <3>1. Len(annexed) - 1 = Len(items)
      BY <1>2, <1>3
    <3> QED
      BY <1>4, <3>1 DEF Front
  <2> QED
    BY <2>1, <2>2 DEF WithoutAnnex
<1>6. WithoutAnnex(items) = items
  BY <1>2 DEF WithoutAnnex, Last
<1>7. WithoutAnnex(witness) = items
  BY <1>5, <1>6 DEF items, annexed
<1>8. SpendPath(witness) = path
  <2>1. \/ path = "Keypath" /\ Len(items) = 1
        \/ path = "Preimage" /\ Len(items) = 4 /\ items[2] = "preimage" /\ items[3] = "claim_script"
        \/ path = "Csv" /\ Len(items) = 3 /\ items[2] = "refund_script"
    BY <1>1
  <2> QED
    BY <1>7, <2>1 DEF SpendPath
<1>9. (Len(witness) > 1 /\ witness[2] = "preimage") <=> path = "Preimage"
  <2>1. /\ path = "Keypath" => Len(items) = 1
        /\ path = "Preimage" => Len(items) = 4 /\ items[2] = "preimage"
        /\ path = "Csv" => Len(items) = 3 /\ items[2] = "refund_script"
        /\ path \in {"Keypath", "Preimage", "Csv"}
    BY <1>1
  <2>2. CASE witness = items
    BY <2>1, <2>2
  <2>3. CASE witness = annexed
    <3>4. /\ Len(items) = 1 => annexed[2] = "annex"
          /\ Len(items) \in {3, 4} => annexed[2] = items[2] /\ Len(annexed) > 1
      BY <1>2, <1>3
    <3>1. path = "Keypath" => annexed[2] = "annex"
      BY <2>1, <3>4
    <3>2. path = "Preimage" => Len(annexed) > 1 /\ annexed[2] = "preimage"
      BY <2>1, <3>4
    <3>3. path = "Csv" => annexed[2] = "refund_script"
      BY <2>1, <3>4
    <3> QED
      BY <2>1, <2>3, <3>1, <3>2, <3>3
  <2> QED
    BY <2>2, <2>3 DEF items, annexed
<1> QED
  BY <1>8, <1>9 DEF ExtractPreimage, BitcoinPreimage, LiquidPreimage

LEMMA MadeOpens ==
    ASSUME Agreed, NEW utxos, NEW path \in Paths, NEW rate \in Nat
    PROVE  Opens(Made(utxos, path, rate))
<1> DEFINE spend == Made(utxos, path, rate)
<1>1. /\ spend.witness = WitnessOf(path) /\ spend.sequence = SequenceOf(swap, path)
      /\ spend.signature.by = SignersOf(swap, path)
      /\ spend.signature.over = Sighash(spend, LeafOf(path))
  BY DEF Made, Record, Sighash
<1> HIDE DEF spend
<1>2. CASE path = "Keypath"
  <2>1. Len(spend.witness) = 1 /\ SignersOf(swap, path) = {"ours", "server"} /\ LeafOf(path) = "key"
    BY <1>1, <1>2, WitnessLengths DEF SignersOf, LeafOf
  <2>2. "refund_script" \notin Range(spend.witness)
    BY <1>1, <1>2 DEF WitnessOf, KeypathWitness, Range
  <2> QED
    BY <1>1, <2>1, <2>2, ScriptIs DEF Opens, spend
<1>3. CASE path = "Preimage"
  <2>1. Len(spend.witness) = 4 /\ SignersOf(swap, path) = {Claimant(swap)} /\ LeafOf(path) = "claim"
    BY <1>1, <1>3, WitnessLengths DEF SignersOf, LeafOf
  <2>2. "refund_script" \notin Range(spend.witness)
    BY <1>1, <1>3 DEF WitnessOf, ClaimWitness, Range
  <2> QED
    BY <1>1, <2>1, <2>2, ScriptIs DEF Opens, spend
<1>4. CASE path = "Csv"
  <2>1. /\ Len(spend.witness) = 3 /\ SignersOf(swap, path) = {Refunder(swap)} /\ LeafOf(path) = "refund"
        /\ SequenceOf(swap, path) = swap.csv
    BY <1>1, <1>4, WitnessLengths DEF SignersOf, LeafOf, SequenceOf
  <2>2. "refund_script" \in Range(spend.witness)
    BY <1>1, <1>4 DEF WitnessOf, CsvWitness, Range
  <2> QED
    BY <1>1, <2>1, <2>2, ScriptIs DEF Opens, spend
<1> QED
  BY <1>2, <1>3, <1>4 DEF Paths

-----------------------------------------------------------------------------
(* The outputs, and what they add up to.                                   *)

\* What the constants are: amounts in sats, of which there is a most, and
\* batches that the builders take.
Amounts ==
    /\ \A chain \in {"Bitcoin", "Liquid"} :
          /\ Values[chain] \subseteq Nat \ {0}
          /\ \E most \in Values[chain] : \A value \in Values[chain] : value <= most
          /\ Rates[chain] \subseteq Nat /\ Rates[chain] # {}
          /\ MaxFeeRate[chain] \in Nat
    /\ Csvs \subseteq Nat
    /\ Dests \subseteq {"p2pkh", "p2sh", "p2wpkh", "p2tr"}
    /\ FundsPerPass \in Nat \ {0} /\ MaxInputs \in Nat /\ FundsPerPass <= MaxInputs
    /\ None \notin Paths

Funded == outs \in Seq(OutSet(swap.chain))

LEMMA OutputsAre ==
    ASSUME Amounts, swap.chain \in {"Bitcoin", "Liquid"}, NEW out \in OutSet(swap.chain)
    PROVE  out.value \in Values[swap.chain] /\ out.value \in Nat /\ out.value > 0
<1> DEFINE good(v) == [pays |-> TRUE, asset |-> "policy", blinded |-> BlindingKey, value |-> v]
           most == good(Max(Values[swap.chain]))
<1>1. Max(Values[swap.chain]) \in Values[swap.chain]
  BY DEF Amounts, Max
<1>2. \/ \E v \in Values[swap.chain] : out = good(v)
      \/ out = [most EXCEPT !.pays = FALSE]
      \/ out = [most EXCEPT !.asset = "other"]
      \/ out = [most EXCEPT !.blinded = Explicit]
      \/ out = [most EXCEPT !.blinded = SharedKey("ours", "another")]
  BY DEF OutSet
<1>3. out.value \in Values[swap.chain]
  BY <1>1, <1>2
<1> QED
  BY <1>3 DEF Amounts

LEMMA TotalIs ==
    ASSUME Amounts, swap.chain \in {"Bitcoin", "Liquid"}, Funded,
           NEW utxos \in Seq(DOMAIN outs)
    PROVE  /\ TotalOf(utxos) \in Nat
           /\ \A least \in Nat :
                 (\A i \in 1..Len(utxos) : outs[utxos[i]].value >= least)
                     => TotalOf(utxos) >= Len(utxos) * least
<1> DEFINE amounts == [i \in 1..Len(utxos) |-> outs[utxos[i]].value]
<1>1. \A o \in DOMAIN outs : outs[o].value \in Nat
  <2>1. \A o \in DOMAIN outs : outs[o] \in OutSet(swap.chain)
    BY DEF Funded
  <2> QED
    BY <2>1, OutputsAre
<1>2. Len(utxos) \in Nat /\ \A i \in 1..Len(utxos) : utxos[i] \in DOMAIN outs
  OBVIOUS
<1>3. /\ amounts \in Seq(Nat) /\ Len(amounts) = Len(utxos)
      /\ \A i \in 1..Len(utxos) : amounts[i] = outs[utxos[i]].value
  BY <1>1, <1>2
<1>4. TotalOf(utxos) = Sum(amounts)
  BY DEF TotalOf
<1> HIDE DEF amounts
<1>5. TotalOf(utxos) \in Nat
  BY <1>3, <1>4, SumTyped
<1>6. ASSUME NEW least \in Nat, \A i \in 1..Len(utxos) : outs[utxos[i]].value >= least
      PROVE  TotalOf(utxos) >= Len(utxos) * least
  BY <1>3, <1>4, <1>6, SumAtLeast
<1> QED
  BY <1>5, <1>6

LEMMA TotalOfOne ==
    ASSUME Amounts, swap.chain \in {"Bitcoin", "Liquid"}, Funded, NEW o \in DOMAIN outs
    PROVE  TotalOf(<<o>>) = outs[o].value
<1> DEFINE amounts == [i \in 1..Len(<<o>>) |-> outs[<<o>>[i]].value]
<1>1. outs[o].value \in Nat
  <2>1. outs[o] \in OutSet(swap.chain)
    BY DEF Funded
  <2> QED
    BY <2>1, OutputsAre
<1>2. amounts \in Seq(Nat) /\ Len(amounts) = 1 /\ amounts[1] = outs[o].value
  BY <1>1
<1>3. TotalOf(<<o>>) = Sum(amounts)
  BY DEF TotalOf
<1> HIDE DEF amounts
<1>4. PICK s : /\ Sum(amounts) = s[Len(amounts)] /\ s[0] = 0
               /\ \A i \in 1..Len(amounts) : s[i] = s[i - 1] + amounts[i]
  <2>1. amounts \in Seq(Nat)
    BY <1>2
  <2> QED
    BY <2>1, SumIs, Zenon
<1>5. s[1] = s[1 - 1] + amounts[1] /\ 1 - 1 = 0
  BY <1>2, <1>4
<1> QED
  BY <1>1, <1>2, <1>3, <1>4, <1>5

-----------------------------------------------------------------------------
(* What the passes choose is afforded.                                     *)

LEMMA DustIs == ASSUME Agreed PROVE DustOf[swap.dest] \in Nat /\ DustOf[swap.dest] <= 546
  BY DEF Agreed, Terms, DustOf

LEMMA OursAre ==
    ASSUME Amounts, Agreed, Funded, NEW o \in Ours
    PROVE  /\ o \in DOMAIN outs /\ outs[o].value \in Nat /\ ValueOf(outs[o]) = outs[o].value
           /\ swap.chain # "Bitcoin" => ValidPrevout(outs[o])
<1>1. o \in DOMAIN outs /\ outs[o] \in OutSet(swap.chain) /\ IsOurs(outs[o])
  BY DEF Ours, Funded
<1>2. swap.chain \in {"Bitcoin", "Liquid"}
  BY DEF Agreed, Terms
<1>3. outs[o].value \in Nat
  BY <1>1, <1>2, OutputsAre
<1>4. ValueOf(outs[o]) = outs[o].value
  BY <1>1 DEF IsOurs, ValueOf
<1>5. swap.chain # "Bitcoin" => ValidPrevout(outs[o])
  BY <1>1, <1>4 DEF IsOurs, ValueOf, ValidPrevout, LiquidOpening
<1> QED
  BY <1>1, <1>3, <1>4, <1>5

(* A batch: some of the funds worth refunding, each once, no more than the  *)
(* builders take.                                                           *)
LEMMA BatchesAre ==
    ASSUME Amounts, Agreed, Funded, NEW rate \in Nat, NEW utxos \in Batches(rate), utxos # <<>>
    PROVE  /\ utxos \in Seq(Economical(Ours, rate)) /\ Len(utxos) \in Nat \ {0}
           /\ Len(utxos) <= MaxInputs /\ IsInjective(utxos)
<1> DEFINE worth == Economical(Ours, rate)
           k == Cardinality(worth)
<1>1. k \in Nat
  <2>1. worth \subseteq 1..Len(outs)
    BY DEF Economical, Ours, Funded
  <2>2. IsFiniteSet(1..Len(outs))
    BY FS_Interval DEF Funded
  <2> HIDE DEF worth
  <2> QED
    BY <2>1, <2>2, FS_Subset, FS_CardinalityType
<1>2. PICK s \in Sorted(worth) : utxos = SubSeq(s, 1, Min2(FundsPerPass, Len(s)))
  BY DEF Batches
<1> HIDE DEF worth
<1>3. s \in [1..k -> worth] /\ \A i, j \in 1..k : i # j => s[i] # s[j]
  BY DEF Sorted, SetToSeqs
<1> HIDE DEF k
<1>4. s \in Seq(worth) /\ Len(s) = k
  BY <1>1, <1>3
<1> DEFINE n == Min2(FundsPerPass, Len(s))
<1>5. n \in Nat /\ n <= k /\ n <= MaxInputs
  BY <1>1, <1>4 DEF Min2, Amounts
<1> HIDE DEF n
<1>6. utxos = SubSeq(s, 1, n)
  BY <1>2 DEF n
<1>7. utxos \in Seq(worth) /\ Len(utxos) = n /\ \A i \in 1..n : utxos[i] = s[i]
  BY <1>1, <1>4, <1>5, <1>6
<1>8. DOMAIN utxos = 1..n
  BY <1>7
<1>9. IsInjective(utxos)
  BY <1>1, <1>3, <1>5, <1>7, <1>8 DEF IsInjective
<1>10. n # 0
  BY <1>7
<1> QED
  BY <1>5, <1>7, <1>9, <1>10 DEF worth

LEMMA RefundsFit ==
    ASSUME Amounts, Agreed, Funded, NEW rate \in Nat, NEW utxos \in Batches(rate), utxos # <<>>,
           NEW path \in {"Csv", "Keypath"}
    PROVE  utxos \in Seq(DOMAIN outs) /\ Fits(utxos, path, rate)
<1> DEFINE n == Len(utxos)
           one == FeeForVsize(swap.chain, RefundVsize[swap.chain], rate)
           weight == WeightOf(utxos, path)
           fee == FeeOf(swap, weight, rate)
           floor == IF swap.chain = "Bitcoin" THEN 546 ELSE 0
<1>1. /\ utxos \in Seq(Economical(Ours, rate)) /\ n \in Nat \ {0} /\ n <= MaxInputs
      /\ IsInjective(utxos)
  BY BatchesAre
<1>2. swap.chain \in {"Bitcoin", "Liquid"} /\ RefundVsize[swap.chain] \in Nat
  BY DEF Agreed, Terms, RefundVsize
<1>3. \A o \in Economical(Ours, rate) :
         o \in Ours /\ ValueOf(outs[o]) > RefundThreshold(swap.chain, rate)
  BY DEF Economical
<1>4. utxos \in Seq(DOMAIN outs)
  <2>1. Economical(Ours, rate) \subseteq DOMAIN outs
    BY DEF Economical, Ours
  <2> QED
    BY <1>1, <2>1
<1>5. weight \in Nat /\ weight <= 4 * (RefundVsize[swap.chain] * n)
  <2>1. /\ Weigh(swap, n, "Csv") \in Nat /\ Weigh(swap, n, "Keypath") \in Nat
        /\ Weigh(swap, n, "Keypath") <= Weigh(swap, n, "Csv")
        /\ Weigh(swap, n, "Csv") <= 4 * (RefundVsize[swap.chain] * n)
    BY <1>1, WeightsAre DEF Agreed, Paths
  <2>2. RefundVsize[swap.chain] * n \in Nat
    BY <1>1, <1>2
  <2> QED
    BY <2>1, <2>2 DEF WeightOf
<1>6. one \in Nat /\ fee \in Nat /\ fee <= n * one
  <2> HIDE DEF weight
  <2>1. n \in Nat
    BY <1>1
  <2> QED
    BY <1>2, <1>5, <2>1, FeeOfBatch, FeeCovers
<1>7. RefundThreshold(swap.chain, rate) = one + floor
  BY DEF RefundThreshold, MaxDust
<1> HIDE DEF weight, fee, one
<1>8. floor \in {0, 546} /\ floor \in Nat
  OBVIOUS
<1>9. \A i \in 1..n : outs[utxos[i]].value \in Nat /\ outs[utxos[i]].value >= one + floor + 1
  <2> TAKE i \in 1..n
  <2>1. utxos[i] \in Economical(Ours, rate)
    BY <1>1
  <2>2. utxos[i] \in Ours /\ ValueOf(outs[utxos[i]]) > one + floor
    BY <1>3, <1>7, <2>1
  <2>3. outs[utxos[i]].value \in Nat /\ ValueOf(outs[utxos[i]]) = outs[utxos[i]].value
    BY <2>2, OursAre
  <2> HIDE DEF floor
  <2> QED
    BY <1>6, <1>8, <2>2, <2>3
<1> DEFINE total == TotalOf(utxos)
<1>10. total \in Nat /\ total >= n * (one + floor + 1)
  <2>1. one + floor + 1 \in Nat
    BY <1>6, <1>8
  <2>2. /\ total \in Nat
        /\ \A least \in Nat : (\A i \in 1..n : outs[utxos[i]].value >= least) => total >= n * least
    BY <1>2, <1>4, TotalIs
  <2> HIDE DEF n, total, floor
  <2> QED
    BY <1>9, <2>1, <2>2
<1> HIDE DEF n, total
<1>11. total - fee >= floor + 1
  <2>1. n * (one + floor + 1) = n * one + n * (floor + 1) /\ n * one \in Nat
    BY <1>1, <1>6, <1>8
  <2>2. n * (floor + 1) >= floor + 1 /\ n * (floor + 1) \in Nat
    BY <1>1, <1>8
  <2> HIDE DEF floor
  <2> QED
    BY <1>6, <1>8, <1>10, <2>1, <2>2
<1>12. CASE swap.chain = "Bitcoin"
  <2>1. total - fee >= DustOf[swap.dest]
    <3>1. floor = 546
      BY <1>12
    <3>2. DustOf[swap.dest] \in Nat /\ DustOf[swap.dest] <= 546
      BY DustIs
    <3> HIDE DEF floor
    <3> QED
      BY <1>6, <1>10, <1>11, <3>1, <3>2
  <2> QED
    BY <1>1, <1>4, <1>12, <2>1 DEF Fits, BitcoinFits, fee, total, weight
<1>13. CASE swap.chain # "Bitcoin"
  <2>1. total > fee
    BY <1>6, <1>8, <1>10, <1>11
  <2>2. \A o \in Range(utxos) : ValidPrevout(outs[o])
    <3>1. \A o \in Range(utxos) : o \in Economical(Ours, rate)
      BY <1>1 DEF Range
    <3> QED
      BY <1>3, <1>13, <3>1, OursAre
  <2> QED
    BY <1>1, <1>4, <1>13, <2>1, <2>2 DEF Fits, LiquidFits, fee, total, weight, n
<1> QED
  BY <1>12, <1>13

LEMMA ClaimsFit ==
    ASSUME Amounts, Agreed, Funded, MaxInputs >= 1, 1 \in DOMAIN outs, OutputAt(outs[1]) # None,
           WorthDust, NEW rate \in Nat, rate <= MaxClaimFeeRate(swap.chain, outs[1].value),
           NEW path \in {"Preimage", "Keypath"}
    PROVE  Fits(<<1>>, path, rate)
<1> DEFINE value == outs[1].value
           floor == IF swap.chain = "Bitcoin" THEN 546 ELSE 0
           v == ClaimVsize[swap.chain]
           k == (value - floor) \div v
           weight == WeightOf(<<1>>, path)
           fee == FeeOf(swap, weight, rate)
<1>1. swap.chain \in {"Bitcoin", "Liquid"}
  BY DEF Agreed, Terms
<1>2. value \in Values[swap.chain] /\ value \in Nat /\ value > 0 /\ TotalOf(<<1>>) = value
  <2>1. outs[1] \in OutSet(swap.chain)
    BY DEF Funded
  <2> QED
    BY <1>1, <2>1, OutputsAre, TotalOfOne
<1>3. floor \in Nat /\ value >= floor
  <2>1. swap.chain = "Bitcoin" => value >= 546
    BY DEF WorthDust, MaxDust
  <2> HIDE DEF value
  <2> QED
    BY <1>2, <2>1
<1>4. v \in Nat \ {0} /\ (swap.chain = "Bitcoin" => v = 152) /\ (swap.chain = "Liquid" => v = 250)
  BY <1>1 DEF ClaimVsize
<1>5. rate <= 10 * k
  <2>1. MaxClaimFeeRate(swap.chain, value) =
            10 * ((IF value > floor THEN value - floor ELSE 0) \div v)
    BY DEF MaxClaimFeeRate, MaxDust
  <2> HIDE DEF value, floor, v
  <2>2. (IF value > floor THEN value - floor ELSE 0) = value - floor
    BY <1>2, <1>3
  <2> QED
    BY <2>1, <2>2 DEF value
<1>6. k \in Nat /\ v * k <= value - floor
  <2>1. value - floor \in Nat
    BY <1>2, <1>3
  <2> HIDE DEF value, floor, v
  <2> QED
    BY <1>4, <2>1, DivIs
<1> HIDE DEF k
<1>7. weight \in Nat /\ weight <= 4 * v /\ (swap.chain = "Liquid" => weight <= 932)
  <2>1. Len(<<1>>) = 1 /\ 1 \in Nat \ {0} /\ path \in Paths
    BY DEF Paths
  <2>2. /\ Weigh(swap, 1, path) \in Nat /\ Weigh(swap, 1, path) <= 4 * v
        /\ Weigh(swap, 1, "Preimage") \in Nat
        /\ Weigh(swap, 1, "Keypath") <= Weigh(swap, 1, "Preimage")
        /\ swap.chain = "Liquid" => Weigh(swap, 1, "Preimage") <= 932
    BY <2>1, WeightsAre DEF Agreed, Paths
  <2> QED
    BY <2>1, <2>2 DEF WeightOf
<1> HIDE DEF weight
<1>8. fee \in Nat /\ fee <= v * k
  <2>1. v \in Nat
    BY <1>4
  <2> HIDE DEF v
  <2> QED
    BY <1>5, <1>6, <1>7, <2>1, FeeCovers, FeeAtCeiling
<1>9. IsInjective(<<1>>) /\ <<1>> # <<>> /\ Len(<<1>>) = 1 /\ Range(<<1>>) = {1}
  BY DEF IsInjective, Range
<1>10. CASE swap.chain = "Bitcoin"
  <2>1. value - fee >= 546
    <3>1. floor = 546 /\ v * k \in Nat
      BY <1>4, <1>6, <1>10
    <3> HIDE DEF floor, value, fee, v
    <3> QED
      BY <1>2, <1>6, <1>8, <3>1
  <2>2. DustOf[swap.dest] \in Nat /\ DustOf[swap.dest] <= 546
    BY DustIs
  <2>3. value - fee >= DustOf[swap.dest]
    BY <1>2, <1>8, <2>1, <2>2
  <2> QED
    BY <1>2, <1>9, <1>10, <2>3 DEF Fits, BitcoinFits, weight
<1>11. CASE swap.chain = "Liquid"
  <2>1. weight <= 4 * 233 /\ v = 250 /\ floor = 0
    BY <1>4, <1>7, <1>11
  <2>2. fee <= 233 * k
    BY <1>5, <1>6, <1>7, <2>1, FeeAtCeiling
  <2>3. value > fee
    <3> HIDE DEF value, fee, floor, v
    <3> QED
      BY <1>2, <1>6, <1>8, <2>1, <2>2
  <2>4. ValidPrevout(outs[1])
    BY <1>11 DEF OutputAt, ValidPrevout
  <2> QED
    BY <1>2, <1>9, <1>11, <2>3, <2>4 DEF Fits, LiquidFits, weight
<1> QED
  BY <1>1, <1>10, <1>11

-----------------------------------------------------------------------------
(* The invariant.                                                          *)

Total(os, utxos) == Sum([i \in 1..Len(utxos) |-> os[utxos[i]].value])

OpeningOf(terms, out) ==
    LET secrets == IF out.blinded \in {Explicit, NewScript(terms).blinding} THEN [asset |-> out.asset]
                                                                         ELSE None
    IN IF terms.chain = "Bitcoin" THEN IF out.pays THEN out.value ELSE None
       ELSE IF secrets # None /\ out.pays /\ secrets.asset = "policy" THEN out.value ELSE None

\* The spend in the mempool is one of ours or of the server's by a path of the
\* script, over outputs of the swap, and pays what they hold but its fee.
Spent(terms, os, spend) ==
    /\ spend.utxos \in Seq(DOMAIN os) /\ Len(spend.utxos) \in Nat \ {0}
    /\ terms.side = "Dest" => Len(spend.utxos) = 1
    /\ spend.fee \in Nat /\ spend.value \in Nat
    /\ spend.value + spend.fee = Total(os, spend.utxos)
    /\ \E path \in Paths :
          /\ spend.witness \in {WitnessOf(path), Append(WitnessOf(path), "annex")}
          /\ spend.signature.by = SignersOf(terms, path)
          /\ spend.weight = Weigh(terms, Len(spend.utxos), path)

AgreedOn(terms) == terms \in Terms /\ terms.csv >= 1 /\ terms.csv <= 65535

Typed ==
    /\ swap = None => outs = <<>> /\ tx = None /\ pass = Idle
    /\ swap # None => AgreedOn(swap) /\ outs \in Seq(OutSet(swap.chain))
    /\ pass \in [did : {"nothing", "sent", "failed", "refused"}, rate : Nat]

\* A claim has one output, and it opens.
OneOpening ==
    (swap # None /\ swap.side = "Dest") =>
        /\ Len(outs) <= 1
        /\ \A o \in DOMAIN outs : OpeningOf(swap, outs[o]) # None

Spending == tx # None => Spent(swap, outs, tx)

\* A refund that was tried is in the mempool.
Tried == (swap # None /\ swap.side = "Source" /\ tx = None) => pass.did \notin {"failed", "refused"}

Inv == Typed /\ OneOpening /\ Spending /\ Tried /\ ClaimsAlwaysBuild /\ SpendKeepsUp

-----------------------------------------------------------------------------
LEMMA TotalAlike == \A utxos : TotalOf(utxos) = Total(outs, utxos)
  BY DEF TotalOf, Total

LEMMA OpeningAlike == \A out : OutputAt(out) = OpeningOf(swap, out)
  BY DEF OutputAt, OpeningOf, BitcoinOpening, LiquidOpening, PrevoutSecrets, Script

LEMMA AgreedAlike == Typed /\ swap # None => Agreed /\ Funded /\ swap.chain \in {"Bitcoin", "Liquid"}
  BY DEF Typed, AgreedOn, Agreed, Funded, Terms

(* What was built is a spend by its path.                                   *)
LEMMA MadeIsSpent ==
    ASSUME Amounts, Agreed, Funded, NEW path \in Paths, NEW rate \in Nat,
           NEW utxos \in Seq(DOMAIN outs), Len(utxos) \in Nat \ {0},
           swap.side = "Dest" => Len(utxos) = 1,
           NEW r, IsMade(r, utxos, path, rate), Built(r)
    PROVE  /\ Spent(swap, outs, r) /\ r.witness = WitnessOf(path) /\ Opens(r)
           /\ r.signature.by = SignersOf(swap, path) /\ r.weight = WeightOf(utxos, path)
           /\ r.fee = FeeOf(swap, WeightOf(utxos, path), rate) /\ r.utxos = utxos
<1> DEFINE weight == WeightOf(utxos, path)
           fee == FeeOf(swap, weight, rate)
<1>1. r = Made(utxos, path, rate) /\ TotalOf(utxos) - fee \in Nat
  BY DEF IsMade
<1>2. weight \in Nat /\ fee \in Nat
  <2>1. weight \in Nat
    BY WeightsAre DEF Agreed, WeightOf
  <2> QED
    BY <2>1, FeeCovers
<1>3. TotalOf(utxos) \in Nat
  BY TotalIs DEF Agreed, Terms
<1>4. /\ r.utxos = utxos /\ r.witness = WitnessOf(path) /\ r.fee = fee
      /\ r.value = TotalOf(utxos) - fee /\ r.weight = weight
      /\ r.signature.by = SignersOf(swap, path)
  BY <1>1 DEF Made, Record
<1>5. Opens(r)
  BY <1>1, MadeOpens
<1> HIDE DEF weight, fee
<1>6. r.value \in Nat /\ r.value + r.fee = Total(outs, utxos)
  BY <1>1, <1>2, <1>3, <1>4, TotalAlike
<1>7. weight = Weigh(swap, Len(utxos), path)
  BY DEF weight, WeightOf
<1>8. Spent(swap, outs, r)
  BY <1>2, <1>4, <1>6, <1>7 DEF Spent
<1> QED
  BY <1>4, <1>5, <1>8 DEF weight, fee

(* A refused replacement paid no more, or no more by size, so that what it  *)
(* would have replaced keeps up as well.                                    *)
LEMMA RefusedKeeps ==
    ASSUME NEW fee \in Nat, NEW size \in Nat, NEW fee2 \in Nat, NEW size2 \in Nat, NEW rate \in Nat,
           size >= 1, size <= size2, 10 * fee2 >= (size2 - 1) * rate,
           fee2 <= fee \/ fee2 * size <= fee * size2
    PROVE  10 * fee >= (size - 1) * rate
<1>1. size - 1 \in Nat /\ size2 - 1 \in Nat /\ size - 1 <= size2 - 1
  OBVIOUS
<1>2. (size - 1) * rate \in Nat /\ (size2 - 1) * rate \in Nat
  BY <1>1
<1>3. CASE fee2 <= fee
  <2>1. rate * (size - 1) <= rate * (size2 - 1)
    BY <1>1, TimesMore
  <2>2. rate * (size - 1) = (size - 1) * rate /\ rate * (size2 - 1) = (size2 - 1) * rate
    BY <1>1
  <2> QED
    BY <1>2, <1>3, <2>1, <2>2
<1>4. CASE fee2 * size <= fee * size2
  <2> DEFINE need == (size - 1) * rate
             need2 == (size2 - 1) * rate
  <2>1. need \in Nat /\ need2 \in Nat /\ 10 * fee2 >= need2
    BY <1>2
  <2>2. size2 * need <= size * need2
    <3>1. (size - 1) * size2 <= size * (size2 - 1)
      <4>1. (size - 1) * size2 = size * size2 - size2 /\ size * (size2 - 1) = size * size2 - size
            /\ size * size2 \in Nat
        BY <1>1
      <4> QED
        BY <4>1
    <3>2. (size - 1) * size2 \in Nat /\ size * (size2 - 1) \in Nat
      BY <1>1
    <3>3. rate * ((size - 1) * size2) <= rate * (size * (size2 - 1))
      BY <3>1, <3>2, TimesMore
    <3>4. rate * ((size - 1) * size2) = size2 * need /\ rate * (size * (size2 - 1)) = size * need2
      BY <1>1
    <3> QED
      BY <3>3, <3>4
  <2> HIDE DEF need, need2
  <2>3. size * need2 <= size * (10 * fee2)
    BY <2>1, TimesMore
  <2>4. size * (10 * fee2) = 10 * (fee2 * size) /\ fee2 * size \in Nat /\ fee * size2 \in Nat
        /\ size2 * (10 * fee) = 10 * (fee * size2) /\ size2 * need \in Nat /\ size * need2 \in Nat
    BY <2>1
  <2>5. size2 * need <= size2 * (10 * fee)
    BY <1>4, <2>2, <2>3, <2>4
  <2>6. 10 * fee >= need
    <3>1. CASE 10 * fee < need
      <4>1. 10 * fee + 1 \in Nat /\ 10 * fee + 1 <= need
        BY <2>1, <3>1
      <4>2. size2 * (10 * fee + 1) <= size2 * need
        BY <2>1, <4>1, TimesMore
      <4>3. size2 * (10 * fee + 1) = size2 * (10 * fee) + size2 /\ size2 * (10 * fee) \in Nat
        OBVIOUS
      <4> QED
        BY <2>4, <2>5, <4>2, <4>3
    <3> QED
      BY <2>1, <3>1
  <2> QED
    BY <2>6 DEF need
<1> QED
  BY <1>3, <1>4

-----------------------------------------------------------------------------
(* A pass broadcasts what it built.                                        *)

LEMMA SizesAre ==
    ASSUME NEW weight \in Nat, NEW weight2 \in Nat, weight > 0, weight <= weight2
    PROVE  /\ CeilDiv(weight, 4) \in Nat /\ CeilDiv(weight2, 4) \in Nat
           /\ CeilDiv(weight, 4) >= 1 /\ CeilDiv(weight, 4) <= CeilDiv(weight2, 4)
<1>1. /\ CeilDiv(weight, 4) \in Nat /\ 4 * CeilDiv(weight, 4) >= weight
      /\ CeilDiv(weight2, 4) \in Nat /\ 4 * CeilDiv(weight2, 4) >= weight2
  <2>1. CeilDiv(weight, 4) \in Nat /\ 4 * CeilDiv(weight, 4) >= weight
    BY CeilIs
  <2>2. CeilDiv(weight2, 4) \in Nat /\ 4 * CeilDiv(weight2, 4) >= weight2
    BY CeilIs
  <2> QED
    BY <2>1, <2>2
<1> DEFINE size == CeilDiv(weight, 4)
           size2 == CeilDiv(weight2, 4)
<1>2. weight <= 4 * size2
  BY <1>1
<1>3. size <= size2
  BY <1>1, <1>2, CeilAtMost
<1> QED
  BY <1>1, <1>3

\* What a pass may broadcast: the spend of a path over outputs of the swap,
\* built if it has to be, no lighter than the one of ours it replaces.
Proposed(r, utxos, path, rate) ==
    /\ swap # None /\ path \in Paths /\ rate \in Nat
    /\ utxos \in Seq(DOMAIN outs) /\ Len(utxos) \in Nat \ {0}
    /\ swap.side = "Dest" => Len(utxos) = 1
    /\ IsMade(r, utxos, path, rate)
    /\ swap.side = "Dest" => outs # <<>> /\ (WorthDust => Built(r))
    /\ (swap.side = "Source" /\ tx = None) => Built(r)
    /\ (tx # None /\ SentByUs) => tx.weight <= WeightOf(utxos, path)

LEMMA BroadcastHolds ==
    ASSUME Amounts, Inv, NEW r, NEW utxos, NEW path, NEW rate,
           Proposed(r, utxos, path, rate), Broadcast(r, rate)
    PROVE  /\ Inv'
           /\ (swap.side = "Source" /\ tx = None) => pass'.did = "sent"
<1>1. /\ swap # None /\ path \in Paths /\ rate \in Nat
      /\ utxos \in Seq(DOMAIN outs) /\ Len(utxos) \in Nat \ {0}
      /\ swap.side = "Dest" => Len(utxos) = 1
      /\ IsMade(r, utxos, path, rate)
      /\ swap.side = "Dest" => outs # <<>> /\ (WorthDust => Built(r))
      /\ (swap.side = "Source" /\ tx = None) => Built(r)
      /\ (tx # None /\ SentByUs) => tx.weight <= WeightOf(utxos, path)
  BY DEF Proposed
<1>2. Agreed /\ Funded /\ swap.chain \in {"Bitcoin", "Liquid"}
  BY <1>1, AgreedAlike DEF Inv
<1> DEFINE weight == WeightOf(utxos, path)
<1>3. Built(r) =>
         /\ Spent(swap, outs, r) /\ r.witness = WitnessOf(path) /\ Opens(r)
         /\ r.signature.by = SignersOf(swap, path) /\ r.weight = weight
         /\ r.fee = FeeOf(swap, weight, rate) /\ r.utxos = utxos
  BY <1>1, <1>2, MadeIsSpent
<1>4. weight \in Nat
  BY <1>1, <1>2, WeightsAre DEF Agreed, WeightOf
<1>5. FeeOf(swap, weight, rate) \in Nat
      /\ 10 * FeeOf(swap, weight, rate) >= (CeilDiv(weight, 4) - 1) * rate
  BY <1>1, <1>4, FeeCovers
<1> HIDE DEF weight
<1> DEFINE accepted == Built(r) /\ Accepts(r)
<1>6. /\ UNCHANGED <<swap, outs>>
      /\ tx' = IF accepted THEN r ELSE tx
      /\ pass' = [did |-> IF ~Built(r) THEN "failed" ELSE IF accepted THEN "sent" ELSE "refused",
                  rate |-> rate]
  BY DEF Broadcast
<1>7. /\ pass'.rate = rate
      /\ ~Built(r) => pass'.did = "failed"
      /\ accepted => pass'.did = "sent"
      /\ Built(r) /\ ~accepted => pass'.did = "refused"
      /\ pass' \in [did : {"nothing", "sent", "failed", "refused"}, rate : Nat]
  BY <1>1, <1>6
<1>8. Built(r) /\ tx = None => accepted
  BY <1>3 DEF Accepts
<1>9. Typed'
  BY <1>1, <1>6, <1>7 DEF Inv, Typed
<1>10. OneOpening'
  BY <1>6 DEF Inv, OneOpening
<1>11. Spending'
  BY <1>3, <1>6 DEF Inv, Spending
<1>12. Tried' /\ ((swap.side = "Source" /\ tx = None) => pass'.did = "sent")
  BY <1>1, <1>6, <1>7, <1>8 DEF Tried
<1>13. ClaimsAlwaysBuild'
  BY <1>1, <1>6, <1>7 DEF ClaimsAlwaysBuild, WorthDust
<1>14. SpendKeepsUp'
  <2>1. CASE accepted
    <3>1. tx'.fee = FeeOf(swap, weight, rate) /\ tx'.weight = weight
      BY <1>3, <1>6, <2>1
    <3>2. 10 * tx'.fee >= (CeilDiv(tx'.weight, 4) - 1) * pass'.rate
      BY <1>5, <1>7, <3>1
    <3> QED
      BY <3>2 DEF SpendKeepsUp, Vsize
  <2>2. CASE ~Built(r)
    BY <1>7, <2>2 DEF SpendKeepsUp
  <2>3. CASE Built(r) /\ ~accepted
    <3>1. tx' = tx
      BY <1>6, <2>3
    <3>2. SUFFICES ASSUME tx # None, SentByUs
                   PROVE  10 * tx.fee >= (CeilDiv(tx.weight, 4) - 1) * rate
      BY <1>7, <3>1 DEF SpendKeepsUp, Vsize, SentByUs
    <3>3. tx.fee \in Nat /\ tx.weight \in Nat /\ tx.weight > 0
      <4>1. Spent(swap, outs, tx)
        BY <3>2 DEF Inv, Spending
      <4>2. PICK p \in Paths : tx.weight = Weigh(swap, Len(tx.utxos), p)
        BY <4>1 DEF Spent
      <4>3. tx.fee \in Nat /\ Len(tx.utxos) \in Nat \ {0}
        BY <4>1 DEF Spent
      <4> QED
        BY <1>2, <4>2, <4>3, WeightsAre DEF Agreed
    <3>4. tx.weight <= weight
      BY <1>1, <3>2 DEF weight
    <3>5. r.fee <= tx.fee \/ r.fee * CeilDiv(tx.weight, 4) <= tx.fee * CeilDiv(weight, 4)
      <4>1. r.fee \in Nat /\ r.weight = weight
        BY <1>3, <1>5, <2>3
      <4>2. /\ CeilDiv(tx.weight, 4) \in Nat /\ CeilDiv(weight, 4) \in Nat
        BY <1>4, <3>3, <3>4, SizesAre
      <4>3. ~(r.fee > tx.fee /\ r.fee * CeilDiv(tx.weight, 4) > tx.fee * CeilDiv(r.weight, 4))
        BY <1>3, <2>3, <3>2 DEF Accepts, Vsize
      <4>4. /\ r.fee * CeilDiv(tx.weight, 4) \in Nat
            /\ tx.fee * CeilDiv(weight, 4) \in Nat
        BY <3>3, <4>1, <4>2
      <4> QED
        BY <3>3, <4>1, <4>3, <4>4
    <3>6. r.fee = FeeOf(swap, weight, rate)
      BY <1>3, <2>3
    <3>7. /\ CeilDiv(tx.weight, 4) \in Nat /\ CeilDiv(weight, 4) \in Nat
          /\ CeilDiv(tx.weight, 4) >= 1 /\ CeilDiv(tx.weight, 4) <= CeilDiv(weight, 4)
      BY <1>4, <3>3, <3>4, SizesAre
    <3> QED
      BY <1>1, <1>5, <3>3, <3>5, <3>6, <3>7, RefusedKeeps
  <2> QED
    BY <2>1, <2>2, <2>3
<1> QED
  BY <1>9, <1>10, <1>11, <1>12, <1>13, <1>14 DEF Inv

-----------------------------------------------------------------------------
(* The steps.                                                              *)

LEMMA InvStarts == Init => Inv
  BY DEF Init, Inv, Typed, OneOpening, Spending, Tried, ClaimsAlwaysBuild, WorthDust, SpendKeepsUp, Idle

\* What the mempool's spend is read as.
LEMMA PendingIs ==
    ASSUME Inv, tx # None
    PROVE  /\ SpendPath(tx.witness) \in Paths
           /\ swap # None
           /\ tx.utxos \in Seq(DOMAIN outs) /\ Len(tx.utxos) \in Nat \ {0}
           /\ swap.side = "Dest" => Len(tx.utxos) = 1
           /\ tx.signature.by = SignersOf(swap, SpendPath(tx.witness))
           /\ tx.weight = WeightOf(tx.utxos, SpendPath(tx.witness))
<1>1. Spent(swap, outs, tx) /\ swap # None
  BY DEF Inv, Spending, Typed
<1>2. PICK path \in Paths :
          /\ tx.witness \in {WitnessOf(path), Append(WitnessOf(path), "annex")}
          /\ tx.signature.by = SignersOf(swap, path)
          /\ tx.weight = Weigh(swap, Len(tx.utxos), path)
  BY <1>1 DEF Spent
<1>3. SpendPath(tx.witness) = path
  BY <1>2, PathsRead
<1> QED
  BY <1>1, <1>2, <1>3 DEF Spent, WeightOf

LEMMA OutputsGrow ==
    ASSUME NEW S, NEW s \in Seq(S), NEW e \in S
    PROVE  /\ Append(s, e) \in Seq(S) /\ Len(Append(s, e)) = Len(s) + 1
           /\ \A i \in DOMAIN Append(s, e) : (i \in DOMAIN s /\ Append(s, e)[i] = s[i]) \/ Append(s, e)[i] = e
  OBVIOUS

LEMMA FundHolds ==
    ASSUME Amounts, Inv, swap # None, NEW out \in OutSet(swap.chain), Fund(out)
    PROVE  Inv' /\ pass'.did = "nothing"
<1>1. /\ tx = None /\ pass = Idle
      /\ swap.side = "Dest" => Len(outs) < 1 /\ OutputAt(out) # None
      /\ outs' = Append(outs, out) /\ UNCHANGED <<swap, keys, tx, pass>>
  BY DEF Fund
<1>2. outs \in Seq(OutSet(swap.chain)) /\ AgreedOn(swap)
  BY DEF Inv, Typed
<1>3. /\ outs' \in Seq(OutSet(swap.chain)) /\ Len(outs') = Len(outs) + 1 /\ Len(outs) \in Nat
      /\ \A i \in DOMAIN outs' : (i \in DOMAIN outs /\ outs'[i] = outs[i]) \/ outs'[i] = out
  BY <1>1, <1>2, OutputsGrow
<1>4. pass'.did = "nothing"
  BY <1>1 DEF Idle
<1>5. Typed'
  BY <1>1, <1>2, <1>3 DEF Inv, Typed
<1>6. OneOpening'
  <2>1. swap.side = "Dest" => OpeningOf(swap, out) # None
    BY <1>1, OpeningAlike
  <2> QED
    BY <1>1, <1>3, <2>1 DEF Inv, OneOpening
<1> QED
  BY <1>1, <1>4, <1>5, <1>6 DEF Inv, Spending, Tried, ClaimsAlwaysBuild, WorthDust, SpendKeepsUp

LEMMA AgreeHolds ==
    ASSUME Amounts, Inv, NEW terms \in [chain : Chains, side : {"Source", "Dest"}, csv : Csvs, dest : Dests],
           Agree(terms)
    PROVE  Inv' /\ swap = None
<1>1. /\ swap = None /\ NewScript(terms) # None
      /\ swap' = terms /\ UNCHANGED <<outs, tx, pass>>
  BY DEF Agree
<1>2. outs = <<>> /\ tx = None /\ pass = Idle
  BY <1>1 DEF Inv, Typed
<1>3. terms \in Terms
  <2>1. /\ DOMAIN terms = {"chain", "side", "csv", "dest"}
        /\ terms.chain \in {"Bitcoin", "Liquid"} /\ terms.side \in {"Source", "Dest"}
        /\ terms.csv \in Nat /\ terms.dest \in {"p2pkh", "p2sh", "p2wpkh", "p2tr"}
    BY DEF Amounts, Chains
  <2> QED
    BY DEF Terms, Chains, Amounts
<1>4. 0 < terms.csv /\ terms.csv <= 65535
  BY <1>1 DEF NewScript, BitcoinScript, LiquidScript, ValidParameters
<1>5. AgreedOn(terms)
  BY <1>3, <1>4 DEF AgreedOn, Terms
<1>6. Typed'
  BY <1>1, <1>2, <1>5 DEF Typed, Idle
<1> QED
  BY <1>1, <1>2, <1>6 DEF Inv, OneOpening, Spending, Tried, ClaimsAlwaysBuild, WorthDust, SpendKeepsUp, Idle

LEMMA KeysHold ==
    ASSUME Inv, UNCHANGED <<swap, outs, tx, pass>>
    PROVE  Inv'
  BY DEF Inv, Typed, OneOpening, Spending, Tried, ClaimsAlwaysBuild, WorthDust, SpendKeepsUp, Vsize, SentByUs

LEMMA LeastIs ==
    ASSUME NEW S \in SUBSET Nat, S # {}
    PROVE  Min(S) \in S
<1>1. PICK n \in S : \A m \in S : n <= m
  BY SmallestNat
<1> QED
  BY <1>1 DEF Min

LEMMA ServerHolds ==
    ASSUME Amounts, Inv, NEW annex \in BOOLEAN, ServerSpends(annex)
    PROVE  Inv' /\ pass'.did = "nothing"
<1> DEFINE o == <<Min(Ours)>>
           rate == Min(Rates[swap.chain])
           path == IF swap.side = "Source" THEN "Preimage" ELSE "Csv"
           spend == IF swap.side = "Source" THEN ClaimByPreimage(o, "server", rate)
                                            ELSE RefundByCsv(o, "server", rate)
<1>1. /\ swap # None /\ tx = None /\ Ours # {} /\ Built(spend)
      /\ tx' = [spend EXCEPT !.witness = IF annex THEN Append(@, "annex") ELSE @]
      /\ pass' = Idle /\ UNCHANGED <<swap, outs, keys>>
  BY DEF ServerSpends
<1>2. Agreed /\ Funded /\ swap.chain \in {"Bitcoin", "Liquid"} /\ swap.side \in {"Source", "Dest"}
  BY <1>1, AgreedAlike DEF Inv, Agreed, Terms
<1>3. rate \in Nat
  <2>1. Rates[swap.chain] \in SUBSET Nat /\ Rates[swap.chain] # {}
    BY <1>2 DEF Amounts
  <2> QED
    BY <2>1, LeastIs
<1>4. o \in Seq(DOMAIN outs) /\ Len(o) \in Nat \ {0} /\ Len(o) = 1
  <2>1. Ours \in SUBSET Nat
    BY <1>2 DEF Ours, Funded
  <2>2. Min(Ours) \in Ours
    BY <1>1, <2>1, LeastIs
  <2>3. Min(Ours) \in DOMAIN outs
    BY <2>2 DEF Ours
  <2> QED
    BY <2>3
<1>5. TotalOf(o) \in Nat
  BY <1>2, <1>4, TotalIs
<1> HIDE DEF o, rate
<1>6. path \in Paths /\ IsMade(spend, o, path, rate)
  <2>0. MaxInputs \in Nat
    BY DEF Amounts
  <2>1. CASE swap.side = "Source"
    <3>1. Claimant(swap) = "server"
      BY <2>1 DEF Claimant
    <3>2. IsMade(ClaimByPreimage(o, Claimant(swap), rate), o, "Preimage", rate)
      BY <1>2, <1>3, <1>4, <1>5, <2>0, SpendsAreMade
    <3> QED
      BY <2>1, <3>1, <3>2 DEF Paths
  <2>2. CASE swap.side # "Source"
    <3>1. Refunder(swap) = "server"
      BY <2>2 DEF Refunder
    <3>2. IsMade(RefundByCsv(o, Refunder(swap), rate), o, "Csv", rate)
      BY <1>2, <1>3, <1>4, <1>5, <2>0, SpendsAreMade
    <3> QED
      BY <2>2, <3>1, <3>2 DEF Paths
  <2> QED
    BY <2>1, <2>2
<1>7. SignersOf(swap, path) = {"server"}
  BY <1>2 DEF SignersOf, Claimant, Refunder
<1> HIDE DEF spend, path
<1>8. /\ Spent(swap, outs, spend) /\ spend.witness = WitnessOf(path)
      /\ spend.signature.by = {"server"} /\ spend.weight = WeightOf(o, path) /\ spend.utxos = o
      /\ spend = Made(o, path, rate)
  <2>1. spend = Made(o, path, rate)
    BY <1>1, <1>6 DEF IsMade
  <2>2. /\ path \in Paths /\ IsMade(spend, o, path, rate)
        /\ Built(spend) /\ (swap.side = "Dest" => Len(o) = 1)
    BY <1>1, <1>4, <1>6
  <2>3. o \in Seq(DOMAIN outs) /\ Len(o) \in Nat \ {0} /\ rate \in Nat
    BY <1>3, <1>4
  <2> HIDE DEF o, rate
  <2>4. /\ Spent(swap, outs, spend) /\ spend.witness = WitnessOf(path) /\ Opens(spend)
        /\ spend.signature.by = SignersOf(swap, path) /\ spend.weight = WeightOf(o, path)
        /\ spend.fee = FeeOf(swap, WeightOf(o, path), rate) /\ spend.utxos = o
    BY <1>2, <2>2, <2>3, MadeIsSpent
  <2> QED
    BY <1>7, <2>1, <2>4
<1> DEFINE witness == IF annex THEN Append(spend.witness, "annex") ELSE spend.witness
<1>9. /\ tx'.utxos = spend.utxos /\ tx'.fee = spend.fee /\ tx'.value = spend.value
      /\ tx'.signature = spend.signature /\ tx'.weight = spend.weight /\ tx'.witness = witness
  <2>1. DOMAIN spend = {"utxos", "sequence", "fee", "value", "dest", "witness", "signature", "weight"}
    BY <1>8 DEF Made, Record
  <2>2. tx' = [spend EXCEPT !.witness = witness]
    BY <1>1
  <2> HIDE DEF witness
  <2> QED
    BY <2>1, <2>2
<1>10. witness \in {WitnessOf(path), Append(WitnessOf(path), "annex")}
  BY <1>8
<1> HIDE DEF witness
<1>11. Spent(swap, outs, tx')
  <2>1. spend.weight = Weigh(swap, Len(o), path) /\ spend.signature.by = SignersOf(swap, path)
    BY <1>7, <1>8 DEF WeightOf
  <2>2. /\ spend.utxos \in Seq(DOMAIN outs) /\ Len(spend.utxos) \in Nat \ {0}
        /\ swap.side = "Dest" => Len(spend.utxos) = 1
        /\ spend.fee \in Nat /\ spend.value \in Nat
        /\ spend.value + spend.fee = Total(outs, spend.utxos)
    BY <1>8 DEF Spent
  <2> QED
    BY <1>6, <1>8, <1>9, <1>10, <2>1, <2>2 DEF Spent
<1>12. pass'.did = "nothing" /\ Typed'
  BY <1>1 DEF Inv, Typed, Idle
<1>13. Spending' /\ OneOpening' /\ Tried' /\ ClaimsAlwaysBuild'
  BY <1>1, <1>11, <1>12 DEF Inv, Spending, OneOpening, Tried, ClaimsAlwaysBuild, WorthDust
<1>14. SpendKeepsUp'
  <2>1. "ours" \notin tx'.signature.by
    BY <1>8, <1>9
  <2> QED
    BY <2>1 DEF SpendKeepsUp, SentByUs
<1> QED
  BY <1>12, <1>13, <1>14 DEF Inv

LEMMA SmallerIs == \A a, b \in Nat : Min2(a, b) \in Nat /\ Min2(a, b) <= a /\ Min2(a, b) <= b
  BY DEF Min2

LEMMA RefundHolds ==
    ASSUME Amounts, Inv, swap # None, NEW estimate \in Rates[swap.chain], Refund(estimate)
    PROVE  Inv' /\ (tx = None => pass'.did = "sent")
<1> DEFINE rate == Min2(estimate, MaxFeeRate[swap.chain])
           pending == IF tx # None THEN SpendPath(tx.witness) ELSE None
           path == RefundPath(pending)
<1>1. PICK utxos \in (IF tx # None THEN {tx.utxos} ELSE Batches(rate)) :
          /\ utxos # <<>>
          /\ Broadcast(IF path = "Csv" THEN RefundByCsv(utxos, "ours", rate)
                       ELSE SpendByKeypath(utxos, "server", "ours", rate), rate)
  BY DEF Refund
<1> DEFINE r == IF path = "Csv" THEN RefundByCsv(utxos, "ours", rate)
                ELSE SpendByKeypath(utxos, "server", "ours", rate)
<1>2. swap.side = "Source" /\ (tx # None => SentByUs)
  BY DEF Refund
<1>3. Agreed /\ Funded /\ swap.chain \in {"Bitcoin", "Liquid"}
  BY AgreedAlike DEF Inv
<1>4. rate \in Nat
  <2>1. estimate \in Nat /\ MaxFeeRate[swap.chain] \in Nat
    BY <1>3 DEF Amounts
  <2> QED
    BY <2>1, SmallerIs
<1>5. path \in {"Csv", "Keypath"} /\ path \in Paths /\ (pending = "Csv" => path = "Csv")
  BY DEF RefundPath, Paths
<1> HIDE DEF rate
<1>6. utxos \in Seq(DOMAIN outs) /\ Len(utxos) \in Nat \ {0} /\ (tx = None => Fits(utxos, path, rate))
  <2>1. CASE tx = None
    <3>1. utxos \in Batches(rate)
      BY <1>1, <2>1
    <3> HIDE DEF path
    <3>2. utxos \in Seq(DOMAIN outs) /\ Fits(utxos, path, rate)
      BY <1>1, <1>3, <1>4, <1>5, <3>1, RefundsFit
    <3>3. Len(utxos) \in Nat \ {0}
      BY <1>1, <1>3, <1>4, <3>1, BatchesAre
    <3> QED
      BY <3>2, <3>3
  <2>2. CASE tx # None
    <3>1. utxos = tx.utxos
      BY <1>1, <2>2
    <3> QED
      BY <2>2, <3>1, PendingIs
  <2> QED
    BY <2>1, <2>2
<1>7. (tx # None /\ SentByUs) => tx.weight <= WeightOf(utxos, path)
  <2>1. SUFFICES ASSUME tx # None, SentByUs PROVE tx.weight <= WeightOf(utxos, path)
    OBVIOUS
  <2>2. utxos = tx.utxos
    BY <1>1, <2>1
  <2>3. /\ pending = SpendPath(tx.witness) /\ pending \in Paths
        /\ tx.signature.by = SignersOf(swap, pending) /\ tx.weight = WeightOf(tx.utxos, pending)
    BY <2>1, PendingIs
  <2>4. pending # "Preimage"
    BY <1>2, <2>1, <2>3 DEF SentByUs, SignersOf, Claimant
  <2> HIDE DEF pending, path
  <2>5. pending = path \/ pending = "Keypath"
    BY <1>5, <2>3, <2>4 DEF Paths
  <2>6. /\ Weigh(swap, Len(utxos), "Keypath") <= Weigh(swap, Len(utxos), path)
        /\ Weigh(swap, Len(utxos), path) \in Nat
    BY <1>3, <1>5, <1>6, WeightsAre DEF Agreed
  <2> QED
    BY <2>2, <2>3, <2>5, <2>6 DEF WeightOf
<1> HIDE DEF path, pending
<1>8. IsMade(r, utxos, path, rate)
  <2>1. TotalOf(utxos) \in Nat /\ MaxInputs \in Nat
    BY <1>3, <1>6, TotalIs DEF Amounts
  <2>2. Refunder(swap) = "ours"
    BY <1>2 DEF Refunder
  <2>3. /\ IsMade(SpendByKeypath(utxos, "server", "ours", rate), utxos, "Keypath", rate)
        /\ IsMade(RefundByCsv(utxos, "ours", rate), utxos, "Csv", rate)
    BY <1>3, <1>4, <1>6, <2>1, <2>2, SpendsAreMade
  <2> QED
    BY <1>5, <2>3
<1> HIDE DEF r
<1>9. Proposed(r, utxos, path, rate)
  BY <1>2, <1>4, <1>5, <1>6, <1>7, <1>8 DEF Proposed, IsMade
<1>10. Broadcast(r, rate)
  BY <1>1 DEF r
<1> QED
  BY <1>2, <1>9, <1>10, BroadcastHolds

LEMMA ClaimHolds ==
    ASSUME Amounts, Inv, swap # None, NEW estimate \in Rates[swap.chain], Claim(estimate)
    PROVE  Inv' /\ swap.side = "Dest"
<1> DEFINE pending == IF tx = None THEN None ELSE SpendPath(tx.witness)
           rate == ClaimRate(estimate, pending, outs[1].value)
           path == ClaimPath(pending)
           utxos == <<1>>
           r == IF path = "Keypath" THEN SpendByKeypath(utxos, "ours", "server", rate)
                ELSE ClaimByPreimage(utxos, "ours", rate)
<1>1. swap.side = "Dest" /\ outs # <<>> /\ path # None /\ Broadcast(r, rate)
  BY DEF Claim
<1>2. Agreed /\ Funded /\ swap.chain \in {"Bitcoin", "Liquid"}
  BY AgreedAlike DEF Inv
<1>3. 1 \in DOMAIN outs /\ outs[1].value \in Nat /\ OutputAt(outs[1]) # None
  <2>1. 1 \in DOMAIN outs
    BY <1>1, <1>2 DEF Funded
  <2>2. outs[1] \in OutSet(swap.chain)
    BY <1>2, <2>1 DEF Funded
  <2>3. OpeningOf(swap, outs[1]) # None
    BY <1>1, <2>1 DEF Inv, OneOpening
  <2> QED
    BY <1>2, <2>1, <2>2, <2>3, OutputsAre, OpeningAlike
<1>4. rate \in Nat /\ rate <= MaxClaimFeeRate(swap.chain, outs[1].value)
  <2> DEFINE ceiling == MaxClaimFeeRate(swap.chain, outs[1].value)
             worth == outs[1].value
             floor == IF swap.chain = "Bitcoin" THEN MaxDust ELSE 0
             above == IF worth > floor THEN worth - floor ELSE 0
  <2>1. estimate \in Nat /\ MaxFeeRate[swap.chain] \in Nat
    BY <1>2 DEF Amounts
  <2>2. ceiling \in Nat
    <3>1. above \in Nat
      BY <1>3 DEF MaxDust
    <3>2. ClaimVsize[swap.chain] \in Nat \ {0}
      BY <1>2 DEF ClaimVsize
    <3>3. ceiling = 10 * (above \div ClaimVsize[swap.chain])
      BY DEF MaxClaimFeeRate
    <3> HIDE DEF above, ceiling
    <3>4. above \div ClaimVsize[swap.chain] \in Nat
      BY <3>1, <3>2, DivIs
    <3> QED
      BY <3>3, <3>4
  <2> HIDE DEF ceiling
  <2> DEFINE wanted == IF pending = "Csv" THEN MaxFeeRate[swap.chain]
                                          ELSE Min2(estimate, MaxFeeRate[swap.chain])
  <2>3. wanted \in Nat
    BY <2>1, SmallerIs
  <2>4. rate = Min2(wanted, ceiling)
    BY DEF ClaimRate, ceiling
  <2> HIDE DEF wanted, rate
  <2> QED
    BY <2>2, <2>3, <2>4, SmallerIs DEF ceiling
<1>5. path \in {"Keypath", "Preimage"}
  BY <1>1 DEF ClaimPath
<1> HIDE DEF rate
<1>6. utxos \in Seq(DOMAIN outs) /\ Len(utxos) \in Nat \ {0} /\ Len(utxos) = 1
  BY <1>3
<1>7. WorthDust => Fits(utxos, path, rate)
  <2>1. MaxInputs >= 1
    BY DEF Amounts
  <2> HIDE DEF path
  <2> QED
    BY <1>2, <1>3, <1>4, <1>5, <2>1, ClaimsFit
<1>8. (tx # None /\ SentByUs) => tx.weight <= WeightOf(utxos, path)
  <2>1. SUFFICES ASSUME tx # None, SentByUs PROVE tx.weight <= WeightOf(utxos, path)
    OBVIOUS
  <2>2. /\ pending = SpendPath(tx.witness) /\ pending \in Paths /\ Len(tx.utxos) = 1
        /\ tx.signature.by = SignersOf(swap, pending) /\ tx.weight = WeightOf(tx.utxos, pending)
    BY <1>1, <2>1, PendingIs
  <2>3. pending # "Csv"
    BY <1>1, <2>1, <2>2 DEF SentByUs, SignersOf, Refunder
  <2>4. pending = "Preimage" => path = "Preimage"
    BY DEF ClaimPath, Amounts, Paths
  <2> HIDE DEF pending, path
  <2>5. pending = path \/ pending = "Keypath"
    BY <1>5, <2>2, <2>3, <2>4 DEF Paths
  <2>6. /\ Weigh(swap, 1, "Keypath") <= Weigh(swap, 1, path)
        /\ Weigh(swap, 1, path) \in Nat
    <3>1. path \in Paths /\ 1 \in Nat \ {0}
      BY <1>5 DEF Paths
    <3> QED
      BY <1>2, <3>1, WeightsAre DEF Agreed
  <2>7. tx.weight = Weigh(swap, 1, pending) /\ WeightOf(utxos, path) = Weigh(swap, 1, path)
    BY <1>6, <2>2 DEF WeightOf
  <2> QED
    BY <2>5, <2>6, <2>7
<1> HIDE DEF path, pending, utxos
<1>9. IsMade(r, utxos, path, rate)
  <2>1. TotalOf(utxos) \in Nat /\ MaxInputs \in Nat
    BY <1>2, <1>6, TotalIs DEF Amounts
  <2>2. Claimant(swap) = "ours"
    BY <1>1 DEF Claimant
  <2>3. /\ IsMade(SpendByKeypath(utxos, "ours", "server", rate), utxos, "Keypath", rate)
        /\ IsMade(ClaimByPreimage(utxos, "ours", rate), utxos, "Preimage", rate)
    BY <1>2, <1>4, <1>6, <2>1, <2>2, SpendsAreMade
  <2> QED
    BY <1>5, <2>3
<1> HIDE DEF r
<1>10. Proposed(r, utxos, path, rate)
  BY <1>1, <1>4, <1>5, <1>6, <1>7, <1>8, <1>9 DEF Proposed, IsMade, Paths
<1> QED
  BY <1>1, <1>10, BroadcastHolds

LEMMA InvHolds ==
    ASSUME Amounts, Inv, [Next]_vars
    PROVE  /\ Inv'
           /\ (swap # None /\ swap.side = "Source" /\ tx = None) =>
                  pass'.did \notin {"failed", "refused"}
<1>1. ASSUME NEW terms \in [chain : Chains, side : {"Source", "Dest"}, csv : Csvs, dest : Dests],
             Agree(terms)
      PROVE  Inv' /\ swap = None
  BY <1>1, AgreeHolds
<1>2. ASSUME swap # None, NEW out \in OutSet(swap.chain), Fund(out)
      PROVE  Inv' /\ pass'.did = "nothing"
  BY <1>2, FundHolds
<1>3. ASSUME RevealKey \/ SendPreimage \/ Restore \/ UNCHANGED vars
      PROVE  /\ Inv'
             /\ (swap # None /\ swap.side = "Source" /\ tx = None) =>
                    pass'.did \notin {"failed", "refused"}
  <2>1. UNCHANGED <<swap, outs, tx, pass>>
    BY <1>3 DEF RevealKey, SendPreimage, Restore, vars
  <2> QED
    BY <2>1, KeysHold DEF Inv, Tried
<1>4. ASSUME NEW annex \in BOOLEAN, ServerSpends(annex)
      PROVE  Inv' /\ pass'.did = "nothing"
  BY <1>4, ServerHolds
<1>5. ASSUME swap # None, NEW estimate \in Rates[swap.chain], Refund(estimate)
      PROVE  Inv' /\ (tx = None => pass'.did = "sent")
  BY <1>5, RefundHolds
<1>6. ASSUME swap # None, NEW estimate \in Rates[swap.chain], Claim(estimate)
      PROVE  Inv' /\ swap.side = "Dest"
  BY <1>6, ClaimHolds
<1> QED
  BY <1>1, <1>2, <1>3, <1>4, <1>5, <1>6 DEF Next

LEMMA InvAlways ==
    ASSUME Amounts
    PROVE  Spec => []Inv
<1>1. Inv /\ [Next]_vars => Inv'
  BY InvHolds
<1> QED
  BY <1>1, InvStarts, PTL DEF Spec

-----------------------------------------------------------------------------
(* A batch that was weighed worth refunding builds and opens at the rate it *)
(* was weighed at, on either path, of any size and to any address.          *)
THEOREM RefundsAlwaysGoOut ==
    ASSUME Amounts
    PROVE  Spec => RefundsGoOut
<1>1. Inv /\ [Next]_vars =>
          ((swap # None /\ swap.side = "Source" /\ tx = None) =>
               pass'.did \notin {"failed", "refused"})
  BY InvHolds
<1> QED
  BY <1>1, InvAlways, PTL DEF Spec, RefundsGoOut

(* A claim at the ceiling of its opening builds on both paths.              *)
THEOREM ClaimsBuild ==
    ASSUME Amounts
    PROVE  Spec => []ClaimsAlwaysBuild
<1>1. Inv => ClaimsAlwaysBuild
  BY DEF Inv
<1> QED
  BY <1>1, InvAlways, PTL

(* A spend of ours in the mempool pays the rate of the last pass that       *)
(* rebuilt it, unless that pass could not afford to.                        *)
THEOREM SpendsKeepUp ==
    ASSUME Amounts
    PROVE  Spec => []SpendKeepsUp
<1>1. Inv => SpendKeepsUp
  BY DEF Inv
<1> QED
  BY <1>1, InvAlways, PTL

(* A spend in the mempool is read as what it is, by its witness.            *)
THEOREM SpendsAreReadBack ==
    ASSUME Amounts
    PROVE  Spec => []SpendIsReadBack
<1>1. Inv => SpendIsReadBack
  <2>1. SUFFICES ASSUME Inv, tx # None
                 PROVE  /\ SpendPath(tx.witness) = IF Cardinality(tx.signature.by) = 2 THEN "Keypath"
                                                     ELSE IF Script.refund \in tx.signature.by THEN "Csv" ELSE "Preimage"
                        /\ ExtractPreimage(tx.witness) <=> SpendPath(tx.witness) = "Preimage"
                        /\ TxFee(tx) = tx.fee /\ TotalOf(tx.utxos) = tx.value + tx.fee
    BY DEF SpendIsReadBack
  <2>2. swap # None /\ Spent(swap, outs, tx)
    BY <2>1 DEF Inv, Typed, Spending
  <2>3. Agreed /\ swap.side \in {"Source", "Dest"}
    BY <2>1, <2>2, AgreedAlike DEF Inv, Agreed, Terms
  <2>4. PICK path \in Paths :
            /\ tx.witness \in {WitnessOf(path), Append(WitnessOf(path), "annex")}
            /\ tx.signature.by = SignersOf(swap, path)
    BY <2>2 DEF Spent
  <2>5. SpendPath(tx.witness) = path /\ (ExtractPreimage(tx.witness) <=> path = "Preimage")
    BY <2>4, PathsRead
  <2>6. path = IF Cardinality(tx.signature.by) = 2 THEN "Keypath"
                 ELSE IF Script.refund \in tx.signature.by THEN "Csv" ELSE "Preimage"
    <3>1. Cardinality({"ours", "server"}) = 2
      <4>1. Cardinality({"ours"}) = 1 /\ IsFiniteSet({"ours"})
        BY FS_Singleton
      <4>2. {"ours", "server"} = {"ours"} \cup {"server"} /\ "server" \notin {"ours"}
        OBVIOUS
      <4> QED
        BY <4>1, <4>2, FS_AddElement
    <3>2. \A one : Cardinality({one}) = 1
      BY FS_Singleton
    <3>3. Script.refund = Refunder(swap) /\ Refunder(swap) # Claimant(swap)
      BY <2>3, ScriptIs DEF Refunder, Claimant
    <3>4. CASE path = "Keypath"
      BY <2>4, <3>1, <3>4 DEF SignersOf
    <3>5. CASE path = "Preimage"
      <4>1. tx.signature.by = {Claimant(swap)}
        BY <2>4, <3>5 DEF SignersOf
      <4> QED
        BY <3>2, <3>3, <3>5, <4>1
    <3>6. CASE path = "Csv"
      <4>1. tx.signature.by = {Refunder(swap)}
        BY <2>4, <3>6 DEF SignersOf
      <4> QED
        BY <3>2, <3>3, <3>6, <4>1
    <3> QED
      BY <3>4, <3>5, <3>6 DEF Paths
  <2>7. TotalOf(tx.utxos) = tx.value + tx.fee /\ tx.value \in Nat /\ tx.fee \in Nat
    BY <2>2, TotalAlike DEF Spent
  <2>8. TxFee(tx) = tx.fee
    BY <2>7 DEF TxFee, BitcoinTxFee, LiquidTxFee
  <2> QED
    BY <2>5, <2>6, <2>7, <2>8
<1> QED
  BY <1>1, InvAlways, PTL
=============================================================================
