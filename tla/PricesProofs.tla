---------------------------- MODULE PricesProofs ----------------------------
(***************************************************************************)
(* Theorems about Prices, for integers of any width and every policy: a    *)
(* quote gives the best price, and the range a refusal tells is exact.     *)
(*                                                                         *)
(* Both rest on one fact (Inverse): the two functions of a price are the   *)
(* two halves of a Galois connection, saturation and overflow included.    *)
(***************************************************************************)
EXTENDS Prices, TLAPS

\* u64s, parts of a million, and a None that is no amount.
Amounts ==
    /\ MaxU64 \in Nat /\ Million \in Nat \ {0}
    /\ Ppms \subseteq Nat /\ Bases \subseteq U64 /\ Multipliers \subseteq Nat
    /\ Ranges \subseteq [min : U64, max : U64]
    /\ None \notin Int

-----------------------------------------------------------------------------
(* Division rounds down.                                                   *)
LEMMA DivIs ==
    ASSUME NEW a \in Nat, NEW b \in Nat \ {0}
    PROVE  /\ a \div b \in Nat
           /\ (a \div b) * b <= a
           /\ a < ((a \div b) + 1) * b
  OBVIOUS

LEMMA MulMono ==
    ASSUME NEW x \in Int, NEW y \in Int, NEW b \in Nat, x <= y
    PROVE  x * b <= y * b
  OBVIOUS

(* A multiple fits under a number just when it fits under the quotient.    *)
LEMMA DivBound ==
    ASSUME NEW a \in Nat, NEW b \in Nat \ {0}, NEW n \in Int
    PROVE  n <= a \div b <=> n * b <= a
<1> DEFINE q == a \div b
<1>1. q \in Nat /\ q * b <= a /\ a < (q + 1) * b
  BY DivIs
<1> HIDE DEF q
<1>2. ASSUME n <= q PROVE n * b <= a
  <2>1. n * b <= q * b
    BY <1>1, <1>2, MulMono
  <2> QED
    BY <1>1, <2>1
<1>3. ASSUME ~(n <= q) PROVE ~(n * b <= a)
  <2>1. (q + 1) * b <= n * b
    BY <1>1, <1>3, MulMono
  <2> QED
    BY <1>1, <2>1
<1> QED
  BY <1>2, <1>3 DEF q

\* What the server asks on top of an amount, before it is held in 64 bits.
Part(receive, ppm) == (receive * ppm) \div Million

LEMMA PartIs ==
    ASSUME Amounts, NEW ppm \in Nat, NEW x \in Nat
    PROVE  /\ Part(x, ppm) \in Nat
           /\ Part(0, ppm) = 0
           /\ \A y \in Nat : x <= y => Part(x, ppm) <= Part(y, ppm)
<1>1. x * ppm \in Nat /\ 0 * ppm = 0
  OBVIOUS
<1>2. Part(x, ppm) \in Nat
  BY <1>1, DivIs DEF Part, Amounts
<1>3. Part(0, ppm) = 0
  BY <1>1 DEF Part, Amounts
<1>4. ASSUME NEW y \in Nat, x <= y PROVE Part(x, ppm) <= Part(y, ppm)
  <2>1. y * ppm \in Nat /\ x * ppm <= y * ppm
    BY <1>4, MulMono
  <2>2. Part(x, ppm) * Million <= x * ppm
    BY <1>1, DivIs DEF Part, Amounts
  <2>3. Part(x, ppm) * Million \in Int
    BY <1>2 DEF Amounts
  <2>4. Part(x, ppm) * Million <= y * ppm
    BY <1>1, <2>1, <2>2, <2>3
  <2> QED
    BY <1>2, <2>1, <2>4, DivBound DEF Part, Amounts
<1> QED
  BY <1>2, <1>3, <1>4

(* What is asked for an amount, saturated twice, is within an amount sent   *)
(* just when the sum it stands for is.                                      *)
LEMMA FeeWithin ==
    ASSUME Amounts, NEW ppm \in Nat, NEW base \in U64, NEW x \in Nat, NEW send \in U64
    PROVE  /\ SwapFee(x, ppm, base) \in base..MaxU64
           /\ \A y \in Nat : x <= y => SwapFee(x, ppm, base) <= SwapFee(y, ppm, base)
           /\ x + SwapFee(x, ppm, base) <= send <=> x + base + Part(x, ppm) <= send
<1> USE DEF Amounts, U64, SwapFee, ServiceFee, Saturating
<1>1. Part(x, ppm) \in Nat /\ Part(0, ppm) = 0
  BY PartIs
<1>2. SwapFee(x, ppm, base) = IF base + Part(x, ppm) > MaxU64 THEN MaxU64 ELSE base + Part(x, ppm)
  BY <1>1 DEF Part
<1>3. ASSUME NEW y \in Nat, x <= y PROVE SwapFee(x, ppm, base) <= SwapFee(y, ppm, base)
  <2>1. Part(y, ppm) \in Nat /\ Part(x, ppm) <= Part(y, ppm)
    BY <1>3, PartIs
  <2>2. SwapFee(y, ppm, base) = IF base + Part(y, ppm) > MaxU64 THEN MaxU64 ELSE base + Part(y, ppm)
    BY <2>1 DEF Part
  <2> HIDE DEF SwapFee
  <2> QED
    BY <1>1, <1>2, <2>1, <2>2
<1> HIDE DEF SwapFee
<1>4. CASE base + Part(x, ppm) > MaxU64
  <2>1. x # 0
    BY <1>1, <1>4
  <2> QED
    BY <1>1, <1>2, <1>3, <1>4, <2>1
<1>5. CASE ~(base + Part(x, ppm) > MaxU64)
  BY <1>1, <1>2, <1>3, <1>5
<1> QED
  BY <1>4, <1>5

(* The two prices are inverse up to rounding: an amount can be received for *)
(* what is sent just when what is asked for it is no more.                  *)
THEOREM Inverse ==
    ASSUME Amounts, NEW ppm \in Nat, NEW base \in U64, NEW send \in U64, base <= send,
           NEW x \in Nat
    PROVE  /\ MaxReceiveForSend(send, ppm, base) \in Nat
           /\ MaxReceiveForSend(send, ppm, base) <= send - base
           /\ x <= MaxReceiveForSend(send, ppm, base) <=>
                 /\ MinSendForReceive(x, ppm, base) # None
                 /\ MinSendForReceive(x, ppm, base) <= send
<1> DEFINE k == send - base
           r == MaxReceiveForSend(send, ppm, base)
           a == (k + 1) * Million - 1
<1>1. k \in Nat /\ a \in Nat /\ Million + ppm \in Nat \ {0} /\ r = a \div (Million + ppm)
  <2>1. k \in Nat /\ ~(send < base) /\ Million \in Nat \ {0} /\ Million + ppm \in Nat \ {0}
    BY DEF Amounts, U64
  <2>2. 1 * Million <= (k + 1) * Million
    BY <2>1, MulMono
  <2> QED
    BY <2>1, <2>2 DEF MaxReceiveForSend
<1> HIDE DEF r
<1>2. r \in Nat
  BY <1>1, DivIs
<1>3. \A y \in Nat : y <= r <=> y * (Million + ppm) <= a
  BY <1>1, DivBound
<1> HIDE DEF a
<1>4. ASSUME NEW y \in Nat PROVE y <= r <=> y + Part(y, ppm) <= k
  <2>1. y * ppm \in Nat /\ y * Million \in Nat /\ k * Million \in Nat /\ Million \in Nat \ {0}
    BY <1>1 DEF Amounts
  <2>2. y * (Million + ppm) = y * Million + y * ppm
    BY <2>1
  <2>3. a = k * Million + Million - 1
    BY <1>1, <2>1 DEF a
  <2>4. y <= r <=> y * ppm < (k + 1 - y) * Million
    <3>1. (k + 1 - y) * Million = k * Million + Million - y * Million
      BY <1>1, <2>1
    <3> QED
      BY <1>3, <2>1, <2>2, <2>3, <3>1
  <2>5. k + 1 - y <= Part(y, ppm) <=> (k + 1 - y) * Million <= y * ppm
    BY <1>1, <2>1, DivBound DEF Part
  <2>6. Part(y, ppm) \in Nat
    BY PartIs
  <2>7. (k + 1 - y) * Million \in Int
    BY <1>1, <2>1
  <2> QED
    BY <1>1, <2>1, <2>4, <2>5, <2>6, <2>7
<1>5. r <= k
  <2>1. r + Part(r, ppm) <= k /\ Part(r, ppm) \in Nat
    BY <1>2, <1>4, PartIs
  <2> QED
    BY <1>1, <1>2, <2>1
<1>6. x <= r <=> x + SwapFee(x, ppm, base) <= send
  <2>1. /\ x + SwapFee(x, ppm, base) <= send <=> x + base + Part(x, ppm) <= send
        /\ Part(x, ppm) \in Nat
    BY FeeWithin, PartIs
  <2>2. x + base + Part(x, ppm) <= send <=> x + Part(x, ppm) <= k
    BY <2>1 DEF U64, Amounts
  <2> QED
    BY <1>4, <2>1, <2>2
<1>7. SwapFee(x, ppm, base) \in Nat
  <2>1. SwapFee(x, ppm, base) \in base..MaxU64
    BY FeeWithin
  <2> QED
    BY <2>1 DEF Amounts, U64
<1>8. x <= r <=> /\ MinSendForReceive(x, ppm, base) # None
                 /\ MinSendForReceive(x, ppm, base) <= send
  BY <1>6, <1>7 DEF MinSendForReceive, Checked, U64, Amounts
<1> QED
  BY <1>2, <1>5, <1>8 DEF r

(* What is asked for an amount that fits: the fee is at least the base, and *)
(* more is asked for more.                                                  *)
LEMMA MinSendIs ==
    ASSUME Amounts, NEW ppm \in Nat, NEW base \in U64, NEW x \in Nat,
           MinSendForReceive(x, ppm, base) # None
    PROVE  LET send == MinSendForReceive(x, ppm, base)
           IN /\ send \in U64
              /\ x + base <= send
              /\ \A y \in Nat : y <= x => /\ MinSendForReceive(y, ppm, base) # None
                                        /\ MinSendForReceive(y, ppm, base) <= send
              /\ \A y \in Nat : x < y => \/ MinSendForReceive(y, ppm, base) = None
                                        \/ send < MinSendForReceive(y, ppm, base)
<1>1. SwapFee(x, ppm, base) \in base..MaxU64
  BY MaxU64 \in U64, FeeWithin DEF Amounts, U64
<1>2. SwapFee(x, ppm, base) \in Nat /\ base <= SwapFee(x, ppm, base)
  BY <1>1 DEF Amounts, U64
<1>3. /\ MinSendForReceive(x, ppm, base) = x + SwapFee(x, ppm, base)
      /\ x + SwapFee(x, ppm, base) <= MaxU64
  BY <1>2 DEF MinSendForReceive, Checked, U64, Amounts
<1>4. \A y \in Nat : SwapFee(y, ppm, base) \in Nat
  <2> SUFFICES ASSUME NEW y \in Nat PROVE SwapFee(y, ppm, base) \in Nat
    OBVIOUS
  <2>1. SwapFee(y, ppm, base) \in base..MaxU64
    BY MaxU64 \in U64, FeeWithin DEF Amounts, U64
  <2> QED
    BY <2>1 DEF Amounts, U64
<1>5. ASSUME NEW y \in Nat, y <= x
      PROVE  /\ MinSendForReceive(y, ppm, base) # None
             /\ MinSendForReceive(y, ppm, base) <= MinSendForReceive(x, ppm, base)
  <2>1. SwapFee(y, ppm, base) <= SwapFee(x, ppm, base)
    BY <1>5, MaxU64 \in U64, FeeWithin DEF Amounts, U64
  <2> QED
    BY <1>2, <1>3, <1>4, <1>5, <2>1 DEF MinSendForReceive, Checked, U64, Amounts
<1>6. ASSUME NEW y \in Nat, x < y
      PROVE  \/ MinSendForReceive(y, ppm, base) = None
             \/ MinSendForReceive(x, ppm, base) < MinSendForReceive(y, ppm, base)
  <2>1. SwapFee(x, ppm, base) <= SwapFee(y, ppm, base)
    BY <1>6, MaxU64 \in U64, FeeWithin DEF Amounts, U64
  <2> QED
    BY <1>2, <1>3, <1>4, <1>6, <2>1 DEF MinSendForReceive, Checked
<1> QED
  BY <1>2, <1>3, <1>5, <1>6 DEF U64, Amounts

-----------------------------------------------------------------------------
\* An answer is the quote of the amount asked, under the offer that was read.
Inv ==
    /\ offer # None => offer \in Offer
    /\ answer # NoAnswer =>
          /\ offer # None
          /\ answer.pin \in {"Receive", "Send"} /\ answer.amount \in U64
          /\ answer.quote = Quote(offer, answer.pin, answer.amount)

LEMMA InvHolds == /\ Init => Inv
                  /\ Inv /\ [Next]_priceVars => Inv'
<1>1. Init => Inv
  BY DEF Init, Inv
<1> SUFFICES ASSUME Inv, [Next]_priceVars PROVE Inv'
  BY <1>1
<1>2. CASE ReadInfo
  BY <1>2 DEF ReadInfo, Inv
<1>3. ASSUME NEW pin \in {"Receive", "Send"}, NEW amount \in U64, Ask(pin, amount) PROVE Inv'
  BY <1>3 DEF Ask, Inv
<1>4. CASE UNCHANGED priceVars
  BY <1>4 DEF priceVars, Inv
<1> QED
  BY <1>2, <1>3, <1>4 DEF Next

LEMMA OfferIs ==
    ASSUME Amounts, NEW o \in Offer
    PROVE  /\ o.ppm \in Nat /\ o.base \in U64
           /\ o.range.min \in U64 /\ o.range.max \in U64
           /\ MinAmount(o) \in U64 /\ o.range.min <= MinAmount(o)
<1>1. o.ppm \in Nat /\ o.base \in U64 /\ o.range \in [min : U64, max : U64] /\ o.multiplier \in Nat
  BY DEF Offer, Amounts
<1>2. o.base * o.multiplier \in Nat
  BY <1>1 DEF Amounts, U64
<1> QED
  BY <1>1, <1>2 DEF MinAmount, Larger, Saturating, Amounts, U64

(* What an amount sent gives, in terms of what is asked for it.             *)
LEMMA ReceivesIs ==
    ASSUME Amounts, NEW o \in Offer, NEW amount \in U64, o.base <= amount
    PROVE  LET most == Receives(o, "Send", amount)
           IN /\ most \in Nat /\ most # None /\ most <= amount
              /\ \A x \in Nat : x <= most <=> MinSend(o, x) # None /\ MinSend(o, x) <= amount
<1> DEFINE most == Receives(o, "Send", amount)
<1>1. o.ppm \in Nat /\ o.base \in U64
  BY OfferIs
<1>2. most = MaxReceiveForSend(amount, o.ppm, o.base)
  BY DEF Receives
<1>3. most \in Nat /\ most <= amount - o.base
  BY <1>1, <1>2, 0 \in Nat, Inverse
<1>4. \A x \in Nat : x <= most <=> MinSend(o, x) # None /\ MinSend(o, x) <= amount
  BY <1>1, <1>2, Inverse DEF MinSend
<1> QED
  BY <1>1, <1>3, <1>4 DEF Amounts, U64

LEMMA QuotedIs ==
    ASSUME Amounts, Inv, answer # NoAnswer
    PROVE  LET receive == Receives(offer, answer.pin, answer.amount)
               send == Sends(offer, answer.pin, answer.amount)
           IN /\ Quoted(answer.quote) <=>
                    /\ offer.offered /\ receive # None /\ send # None
                    /\ ~(receive < MinAmount(offer)) /\ ~(receive > offer.range.max)
              /\ Quoted(answer.quote) =>
                    answer.quote = [receive |-> receive, send |-> send, base |-> offer.base,
                                    service |-> send - receive - offer.base]
  BY DEF Inv, Quote, Quoted

LEMMA BestPriceHolds ==
    ASSUME Amounts, Inv
    PROVE  BestPrice
<1> SUFFICES ASSUME answer # NoAnswer, Quoted(answer.quote)
             PROVE  BestPrice
  BY DEF BestPrice
<1> DEFINE receive == Receives(offer, answer.pin, answer.amount)
           send == Sends(offer, answer.pin, answer.amount)
<1>1. /\ offer \in Offer /\ answer.amount \in U64 /\ answer.pin \in {"Receive", "Send"}
      /\ receive # None /\ send # None
      /\ answer.quote = [receive |-> receive, send |-> send, base |-> offer.base,
                         service |-> send - receive - offer.base]
  BY QuotedIs DEF Inv
<1>2. offer.ppm \in Nat /\ offer.base \in U64
  BY <1>1, OfferIs
<1>3. /\ receive \in Nat /\ send \in U64
      /\ MinSend(offer, receive) # None /\ MinSend(offer, receive) <= send
      /\ MinSend(offer, receive + 1) = None \/ MinSend(offer, receive + 1) > send
      /\ receive + offer.base <= send
  <2>1. CASE answer.pin = "Receive"
    <3>1. receive = answer.amount /\ send = MinSend(offer, answer.amount)
      BY <2>1 DEF Receives, Sends
    <3>2. receive \in Nat
      BY <1>1, <3>1 DEF U64, Amounts
    <3> HIDE DEF receive, send
    <3>3. MinSendForReceive(receive, offer.ppm, offer.base) # None
      BY <1>1, <3>1 DEF MinSend
    <3>4. /\ send \in U64 /\ receive + offer.base <= send
          /\ \A y \in Nat : receive < y => \/ MinSend(offer, y) = None
                                          \/ send < MinSend(offer, y)
      BY <1>2, <3>1, <3>2, <3>3, MinSendIs DEF MinSend
    <3>5. receive + 1 \in Nat /\ receive < receive + 1
      BY <3>2
    <3>6. MinSend(offer, receive + 1) = None \/ send < MinSend(offer, receive + 1)
      BY <3>4, <3>5
    <3>7. MinSend(offer, receive + 1) # None => MinSend(offer, receive + 1) \in U64
      BY <1>2, <3>5, MinSendIs DEF MinSend
    <3> QED
      BY <1>1, <3>1, <3>2, <3>4, <3>6, <3>7 DEF U64, Amounts
  <2>2. CASE answer.pin = "Send"
    <3>1. receive = Receives(offer, "Send", answer.amount) /\ send = answer.amount
      BY <2>2 DEF Sends
    <3>2. offer.base <= answer.amount
      BY <1>1, <1>2, <3>1 DEF Receives, MaxReceiveForSend, U64, Amounts
    <3> HIDE DEF receive, send
    <3>3. /\ receive \in Nat
          /\ \A x \in Nat : x <= receive <=> MinSend(offer, x) # None /\ MinSend(offer, x) <= send
      BY <1>1, <3>1, <3>2, ReceivesIs
    <3>4. MinSend(offer, receive) # None /\ MinSend(offer, receive) <= send
      BY <3>3
    <3>5. receive + 1 \in Nat /\ ~(receive + 1 <= receive)
      BY <3>3
    <3>6. ~(MinSend(offer, receive + 1) # None /\ MinSend(offer, receive + 1) <= send)
      BY <3>3, <3>5
    <3>7. MinSend(offer, receive + 1) # None => MinSend(offer, receive + 1) \in U64
      BY <1>2, <3>5, MinSendIs DEF MinSend
    <3>8. MinSend(offer, receive) \in U64 /\ receive + offer.base <= MinSend(offer, receive)
      BY <1>2, <3>3, <3>4, MinSendIs DEF MinSend
    <3> QED
      BY <1>1, <1>2, <3>1, <3>3, <3>4, <3>6, <3>7, <3>8 DEF U64, Amounts
  <2> QED
    BY <1>1, <2>1, <2>2
<1> HIDE DEF receive, send
<1>4. /\ answer.quote.receive = receive /\ answer.quote.send = send
      /\ answer.quote.base = offer.base
      /\ answer.quote.service = send - receive - offer.base
  BY <1>1
<1> QED
  BY <1>2, <1>3, <1>4 DEF BestPrice, U64, Amounts

LEMMA RangeHolds ==
    ASSUME Amounts, Inv
    PROVE  RangeIsExact
<1> DEFINE least == MinAmount(offer)
           most == offer.range.max
           told == RangeTold(offer, answer.pin)
           amount == answer.amount
<1> SUFFICES ASSUME answer # NoAnswer, offer.offered,
                    MinSend(offer, least) # None, MinSend(offer, most) # None
             PROVE  Quoted(answer.quote) <=> amount \in told.min..told.max
  BY DEF RangeIsExact
<1>1. /\ offer \in Offer /\ amount \in U64 /\ answer.pin \in {"Receive", "Send"}
  BY DEF Inv
<1>2. /\ offer.ppm \in Nat /\ offer.base \in U64
      /\ least \in Nat /\ least \in U64 /\ most \in Nat /\ most \in U64 /\ amount \in Nat
      /\ MaxU64 \in Nat /\ amount <= MaxU64 /\ None \notin Int
  BY <1>1, OfferIs DEF U64, Amounts
<1>3. CASE answer.pin = "Receive"
  <2>1. told = [min |-> least, max |-> most]
    BY <1>3 DEF RangeTold
  <2>2. /\ Receives(offer, answer.pin, amount) = amount
        /\ Sends(offer, answer.pin, amount) = MinSend(offer, amount)
        /\ amount # None
    BY <1>2, <1>3 DEF Receives, Sends, Amounts
  <2>3. amount <= most => MinSend(offer, amount) # None
    BY <1>2, MinSendIs DEF MinSend
  <2> HIDE DEF least, most, told, amount
  <2>4. Quoted(answer.quote) <=> amount >= least /\ amount <= most
    BY <1>2, <2>2, <2>3, QuotedIs DEF least, most, amount
  <2> QED
    BY <1>2, <2>1, <2>4
<1>4. CASE answer.pin = "Send"
  <2> DEFINE above == IF Checked(most + 1) = None THEN None ELSE MinSend(offer, most + 1)
  <2>1. /\ told.min = MinSend(offer, least)
        /\ told.max = IF above = None THEN MaxU64 ELSE above - 1
    BY <1>4 DEF RangeTold
  <2>2. /\ MinSend(offer, least) \in U64 /\ least + offer.base <= MinSend(offer, least)
        /\ above # None => above \in U64
    <3>1. most + 1 \in Nat
      BY <1>2
    <3> QED
      BY <1>2, <3>1, MinSendIs DEF MinSend
  <2>3. Sends(offer, answer.pin, amount) = amount /\ amount # None
    BY <1>2, <1>4 DEF Sends, Amounts
  <2>4. CASE amount < offer.base
    <3>1. Receives(offer, answer.pin, amount) = None
      BY <1>4, <2>4 DEF Receives, MaxReceiveForSend
    <3>2. ~Quoted(answer.quote)
      BY <3>1, QuotedIs
    <3>3. ~(MinSend(offer, least) <= amount)
      BY <1>2, <2>2, <2>4 DEF U64, Amounts
    <3> HIDE DEF told, amount, above, least
    <3> QED
      BY <1>2, <2>1, <3>2, <3>3
  <2>5. CASE ~(amount < offer.base)
    <3> DEFINE got == Receives(offer, "Send", amount)
    <3>1. offer.base <= amount
      BY <1>2, <2>5 DEF U64, Amounts
    <3>2. /\ got \in Nat /\ got # None /\ got <= amount
          /\ \A x \in Nat : x <= got <=> MinSend(offer, x) # None /\ MinSend(offer, x) <= amount
      BY <1>1, <3>1, ReceivesIs
    <3> HIDE DEF got
    <3>3. Quoted(answer.quote) <=> ~(got < least) /\ ~(got > most)
      <4>1. Receives(offer, answer.pin, amount) = got
        BY <1>4 DEF got
      <4> QED
        BY <2>3, <3>2, <4>1, QuotedIs
    <3>4. ~(got < least) <=> MinSend(offer, least) <= amount
      BY <1>2, <3>2
    <3>5. ~(got > most) <=> ~(most + 1 <= got)
      BY <1>2, <3>2
    <3>6. CASE Checked(most + 1) = None
      <4>1. ~(most + 1 <= MaxU64)
        BY <1>2, <3>6 DEF Checked, U64, Amounts
      <4> HIDE DEF amount, least, most
      <4>2. ~(got > most)
        BY <1>2, <3>2, <4>1
      <4>3. told.max = MaxU64
        BY <2>1, <3>6
      <4>4. MinSend(offer, least) \in Int
        BY <2>2 DEF U64
      <4> HIDE DEF told
      <4> QED
        BY <1>2, <2>1, <3>3, <3>4, <4>2, <4>3, <4>4
    <3>7. CASE Checked(most + 1) # None
      <4>1. above = MinSend(offer, most + 1) /\ most + 1 \in Nat
        BY <1>2, <3>7
      <4>2. most + 1 <= got <=> above # None /\ above <= amount
        BY <3>2, <4>1
      <4> HIDE DEF told, amount, least, most, above
      <4>3. MinSend(offer, least) \in Int /\ (above # None => above \in Int)
        BY <2>2 DEF U64
      <4>4. CASE above = None
        BY <1>2, <2>1, <3>3, <3>4, <3>5, <4>2, <4>3, <4>4
      <4>5. CASE above # None
        BY <1>2, <2>1, <3>3, <3>4, <3>5, <4>2, <4>3, <4>5
      <4> QED
        BY <4>4, <4>5
    <3> QED
      BY <3>6, <3>7
  <2> QED
    BY <2>4, <2>5
<1> QED
  BY <1>1, <1>3, <1>4

-----------------------------------------------------------------------------
(* A quote pinned by what is sent receives the most the server gives for    *)
(* it, for integers of any width, saturating sums and every policy; and its *)
(* fees are what its two amounts differ by.                                 *)
THEOREM QuotesAreBest ==
    ASSUME Amounts
    PROVE  Spec => []BestPrice
<1> QED
  BY BestPriceHolds, InvHolds, PTL DEF Spec

(* An amount is quoted just when it is within the range a refusal tells.    *)
THEOREM RangesAreExact ==
    ASSUME Amounts
    PROVE  Spec => []RangeIsExact
<1> QED
  BY RangeHolds, InvHolds, PTL DEF Spec
=============================================================================
