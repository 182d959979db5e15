------------------------------- MODULE Prices -------------------------------
(***************************************************************************)
(* The price of a swap: the server's offer is read once and an amount,     *)
(* pinned by what the user receives or by what they send, is turned into   *)
(* both amounts or into the range that would do (anyswap-core's fee module *)
(* and quote() of driver/accept.rs).                                       *)
(*                                                                         *)
(* Amounts are u64s up to MaxU64, products are taken in u128 and never     *)
(* overflow; None is what a checked operation returns past the end.        *)
(***************************************************************************)
EXTENDS Integers

CONSTANTS
    MaxU64,         \* u64::MAX
    Million,        \* 1_000_000, what a service_ppm is a part of
    Ppms,           \* the service_ppm a policy may set
    Bases,          \* the base fees an estimate may give
    Ranges,         \* the amounts a policy may allow
    Multipliers,    \* min_base_fee_multiplier
    None

VARIABLES
    offer,      \* GET /v1/info, for the chain and the end asked
    answer      \* what quote() made of it, and of which amount

priceVars == <<offer, answer>>

U64 == 0..MaxU64

Saturating(n) == IF n > MaxU64 THEN MaxU64 ELSE n
Checked(n) == IF n \in U64 THEN n ELSE None
Larger(a, b) == IF a > b THEN a ELSE b

-----------------------------------------------------------------------------
ServiceFee(receive, ppm) == Saturating((receive * ppm) \div Million)

SwapFee(receive, ppm, base) == Saturating(base + ServiceFee(receive, ppm))

MinSendForReceive(receive, ppm, base) == Checked(receive + SwapFee(receive, ppm, base))

\* Mutant: the division without the fee that floors to nothing.
MaxReceiveForSendRoughly(send, ppm, base) ==
    IF send < base THEN None ELSE ((send - base) * Million) \div (Million + ppm)

MaxReceiveForSend(send, ppm, base) ==
    IF send < base THEN None
    ELSE ((send - base + 1) * Million - 1) \div (Million + ppm)

\* Policy and InfoResponse, reduced to the end a quote is for.
Offer == [offered : BOOLEAN, ppm : Ppms, base : Bases, range : Ranges, multiplier : Multipliers]

MinAmount(o) == Larger(o.range.min, Saturating(o.base * o.multiplier))
MinSend(o, amount) == MinSendForReceive(amount, o.ppm, o.base)

\* Mutant: the range of what is received moved by the fee of its ends.
RangeToldByMax(o, pin) ==
    IF pin = "Receive" THEN [min |-> MinAmount(o), max |-> o.range.max]
    ELSE [min |-> Saturating(o.range.min + SwapFee(o.range.min, o.ppm, o.base)),
          max |-> Saturating(o.range.max + SwapFee(o.range.max, o.ppm, o.base))]

\* What AmountOutOfRange tells the user.
RangeTold(o, pin) ==
    IF pin = "Receive" THEN [min |-> MinAmount(o), max |-> o.range.max]
    ELSE LET least == MinSend(o, MinAmount(o))
             above == IF Checked(o.range.max + 1) = None THEN None
                      ELSE MinSend(o, o.range.max + 1)
         IN [min |-> IF least = None THEN MaxU64 ELSE least,
             max |-> IF above = None THEN MaxU64 ELSE above - 1]

\* The two amounts of a target, None where one cannot be had.
Receives(o, pin, amount) ==
    IF pin = "Receive" THEN amount ELSE MaxReceiveForSend(amount, o.ppm, o.base)
Sends(o, pin, amount) == IF pin = "Send" THEN amount ELSE MinSend(o, amount)

\* quote(): a refusal names the range.
Quote(o, pin, amount) ==
    LET receive == Receives(o, pin, amount)
        send == Sends(o, pin, amount)
    IN IF ~o.offered THEN [told |-> "NotQuotable"]
       ELSE IF receive = None \/ send = None THEN [told |-> RangeTold(o, pin)]
       ELSE IF receive < MinAmount(o) \/ receive > o.range.max THEN [told |-> RangeTold(o, pin)]
       ELSE [receive |-> receive, send |-> send,
             base |-> o.base, service |-> send - receive - o.base]

Quoted(q) == "told" \notin DOMAIN q

-----------------------------------------------------------------------------
NoAnswer == [pin |-> "none"]

Init == offer = None /\ answer = NoAnswer

\* The policy and the fee estimate of the moment.
ReadInfo ==
    /\ offer = None
    /\ offer' \in Offer
    /\ UNCHANGED answer

Ask(pin, amount) ==
    /\ offer # None /\ answer = NoAnswer
    /\ answer' = [pin |-> pin, amount |-> amount, quote |-> Quote(offer, pin, amount)]
    /\ UNCHANGED offer

Next == ReadInfo \/ \E pin \in {"Receive", "Send"}, amount \in U64 : Ask(pin, amount)

Spec == Init /\ [][Next]_priceVars

-----------------------------------------------------------------------------
(* Properties.                                                             *)

\* The range told is exact: an amount is quoted if and only if it is within
\* the range a refusal of it tells, where what the policy allows can be paid
\* for in u64 at all.
RangeIsExact ==
    (answer # NoAnswer /\ offer.offered) =>
        LET told == RangeTold(offer, answer.pin)
        IN (\A end \in {MinAmount(offer), offer.range.max} : MinSend(offer, end) # None) =>
            (Quoted(answer.quote) <=> answer.amount \in told.min..told.max)

\* A quote pinned by what is sent gives all it can: the server, which charges
\* by what is received, would want more than that for one sat more, and asks
\* no more than what is sent. The fees shown are what the two amounts differ by.
BestPrice ==
    (answer # NoAnswer /\ Quoted(answer.quote)) =>
        LET q == answer.quote
            more == MinSend(offer, q.receive + 1)
        IN /\ MinSend(offer, q.receive) # None /\ MinSend(offer, q.receive) <= q.send
           /\ more = None \/ more > q.send
           /\ q.send = q.receive + q.base + q.service /\ q.service >= 0

=============================================================================
