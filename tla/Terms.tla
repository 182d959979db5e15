------------------------------- MODULE Terms --------------------------------
(***************************************************************************)
(* How a swap comes to be: a quote, the signed request, what the server    *)
(* answers for it, the record accepted from that, the deposit it asks for, *)
(* and the record rebuilt later from the request the server kept           *)
(* (Driver::swap_in, swap_out, adopt and accept, restore, HttpClient).     *)
(*                                                                         *)
(* Time is in seconds of the wall clock, which driver, server and invoice  *)
(* share; amounts, keys and scripts are asked for or something else.       *)
(***************************************************************************)
EXTENDS Integers

CONSTANTS
    MinConfs, BlockTime, FundingTimeout,    \* ChainConfig, the times in seconds
    ClaimMargin, MaxRefundCsv, MaxHtlcHold,
    QuoteTtl,       \* how long a quote stands
    Waits,          \* await_opening_tx a policy may give, None where it does not
    Expiries,       \* when the invoices expire
    Csvs, Cltvs,    \* what the server may pick
    Wrongs,         \* the fields it may get wrong, one at a time
    MaxTime,        \* bound on the clock
    None

VARIABLES
    now,        \* the wall clock
    lastBlock,  \* when the last block came
    deal,       \* the quote and the request made of it, step by step
    server,     \* the swap as the server has it
    record,     \* the stored record
    first,      \* history: the record as it was adopted
    restored,   \* what the last restore came to
    deposit     \* the user's deposit: its confirmations

termVars == <<now, lastBlock, deal, server, record, first, restored, deposit>>

Smaller(a, b) == IF a < b THEN a ELSE b

-----------------------------------------------------------------------------
\* The blocks a deposit takes to confirm, and one more.
Confirm == (MinConfs + 1) * BlockTime

\* Mutant: the deadline without the invoice.
DepositDeadlineByTimeout(started, expiry) == started + FundingTimeout

DepositDeadline(started, expiry) == Smaller(started + FundingTimeout, expiry - Confirm)

HoldInvoiceDeadline(started, expiry) == expiry

\* What a reply may get wrong against its request: the checks of common(),
\* of blinding() and of accept() itself, each of one field.
Shared == {"protocol", "swap_id", "swap_type", "chain", "asset", "receive", "send", "spread"}
OfSwapIn == {"blinding", "refund_pubkey", "claim_invoice", "payment_hash", "refund_address"}
OfSwapOut == {"blinding", "claim_pubkey", "claim_address", "payment_hash", "invoice_hash",
              "invoice_amount", "invoice_network"}
Fields(kind) == Shared \cup (IF kind = "SwapIn" THEN OfSwapIn ELSE OfSwapOut)

CsvInRange(csv, min, max) == csv \in min..max

\* accept(): the record, or None when a check refuses the reply. `started` is
\* the yardstick of the deadlines.
Accept(started, state) ==
    LET taken(deadline) == [kind |-> state.kind, csv |-> state.csv, expiry |-> state.expiry,
                            started |-> started, expires |-> deadline]
    IN IF state.wrong \cap Fields(state.kind) # {} THEN None
       ELSE IF state.kind = "SwapIn"
       THEN IF state.expiry >= started + Confirm /\ CsvInRange(state.csv, 1, MaxRefundCsv)
            THEN taken(DepositDeadline(started, state.expiry)) ELSE None
       ELSE IF /\ state.expiry > started
               /\ state.cltv <= MaxHtlcHold
               /\ CsvInRange(state.csv, MinConfs + ClaimMargin, 65535)
            THEN taken(HoldInvoiceDeadline(started, state.expiry)) ELSE None

\* check_hold_invoice: asked of a new SwapOut, never of a restored one.
CheckHoldInvoice(r) ==
    r.kind = "SwapOut" => r.expiry - r.started <= FundingTimeout

-----------------------------------------------------------------------------
NoDeal == [step |-> "none"]

Init ==
    /\ now = 0 /\ lastBlock = 0
    /\ deal = NoDeal
    /\ server = None /\ record = None /\ first = None /\ restored = None /\ deposit = None

TakeQuote(kind, wait) ==
    /\ deal = NoDeal
    /\ kind = "SwapOut" => wait = None
    /\ deal' = [step |-> "quoted", kind |-> kind, until |-> now + QuoteTtl, wait |-> wait]
    /\ UNCHANGED <<now, lastBlock, server, record, first, restored, deposit>>

\* Driver::swap_in up to the request: a fresh quote, a server that waits long
\* enough and an invoice that outlasts the blocks a deposit takes.
SwapIn(expiry) ==
    /\ deal.step = "quoted" /\ deal.kind = "SwapIn"
    /\ now < deal.until
    /\ deal.wait # None => deal.wait >= FundingTimeout + Confirm
    /\ expiry - now > Confirm
    /\ deal' = [step |-> "asked", kind |-> "SwapIn", wait |-> deal.wait,
                expiry |-> expiry, started |-> now]
    /\ UNCHANGED <<now, lastBlock, server, record, first, restored, deposit>>

\* Driver::swap_out up to the request.
SwapOut ==
    /\ deal.step = "quoted" /\ deal.kind = "SwapOut"
    /\ now < deal.until
    /\ deal' = [step |-> "asked", kind |-> "SwapOut", wait |-> None, started |-> now]
    /\ UNCHANGED <<now, lastBlock, server, record, first, restored, deposit>>

\* HttpClient::create_swap: the request is signed with the second it is sent
\* in. The server keeps it and answers for the swap from then on, with what it
\* picks and at most one thing wrong.
CreateSwap(csv, cltv, expiry, wrong) ==
    /\ deal.step = "asked"
    /\ deal.kind = "SwapIn" => expiry = deal.expiry /\ cltv = 0
    /\ server' = [kind |-> deal.kind, signed |-> now, csv |-> csv, cltv |-> cltv,
                  expiry |-> expiry,
                  until |-> IF deal.wait = None THEN None ELSE now + deal.wait,
                  wrong |-> wrong, canceled |-> FALSE]
    /\ deal' = [deal EXCEPT !.step = "created"]
    /\ UNCHANGED <<now, lastBlock, record, first, restored, deposit>>

\* The answer, or that of the first get_swap, is lost: the call fails, and the
\* swap is left to restore.
AnswerLost ==
    /\ deal.step = "created"
    /\ deal' = [deal EXCEPT !.step = "lost"]
    /\ UNCHANGED <<now, lastBlock, server, record, first, restored, deposit>>

\* adopt: accepted and saved, or refused and canceled at the server.
Adopt ==
    /\ deal.step = "created"
    /\ LET r == Accept(deal.started, server)
       IN IF r # None /\ CheckHoldInvoice(r)
          THEN /\ record' = r /\ first' = r
               /\ deal' = [deal EXCEPT !.step = "adopted"]
               /\ UNCHANGED server
          ELSE /\ deal' = [deal EXCEPT !.step = "refused"]
               /\ \E heard \in BOOLEAN : server' = [server EXCEPT !.canceled = heard]
               /\ UNCHANGED <<record, first>>
    /\ UNCHANGED <<now, lastBlock, restored, deposit>>

\* The store is lost, or another device has none.
LoseStore ==
    /\ record # None /\ deal.step \notin {"asked", "created"}
    /\ record' = None
    /\ UNCHANGED <<now, lastBlock, deal, server, first, restored, deposit>>

\* Mutant: a restore that judges the reply by the time of the restore.
RestoredNow == Accept(now, server)

\* signed(), then accept() by the time of the signature.
Restored == Accept(server.signed, server)

\* restore_signed: the request in the report is ours, whole and for this swap,
\* or it does not restore at all.
Restore(genuine) ==
    /\ server # None /\ record = None /\ deal.step \notin {"asked", "created"}
    /\ record' = IF genuine THEN Restored ELSE None
    /\ restored' = IF ~genuine THEN "unsigned" ELSE IF record' = None THEN "refused" ELSE "done"
    /\ UNCHANGED <<now, lastBlock, deal, server, first, deposit>>

\* The user pays the deposit while the record says they may.
Deposit ==
    /\ record # None /\ record.kind = "SwapIn" /\ deposit = None
    /\ now <= record.expires
    /\ deposit' = 0
    /\ UNCHANGED <<now, lastBlock, deal, server, record, first, restored>>

\* A block comes at most BlockTime after the last.
Block ==
    /\ lastBlock < now
    /\ lastBlock' = now
    /\ deposit' = IF deposit = None THEN None ELSE Smaller(deposit + 1, MinConfs)
    /\ UNCHANGED <<now, deal, server, record, first, restored>>

Tick ==
    /\ now < MaxTime /\ now < lastBlock + BlockTime
    /\ now' = now + 1
    /\ UNCHANGED <<lastBlock, deal, server, record, first, restored, deposit>>

Next ==
    \/ \E kind \in {"SwapIn", "SwapOut"}, wait \in Waits : TakeQuote(kind, wait)
    \/ \E expiry \in Expiries : SwapIn(expiry)
    \/ SwapOut
    \/ \E csv \in Csvs, wrong \in {{}} \cup {{f} : f \in Wrongs} :
          \E cltv \in Cltvs, expiry \in Expiries : CreateSwap(csv, cltv, expiry, wrong)
    \/ AnswerLost \/ Adopt \/ LoseStore
    \/ \E genuine \in BOOLEAN : Restore(genuine)
    \/ Deposit \/ Block \/ Tick

Spec == Init /\ [][Next]_termVars

-----------------------------------------------------------------------------
(* Properties.                                                             *)

\* A deposit paid by the deadline of the record, adopted or restored, has its
\* confirmations a block's time before the claim invoice expires, and before a
\* server that keeps to its policy stops waiting for it.
DepositConfirmsInTime ==
    (deposit # None /\ deposit < MinConfs) =>
        /\ now + BlockTime <= server.expiry
        /\ server.until # None => now + BlockTime <= server.until

\* A swap once adopted restores to the record it was, its deadline moved by no
\* more than the seconds the request took to be signed; and is refused only
\* where its invoice left no more than those.
RestoreRebuilds ==
    /\ (first # None /\ record # None) =>
        /\ record.csv = first.csv /\ record.expiry = first.expiry
        /\ record.expires - first.expires \in 0..(server.signed - first.started)
    /\ (first # None /\ restored = "refused") => server.signed > first.started
=============================================================================
