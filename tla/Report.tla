------------------------------- MODULE Report -------------------------------
(***************************************************************************)
(* What the server says of a swap and what is read in it: the state it     *)
(* keeps, the answer it makes of that (SwapState::into_api_response), the  *)
(* typed views an app drives a swap by hand with (SwapIn and SwapOut of    *)
(* the SDK, without the driver), and the split the driver takes one apart  *)
(* with (observe::poll).                                                   *)
(*                                                                         *)
(* Values are the user's own ("ours"), the server's ("server") or made up  *)
(* ("other"). An answer the server did not make honestly differs from an   *)
(* honest one in at most two fields.                                       *)
(***************************************************************************)
EXTENDS Integers

CONSTANTS
    Newer,      \* a status of a later server
    None

VARIABLES
    swap,       \* the swap as the server has it
    view,       \* what the client took from the last answer
    fresh,      \* that answer was honest, and the swap has not moved since
    released    \* the app let go of its secret

reportVars == <<swap, view, fresh, released>>

-----------------------------------------------------------------------------
SwapInStatuses == {"AwaitOpeningTxConfirmation", "PayInvoice", "AwaitClaimKeyRevealMessage",
                   "AwaitClaimTxConfirmation", "Canceled", "Claimed"}
SwapOutStatuses == {"AwaitClaimInvoicePay", "OpeningTxBroadcast", "AwaitPreimageRevealed",
                    "AwaitRefundTxConfirmation", "Canceled", "Claimed", "Refunded"}

\* What the server stores, its key and all.
SwapState(s) ==
    [type |-> s.type, status |-> s.status, hash |-> "ours", invoice |-> "ours",
     preimage |-> IF s.type = "SwapIn" /\ s.knows THEN "ours" ELSE None,
     outpoint |-> s.outpoint, key |-> "server",
     error |-> IF s.status = "Canceled" THEN "Timeout" ELSE None, terms |-> TRUE]

\* Mutant: no key in any answer.
BlindAll(state) == [state EXCEPT !.key = None]

Blind(state) ==
    IF \/ state.type = "SwapIn" /\ state.status = "Canceled"
       \/ state.type = "SwapOut" /\ state.status = "Claimed"
    THEN state
    ELSE [state EXCEPT !.key = None]

\* SwapIn::try_from and SwapOut::try_from: None where a field is missing.
SwapIn(a) ==
    IF /\ a.type = "SwapIn" /\ a.status \in SwapInStatuses /\ a.terms
       /\ a.status \in SwapInStatuses \ {"AwaitOpeningTxConfirmation", "Canceled"}
            => a.outpoint # None
       /\ a.status \in {"AwaitClaimKeyRevealMessage", "AwaitClaimTxConfirmation", "Claimed"}
            => a.preimage # None
       /\ a.status = "Canceled" => a.error \notin {None, "Unknown"} /\ a.key # None
    THEN a
    ELSE None

SwapOut(a) ==
    IF /\ a.type = "SwapOut" /\ a.status \in SwapOutStatuses /\ a.terms
       /\ a.status \in {"AwaitPreimageRevealed", "AwaitRefundTxConfirmation", "Claimed", "Refunded"}
            => a.outpoint # None
       /\ a.status = "Claimed" => a.key # None
       /\ a.status = "Canceled" => a.error \notin {None, "Unknown"}
    THEN a
    ELSE None

Typed(a) == IF a.type = "SwapIn" THEN SwapIn(a) ELSE SwapOut(a)

\* observe::poll, each part on its own terms whether the status reads or not.
PollKey(a) == IF a.key = "server" THEN a.key ELSE None
PollPreimage(side, a) == IF side = "SwapIn" /\ a.preimage = "ours" THEN a.preimage ELSE None
Poll(side, a) ==
    [key |-> PollKey(a), preimage |-> PollPreimage(side, a),
     status |-> LET typed == IF side = "SwapIn" THEN SwapIn(a) ELSE SwapOut(a)
                IN IF typed = None THEN None ELSE typed.status]

\* The checks the docs ask of an app before it lets go of a secret. The hash
\* is that of the invoice, the opening that of the chain.
VerifyPayment(typed) ==
    /\ typed.status \in {"AwaitClaimKeyRevealMessage", "AwaitClaimTxConfirmation", "Claimed"}
    /\ typed.preimage = typed.invoice
VerifyOpening(typed) ==
    /\ typed.status \in {"AwaitPreimageRevealed", "AwaitRefundTxConfirmation", "Claimed", "Refunded"}
    /\ typed.outpoint = "agreed" /\ swap.outpoint = "agreed"

RefundByKeypath(typed) == typed # None /\ typed.type = "SwapIn" /\ typed.status = "Canceled"
ClaimByKeypath(typed) == typed # None /\ typed.type = "SwapOut" /\ typed.status = "Claimed"

-----------------------------------------------------------------------------
\* The server's side.
Move(to) == swap' = to /\ fresh' = FALSE /\ UNCHANGED <<view, released>>

ConfirmDeposit ==
    /\ swap.type = "SwapIn" /\ swap.status = "AwaitOpeningTxConfirmation"
    /\ Move([swap EXCEPT !.status = "PayInvoice", !.outpoint = "agreed"])

PayInvoice ==
    /\ swap.status = "PayInvoice"
    /\ Move([swap EXCEPT !.status = "AwaitClaimKeyRevealMessage", !.knows = TRUE])

ServerClaims ==
    /\ swap.status = "AwaitClaimKeyRevealMessage"
    /\ Move([swap EXCEPT !.status = "AwaitClaimTxConfirmation"])

ClaimConfirms ==
    /\ swap.status = "AwaitClaimTxConfirmation"
    /\ Move([swap EXCEPT !.status = "Claimed"])

HoldPayment ==
    /\ swap.status = "AwaitClaimInvoicePay"
    /\ Move([swap EXCEPT !.status = "OpeningTxBroadcast"])

\* The opening pays what was agreed, or less.
Open ==
    /\ swap.status = "OpeningTxBroadcast"
    /\ \E outpoint \in {"agreed", "dust"} :
          Move([swap EXCEPT !.status = "AwaitPreimageRevealed", !.outpoint = outpoint])

ServerRefunds ==
    /\ swap.status = "AwaitPreimageRevealed"
    /\ Move([swap EXCEPT !.status = "AwaitRefundTxConfirmation"])

RefundConfirms ==
    /\ swap.status = "AwaitRefundTxConfirmation"
    /\ Move([swap EXCEPT !.status = "Refunded"])

Cancel ==
    /\ swap.status \in {"AwaitOpeningTxConfirmation", "PayInvoice", "AwaitClaimInvoicePay",
                        "OpeningTxBroadcast"}
    /\ Move([swap EXCEPT !.status = "Canceled"])

\* What an answer may say instead.
Lies ==
    [status |-> SwapInStatuses \cup SwapOutStatuses \cup {Newer},
     hash |-> {"other"}, invoice |-> {"other"}, preimage |-> {"other", None},
     outpoint |-> {"agreed", "dust", None}, key |-> {"other", None},
     error |-> {"Timeout", "Unknown", None}, terms |-> {FALSE}]

\* HttpClient::get_swap, of a server that is honest or not.
Take(answer) ==
    /\ view' = [typed |-> Typed(answer), poll |-> Poll(swap.type, answer)]
    /\ UNCHANGED <<swap, released>>

GetSwap ==
    LET told == Blind(SwapState(swap))
    IN \/ Take(told) /\ fresh' = TRUE
       \/ \E f, g \in DOMAIN Lies : \E v \in Lies[f], w \in Lies[g] :
             Take([told EXCEPT ![f] = v, ![g] = w]) /\ fresh' = FALSE

\* The app by hand, after the check the docs ask of it and, for the invoice
\* of a swap-in, after it compared the echo with its own.
RevealClaim ==
    /\ view.typed # None /\ view.typed.type = "SwapIn"
    /\ view.typed.status = "AwaitClaimKeyRevealMessage"
    /\ VerifyPayment(view.typed) /\ view.typed.invoice = "ours"
    /\ released' = TRUE /\ fresh' = FALSE
    /\ swap' = IF swap.status = "AwaitClaimKeyRevealMessage"
               THEN [swap EXCEPT !.status = "AwaitClaimTxConfirmation"] ELSE swap
    /\ UNCHANGED view

RevealPreimage ==
    /\ view.typed # None /\ view.typed.type = "SwapOut"
    /\ view.typed.status = "AwaitPreimageRevealed"
    /\ VerifyOpening(view.typed)
    /\ released' = TRUE /\ fresh' = FALSE
    /\ swap' = IF swap.status = "AwaitPreimageRevealed"
               THEN [swap EXCEPT !.status = "Claimed", !.knows = TRUE] ELSE swap
    /\ UNCHANGED view

-----------------------------------------------------------------------------
Init ==
    /\ swap \in {[type |-> "SwapIn", status |-> "AwaitOpeningTxConfirmation",
                  outpoint |-> None, knows |-> FALSE],
                 [type |-> "SwapOut", status |-> "AwaitClaimInvoicePay",
                  outpoint |-> None, knows |-> FALSE]}
    /\ view = [typed |-> None, poll |-> [key |-> None, preimage |-> None, status |-> None]]
    /\ fresh = FALSE
    /\ released = FALSE

Next ==
    \/ ConfirmDeposit \/ PayInvoice \/ ServerClaims \/ ClaimConfirms
    \/ HoldPayment \/ Open \/ ServerRefunds \/ RefundConfirms \/ Cancel
    \/ GetSwap \/ RevealClaim \/ RevealPreimage

Spec == Init /\ [][Next]_reportVars

-----------------------------------------------------------------------------
\* The key the server owes: a swap-in's once it gave the swap up, a
\* swap-out's once it has the payment.
Over == swap.status = IF swap.type = "SwapIn" THEN "Canceled" ELSE "Claimed"

(* An app that follows the docs lets its refund key go only for a paid       *)
(* invoice and its preimage only for the agreed opening, whatever the        *)
(* answers say; and when the swap ended with the server's key due, an honest *)
(* answer reads, and the key in it spends the output by the keypath, in the  *)
(* typed views and in the driver's split alike. The status the answer hides  *)
(* the key in and the ones the views need it in are two lists in two crates. *)
ByHandIsSafe ==
    /\ released /\ swap.type = "SwapIn" => swap.knows
    /\ released /\ swap.type = "SwapOut" => swap.outpoint = "agreed"
    /\ view.poll.preimage # None => swap.knows
    /\ fresh => /\ view.typed # None /\ view.poll.status = swap.status
                /\ Over <=> RefundByKeypath(view.typed) \/ ClaimByKeypath(view.typed)
                /\ Over <=> view.poll.key # None
=============================================================================
