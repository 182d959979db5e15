------------------------------- MODULE Escrow -------------------------------
(***************************************************************************)
(* What a SwapOut promises its user, with no chain, server or driver: the  *)
(* payment is taken only with the preimage, and a swap is called off only  *)
(* while the payment is not taken and so that it never is after.           *)
(***************************************************************************)
VARIABLES
    preimage,   \* "kept", or "out" once it left us
    taken,      \* the server took the payment
    outcome     \* "open", "paid" or "off", as the user is told

vars == <<preimage, taken, outcome>>

Init == preimage = "kept" /\ taken = FALSE /\ outcome = "open"

Release ==
    /\ outcome = "open" /\ preimage = "kept"
    /\ preimage' = "out"
    /\ UNCHANGED <<taken, outcome>>

Take ==
    /\ outcome # "off" /\ preimage = "out"
    /\ taken' = TRUE
    /\ UNCHANGED <<preimage, outcome>>

\* The preimage leaves in the message the server takes the payment with.
ReleaseAndTake ==
    /\ outcome = "open" /\ preimage = "kept"
    /\ preimage' = "out" /\ taken' = TRUE
    /\ UNCHANGED outcome

Pay ==
    /\ outcome = "open" /\ preimage = "out"
    /\ outcome' = "paid"
    /\ UNCHANGED <<preimage, taken>>

CallOff ==
    /\ outcome = "open" /\ ~taken
    /\ outcome' = "off"
    /\ UNCHANGED <<preimage, taken>>

Next == Release \/ Take \/ ReleaseAndTake \/ Pay \/ CallOff

Spec == Init /\ [][Next]_vars
=============================================================================
