------------------------------ MODULE MCSwapOut ------------------------------
(***************************************************************************)
(* SwapOut for TLC, and its refinement of Escrow: the stored status is     *)
(* what the user is told.                                                  *)
(***************************************************************************)
EXTENDS SwapOut

Promise == INSTANCE Escrow WITH
    preimage <- IF released THEN "out" ELSE "kept",
    taken    <- settled,
    outcome  <- IF store.status = "Completed" THEN "paid"
                ELSE IF IsQuiet(store) THEN "off" ELSE "open"

\* Every step of the driver and its world is a step of the promise.
KeepsThePromise == Promise!Spec
=============================================================================
