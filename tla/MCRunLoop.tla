----------------------------- MODULE MCRunLoop -----------------------------
(***************************************************************************)
(* RunLoop for TLC: one driver or two over a store, with their callers.    *)
(***************************************************************************)
EXTENDS RunLoop

CONSTANTS d1, d2, c1, c2, s1, s2

OneDriver == {d1}
TwoDrivers == {d1, d2}
OneCaller == {c1}
TwoCallers == {c1, c2}
OneHome == [c \in OneCaller |-> d1]
SameHome == [c \in TwoCallers |-> d1]
OwnHome == [c \in TwoCallers |-> IF c = c1 THEN d1 ELSE d2]
OneSwap == {s1}
TwoSwaps == {s1, s2}
=============================================================================
