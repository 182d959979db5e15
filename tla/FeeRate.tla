------------------------------ MODULE FeeRate ------------------------------
(***************************************************************************)
(* A chain's fee estimate, cached for fee_rate_cache_ttl and shared by     *)
(* every pass (driver/mod.rs, Registered). The lock is let go while the    *)
(* estimate is read, so passes read at once and write back in any order.   *)
(***************************************************************************)
EXTENDS Integers

CONSTANTS
    Passes,     \* the passes that ask
    Ttl,        \* fee_rate_cache_ttl
    Estimates,  \* what the indexer may answer
    Relay,      \* min_fee_rate of the chain
    Networks,   \* the networks the driver may be on
    MaxClock,   \* bound: the clock
    None

VARIABLES
    network,
    clock,      \* in seconds
    rate,       \* Registered::rate: an estimate, the time it counts from, and
                \* (history) the time the indexer made it
    ask         \* per pass: its step, its now, and the answer with its time

rateVars == <<network, clock, rate, ask>>

Idle == [at |-> "idle", now |-> 0, value |-> None, made |-> 0]

\* with_chain: only regtest has a rate to fall back to.
Fallback == IF network = "regtest" THEN Relay ELSE None

Init ==
    /\ network \in Networks
    /\ clock = 0
    /\ rate = None
    /\ ask = [p \in Passes |-> Idle]

Tick ==
    /\ clock < MaxClock
    /\ clock' = clock + 1
    /\ UNCHANGED <<network, rate, ask>>

\* A pass takes the time once, before all it reads.
Start(p) ==
    /\ ask[p].at \in {"idle", "given", "failed"}
    /\ ask' = [ask EXCEPT ![p] = [Idle EXCEPT !.at = "asks", !.now = clock]]
    /\ UNCHANGED <<network, clock, rate>>

\* Mutant: the estimate lasts a second longer than its ttl.
CachedTooLong(now) == rate # None /\ now <= rate.at + Ttl

\* Whether the estimate kept still holds.
Cached(now) == rate # None /\ now < rate.at + Ttl

FromCache(p) ==
    /\ ask[p].at = "asks" /\ Cached(ask[p].now)
    /\ ask' = [ask EXCEPT ![p].at = "given", ![p].value = rate.value, ![p].made = rate.made]
    /\ UNCHANGED <<network, clock, rate>>

Request(p) ==
    /\ ask[p].at = "asks" /\ ~Cached(ask[p].now)
    /\ ask' = [ask EXCEPT ![p].at = "reads"]
    /\ UNCHANGED <<network, clock, rate>>

\* The indexer makes the estimate, and its answer travels.
Estimate(p, value) ==
    /\ ask[p].at = "reads"
    /\ ask' = [ask EXCEPT ![p].at = "answered", ![p].value = value, ![p].made = clock]
    /\ UNCHANGED <<network, clock, rate>>

\* Mutant: it counts from when it was written back.
StampOnReturn(p) == clock

\* What an estimate counts from: the now of the pass that asked.
Stamp(p) == ask[p].now

Keep(p) ==
    /\ ask[p].at = "answered"
    /\ rate' = [value |-> ask[p].value, at |-> Stamp(p), made |-> ask[p].made]
    /\ ask' = [ask EXCEPT ![p].at = "given"]
    /\ UNCHANGED <<network, clock>>

\* A failed read is not kept.
Fail(p) ==
    /\ ask[p].at \in {"reads", "answered"}
    /\ ask' = [ask EXCEPT ![p] = IF Fallback = None THEN [@ EXCEPT !.at = "failed", !.value = None]
                                 ELSE [@ EXCEPT !.at = "given", !.value = Fallback, !.made = clock]]
    /\ UNCHANGED <<network, clock, rate>>

Next ==
    \/ Tick
    \/ \E p \in Passes :
        \/ Start(p) \/ FromCache(p) \/ Request(p) \/ Keep(p) \/ Fail(p)
        \/ \E value \in Estimates : Estimate(p, value)

Spec == Init /\ [][Next]_rateVars

-----------------------------------------------------------------------------
(* Properties.                                                             *)

\* No pass decides on an estimate older than fee_rate_cache_ttl, however long
\* a read took and whichever read was written back last.
RateFresh == \A p \in Passes : ask[p].at = "given" => ask[p].now < ask[p].made + Ttl
=============================================================================
