------------------------------ MODULE Updates ------------------------------
(***************************************************************************)
(* The updates a subscriber reads off a driver and their end: emit, the    *)
(* end of run, and the two polls Updates::next makes one after the other   *)
(* (driver/mod.rs). The runtime has several threads: the driver's go on    *)
(* between the two polls. An update is its number, in the order sent.      *)
(***************************************************************************)
EXTENDS Naturals, Sequences

CONSTANTS
    Capacity,   \* of the channel: the oldest beyond it are dropped
    MaxUpdates, \* bound: updates emitted
    MaxCalls    \* bound: calls of next

VARIABLES
    run,        \* RunState
    sent,       \* updates emitted
    owed,       \* history: of those, the ones emitted before the loop exited
    queue,      \* what waits in the subscriber's channel
    lagged,     \* the channel dropped some of it since the last read
    call,       \* where the subscriber's call of next stands
    calls       \* calls made

updateVars == <<run, sent, owed, queue, lagged, call, calls>>

-----------------------------------------------------------------------------
\* A pass of the loop, or of a step beside it or after it, tells of a swap.
Emit ==
    /\ sent < MaxUpdates
    /\ sent' = sent + 1
    /\ owed' = IF run = "Stopped" THEN owed ELSE sent + 1
    /\ queue' = LET all == Append(queue, sent + 1)
                IN IF Len(all) > Capacity THEN Tail(all) ELSE all
    /\ lagged' = (lagged \/ Len(queue) = Capacity)
    /\ UNCHANGED <<run, call, calls>>

Stop ==
    /\ run = "Running"
    /\ run' = "Stopping"
    /\ UNCHANGED <<sent, owed, queue, lagged, call, calls>>

\* The loop's last pass is over.
Exit ==
    /\ run = "Stopping"
    /\ run' = "Stopped"
    /\ UNCHANGED <<sent, owed, queue, lagged, call, calls>>

CallNext ==
    /\ call \in {"idle", "update", "none"} /\ calls < MaxCalls
    /\ call' = "recv" /\ calls' = calls + 1
    /\ UNCHANGED <<run, sent, owed, queue, lagged>>

\* The biased select: updates.recv() first. A lag is taken note of and the
\* select made again.
PollUpdates ==
    /\ call = "recv"
    /\ IF lagged THEN lagged' = FALSE /\ UNCHANGED <<queue, call>>
       ELSE IF queue # <<>>
       THEN queue' = Tail(queue) /\ call' = "update" /\ UNCHANGED lagged
       ELSE call' = "stopped" /\ UNCHANGED <<queue, lagged>>
    /\ UNCHANGED <<run, sent, owed, calls>>

\* Then stopped(): with neither ready the task is parked.
PollStopped ==
    /\ call = "stopped"
    /\ call' = IF run = "Stopped" THEN "none" ELSE "parked"
    /\ UNCHANGED <<run, sent, owed, queue, lagged, calls>>

\* Either wakes it, and both are polled again.
Wake ==
    /\ call = "parked" /\ (queue # <<>> \/ run = "Stopped")
    /\ call' = "recv"
    /\ UNCHANGED <<run, sent, owed, queue, lagged, calls>>

-----------------------------------------------------------------------------
Init ==
    /\ run = "Running" /\ sent = 0 /\ owed = 0 /\ queue = <<>> /\ lagged = FALSE
    /\ call = "idle" /\ calls = 0

Next == Emit \/ Stop \/ Exit \/ CallNext \/ PollUpdates \/ PollStopped \/ Wake

Spec == Init /\ [][Next]_updateVars

-----------------------------------------------------------------------------
(* A subscriber is told of the end only once it has every update the driver  *)
(* emitted until it stopped: None comes "once the driver is stopped and      *)
(* drained" (mod.rs:956).                                                    *)
NoneWhenDrained ==
    [][call' = "none" => \A i \in 1..Len(queue) : queue[i] > owed]_updateVars
=============================================================================
