------------------------------ MODULE Signals ------------------------------
(***************************************************************************)
(* The push channel: the server's WebSocket, reopened as it drops, and the *)
(* driver's listener that takes swap ids from it (ts-sdk AnySwapClient's   *)
(* subscribe and signals, the SDK's ws.rs, and listen of driver/mod.rs).   *)
(*                                                                         *)
(* One callback runs at a time, in any order the sockets and timers allow; *)
(* a promise is taken up in a step of its own after it is resolved.        *)
(***************************************************************************)
EXTENDS Integers, Sequences, FiniteSets, SequencesExt

CONSTANTS
    Ids,            \* swap ids
    MinDelay,       \* RECONNECT_MIN_MS
    MaxDelay,       \* RECONNECT_MAX_MS
    MaxPushes,      \* bound: ids pushed
    MaxSockets,     \* bound: sockets opened
    None

VARIABLES
    kind,       \* "ts" or "rust": whose channel
    closed,     \* stop() was called
    timers,     \* reconnect timers armed
    opening,    \* opens waiting for their url
    socks,      \* the sockets made, by state
    delay,      \* the next reconnect's delay
    shown,      \* what onConnectionChange last said
    queue,      \* ids pushed and not taken
    wake,       \* next() waits on its promise
    resolved,   \* what its promise resolved to, not taken up yet
    listener,   \* "asks", "waits" (for next), "rests" (for retry) or "ended"
    heard,      \* history: the ids the socket brought
    passed      \* the ids handed on to the loops

channelVars == <<kind, closed, timers, opening, socks, delay, shown>>
nextVars == <<queue, wake, resolved, listener, heard, passed>>
signalVars == <<kind, closed, timers, opening, socks, delay, shown,
                queue, wake, resolved, listener, heard, passed>>

Init ==
    /\ kind \in {"ts", "rust"}
    /\ closed = FALSE /\ timers = 0
    /\ opening = IF kind = "ts" THEN 1 ELSE 0
    /\ socks = <<>> /\ delay = MinDelay /\ shown = FALSE
    /\ queue = <<>> /\ wake = FALSE /\ resolved = <<>> /\ listener = "asks"
    /\ heard = <<>> /\ passed = <<>>

-----------------------------------------------------------------------------
(* subscribe.                                                              *)

\* report: said once per change, and never after stop().
Report(now) == shown' = IF closed THEN shown ELSE now

\* Mutant: a socket closed by stop() is opened again.
RetryAlways ==
    /\ timers' = timers + 1
    /\ delay' = IF delay * 2 < MaxDelay THEN delay * 2 ELSE MaxDelay

Retry ==
    IF closed THEN UNCHANGED <<timers, delay>>
    ELSE /\ timers' = timers + 1
         /\ delay' = IF delay * 2 < MaxDelay THEN delay * 2 ELSE MaxDelay

\* The timer fires and open asks for the url.
TimerFires ==
    /\ timers > 0
    /\ timers' = timers - 1 /\ opening' = opening + 1
    /\ UNCHANGED <<kind, closed, socks, delay, shown>> /\ UNCHANGED nextVars

\* The url is signed, unless the subscription was stopped meanwhile.
UrlBuilt ==
    /\ opening > 0
    /\ Len(socks) < MaxSockets
    /\ opening' = opening - 1
    /\ socks' = IF closed THEN socks ELSE Append(socks, "connecting")
    /\ UNCHANGED <<kind, closed, timers, delay, shown>> /\ UNCHANGED nextVars

UrlFails ==
    /\ opening > 0
    /\ opening' = opening - 1
    /\ Retry
    /\ UNCHANGED <<kind, closed, socks, shown>> /\ UNCHANGED nextVars

SocketOpens(s) ==
    /\ kind = "ts" /\ socks[s] = "connecting"
    /\ socks' = [socks EXCEPT ![s] = "up"]
    /\ delay' = MinDelay
    /\ Report(TRUE)
    /\ UNCHANGED <<kind, closed, timers, opening>> /\ UNCHANGED nextVars

SocketCloses(s) ==
    /\ kind = "ts" /\ socks[s] # "gone"
    /\ socks' = [socks EXCEPT ![s] = "gone"]
    /\ Retry
    /\ Report(FALSE)
    /\ UNCHANGED <<kind, closed, opening>> /\ UNCHANGED nextVars

-----------------------------------------------------------------------------
(* signals: one queue, one promise at a time.                              *)

\* onUpdate with a swap id; the nudge of a reconnect carries none.
OnUpdate(id) ==
    IF wake
    THEN wake' = FALSE /\ resolved' = <<id>> /\ UNCHANGED queue
    ELSE queue' = Append(queue, id) /\ UNCHANGED <<wake, resolved>>

\* A socket that stop() closes may still bring what was under way.
Pushed(s, id) ==
    /\ kind = "ts" /\ socks[s] \in {"up", "closing"}
    /\ Len(heard) < MaxPushes
    /\ OnUpdate(id)
    /\ heard' = Append(heard, id)
    /\ UNCHANGED channelVars /\ UNCHANGED <<listener, passed>>

\* stop(): the timer is cleared, the last socket closed, next() let go.
Stop ==
    /\ kind = "ts" /\ ~closed
    /\ closed' = TRUE
    /\ timers' = 0
    /\ socks' = IF socks # <<>> /\ Last(socks) \in {"connecting", "up"}
                THEN [socks EXCEPT ![Len(socks)] = "closing"] ELSE socks
    /\ wake' = FALSE
    /\ resolved' = IF wake THEN <<None>> ELSE resolved
    /\ UNCHANGED <<kind, opening, delay, shown, queue, listener, heard, passed>>

-----------------------------------------------------------------------------
(* WsSignals: one socket, opened by next and read by it.                   *)

Reached == socks # <<>> /\ Last(socks) = "up"

\* The first next, or the one after the socket ended, opens it; no answer is
\* next's None.
Subscribe(opens) ==
    /\ kind = "rust" /\ listener = "waits" /\ resolved = <<>> /\ ~Reached
    /\ Len(socks) < MaxSockets
    /\ IF opens THEN socks' = Append(socks, "up") /\ UNCHANGED resolved
                ELSE resolved' = <<None>> /\ UNCHANGED socks
    /\ UNCHANGED <<kind, closed, timers, opening, delay, shown>>
    /\ UNCHANGED <<queue, wake, listener, heard, passed>>

\* The socket holds what came until next reads it.
Arrives(id) ==
    /\ kind = "rust" /\ Reached
    /\ Len(heard) < MaxPushes
    /\ queue' = Append(queue, id) /\ heard' = Append(heard, id)
    /\ UNCHANGED channelVars /\ UNCHANGED <<wake, resolved, listener, passed>>

SubscriptionNext ==
    /\ kind = "rust" /\ listener = "waits" /\ resolved = <<>> /\ queue # <<>>
    /\ resolved' = <<Head(queue)>> /\ queue' = Tail(queue)
    /\ UNCHANGED channelVars /\ UNCHANGED <<wake, listener, heard, passed>>

\* What was not read of a socket that failed is lost with it.
SubscriptionEnds ==
    /\ kind = "rust" /\ listener = "waits" /\ resolved = <<>> /\ Reached
    /\ socks' = [socks EXCEPT ![Len(socks)] = "gone"]
    /\ resolved' = <<None>>
    /\ queue' = <<>> /\ heard' = passed
    /\ UNCHANGED <<kind, closed, timers, opening, delay, shown>>
    /\ UNCHANGED <<wake, listener, passed>>

-----------------------------------------------------------------------------
(* listen: the driver's end.                                               *)

\* Mutant: next waits without a look at the queue.
NextIdWaits ==
    IF closed THEN resolved' = <<None>> /\ UNCHANGED <<queue, wake>>
    ELSE wake' = TRUE /\ UNCHANGED <<queue, resolved>>

\* signals().next().
NextId ==
    CASE closed      -> resolved' = <<None>> /\ UNCHANGED <<queue, wake>>
      [] ~closed /\ queue # <<>> ->
            resolved' = <<Head(queue)>> /\ queue' = Tail(queue) /\ UNCHANGED wake
      [] OTHER       -> wake' = TRUE /\ UNCHANGED <<queue, resolved>>

Ask ==
    /\ listener = "asks"
    /\ listener' = "waits"
    /\ IF kind = "ts" THEN NextId ELSE UNCHANGED <<queue, wake, resolved>>
    /\ UNCHANGED channelVars /\ UNCHANGED <<heard, passed>>

\* An id goes to the loops; without one the listener rests poll_interval.
Taken ==
    /\ listener = "waits" /\ resolved # <<>>
    /\ listener' = IF resolved = <<None>> THEN "rests" ELSE "asks"
    /\ passed' = IF resolved = <<None>> THEN passed ELSE passed \o resolved
    /\ resolved' = <<>>
    /\ UNCHANGED channelVars /\ UNCHANGED <<queue, wake, heard>>

Rested ==
    /\ listener = "rests"
    /\ listener' = "asks"
    /\ UNCHANGED channelVars /\ UNCHANGED <<queue, wake, resolved, heard, passed>>

\* The driver is stopped or dropped: next is let go where it stands.
ListenEnds ==
    /\ listener \in {"waits", "rests"}
    /\ listener' = "ended"
    /\ UNCHANGED channelVars /\ UNCHANGED <<queue, wake, resolved, heard, passed>>

Next ==
    \/ TimerFires \/ UrlBuilt \/ UrlFails \/ Stop
    \/ \E s \in DOMAIN socks : SocketOpens(s) \/ SocketCloses(s) \/ \E id \in Ids : Pushed(s, id)
    \/ \E opens \in BOOLEAN : Subscribe(opens)
    \/ \E id \in Ids : Arrives(id)
    \/ SubscriptionNext \/ SubscriptionEnds
    \/ Ask \/ Taken \/ Rested \/ ListenEnds

Spec == Init /\ [][Next]_signalVars

-----------------------------------------------------------------------------
(* Properties.                                                             *)

Live == {s \in DOMAIN socks : socks[s] \in {"connecting", "up"}}

\* One reconnection is under way at a time, and none once stop() was called,
\* not even by an open that was waiting for its url or by the closing socket;
\* until then onConnectionChange last said whether the socket is up.
OneChannel ==
    IF closed THEN timers = 0 /\ Live = {}
    ELSE /\ timers + opening + Cardinality(Live) <= 1
         /\ kind = "ts" => shown = \E s \in Live : socks[s] = "up"

\* Until stop(), every id read from the socket reaches the loops in its order,
\* however pushes, promises and reconnects fall between each other: the ids
\* not handed on are in hand, and next() never waits while one is queued.
SignalsInOrder ==
    LET inHand == IF resolved = <<None>> THEN <<>> ELSE resolved
    IN ~closed => /\ heard = passed \o inHand \o queue
                  /\ wake => queue = <<>> /\ resolved = <<>>
=============================================================================
