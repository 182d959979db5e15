------------------------------ MODULE RunLoop ------------------------------
(***************************************************************************)
(* The driver around its passes: the loop `run` makes over the store, the  *)
(* calls the app makes beside it, and the locks, wakes and signals that    *)
(* tie them together (driver/mod.rs, driver/accept.rs).                    *)
(*                                                                         *)
(* A driver is one process, or one tab of a browser, over a store it may   *)
(* share. An actor is its loop, which goes by the driver's own name, or a  *)
(* call of the app, one at a time for each caller.                         *)
(*                                                                         *)
(* Abstractions. A record is the number of its saves, 0 while it is not    *)
(* stored. What a pass does is left to the modules of the swaps: here it   *)
(* saves the record it loaded any number of times. A lock is held between  *)
(* two places of the code, as a guard is, and so it is read off them.      *)
(***************************************************************************)
EXTENDS Naturals

CONSTANTS
    Drivers,        \* the drivers over the store
    Callers,        \* the callers of the app
    Home,           \* each caller's driver
    Swaps,          \* the swap ids
    None,           \* no swap
    WebLocks,       \* TRUE: drivers share a lock of each swap (rt::exclusive)
    Racing,         \* TRUE: the app restores a swap it is still creating
    MaxSaves,       \* bound: saves of a record
    MaxSignals,     \* bound: signals sent
    MaxRestarts,    \* bound: processes killed and started again
    MaxFails        \* bound: failing reads of the store's list

ASSUME People ==
    /\ Drivers \cap Callers = {}
    /\ Home \in [Callers -> Drivers]
    /\ None \notin Swaps

ASSUME Options ==
    /\ WebLocks \in BOOLEAN /\ Racing \in BOOLEAN
    /\ {MaxSaves, MaxSignals, MaxRestarts, MaxFails} \subseteq Nat

VARIABLES
    run,        \* RunState of each driver
    pc,         \* where each actor stands
    at,         \* the swap each actor has in hand, or None
    job,        \* what a call is for
    base,       \* the record each actor has in hand
    todo,       \* the ids left in the sweep of each driver
    permit,     \* wake: a permit is stored
    gap,        \* SIGNAL_GAP passed in this wait
    heard,      \* a signal waits in the actor's receiver
    stored,     \* each swap's record in the store
    quiet,      \* each swap's record is quiet
    listed,     \* the swaps the server knows
    due,        \* swaps created, sent or signalled, and not passed since
    late,       \* passes each loop began since it was stopped
    used        \* how much of each bound is used

loopVars == <<run, todo, permit, late>>
actVars  == <<pc, at, job, base>>
waitVars == <<gap, heard>>
storeVars == <<stored, quiet, listed, due>>
vars == <<loopVars, actVars, waitVars, storeVars, used>>

-----------------------------------------------------------------------------
Actors == Drivers \cup Callers
DriverOf(a) == IF a \in Drivers THEN a ELSE Home[a]
Known == {s \in Swaps : stored[s] > 0}

RunState == {"Idle", "Running", "Stopping", "Stopped"}

\* A loop lists, sweeps and rests; a call waits, or adopts what it created;
\* both take the two locks, load, and pass or store.
Pc == {"idle", "list", "sweep", "rest", "wait", "adopt",
       "lock", "share", "load", "pass", "store"}

\* A SwapLock is taken in two steps and let go in one.
Local == {"share", "load", "pass", "store"}
Global == {"load", "pass", "store"}

Goto(a, where) == pc' = [pc EXCEPT ![a] = where]

\* The lock is let go: a loop goes on with its sweep, a call is over.
Release(a) ==
    /\ Goto(a, IF a \in Drivers THEN "sweep" ELSE "idle")
    /\ at' = [at EXCEPT ![a] = None]
    /\ job' = [job EXCEPT ![a] = "pass"]
    /\ base' = [base EXCEPT ![a] = 0]

-----------------------------------------------------------------------------
(* Driver::run and Driver::sweep.                                          *)

\* A loop runs once. It subscribes to the signals as it starts.
Run(d) ==
    /\ run[d] = "Idle"
    /\ run' = [run EXCEPT ![d] = "Running"]
    /\ Goto(d, "list")
    /\ UNCHANGED <<todo, permit, late, at, job, base, waitVars, storeVars, used>>

\* The loop goes on while it is Running, with every id in the store.
List(d) ==
    /\ pc[d] = "list" /\ run[d] = "Running"
    /\ todo' = [todo EXCEPT ![d] = Known]
    /\ Goto(d, "sweep")
    /\ UNCHANGED <<run, permit, late, at, job, base, waitVars, storeVars, used>>

\* The store does not answer: the sweep ends.
ListFails(d) ==
    /\ pc[d] = "list" /\ run[d] = "Running"
    /\ used.fails < MaxFails
    /\ used' = [used EXCEPT !.fails = @ + 1]
    /\ todo' = [todo EXCEPT ![d] = {}]
    /\ Goto(d, "sweep")
    /\ UNCHANGED <<run, permit, late, at, job, base, waitVars, storeVars>>

Exit(d) ==
    /\ pc[d] = "list" /\ run[d] # "Running"
    /\ run' = [run EXCEPT ![d] = "Stopped"]
    /\ Goto(d, "idle")
    /\ heard' = [heard EXCEPT ![d] = FALSE]
    /\ UNCHANGED <<todo, permit, late, at, job, base, gap, storeVars, used>>

\* Mutant of NextSwap: the sweep goes on to its end once stopped.
NextSwapAlways(d) ==
    /\ pc[d] = "sweep"
    /\ \E s \in todo[d] :
          /\ at' = [at EXCEPT ![d] = s]
          /\ todo' = [todo EXCEPT ![d] = @ \ {s}]
    /\ Goto(d, "lock")
    /\ UNCHANGED <<run, permit, late, job, base, waitVars, storeVars, used>>

NextSwap(d) ==
    /\ pc[d] = "sweep" /\ run[d] = "Running"
    /\ \E s \in todo[d] :
          /\ at' = [at EXCEPT ![d] = s]
          /\ todo' = [todo EXCEPT ![d] = @ \ {s}]
    /\ Goto(d, "lock")
    /\ UNCHANGED <<run, permit, late, job, base, waitVars, storeVars, used>>

\* The sweep is over, or the driver was stopped; the loop rests.
Rest(d) ==
    /\ pc[d] = "sweep"
    /\ todo[d] = {} \/ run[d] # "Running"
    /\ Goto(d, "rest")
    /\ todo' = [todo EXCEPT ![d] = {}]
    /\ UNCHANGED <<run, permit, late, at, job, base, waitVars, storeVars, used>>

\* The four ends of a rest: a permit, a signal past the gap, a stop, the
\* interval. Signals in the receiver are one: a sweep after the first answers
\* those before it, and the next rest takes those after.
Woken(d) ==
    /\ pc[d] = "rest" /\ permit[d]
    /\ permit' = [permit EXCEPT ![d] = FALSE]
    /\ Goto(d, "list")
    /\ gap' = [gap EXCEPT ![d] = FALSE]
    /\ UNCHANGED <<run, todo, late, at, job, base, heard, storeVars, used>>

Signaled(d) ==
    /\ pc[d] = "rest" /\ gap[d] /\ heard[d]
    /\ heard' = [heard EXCEPT ![d] = FALSE]
    /\ Goto(d, "list")
    /\ gap' = [gap EXCEPT ![d] = FALSE]
    /\ UNCHANGED <<loopVars, at, job, base, storeVars, used>>

\* Mutant of StopSeen: a stop does not end a rest, a signal after it does.
StopSeenOnSignal(d) ==
    /\ pc[d] = "rest" /\ run[d] # "Running" /\ heard[d]
    /\ Goto(d, "list")
    /\ gap' = [gap EXCEPT ![d] = FALSE]
    /\ UNCHANGED <<loopVars, at, job, base, heard, storeVars, used>>

StopSeen(d) ==
    /\ pc[d] = "rest" /\ run[d] # "Running"
    /\ Goto(d, "list")
    /\ gap' = [gap EXCEPT ![d] = FALSE]
    /\ UNCHANGED <<loopVars, at, job, base, heard, storeVars, used>>

Interval(d) ==
    /\ pc[d] = "rest"
    /\ Goto(d, "list")
    /\ gap' = [gap EXCEPT ![d] = FALSE]
    /\ UNCHANGED <<loopVars, at, job, base, heard, storeVars, used>>

\* SIGNAL_GAP passes, for a loop and for a call.
Gap(a) ==
    /\ pc[a] \in {"rest", "wait"} /\ ~gap[a]
    /\ gap' = [gap EXCEPT ![a] = TRUE]
    /\ UNCHANGED <<loopVars, actVars, heard, storeVars, used>>

-----------------------------------------------------------------------------
(* The lock, the load and the pass, of a loop or of a call.                *)

\* Mutant of TakeLocal: the driver's own lock is not waited for.
TakeLocalAlways(a) ==
    /\ pc[a] = "lock"
    /\ Goto(a, "share")
    /\ UNCHANGED <<loopVars, at, job, base, waitVars, storeVars, used>>

\* The swap's mutex in this driver, then the store's.
TakeLocal(a) ==
    /\ pc[a] = "lock"
    /\ \A b \in Actors : DriverOf(b) = DriverOf(a) /\ pc[b] \in Local => at[b] # at[a]
    /\ Goto(a, "share")
    /\ UNCHANGED <<loopVars, at, job, base, waitVars, storeVars, used>>

\* Mutant of TakeShared: the lock of the store is not waited for.
TakeSharedAlways(a) ==
    /\ pc[a] = "share"
    /\ Goto(a, "load")
    /\ UNCHANGED <<loopVars, at, job, base, waitVars, storeVars, used>>

\* Natively rt::exclusive is nothing.
TakeShared(a) ==
    /\ pc[a] = "share"
    /\ WebLocks => \A b \in Actors : pc[b] \in Global => at[b] # at[a]
    /\ Goto(a, "load")
    /\ UNCHANGED <<loopVars, at, job, base, waitVars, storeVars, used>>

\* The record is read and the pass begins. A loop takes up a quiet swap only
\* for dust that is worth its refund by now.
Load(a) ==
    /\ pc[a] = "load" /\ job[a] = "pass"
    /\ stored[at[a]] > 0
    /\ base' = [base EXCEPT ![a] = stored[at[a]]]
    /\ due' = due \ {at[a]}
    /\ late' = IF a \in Drivers /\ run[a] # "Running" THEN [late EXCEPT ![a] = @ + 1] ELSE late
    /\ Goto(a, "pass")
    /\ UNCHANGED <<run, todo, permit, at, job, waitVars, stored, quiet, listed, used>>

\* Nothing to pass: no record, or a quiet one.
Skip(a) ==
    /\ pc[a] = "load" /\ job[a] = "pass"
    /\ \/ stored[at[a]] = 0
       \/ a \in Drivers /\ quiet[at[a]]
    /\ Release(a)
    /\ UNCHANGED <<loopVars, waitVars, storeVars, used>>

\* Mutant of Put: the record before the one in hand is saved.
PutBehind(a, q) ==
    /\ stored' = [stored EXCEPT ![at[a]] = base[a] - 1]
    /\ quiet' = [quiet EXCEPT ![at[a]] = q]

\* A save replaces the record whatever the store holds.
Put(a, q) ==
    /\ stored' = [stored EXCEPT ![at[a]] = base[a] + 1]
    /\ quiet' = [quiet EXCEPT ![at[a]] = q]

\* The pass saves, or fails and says so.
Save(a) ==
    /\ pc[a] = "pass" /\ base[a] < MaxSaves
    /\ \E q \in BOOLEAN : Put(a, q)
    /\ base' = [base EXCEPT ![a] = @ + 1]
    /\ UNCHANGED <<loopVars, pc, at, job, waitVars, listed, due, used>>

\* The preimage is out: the swap is saved, and its next pass wanted at once.
SendPreimage(a) ==
    /\ pc[a] = "pass" /\ base[a] < MaxSaves
    /\ Put(a, FALSE)
    /\ base' = [base EXCEPT ![a] = @ + 1]
    /\ permit' = [permit EXCEPT ![DriverOf(a)] = TRUE]
    /\ due' = due \cup {at[a]}
    /\ UNCHANGED <<run, todo, late, pc, at, job, waitVars, listed, used>>

EndPass(a) ==
    /\ pc[a] = "pass"
    /\ Release(a)
    /\ UNCHANGED <<loopVars, waitVars, storeVars, used>>

-----------------------------------------------------------------------------
(* The calls of the app.                                                   *)

\* Handle::step, cancel and refund: one pass, now.
Step(c, s) ==
    /\ pc[c] = "idle" /\ stored[s] > 0
    /\ at' = [at EXCEPT ![c] = s]
    /\ job' = [job EXCEPT ![c] = "pass"]
    /\ Goto(c, "lock")
    /\ UNCHANGED <<loopVars, base, waitVars, storeVars, used>>

\* Handle::advance: one pass after a signal for the swap, or the interval.
Advance(c, s) ==
    /\ pc[c] = "idle" /\ stored[s] > 0
    /\ at' = [at EXCEPT ![c] = s]
    /\ job' = [job EXCEPT ![c] = "pass"]
    /\ Goto(c, "wait")
    /\ UNCHANGED <<loopVars, base, waitVars, storeVars, used>>

\* What waits is forgotten with its receiver.
EndWait(a) ==
    /\ gap' = [gap EXCEPT ![a] = FALSE]
    /\ heard' = [heard EXCEPT ![a] = FALSE]

AdvanceHears(c) ==
    /\ pc[c] = "wait" /\ gap[c] /\ heard[c]
    /\ Goto(c, "lock")
    /\ EndWait(c)
    /\ UNCHANGED <<loopVars, at, job, base, storeVars, used>>

\* Mutant of AdvanceInterval: the interval starts another wait.
AdvanceIntervalAgain(c) ==
    /\ pc[c] = "wait"
    /\ Goto(c, "wait")
    /\ EndWait(c)
    /\ UNCHANGED <<loopVars, at, job, base, storeVars, used>>

AdvanceInterval(c) ==
    /\ pc[c] = "wait"
    /\ Goto(c, "lock")
    /\ EndWait(c)
    /\ UNCHANGED <<loopVars, at, job, base, storeVars, used>>

\* Driver::swap_in, swap_out: the server knows the swap before the store does.
Create(c, s) ==
    /\ pc[c] = "idle" /\ s \notin listed
    /\ listed' = listed \cup {s}
    /\ at' = [at EXCEPT ![c] = s]
    /\ Goto(c, "adopt")
    /\ UNCHANGED <<loopVars, job, base, waitVars, stored, quiet, due, used>>

\* Mutant of Adopt: the loop is not woken.
AdoptSilently(c) ==
    /\ pc[c] = "adopt"
    /\ Put(c, FALSE)
    /\ due' = due \cup {at[c]}
    /\ Release(c)
    /\ UNCHANGED <<loopVars, waitVars, listed, used>>

\* adopt: the first record is saved, under no lock, and the loop is woken.
Adopt(c) ==
    /\ pc[c] = "adopt"
    /\ Put(c, FALSE)
    /\ permit' = [permit EXCEPT ![Home[c]] = TRUE]
    /\ due' = due \cup {at[c]}
    /\ Release(c)
    /\ UNCHANGED <<run, todo, late, waitVars, listed, used>>

\* The terms are refused: the server is asked to cancel, nothing is stored.
Refuse(c) ==
    /\ pc[c] = "adopt"
    /\ Release(c)
    /\ UNCHANGED <<loopVars, waitVars, storeVars, used>>

\* Driver::restore of a swap the store lacks.
Restore(c, s) ==
    /\ pc[c] = "idle" /\ s \in listed /\ stored[s] = 0
    /\ Racing \/ \A b \in Callers : pc[b] = "adopt" => at[b] # s
    /\ at' = [at EXCEPT ![c] = s]
    /\ job' = [job EXCEPT ![c] = "restore"]
    /\ Goto(c, "lock")
    /\ UNCHANGED <<loopVars, base, waitVars, storeVars, used>>

\* restore_signed asks the store again under the lock.
Recheck(c) ==
    /\ pc[c] = "load" /\ job[c] = "restore"
    /\ \/ stored[at[c]] > 0 /\ Release(c)
       \/ stored[at[c]] = 0 /\ Goto(c, "store") /\ UNCHANGED <<at, job, base>>
    /\ UNCHANGED <<loopVars, waitVars, storeVars, used>>

RestoreSaves(c) ==
    /\ pc[c] = "store"
    /\ Put(c, FALSE)
    /\ permit' = [permit EXCEPT ![Home[c]] = TRUE]
    /\ due' = due \cup {at[c]}
    /\ Release(c)
    /\ UNCHANGED <<run, todo, late, waitVars, listed, used>>

\* accept or the save fails.
RestoreFails(c) ==
    /\ pc[c] = "store"
    /\ Release(c)
    /\ UNCHANGED <<loopVars, waitVars, storeVars, used>>

\* Driver::stop: a loop never started is stopped outright.
Stop(d) ==
    /\ run[d] \in {"Idle", "Running"}
    /\ run' = [run EXCEPT ![d] = IF @ = "Idle" THEN "Stopped" ELSE "Stopping"]
    /\ UNCHANGED <<todo, permit, late, actVars, waitVars, storeVars, used>>

\* The process, or the tab, dies and comes back: only the store is left.
Restart(d) ==
    /\ used.restarts < MaxRestarts
    /\ used' = [used EXCEPT !.restarts = @ + 1]
    /\ run' = [run EXCEPT ![d] = "Idle"]
    /\ todo' = [todo EXCEPT ![d] = {}]
    /\ permit' = [permit EXCEPT ![d] = FALSE]
    /\ late' = [late EXCEPT ![d] = 0]
    /\ pc' = [a \in Actors |-> IF DriverOf(a) = d THEN "idle" ELSE pc[a]]
    /\ at' = [a \in Actors |-> IF DriverOf(a) = d THEN None ELSE at[a]]
    /\ job' = [a \in Actors |-> IF DriverOf(a) = d THEN "pass" ELSE job[a]]
    /\ base' = [a \in Actors |-> IF DriverOf(a) = d THEN 0 ELSE base[a]]
    /\ gap' = [a \in Actors |-> gap[a] /\ DriverOf(a) # d]
    /\ heard' = [a \in Actors |-> heard[a] /\ DriverOf(a) # d]
    /\ UNCHANGED storeVars

-----------------------------------------------------------------------------
(* The server's signals.                                                   *)

\* The listener of each driver not stopped forwards the id to its loop and to
\* the calls that wait on it; a receiver that lags may lose it for a call, but
\* wakes the loop all the same.
Signal(s) ==
    /\ s \in Known
    /\ used.signals < MaxSignals
    /\ used' = [used EXCEPT !.signals = @ + 1]
    /\ due' = due \cup {s}
    /\ \E lost \in SUBSET Callers :
          heard' = [a \in Actors |->
              \/ heard[a]
              \/ a \in Drivers /\ run[a] # "Stopped" /\ pc[a] # "idle"
              \/ a \notin Drivers \cup lost /\ pc[a] = "wait" /\ at[a] = s
                   /\ run[DriverOf(a)] # "Stopped"]
    /\ UNCHANGED <<loopVars, actVars, gap, stored, quiet, listed>>

-----------------------------------------------------------------------------
Init ==
    /\ run = [d \in Drivers |-> "Idle"]
    /\ pc = [a \in Actors |-> "idle"]
    /\ at = [a \in Actors |-> None]
    /\ job = [a \in Actors |-> "pass"]
    /\ base = [a \in Actors |-> 0]
    /\ todo = [d \in Drivers |-> {}]
    /\ permit = [d \in Drivers |-> FALSE]
    /\ gap = [a \in Actors |-> FALSE]
    /\ heard = [a \in Actors |-> FALSE]
    /\ stored = [s \in Swaps |-> 0]
    /\ quiet = [s \in Swaps |-> FALSE]
    /\ listed \in SUBSET Swaps
    /\ due = {}
    /\ late = [d \in Drivers |-> 0]
    /\ used = [signals |-> 0, restarts |-> 0, fails |-> 0]

Looping(d) == List(d) \/ ListFails(d) \/ Exit(d) \/ NextSwap(d) \/ Rest(d)
                \/ Woken(d) \/ Signaled(d) \/ StopSeen(d) \/ Interval(d)
Locked(a) == TakeLocal(a) \/ TakeShared(a)
Passing(a) == Load(a) \/ Skip(a) \/ Save(a) \/ SendPreimage(a) \/ EndPass(a)
Calling(c) == \/ \E s \in Swaps : Step(c, s) \/ Advance(c, s) \/ Create(c, s) \/ Restore(c, s)
              \/ AdvanceHears(c) \/ AdvanceInterval(c) \/ Adopt(c) \/ Refuse(c)
              \/ Recheck(c) \/ RestoreSaves(c) \/ RestoreFails(c)

Next ==
    \/ \E d \in Drivers : Run(d) \/ Looping(d) \/ Stop(d) \/ Restart(d)
    \/ \E a \in Actors : Gap(a) \/ Locked(a) \/ Passing(a)
    \/ \E c \in Callers : Calling(c)
    \/ \E s \in Swaps : Signal(s)

Spec == Init /\ [][Next]_vars

-----------------------------------------------------------------------------
(* Properties.                                                             *)

TypeOK ==
    /\ run \in [Drivers -> RunState]
    /\ pc \in [Actors -> Pc]
    /\ at \in [Actors -> Swaps \cup {None}]
    /\ job \in [Actors -> {"pass", "restore"}]
    /\ base \in [Actors -> Nat]
    /\ todo \in [Drivers -> SUBSET Swaps]
    /\ permit \in [Drivers -> BOOLEAN]
    /\ gap \in [Actors -> BOOLEAN] /\ heard \in [Actors -> BOOLEAN]
    /\ stored \in [Swaps -> Nat] /\ quiet \in [Swaps -> BOOLEAN]
    /\ listed \subseteq Swaps /\ due \subseteq Swaps
    /\ late \in [Drivers -> Nat]
    /\ used \in [signals : Nat, restarts : Nat, fails : Nat]

\* No save loses another: whoever is about to save works on the record the
\* store holds, of a swap being created none (rt.rs:64: a swap's record is
\* read, passed and written against anything else sharing its store).
NoLostUpdate ==
    \A a \in Actors : pc[a] \in {"pass", "store", "adopt"} => base[a] = stored[at[a]]

\* A stopped loop ends after the pass in flight, and the one it was about to
\* begin when it was stopped: never a sweep more.
OneMorePass == \A d \in Drivers : late[d] <= 1

-----------------------------------------------------------------------------
(* Liveness.                                                               *)

\* Tasks are scheduled, a pass ends (its awaits are bounded), timers fire, and
\* both locks are first come, first served. The loop's own interval is left
\* out: what is due must not wait for it.
Fairness ==
    /\ \A d \in Drivers :
          /\ WF_vars(List(d) \/ Exit(d) \/ NextSwap(d) \/ Rest(d))
          /\ WF_vars(Woken(d)) /\ WF_vars(Signaled(d)) /\ WF_vars(StopSeen(d))
    /\ \A a \in Actors :
          /\ WF_vars(Gap(a))
          /\ SF_vars(TakeLocal(a)) /\ SF_vars(TakeShared(a))
          /\ WF_vars(Load(a) \/ Skip(a)) /\ WF_vars(EndPass(a))
    /\ \A c \in Callers :
          /\ WF_vars(AdvanceInterval(c)) /\ WF_vars(Adopt(c) \/ Refuse(c))
          /\ WF_vars(Recheck(c)) /\ WF_vars(RestoreSaves(c) \/ RestoreFails(c))

FairSpec == Spec /\ Fairness

\* A swap created, restored, signalled, or whose preimage is out, is passed
\* without waiting for the interval while the loop runs.
DueIsPassed ==
    \A s \in Swaps : s \in due ~>
        (s \notin due \/ quiet[s] \/ \A d \in Drivers : run[d] # "Running")

\* stop ends the loop: wait_stopped resolves.
StopEnds == \A d \in Drivers : run[d] = "Stopping" ~> run[d] # "Stopping"

\* Every call of the app returns, with the locks and waits of the others.
CallsReturn == \A c \in Callers : pc[c] # "idle" ~> pc[c] = "idle"
=============================================================================
