---------------------------- MODULE RunLoopProofs ----------------------------
(***************************************************************************)
(* Theorems about RunLoop, for any number of drivers, callers and swaps    *)
(* and any bounds: its type invariant, that both locks exclude, that no    *)
(* save loses another, and that a stopped loop ends in time.               *)
(*                                                                         *)
(* The first three assume what makes the store's lock one: drivers share   *)
(* it (WebLocks), or there is but one driver; and an app that does not     *)
(* restore a swap it is still creating (~Racing).                          *)
(*                                                                         *)
(* The inductive invariant: what an actor holds in hand is told by where   *)
(* it stands (Hands), and no loop runs unstarted (Unstarted); both locks   *)
(* exclude (Locks); a swap being created is in nobody else's hands         *)
(* (Creating); who is about to save has the record the store holds         *)
(* (NoLostUpdate). The stop has a smaller one of its own, with no          *)
(* assumption (StopInv).                                                   *)
(***************************************************************************)
EXTENDS RunLoop, TLAPS

-----------------------------------------------------------------------------
(* The layers.                                                             *)

\* Where an actor stands while it has a swap in hand.
Busy == {"wait", "adopt", "lock"} \cup Local

\* An actor has a swap in hand, one the server lists, exactly while it is
\* busy, and a record only in a pass. A loop does nothing but pass.
Hands ==
    /\ \A a \in Actors :
          /\ at[a] \in Swaps <=> pc[a] \in Busy
          /\ at[a] \in Swaps => at[a] \in listed
          /\ pc[a] # "pass" => base[a] = 0
    /\ \A d \in Drivers : pc[d] \notin {"wait", "adopt", "store"} /\ job[d] = "pass"

\* A loop that was not started does nothing.
Unstarted == \A d \in Drivers : run[d] = "Idle" => pc[d] = "idle"

\* What is stored the server lists, and a sweep takes what is stored.
Stored == /\ \A s \in Swaps : stored[s] > 0 => s \in listed
          /\ \A d \in Drivers : todo[d] \subseteq Known

\* Of one swap, a driver's lock and the store's are each held by one actor.
Locks ==
    /\ \A a, b \in Actors :
          /\ DriverOf(a) = DriverOf(b) /\ at[a] = at[b]
          /\ pc[a] \in Local /\ pc[b] \in Local
          => a = b
    /\ WebLocks => \A a, b \in Actors :
          at[a] = at[b] /\ pc[a] \in Global /\ pc[b] \in Global => a = b

\* A swap being created is not stored yet, and nobody else has it in hand.
Creating ==
    \A a \in Actors : pc[a] = "adopt" =>
        /\ stored[at[a]] = 0
        /\ \A b \in Actors : at[b] = at[a] => b = a

\* The store's lock is one: shared by the drivers, or of the only driver.
OneLock == WebLocks \/ \A d, e \in Drivers : d = e

Inv == TypeOK /\ Unstarted /\ Hands /\ Stored /\ Locks /\ Creating /\ NoLostUpdate

-----------------------------------------------------------------------------
(* The shapes of a step.                                                   *)

\* Where an actor stands is a place, each driver is its own.
LEMMA Places ==
  /\ Busy \subseteq Pc /\ Local \subseteq Busy /\ Global \subseteq Local
  /\ "sweep" \notin Busy /\ "idle" \notin Busy
  /\ \A a \in Actors : DriverOf(a) \in Drivers
  BY People DEF Busy, Local, Global, Pc, Actors, DriverOf

\* The lock of a load and a save is held by one actor (rt.rs, exclusive, and
\* the mutex of the process).
LEMMA OneHolder ==
  ASSUME Inv, OneLock, NEW a \in Actors, NEW b \in Actors, at[a] = at[b],
         pc[a] \in Global, pc[b] \in Global
  PROVE  a = b
  BY Places DEF Inv, Locks, OneLock

\* A step that leaves hands and store alone, and whoever moves has nothing in
\* hand: the loop's own steps, the timers, the signals, a stop.
LEMMA Idling ==
  ASSUME Inv, UNCHANGED <<at, job, base, stored, listed>>,
         \A a \in Actors : \/ pc'[a] = pc[a]
                           \/ pc[a] \notin Busy /\ pc'[a] \notin Busy,
         \A d \in Drivers : todo'[d] \subseteq Known
  PROVE  Hands' /\ Stored' /\ Locks' /\ Creating' /\ NoLostUpdate'
  <1>1. \A a \in Actors : pc[a] \in Busy \/ pc'[a] \in Busy => pc'[a] = pc[a]
    OBVIOUS
  <1>2. \A a \in Actors : pc'[a] \in {"wait", "adopt", "store", "pass"} \cup Local \cup Global
                            => pc'[a] = pc[a]
    BY <1>1 DEF Busy, Local, Global
  <1>3. Hands'
    <2>1. \A a \in Actors : pc'[a] \in Busy <=> pc[a] \in Busy
      BY <1>1
    <2>2. \A a \in Actors : pc'[a] # "pass" => pc[a] # "pass"
      BY <1>1 DEF Busy, Local
    <2>3. \A d \in Drivers : d \in Actors
      BY DEF Actors
    <2> QED BY <1>2, <2>1, <2>2, <2>3 DEF Inv, Hands
  <1>4. Stored'
    BY DEF Inv, Stored, Known
  <1>5. Locks'
    BY <1>2 DEF Inv, Locks, DriverOf
  <1>6. Creating' /\ NoLostUpdate'
    BY <1>2 DEF Inv, Creating, NoLostUpdate
  <1> QED BY <1>3, <1>4, <1>5, <1>6

\* A lock or a wait that ends with nothing in hand.
LEMMA Releasing ==
  ASSUME Inv, NEW a \in Actors, Release(a), UNCHANGED <<stored, listed, todo>>
  PROVE  Hands' /\ Stored' /\ Locks' /\ Creating' /\ NoLostUpdate'
  <1>1. /\ pc'[a] \in {"sweep", "idle"} /\ at'[a] = None /\ job'[a] = "pass" /\ base'[a] = 0
        /\ \A b \in Actors \ {a} : /\ pc'[b] = pc[b] /\ at'[b] = at[b]
                                   /\ job'[b] = job[b] /\ base'[b] = base[b]
    BY DEF Inv, TypeOK, Release, Goto
  <1>2. None \notin Swaps
    BY People
  <1>3. Hands'
    BY <1>1, <1>2, Places DEF Inv, Hands, Actors
  <1>4. Stored'
    BY DEF Inv, Stored, Known
  <1>5. Locks'
    BY <1>1, Places DEF Inv, Locks, DriverOf, Local, Global
  <1>6. Creating' /\ NoLostUpdate'
    <2>1. \A b \in Actors : pc'[b] = "adopt" => at[b] \in Swaps
      BY <1>1 DEF Inv, Hands, Busy
    <2> QED BY <1>1, <1>2, <2>1 DEF Inv, Creating, NoLostUpdate
  <1> QED BY <1>3, <1>4, <1>5, <1>6

\* An actor with nothing in hand takes up a swap the server lists and nobody
\* is creating, or creates one nobody has in hand.
LEMMA Taking ==
  ASSUME Inv, NEW a \in Actors, NEW s \in Swaps, pc[a] \notin Busy,
         NEW where \in {"lock", "wait", "adopt"}, Goto(a, where),
         at' = [at EXCEPT ![a] = s],
         \A b \in Actors \ {a} : job'[b] = job[b],
         a \in Drivers => where = "lock" /\ job'[a] = "pass",
         base' = base, stored' = stored,
         listed \subseteq listed', s \in listed',
         \A d \in Drivers : todo'[d] \subseteq Known,
         \A b \in Actors : pc[b] = "adopt" => at[b] # s,
         where = "adopt" => stored[s] = 0 /\ \A b \in Actors : at[b] # s
  PROVE  Hands' /\ Stored' /\ Locks' /\ Creating' /\ NoLostUpdate'
  <1>1. /\ pc'[a] = where /\ at'[a] = s
        /\ \A b \in Actors \ {a} : pc'[b] = pc[b] /\ at'[b] = at[b]
    BY DEF Inv, TypeOK, Goto
  <1>2. where \in Busy /\ where \notin Local /\ where \notin Global
        /\ where \notin {"pass", "store"}
    BY DEF Busy, Local, Global
  <1>3. base[a] = 0
    BY DEF Inv, Hands, Busy, Local
  <1>4. Hands'
    <2>1. \A b \in Actors : /\ at'[b] \in Swaps <=> pc'[b] \in Busy
                            /\ at'[b] \in Swaps => at'[b] \in listed'
                            /\ pc'[b] # "pass" => base'[b] = 0
      BY <1>1, <1>2, <1>3 DEF Inv, Hands
    <2>2. \A d \in Drivers : pc'[d] \notin {"wait", "adopt", "store"} /\ job'[d] = "pass"
      BY <1>1, <1>2 DEF Inv, Hands, Actors
    <2> QED BY <2>1, <2>2 DEF Hands
  <1>5. Stored'
    BY DEF Inv, Stored, Known
  <1>6. Locks'
    BY <1>1, <1>2 DEF Inv, Locks, DriverOf
  <1>7. Creating'
    BY <1>1 DEF Inv, Creating
  <1>8. NoLostUpdate'
    BY <1>1, <1>3 DEF Inv, NoLostUpdate
  <1> QED BY <1>4, <1>5, <1>6, <1>7, <1>8

\* An actor goes on with the swap it has in hand.
LEMMA Moving ==
  ASSUME Inv, NEW a \in Actors, NEW where \in Busy \ {"adopt"}, Goto(a, where),
         pc[a] \in Busy \ {"adopt", "pass"},
         a \in Drivers => where \notin {"wait", "store"},
         UNCHANGED <<at, job, stored, listed, todo>>,
         base' = [base EXCEPT ![a] = IF where = "pass" THEN stored[at[a]] ELSE 0],
         where = "store" => stored[at[a]] = 0
  PROVE  Hands' /\ Stored' /\ Creating' /\ NoLostUpdate'
  <1>1. /\ pc'[a] = where
        /\ base'[a] = IF where = "pass" THEN stored[at[a]] ELSE 0
        /\ \A b \in Actors \ {a} : pc'[b] = pc[b] /\ base'[b] = base[b]
    BY DEF Inv, TypeOK, Goto
  <1>2. Hands'
    BY <1>1 DEF Inv, Hands, Actors
  <1>3. Stored'
    BY DEF Inv, Stored, Known
  <1>4. Creating' /\ NoLostUpdate'
    BY <1>1 DEF Inv, Creating, NoLostUpdate
  <1> QED BY <1>2, <1>3, <1>4

\* A pass saves: nobody else is about to, and nobody is creating the swap.
LEMMA Saving ==
  ASSUME Inv, OneLock, NEW a \in Actors, pc[a] = "pass",
         NEW q \in BOOLEAN, Put(a, q), base' = [base EXCEPT ![a] = @ + 1],
         UNCHANGED <<pc, at, job, listed, todo>>
  PROVE  Hands' /\ Stored' /\ Locks' /\ Creating' /\ NoLostUpdate'
  <1>1. at[a] \in Swaps /\ at[a] \in listed /\ base[a] = stored[at[a]] /\ base[a] \in Nat
    BY DEF Inv, TypeOK, Hands, NoLostUpdate, Busy, Local
  <1>2. /\ stored' \in [Swaps -> Nat] /\ stored'[at[a]] = base[a] + 1
        /\ \A s \in Swaps \ {at[a]} : stored'[s] = stored[s]
        /\ base'[a] = base[a] + 1
        /\ \A b \in Actors \ {a} : base'[b] = base[b]
    BY <1>1 DEF Inv, TypeOK, Put
  <1>3. \A b \in Actors \ {a} : pc[b] \in {"pass", "store", "adopt"} => at[b] # at[a]
    <2>1. \A b \in Actors \ {a} : pc[b] \in {"pass", "store"} => at[b] # at[a]
      BY OneHolder DEF Global
    <2>2. \A b \in Actors \ {a} : pc[b] = "adopt" => at[b] # at[a]
      BY DEF Inv, Creating
    <2> QED BY <2>1, <2>2
  <1>4. \A b \in Actors : pc[b] \in {"pass", "store", "adopt"} => at[b] \in Swaps
    BY DEF Inv, Hands, Busy, Local
  <1>5. Hands'
    BY <1>2 DEF Inv, Hands
  <1>6. Stored'
    BY <1>1, <1>2 DEF Inv, TypeOK, Stored, Known
  <1>7. Locks'
    BY DEF Inv, Locks, DriverOf
  <1>8. Creating' /\ NoLostUpdate'
    BY <1>1, <1>2, <1>3, <1>4 DEF Inv, Creating, NoLostUpdate
  <1> QED BY <1>5, <1>6, <1>7, <1>8

\* The first record is saved, by the one who created the swap or by a restore
\* under the lock, and the hand is empty again.
LEMMA Storing ==
  ASSUME Inv, OneLock, NEW a \in Actors, pc[a] \in {"adopt", "store"},
         Put(a, FALSE), Release(a), UNCHANGED <<listed, todo>>
  PROVE  Hands' /\ Stored' /\ Locks' /\ Creating' /\ NoLostUpdate'
  <1>1. /\ at[a] \in Swaps /\ at[a] \in listed /\ base[a] = 0 /\ stored[at[a]] = 0
    BY DEF Inv, TypeOK, Hands, NoLostUpdate, Busy, Local
  <1>2. /\ stored'[at[a]] = 1
        /\ \A s \in Swaps \ {at[a]} : stored'[s] = stored[s]
    BY <1>1 DEF Inv, TypeOK, Put
  <1>3. /\ pc'[a] \in {"sweep", "idle"} /\ at'[a] = None /\ job'[a] = "pass" /\ base'[a] = 0
        /\ \A b \in Actors \ {a} : /\ pc'[b] = pc[b] /\ at'[b] = at[b]
                                   /\ job'[b] = job[b] /\ base'[b] = base[b]
    BY DEF Inv, TypeOK, Release, Goto
  <1>4. None \notin Swaps
    BY People
  <1>5. \A b \in Actors \ {a} : pc[b] \in {"pass", "store", "adopt"} =>
            at[b] # at[a] /\ at[b] \in Swaps
    <2>1. \A b \in Actors \ {a} : at[b] = at[a] /\ pc[b] \in {"pass", "store"} => pc[a] = "adopt"
      BY OneHolder DEF Global
    <2>2. \A b \in Actors \ {a} : pc[b] = "adopt" \/ pc[a] = "adopt" => at[b] # at[a]
      BY DEF Inv, Creating
    <2>3. \A b \in Actors : pc[b] \in {"pass", "store", "adopt"} => at[b] \in Swaps
      BY DEF Inv, Hands, Busy, Local
    <2> QED BY <2>1, <2>2, <2>3
  <1>6. Hands'
    BY <1>3, <1>4, Places DEF Inv, Hands, Actors
  <1>7. Stored'
    BY <1>1, <1>2 DEF Inv, TypeOK, Stored, Known
  <1>8. Locks'
    BY <1>3, Places DEF Inv, Locks, DriverOf, Local, Global
  <1>9. Creating' /\ NoLostUpdate'
    BY <1>2, <1>3, <1>4, <1>5 DEF Inv, Creating, NoLostUpdate
  <1> QED BY <1>6, <1>7, <1>8, <1>9

-----------------------------------------------------------------------------
(* The steps. The types first, of each part of Next.                       *)

Loops == \E d \in Drivers : Run(d) \/ Looping(d) \/ Stop(d) \/ Restart(d)
Passes == \E a \in Actors : Gap(a) \/ Locked(a) \/ Passing(a)
Calls == \E c \in Callers : Calling(c)
Signals == \E s \in Swaps : Signal(s)

\* The loop of a driver, its stop and its restart keep the types.
LEMMA LoopsTyped ==
  ASSUME Inv, Loops
  PROVE  TypeOK' /\ Unstarted'
  <1>1. PICK d \in Drivers : Run(d) \/ Looping(d) \/ Stop(d) \/ Restart(d)
    BY DEF Loops
  <1>2. d \in Actors /\ \A a \in Actors : a \in Drivers \/ a \in Callers
    BY Places, People DEF Inv, Hands, Actors, Busy, Local
  <1> USE <1>2, People DEF Inv, TypeOK, Unstarted, Goto, Pc, Actors,
          loopVars, actVars, waitVars, storeVars, RunState, Known
  <1>3. CASE Run(d)
    BY <1>3 DEF Run
  <1>4. CASE List(d)
    BY <1>4 DEF List
  <1>5. CASE ListFails(d)
    BY <1>5 DEF ListFails
  <1>6. CASE Exit(d)
    BY <1>6 DEF Exit
  <1>7. CASE NextSwap(d)
    BY <1>7 DEF NextSwap
  <1>8. CASE Rest(d)
    BY <1>8 DEF Rest
  <1>9. CASE Woken(d)
    BY <1>9 DEF Woken
  <1>10. CASE Signaled(d)
    BY <1>10 DEF Signaled
  <1>11. CASE StopSeen(d)
    BY <1>11 DEF StopSeen
  <1>12. CASE Interval(d)
    BY <1>12 DEF Interval
  <1>13. CASE Stop(d)
    BY <1>13 DEF Stop
  <1>14. CASE Restart(d)
    BY <1>14 DEF Restart, DriverOf
  <1> QED BY <1>1, <1>3, <1>4, <1>5, <1>6, <1>7, <1>8,
             <1>9, <1>10, <1>11, <1>12, <1>13, <1>14 DEF Looping

\* The timers, the locks and the passes keep the types.
LEMMA PassesTyped ==
  ASSUME Inv, Passes
  PROVE  TypeOK' /\ Unstarted'
  <1>1. PICK a \in Actors : Gap(a) \/ Locked(a) \/ Passing(a)
    BY DEF Passes
  <1>2. DriverOf(a) \in Drivers /\ (pc[a] \in {"load", "pass"} => at[a] \in Swaps)
    BY Places, People DEF Inv, Hands, Actors, Busy, Local
  <1> USE <1>2, People DEF Inv, TypeOK, Unstarted, Goto, Pc, Actors,
          loopVars, actVars, waitVars, storeVars
  <1>3. CASE Gap(a)
    BY <1>3 DEF Gap
  <1>4. CASE TakeLocal(a)
    BY <1>4 DEF TakeLocal
  <1>5. CASE TakeShared(a)
    BY <1>5 DEF TakeShared
  <1>6. CASE Load(a)
    BY <1>6 DEF Load
  <1>7. CASE Skip(a)
    BY <1>7 DEF Skip, Release
  <1>8. CASE Save(a)
    BY <1>8 DEF Save, Put
  <1>9. CASE SendPreimage(a)
    BY <1>9 DEF SendPreimage, Put
  <1>10. CASE EndPass(a)
    BY <1>10 DEF EndPass, Release
  <1> QED BY <1>1, <1>3, <1>4, <1>5, <1>6, <1>7, <1>8,
             <1>9, <1>10 DEF Locked, Passing

\* The calls of the app keep the types.
LEMMA CallsTyped ==
  ASSUME Inv, Calls
  PROVE  TypeOK' /\ Unstarted'
  <1>1. PICK c \in Callers : Calling(c)
    BY DEF Calls
  <1>2. c \in Actors /\ Home[c] \in Drivers /\ (pc[c] \in {"adopt", "store"} => at[c] \in Swaps)
    BY Places, People DEF Inv, Hands, Actors, Busy, Local
  <1> USE <1>2, People DEF Inv, TypeOK, Unstarted, Goto, Pc, Actors,
          loopVars, actVars, waitVars, storeVars
  <1>3. CASE (\E s \in Swaps : Step(c, s))
    BY <1>3 DEF Step
  <1>4. CASE (\E s \in Swaps : Advance(c, s))
    BY <1>4 DEF Advance
  <1>5. CASE (\E s \in Swaps : Create(c, s))
    BY <1>5 DEF Create
  <1>6. CASE (\E s \in Swaps : Restore(c, s))
    BY <1>6 DEF Restore
  <1>7. CASE AdvanceHears(c)
    BY <1>7 DEF AdvanceHears, EndWait
  <1>8. CASE AdvanceInterval(c)
    BY <1>8 DEF AdvanceInterval, EndWait
  <1>9. CASE Adopt(c)
    BY <1>9 DEF Adopt, Put, Release
  <1>10. CASE Refuse(c)
    BY <1>10 DEF Refuse, Release
  <1>11. CASE Recheck(c)
    BY <1>11 DEF Recheck, Release
  <1>12. CASE RestoreSaves(c)
    BY <1>12 DEF RestoreSaves, Put, Release
  <1>13. CASE RestoreFails(c)
    BY <1>13 DEF RestoreFails, Release
  <1> QED BY <1>1, <1>3, <1>4, <1>5, <1>6, <1>7, <1>8,
             <1>9, <1>10, <1>11, <1>12, <1>13 DEF Calling

\* A signal keeps the types.
LEMMA SignalsTyped ==
  ASSUME Inv, Signals
  PROVE  TypeOK' /\ Unstarted'
  <1>1. PICK s \in Swaps : Signal(s)
    BY DEF Signals
  <1>2. heard' \in [Actors -> BOOLEAN]
    BY <1>1, Zenon DEF Signal
  <1>3. /\ due' \subseteq Swaps
        /\ used' \in [signals : Nat, restarts : Nat, fails : Nat]
    BY <1>1 DEF Signal, Inv, TypeOK
  <1> QED BY <1>1, <1>2, <1>3 DEF Signal, Inv, TypeOK, Unstarted, loopVars, actVars, storeVars

-----------------------------------------------------------------------------
(* The steps. Then the rest of the invariant, by the shape of the step.    *)

\* A step of a loop, a stop and a restart keep the rest.
LEMMA LoopsKeep ==
  ASSUME Inv, Loops
  PROVE  Hands' /\ Stored' /\ Locks' /\ Creating' /\ NoLostUpdate'
  <1>1. PICK d \in Drivers : Run(d) \/ Looping(d) \/ Stop(d) \/ Restart(d)
    BY DEF Loops
  <1>2. /\ d \in Actors /\ "idle" \notin Busy /\ "sweep" \notin Busy
        /\ "list" \notin Busy /\ "rest" \notin Busy
        /\ \A e \in Drivers : {} \subseteq Known /\ todo[e] \subseteq Known
    BY Places DEF Inv, Stored, Actors, Busy, Local
  <1>3. CASE NextSwap(d)
    <2>1. PICK s \in todo[d] : at' = [at EXCEPT ![d] = s]
      BY <1>3 DEF NextSwap
    <2>2. s \in Swaps /\ s \in listed /\ stored[s] > 0
      BY <2>1 DEF Inv, Stored, Known
    <2>3. \A b \in Actors : pc[b] = "adopt" => at[b] # s
      BY <2>2 DEF Inv, Creating
    <2>4. \A e \in Drivers : todo'[e] \subseteq Known
      BY <1>2, <1>3 DEF NextSwap, Inv, TypeOK
    <2>5. job[d] = "pass"
      BY DEF Inv, Hands
    <2> QED BY <1>2, <1>3, <2>1, <2>2, <2>3, <2>4, <2>5, Taking
            DEF NextSwap, storeVars
  <1>4. CASE Restart(d)
    <2>1. \A a \in Actors :
             \/ pc'[a] = "idle" /\ at'[a] = None /\ job'[a] = "pass" /\ base'[a] = 0
             \/ pc'[a] = pc[a] /\ at'[a] = at[a] /\ job'[a] = job[a] /\ base'[a] = base[a]
      BY <1>4 DEF Restart
    <2>2. stored' = stored /\ listed' = listed /\ \A e \in Drivers : todo'[e] \subseteq Known
      BY <1>2, <1>4 DEF Restart, storeVars, Inv, TypeOK
    <2>3. None \notin Swaps /\ "idle" \notin Local /\ "idle" \notin Global
      BY People DEF Local, Global
    <2>4. Hands'
      BY <1>2, <2>1, <2>2, <2>3 DEF Inv, Hands, Actors
    <2>5. Stored'
      BY <2>2 DEF Inv, Stored, Known
    <2>6. Locks'
      BY <2>1, <2>3 DEF Inv, Locks, DriverOf
    <2>7. Creating' /\ NoLostUpdate'
      <3>1. \A a \in Actors : pc[a] = "adopt" => at[a] \in Swaps
        BY DEF Inv, Hands, Busy
      <3> QED BY <2>1, <2>2, <2>3, <3>1 DEF Inv, Creating, NoLostUpdate
    <2> QED BY <2>4, <2>5, <2>6, <2>7
  <1>5. ASSUME Run(d) \/ List(d) \/ ListFails(d) \/ Exit(d) \/ Rest(d) \/ Woken(d)
                  \/ Signaled(d) \/ StopSeen(d) \/ Interval(d) \/ Stop(d)
        PROVE  Hands' /\ Stored' /\ Locks' /\ Creating' /\ NoLostUpdate'
    <2>1. UNCHANGED <<at, job, base, stored, listed>>
      BY <1>5 DEF Run, List, ListFails, Exit, Rest, Woken, Signaled, StopSeen, Interval,
                  Stop, loopVars, actVars, storeVars
    <2>2. \A e \in Drivers : todo'[e] \subseteq Known
      BY <1>2, <1>5 DEF Run, List, ListFails, Exit, Rest, Woken, Signaled, StopSeen,
                        Interval, Stop, loopVars, Inv, TypeOK
    <2>3. \A a \in Actors : pc'[a] = pc[a] \/ (pc[a] \notin Busy /\ pc'[a] \notin Busy)
      <3>1. CASE Stop(d)
        BY <3>1 DEF Stop, actVars
      <3>2. CASE Run(d)
        BY <1>2, <3>2 DEF Run, Goto, Inv, TypeOK, Unstarted
      <3>3. CASE ~Stop(d) /\ ~Run(d)
        BY <1>2, <1>5, <3>3 DEF List, ListFails, Exit, Rest, Woken, Signaled, StopSeen,
                                Interval, Goto, Inv, TypeOK
      <3> QED BY <3>1, <3>2, <3>3
    <2> QED BY <2>1, <2>2, <2>3, Idling
  <1> QED BY <1>1, <1>3, <1>4, <1>5 DEF Looping

\* A timer, a lock taken and a step of a pass keep the rest.
LEMMA PassesKeep ==
  ASSUME Inv, OneLock, Passes
  PROVE  Hands' /\ Stored' /\ Locks' /\ Creating' /\ NoLostUpdate'
  <1>1. PICK a \in Actors : Gap(a) \/ Locked(a) \/ Passing(a)
    BY DEF Passes
  <1>2. /\ pc \in [Actors -> Pc] /\ base \in [Actors -> Nat]
        /\ \A d \in Drivers : todo[d] \subseteq Known
        /\ {"lock", "share", "load", "pass"} \subseteq Busy
    BY Places DEF Inv, TypeOK, Stored, Busy, Local
  <1>3. CASE Gap(a)
    BY <1>2, <1>3, Idling DEF Gap, loopVars, actVars, storeVars
  <1>4. CASE TakeLocal(a)
    <2>1. /\ pc[a] = "lock" /\ pc'[a] = "share" /\ at' = at
          /\ \A b \in Actors \ {a} : pc'[b] = pc[b]
      BY <1>2, <1>4 DEF TakeLocal, Goto
    <2>2. \A b \in Actors : DriverOf(b) = DriverOf(a) /\ pc[b] \in Local => at[b] # at[a]
      BY <1>4 DEF TakeLocal
    <2>3. Locks'
      BY <2>1, <2>2 DEF Inv, Locks, DriverOf, Global
    <2>4. base' = [base EXCEPT ![a] = 0]
      BY <1>2, <1>4 DEF TakeLocal, Inv, Hands
    <2> QED BY <1>2, <1>4, <2>1, <2>3, <2>4, Moving DEF TakeLocal, loopVars, storeVars
  <1>5. CASE TakeShared(a)
    <2>1. /\ pc[a] = "share" /\ pc'[a] = "load" /\ at' = at
          /\ \A b \in Actors \ {a} : pc'[b] = pc[b]
      BY <1>2, <1>5 DEF TakeShared, Goto
    <2>2. WebLocks => \A b \in Actors : pc[b] \in Global => at[b] # at[a]
      BY <1>5 DEF TakeShared
    <2>3. Locks'
      BY <2>1, <2>2 DEF Inv, Locks, DriverOf, Local
    <2>4. base' = [base EXCEPT ![a] = 0]
      BY <1>2, <1>5 DEF TakeShared, Inv, Hands
    <2> QED BY <1>2, <1>5, <2>1, <2>3, <2>4, Moving DEF TakeShared, loopVars, storeVars
  <1>6. CASE Load(a)
    <2>1. /\ pc[a] = "load" /\ pc'[a] = "pass" /\ at' = at
          /\ \A b \in Actors \ {a} : pc'[b] = pc[b]
      BY <1>2, <1>6 DEF Load, Goto
    <2>2. Locks'
      BY <2>1 DEF Inv, Locks, DriverOf, Local, Global
    <2> QED BY <1>2, <1>6, <2>1, <2>2, Moving DEF Load
  <1>7. CASE Skip(a) \/ EndPass(a)
    BY <1>7, Releasing DEF Skip, EndPass, loopVars, storeVars
  <1>8. CASE Save(a)
    <2>1. PICK q \in BOOLEAN : Put(a, q)
      BY <1>8 DEF Save
    <2> QED BY <1>8, <2>1, Saving DEF Save, loopVars
  <1>9. CASE SendPreimage(a)
    BY <1>9, Saving DEF SendPreimage
  <1> QED BY <1>1, <1>3, <1>4, <1>5, <1>6, <1>7, <1>8, <1>9 DEF Locked, Passing

\* A call of the app keeps the rest. A restore of a swap being created would
\* not.
LEMMA CallsKeep ==
  ASSUME Inv, OneLock, ~Racing, Calls
  PROVE  Hands' /\ Stored' /\ Locks' /\ Creating' /\ NoLostUpdate'
  <1>1. PICK c \in Callers : Calling(c)
    BY DEF Calls
  <1>2. /\ c \in Actors /\ c \notin Drivers
        /\ pc \in [Actors -> Pc]
        /\ "idle" \notin Busy /\ {"lock", "wait", "store", "load"} \subseteq Busy
        /\ \A d \in Drivers : todo[d] \subseteq Known
    BY People, Places DEF Inv, TypeOK, Stored, Actors, Busy, Local
  <1>3. ASSUME NEW s \in Swaps, Step(c, s) \/ Advance(c, s)
        PROVE  Hands' /\ Stored' /\ Locks' /\ Creating' /\ NoLostUpdate'
    <2>1. s \in listed /\ \A b \in Actors : pc[b] = "adopt" => at[b] # s
      BY <1>3 DEF Step, Advance, Inv, Stored, Creating
    <2>2. \A b \in Actors \ {c} : job'[b] = job[b]
      BY <1>3 DEF Step, Advance, Inv, TypeOK
    <2>3. PICK where \in {"lock", "wait", "adopt"} : Goto(c, where) /\ where # "adopt"
      BY <1>3 DEF Step, Advance
    <2>4. /\ pc[c] = "idle" /\ at' = [at EXCEPT ![c] = s]
          /\ UNCHANGED <<base, stored, listed, todo>>
      BY <1>3 DEF Step, Advance, loopVars, storeVars
    <2> QED BY <1>2, <2>1, <2>2, <2>3, <2>4, Taking
  <1>4. ASSUME NEW s \in Swaps, Create(c, s)
        PROVE  Hands' /\ Stored' /\ Locks' /\ Creating' /\ NoLostUpdate'
    <2>1. \A b \in Actors : at[b] # s
      BY <1>4 DEF Create, Inv, Hands
    <2>2. stored[s] = 0
      BY <1>4 DEF Create, Inv, TypeOK, Stored
    <2> QED BY <1>2, <1>4, <2>1, <2>2, Taking DEF Create, loopVars
  <1>5. ASSUME NEW s \in Swaps, Restore(c, s)
        PROVE  Hands' /\ Stored' /\ Locks' /\ Creating' /\ NoLostUpdate'
    <2>1. \A b \in Actors : pc[b] = "adopt" => at[b] # s
      BY <1>5 DEF Restore, Inv, Hands, Actors
    <2>2. \A b \in Actors \ {c} : job'[b] = job[b]
      BY <1>5 DEF Restore, Inv, TypeOK
    <2> QED BY <1>2, <1>5, <2>1, <2>2, Taking DEF Restore, loopVars, storeVars
  <1>6. CASE AdvanceHears(c) \/ AdvanceInterval(c)
    <2>1. /\ pc[c] = "wait" /\ pc'[c] = "lock" /\ at' = at
          /\ \A b \in Actors \ {c} : pc'[b] = pc[b]
      BY <1>2, <1>6 DEF AdvanceHears, AdvanceInterval, Goto
    <2>2. Locks'
      BY <2>1 DEF Inv, Locks, DriverOf, Local, Global
    <2>3. base' = [base EXCEPT ![c] = 0]
      BY <1>2, <1>6, <2>1 DEF AdvanceHears, AdvanceInterval, Inv, Hands, TypeOK
    <2> QED BY <1>2, <1>6, <2>1, <2>2, <2>3, Moving
            DEF AdvanceHears, AdvanceInterval, loopVars, storeVars
  <1>7. CASE Adopt(c) \/ RestoreSaves(c)
    BY <1>2, <1>7, Storing DEF Adopt, RestoreSaves
  <1>8. CASE Refuse(c) \/ RestoreFails(c)
    BY <1>2, <1>8, Releasing DEF Refuse, RestoreFails, loopVars, storeVars
  <1>9. CASE Recheck(c)
    <2>1. CASE Release(c)
      BY <1>2, <1>9, <2>1, Releasing DEF Recheck, loopVars, storeVars
    <2>2. CASE stored[at[c]] = 0 /\ Goto(c, "store") /\ UNCHANGED <<at, job, base>>
      <3>1. /\ pc[c] = "load" /\ pc'[c] = "store" /\ at' = at
            /\ \A b \in Actors \ {c} : pc'[b] = pc[b]
        BY <1>2, <1>9, <2>2 DEF Recheck, Goto
      <3>2. Locks'
        BY <3>1 DEF Inv, Locks, DriverOf, Local, Global
      <3>3. base' = [base EXCEPT ![c] = 0]
        BY <1>2, <2>2, <3>1 DEF Inv, Hands, TypeOK
      <3> QED BY <1>2, <1>9, <2>2, <3>1, <3>2, <3>3, Moving DEF Recheck, loopVars, storeVars
    <2> QED BY <1>9, <2>1, <2>2 DEF Recheck
  <1> QED BY <1>1, <1>3, <1>4, <1>5, <1>6, <1>7, <1>8, <1>9 DEF Calling

-----------------------------------------------------------------------------
(* The theorems.                                                           *)

\* The invariant holds at the start.
LEMMA InvStarts ==
  ASSUME Init
  PROVE  Inv
  <1>1. \A d \in Drivers : d \in Actors
    BY DEF Actors
  <1>2. TypeOK
    BY DEF Init, TypeOK, RunState, Pc
  <1>3. Unstarted /\ Hands /\ Stored
    BY <1>1, People, Places DEF Init, Unstarted, Hands, Stored, Known
  <1>4. Locks /\ Creating /\ NoLostUpdate
    BY Places DEF Init, Locks, Creating, NoLostUpdate, Busy, Local, Global
  <1> QED BY <1>2, <1>3, <1>4 DEF Inv

\* Every step keeps it, and so does none.
LEMMA InvHolds ==
  ASSUME Inv, OneLock, ~Racing, [Next]_vars
  PROVE  Inv'
  <1>1. CASE Loops
    BY <1>1, LoopsTyped, LoopsKeep DEF Inv
  <1>2. CASE Passes
    BY <1>2, PassesTyped, PassesKeep DEF Inv
  <1>3. CASE Calls
    BY <1>3, CallsTyped, CallsKeep DEF Inv
  <1>4. CASE Signals
    <2>1. PICK s \in Swaps : Signal(s)
      BY <1>4 DEF Signals
    <2>2. \A d \in Drivers : todo'[d] \subseteq Known
      BY <2>1 DEF Signal, loopVars, Inv, Stored
    <2> QED BY <1>4, <2>1, <2>2, SignalsTyped, Idling DEF Signal, loopVars, actVars, Inv
  <1>5. CASE UNCHANGED vars
    <2>1. UNCHANGED <<run, todo, permit, late, pc, at, job, base, gap, heard,
                      stored, quiet, listed, due, used>>
      BY <1>5 DEF vars, loopVars, actVars, waitVars, storeVars
    <2>2. TypeOK' /\ Unstarted'
      BY <2>1 DEF Inv, TypeOK, Unstarted
    <2>3. \A d \in Drivers : todo'[d] \subseteq Known
      BY <2>1 DEF Inv, Stored
    <2> QED BY <2>1, <2>2, <2>3, Idling DEF Inv
  <1> QED BY <1>1, <1>2, <1>3, <1>4, <1>5 DEF Next, Loops, Passes, Calls, Signals

LEMMA InvAlways ==
  ASSUME OneLock, ~Racing
  PROVE  Spec => []Inv
  <1>1. Init => Inv
    BY InvStarts
  <1>2. Inv /\ [Next]_vars => Inv'
    BY InvHolds
  <1> QED BY <1>1, <1>2, PTL DEF Spec

\* Every record, hand, queue and count keeps its type.
THEOREM TypesHold ==
  ASSUME OneLock, ~Racing
  PROVE  Spec => []TypeOK
  <1>1. Inv => TypeOK
    BY DEF Inv
  <1> QED BY <1>1, InvAlways, PTL

\* Of one swap each lock has one holder: the mutex of a driver among its own
\* loop and calls, the Web Lock among all tabs.
THEOREM LocksExclude ==
  ASSUME OneLock, ~Racing
  PROVE  Spec => []Locks
  <1>1. Inv => Locks
    BY DEF Inv
  <1> QED BY <1>1, InvAlways, PTL

\* Whoever is about to save a swap, in whatever tab, loop or call, has in hand
\* the record the store holds (rt.rs:64), if the store's lock is one and no
\* swap is restored while it is created.
THEOREM NoUpdateLost ==
  ASSUME OneLock, ~Racing
  PROVE  Spec => []NoLostUpdate
  <1>1. Inv => NoLostUpdate
    BY DEF Inv
  <1> QED BY <1>1, InvAlways, PTL

-----------------------------------------------------------------------------
(* A stopped loop. What it rests on is its own: where it stands, and what   *)
(* it began since the stop; no lock and no other actor comes into it.       *)

\* What the loop and the passes need of the types.
Stands ==
    /\ run \in [Drivers -> RunState] /\ pc \in [Actors -> Pc]
    /\ late \in [Drivers -> Nat]

\* On its way into a pass.
Entering(d) == pc[d] \in {"lock", "share", "load"}

\* Nothing is late before the stop; after it there is one pass to begin, if
\* the loop was on its way into one.
LastPass ==
    \A d \in Drivers :
        /\ late[d] <= 1
        /\ run[d] \in {"Idle", "Running"} \/ Entering(d) => late[d] = 0

StopInv == Stands /\ Unstarted /\ LastPass

\* A step of a loop, a stop or a restart.
LEMMA LoopsStop ==
  ASSUME StopInv, Loops
  PROVE  StopInv'
  <1>1. PICK d \in Drivers : Run(d) \/ Looping(d) \/ Stop(d) \/ Restart(d)
    BY DEF Loops
  <1>2. Drivers \subseteq Actors /\ d \in Actors
    BY DEF Actors
  <1> USE <1>2 DEF StopInv, Stands, Unstarted, LastPass, Entering, Goto, Pc, RunState, loopVars
  <1>3. CASE Run(d)
    BY <1>3 DEF Run
  <1>4. CASE List(d) \/ ListFails(d)
    BY <1>4 DEF List, ListFails
  <1>5. CASE Exit(d)
    BY <1>5 DEF Exit
  <1>6. CASE NextSwap(d)
    BY <1>6 DEF NextSwap
  <1>7. CASE Rest(d)
    BY <1>7 DEF Rest
  <1>8. CASE Woken(d) \/ Signaled(d) \/ StopSeen(d) \/ Interval(d)
    BY <1>8 DEF Woken, Signaled, StopSeen, Interval
  <1>9. CASE Stop(d)
    BY <1>9 DEF Stop, actVars
  <1>10. CASE Restart(d)
    <2>1. /\ pc' \in [Actors -> Pc]
          /\ \A e \in Drivers : pc'[e] = IF e = d THEN "idle" ELSE pc[e]
      BY <1>10 DEF Restart, DriverOf
    <2>2. run' = [run EXCEPT ![d] = "Idle"] /\ late' = [late EXCEPT ![d] = 0]
      BY <1>10 DEF Restart
    <2> QED BY <2>1, <2>2
  <1> QED BY <1>1, <1>3, <1>4, <1>5, <1>6, <1>7, <1>8, <1>9, <1>10 DEF Looping

\* A timer, a lock or a pass, of a loop or of a call.
LEMMA PassesStop ==
  ASSUME StopInv, Passes
  PROVE  StopInv'
  <1>1. PICK a \in Actors : Gap(a) \/ Locked(a) \/ Passing(a)
    BY DEF Passes
  <1>2. Drivers \subseteq Actors
    BY DEF Actors
  <1> USE <1>2 DEF StopInv, Stands, Unstarted, LastPass, Entering, Goto, Pc, RunState
  <1>3. CASE Gap(a)
    BY <1>3 DEF Gap, loopVars, actVars
  <1>4. CASE Locked(a)
    BY <1>4 DEF Locked, TakeLocal, TakeShared, loopVars
  <1>5. CASE Load(a)
    <2>1. CASE a \in Drivers /\ run[a] # "Running"
      <3>1. late[a] = 0 /\ late' = [late EXCEPT ![a] = 1]
        <4>1. pc[a] = "load" /\ a \in Drivers
          BY <1>5, <2>1 DEF Load
        <4>2. late[a] = 0
          BY <4>1
        <4>3. late' = [late EXCEPT ![a] = late[a] + 1]
          BY <1>5, <2>1 DEF Load
        <4> QED BY <4>2, <4>3
      <3>2. run[a] \in {"Stopping", "Stopped"} /\ pc' = [pc EXCEPT ![a] = "pass"]
        BY <1>5, <2>1 DEF Load
      <3> QED BY <1>5, <2>1, <3>1, <3>2 DEF Load
    <2>2. CASE ~(a \in Drivers /\ run[a] # "Running")
      BY <1>5, <2>2 DEF Load
    <2> QED BY <2>1, <2>2
  <1>6. CASE Save(a) \/ SendPreimage(a)
    BY <1>6 DEF Save, SendPreimage, loopVars
  <1>7. CASE Skip(a) \/ EndPass(a)
    BY <1>7 DEF Skip, EndPass, Release, loopVars
  <1> QED BY <1>1, <1>3, <1>4, <1>5, <1>6, <1>7 DEF Passing

\* A call moves only its caller.
LEMMA CallsStop ==
  ASSUME StopInv, Calls
  PROVE  StopInv'
  <1>1. PICK c \in Callers : Calling(c)
    BY DEF Calls
  <1>2. Drivers \subseteq Actors /\ c \in Actors /\ c \notin Drivers
    BY People DEF Actors
  <1>3. UNCHANGED <<run, late>> /\ (pc' = pc \/ \E where \in Pc : Goto(c, where))
    <2>1. {"idle", "wait", "adopt", "lock", "store"} \subseteq Pc
      BY DEF Pc
    <2> USE <1>2, <2>1 DEF loopVars, Release
    <2>2. CASE \E s \in Swaps : Step(c, s) \/ Advance(c, s) \/ Create(c, s) \/ Restore(c, s)
      BY <2>2 DEF Step, Advance, Create, Restore
    <2>3. CASE AdvanceHears(c) \/ AdvanceInterval(c)
      BY <2>3 DEF AdvanceHears, AdvanceInterval
    <2>4. CASE Adopt(c) \/ Refuse(c)
      BY <2>4 DEF Adopt, Refuse
    <2>5. CASE Recheck(c)
      BY <2>5 DEF Recheck
    <2>6. CASE RestoreSaves(c) \/ RestoreFails(c)
      BY <2>6 DEF RestoreSaves, RestoreFails
    <2> QED BY <1>1, <2>2, <2>3, <2>4, <2>5, <2>6 DEF Calling
  <1> QED BY <1>2, <1>3 DEF StopInv, Stands, Unstarted, LastPass, Entering, Goto

\* A stopped loop begins one pass more at the most, in any tab and with any
\* calls beside it, locks or not (mod.rs, run and sweep: the state is read
\* before each swap of a sweep and before each sweep).
THEOREM StopsInTime == Spec => []OneMorePass
  <1>1. Init => StopInv
    BY DEF Init, StopInv, Stands, Unstarted, LastPass, Entering, RunState, Pc, Actors
  <1>2. StopInv /\ [Next]_vars => StopInv'
    <2> SUFFICES ASSUME StopInv, [Next]_vars PROVE StopInv'
      OBVIOUS
    <2>1. CASE Signals \/ UNCHANGED vars
      BY <2>1 DEF Signals, Signal, vars, loopVars, actVars,
                  StopInv, Stands, Unstarted, LastPass, Entering
    <2> QED BY <2>1, LoopsStop, PassesStop, CallsStop DEF Next, Loops, Passes, Calls, Signals
  <1>3. StopInv => OneMorePass
    BY DEF StopInv, LastPass, OneMorePass
  <1> QED BY <1>1, <1>2, <1>3, PTL DEF Spec

=============================================================================
