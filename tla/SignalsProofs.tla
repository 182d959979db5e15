--------------------------- MODULE SignalsProofs ---------------------------
(***************************************************************************)
(* Theorems about Signals, for any ids, delays and numbers of pushes and   *)
(* sockets: one reconnection at a time, and every id in its order.         *)
(*                                                                         *)
(* The first rests on the sockets giving way to one another (OneByOne),    *)
(* the second on who may wait while what is queued (Asked).                *)
(***************************************************************************)
EXTENDS Signals, SequenceTheorems, FiniteSetTheorems, TLAPS

Typed ==
    /\ kind \in {"ts", "rust"}
    /\ closed \in BOOLEAN /\ shown \in BOOLEAN /\ wake \in BOOLEAN
    /\ timers \in Nat /\ opening \in Nat
    /\ socks \in Seq({"connecting", "up", "closing", "gone"})
    /\ queue \in Seq(Ids) /\ heard \in Seq(Ids) /\ passed \in Seq(Ids)
    /\ resolved \in {<<>>, <<None>>} \cup {<<id>> : id \in Ids}
    /\ listener \in {"asks", "waits", "rests", "ended"}

\* The one socket that may be in use.
Newest == IF socks = <<>> THEN "gone" ELSE socks[Len(socks)]

\* A socket gives way to the next: all before the last are gone. stop() leaves
\* none that could come up.
OneByOne ==
    IF closed THEN /\ kind = "ts" /\ timers = 0
                   /\ \A s \in 1..Len(socks) : socks[s] \in {"closing", "gone"}
    ELSE /\ \A s \in 1..Len(socks) : s < Len(socks) => socks[s] = "gone"
         /\ Newest # "closing"
         /\ timers + opening <= 1
         /\ Newest # "gone" => timers = 0 /\ opening = 0
         /\ kind = "rust" => timers = 0 /\ opening = 0 /\ Newest # "connecting"
         /\ kind = "ts" => (shown <=> Newest = "up")

\* A promise is asked for by a listener that waits, and left by one that ended.
Asked ==
    /\ wake => kind = "ts" /\ ~closed /\ listener \in {"waits", "ended"}
    /\ resolved # <<>> => listener \in {"waits", "ended"}

Inv == Typed /\ OneByOne /\ Asked /\ SignalsInOrder

-----------------------------------------------------------------------------
LEMMA NewestIs ==
    ASSUME Typed, socks # <<>>
    PROVE  Len(socks) \in DOMAIN socks /\ Last(socks) = Newest
  BY EmptySeq DEF Typed, Newest, Last

LEMMA InvStarts == Init => Inv
<1> SUFFICES ASSUME Init PROVE Inv
  OBVIOUS
<1>1. <<>> \in Seq(Ids) /\ Len(<<>>) = 0 /\ <<>> \in Seq({"connecting", "up", "closing", "gone"})
  BY EmptySeq
<1>2. passed \o <<>> \o queue = <<>>
  BY <1>1, ConcatEmptySeq DEF Init
<1>3. Typed
  BY <1>1 DEF Init, Typed
<1>4. OneByOne
  <2>1. /\ kind \in {"ts", "rust"} /\ ~closed /\ timers = 0 /\ ~shown
        /\ opening = IF kind = "ts" THEN 1 ELSE 0
        /\ Newest = "gone" /\ Len(socks) = 0
    BY <1>1 DEF Init, Newest
  <2> QED
    BY <2>1 DEF OneByOne
<1>5. SignalsInOrder
  BY <1>2 DEF Init, SignalsInOrder
<1> QED
  BY <1>3, <1>4, <1>5 DEF Init, Inv, Asked

-----------------------------------------------------------------------------
(* The sockets: what the promises are made of is left alone.               *)

LEMMA ChannelStep ==
    ASSUME Inv, UNCHANGED nextVars, UNCHANGED kind, closed' = closed,
           timers' \in Nat, opening' \in Nat, shown' \in BOOLEAN,
           socks' \in Seq({"connecting", "up", "closing", "gone"}), OneByOne'
    PROVE  Inv'
  BY DEF Inv, Typed, Asked, SignalsInOrder, nextVars

LEMMA Opens ==
    ASSUME Typed, socks' = Append(socks, "connecting") \/ socks' = Append(socks, "up")
    PROVE  /\ socks' \in Seq({"connecting", "up", "closing", "gone"})
           /\ Len(socks') = Len(socks) + 1
           /\ \A s \in 1..Len(socks) : socks'[s] = socks[s]
           /\ Newest' = socks'[Len(socks) + 1]
           /\ socks' = Append(socks, "connecting") => Newest' = "connecting"
           /\ socks' = Append(socks, "up") => Newest' = "up"
<1> SUFFICES ASSUME NEW to \in {"connecting", "up"}, socks' = Append(socks, to)
             PROVE  /\ socks' \in Seq({"connecting", "up", "closing", "gone"})
                    /\ Len(socks') = Len(socks) + 1
                    /\ \A s \in 1..Len(socks) : socks'[s] = socks[s]
                    /\ socks'[Len(socks) + 1] = to
                    /\ Newest' = to
  OBVIOUS
<1>1. /\ socks' \in Seq({"connecting", "up", "closing", "gone"}) /\ socks' # <<>>
      /\ Len(socks') = Len(socks) + 1
      /\ \A s \in 1..Len(socks) : socks'[s] = socks[s]
      /\ socks'[Len(socks) + 1] = to
  <2> DEFINE States == {"connecting", "up", "closing", "gone"}
  <2>1. socks \in Seq(States) /\ to \in States
    BY DEF Typed
  <2> HIDE DEF States
  <2>2. /\ Append(socks, to) \in Seq(States) /\ Append(socks, to) # <<>>
        /\ Len(Append(socks, to)) = Len(socks) + 1
        /\ \A s \in 1..Len(socks) : Append(socks, to)[s] = socks[s]
        /\ Append(socks, to)[Len(socks) + 1] = to
    BY <2>1, AppendProperties
  <2> QED
    BY <2>2 DEF States
<1> QED
  BY <1>1 DEF Newest

LEMMA Moves ==
    ASSUME Typed, NEW s \in DOMAIN socks, NEW to \in {"up", "closing", "gone"},
           socks' = [socks EXCEPT ![s] = to]
    PROVE  /\ s \in 1..Len(socks)
           /\ socks' \in Seq({"connecting", "up", "closing", "gone"})
           /\ Len(socks') = Len(socks)
           /\ \A i \in 1..Len(socks) : socks'[i] = IF i = s THEN to ELSE socks[i]
           /\ Newest' = IF s = Len(socks) THEN to ELSE Newest
<1>1. s \in 1..Len(socks) /\ Len(socks) \in Nat
  BY LenProperties DEF Typed
<1>2. /\ socks' \in Seq({"connecting", "up", "closing", "gone"})
      /\ Len(socks') = Len(socks)
      /\ \A i \in 1..Len(socks) : socks'[i] = IF i = s THEN to ELSE socks[i]
  BY <1>1, ExceptSeq DEF Typed
<1>3. socks # <<>> /\ socks' # <<>>
  BY <1>1, <1>2, EmptySeq
<1> QED
  BY <1>1, <1>2, <1>3 DEF Newest

LEMMA TimerFiresStep == Inv /\ TimerFires => Inv'
<1> SUFFICES ASSUME Inv, TimerFires PROVE Inv'
  OBVIOUS
<1>1. Newest' = Newest
  BY DEF TimerFires, Newest
<1> QED
  BY <1>1, ChannelStep DEF TimerFires, Inv, Typed, OneByOne

LEMMA UrlBuiltStep == Inv /\ UrlBuilt => Inv'
<1> SUFFICES ASSUME Inv, UrlBuilt PROVE Inv'
  OBVIOUS
<1>1. CASE closed
  BY <1>1, ChannelStep DEF UrlBuilt, Inv, Typed, OneByOne
<1>2. CASE ~closed
  <2>1. socks' = Append(socks, "connecting")
    BY <1>2 DEF UrlBuilt
  <2>2. /\ socks' \in Seq({"connecting", "up", "closing", "gone"})
        /\ Len(socks') = Len(socks) + 1
        /\ \A s \in 1..Len(socks) : socks'[s] = socks[s]
        /\ Newest' = "connecting"
    BY <2>1, Opens DEF Inv
  <2>3. Newest = "gone" /\ timers = 0 /\ opening = 1
    BY <1>2 DEF UrlBuilt, Inv, Typed, OneByOne
  <2>4. \A s \in 1..Len(socks) : socks[s] = "gone"
    BY <1>2, <2>3, EmptySeq, LenProperties DEF Inv, Typed, OneByOne, Newest
  <2>5. Len(socks) \in Nat
    BY LenProperties DEF Inv, Typed
  <2>6. OneByOne'
    BY <1>2, <2>2, <2>3, <2>4, <2>5 DEF UrlBuilt, Inv, OneByOne
  <2> QED
    BY <1>2, <2>2, <2>3, <2>6, ChannelStep DEF UrlBuilt, Inv, Typed
<1> QED
  BY <1>1, <1>2

LEMMA UrlFailsStep == Inv /\ UrlFails => Inv'
<1> SUFFICES ASSUME Inv, UrlFails PROVE Inv'
  OBVIOUS
<1>1. Newest' = Newest
  BY DEF UrlFails, Newest
<1> QED
  BY <1>1, ChannelStep DEF UrlFails, Retry, Inv, Typed, OneByOne

LEMMA SocketOpensStep == ASSUME Inv, NEW s \in DOMAIN socks, SocketOpens(s) PROVE Inv'
<1>1. ~closed
  BY LenProperties DEF SocketOpens, Inv, Typed, OneByOne
<1>2. /\ s \in 1..Len(socks)
      /\ socks' \in Seq({"connecting", "up", "closing", "gone"})
      /\ Len(socks') = Len(socks)
      /\ \A i \in 1..Len(socks) : socks'[i] = IF i = s THEN "up" ELSE socks[i]
      /\ Newest' = IF s = Len(socks) THEN "up" ELSE Newest
  BY Moves DEF SocketOpens, Inv
<1>3. s = Len(socks) /\ Newest = "connecting"
  BY <1>1, <1>2, EmptySeq, LenProperties DEF SocketOpens, Inv, Typed, OneByOne, Newest
<1>4. OneByOne'
  BY <1>1, <1>2, <1>3, LenProperties DEF SocketOpens, Report, Inv, Typed, OneByOne
<1> QED
  BY <1>2, <1>4, ChannelStep DEF SocketOpens, Report, Inv, Typed

LEMMA SocketClosesStep == ASSUME Inv, NEW s \in DOMAIN socks, SocketCloses(s) PROVE Inv'
<1>1. /\ s \in 1..Len(socks)
      /\ socks' \in Seq({"connecting", "up", "closing", "gone"})
      /\ Len(socks') = Len(socks)
      /\ \A i \in 1..Len(socks) : socks'[i] = IF i = s THEN "gone" ELSE socks[i]
      /\ Newest' = IF s = Len(socks) THEN "gone" ELSE Newest
  BY Moves DEF SocketCloses, Inv
<1>2. timers' \in Nat
  BY DEF SocketCloses, Retry, Inv, Typed
<1>3. CASE closed
  <2>1. kind' = kind /\ closed' = closed /\ timers' = timers
    BY <1>3 DEF SocketCloses, Retry
  <2>2. OneByOne'
    BY <1>1, <1>3, <2>1 DEF Inv, OneByOne
  <2> QED
    BY <1>1, <1>2, <2>2, ChannelStep DEF SocketCloses, Report, Inv, Typed
<1>4. CASE ~closed
  <2>1. s = Len(socks) /\ Newest # "gone"
    BY <1>1, <1>4, EmptySeq, LenProperties DEF SocketCloses, Inv, Typed, OneByOne, Newest
  <2>2. OneByOne'
    BY <1>1, <1>4, <2>1 DEF SocketCloses, Retry, Report, Inv, Typed, OneByOne
  <2> QED
    BY <1>1, <1>2, <2>2, ChannelStep DEF SocketCloses, Report, Inv, Typed
<1> QED
  BY <1>3, <1>4

LEMMA StopStep == Inv /\ Stop => Inv'
<1> SUFFICES ASSUME Inv, Stop PROVE Inv'
  OBVIOUS
<1>1. /\ socks' \in Seq({"connecting", "up", "closing", "gone"})
      /\ \A s \in 1..Len(socks') : socks'[s] \in {"closing", "gone"}
  <2>1. CASE socks # <<>> /\ Last(socks) \in {"connecting", "up"}
    <3>1. Len(socks) \in DOMAIN socks /\ socks' = [socks EXCEPT ![Len(socks)] = "closing"]
      BY <2>1, NewestIs DEF Stop, Inv
    <3>2. /\ socks' \in Seq({"connecting", "up", "closing", "gone"})
          /\ Len(socks') = Len(socks)
          /\ \A i \in 1..Len(socks) : socks'[i] = IF i = Len(socks) THEN "closing" ELSE socks[i]
      BY <3>1, Moves DEF Inv
    <3>3. ~closed /\ Len(socks) \in Nat
      BY LenProperties DEF Stop, Inv, Typed
    <3>4. \A i \in 1..Len(socks) : i # Len(socks) => socks[i] = "gone"
      BY <3>3 DEF Inv, OneByOne
    <3> QED
      BY <3>2, <3>4
  <2>2. CASE ~(socks # <<>> /\ Last(socks) \in {"connecting", "up"})
    <3>1. socks' = socks
      BY <2>2 DEF Stop
    <3>2. socks = <<>> \/ Newest = "gone"
      BY <2>2, NewestIs, LenProperties, ElementOfSeq DEF Stop, Inv, Typed, OneByOne, Newest
    <3>3. \A s \in 1..Len(socks) : socks[s] = "gone"
      <4>1. ~closed /\ Len(socks) \in Nat
        BY LenProperties DEF Stop, Inv, Typed
      <4>2. CASE socks = <<>>
        BY <4>2, EmptySeq
      <4>3. CASE socks # <<>> /\ Newest = "gone"
        BY <4>1, <4>3 DEF Inv, OneByOne, Newest
      <4> QED
        BY <3>2, <4>2, <4>3
    <3> QED
      BY <3>1, <3>3 DEF Inv, Typed
  <2> QED
    BY <2>1, <2>2
<1>2. resolved' \in {<<>>, <<None>>} \cup {<<id>> : id \in Ids}
  BY DEF Stop, Inv, Typed
<1> QED
  BY <1>1, <1>2 DEF Stop, Inv, Typed, OneByOne, Asked, SignalsInOrder

-----------------------------------------------------------------------------
(* The promises: the sockets are left alone.                               *)

LEMMA PromiseStep ==
    ASSUME Inv, UNCHANGED channelVars, Typed', Asked', SignalsInOrder'
    PROVE  Inv'
<1>1. OneByOne'
  <2>1. Newest' = Newest
    BY DEF channelVars, Newest
  <2> QED
    BY <2>1 DEF Inv, OneByOne, channelVars
<1> QED
  BY <1>1 DEF Inv

\* The ids not handed on: what the promise has, and what is queued.
InHand == IF resolved = <<None>> THEN <<>> ELSE resolved

LEMMA InHandIs ==
    ASSUME None \notin Ids, Typed
    PROVE  /\ InHand \in Seq(Ids)
           /\ passed \o InHand \in Seq(Ids)
           /\ resolved = <<>> => passed \o InHand = passed
           /\ SignalsInOrder <=> (~closed => /\ heard = (passed \o InHand) \o queue
                                             /\ wake => queue = <<>> /\ resolved = <<>>)
<1>1. InHand \in Seq(Ids)
  <2>1. CASE resolved \in {<<>>, <<None>>}
    BY <2>1, EmptySeq DEF InHand
  <2>2. CASE \E id \in Ids : resolved = <<id>>
    BY <2>2 DEF InHand
  <2> QED
    BY <2>1, <2>2 DEF Typed
<1>2. passed \o InHand \in Seq(Ids)
  BY <1>1, ConcatProperties DEF Typed
<1>3. resolved = <<>> => passed \o InHand = passed
  BY ConcatEmptySeq DEF InHand, Typed
<1> QED
  BY <1>1, <1>2, <1>3 DEF SignalsInOrder, InHand

(* What is taken from the front of the queue goes behind what was taken.   *)
LEMMA TakeFirst ==
    ASSUME NEW p \in Seq(Ids), NEW q \in Seq(Ids), q # <<>>
    PROVE  (p \o <<Head(q)>>) \o Tail(q) = p \o q
<1>1. Head(q) \in Ids /\ Tail(q) \in Seq(Ids) /\ <<Head(q)>> \in Seq(Ids)
  BY HeadTailProperties
<1>2. <<Head(q)>> \o Tail(q) = q
  BY <1>1
<1> QED
  BY <1>1, <1>2, ConcatAssociative

(* What comes in goes behind the queue.                                    *)
LEMMA PutLast ==
    ASSUME NEW p \in Seq(Ids), NEW q \in Seq(Ids), NEW id \in Ids
    PROVE  Append(p \o q, id) = p \o Append(q, id)
<1>1. p \o q \in Seq(Ids) /\ <<id>> \in Seq(Ids)
  BY ConcatProperties
<1>2. Append(p \o q, id) = (p \o q) \o <<id>>
  BY <1>1, AppendIsConcat
<1>3. Append(q, id) = q \o <<id>>
  BY AppendIsConcat
<1>4. (p \o q) \o <<id>> = p \o (q \o <<id>>)
  BY <1>1, ConcatAssociative
<1> QED
  BY <1>2, <1>3, <1>4

LEMMA PushedStep == ASSUME None \notin Ids, Inv, NEW id \in Ids,
                           OnUpdate(id), heard' = Append(heard, id),
                           UNCHANGED channelVars, UNCHANGED <<listener, passed>>
                    PROVE  Inv'
<1>1. Typed'
  <2>1. Append(heard, id) \in Seq(Ids) /\ Append(queue, id) \in Seq(Ids)
    BY AppendProperties DEF Inv, Typed
  <2> QED
    BY <2>1 DEF OnUpdate, Inv, Typed, channelVars
<1>2. Asked'
  BY DEF OnUpdate, Inv, Asked, channelVars
<1>3. SignalsInOrder'
  <2> SUFFICES ASSUME ~closed
               PROVE  /\ heard' = (passed' \o InHand') \o queue'
                      /\ wake' => queue' = <<>> /\ resolved' = <<>>
    BY DEF SignalsInOrder, InHand, channelVars
  <2>1. /\ heard = (passed \o InHand) \o queue
        /\ wake => queue = <<>> /\ resolved = <<>>
    BY InHandIs DEF Inv
  <2>2. passed \o InHand \in Seq(Ids) /\ queue \in Seq(Ids) /\ passed \in Seq(Ids)
    BY InHandIs DEF Inv, Typed
  <2>3. CASE wake
    <3>1. heard = passed /\ queue' = <<>> /\ resolved' = <<id>> /\ ~wake' /\ queue = <<>>
      BY <2>1, <2>2, <2>3, InHandIs, ConcatEmptySeq DEF OnUpdate, Inv
    <3>2. InHand' = <<id>>
      BY <3>1 DEF InHand
    <3>3. heard' = passed \o <<id>> /\ passed \o <<id>> \in Seq(Ids)
      BY <2>2, <3>1, AppendIsConcat, AppendProperties
    <3> QED
      BY <3>1, <3>2, <3>3, ConcatEmptySeq
  <2>4. CASE ~wake
    <3>1. queue' = Append(queue, id) /\ resolved' = resolved /\ ~wake' /\ passed' = passed
      BY <2>4 DEF OnUpdate
    <3>2. InHand' = InHand
      BY <3>1 DEF InHand
    <3>3. Append((passed \o InHand) \o queue, id) = (passed \o InHand) \o Append(queue, id)
      BY <2>2, PutLast
    <3> QED
      BY <2>1, <3>1, <3>2, <3>3
  <2> QED
    BY <2>3, <2>4
<1> QED
  BY <1>1, <1>2, <1>3, PromiseStep

LEMMA ArrivesStep == ASSUME None \notin Ids, Inv, NEW id \in Ids, Arrives(id) PROVE Inv'
<1>1. ~wake
  BY DEF Arrives, Inv, Asked
<1>2. OnUpdate(id)
  BY <1>1 DEF Arrives, OnUpdate
<1> QED
  BY <1>2, PushedStep DEF Arrives

LEMMA TakeStep == ASSUME None \notin Ids, Inv, UNCHANGED channelVars, UNCHANGED <<wake, heard, passed>>,
                         ~wake, resolved = <<>>, queue # <<>>,
                         listener' = "waits",
                         resolved' = <<Head(queue)>>, queue' = Tail(queue)
                  PROVE  Inv'
<1>1. Head(queue) \in Ids /\ Tail(queue) \in Seq(Ids)
  BY HeadTailProperties DEF Inv, Typed
<1>2. Typed'
  BY <1>1 DEF Inv, Typed, channelVars
<1>3. Asked'
  BY DEF Asked, channelVars
<1>4. SignalsInOrder'
  <2> SUFFICES ASSUME ~closed
               PROVE  heard' = (passed' \o InHand') \o queue'
    BY DEF SignalsInOrder, InHand, channelVars
  <2>1. heard = passed \o queue
    BY InHandIs DEF Inv
  <2>2. InHand' = <<Head(queue)>>
    BY <1>1 DEF InHand
  <2> QED
    BY <2>1, <2>2, TakeFirst DEF Inv, Typed
<1> QED
  BY <1>2, <1>3, <1>4, PromiseStep

LEMMA AskStep == ASSUME None \notin Ids, Inv, Ask PROVE Inv'
<1>1. resolved = <<>> /\ ~wake
  BY DEF Ask, Inv, Asked
<1>2. CASE kind # "ts"
  BY <1>1, <1>2, PromiseStep DEF Ask, Inv, Typed, Asked, SignalsInOrder, channelVars
<1>3. CASE kind = "ts" /\ closed
  BY <1>1, <1>3, PromiseStep DEF Ask, NextId, Inv, Typed, Asked, SignalsInOrder, channelVars
<1>4. CASE kind = "ts" /\ ~closed /\ queue # <<>>
  BY <1>1, <1>4, TakeStep DEF Ask, NextId
<1>5. CASE kind = "ts" /\ ~closed /\ queue = <<>>
  <2>1. wake' = TRUE /\ UNCHANGED <<queue, resolved>>
    BY <1>5 DEF Ask, NextId
  <2> QED
    BY <1>1, <1>5, <2>1, PromiseStep DEF Ask, Inv, Typed, Asked, SignalsInOrder, channelVars
<1> QED
  BY <1>2, <1>3, <1>4, <1>5

LEMMA SubscriptionNextStep == ASSUME None \notin Ids, Inv, SubscriptionNext PROVE Inv'
  BY TakeStep DEF SubscriptionNext, Inv, Asked

LEMMA SubscribeStep == ASSUME None \notin Ids, Inv, NEW opens \in BOOLEAN, Subscribe(opens) PROVE Inv'
<1>1. /\ kind = "rust" /\ ~closed /\ ~wake /\ resolved = <<>> /\ Newest = "gone"
      /\ UNCHANGED <<kind, closed, timers, opening, delay, shown>>
      /\ UNCHANGED <<queue, wake, listener, heard, passed>>
  <2>1. ~closed /\ Newest \notin {"closing", "connecting"}
    BY DEF Subscribe, Inv, Typed, OneByOne
  <2>2. Newest # "up"
    BY NewestIs DEF Subscribe, Reached, Inv, Newest
  <2>3. Newest \in {"connecting", "up", "closing", "gone"}
    <3>1. CASE socks = <<>>
      BY <3>1 DEF Newest
    <3>2. CASE socks # <<>>
      BY <3>2, EmptySeq, LenProperties, ElementOfSeq DEF Newest, Inv, Typed
    <3> QED
      BY <3>1, <3>2
  <2> QED
    BY <2>1, <2>2, <2>3 DEF Subscribe, Inv, Asked
<1>2. CASE opens
  <2>1. socks' = Append(socks, "up") /\ resolved' = resolved
    BY <1>2 DEF Subscribe
  <2>2. /\ socks' \in Seq({"connecting", "up", "closing", "gone"})
        /\ Len(socks') = Len(socks) + 1
        /\ \A s \in 1..Len(socks) : socks'[s] = socks[s]
        /\ Newest' = "up"
    BY <2>1, Opens DEF Inv
  <2>3. Len(socks) \in Nat
    BY LenProperties DEF Inv, Typed
  <2>4. \A s \in 1..Len(socks) : socks[s] = "gone"
    BY <1>1, <2>3, EmptySeq DEF Inv, OneByOne, Newest
  <2>5. OneByOne'
    BY <1>1, <2>2, <2>3, <2>4 DEF Inv, OneByOne
  <2> QED
    BY <1>1, <2>1, <2>2, <2>5, ChannelStep DEF Inv, Typed, nextVars
<1>3. CASE ~opens
  <2>1. resolved' = <<None>> /\ socks' = socks
    BY <1>3 DEF Subscribe
  <2>2. InHand' = InHand
    BY <1>1, <2>1 DEF InHand
  <2>3. Typed'
    BY <1>1, <2>1 DEF Inv, Typed
  <2>4. SignalsInOrder'
    <3>1. ~closed => heard = (passed \o InHand) \o queue
      BY InHandIs DEF Inv
    <3> QED
      BY <1>1, <2>2, <3>1 DEF SignalsInOrder, InHand
  <2> QED
    BY <1>1, <1>3, <2>1, <2>3, <2>4, PromiseStep DEF Subscribe, Inv, Asked, channelVars
<1> QED
  BY <1>2, <1>3

LEMMA SubscriptionEndsStep == ASSUME None \notin Ids, Inv, SubscriptionEnds PROVE Inv'
<1>1. /\ kind = "rust" /\ ~closed /\ ~wake /\ Newest = "up" /\ Len(socks) \in DOMAIN socks
  BY NewestIs DEF SubscriptionEnds, Reached, Inv, Typed, OneByOne, Asked
<1>2. /\ socks' \in Seq({"connecting", "up", "closing", "gone"})
      /\ Len(socks') = Len(socks)
      /\ \A i \in 1..Len(socks) : socks'[i] = IF i = Len(socks) THEN "gone" ELSE socks[i]
      /\ Newest' = "gone"
  BY <1>1, Moves DEF SubscriptionEnds, Inv
<1>3. OneByOne'
  BY <1>1, <1>2 DEF SubscriptionEnds, Inv, OneByOne
<1>4. Typed'
  BY <1>2, EmptySeq DEF SubscriptionEnds, Inv, Typed
<1>5. InHand' = <<>> /\ heard' = passed' /\ queue' = <<>> /\ passed' \in Seq(Ids)
  BY <1>4 DEF SubscriptionEnds, InHand, Typed
<1>6. SignalsInOrder'
  <2>1. heard' = (passed' \o InHand') \o queue'
    BY <1>5, ConcatEmptySeq
  <2>2. ~wake'
    BY <1>1 DEF SubscriptionEnds
  <2> QED
    BY <2>1, <2>2 DEF SignalsInOrder, InHand
<1> QED
  BY <1>1, <1>3, <1>4, <1>6 DEF SubscriptionEnds, Inv, Asked

LEMMA TakenStep == ASSUME None \notin Ids, Inv, Taken PROVE Inv'
<1>1. /\ passed' = passed \o InHand /\ resolved' = <<>>
      /\ listener' \in {"rests", "asks"}
      /\ UNCHANGED <<queue, wake, heard>> /\ UNCHANGED channelVars
  <2>1. passed \o <<>> = passed
    BY ConcatEmptySeq DEF Inv, Typed
  <2> QED
    BY <2>1 DEF Taken, InHand
<1>2. ~wake
  BY DEF Taken, Inv, Asked, SignalsInOrder
<1>3. passed \o InHand \in Seq(Ids) /\ (passed \o InHand) \o <<>> = passed \o InHand
  BY InHandIs, ConcatEmptySeq DEF Inv
<1>4. Typed'
  BY <1>1, <1>3 DEF Inv, Typed, channelVars
<1>5. Asked'
  BY <1>1, <1>2 DEF Asked
<1>6. SignalsInOrder'
  <2>1. ~closed => heard = (passed \o InHand) \o queue
    BY InHandIs DEF Inv
  <2>2. InHand' = <<>>
    BY <1>1 DEF InHand
  <2> QED
    BY <1>1, <1>2, <1>3, <2>1, <2>2 DEF SignalsInOrder, InHand, channelVars
<1> QED
  BY <1>1, <1>4, <1>5, <1>6, PromiseStep

LEMMA ListenStep == Inv /\ (Rested \/ ListenEnds) => Inv'
<1> SUFFICES ASSUME Inv, Rested \/ ListenEnds PROVE Inv'
  OBVIOUS
<1>1. /\ listener' \in {"asks", "ended"} /\ (listener' = "asks" => listener = "rests")
      /\ UNCHANGED <<queue, wake, resolved, heard, passed>> /\ UNCHANGED channelVars
  BY DEF Rested, ListenEnds
<1>2. Typed' /\ Asked' /\ SignalsInOrder'
  BY <1>1 DEF Inv, Typed, Asked, SignalsInOrder, channelVars
<1> QED
  BY <1>1, <1>2, PromiseStep

LEMMA InvHolds == ASSUME None \notin Ids PROVE Inv /\ [Next]_signalVars => Inv'
<1> SUFFICES ASSUME Inv, [Next]_signalVars PROVE Inv'
  OBVIOUS
<1>1. ASSUME NEW s \in DOMAIN socks, NEW id \in Ids, Pushed(s, id) PROVE Inv'
  BY <1>1, PushedStep DEF Pushed
<1>2. CASE UNCHANGED signalVars
  <2>1. UNCHANGED channelVars /\ UNCHANGED nextVars
    BY <1>2 DEF signalVars, channelVars, nextVars
  <2>2. Typed' /\ Asked' /\ SignalsInOrder'
    BY <2>1 DEF Inv, Typed, Asked, SignalsInOrder, channelVars, nextVars
  <2> QED
    BY <2>1, <2>2, PromiseStep
<1> QED
  BY <1>1, <1>2, TimerFiresStep, UrlBuiltStep, UrlFailsStep, StopStep, SocketOpensStep,
     SocketClosesStep, SubscribeStep, ArrivesStep, SubscriptionNextStep, SubscriptionEndsStep,
     AskStep, TakenStep, ListenStep
  DEF Next

-----------------------------------------------------------------------------
LEMMA ShownIs ==
    ASSUME Inv, ~closed, timers + opening + Cardinality(Live) <= 1,
           (\E s \in Live : socks[s] = "up") <=> Newest = "up"
    PROVE  OneChannel
<1>1. PICK up \in BOOLEAN : up <=> \E s \in Live : socks[s] = "up"
  OBVIOUS
<1>2. kind = "ts" => shown = up
  BY <1>1 DEF Inv, Typed, OneByOne
<1>3. (\E s \in Live : socks[s] = "up") = up
  BY <1>1
<1> QED
  BY <1>2, <1>3 DEF OneChannel

(* One reconnection is under way at a time, and none once stop() was called *)
(* (ts-sdk api.ts, subscribe; sdk ws.rs).                                   *)
THEOREM OneReconnection ==
    ASSUME None \notin Ids
    PROVE  Spec => []OneChannel
<1>1. Inv => OneChannel
  <2> SUFFICES ASSUME Inv PROVE OneChannel
    OBVIOUS
  <2>1. DOMAIN socks = 1..Len(socks) /\ Len(socks) \in Nat
    BY LenProperties DEF Inv, Typed
  <2>2. CASE closed
    <3>1. Live = {}
      BY <2>1, <2>2 DEF Inv, OneByOne, Live
    <3> QED
      BY <2>2, <3>1 DEF Inv, OneByOne, OneChannel
  <2>3. CASE ~closed
    <3>1. CASE Newest \in {"connecting", "up"}
      <4>1. socks # <<>> /\ Len(socks) \in DOMAIN socks /\ Newest = socks[Len(socks)]
        BY <2>1, <3>1, EmptySeq DEF Newest, Inv, Typed
      <4>2. Live = {Len(socks)}
        BY <2>1, <2>3, <3>1, <4>1 DEF Inv, OneByOne, Live
      <4>3. Cardinality(Live) = 1
        BY <4>2, FS_Singleton
      <4>4. timers + opening + Cardinality(Live) <= 1
        BY <2>3, <3>1, <4>3 DEF Inv, Typed, OneByOne
      <4>5. (\E s \in Live : socks[s] = "up") <=> Newest = "up"
        BY <4>1, <4>2
      <4> QED
        BY <2>3, <4>4, <4>5, ShownIs
    <3>2. CASE Newest \notin {"connecting", "up"}
      <4>1. Live = {}
        BY <2>1, <2>3, <3>2, EmptySeq DEF Inv, OneByOne, Live, Newest
      <4>2. Cardinality(Live) = 0
        BY <4>1, FS_EmptySet
      <4>3. timers + opening + Cardinality(Live) <= 1
        BY <2>3, <4>2 DEF Inv, Typed, OneByOne
      <4>4. (\E s \in Live : socks[s] = "up") <=> Newest = "up"
        BY <3>2, <4>1
      <4> QED
        BY <2>3, <4>3, <4>4, ShownIs
    <3> QED
      BY <3>1, <3>2
  <2> QED
    BY <2>2, <2>3
<1> QED
  BY <1>1, InvStarts, InvHolds, PTL DEF Spec

(* Until stop() every id read from the socket reaches the loops in its      *)
(* order, and next() never waits while one is queued (ts-sdk api.ts,        *)
(* signals; sdk driver/mod.rs, listen).                                     *)
THEOREM IdsInOrder ==
    ASSUME None \notin Ids
    PROVE  Spec => []SignalsInOrder
<1>1. Inv => SignalsInOrder
  BY DEF Inv
<1> QED
  BY <1>1, InvStarts, InvHolds, PTL DEF Spec
=============================================================================
