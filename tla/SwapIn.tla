------------------------------- MODULE SwapIn -------------------------------
(***************************************************************************)
(* One SwapIn as the driver runs it: the user pays deposits to the script, *)
(* the server pays an invoice for the first of the right amount and claims *)
(* it, and the driver reveals the refund key once the payment is proved    *)
(* and refunds everything else (driver/tick.rs, driver/observe.rs,         *)
(* driver/decide/swap_in.rs).                                              *)
(*                                                                         *)
(* A pass ends an action at each await after which it uses what it read    *)
(* before: the chain, the server's answer, a request, the save, the refund *)
(* and the save of the refund. The chain and the server are those of the   *)
(* repository's test world (tests/driver/world).                           *)
(*                                                                         *)
(* Abstractions.  A transaction is its confirmations; a spend names the    *)
(* outputs it takes, which tell it from any other on the same chain. The   *)
(* fee estimate is the refund threshold it gives, a choice of each pass.   *)
(***************************************************************************)
EXTENDS Integers, FiniteSets

CONSTANTS
    Outputs,        \* the deposits, numbered in the order of (txid, vout)
    Value,          \* what each one pays
    Amount,         \* send_amount
    Thresholds,     \* the refund thresholds the fee estimate gives
    Csv,            \* the script's CSV, in blocks (terms.csv)
    FundsPerPass,   \* FUNDS_PER_PASS
    Address,        \* who gives a refund address: "swap", "hook" or "none"
    ByHand,         \* TRUE: the app calls Handle::step and Handle::refund
    MaxPace,        \* blocks that may be mined between two good passes
    Faults,         \* the kinds of faults there may be
    MaxFaults       \* bound: faults there ever are

ASSUME Deposits ==
    /\ Outputs \subseteq Nat /\ IsFiniteSet(Outputs)
    /\ Value \in [Outputs -> Nat]
    /\ Amount \in Nat
    /\ Thresholds \subseteq Nat /\ Thresholds # {}

ASSUME Settings ==
    /\ Csv \in Nat \ {0}
    /\ FundsPerPass \in Nat \ {0}
    /\ Address \in {"swap", "hook", "none"}
    /\ ByHand \in BOOLEAN
    /\ Faults \subseteq {"reorg", "eviction", "miss", "fail", "loss"}
    /\ {MaxPace, MaxFaults} \subseteq Nat

VARIABLES
    confs,      \* each output's confirmations, Absent when not on chain
    spend,      \* each output's spend
    server,     \* the server's status of the swap
    deposit,    \* the output the server paid the invoice for
    userKey,    \* the server holds our refund key
    expired,    \* the deposit deadline passed
    wire,       \* requests a timed out call left under way
    store,      \* the stored record, NoRecord when lost
    mem,        \* the record the pass under way works on
    pc,         \* where the pass stands
    view,       \* what the pass saw of the chain
    call,       \* what the pass does next, and whether all went well
    keyOut,     \* history: our refund key has left this process
    unseen,     \* outputs paid since the last good pass
    lapsed,     \* refund_timeout passed since the swap ended
    pace,       \* blocks mined since a pass last ended well
    faults      \* how many faults of each kind there were

chainVars  == <<confs, spend>>
serverVars == <<server, deposit, userKey, expired>>
passVars   == <<mem, pc, view, call>>
timeVars   == <<unseen, lapsed, pace>>
vars == <<chainVars, serverVars, wire, store, passVars, keyOut, timeVars, faults>>

-----------------------------------------------------------------------------
(* Values.                                                                 *)

Absent == -1
None == 0 - 2

\* Past this depth confirmations are not counted, but for the order of the
\* outputs: every reorg left still leaves them past their CSV.
Deep == IF "reorg" \in Faults THEN Csv + MaxFaults ELSE Csv
Deepest == Deep + Cardinality(Outputs)

NoSpend == [with |-> {}, path |-> "none", confs |-> 0]
SpendSet == {NoSpend} \cup
    [with : SUBSET Outputs, path : {"Keypath", "Preimage", "Csv"}, confs : 0..Deepest]

\* SwapInStatus; PayInvoice is an instant, and AwaitClaimTxConfirmation also
\* stands for Claimed.
ServerStatus == {"AwaitOpeningTxConfirmation", "AwaitClaimKeyRevealMessage",
                 "AwaitClaimTxConfirmation", "Canceled"}

\* Status, with each CancelReason a SwapIn ends for as a status of its own.
Canceled == {"ServerCanceled", "CsvMatured"}
Final == Canceled \cup {"Completed"}
Status == {"Restoring", "Funding", "Confirming"} \cup Final

FundState == {"none", "Locked", "Dust", "Refundable", "Refunding", "Refunded"}

Record == [status : Status, sentCancel : BOOLEAN, sentKey : BOOLEAN,
           key : BOOLEAN, preimage : BOOLEAN, ended : BOOLEAN,
           address : BOOLEAN, funds : [Outputs -> FundState]]
NoRecord == [status |-> "none"]

NoFunds == [o \in Outputs |-> "none"]

\* SwapRecord as accept() leaves it.
Accepted == [status |-> "Funding", sentCancel |-> FALSE, sentKey |-> FALSE,
             key |-> FALSE, preimage |-> FALSE, ended |-> FALSE,
             address |-> Address = "swap", funds |-> NoFunds]

View == [confs : [Outputs -> {Absent} \cup 0..Deepest], spend : [Outputs -> SpendSet],
         threshold : Thresholds \cup {0}]
NoView == [confs |-> [o \in Outputs |-> Absent],
           spend |-> [o \in Outputs |-> NoSpend], threshold |-> 0]

Call == [act : {"none", "Cancel", "RefundKey"}, given : BOOLEAN, ok : BOOLEAN]
NoCall == [act |-> "none", given |-> FALSE, ok |-> TRUE]

Pc == {"idle", "poll", "send", "save", "refund", "resave"}

Counts == [reorg : 0..MaxFaults, eviction : 0..MaxFaults, miss : 0..MaxFaults,
           fail : 0..MaxFaults, loss : 0..MaxFaults]

-----------------------------------------------------------------------------
(* The view, the decision and the funds, pure.                             *)

Known(c) == {o \in Outputs : c[o] # Absent}
Exact(c) == {o \in Known(c) : Value[o] = Amount}

\* opening(): the oldest output paying exactly the amount, the mempool last,
\* ties in the order of (txid, vout).
Opening(c) ==
    IF Exact(c) = {} THEN None
    ELSE CHOOSE o \in Exact(c) : \A p \in Exact(c) :
            c[o] > c[p] \/ (c[o] = c[p] /\ o <= p)

\* The k most valuable of a set, ties in the order of the outputs.
MostValuable(S, k) ==
    {o \in S : Cardinality({p \in S : \/ Value[p] > Value[o]
                                      \/ Value[p] = Value[o] /\ p < o}) < k}

\* refund_keypath(): the server's key counts while our refund key is home.
RefundKeypath(r) == r.key /\ ~r.sentKey

\* locked(): in the mempool, or under its CSV with no keypath to refund by.
Locked(r, c) == c = 0 \/ (~RefundKeypath(r) /\ c < Csv)

\* stray_read() and the reads of a pass: the opening, then the strays in our
\* refund, then those worth one, FUNDS_PER_PASS of them.
Asked(r, c, threshold, candidates) ==
    LET strays == candidates \ {Opening(c)}
        refunding == {o \in strays : r.funds[o] = "Refunding"}
        worth == {o \in strays \ refunding : Value[o] > threshold /\ ~Locked(r, c[o])}
        first == MostValuable(refunding, FundsPerPass)
    IN  (candidates \cap {Opening(c)}) \cup first
            \cup MostValuable(worth, FundsPerPass - Cardinality(first))

\* The keypath is ours only while our refund key is home.
OurRefund(r, path) == path = "Csv" \/ (path = "Keypath" /\ ~r.sentKey)

\* state(): where the refund of one output stands.
StateOf(r, v, o) ==
    IF v.spend[o] # NoSpend
    THEN IF ~OurRefund(r, v.spend[o].path) THEN "none"
         ELSE IF v.spend[o].confs = 0 THEN "Refunding" ELSE "Refunded"
    ELSE IF Locked(r, v.confs[o]) THEN "Locked"
    ELSE IF Value[o] <= v.threshold THEN "Dust" ELSE "Refundable"

\* funds(): every stray, and the opening once the swap is canceled.
Funds(r, v) ==
    [o \in Outputs |->
        IF \/ o \notin Known(v.confs)
           \/ o = Opening(v.confs) /\ r.status \notin Canceled
        THEN "none" ELSE StateOf(r, v, o)]

\* decide(), and the request it asks for.
Decide(r, v) ==
    LET o == Opening(v.confs) IN
    IF r.key THEN "ServerCanceled"
    ELSE IF r.preimage /\ o # None THEN "Completed"
    ELSE IF o = None THEN "Funding"
    ELSE IF v.confs[o] >= Csv THEN "CsvMatured"
    ELSE "Confirming"

Request(r, status) ==
    CASE status = "Completed" /\ ~r.sentKey -> "RefundKey"
      [] status = "Funding" /\ expired /\ ~r.sentCancel -> "Cancel"
      [] OTHER -> "none"

\* Mutant of IsQuiet: what is still locked is not waited for.
IsQuietWhenFinal(r) ==
    /\ r.status \in Final
    /\ \A o \in Outputs : r.funds[o] \notin {"Refunding", "Refundable"}
    /\ r.ended /\ lapsed

\* Mutant of IsQuiet: a refund on its way is taken for done.
IsQuietOnceSent(r) ==
    /\ r.status \in Final
    /\ \A o \in Outputs : r.funds[o] \notin {"Locked", "Refundable"}
    /\ r.ended /\ lapsed

\* is_quiet(): final, nothing of ours on its way, and the window over.
IsQuiet(r) ==
    LET busy == {"Refunding", "Locked"} \cup
                (IF r.address \/ Address = "hook" THEN {"Refundable"} ELSE {})
    IN  /\ r.status \in Final
        /\ \A o \in Outputs : r.funds[o] \notin busy
        /\ r.ended /\ lapsed

\* dust_pays(): a quiet swap is driven while its largest dust is worth a refund.
DustPays(r, threshold) ==
    \E o \in Outputs : r.funds[o] = "Dust" /\ Value[o] > threshold

-----------------------------------------------------------------------------
(* Faults, of a kind the run has and within its bound.                     *)

Fault(kind, n) ==
    /\ kind \in Faults
    /\ faults.reorg + faults.eviction + faults.miss + faults.fail + faults.loss + n
            <= MaxFaults
    /\ faults' = [faults EXCEPT ![kind] = @ + n]

-----------------------------------------------------------------------------
(* One pass: Driver::pass under the swap's lock.                           *)

Stop == pc' = "idle" /\ mem' = NoRecord /\ view' = NoView /\ call' = NoCall

\* The record is loaded and the chain read. The history may leave out spends
\* in the mempool; an output with none is asked itself, and a stray whose
\* answer fails counts as unspent.
Look(given, threshold, missed, failed) ==
    /\ pc = "idle"
    /\ store # NoRecord
    /\ ByHand \/ (~given /\ (~IsQuiet(store) \/ DustPays(store, threshold)))
    /\ missed \subseteq {o \in Outputs : spend[o] # NoSpend /\ spend[o].confs = 0}
    /\ failed \subseteq missed \ {Opening(confs)}
    /\ IF missed = {} THEN UNCHANGED faults ELSE Fault("miss", Cardinality(missed))
    /\ LET unspent == {o \in Known(confs) : spend[o] = NoSpend \/ o \in missed}
           blind == missed \ (Asked(store, confs, threshold, unspent) \ failed)
       IN  view' = [confs |-> confs, threshold |-> threshold,
                    spend |-> [o \in Outputs |->
                        IF o \in blind THEN NoSpend ELSE spend[o]]]
    /\ pc' = "poll" /\ mem' = store /\ call' = [NoCall EXCEPT !.given = given]
    /\ UNCHANGED <<chainVars, serverVars, wire, store, keyOut, timeVars>>

Begin == \E given \in BOOLEAN, threshold \in Thresholds :
         \E missed \in SUBSET Outputs : \E failed \in SUBSET missed :
            Look(given, threshold, missed, failed)

Paid == deposit # None

\* Mutant of Proved: the server's word that it paid is enough.
ProvedByStatus(r, v, answered, shows) ==
    [r EXCEPT !.key = @ \/ (answered /\ shows /\ server = "Canceled"),
              !.preimage = @ \/ (answered /\ server # "AwaitOpeningTxConfirmation")]

\* Mutant of Proved: what this pass did not see again is forgotten.
ProvedAfresh(r, v, answered, shows) ==
    [r EXCEPT !.key = answered /\ shows /\ server = "Canceled",
              !.preimage = answered /\ Paid]

\* The record with what the server's answer and the chain proved.
Proved(r, v, answered, shows) ==
    [r EXCEPT !.key = @ \/ (answered /\ shows /\ server = "Canceled"),
              !.preimage = \/ @
                           \/ answered /\ Paid
                           \/ \E o \in Outputs : v.spend[o].path = "Preimage"]

\* get_swap is answered or not, its key withheld or not; then the decision.
Poll ==
    /\ pc = "poll"
    /\ \E answered, shows \in BOOLEAN :
          LET proved == Proved(mem, view, answered, shows)
              status == Decide(proved, view)
          IN  /\ mem' = [proved EXCEPT !.status = status]
              /\ call' = [call EXCEPT !.act = Request(proved, status)]
              /\ pc' = IF call'.act = "none" THEN "save" ELSE "send"
    /\ UNCHANGED <<chainVars, serverVars, wire, store, view, keyOut, timeVars, faults>>

\* A chain read fails: the pass ends and nothing is saved.
ChainFails ==
    /\ pc = "poll"
    /\ Stop
    /\ UNCHANGED <<chainVars, serverVars, wire, store, keyOut, timeVars, faults>>

\* The server takes our key only while it awaits it, and cancels only a swap
\* it has seen no deposit of.
TakeKey ==
    IF server = "AwaitClaimKeyRevealMessage"
    THEN server' = "AwaitClaimTxConfirmation" /\ userKey' = TRUE
    ELSE UNCHANGED <<server, userKey>>
TakeCancel ==
    /\ server' = IF server = "AwaitOpeningTxConfirmation" THEN "Canceled" ELSE server
    /\ UNCHANGED userKey
Take(m) == IF m = "RefundKey" THEN TakeKey ELSE TakeCancel
Unanswered(m) ==
    \/ Take(m) /\ UNCHANGED wire
    \/ wire' \in {wire, wire \cup {m}} /\ UNCHANGED <<server, userKey>>

\* A request answered, taken or turned away, is flagged.
Send ==
    /\ pc = "send"
    /\ Take(call.act)
    /\ keyOut' = (keyOut \/ call.act = "RefundKey")
    /\ mem' = [mem EXCEPT !.sentCancel = @ \/ call.act = "Cancel",
                          !.sentKey = @ \/ call.act = "RefundKey"]
    /\ pc' = "save"
    /\ UNCHANGED <<chainVars, deposit, expired, wire, store, view, call, timeVars, faults>>

\* One not answered is not, and fails the pass at its end.
SendFails ==
    /\ pc = "send"
    /\ Unanswered(call.act)
    /\ keyOut' = (keyOut \/ call.act = "RefundKey")
    /\ call' = [call EXCEPT !.ok = FALSE]
    /\ pc' = "save"
    /\ UNCHANGED <<chainVars, deposit, expired, store, mem, view, timeVars, faults>>

\* The record as the pass saves it.
Settled == [mem EXCEPT !.funds = Funds(mem, view), !.ended = @ \/ mem.status \in Final]

Save ==
    /\ pc = "save"
    /\ mem' = Settled
    /\ store' = mem'
    /\ pc' = "refund"
    /\ UNCHANGED <<chainVars, serverVars, wire, view, call, keyOut, timeVars, faults>>

\* A failed save fails the pass at its end and holds back no refund.
SaveFails ==
    /\ pc = "save"
    /\ mem' = Settled
    /\ mem' # store
    /\ Fault("fail", 1)
    /\ store' \in {store, mem'}
    /\ call' = [call EXCEPT !.ok = FALSE]
    /\ pc' = "refund"
    /\ UNCHANGED <<chainVars, serverVars, wire, view, keyOut, timeVars>>

-----------------------------------------------------------------------------
(* The refund: Driver::refund_funds.                                       *)

InState(r, state) == {o \in Outputs : r.funds[o] = state}

\* A refund in the mempool is rebuilt over its own funds, else the most
\* valuable refundable ones are taken.
Refunds ==
    IF InState(mem, "Refunding") # {}
    THEN {[takes |-> {p \in Outputs : view.spend[p].with = view.spend[o].with},
           path |-> IF view.spend[o].path = "Csv" \/ ~RefundKeypath(mem)
                    THEN "Csv" ELSE "Keypath",
           pending |-> TRUE] : o \in InState(mem, "Refunding")}
    ELSE {[takes |-> MostValuable(InState(mem, "Refundable"), FundsPerPass),
           path |-> IF RefundKeypath(mem) THEN "Keypath" ELSE "Csv",
           pending |-> FALSE]}

CanRefund ==
    /\ \/ InState(mem, "Refunding") # {}
       \/ InState(mem, "Refundable") # {}
    /\ mem.address \/ call.given \/ Address = "hook"

\* The chain takes a spend of outputs no block holds a spend of, mature on
\* the CSV path, in place of any spend of them in the mempool.
Acceptable(S, path) ==
    /\ S \subseteq Known(confs)
    /\ \A o \in S : spend[o].confs = 0 /\ (path = "Csv" => confs[o] >= Csv)

Enter(S, path) ==
    spend' = [o \in Outputs |->
        IF o \in S THEN [with |-> S, path |-> path, confs |-> 0]
        ELSE IF spend[o].with \cap S # {} THEN NoSpend ELSE spend[o]]

Done == /\ pace' = IF call.ok THEN 0 ELSE pace
        /\ unseen' = IF call.ok THEN unseen \ Known(view.confs) ELSE unseen
        /\ UNCHANGED lapsed

\* Nothing to refund, or nowhere to refund to.
NoRefund ==
    /\ pc = "refund"
    /\ ~CanRefund
    /\ Stop
    /\ Done
    /\ UNCHANGED <<chainVars, serverVars, wire, store, keyOut, faults>>

\* Broadcast: the funds are Refunding, and an address the hook gave is kept.
RefundOut ==
    /\ pc = "refund"
    /\ CanRefund
    /\ \E refund \in Refunds :
          /\ Acceptable(refund.takes, refund.path)
          /\ Enter(refund.takes, refund.path)
          /\ UNCHANGED confs
          /\ mem' = [mem EXCEPT
                !.address = @ \/ ~call.given,
                !.funds = [o \in Outputs |->
                    IF o \in refund.takes /\ @[o] # "none" THEN "Refunding" ELSE @[o]]]
    /\ pc' = "resave"
    /\ UNCHANGED <<serverVars, wire, store, view, call, keyOut, timeVars, faults>>

\* Refused, not built or not answered: a replacement leaves what it replaces,
\* and without one the pass fails.
RefundFails ==
    /\ pc = "refund"
    /\ CanRefund
    /\ \E refund \in Refunds :
          /\ \/ UNCHANGED chainVars
             \/ /\ Acceptable(refund.takes, refund.path)
                /\ Enter(refund.takes, refund.path)
                /\ UNCHANGED confs
          /\ \/ call.ok /\ refund.pending /\ Done
             \/ UNCHANGED timeVars
    /\ Stop
    /\ UNCHANGED <<serverVars, wire, store, keyOut, faults>>

Resave ==
    /\ pc = "resave"
    /\ store' = mem
    /\ Stop
    /\ Done
    /\ UNCHANGED <<chainVars, serverVars, wire, keyOut, faults>>

ResaveFails ==
    /\ pc = "resave"
    /\ Fault("fail", 1)
    /\ store' \in {store, mem}
    /\ Stop
    /\ UNCHANGED <<chainVars, serverVars, wire, keyOut, timeVars>>

-----------------------------------------------------------------------------
(* The app and the machine it runs on.                                     *)

\* Handle::cancel, under the same lock: flagged only when the server cancels.
UserCancel ==
    /\ pc = "idle"
    /\ store # NoRecord
    /\ store.status \in {"Restoring", "Funding", "Confirming"}
    /\ \/ /\ TakeCancel
          /\ UNCHANGED wire
          /\ store' \in {store} \cup
                (IF server' = "Canceled"
                 THEN {[store EXCEPT !.sentCancel = TRUE]} ELSE {})
       \/ Unanswered("Cancel") /\ UNCHANGED store
    /\ UNCHANGED <<chainVars, deposit, expired, passVars, keyOut, timeVars, faults>>

\* The process dies in a pass; the store keeps what was saved.
Crash ==
    /\ pc # "idle"
    /\ Stop
    /\ UNCHANGED <<chainVars, serverVars, wire, store, keyOut, timeVars, faults>>

LoseStore ==
    /\ Fault("loss", 1)
    /\ store' = NoRecord
    /\ Stop
    /\ UNCHANGED <<chainVars, serverVars, wire, keyOut, timeVars>>

\* restore_signed: accepted again from our own signed request, with what the
\* server's report proves and shows was sent. A swap over at the server is
\* watched from when it ended there. A request of the lost process has landed.
Restore ==
    /\ store = NoRecord
    /\ wire = {}
    /\ \E claimed \in IF server = "AwaitClaimTxConfirmation" THEN BOOLEAN ELSE {FALSE},
          shows \in BOOLEAN :
          LET over == claimed \/ server = "Canceled"
          IN  /\ store' = [Accepted EXCEPT
                    !.status = "Restoring", !.ended = over,
                    !.sentKey = (server = "AwaitClaimTxConfirmation"),
                    !.sentCancel = (server = "Canceled"),
                    !.key = shows /\ server = "Canceled",
                    !.preimage = Paid]
              /\ lapsed' = (lapsed /\ over)
    /\ UNCHANGED <<chainVars, serverVars, wire, passVars, keyOut, unseen, pace, faults>>

\* refund_timeout passes after the swap ended. It outlasts many passes, so a
\* deposit made before it ends is seen by one that ends well.
Lapse ==
    /\ ~lapsed
    /\ store # NoRecord
    /\ store.ended
    /\ unseen = {}
    /\ lapsed' = TRUE
    /\ UNCHANGED <<chainVars, serverVars, wire, store, passVars, keyOut, unseen, pace, faults>>

\* The deposit deadline passes.
Expire ==
    /\ ~expired
    /\ expired' = TRUE
    /\ UNCHANGED <<chainVars, server, deposit, userKey, wire, store, passVars, keyOut, timeVars, faults>>

-----------------------------------------------------------------------------
(* The server.                                                             *)

\* It pays the invoice for the oldest deposit of the amount; two in the same
\* block or in the mempool come in any order.
PayInvoice ==
    /\ server = "AwaitOpeningTxConfirmation"
    /\ \E o \in Exact(confs) :
          /\ \A p \in Exact(confs) : confs[p] <= confs[o]
          /\ deposit' = o
    /\ server' = "AwaitClaimKeyRevealMessage"
    /\ UNCHANGED <<chainVars, userKey, expired, wire, store, passVars, keyOut, timeVars, faults>>

\* It takes that deposit, by keypath once it holds our key.
Claim ==
    /\ Paid
    /\ Acceptable({deposit}, "Preimage")
    /\ Enter({deposit}, IF userKey THEN "Keypath" ELSE "Preimage")
    /\ server' = "AwaitClaimTxConfirmation"
    /\ UNCHANGED <<confs, deposit, userKey, expired, wire, store, passVars, keyOut, timeVars, faults>>

\* It gives up a swap it has not paid for.
ServerTimeOut ==
    /\ server = "AwaitOpeningTxConfirmation"
    /\ server' = "Canceled"
    /\ UNCHANGED <<chainVars, deposit, userKey, expired, wire, store, passVars, keyOut, timeVars, faults>>

\* A request left under way arrives.
LateRequest ==
    \E m \in wire :
        /\ Take(m)
        /\ wire' = wire \ {m}
        /\ UNCHANGED <<chainVars, deposit, expired, store, passVars, keyOut, timeVars, faults>>

-----------------------------------------------------------------------------
(* The chain.                                                              *)

\* The user pays the script, while the swap is watched.
Pay(o) ==
    /\ confs[o] = Absent
    /\ ~lapsed
    /\ confs' = [confs EXCEPT ![o] = 0]
    /\ unseen' = unseen \cup {o}
    /\ UNCHANGED <<spend, serverVars, wire, store, passVars, keyOut, lapsed, pace, faults>>

\* Counted to Deep, and past it only so far that an older output stays deeper.
Deeper(o) ==
    LET younger == {p \in Known(confs) : confs[p] < confs[o]}
    IN  IF confs[o] < Deep + Cardinality(younger) THEN confs[o] + 1 ELSE confs[o]

\* Mature in the next block; a reorg may have made a CSV spend immature again.
Mature(s) == s.path = "Csv" => \A o \in s.with : confs[o] >= Csv

\* The next block takes the mempool.
Mine ==
    /\ pace < MaxPace
    /\ pace' = pace + 1
    /\ confs' = [o \in Outputs |-> IF confs[o] = Absent THEN Absent ELSE Deeper(o)]
    /\ spend' = [o \in Outputs |->
            LET s == spend[o] IN
            IF s = NoSpend \/ (s.confs = 0 /\ ~Mature(s)) \/ s.confs >= Deep
            THEN s ELSE [s EXCEPT !.confs = @ + 1]]
    /\ UNCHANGED <<serverVars, wire, store, passVars, keyOut, unseen, lapsed, faults>>

\* Mutant of Reorg: a spend in the mempool loses a block too.
ReorgUnsaturated ==
    /\ \E o \in Outputs : confs[o] > 0
    /\ Fault("reorg", 1)
    /\ confs' = [o \in Outputs |-> IF confs[o] > 0 THEN confs[o] - 1 ELSE confs[o]]
    /\ spend' = [o \in Outputs |-> IF spend[o] # NoSpend
                                   THEN [spend[o] EXCEPT !.confs = @ - 1] ELSE spend[o]]
    /\ UNCHANGED <<serverVars, wire, store, passVars, keyOut, timeVars>>

\* The last block is dropped and what it held is in the mempool again.
Reorg ==
    /\ \E o \in Outputs : confs[o] > 0
    /\ Fault("reorg", 1)
    /\ confs' = [o \in Outputs |-> IF confs[o] > 0 THEN confs[o] - 1 ELSE confs[o]]
    /\ spend' = [o \in Outputs |-> IF spend[o].confs > 0
                                   THEN [spend[o] EXCEPT !.confs = @ - 1] ELSE spend[o]]
    /\ UNCHANGED <<serverVars, wire, store, passVars, keyOut, timeVars>>

\* A deposit or a spend leaves the mempool, with what spends it.
Evict ==
    /\ Fault("eviction", 1)
    /\ \E o \in Outputs :
          /\ \/ confs[o] = 0 /\ confs' = [confs EXCEPT ![o] = Absent]
             \/ spend[o] # NoSpend /\ spend[o].confs = 0 /\ UNCHANGED confs
          /\ spend' = [p \in Outputs |-> IF o \in spend[p].with THEN NoSpend ELSE spend[p]]
    /\ UNCHANGED <<serverVars, wire, store, passVars, keyOut, timeVars>>

-----------------------------------------------------------------------------
Init ==
    /\ confs = [o \in Outputs |-> Absent]
    /\ spend = [o \in Outputs |-> NoSpend]
    /\ server = "AwaitOpeningTxConfirmation" /\ deposit = None
    /\ userKey = FALSE /\ expired = FALSE
    /\ wire = {}
    /\ store = Accepted
    /\ mem = NoRecord /\ pc = "idle" /\ view = NoView /\ call = NoCall
    /\ keyOut = FALSE
    /\ unseen = {} /\ lapsed = FALSE /\ pace = 0
    /\ faults = [reorg |-> 0, eviction |-> 0, miss |-> 0, fail |-> 0, loss |-> 0]

Pass == \/ Begin \/ Poll \/ ChainFails
        \/ Send \/ SendFails
        \/ Save \/ SaveFails
        \/ NoRefund \/ RefundOut \/ RefundFails
        \/ Resave \/ ResaveFails
App == UserCancel \/ Crash \/ LoseStore \/ Restore \/ Lapse \/ Expire
Server == PayInvoice \/ Claim \/ ServerTimeOut \/ LateRequest
Chain == (\E o \in Outputs : Pay(o)) \/ Mine \/ Reorg \/ Evict

Next == Pass \/ App \/ Server \/ Chain

Spec == Init /\ [][Next]_vars

-----------------------------------------------------------------------------
(* Properties.                                                             *)

TypeOK ==
    /\ confs \in [Outputs -> {Absent} \cup 0..Deepest]
    /\ spend \in [Outputs -> SpendSet]
    /\ server \in ServerStatus
    /\ deposit \in Outputs \cup {None}
    /\ {userKey, expired, keyOut, lapsed} \subseteq BOOLEAN
    /\ wire \subseteq {"Cancel", "RefundKey"}
    /\ store \in Record \cup {NoRecord}
    /\ mem \in Record \cup {NoRecord}
    /\ pc \in Pc /\ view \in View /\ call \in Call
    /\ unseen \subseteq Outputs
    /\ pace \in 0..MaxPace
    /\ faults \in Counts

\* The refund key leaves only once the server paid the invoice, so a deposit
\* is never taken with both keys before (the assertion of the test world's
\* reveal_claim).
KeyOnlyForPaid == keyOut => Paid

\* A swap the run loop no longer drives left nothing behind: every output
\* found is paid for, spent in a block, or listed for the app to refund. What
\* the driver saw refunded in a block only a reorg may undo.
NothingLeftWhenQuiet ==
    pc = "idle" /\ store # NoRecord /\ IsQuiet(store) =>
        \A o \in Known(confs) \ unseen :
            \/ o = deposit
            \/ store.funds[o] = "Refunded" /\ (spend[o].confs > 0 \/ faults.reorg > 0)
            \/ store.funds[o] \in {"Dust", "Refundable"}

\* What has ended stays ended, and for what it ended: only a swap given up
\* for its CSV alone may still turn out paid or canceled. Reorgs, evictions
\* and a lost store apart.
EndedStaysEnded ==
    [][ /\ store # NoRecord /\ store.status \in Final
        /\ faults'.reorg + faults'.eviction + faults'.loss = 0
        => \/ store'.status = store.status
           \/ store.status = "CsvMatured" /\ store'.status \in Final ]_vars

-----------------------------------------------------------------------------
(* Liveness.                                                               *)

\* The lowest estimate, with nothing left out of the history.
LookCheaply ==
    \E threshold \in Thresholds :
        /\ \A t \in Thresholds : threshold <= t
        /\ Look(FALSE, threshold, {}, {})

\* run() sweeps for ever, every await of a pass ends, what a pass tries again
\* and again succeeds at some point, a pass that has gone well so far gets to
\* its end at some point, and blocks keep coming.
Fairness ==
    /\ WF_vars(Pass)
    /\ SF_vars(LookCheaply) /\ SF_vars(Poll) /\ SF_vars(Send)
    /\ SF_vars(Save /\ call.ok) /\ SF_vars(NoRefund /\ call.ok)
    /\ SF_vars(RefundOut /\ call.ok) /\ SF_vars(Resave /\ call.ok)
    /\ SF_vars(Mine)

FairSpec == Spec /\ Fairness

\* Unpaid deposits come back (tests/driver/random/swap_in.rs): every deposit
\* worth a refund is refunded, unless it is the one the server paid for.
DepositsComeBack ==
    \A o \in Outputs :
        (confs[o] > 0 /\ \A t \in Thresholds : Value[o] > t) ~>
            (spend[o].confs > 0 \/ o = deposit)
=============================================================================
