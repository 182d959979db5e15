------------------------------- MODULE SwapOut -------------------------------
(***************************************************************************)
(* One SwapOut as the driver runs it: the user pays a hold invoice, the    *)
(* server opens an output on chain that our preimage claims, and the       *)
(* driver decides on every pass whether the preimage may leave and how the *)
(* opening becomes ours (driver/tick.rs, driver/observe.rs,                *)
(* driver/decide/swap_out.rs).                                             *)
(*                                                                         *)
(* A pass awaits between its steps, so each await is the end of an action  *)
(* here and the world moves in between: blocks, reorgs, evictions, the     *)
(* server, late requests, a crash, a store that fails or is lost.          *)
(* The chain and the server are those of the repository's own test world   *)
(* (tests/driver/world): an honest server, which may still withhold its    *)
(* key, not answer, or take its CSV refund after it took the payment.      *)
(*                                                                         *)
(* Abstractions.  A transaction is its confirmations, not a height: Absent *)
(* when the chain does not know it, 0 in the mempool.  Amounts and fee     *)
(* rates are left out: whether a claim can pay the rate is a choice of the *)
(* environment, and so is whether a replacement is accepted.               *)
(***************************************************************************)
EXTENDS Integers

CONSTANTS
    Csv,            \* the opening's CSV, in blocks (terms.csv)
    MinConfs,       \* ChainConfig::min_confs
    ClaimMargin,    \* ChainConfig::claim_margin
    ByHand,         \* TRUE: the app also calls Handle::step on a quiet swap
    MaxPace,        \* blocks that may be mined between two good passes
    MaxReorgs,      \* bound: blocks ever dropped by reorgs
    MaxEvictions,   \* bound: evictions from the mempool
    MaxLosses       \* bound: losses of the store

\* accept() refuses a SwapOut whose CSV is under min_confs + claim_margin.
ASSUME CsvInRange ==
    /\ MinConfs \in Nat \ {0}
    /\ ClaimMargin \in Nat
    /\ Csv \in Nat \ {0}
    /\ Csv >= MinConfs + ClaimMargin

ASSUME Bounds ==
    /\ ByHand \in BOOLEAN
    /\ {MaxPace, MaxReorgs, MaxEvictions, MaxLosses} \subseteq Nat

VARIABLES
    opening,    \* the opening's confirmations, Absent when not on chain
    spend,      \* the one spend of it the chain knows: [path, confs]
    server,     \* the server's status of the swap
    settled,    \* the server took the payment with our preimage
    expired,    \* the hold invoice expired
    wire,       \* requests a timed out call left under way
    store,      \* the stored record, NoRecord when lost
    mem,        \* the record the pass under way works on
    pc,         \* where the pass stands
    drift,      \* blocks the tip moved since the pass read it
    view,       \* what the pass saw of the chain
    plan,       \* what the pass decided
    released,   \* history: our preimage has left this process
    pace,       \* blocks mined since a pass last ended well
    used        \* how much of each bound is used

chainVars  == <<opening, spend>>
serverVars == <<server, settled, expired>>
passVars   == <<mem, pc, drift, view, plan>>
vars == <<chainVars, serverVars, wire, store, passVars, released, pace, used>>

-----------------------------------------------------------------------------
(* Values.                                                                 *)

Absent == -1

\* Past this depth a transaction's confirmations are not counted: every
\* reorg left still leaves the opening past its CSV.
Deep == Csv + MaxReorgs

ClaimPaths == {"Keypath", "Preimage"}
NoSpend == [path |-> "none", confs |-> 0]
SpendSet == {NoSpend} \cup [path : ClaimPaths \cup {"Csv"}, confs : 0..Deep]

\* SwapOutStatus; AwaitRefundTxConfirmation also stands for Refunded, which
\* no decision tells from it.
ServerStatus == {"AwaitClaimInvoicePay", "OpeningTxBroadcast",
                 "AwaitPreimageRevealed", "AwaitRefundTxConfirmation",
                 "Canceled", "Claimed"}

\* Status, with each CancelReason a SwapOut ends for as a status of its own.
Final == {"Completed", "ServerCanceled", "ServerRefunded", "ClaimWindowClosed"}
Status == {"Restoring", "Funding", "Confirming", "Claiming"} \cup Final

Record == [status : Status, sentPreimage : BOOLEAN, sentCancel : BOOLEAN,
           key : BOOLEAN, preimage : BOOLEAN, serverCancel : BOOLEAN]
NoRecord == [status |-> "none"]

\* SwapRecord as accept() leaves it.
Accepted == [status |-> "Funding", sentPreimage |-> FALSE, sentCancel |-> FALSE,
             key |-> FALSE, preimage |-> FALSE, serverCancel |-> FALSE]

View == [opening : {Absent} \cup 0..Deep, spend : SpendSet]
NoView == [opening |-> Absent, spend |-> NoSpend]

Plan == [status : Status, act : {"none", "Cancel", "Preimage", "Claim"},
         path : ClaimPaths \cup {"none"}, replaces : BOOLEAN, ok : BOOLEAN]
NoPlan == [status |-> "Restoring", act |-> "none", path |-> "none",
           replaces |-> FALSE, ok |-> TRUE]

\* The awaits of a pass: the tip is read, the history is read, then what the
\* decision asks for, then the save.
Pc == {"idle", "history", "poll", "Preimage", "reveal", "Cancel", "Claim", "save"}

Bound == [reorgs : 0..MaxReorgs, evictions : 0..MaxEvictions, losses : 0..MaxLosses]

-----------------------------------------------------------------------------
(* The decision, pure: decide/swap_out.rs.                                 *)

\* Mutant of Confs: height - tip without saturation.
ConfsUnsaturated(c) == IF c <= 0 THEN c ELSE c - drift

\* confs(): counted from the tip the pass read, so a block mined since is not
\* seen in it, and never under 1 once in a block.
Confs(c) == IF c <= 0 THEN c ELSE IF c > drift THEN c - drift ELSE 1

\* The opening's spend is a keypath claim, which takes our key and theirs.
KeypathClaim(v) == v.spend.path = "Keypath"

\* Mutant of PreimageLeft: only what the server or the chain shows counts.
PreimageSeen(r, v) == r.key \/ r.preimage \/ KeypathClaim(v)

\* The preimage may have left: tried, answered with the server's key, or seen
\* in a claim of ours on chain.
PreimageLeft(r, v) ==
    r.sentPreimage \/ r.key \/ r.preimage \/ KeypathClaim(v)

Only(status) == [NoPlan EXCEPT !.status = status]

\* No opening yet.
Funding(r) ==
    IF r.serverCancel THEN Only("ServerCanceled")
    ELSE IF expired /\ ~r.sentCancel
         THEN [Only("Funding") EXCEPT !.act = "Cancel"]
         ELSE Only("Funding")

CsvLeft(v) == IF v.opening < Csv THEN Csv - v.opening ELSE 0

\* Mutant of Confirming: the CSV is not looked at.
ConfirmingAnyMargin(v, payable) ==
    IF v.spend = NoSpend /\ v.opening >= MinConfs /\ payable
    THEN [Only("Confirming") EXCEPT !.act = "Preimage"]
    ELSE Only("Confirming")

\* Mutant of Confirming: the opening may still be in the mempool.
ConfirmingUnconfirmed(v, payable) ==
    IF v.opening > 0 /\ CsvLeft(v) < ClaimMargin THEN Only("ClaimWindowClosed")
    ELSE IF v.spend = NoSpend /\ CsvLeft(v) >= ClaimMargin /\ payable
         THEN [Only("Confirming") EXCEPT !.act = "Preimage"]
         ELSE Only("Confirming")

\* Mutant of Confirming: a window that closed is waited on for ever.
ConfirmingForEver(v, payable) ==
    IF /\ v.spend = NoSpend /\ v.opening >= MinConfs
       /\ CsvLeft(v) >= ClaimMargin /\ payable
    THEN [Only("Confirming") EXCEPT !.act = "Preimage"]
    ELSE Only("Confirming")

\* The preimage has not left; it goes out only while a claim can still win.
Confirming(v, payable) ==
    IF v.opening > 0 /\ CsvLeft(v) < ClaimMargin
    THEN Only("ClaimWindowClosed")
    ELSE IF /\ v.spend = NoSpend
            /\ v.opening >= MinConfs
            /\ CsvLeft(v) >= ClaimMargin
            /\ payable
         THEN [Only("Confirming") EXCEPT !.act = "Preimage"]
         ELSE Only("Confirming")

\* Mutant of ClaimPath: the preimage leaf only once seen on chain.
ClaimPathSeen(r, v) ==
    IF v.spend.confs > 0 THEN "none"
    ELSE IF r.key THEN "Keypath"
    ELSE IF r.preimage \/ KeypathClaim(v) THEN "Preimage" ELSE "none"

\* The path a claim takes, "none" when there is no claim to make.
ClaimPath(r, v) ==
    LET preimage == /\ v.opening >= MinConfs
                    /\ r.sentPreimage \/ r.preimage \/ KeypathClaim(v)
    IN  IF v.spend.confs > 0 THEN "none"
        ELSE IF r.key /\ v.spend.path \in {"none", "Keypath"} THEN "Keypath"
        ELSE IF preimage THEN "Preimage"
        ELSE IF r.key THEN "Keypath" ELSE "none"

Claiming(r, v) ==
    LET path == ClaimPath(r, v)
    IN  [Only("Claiming") EXCEPT
            !.act = IF path = "none" THEN "none" ELSE "Claim",
            !.path = path,
            !.replaces = v.spend # NoSpend]

\* A spend reached min_confs: a claim of ours, or the server's CSV refund.
Spent(v) == Only(IF v.spend.path = "Csv" THEN "ServerRefunded" ELSE "Completed")

\* Mutant of Decide: a spend in any block is final.
DecideEarly(r, v, payable) ==
    IF v.opening = Absent THEN Funding(r)
    ELSE IF v.spend.confs > 0 THEN Spent(v)
    ELSE IF PreimageLeft(r, v) THEN Claiming(r, v)
    ELSE Confirming(v, payable)

\* decide().
Decide(r, v, payable) ==
    IF v.opening = Absent THEN Funding(r)
    ELSE IF v.spend.confs >= MinConfs THEN Spent(v)
    ELSE IF PreimageLeft(r, v) THEN Claiming(r, v)
    ELSE Confirming(v, payable)

\* is_quiet(): the run loop drives no SwapOut whose status is final.
IsQuiet(r) == r.status \in Final

-----------------------------------------------------------------------------
(* One pass of the driver: Tick::pass under the swap's lock.               *)

Stop == /\ pc' = "idle" /\ mem' = NoRecord /\ view' = NoView
        /\ plan' = NoPlan /\ drift' = 0

\* The swap is locked, its record loaded and the tip read. A sweep skips a
\* quiet swap; a step by hand does not.
Begin ==
    /\ pc = "idle"
    /\ store # NoRecord
    /\ ByHand \/ ~IsQuiet(store)
    /\ pc' = "history" /\ mem' = store /\ drift' = 0
    /\ UNCHANGED <<chainVars, serverVars, wire, store, view, plan, released, pace, used>>

\* The address history with the opening's outspend, one view of the chain.
ReadHistory ==
    /\ pc = "history"
    /\ view' = [opening |-> Confs(opening),
                spend |-> [spend EXCEPT !.confs = Confs(spend.confs)]]
    /\ pc' = "poll"
    /\ UNCHANGED <<chainVars, serverVars, wire, store, mem, drift, plan, released, pace, used>>

\* A chain read fails: the pass ends and nothing is saved.
ChainFails ==
    /\ pc = "history"
    /\ Stop
    /\ UNCHANGED <<chainVars, serverVars, wire, store, released, pace, used>>

\* The record with what the server's answer and the chain proved.
Merge(r, v, key, canceled) ==
    [r EXCEPT !.key = @ \/ key,
              !.preimage = @ \/ v.spend.path = "Preimage",
              !.serverCancel = @ \/ canceled]

\* get_swap is answered, its key withheld or not, or not answered in time.
\* The pass then decides; the status is set now and kept whatever the action
\* does, but for the preimage, whose flag is saved first.
Poll ==
    /\ pc = "poll"
    /\ \E answered, shows, payable \in BOOLEAN :
          LET merged == Merge(mem, view,
                              answered /\ shows /\ server = "Claimed",
                              answered /\ server = "Canceled")
              decided == Decide(merged, view, payable)
          IN  /\ plan' = decided
              /\ mem' = IF decided.act = "Preimage" THEN merged
                        ELSE [merged EXCEPT !.status = decided.status]
              /\ pc' = IF decided.act = "none" THEN "save" ELSE decided.act
    /\ view' = NoView /\ drift' = 0
    /\ UNCHANGED <<chainVars, serverVars, wire, store, released, pace, used>>

\* Mutant of StorePreimageSent: the flag waits for the save at the end.
PreimageSentInMemory ==
    /\ pc = "Preimage"
    /\ mem' = [mem EXCEPT !.sentPreimage = TRUE]
    /\ pc' = "reveal"
    /\ UNCHANGED <<chainVars, serverVars, wire, store, drift, view, plan, released, pace, used>>

\* send(), Preimage: the flag is set and stored before the request.
StorePreimageSent ==
    /\ pc = "Preimage"
    /\ mem' = [mem EXCEPT !.sentPreimage = TRUE]
    /\ store' = mem'
    /\ pc' = "reveal"
    /\ UNCHANGED <<chainVars, serverVars, wire, drift, view, plan, released, pace, used>>

\* That save fails, written or not: no request is made, the status is kept
\* and the pass goes on to its last save with the flag still set.
StorePreimageSentFails ==
    /\ pc = "Preimage"
    /\ mem' = [mem EXCEPT !.sentPreimage = TRUE, !.status = plan.status]
    /\ store' \in {store, [mem EXCEPT !.sentPreimage = TRUE]}
    /\ plan' = [plan EXCEPT !.ok = FALSE]
    /\ pc' = "save"
    /\ UNCHANGED <<chainVars, serverVars, wire, drift, view, released, pace, used>>

\* The server settles on our preimage only while it awaits it.
TakePreimage ==
    IF server = "AwaitPreimageRevealed"
    THEN server' = "Claimed" /\ settled' = TRUE
    ELSE UNCHANGED <<server, settled>>

\* The server cancels only a swap whose invoice is unpaid.
TakeCancel ==
    /\ server' = IF server = "AwaitClaimInvoicePay" THEN "Canceled" ELSE server
    /\ UNCHANGED settled

\* What becomes of a request: taken now, lost, or left under way.
Take(m) == IF m = "Preimage" THEN TakePreimage ELSE TakeCancel
Unanswered(m) ==
    \/ Take(m) /\ UNCHANGED wire
    \/ wire' \in {wire, wire \cup {m}} /\ UNCHANGED <<server, settled>>

\* The request goes out. Answered, refused or failed, the flag stays set.
RevealPreimage ==
    /\ pc = "reveal"
    /\ released' = TRUE
    /\ Unanswered("Preimage")
    /\ mem' = [mem EXCEPT !.status = plan.status]
    /\ pc' = "save"
    /\ UNCHANGED <<chainVars, expired, store, drift, view, plan, pace, used>>

\* A cancel answered, taken or refused, is flagged.
SendCancel ==
    /\ pc = "Cancel"
    /\ TakeCancel
    /\ mem' = [mem EXCEPT !.sentCancel = TRUE]
    /\ pc' = "save"
    /\ UNCHANGED <<chainVars, expired, wire, store, drift, view, plan, released, pace, used>>

\* A cancel not answered fails the pass, at its end.
SendCancelFails ==
    /\ pc = "Cancel"
    /\ Unanswered("Cancel")
    /\ plan' = [plan EXCEPT !.ok = FALSE]
    /\ pc' = "save"
    /\ UNCHANGED <<chainVars, expired, store, mem, drift, view, released, pace, used>>

\* The chain takes a spend of the opening unless a block holds another.
Acceptable == opening # Absent /\ spend.confs = 0

BroadcastClaim ==
    /\ pc = "Claim"
    /\ Acceptable
    /\ spend' = [path |-> plan.path, confs |-> 0]
    /\ released' = (released \/ plan.path = "Preimage")
    /\ pc' = "save"
    /\ UNCHANGED <<opening, serverVars, wire, store, mem, drift, view, plan, pace, used>>

\* Refused, or the answer lost: an error, unless the claim replaces a spend.
BroadcastClaimFails ==
    /\ pc = "Claim"
    /\ \/ UNCHANGED spend
       \/ Acceptable /\ spend' = [path |-> plan.path, confs |-> 0]
    /\ released' = (released \/ plan.path = "Preimage")
    /\ plan' = [plan EXCEPT !.ok = plan.replaces]
    /\ pc' = "save"
    /\ UNCHANGED <<opening, serverVars, wire, store, mem, drift, view, pace, used>>

\* The record is saved if it changed, and the pass ends.
Save ==
    /\ pc = "save"
    /\ store' = mem
    /\ pace' = IF plan.ok THEN 0 ELSE pace
    /\ Stop
    /\ UNCHANGED <<chainVars, serverVars, wire, released, used>>

SaveFails ==
    /\ pc = "save"
    /\ mem # store
    /\ store' \in {store, mem}
    /\ Stop
    /\ UNCHANGED <<chainVars, serverVars, wire, released, pace, used>>

-----------------------------------------------------------------------------
(* The app and the machine it runs on.                                     *)

\* Handle::cancel, under the same lock: flagged only when the server cancels,
\* and that save may fail too.
UserCancel ==
    /\ pc = "idle"
    /\ store # NoRecord
    /\ store.status \in {"Restoring", "Funding", "Confirming"}
    /\ ~store.sentPreimage
    /\ \/ /\ Take("Cancel")
          /\ UNCHANGED wire
          /\ store' \in {store} \cup
                (IF server' = "Canceled"
                 THEN {[store EXCEPT !.sentCancel = TRUE]} ELSE {})
       \/ Unanswered("Cancel") /\ UNCHANGED store
    /\ UNCHANGED <<chainVars, expired, passVars, released, pace, used>>

\* The process dies in a pass; the store keeps what was saved.
Crash ==
    /\ pc # "idle"
    /\ Stop
    /\ UNCHANGED <<chainVars, serverVars, wire, store, released, pace, used>>

LoseStore ==
    /\ used.losses < MaxLosses
    /\ store' = NoRecord
    /\ used' = [used EXCEPT !.losses = @ + 1]
    /\ Stop
    /\ UNCHANGED <<chainVars, serverVars, wire, released, pace>>

\* Mutant of Restore: the key in the server's report is left for later.
RestoreKeyless ==
    /\ store = NoRecord
    /\ wire = {}
    /\ store' = [Accepted EXCEPT !.status = "Restoring"]
    /\ UNCHANGED <<chainVars, serverVars, wire, passVars, released, pace, used>>

\* restore_signed: accepted again from our own signed request, with what the
\* server's report proves. A request of the lost process has landed by then.
Restore ==
    /\ store = NoRecord
    /\ wire = {}
    /\ store' = [Accepted EXCEPT !.status = "Restoring",
                                 !.sentCancel = (server = "Canceled"),
                                 !.serverCancel = (server = "Canceled"),
                                 !.key = (server = "Claimed")]
    /\ UNCHANGED <<chainVars, serverVars, wire, passVars, released, pace, used>>

-----------------------------------------------------------------------------
(* The server.                                                             *)

ServerStep(from, to) ==
    /\ server \in from
    /\ server' = to
    /\ UNCHANGED <<settled, expired, wire, store, passVars, released, pace, used>>

\* The user paid the hold invoice and the server holds the payment.
Hold ==
    /\ ~expired
    /\ ServerStep({"AwaitClaimInvoicePay"}, "OpeningTxBroadcast")
    /\ UNCHANGED chainVars

Open ==
    /\ ServerStep({"OpeningTxBroadcast"}, "AwaitPreimageRevealed")
    /\ opening' = 0
    /\ UNCHANGED spend

\* The server gives up, before the opening or right after its broadcast.
ServerTimeOut ==
    /\ ServerStep({"AwaitClaimInvoicePay", "OpeningTxBroadcast",
                   "AwaitPreimageRevealed"}, "Canceled")
    /\ UNCHANGED chainVars

\* The CSV refund, mature in the next block, taken by the chain in place of
\* any claim still in the mempool. The server may try after it settled.
Refund ==
    /\ opening >= Csv
    /\ Acceptable
    /\ ServerStep(ServerStatus, "AwaitRefundTxConfirmation")
    /\ spend' = [path |-> "Csv", confs |-> 0]
    /\ UNCHANGED opening

\* A request left under way arrives.
LateRequest ==
    \E m \in wire :
        /\ Take(m)
        /\ wire' = wire \ {m}
        /\ UNCHANGED <<chainVars, expired, store, passVars, released, pace, used>>

Expire ==
    /\ ~expired
    /\ expired' = TRUE
    /\ UNCHANGED <<chainVars, server, settled, wire, store, passVars, released, pace, used>>

-----------------------------------------------------------------------------
(* The chain.                                                              *)

Deeper(c) == IF c < Deep THEN c + 1 ELSE Deep

\* A pass that read the tip sees heights against it.
Drift(n) == drift' = IF pc = "history" THEN drift + n ELSE 0

\* The next block takes the mempool: the opening, and a spend of it unless it
\* is the CSV leaf and a reorg made it immature again. Blocks come at most
\* MaxPace between two passes that ended well; and none between two reads
\* once the opening is as deep as counted.
Mine ==
    /\ pace < MaxPace
    /\ pc = "history" => opening < Deep
    /\ pace' = pace + 1
    /\ opening' = IF opening = Absent THEN Absent ELSE Deeper(opening)
    /\ spend' = IF \/ spend = NoSpend
                   \/ spend.path = "Csv" /\ spend.confs = 0 /\ opening < Csv
                THEN spend ELSE [spend EXCEPT !.confs = Deeper(@)]
    /\ Drift(1)
    /\ UNCHANGED <<serverVars, wire, store, mem, pc, view, plan, released, used>>

\* The last block is dropped and what it held is in the mempool again.
Reorg ==
    /\ used.reorgs < MaxReorgs
    /\ opening > 0
    /\ used' = [used EXCEPT !.reorgs = @ + 1]
    /\ opening' = opening - 1
    /\ spend' = IF spend.confs > 0 THEN [spend EXCEPT !.confs = @ - 1] ELSE spend
    /\ Drift(-1)
    /\ UNCHANGED <<serverVars, wire, store, mem, pc, view, plan, released, pace>>

\* A transaction leaves the mempool, with what spends it.
Evict ==
    /\ used.evictions < MaxEvictions
    /\ used' = [used EXCEPT !.evictions = @ + 1]
    /\ \/ opening = 0 /\ opening' = Absent
       \/ spend # NoSpend /\ spend.confs = 0 /\ UNCHANGED opening
    /\ spend' = NoSpend
    /\ UNCHANGED <<serverVars, wire, store, passVars, released, pace>>

-----------------------------------------------------------------------------
Init ==
    /\ opening = Absent /\ spend = NoSpend
    /\ server = "AwaitClaimInvoicePay" /\ settled = FALSE /\ expired = FALSE
    /\ wire = {}
    /\ store = Accepted
    /\ mem = NoRecord /\ pc = "idle" /\ drift = 0
    /\ view = NoView /\ plan = NoPlan
    /\ released = FALSE
    /\ pace = 0
    /\ used = [reorgs |-> 0, evictions |-> 0, losses |-> 0]

Pass == \/ Begin \/ ReadHistory \/ ChainFails \/ Poll
        \/ StorePreimageSent \/ StorePreimageSentFails \/ RevealPreimage
        \/ SendCancel \/ SendCancelFails
        \/ BroadcastClaim \/ BroadcastClaimFails
        \/ Save \/ SaveFails
App == UserCancel \/ Crash \/ LoseStore \/ Restore
Server == Hold \/ Open \/ ServerTimeOut \/ Refund \/ LateRequest \/ Expire
Chain == Mine \/ Reorg \/ Evict

Next == Pass \/ App \/ Server \/ Chain

Spec == Init /\ [][Next]_vars

-----------------------------------------------------------------------------
(* Properties.                                                             *)

ChainTypeOK ==
    /\ opening \in {Absent} \cup 0..Deep
    /\ spend \in SpendSet
    /\ spend # NoSpend => spend.confs <= opening
    /\ pace \in 0..MaxPace
    /\ used \in Bound
    /\ drift \in (-used.reorgs)..pace

ServerTypeOK ==
    /\ server \in ServerStatus
    /\ settled \in BOOLEAN /\ expired \in BOOLEAN /\ released \in BOOLEAN
    /\ wire \subseteq {"Preimage", "Cancel"}

PassTypeOK ==
    /\ pc \in Pc
    /\ store \in Record \cup {NoRecord}
    /\ mem \in Record \cup {NoRecord}
    /\ view \in View
    /\ plan \in Plan

\* Every variable has its type, a spend is never deeper than the opening it
\* spends, and the tip moved no further from what the pass under way read
\* than blocks were mined or dropped.
TypeOK == ChainTypeOK /\ ServerTypeOK /\ PassTypeOK

\* Write-ahead of the preimage: whatever fails or crashes, once the preimage
\* has left the process the stored record says so, unless the store itself
\* was lost (the comment at driver/tick.rs:171).
PreimageRecorded ==
    released /\ used.losses = 0 => store # NoRecord /\ store.sentPreimage

\* The promise of a SwapOut: a payment the server took is never lost to the
\* server's CSV refund. It holds while the driver ends a pass well at least
\* every MaxPace blocks and claim_margin leaves room for the passes a claim
\* needs: see the README for how much.
NeverLosesPayment == settled => ~(spend.path = "Csv" /\ spend.confs > 0)

\* A swap the run loop no longer drives has nothing left to claim: if the
\* server took the payment, the record says Completed (is_quiet: "Nothing a
\* pass could move", driver/record.rs:135).
NothingLeftWhenQuiet ==
    pc = "idle" /\ IsQuiet(store) /\ settled => store.status = "Completed"

\* A final status reports what the chain did: Completed only with our claim
\* min_confs deep, ServerRefunded only with the refund as deep, each less
\* the blocks reorgs dropped, whatever the pass read too early.
FinalMatchesChain ==
    store.status \in {"Completed", "ServerRefunded"} /\ used.reorgs < MinConfs =>
        /\ spend.confs >= MinConfs - used.reorgs
        /\ (spend.path = "Csv") <=> (store.status = "ServerRefunded")

\* The release gate as the preimage leaves, not as the pass read the chain:
\* the opening is min_confs deep and unspent, less what reorgs dropped since,
\* and claim_margin of its CSV is left, less the blocks mined in the pass.
ReleaseGate ==
    [][ released' /\ ~released /\ used.losses = 0 =>
          /\ opening >= MinConfs - used.reorgs
          /\ spend = NoSpend \/ used.reorgs > 0
          /\ Csv - opening >= ClaimMargin - pace ]_vars

-----------------------------------------------------------------------------
(* Liveness.                                                               *)

\* run() sweeps for ever and every await of a pass ends; and no fault lasts for
\* ever: what a pass tries again and again succeeds at some point. Blocks
\* keep coming.
Fairness ==
    /\ WF_vars(Pass)
    /\ SF_vars(ReadHistory) /\ SF_vars(Poll)
    /\ SF_vars(StorePreimageSent) /\ SF_vars(RevealPreimage)
    /\ SF_vars(BroadcastClaim) /\ SF_vars(Save)
    /\ SF_vars(Mine)

FairSpec == Spec /\ Fairness

\* Once the server took the payment, the swap completes.
SettledIsClaimed == settled ~> store.status = "Completed"

\* Once the opening is on chain the swap ends, whatever the server answers
\* and however high the fee rate stays.
OpeningResolves == (opening # Absent) ~> IsQuiet(store)
=============================================================================
