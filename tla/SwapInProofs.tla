---------------------------- MODULE SwapInProofs ----------------------------
(***************************************************************************)
(* Theorems about SwapIn, for any finite set of deposits of any values,    *)
(* any CSV, fee estimates, pace and number of faults: its type invariant,  *)
(* that the refund key leaves only for a paid invoice, that what ended     *)
(* stays ended, and that a swap no longer driven left nothing behind.      *)
(*                                                                         *)
(* The inductive invariant comes in layers, each proved with the ones      *)
(* before it: Typed, what the variables are; Evidence, that whatever shows *)
(* a payment is true; Lasting, that what a final status rests on is there  *)
(* for good; Accounted, that every output found is spent as the record has *)
(* it or still in it, with what a pass has not looked at yet set apart.    *)
(***************************************************************************)
EXTENDS SwapIn, FiniteSetTheorems, WellFoundedInduction, TLAPS

-----------------------------------------------------------------------------
(* The layers.                                                             *)

\* A pass works on a record, of a swap the store holds.
InPass == /\ pc = "idle" => mem = NoRecord
          /\ pc # "idle" => mem \in Record /\ store \in Record
          /\ pc = "send" => call.act # "none"

Typed == TypeOK /\ InPass

\* What a record holds as proof of the payment is one.
Honest(r) == r \in Record /\ r.preimage => Paid

\* Nothing was undone: no reorg, no eviction and no lost store yet.
Calm == faults.reorg + faults.eviction + faults.loss = 0

\* The server answers as paid once it paid, and as canceled for good.
ServerSide == Paid <=> server \in {"AwaitClaimKeyRevealMessage", "AwaitClaimTxConfirmation"}

\* A key the server has shown is that of a canceled swap.
KeyOfCanceled(r) == r \in Record /\ r.key => server = "Canceled"

\* What a final status rests on, in the chain as of c.
Rests(r, c) ==
    r \in Record =>
        /\ r.status = "ServerCanceled" => r.key
        /\ r.status = "Completed" => r.preimage /\ Exact(c) # {}
        /\ r.status = "CsvMatured" => \E o \in Exact(c) : c[o] >= Csv

\* No output of the chain as of c is gone or less deep as of d.
Earlier(c, d) == \A o \in Known(c) : o \in Known(d) /\ c[o] <= d[o]

\* What a record that said from says once it says to.
StatusLasts(from, to) ==
    from.status \in Final =>
        \/ to.status = from.status
        \/ from.status = "CsvMatured" /\ to.status \in Final

\* What a final status rests on is there for good, for the record stored and
\* the one a pass works on, and as the pass under way saw it.
Lasting ==
    /\ ServerSide /\ KeyOfCanceled(store) /\ KeyOfCanceled(mem)
    /\ Calm => /\ store \in Record
               /\ Rests(store, confs) /\ Rests(mem, confs)
               /\ pc = "poll" => Rests(mem, view.confs) /\ Earlier(view.confs, confs)
               /\ pc # "idle" => StatusLasts(store, mem)

\* The user pays the amount once. Of two deposits of it the server may pay
\* for the one the driver does not take for the opening.
OneDeposit == \A o, p \in Outputs : Value[o] = Amount /\ Value[p] = Amount => o = p

\* All the outputs a spend takes hold it.
Together == \A o \in Outputs : spend[o] # NoSpend =>
                /\ o \in spend[o].with
                /\ \A p \in spend[o].with : spend[p] = spend[o]

\* A spend is of outputs on the chain, and no deeper.
Behind == \A o \in Outputs : spend[o] # NoSpend =>
              o \in Known(confs) /\ spend[o].confs <= confs[o]

\* The server alone spends by the preimage, and what it paid for; a keypath
\* spend of anything else is ours, with the key of a canceled swap.
SpendsExplained(s) ==
    \A o \in Outputs :
        /\ s[o].path = "Preimage" => Paid /\ o = deposit
        /\ s[o].path = "Keypath" => (Paid /\ o = deposit) \/ server = "Canceled"

\* A key is sent, and a swap completed, for a paid invoice.
PaidFor(r) == r \in Record /\ (r.sentKey \/ r.status = "Completed") => Paid

\* Of the outputs of S a settled record leaves out only the one paid for.
LeavesOut(r, S) ==
    r \in Record /\ r.status \in Final =>
        \A o \in S : r.funds[o] = "none" => Paid /\ o = deposit

\* What a record has as refunded is, unless a reorg undid it.
RefundedInBlock(r) ==
    r \in Record /\ faults.reorg = 0 =>
        \A o \in Outputs : r.funds[o] = "Refunded" => spend[o].confs > 0

\* Every output found is accounted for, in the record stored and in the one a
\* pass is about to save.
Accounted ==
    /\ Together /\ Behind
    /\ SpendsExplained(spend) /\ SpendsExplained(view.spend)
    /\ PaidFor(store) /\ PaidFor(mem)
    /\ Paid => Value[deposit] = Amount
    /\ RefundedInBlock(store) /\ RefundedInBlock(mem)
    /\ faults.reorg = 0 => \A o \in Outputs : view.spend[o].confs > 0 => spend[o].confs > 0
    /\ pc # "idle" => Known(confs) \ Known(view.confs) \subseteq unseen
    /\ LeavesOut(store, Known(confs) \ unseen)
    /\ pc \in {"refund", "resave"} => LeavesOut(mem, Known(view.confs))
    /\ pc = "refund" /\ call.ok => store = mem

\* Whatever shows that the invoice was paid is true: a spend by the preimage,
\* on the chain or as a pass saw it, a preimage in a record, and the key on
\* its way or out.
Evidence == /\ \A o \in Outputs : spend[o].path = "Preimage" => Paid
            /\ \A o \in Outputs : view.spend[o].path = "Preimage" => Paid
            /\ Honest(store) /\ Honest(mem)
            /\ pc = "send" /\ call.act = "RefundKey" => mem.preimage
            /\ KeyOnlyForPaid

-----------------------------------------------------------------------------
(* The operators.                                                          *)

\* The depths at which counting stops are depths.
LEMMA DeepIsNat == /\ Deep \in Nat /\ Deep >= 1
                   /\ Deepest \in Nat /\ Deep <= Deepest
  <1>1. Cardinality(Outputs) \in Nat
    BY Deposits, FS_CardinalityType
  <1>2. Csv \in Nat \ {0} /\ MaxFaults \in Nat
    BY Settings
  <1> QED
    BY <1>1, <1>2 DEF Deep, Deepest

\* A set of outputs counts no more than all of them.
LEMMA SubsetCounts ==
  ASSUME NEW S \in SUBSET Outputs
  PROVE  Cardinality(S) \in Nat /\ Deep + Cardinality(S) <= Deepest
  <1>1. IsFiniteSet(S) /\ Cardinality(S) <= Cardinality(Outputs)
    BY Deposits, FS_Subset
  <1>2. Cardinality(S) \in Nat /\ Cardinality(Outputs) \in Nat
    BY <1>1, Deposits, FS_CardinalityType
  <1> QED
    BY <1>1, <1>2, DeepIsNat DEF Deepest

\* A block takes an output no deeper than counted, and not back.
LEMMA DeeperInDepth ==
  ASSUME TypeOK, NEW o \in Outputs, confs[o] # Absent
  PROVE  Deeper(o) \in 0..Deepest /\ Deeper(o) >= confs[o]
  <1> DEFINE younger == {p \in Known(confs) : confs[p] < confs[o]}
  <1>1. younger \in SUBSET Outputs
    BY DEF Known
  <1>2. Cardinality(younger) \in Nat /\ Deep + Cardinality(younger) <= Deepest
    BY <1>1, SubsetCounts
  <1>3. confs[o] \in 0..Deepest
    BY DEF TypeOK, Absent
  <1>4. Deeper(o) = IF confs[o] < Deep + Cardinality(younger) THEN confs[o] + 1 ELSE confs[o]
    BY DEF Deeper
  <1> HIDE DEF younger
  <1> QED
    BY <1>2, <1>3, <1>4, DeepIsNat

\* What accept() leaves is a record.
LEMMA AcceptedIsRecord == Accepted \in Record
  <1>1. NoFunds \in [Outputs -> FundState]
    BY DEF NoFunds, FundState
  <1>2. "Funding" \in Status /\ (Address = "swap") \in BOOLEAN
    BY DEF Status
  <1> QED
    BY <1>1, <1>2 DEF Accepted, Record

\* What a restore leaves is a record, with the proofs the server's report has.
LEMMA RestoreLeaves ==
  ASSUME Restore
  PROVE  /\ store' \in Record
         /\ store'.status = "Restoring"
         /\ store'.preimage <=> Paid
         /\ store'.key => server = "Canceled"
         /\ store'.sentKey => server = "AwaitClaimTxConfirmation"
         /\ store'.funds = NoFunds
  <1>1. PICK claimed \in BOOLEAN, shows \in BOOLEAN :
          store' = [Accepted EXCEPT
              !.status = "Restoring", !.ended = (claimed \/ server = "Canceled"),
              !.sentKey = (server = "AwaitClaimTxConfirmation"),
              !.sentCancel = (server = "Canceled"),
              !.key = shows /\ server = "Canceled",
              !.preimage = Paid]
    BY DEF Restore
  <1> DEFINE over == claimed \/ server = "Canceled"
             sent == server = "AwaitClaimTxConfirmation"
             canceled == server = "Canceled"
             key == shows /\ server = "Canceled"
  <1>2. over \in BOOLEAN /\ sent \in BOOLEAN /\ canceled \in BOOLEAN /\ key \in BOOLEAN
    OBVIOUS
  <1>3. Paid \in BOOLEAN
    BY DEF Paid
  <1>4. store' = [Accepted EXCEPT !.status = "Restoring", !.ended = over, !.sentKey = sent,
                                  !.sentCancel = canceled, !.key = key, !.preimage = Paid]
    BY <1>1
  <1>5. (key => server = "Canceled") /\ (sent => server = "AwaitClaimTxConfirmation")
    OBVIOUS
  <1> HIDE DEF over, sent, canceled, key
  <1>6. ASSUME NEW paid \in BOOLEAN, Paid <=> paid
        PROVE  store' = [Accepted EXCEPT !.status = "Restoring", !.ended = over, !.sentKey = sent,
                                         !.sentCancel = canceled, !.key = key, !.preimage = paid]
    <2>1. Paid = paid
      BY <1>3, <1>6, Zenon
    <2> QED
      BY <1>4, <2>1, Zenon
  <1>7. PICK paid \in BOOLEAN : Paid <=> paid
    OBVIOUS
  <1>8. store' = [Accepted EXCEPT !.status = "Restoring", !.ended = over, !.sentKey = sent,
                                  !.sentCancel = canceled, !.key = key, !.preimage = paid]
    BY <1>6, <1>7
  <1>9. store' = [status |-> "Restoring", sentCancel |-> canceled, sentKey |-> sent,
                  key |-> key, preimage |-> paid, ended |-> over,
                  address |-> Accepted.address, funds |-> Accepted.funds]
    BY ONLY <1>8 DEF Accepted
  <1>13. Accepted.funds = NoFunds
    BY DEF Accepted
  <1>10. Accepted.address \in BOOLEAN /\ Accepted.funds \in [Outputs -> FundState]
    BY ONLY AcceptedIsRecord DEF Record
  <1>11. store' \in Record
    BY ONLY <1>2, <1>7, <1>9, <1>10 DEF Record, Status
  <1>12. /\ store'.status = "Restoring" /\ store'.preimage = paid /\ store'.key = key
         /\ store'.sentKey = sent /\ store'.funds = Accepted.funds
    BY ONLY <1>9
  <1> QED
    BY ONLY <1>5, <1>7, <1>11, <1>12, <1>13

\* What the server and the chain prove leaves a record one.
LEMMA ProvedIsRecord ==
  ASSUME NEW r \in Record, NEW v \in View, NEW answered \in BOOLEAN, NEW shows \in BOOLEAN
  PROVE  LET proved == Proved(r, v, answered, shows)
         IN  /\ proved \in Record
             /\ proved.status = r.status /\ proved.sentKey = r.sentKey
             /\ proved.funds = r.funds
             /\ proved.key <=> (r.key \/ (answered /\ shows /\ server = "Canceled"))
             /\ proved.preimage <=> \/ r.preimage
                                    \/ answered /\ Paid
                                    \/ \E o \in Outputs : v.spend[o].path = "Preimage"
  BY DEF Proved, Record, Paid

LEMMA DecideIsStatus ==
  ASSUME NEW r, NEW v
  PROVE  Decide(r, v) \in {"ServerCanceled", "Completed", "Funding", "CsvMatured", "Confirming"}
  BY DEF Decide

LEMMA RequestIsAct ==
  ASSUME NEW r, NEW status
  PROVE  /\ Request(r, status) \in {"none", "Cancel", "RefundKey"}
         /\ Request(r, status) = "RefundKey" => status = "Completed"
  BY DEF Request

LEMMA FundsAreStates ==
  ASSUME NEW r, NEW v
  PROVE  Funds(r, v) \in [Outputs -> FundState]
  <1>1. \A o \in Outputs : StateOf(r, v, o) \in FundState
    BY DEF StateOf, FundState
  <1> QED
    BY <1>1 DEF Funds, FundState

\* A fault is counted within its bound.
LEMMA FaultCounts ==
  ASSUME TypeOK, NEW kind, NEW n \in Nat, Fault(kind, n)
  PROVE  faults' \in Counts
  <1>1. kind \in {"reorg", "eviction", "miss", "fail", "loss"}
    BY Settings DEF Fault
  <1>2. MaxFaults \in Nat
    BY Settings
  <1> QED
    BY <1>1, <1>2 DEF Fault, TypeOK, Counts

\* A spend that enters the mempool is one, and puts out those of its outputs.
LEMMA EnterIsTyped ==
  ASSUME TypeOK, NEW S \in SUBSET Outputs, NEW path \in {"Keypath", "Preimage", "Csv"},
         Enter(S, path)
  PROVE  /\ spend' \in [Outputs -> SpendSet]
         /\ \A o \in Outputs : spend'[o].path \in {path, "none", spend[o].path}
  <1>1. 0 \in 0..Deepest
    BY DeepIsNat
  <1> QED
    BY <1>1 DEF Enter, TypeOK, SpendSet, NoSpend

\* The refunds a pass may broadcast take outputs by the CSV or the keypath.
LEMMA RefundsAreTyped ==
  ASSUME NEW refund \in Refunds
  PROVE  refund.takes \in SUBSET Outputs /\ refund.path \in {"Keypath", "Csv"}
  <1>1. MostValuable(InState(mem, "Refundable"), FundsPerPass) \in SUBSET Outputs
    BY DEF MostValuable, InState
  <1> QED
    BY <1>1 DEF Refunds

LEMMA TakeIsTyped ==
  ASSUME TypeOK, NEW m, Take(m)
  PROVE  server' \in ServerStatus /\ userKey' \in BOOLEAN
  BY DEF Take, TakeKey, TakeCancel, TypeOK, ServerStatus

LEMMA UnansweredIsTyped ==
  ASSUME TypeOK, NEW m \in {"Cancel", "RefundKey"}, Unanswered(m)
  PROVE  /\ server' \in ServerStatus /\ userKey' \in BOOLEAN
         /\ wire' \subseteq {"Cancel", "RefundKey"}
  BY TakeIsTyped DEF Unanswered, TypeOK

-----------------------------------------------------------------------------
(* Types.                                                                  *)

ServerTypeOK ==
    /\ server \in ServerStatus
    /\ deposit \in Outputs \cup {None}
    /\ {userKey, expired, keyOut, lapsed} \subseteq BOOLEAN
    /\ wire \subseteq {"Cancel", "RefundKey"}

\* Every step keeps the types of the server's side and of the requests.
LEMMA ServerTyped ==
  ASSUME Typed, Next
  PROVE  ServerTypeOK'
  <1> USE DEF Typed, TypeOK, ServerTypeOK, chainVars, serverVars, passVars, timeVars
  <1>1. CASE Begin
    BY <1>1 DEF Begin, Look
  <1>2. CASE Poll
    BY <1>2 DEF Poll
  <1>3. CASE ChainFails
    BY <1>3 DEF ChainFails
  <1>4. CASE Send
    BY <1>4, TakeIsTyped DEF Send
  <1>5. CASE SendFails
    <2>1. call.act \in {"Cancel", "RefundKey"}
      BY <1>5 DEF SendFails, InPass, Call
    <2> QED
      BY <1>5, <2>1, UnansweredIsTyped DEF SendFails
  <1>6. CASE Save
    BY <1>6 DEF Save
  <1>7. CASE SaveFails
    BY <1>7 DEF SaveFails
  <1>8. CASE NoRefund
    BY <1>8 DEF NoRefund, Done
  <1>9. CASE RefundOut
    BY <1>9 DEF RefundOut
  <1>10. CASE RefundFails
    BY <1>10 DEF RefundFails, Done
  <1>11. CASE Resave
    BY <1>11 DEF Resave, Done
  <1>12. CASE ResaveFails
    BY <1>12 DEF ResaveFails
  <1>13. CASE UserCancel
    BY <1>13, TakeIsTyped, UnansweredIsTyped DEF UserCancel, TakeCancel, ServerStatus
  <1>14. CASE Crash
    BY <1>14 DEF Crash
  <1>15. CASE LoseStore
    BY <1>15 DEF LoseStore
  <1>16. CASE Restore
    BY <1>16 DEF Restore
  <1>17. CASE Lapse
    BY <1>17 DEF Lapse
  <1>18. CASE Expire
    BY <1>18 DEF Expire
  <1>19. CASE PayInvoice
    BY <1>19 DEF PayInvoice, Exact, Known, ServerStatus
  <1>20. CASE Claim
    BY <1>20 DEF Claim, ServerStatus
  <1>21. CASE ServerTimeOut
    BY <1>21 DEF ServerTimeOut, ServerStatus
  <1>22. CASE LateRequest
    BY <1>22, TakeIsTyped DEF LateRequest
  <1>23. CASE \E o \in Outputs : Pay(o)
    BY <1>23 DEF Pay
  <1>24. CASE Mine
    BY <1>24 DEF Mine
  <1>25. CASE Reorg
    BY <1>25 DEF Reorg
  <1>26. CASE Evict
    BY <1>26 DEF Evict
  <1> QED
    BY <1>1, <1>2, <1>3, <1>4, <1>5, <1>6, <1>7, <1>8, <1>9, <1>10, <1>11, <1>12, <1>13,
       <1>14, <1>15, <1>16, <1>17, <1>18, <1>19, <1>20, <1>21, <1>22, <1>23, <1>24, <1>25,
       <1>26 DEF Next, Pass, App, Server, Chain

ChainTypeOK ==
    /\ confs \in [Outputs -> {Absent} \cup 0..Deepest]
    /\ spend \in [Outputs -> SpendSet]

\* Every step keeps confirmations within what is counted.
LEMMA ChainTyped ==
  ASSUME Typed, Next
  PROVE  ChainTypeOK'
  <1> USE DEF Typed, TypeOK, ChainTypeOK, chainVars, serverVars, passVars, timeVars
  <1>1. CASE Begin
    BY <1>1 DEF Begin, Look
  <1>2. CASE Poll
    BY <1>2 DEF Poll
  <1>3. CASE ChainFails
    BY <1>3 DEF ChainFails
  <1>4. CASE Send
    BY <1>4 DEF Send
  <1>5. CASE SendFails
    BY <1>5 DEF SendFails
  <1>6. CASE Save
    BY <1>6 DEF Save
  <1>7. CASE SaveFails
    BY <1>7 DEF SaveFails
  <1>8. CASE NoRefund
    BY <1>8 DEF NoRefund, Done
  <1>9. CASE RefundOut
    <2>1. PICK refund \in Refunds : Enter(refund.takes, refund.path) /\ UNCHANGED confs
      BY <1>9 DEF RefundOut
    <2> QED
      BY <2>1, RefundsAreTyped, EnterIsTyped
  <1>10. CASE RefundFails
    <2>1. PICK refund \in Refunds :
            UNCHANGED chainVars \/ (Enter(refund.takes, refund.path) /\ UNCHANGED confs)
      BY <1>10 DEF RefundFails
    <2> QED
      BY <2>1, RefundsAreTyped, EnterIsTyped
  <1>11. CASE Resave
    BY <1>11 DEF Resave, Done
  <1>12. CASE ResaveFails
    BY <1>12 DEF ResaveFails
  <1>13. CASE UserCancel
    BY <1>13 DEF UserCancel
  <1>14. CASE Crash
    BY <1>14 DEF Crash
  <1>15. CASE LoseStore
    BY <1>15 DEF LoseStore
  <1>16. CASE Restore
    BY <1>16 DEF Restore
  <1>17. CASE Lapse
    BY <1>17 DEF Lapse
  <1>18. CASE Expire
    BY <1>18 DEF Expire
  <1>19. CASE PayInvoice
    BY <1>19 DEF PayInvoice
  <1>20. CASE Claim
    <2>1. {deposit} \in SUBSET Outputs
      BY <1>20 DEF Claim, Paid
    <2> QED
      BY <1>20, <2>1, EnterIsTyped DEF Claim
  <1>21. CASE ServerTimeOut
    BY <1>21 DEF ServerTimeOut
  <1>22. CASE LateRequest
    BY <1>22 DEF LateRequest
  <1>23. CASE \E o \in Outputs : Pay(o)
    BY <1>23, DeepIsNat DEF Pay
  <1>24. CASE Mine
    <2>1. confs' \in [Outputs -> {Absent} \cup 0..Deepest]
      BY <1>24, DeeperInDepth DEF Mine
    <2>2. \A s \in SpendSet :
            s # NoSpend /\ ~(s.confs >= Deep) => [s EXCEPT !.confs = @ + 1] \in SpendSet
      BY DeepIsNat DEF SpendSet, NoSpend
    <2>3. ASSUME NEW o \in Outputs PROVE spend'[o] \in SpendSet
      <3> DEFINE s == spend[o]
      <3>1. s \in SpendSet
        OBVIOUS
      <3>2. spend'[o] = IF s = NoSpend \/ (s.confs = 0 /\ ~Mature(s)) \/ s.confs >= Deep
                        THEN s ELSE [s EXCEPT !.confs = @ + 1]
        BY <1>24 DEF Mine
      <3> HIDE DEF s
      <3> QED
        BY <3>1, <3>2, <2>2
    <2>4. spend' = [o \in Outputs |-> spend'[o]]
      BY <1>24 DEF Mine
    <2> QED
      BY <2>1, <2>3, <2>4
  <1>25. CASE Reorg
    <2>1. \A s \in SpendSet : s.confs > 0 => [s EXCEPT !.confs = @ - 1] \in SpendSet
      BY DeepIsNat DEF SpendSet, NoSpend
    <2> QED
      BY <1>25, <2>1, DeepIsNat DEF Reorg, Absent
  <1>26. CASE Evict
    <2>1. spend' \in [Outputs -> SpendSet]
      BY <1>26 DEF Evict, SpendSet
    <2> QED
      BY <1>26, <2>1 DEF Evict
  <1> QED
    BY <1>1, <1>2, <1>3, <1>4, <1>5, <1>6, <1>7, <1>8, <1>9, <1>10, <1>11, <1>12, <1>13,
       <1>14, <1>15, <1>16, <1>17, <1>18, <1>19, <1>20, <1>21, <1>22, <1>23, <1>24, <1>25,
       <1>26 DEF Next, Pass, App, Server, Chain

PassTypeOK ==
    /\ store \in Record \cup {NoRecord}
    /\ mem \in Record \cup {NoRecord}
    /\ pc \in Pc /\ view \in View /\ call \in Call

\* The view a pass begins with is one.
LEMMA LookIsTyped ==
  ASSUME TypeOK, NEW given \in BOOLEAN, NEW threshold \in Thresholds,
         NEW missed \in SUBSET Outputs, NEW failed \in SUBSET missed,
         Look(given, threshold, missed, failed)
  PROVE  /\ view' \in View
         /\ view'.confs = confs
         /\ \A o \in Outputs : view'.spend[o] \in {spend[o], NoSpend}
  <1>1. PICK blind : view' =
            [confs |-> confs, threshold |-> threshold,
             spend |-> [o \in Outputs |-> IF o \in blind THEN NoSpend ELSE spend[o]]]
    BY DEF Look
  <1>2. [o \in Outputs |-> IF o \in blind THEN NoSpend ELSE spend[o]] \in [Outputs -> SpendSet]
    BY DEF TypeOK, SpendSet
  <1> QED
    BY <1>1, <1>2 DEF View, TypeOK

\* What ends a pass leaves nothing of it.
LEMMA StopIsTyped ==
  ASSUME Stop
  PROVE  /\ mem' = NoRecord /\ pc' = "idle" /\ pc' \in Pc
         /\ view' \in View /\ call' \in Call
         /\ \A o \in Outputs : view'.spend[o] = NoSpend
  BY DEF Stop, Pc, View, NoView, SpendSet, Call, NoCall, Absent

\* What is saved at the end of a pass is a record.
LEMMA SettledIsRecord ==
  ASSUME mem \in Record
  PROVE  /\ Settled \in Record
         /\ Settled.status = mem.status /\ Settled.key = mem.key
         /\ Settled.preimage = mem.preimage /\ Settled.sentKey = mem.sentKey
  BY FundsAreStates DEF Settled, Record

\* Every step keeps the records, the view and the call of a pass what they are.
LEMMA PassTyped ==
  ASSUME Typed, Next
  PROVE  PassTypeOK' /\ InPass'
  <1> USE DEF Typed, TypeOK, PassTypeOK, InPass, chainVars, serverVars, passVars, timeVars, Pc
  <1>1. CASE Begin
    <2>1. PICK given \in BOOLEAN, threshold \in Thresholds, missed \in SUBSET Outputs :
            \E failed \in SUBSET missed : Look(given, threshold, missed, failed)
      BY <1>1 DEF Begin
    <2>2. view' \in View
      BY <2>1, LookIsTyped
    <2> QED
      BY <2>1, <2>2 DEF Look, Call, NoCall
  <1>2. CASE Poll
    <2>1. PICK answered \in BOOLEAN, shows \in BOOLEAN :
            LET proved == Proved(mem, view, answered, shows)
                status == Decide(proved, view)
            IN  /\ mem' = [proved EXCEPT !.status = status]
                /\ call' = [call EXCEPT !.act = Request(proved, status)]
                /\ pc' = IF call'.act = "none" THEN "save" ELSE "send"
      BY <1>2 DEF Poll
    <2> DEFINE proved == Proved(mem, view, answered, shows)
               status == Decide(proved, view)
    <2>2. proved \in Record
      BY <1>2, ProvedIsRecord DEF Poll
    <2>3. status \in Status
      BY DecideIsStatus DEF Status, Final, Canceled
    <2>4. Request(proved, status) \in {"none", "Cancel", "RefundKey"}
      BY RequestIsAct
    <2>5. /\ mem' = [proved EXCEPT !.status = status]
          /\ call' = [call EXCEPT !.act = Request(proved, status)]
          /\ pc' = IF call'.act = "none" THEN "save" ELSE "send"
      BY <2>1
    <2> HIDE DEF proved, status
    <2>6. mem' \in Record
      BY <2>2, <2>3, <2>5 DEF Record
    <2>7. call' \in Call
      BY <2>4, <2>5 DEF Call
    <2> QED
      BY <1>2, <2>5, <2>6, <2>7 DEF Poll
  <1>3. CASE ChainFails
    BY <1>3, StopIsTyped DEF ChainFails
  <1>4. CASE Send
    <2>1. mem' \in Record
      BY <1>4 DEF Send, Record
    <2> QED
      BY <1>4, <2>1 DEF Send
  <1>5. CASE SendFails
    <2>1. call' \in Call
      BY <1>5 DEF SendFails, Call
    <2> QED
      BY <1>5, <2>1 DEF SendFails
  <1>6. CASE Save
    BY <1>6, SettledIsRecord DEF Save
  <1>7. CASE SaveFails
    <2>1. call' \in Call
      BY <1>7 DEF SaveFails, Call
    <2> QED
      BY <1>7, <2>1, SettledIsRecord DEF SaveFails
  <1>8. CASE NoRefund
    BY <1>8, StopIsTyped DEF NoRefund
  <1>9. CASE RefundOut
    <2>1. PICK refund \in Refunds :
            mem' = [mem EXCEPT
                !.address = @ \/ ~call.given,
                !.funds = [o \in Outputs |->
                    IF o \in refund.takes /\ @[o] # "none" THEN "Refunding" ELSE @[o]]]
      BY <1>9 DEF RefundOut
    <2>2. [o \in Outputs |-> IF o \in refund.takes /\ mem.funds[o] # "none"
                             THEN "Refunding" ELSE mem.funds[o]] \in [Outputs -> FundState]
      BY <1>9 DEF RefundOut, Record, FundState
    <2>3. mem' \in Record
      BY <1>9, <2>1, <2>2 DEF RefundOut, Record, Call
    <2> QED
      BY <1>9, <2>3 DEF RefundOut
  <1>10. CASE RefundFails
    BY <1>10, StopIsTyped DEF RefundFails
  <1>11. CASE Resave
    BY <1>11, StopIsTyped DEF Resave
  <1>12. CASE ResaveFails
    BY <1>12, StopIsTyped DEF ResaveFails
  <1>13. CASE UserCancel
    <2>1. [store EXCEPT !.sentCancel = TRUE] \in Record
      BY <1>13 DEF UserCancel, Record
    <2> QED
      BY <1>13, <2>1 DEF UserCancel
  <1>14. CASE Crash
    BY <1>14, StopIsTyped DEF Crash
  <1>15. CASE LoseStore
    BY <1>15, StopIsTyped DEF LoseStore
  <1>16. CASE Restore
    BY <1>16, RestoreLeaves DEF Restore
  <1>17. CASE Lapse
    BY <1>17 DEF Lapse
  <1>18. CASE Expire
    BY <1>18 DEF Expire
  <1>19. CASE PayInvoice
    BY <1>19 DEF PayInvoice
  <1>20. CASE Claim
    BY <1>20 DEF Claim
  <1>21. CASE ServerTimeOut
    BY <1>21 DEF ServerTimeOut
  <1>22. CASE LateRequest
    BY <1>22 DEF LateRequest
  <1>23. CASE \E o \in Outputs : Pay(o)
    BY <1>23 DEF Pay
  <1>24. CASE Mine
    BY <1>24 DEF Mine
  <1>25. CASE Reorg
    BY <1>25 DEF Reorg
  <1>26. CASE Evict
    BY <1>26 DEF Evict
  <1> QED
    BY <1>1, <1>2, <1>3, <1>4, <1>5, <1>6, <1>7, <1>8, <1>9, <1>10, <1>11, <1>12, <1>13,
       <1>14, <1>15, <1>16, <1>17, <1>18, <1>19, <1>20, <1>21, <1>22, <1>23, <1>24, <1>25,
       <1>26 DEF Next, Pass, App, Server, Chain

CountsTypeOK ==
    /\ unseen \subseteq Outputs
    /\ pace \in 0..MaxPace
    /\ faults \in Counts

\* Every step counts within its bounds.
LEMMA CountsTyped ==
  ASSUME Typed, Next
  PROVE  CountsTypeOK'
  <1> USE DEF Typed, TypeOK, CountsTypeOK, chainVars, serverVars, passVars, timeVars
  <1>0. MaxPace \in Nat
    BY Settings
  <1>1. CASE Begin
    <2>1. PICK given \in BOOLEAN, threshold \in Thresholds, missed \in SUBSET Outputs :
            \E failed \in SUBSET missed : Look(given, threshold, missed, failed)
      BY <1>1 DEF Begin
    <2>2. Cardinality(missed) \in Nat
      BY SubsetCounts
    <2> QED
      BY <2>1, <2>2, FaultCounts DEF Look
  <1>2. CASE Poll
    BY <1>2 DEF Poll
  <1>3. CASE ChainFails
    BY <1>3 DEF ChainFails
  <1>4. CASE Send
    BY <1>4 DEF Send
  <1>5. CASE SendFails
    BY <1>5 DEF SendFails
  <1>6. CASE Save
    BY <1>6 DEF Save
  <1>7. CASE SaveFails
    BY <1>7, FaultCounts DEF SaveFails
  <1>8. CASE NoRefund
    BY <1>0, <1>8 DEF NoRefund, Done
  <1>9. CASE RefundOut
    BY <1>9 DEF RefundOut
  <1>10. CASE RefundFails
    BY <1>0, <1>10 DEF RefundFails, Done
  <1>11. CASE Resave
    BY <1>0, <1>11 DEF Resave, Done
  <1>12. CASE ResaveFails
    BY <1>12, FaultCounts DEF ResaveFails
  <1>13. CASE UserCancel
    BY <1>13 DEF UserCancel
  <1>14. CASE Crash
    BY <1>14 DEF Crash
  <1>15. CASE LoseStore
    BY <1>15, FaultCounts DEF LoseStore
  <1>16. CASE Restore
    BY <1>16 DEF Restore
  <1>17. CASE Lapse
    BY <1>17 DEF Lapse
  <1>18. CASE Expire
    BY <1>18 DEF Expire
  <1>19. CASE PayInvoice
    BY <1>19 DEF PayInvoice
  <1>20. CASE Claim
    BY <1>20 DEF Claim
  <1>21. CASE ServerTimeOut
    BY <1>21 DEF ServerTimeOut
  <1>22. CASE LateRequest
    BY <1>22 DEF LateRequest
  <1>23. CASE \E o \in Outputs : Pay(o)
    BY <1>23 DEF Pay
  <1>24. CASE Mine
    BY <1>0, <1>24 DEF Mine
  <1>25. CASE Reorg
    BY <1>25, FaultCounts DEF Reorg
  <1>26. CASE Evict
    BY <1>26, FaultCounts DEF Evict
  <1> QED
    BY <1>1, <1>2, <1>3, <1>4, <1>5, <1>6, <1>7, <1>8, <1>9, <1>10, <1>11, <1>12, <1>13,
       <1>14, <1>15, <1>16, <1>17, <1>18, <1>19, <1>20, <1>21, <1>22, <1>23, <1>24, <1>25,
       <1>26 DEF Next, Pass, App, Server, Chain

LEMMA TypedInit == Init => Typed
  <1>1. NoSpend \in SpendSet /\ Absent \in {Absent} \cup 0..Deepest
    BY DEF SpendSet
  <1>2. NoView \in View
    BY <1>1 DEF NoView, View
  <1>3. 0 \in 0..MaxFaults /\ 0 \in 0..MaxPace
    BY Settings
  <1>4. Init => PassTypeOK /\ InPass
    BY <1>2, AcceptedIsRecord DEF Init, PassTypeOK, InPass, Pc, Call, NoCall
  <1>5. Init => CountsTypeOK
    BY <1>3 DEF Init, CountsTypeOK, Counts
  <1>6. Init => ServerTypeOK /\ ChainTypeOK
    BY <1>1 DEF Init, ServerTypeOK, ChainTypeOK, ServerStatus
  <1> QED
    BY <1>4, <1>5, <1>6
    DEF Typed, TypeOK, ServerTypeOK, ChainTypeOK, PassTypeOK, CountsTypeOK

LEMMA TypedStep == Typed /\ [Next]_vars => Typed'
  <1>1. CASE Next
    BY <1>1, ServerTyped, ChainTyped, PassTyped, CountsTyped
    DEF Typed, TypeOK, ServerTypeOK, ChainTypeOK, PassTypeOK, CountsTypeOK
  <1>2. CASE UNCHANGED vars
    BY <1>2 DEF Typed, TypeOK, InPass, vars, chainVars, serverVars, passVars, timeVars
  <1> QED
    BY <1>1, <1>2

LEMMA AlwaysTyped == Spec => []Typed
  BY TypedInit, TypedStep, PTL DEF Spec

\* Every variable keeps its type, whatever the deposits, the settings and the
\* number of faults.
THEOREM TypesHold == Spec => []TypeOK
  <1>1. Typed => TypeOK
    BY DEF Typed
  <1> QED
    BY <1>1, AlwaysTyped, PTL

-----------------------------------------------------------------------------
(* The refund key leaves only for a paid invoice.                          *)

\* What is paid stays paid.
LEMMA PaidStays ==
  ASSUME Next
  PROVE  /\ Paid => Paid'
         /\ ~PayInvoice => deposit' = deposit
  <1> USE DEF chainVars, serverVars, passVars, timeVars
  <1>1. CASE Begin \/ Poll \/ ChainFails \/ Send \/ SendFails \/ Save \/ SaveFails
    BY <1>1 DEF Begin, Look, Poll, ChainFails, Send, SendFails, Save, SaveFails, Paid
  <1>2. CASE NoRefund \/ RefundOut \/ RefundFails \/ Resave \/ ResaveFails
    BY <1>2 DEF NoRefund, RefundOut, RefundFails, Resave, ResaveFails, Paid
  <1>3. CASE App
    BY <1>3 DEF App, UserCancel, Crash, LoseStore, Restore, Lapse, Expire, Paid
  <1>4. CASE PayInvoice
    BY <1>4, Deposits DEF PayInvoice, Exact, Known, Paid, None
  <1>5. CASE Claim \/ ServerTimeOut \/ LateRequest
    BY <1>5 DEF Claim, ServerTimeOut, LateRequest, Paid
  <1>6. CASE Chain
    BY <1>6 DEF Chain, Pay, Mine, Reorg, Evict, Paid
  <1> QED
    BY <1>1, <1>2, <1>3, <1>4, <1>5, <1>6 DEF Next, Pass, Server

\* A decision that sends the key rests on a preimage.
LEMMA KeyForPreimage ==
  ASSUME NEW r, NEW v, Request(r, Decide(r, v)) = "RefundKey"
  PROVE  r.preimage /\ ~r.key
  BY DEF Request, Decide

\* A step that does not look leaves what a pass saw, or ends the pass.
LEMMA ViewMoves ==
  ASSUME Typed, Next, ~Begin
  PROVE  \/ UNCHANGED view
         \/ pc' = "idle" /\ \A o \in Outputs : view'.spend[o] = NoSpend
  <1> USE DEF chainVars, serverVars, passVars, timeVars
  <1>1. CASE Poll \/ Send \/ SendFails \/ Save \/ SaveFails \/ RefundOut
    BY <1>1 DEF Poll, Send, SendFails, Save, SaveFails, RefundOut
  <1>2. CASE ChainFails \/ NoRefund \/ RefundFails \/ Resave \/ ResaveFails \/ Crash \/ LoseStore
    BY <1>2, StopIsTyped
    DEF ChainFails, NoRefund, RefundFails, Resave, ResaveFails, Crash, LoseStore
  <1>3. CASE UserCancel \/ Restore \/ Lapse \/ Expire
    BY <1>3 DEF UserCancel, Restore, Lapse, Expire
  <1>4. CASE Server
    BY <1>4 DEF Server, PayInvoice, Claim, ServerTimeOut, LateRequest
  <1>5. CASE Chain
    BY <1>5 DEF Chain, Pay, Mine, Reorg, Evict
  <1> QED
    BY <1>1, <1>2, <1>3, <1>4, <1>5 DEF Next, Pass, App

\* Only a look begins a pass.
LEMMA PassMoves ==
  ASSUME Typed, Next, ~Begin, pc' # "idle"
  PROVE  pc # "idle" /\ view' = view
  <1> USE DEF chainVars, serverVars, passVars, timeVars
  <1>1. CASE Poll \/ Send \/ SendFails \/ Save \/ SaveFails \/ RefundOut
    BY <1>1 DEF Poll, Send, SendFails, Save, SaveFails, RefundOut
  <1>2. CASE ChainFails \/ NoRefund \/ RefundFails \/ Resave \/ ResaveFails \/ Crash \/ LoseStore
    BY <1>2 DEF ChainFails, NoRefund, RefundFails, Resave, ResaveFails, Crash, LoseStore, Stop
  <1>3. CASE UserCancel \/ Restore \/ Lapse \/ Expire
    BY <1>3 DEF UserCancel, Restore, Lapse, Expire
  <1>4. CASE Server
    BY <1>4 DEF Server, PayInvoice, Claim, ServerTimeOut, LateRequest
  <1>5. CASE Chain
    BY <1>5 DEF Chain, Pay, Mine, Reorg, Evict
  <1> QED
    BY <1>1, <1>2, <1>3, <1>4, <1>5 DEF Next, Pass, App

\* A spend by the preimage is put out only for a paid invoice.
LEMMA SpendsAreEvidence ==
  ASSUME Typed, Evidence, Next, NEW o \in Outputs
  PROVE  spend'[o].path = "Preimage" => Paid'
  <1> USE DEF Typed, TypeOK, chainVars, serverVars, passVars, timeVars
  <1>0. (spend'[o].path \in {spend[o].path, "none", "Csv", "Keypath"} \/ Paid)
        => (spend'[o].path = "Preimage" => Paid')
    BY PaidStays DEF Evidence
  <1>1. CASE Begin \/ Poll \/ ChainFails \/ Send \/ SendFails \/ Save \/ SaveFails
    BY <1>0, <1>1 DEF Begin, Look, Poll, ChainFails, Send, SendFails, Save, SaveFails
  <1>2. CASE NoRefund \/ Resave \/ ResaveFails
    BY <1>0, <1>2 DEF NoRefund, Resave, ResaveFails
  <1>3. CASE RefundOut \/ RefundFails
    <2>1. PICK refund \in Refunds : UNCHANGED spend \/ Enter(refund.takes, refund.path)
      BY <1>3 DEF RefundOut, RefundFails
    <2> QED
      BY <1>0, <2>1, RefundsAreTyped, EnterIsTyped
  <1>4. CASE App
    BY <1>0, <1>4 DEF App, UserCancel, Crash, LoseStore, Restore, Lapse, Expire
  <1>5. CASE PayInvoice \/ ServerTimeOut \/ LateRequest
    BY <1>0, <1>5 DEF PayInvoice, ServerTimeOut, LateRequest
  <1>6. CASE Claim
    BY <1>0, <1>6 DEF Claim
  <1>7. CASE Chain
    <2>1. \A s \in SpendSet : /\ [s EXCEPT !.confs = @ + 1].path = s.path
                              /\ [s EXCEPT !.confs = @ - 1].path = s.path
      BY DEF SpendSet, NoSpend
    <2>2. \/ spend'[o] \in {spend[o], NoSpend}
          \/ spend'[o] = [spend[o] EXCEPT !.confs = @ + 1]
          \/ spend'[o] = [spend[o] EXCEPT !.confs = @ - 1]
      BY <1>7 DEF Chain, Pay, Mine, Reorg, Evict
    <2>3. spend[o] \in SpendSet
      OBVIOUS
    <2>4. spend'[o].path \in {spend[o].path, "none"}
      <3>1. CASE spend'[o] \in {spend[o], NoSpend}
        BY <3>1 DEF NoSpend
      <3>2. CASE spend'[o] = [spend[o] EXCEPT !.confs = @ + 1]
        BY <3>2, <2>1, <2>3
      <3>3. CASE spend'[o] = [spend[o] EXCEPT !.confs = @ - 1]
        BY <3>3, <2>1, <2>3
      <3> QED
        BY <2>2, <3>1, <3>2, <3>3
    <2> QED
      BY <1>0, <2>4
  <1> QED
    BY <1>1, <1>2, <1>3, <1>4, <1>5, <1>6, <1>7 DEF Next, Pass, Server

\* A pass sees no other spends than the chain holds.
LEMMA ViewIsEvidence ==
  ASSUME Typed, Evidence, Next, NEW o \in Outputs
  PROVE  view'.spend[o].path = "Preimage" => Paid'
  <1>1. CASE Begin
    <2>1. view'.spend[o] \in {spend[o], NoSpend}
      BY <1>1, LookIsTyped DEF Begin, Typed
    <2> QED
      BY <2>1, PaidStays DEF Evidence, NoSpend
  <1>2. CASE ~Begin
    BY <1>2, ViewMoves, PaidStays DEF Evidence, NoSpend
  <1> QED
    BY <1>1, <1>2

\* A record holds a preimage only of a paid invoice, and the key is asked for
\* with one.
LEMMA RecordsAreHonest ==
  ASSUME Typed, Evidence, Next
  PROVE  /\ Honest(store)' /\ Honest(mem)'
         /\ (pc = "send" /\ call.act = "RefundKey" => mem.preimage)'
  <1> USE DEF Typed, TypeOK, InPass, chainVars, serverVars, passVars, timeVars
  <1>0. /\ Paid => Paid'
        /\ Honest(store) /\ Honest(mem)
    BY PaidStays DEF Evidence
  <1>1. NoRecord \notin Record
    BY DEF NoRecord, Record, Status, Final, Canceled
  <1>2. CASE Begin
    BY <1>0, <1>2 DEF Begin, Look, Honest
  <1>3. CASE Poll
    <2>1. PICK answered \in BOOLEAN, shows \in BOOLEAN :
            LET proved == Proved(mem, view, answered, shows)
                status == Decide(proved, view)
            IN  /\ mem' = [proved EXCEPT !.status = status]
                /\ call' = [call EXCEPT !.act = Request(proved, status)]
      BY <1>3 DEF Poll
    <2> DEFINE proved == Proved(mem, view, answered, shows)
               status == Decide(proved, view)
    <2>2. proved \in Record /\ (proved.preimage => Paid)
      BY <1>0, <1>3, ProvedIsRecord DEF Poll, Evidence, Honest
    <2>3. Request(proved, status) = "RefundKey" => proved.preimage
      BY KeyForPreimage
    <2>4. mem' = [proved EXCEPT !.status = status] /\ call'.act = Request(proved, status)
      BY <2>1 DEF Call
    <2> HIDE DEF proved, status
    <2>5. mem'.preimage = proved.preimage
      BY <2>2, <2>4 DEF Record
    <2> QED
      BY <1>0, <1>3, <2>2, <2>3, <2>4, <2>5 DEF Poll, Honest
  <1>4. CASE Send
    <2>1. mem \in Record /\ mem' = [mem EXCEPT !.sentCancel = @ \/ call.act = "Cancel",
                                              !.sentKey = @ \/ call.act = "RefundKey"]
      BY <1>4 DEF Send
    <2>2. mem'.preimage = mem.preimage
      BY <2>1 DEF Record
    <2> QED
      BY <1>0, <1>4, <2>1, <2>2 DEF Send, Honest
  <1>5. CASE Save \/ SaveFails
    <2>1. Settled \in Record /\ Settled.preimage = mem.preimage /\ mem \in Record
      BY <1>5, SettledIsRecord DEF Save, SaveFails
    <2> QED
      BY <1>0, <1>5, <2>1 DEF Save, SaveFails, Honest
  <1>6. CASE RefundOut
    <2>1. mem \in Record /\ mem'.preimage = mem.preimage
      BY <1>6 DEF RefundOut, Record
    <2> QED
      BY <1>0, <1>6, <2>1 DEF RefundOut, Honest
  <1>7. CASE ChainFails \/ NoRefund \/ RefundFails \/ Resave \/ ResaveFails \/ Crash \/ LoseStore
    <2>1. mem' = NoRecord /\ pc' = "idle" /\ store' \in {store, mem, NoRecord}
      BY <1>7
      DEF ChainFails, NoRefund, RefundFails, Resave, ResaveFails, Crash, LoseStore, Stop
    <2> QED
      BY <1>0, <1>1, <2>1 DEF Honest
  <1>8. CASE UserCancel
    <2>1. store \in Record /\ store'.preimage = store.preimage
      BY <1>8 DEF UserCancel, Record
    <2> QED
      BY <1>0, <1>8, <2>1 DEF UserCancel, Honest
  <1>9. CASE Restore
    BY <1>0, <1>9, RestoreLeaves DEF Restore, Honest, Evidence
  <1>10. CASE SendFails \/ Lapse \/ Expire
    BY <1>0, <1>10 DEF SendFails, Lapse, Expire, Honest, Evidence
  <1>11. CASE Server
    <2>1. UNCHANGED <<store, mem, pc, call>>
      BY <1>11 DEF Server, PayInvoice, Claim, ServerTimeOut, LateRequest
    <2> QED
      BY <1>0, <2>1 DEF Honest, Evidence
  <1>12. CASE Chain
    <2>1. UNCHANGED <<store, mem, pc, call>>
      BY <1>12 DEF Chain, Pay, Mine, Reorg, Evict
    <2> QED
      BY <1>0, <2>1 DEF Honest, Evidence
  <1> QED
    BY <1>2, <1>3, <1>4, <1>5, <1>6, <1>7, <1>8, <1>9, <1>10, <1>11, <1>12
    DEF Next, Pass, App

\* The key leaves with a request made for a preimage.
LEMMA KeyIsEvidence ==
  ASSUME Typed, Evidence, Next
  PROVE  KeyOnlyForPaid'
  <1> USE DEF KeyOnlyForPaid, chainVars, serverVars, passVars, timeVars
  <1>0. /\ Paid => Paid'
        /\ keyOut => Paid
    BY PaidStays DEF Evidence
  <1>1. CASE Send \/ SendFails
    BY <1>0, <1>1 DEF Send, SendFails, Evidence, Honest, Typed, InPass
  <1>2. CASE Begin \/ Poll \/ ChainFails \/ Save \/ SaveFails
    BY <1>0, <1>2 DEF Begin, Look, Poll, ChainFails, Save, SaveFails
  <1>3. CASE NoRefund \/ RefundOut \/ RefundFails \/ Resave \/ ResaveFails
    BY <1>0, <1>3 DEF NoRefund, RefundOut, RefundFails, Resave, ResaveFails
  <1>4. CASE App
    BY <1>0, <1>4 DEF App, UserCancel, Crash, LoseStore, Restore, Lapse, Expire
  <1>5. CASE Server
    BY <1>0, <1>5 DEF Server, PayInvoice, Claim, ServerTimeOut, LateRequest
  <1>6. CASE Chain
    BY <1>0, <1>6 DEF Chain, Pay, Mine, Reorg, Evict
  <1> QED
    BY <1>1, <1>2, <1>3, <1>4, <1>5, <1>6 DEF Next, Pass

LEMMA EvidenceInit == Init => Evidence
  BY DEF Init, Evidence, Honest, KeyOnlyForPaid, NoSpend, NoView, NoCall, NoRecord, Accepted,
         Record, Status, Final, Canceled

LEMMA EvidenceStep == Typed /\ Evidence /\ [Next]_vars => Evidence'
  <1>1. CASE UNCHANGED vars
    BY <1>1 DEF Evidence, Honest, KeyOnlyForPaid, Paid, vars, chainVars, serverVars, passVars,
                timeVars
  <1>2. ASSUME Typed, Evidence, Next
        PROVE  Evidence'
    <2>1. /\ (\A o \in Outputs : spend[o].path = "Preimage" => Paid)'
          /\ (\A o \in Outputs : view.spend[o].path = "Preimage" => Paid)'
      BY <1>2, SpendsAreEvidence, ViewIsEvidence
    <2> QED
      BY <1>2, <2>1, RecordsAreHonest, KeyIsEvidence DEF Evidence
  <1> QED
    BY <1>1, <1>2

LEMMA AlwaysEvidence == Spec => [](Typed /\ Evidence)
  BY TypedInit, TypedStep, EvidenceInit, EvidenceStep, PTL DEF Spec

\* The refund key leaves this process only once the server paid the invoice,
\* however its answers, the chain's and the saves fail.
THEOREM KeyStaysHome == Spec => []KeyOnlyForPaid
  <1>1. Evidence => KeyOnlyForPaid
    BY DEF Evidence
  <1> QED
    BY <1>1, AlwaysEvidence, PTL

-----------------------------------------------------------------------------
(* What ended stays ended.                                                 *)

LEMMA SmallestNat ==
  ASSUME NEW S \in SUBSET Nat, S # {}
  PROVE  \E n \in S : \A m \in S : n <= m
  <1> DEFINE R == {ss \in Nat \X Nat : ss[1] < ss[2]}
  <1>1. IsWellFoundedOn(R, Nat)
    BY NatLessThanWellFounded DEF OpToRel
  <1>2. \A n, m \in Nat : n < m => <<n, m>> \in R
    OBVIOUS
  <1> HIDE DEF R
  <1>3. PICK n \in S : \A m \in S : <<m, n>> \notin R
    BY <1>1, WFMin
  <1>4. ASSUME NEW m \in S PROVE n <= m
    <2>1. n \in Nat /\ m \in Nat /\ ~(m < n)
      BY <1>2, <1>3
    <2> QED
      BY <2>1
  <1> QED
    BY <1>4

\* The opening is the deepest of the outputs of the amount, if there is one.
LEMMA OpeningIs ==
  ASSUME NEW c \in [Outputs -> {Absent} \cup 0..Deepest]
  PROVE  /\ Exact(c) # {} => /\ Opening(c) \in Exact(c) /\ Opening(c) # None
                             /\ \A p \in Exact(c) : c[p] <= c[Opening(c)]
         /\ Exact(c) = {} => Opening(c) = None
  <1>1. /\ Exact(c) \subseteq Outputs /\ Outputs \subseteq Nat /\ Deepest \in Nat
        /\ \A o \in Exact(c) : c[o] \in 0..Deepest
    BY Deposits, DeepIsNat DEF Exact, Known, Absent
  <1>2. ASSUME Exact(c) # {}
        PROVE  \E o \in Exact(c) : \A p \in Exact(c) :
                  c[o] > c[p] \/ (c[o] = c[p] /\ o <= p)
    <2> DEFINE short == {Deepest - c[o] : o \in Exact(c)}
    <2>1. short \in SUBSET Nat /\ short # {}
      BY <1>1, <1>2
    <2>2. PICK n \in short : \A m \in short : n <= m
      BY <2>1, SmallestNat
    <2>3. PICK d \in Exact(c) : n = Deepest - c[d]
      BY <2>2
    <2>4. \A p \in Exact(c) : c[p] <= c[d]
      <3> TAKE p \in Exact(c)
      <3>1. n <= Deepest - c[p]
        BY <2>2
      <3> QED
        BY <1>1, <2>3, <3>1
    <2> DEFINE deepest == {o \in Exact(c) : c[o] = c[d]}
    <2>5. deepest \in SUBSET Nat /\ deepest # {}
      BY <1>1
    <2>6. PICK o \in deepest : \A p \in deepest : o <= p
      BY <2>5, SmallestNat
    <2>7. ASSUME NEW p \in Exact(c) PROVE c[o] > c[p] \/ (c[o] = c[p] /\ o <= p)
      <3>1. o \in Exact(c) /\ c[o] = c[d]
        BY <2>6
      <3>2. c[p] <= c[o] /\ c[p] \in Nat /\ c[o] \in Nat
        BY <1>1, <2>4, <3>1
      <3>3. c[p] = c[o] => o <= p
        BY <2>6, <3>1
      <3> QED
        BY <3>2, <3>3
    <2> QED
      BY <2>6, <2>7
  <1>3. ASSUME Exact(c) # {}
        PROVE  /\ Opening(c) \in Exact(c)
               /\ \A p \in Exact(c) : c[Opening(c)] > c[p]
                                      \/ (c[Opening(c)] = c[p] /\ Opening(c) <= p)
    BY <1>2, <1>3 DEF Opening
  <1>4. ASSUME Exact(c) # {}
        PROVE  Opening(c) # None /\ \A p \in Exact(c) : c[p] <= c[Opening(c)]
    <2>1. Opening(c) \in Nat
      BY <1>1, <1>3, <1>4
    <2>2. None \notin Nat
      BY DEF None
    <2>3. ASSUME NEW p \in Exact(c) PROVE c[p] <= c[Opening(c)]
      BY <1>1, <1>3, <1>4, <2>3
    <2> QED
      BY <2>1, <2>2, <2>3
  <1> QED
    BY <1>3, <1>4 DEF Opening

LEMMA RestsLater ==
  ASSUME NEW r, NEW c \in [Outputs -> {Absent} \cup 0..Deepest],
         NEW d \in [Outputs -> {Absent} \cup 0..Deepest], Earlier(c, d), Rests(r, c)
  PROVE  Rests(r, d)
  <1>1. \A o \in Exact(c) : o \in Exact(d) /\ c[o] <= d[o]
    BY DEF Earlier, Exact
  <1>2. ASSUME NEW o \in Exact(c), c[o] >= Csv PROVE o \in Exact(d) /\ d[o] >= Csv
    <2>1. c[o] \in Nat /\ d[o] \in Nat /\ Csv \in Nat
      BY <1>1, Settings, DeepIsNat DEF Exact, Known, Absent
    <2> QED
      BY <1>1, <1>2, <2>1
  <1> QED
    BY <1>1, <1>2 DEF Rests

\* A decision that finds what a final status rests on comes to it again, or
\* finds a swap given up for its CSV paid or canceled.
LEMMA DecideLasts ==
  ASSUME NEW r \in Record, NEW p \in Record, NEW v \in View, Rests(r, v.confs),
         r.key => p.key, r.preimage => p.preimage, ~(p.key /\ p.preimage)
  PROVE  /\ StatusLasts(r, [p EXCEPT !.status = Decide(p, v)])
         /\ Rests([p EXCEPT !.status = Decide(p, v)], v.confs)
  <1> DEFINE status == Decide(p, v)
  <1>1. v.confs \in [Outputs -> {Absent} \cup 0..Deepest]
    BY DEF View
  <1>2. PICK q : q = [p EXCEPT !.status = status]
    OBVIOUS
  <1>3. q.status = status /\ q.key = p.key /\ q.preimage = p.preimage
    <2> HIDE DEF status
    <2> QED
      BY <1>2 DEF Record
  <1>4. /\ status = "ServerCanceled" => p.key
        /\ status = "Completed" => p.preimage /\ Opening(v.confs) # None
        /\ status = "CsvMatured" => /\ Opening(v.confs) # None
                                    /\ v.confs[Opening(v.confs)] >= Csv
    BY DEF Decide
  <1>5. /\ status = "Completed" => Exact(v.confs) # {}
        /\ status = "CsvMatured" => \E o \in Exact(v.confs) : v.confs[o] >= Csv
    BY <1>1, <1>4, OpeningIs
  <1>6. ASSUME r.status = "ServerCanceled" PROVE status = r.status
    BY <1>6 DEF Rests, Decide
  <1>7. ASSUME r.status = "Completed" PROVE status = r.status
    <2>1. p.preimage /\ ~p.key /\ Opening(v.confs) # None
      BY <1>1, <1>7, OpeningIs DEF Rests
    <2> QED
      BY <2>1, <1>7 DEF Decide
  <1>8. ASSUME r.status = "CsvMatured" PROVE status \in Final
    <2>1. PICK o \in Exact(v.confs) : v.confs[o] >= Csv
      BY <1>8 DEF Rests
    <2>2. /\ Opening(v.confs) # None
          /\ Opening(v.confs) \in Exact(v.confs)
          /\ v.confs[o] <= v.confs[Opening(v.confs)]
      BY <1>1, <2>1, OpeningIs
    <2>3. \A e \in Exact(v.confs) : v.confs[e] \in Nat
      BY <1>1, DeepIsNat DEF Exact, Known, Absent
    <2>4. v.confs[Opening(v.confs)] >= Csv
      BY <2>1, <2>2, <2>3, Settings
    <2> QED
      BY <2>2, <2>4 DEF Decide, Final, Canceled
  <1>9. StatusLasts(r, q)
    BY <1>3, <1>6, <1>7, <1>8 DEF StatusLasts, Final, Canceled
  <1>10. Rests(q, v.confs)
    BY <1>3, <1>4, <1>5 DEF Rests
  <1> QED
    BY <1>2, <1>9, <1>10

LEMMA FaultsAdd ==
  ASSUME Typed, NEW kind, NEW n \in Nat, Fault(kind, n), Calm'
  PROVE  Calm /\ (kind \in {"reorg", "eviction", "loss"} => n = 0)
  <1>1. kind \in {"reorg", "eviction", "miss", "fail", "loss"}
    BY Settings DEF Fault
  <1>2. MaxFaults \in Nat
    BY Settings
  <1> QED
    BY <1>1, <1>2 DEF Fault, Typed, TypeOK, Counts, Calm

\* The steps that count a fault.
LEMMA FaultsMove ==
  ASSUME Typed, Next
  PROVE  \/ UNCHANGED faults
         \/ \E kind, n : n \in Nat /\ Fault(kind, n)
  <1> USE DEF chainVars, serverVars, passVars, timeVars
  <1>1. CASE Begin
    <2>1. PICK given \in BOOLEAN, threshold \in Thresholds, missed \in SUBSET Outputs :
            \E failed \in SUBSET missed : Look(given, threshold, missed, failed)
      BY <1>1 DEF Begin
    <2>2. Cardinality(missed) \in Nat
      BY SubsetCounts
    <2> QED
      BY <2>1, <2>2 DEF Look
  <1>2. CASE SaveFails \/ ResaveFails \/ Reorg \/ Evict \/ LoseStore
    <2>1. 1 \in Nat
      OBVIOUS
    <2> QED
      BY <1>2, <2>1 DEF SaveFails, ResaveFails, Reorg, Evict, LoseStore
  <1>3. CASE Poll \/ ChainFails \/ Send \/ SendFails \/ Save
    BY <1>3 DEF Poll, ChainFails, Send, SendFails, Save
  <1>4. CASE NoRefund \/ RefundOut \/ RefundFails \/ Resave
    BY <1>4 DEF NoRefund, RefundOut, RefundFails, Resave
  <1>5. CASE UserCancel \/ Crash \/ Restore \/ Lapse \/ Expire
    BY <1>5 DEF UserCancel, Crash, Restore, Lapse, Expire
  <1>6. CASE Server
    BY <1>6 DEF Server, PayInvoice, Claim, ServerTimeOut, LateRequest
  <1>7. CASE (\E o \in Outputs : Pay(o)) \/ Mine
    BY <1>7 DEF Pay, Mine
  <1> QED
    BY <1>1, <1>2, <1>3, <1>4, <1>5, <1>6, <1>7 DEF Next, Pass, App, Chain

\* Nothing was undone before a step after which nothing was.
LEMMA CalmSteps ==
  ASSUME Typed, Next, Calm'
  PROVE  Calm /\ ~Reorg /\ ~Evict /\ ~LoseStore
  <1>1. Calm
    BY FaultsMove, FaultsAdd DEF Calm
  <1>2. ASSUME NEW kind \in {"reorg", "eviction", "loss"}, Fault(kind, 1) PROVE FALSE
    BY <1>2, FaultsAdd
  <1> QED
    BY <1>1, <1>2 DEF Reorg, Evict, LoseStore

\* The server keeps to what it answers once it paid, or canceled.
LEMMA ServerKeepsSide ==
  ASSUME Typed, ServerSide, Next
  PROVE  ServerSide' /\ (server = "Canceled" => server' = "Canceled")
  <1> USE DEF chainVars, serverVars, passVars, timeVars
  <1>1. ASSUME deposit' = deposit, NEW m, Take(m) \/ UNCHANGED server
        PROVE  ServerSide' /\ (server = "Canceled" => server' = "Canceled")
    BY <1>1 DEF Take, TakeKey, TakeCancel, ServerSide, Paid
  <1>2. CASE Begin \/ Poll \/ ChainFails \/ Save \/ SaveFails
    BY <1>1, <1>2 DEF Begin, Look, Poll, ChainFails, Save, SaveFails
  <1>3. CASE Send \/ SendFails
    BY <1>1, <1>3 DEF Send, SendFails, Unanswered
  <1>4. CASE NoRefund \/ RefundOut \/ RefundFails \/ Resave \/ ResaveFails
    BY <1>1, <1>4 DEF NoRefund, RefundOut, RefundFails, Resave, ResaveFails
  <1>5. CASE UserCancel
    BY <1>1, <1>5 DEF UserCancel, Unanswered, TakeCancel, ServerSide, Paid
  <1>6. CASE Crash \/ LoseStore \/ Restore \/ Lapse \/ Expire
    BY <1>1, <1>6 DEF Crash, LoseStore, Restore, Lapse, Expire
  <1>7. CASE PayInvoice
    <2>1. Paid'
      BY <1>7, Deposits DEF PayInvoice, Exact, Known, Paid, None
    <2> QED
      BY <1>7, <2>1 DEF PayInvoice, ServerSide
  <1>8. CASE Claim \/ ServerTimeOut
    BY <1>8 DEF Claim, ServerTimeOut, ServerSide, Paid
  <1>9. CASE LateRequest
    BY <1>1, <1>9 DEF LateRequest
  <1>10. CASE Chain
    BY <1>1, <1>10 DEF Chain, Pay, Mine, Reorg, Evict
  <1> QED
    BY <1>2, <1>3, <1>4, <1>5, <1>6, <1>7, <1>8, <1>9, <1>10 DEF Next, Pass, App, Server

\* Reorgs and evictions apart, the chain only goes on.
LEMMA ConfsGrow ==
  ASSUME Typed, Next, ~Reorg, ~Evict
  PROVE  Earlier(confs, confs')
  <1> USE DEF chainVars, serverVars, passVars, timeVars
  <1>0. \A o \in Known(confs) : o \in Outputs /\ confs[o] \in 0..Deepest /\ confs[o] # Absent
    BY DEF Known, Typed, TypeOK
  <1>1. ASSUME UNCHANGED confs PROVE Earlier(confs, confs')
    BY <1>0, <1>1, DeepIsNat DEF Earlier
  <1>2. CASE Begin \/ Poll \/ ChainFails \/ Send \/ SendFails \/ Save \/ SaveFails
    BY <1>1, <1>2 DEF Begin, Look, Poll, ChainFails, Send, SendFails, Save, SaveFails
  <1>3. CASE NoRefund \/ RefundOut \/ RefundFails \/ Resave \/ ResaveFails
    BY <1>1, <1>3 DEF NoRefund, RefundOut, RefundFails, Resave, ResaveFails
  <1>4. CASE App
    BY <1>1, <1>4 DEF App, UserCancel, Crash, LoseStore, Restore, Lapse, Expire
  <1>5. CASE Server
    BY <1>1, <1>5 DEF Server, PayInvoice, Claim, ServerTimeOut, LateRequest
  <1>6. CASE \E o \in Outputs : Pay(o)
    <2>1. PICK o \in Outputs : confs[o] = Absent /\ confs' = [confs EXCEPT ![o] = 0]
      BY <1>6 DEF Pay
    <2>2. \A q \in Known(confs) : q # o /\ confs'[q] = confs[q]
      BY <1>0, <2>1 DEF Typed, TypeOK
    <2> QED
      BY <1>0, <2>2, DeepIsNat DEF Earlier, Known
  <1>7. CASE Mine
    <2>1. \A o \in Known(confs) : confs'[o] = Deeper(o)
      BY <1>0, <1>7 DEF Mine
    <2>2. \A o \in Known(confs) : Deeper(o) \in 0..Deepest /\ Deeper(o) >= confs[o]
      BY <1>0, DeeperInDepth DEF Typed
    <2>3. \A o \in Known(confs) : confs'[o] # Absent /\ confs[o] <= confs'[o]
      BY <1>0, <2>1, <2>2, DeepIsNat DEF Absent
    <2> QED
      BY <1>0, <2>3 DEF Earlier, Known
  <1> QED
    BY <1>2, <1>3, <1>4, <1>5, <1>6, <1>7 DEF Next, Pass, Chain

\* Two records of the same status and with the same proofs.
Alike(r, q) == \/ r = q
               \/ /\ r \in Record /\ q \in Record
                  /\ r.status = q.status /\ r.key = q.key /\ r.preimage = q.preimage

\* A step that does not look, decide, restore or lose the store leaves the
\* status and the proofs of a record alone, or saves them.
LEMMA RecordsMove ==
  ASSUME Typed, Next, ~Begin, ~Poll, ~Restore, ~LoseStore
  PROVE  /\ Alike(store, store') \/ (pc # "idle" /\ Alike(mem, store'))
         /\ \/ mem' = NoRecord /\ pc' = "idle"
            \/ pc # "idle" /\ pc' \notin {"idle", "poll"} /\ Alike(mem, mem')
            \/ UNCHANGED <<mem, pc, view>> /\ Alike(store, store')
  <1> USE DEF Typed, TypeOK, InPass, chainVars, serverVars, passVars, timeVars
  <1>1. CASE ChainFails \/ NoRefund \/ RefundFails \/ Resave \/ ResaveFails \/ Crash
    BY <1>1 DEF ChainFails, NoRefund, RefundFails, Resave, ResaveFails, Crash, Stop, Alike
  <1>2. CASE Send
    <2>1. mem \in Record /\ mem' = [mem EXCEPT !.sentCancel = @ \/ call.act = "Cancel",
                                              !.sentKey = @ \/ call.act = "RefundKey"]
      BY <1>2 DEF Send
    <2>2. mem' \in Record /\ Alike(mem, mem')
      BY <2>1 DEF Record, Alike
    <2> QED
      BY <1>2, <2>2 DEF Send, Alike
  <1>3. CASE SendFails
    BY <1>3 DEF SendFails, Alike
  <1>4. CASE Save \/ SaveFails
    <2>1. mem \in Record /\ Alike(mem, Settled)
      BY <1>4, SettledIsRecord DEF Save, SaveFails, Alike
    <2> QED
      BY <1>4, <2>1 DEF Save, SaveFails, Alike
  <1>5. CASE RefundOut
    <2>1. mem \in Record /\ mem' \in Record
      BY <1>5, PassTyped DEF RefundOut
    <2>2. mem'.status = mem.status /\ mem'.key = mem.key /\ mem'.preimage = mem.preimage
      BY <1>5, <2>1 DEF RefundOut, Record
    <2> QED
      BY <1>5, <2>1, <2>2 DEF RefundOut, Alike
  <1>6. CASE UserCancel
    <2>1. store \in Record /\ [store EXCEPT !.sentCancel = TRUE] \in Record
      BY <1>6 DEF UserCancel, Record
    <2>2. store' \in {store, [store EXCEPT !.sentCancel = TRUE]}
      BY <1>6 DEF UserCancel
    <2>3. Alike(store, store')
      BY <2>1, <2>2 DEF Alike, Record
    <2> QED
      BY <1>6, <2>3 DEF UserCancel
  <1>7. CASE Lapse \/ Expire
    BY <1>7 DEF Lapse, Expire, Alike
  <1>8. CASE Server
    BY <1>8 DEF Server, PayInvoice, Claim, ServerTimeOut, LateRequest, Alike
  <1>9. CASE Chain
    BY <1>9 DEF Chain, Pay, Mine, Reorg, Evict, Alike
  <1> QED
    BY <1>1, <1>2, <1>3, <1>4, <1>5, <1>6, <1>7, <1>8, <1>9 DEF Next, Pass, App

\* Everything a final status rests on is still there after a step.
LEMMA LastingStays ==
  ASSUME Typed, Evidence, Lasting, Next
  PROVE  Lasting'
  <1> DEFINE Depths == [Outputs -> {Absent} \cup 0..Deepest]
  <1>1. ServerSide' /\ (server = "Canceled" => server' = "Canceled")
    BY ServerKeepsSide DEF Lasting
  <1>2. ASSUME Calm' PROVE Calm /\ Earlier(confs, confs') /\ ~LoseStore
    BY <1>2, CalmSteps, ConfsGrow
  <1>3. confs \in Depths /\ confs' \in Depths /\ view.confs \in Depths
    BY ChainTyped DEF Typed, TypeOK, ChainTypeOK, View
  <1>4. ASSUME NEW r, Rests(r, confs), Calm' PROVE Rests(r, confs')
    BY <1>2, <1>3, <1>4, RestsLater
  <1>5. \A r, q, c : Alike(r, q) /\ Rests(r, c) => Rests(q, c)
    BY DEF Alike, Rests
  <1>6. NoRecord \notin Record /\ \A c : Rests(NoRecord, c)
    BY DEF NoRecord, Record, Status, Final, Canceled, Rests
  <1>7. CASE Begin
    <2>1. PICK given \in BOOLEAN, threshold \in Thresholds, missed \in SUBSET Outputs :
            \E failed \in SUBSET missed : Look(given, threshold, missed, failed)
      BY <1>7 DEF Begin
    <2>2. /\ mem' = store /\ pc = "idle" /\ pc' = "poll" /\ view'.confs = confs
          /\ UNCHANGED <<store, confs, server>>
      BY <2>1 DEF Look, chainVars, serverVars
    <2>3. Earlier(confs, confs)
      BY <1>3, DeepIsNat DEF Earlier, Known, Absent
    <2>4. StatusLasts(store, store)
      BY DEF StatusLasts
    <2> QED
      BY <1>1, <1>2, <2>2, <2>3, <2>4 DEF Lasting, KeyOfCanceled
  <1>8. CASE Poll
    <2>1. PICK answered \in BOOLEAN, shows \in BOOLEAN :
            mem' = LET proved == Proved(mem, view, answered, shows)
                   IN  [proved EXCEPT !.status = Decide(proved, view)]
      BY <1>8 DEF Poll
    <2> DEFINE proved == Proved(mem, view, answered, shows)
    <2>0. mem \in Record /\ view \in View
      BY <1>8 DEF Poll, Typed, TypeOK, InPass
    <2>2. /\ mem \in Record /\ proved \in Record /\ view \in View
          /\ mem.key => proved.key
          /\ mem.preimage => proved.preimage
          /\ proved.key => server = "Canceled"
          /\ proved.preimage => Paid
      BY <2>0, ProvedIsRecord DEF Lasting, KeyOfCanceled, Evidence, Honest
    <2>3. ~(proved.key /\ proved.preimage)
      BY <2>2 DEF Lasting, ServerSide
    <2>4. mem' = [proved EXCEPT !.status = Decide(proved, view)]
      BY <2>1
    <2> HIDE DEF proved
    <2>5. mem' \in Record /\ mem'.key = proved.key
      BY <2>2, <2>4, DecideIsStatus DEF Record, Status, Final, Canceled
    <2>6. pc = "poll" /\ pc' # "poll" /\ UNCHANGED <<store, confs, server, faults>>
      BY <1>8 DEF Poll, chainVars, serverVars
    <2>7. KeyOfCanceled(store)' /\ KeyOfCanceled(mem)'
      BY <1>1, <2>2, <2>5, <2>6 DEF Lasting, KeyOfCanceled
    <2>8. ASSUME Calm'
          PROVE  store' \in Record /\ Rests(store, confs)' /\ Rests(mem, confs)'
                 /\ StatusLasts(store, mem)'
      <3>1. /\ store \in Record /\ Rests(store, confs)
            /\ Rests(mem, view.confs) /\ Earlier(view.confs, confs) /\ StatusLasts(store, mem)
        BY <1>2, <2>6, <2>8 DEF Lasting
      <3>2. StatusLasts(mem, mem') /\ Rests(mem', view.confs)
        BY <2>2, <2>3, <2>4, <3>1, DecideLasts
      <3>3. Rests(mem', confs)
        BY <1>3, <3>1, <3>2, RestsLater
      <3>4. StatusLasts(store, mem')
        BY <3>1, <3>2 DEF StatusLasts
      <3> QED
        BY <2>6, <3>1, <3>3, <3>4
    <2> QED
      BY <1>1, <2>6, <2>7, <2>8 DEF Lasting
  <1>9. CASE Restore
    <2>1. store = NoRecord /\ pc = "idle" /\ mem = NoRecord
      BY <1>9, <1>6 DEF Restore, Typed, InPass
    <2>2. ~Calm /\ UNCHANGED <<faults, mem, server>>
      BY <1>6, <1>9, <2>1 DEF Lasting, Restore, passVars, serverVars
    <2>3. store'.key => server = "Canceled"
      BY <1>9, RestoreLeaves
    <2> QED
      BY <1>1, <1>6, <2>1, <2>2, <2>3 DEF Lasting, KeyOfCanceled, Calm
  <1>10. CASE LoseStore
    <2>1. store' = NoRecord /\ mem' = NoRecord
      BY <1>10 DEF LoseStore, Stop
    <2> QED
      BY <1>1, <1>2, <1>6, <1>10, <2>1 DEF Lasting, KeyOfCanceled
  <1>11. CASE ~Begin /\ ~Poll /\ ~Restore /\ ~LoseStore
    <2>1. /\ Alike(store, store') \/ (pc # "idle" /\ Alike(mem, store'))
          /\ \/ mem' = NoRecord /\ pc' = "idle"
             \/ pc # "idle" /\ pc' \notin {"idle", "poll"} /\ Alike(mem, mem')
             \/ UNCHANGED <<mem, pc, view>> /\ Alike(store, store')
      BY <1>11, RecordsMove
    <2>2. KeyOfCanceled(store)' /\ KeyOfCanceled(mem)'
      BY <1>1, <1>6, <2>1 DEF Lasting, KeyOfCanceled, Alike
    <2>3. ASSUME Calm' PROVE store' \in Record /\ Rests(store, confs)' /\ Rests(mem, confs)'
      <3>1. store \in Record /\ Rests(store, confs) /\ Rests(mem, confs)
        BY <1>2, <2>3 DEF Lasting
      <3>2. Rests(store', confs) /\ Rests(mem', confs)
        BY <1>5, <1>6, <2>1, <3>1
      <3>3. store' \in Record
        BY <2>1, <3>1 DEF Alike, Typed, InPass
      <3> QED
        BY <1>4, <2>3, <3>2, <3>3
    <2>4. ASSUME Calm', pc' = "poll"
          PROVE  Rests(mem, view.confs)' /\ Earlier(view.confs, confs)'
      <3>1. UNCHANGED <<mem, pc, view>>
        BY <2>1, <2>4
      <3>2. Rests(mem, view.confs) /\ Earlier(view.confs, confs) /\ Earlier(confs, confs')
        BY <1>2, <2>4, <3>1 DEF Lasting
      <3>3. \A o \in Known(view.confs) :
               /\ o \in Known(confs) /\ o \in Known(confs')
               /\ view.confs[o] <= confs[o] /\ confs[o] <= confs'[o]
               /\ {view.confs[o], confs[o], confs'[o]} \subseteq Nat
        BY <1>3, <3>2, DeepIsNat DEF Earlier, Known, Absent
      <3>4. Earlier(view.confs, confs')
        BY <3>3 DEF Earlier
      <3> QED
        BY <3>1, <3>2, <3>4
    <2>5. ASSUME Calm', pc' # "idle" PROVE StatusLasts(store, mem)'
      <3>1. pc # "idle" => StatusLasts(store, mem)
        BY <1>2, <2>5 DEF Lasting
      <3> QED
        BY <2>1, <2>5, <3>1 DEF StatusLasts, Alike, Typed, InPass
    <2> QED
      BY <1>1, <2>2, <2>3, <2>4, <2>5 DEF Lasting
  <1> QED
    BY <1>7, <1>8, <1>9, <1>10, <1>11

LEMMA LastingInit == Init => Lasting
  BY AcceptedIsRecord
  DEF Init, Lasting, ServerSide, Paid, KeyOfCanceled, Rests, Accepted, NoRecord, Record, Status,
      Final, Canceled

LEMMA LastingStep == Typed /\ Evidence /\ Lasting /\ [Next]_vars => Lasting'
  <1>1. CASE UNCHANGED vars
    BY <1>1 DEF Lasting, ServerSide, Paid, KeyOfCanceled, Rests, Earlier, Exact, Known, Calm,
                StatusLasts, vars, chainVars, serverVars, passVars, timeVars
  <1> QED
    BY <1>1, LastingStays

\* What has ended stays ended, reorgs, evictions and a lost store apart.
THEOREM EndingsStay == Spec => EndedStaysEnded
  <1>1. ASSUME Typed, Lasting, [Next]_vars, store # NoRecord, store.status \in Final,
               faults'.reorg + faults'.eviction + faults'.loss = 0
        PROVE  \/ store'.status = store.status
               \/ store.status = "CsvMatured" /\ store'.status \in Final
    <2>1. CASE UNCHANGED vars
      BY <2>1 DEF vars
    <2>2. CASE Next
      <3>1. Calm /\ ~LoseStore
        BY <1>1, <2>2, CalmSteps DEF Calm
      <3>2. pc # "idle" => StatusLasts(store, mem)
        BY <1>1, <3>1 DEF Lasting
      <3>3. CASE Begin \/ Poll
        BY <3>3 DEF Begin, Look, Poll
      <3>4. CASE Restore
        BY <1>1, <3>4 DEF Restore
      <3>5. CASE ~Begin /\ ~Poll /\ ~Restore
        <4>1. Alike(store, store') \/ (pc # "idle" /\ Alike(mem, store'))
          BY <1>1, <2>2, <3>1, <3>5, RecordsMove
        <4> QED
          BY <1>1, <3>2, <4>1 DEF Alike, StatusLasts
      <3> QED
        BY <3>3, <3>4, <3>5
    <2> QED
      BY <1>1, <2>1, <2>2
  <1>2. Typed /\ Lasting /\ [Next]_vars =>
          [ /\ store # NoRecord /\ store.status \in Final
            /\ faults'.reorg + faults'.eviction + faults'.loss = 0
            => \/ store'.status = store.status
               \/ store.status = "CsvMatured" /\ store'.status \in Final ]_vars
    BY <1>1
  <1> QED
    BY <1>2, TypedInit, TypedStep, EvidenceInit, EvidenceStep, LastingInit, LastingStep, PTL
    DEF Spec, EndedStaysEnded

-----------------------------------------------------------------------------
(* Nothing is left behind.                                                 *)

\* The deposit paid for is settled.
LEMMA DepositStays ==
  ASSUME Typed, ServerSide, Next, Paid
  PROVE  Paid' /\ deposit' = deposit /\ server # "Canceled"
  <1>1. server # "AwaitOpeningTxConfirmation" /\ server # "Canceled"
    BY DEF ServerSide
  <1> QED
    BY <1>1, PaidStays DEF PayInvoice

\* A spend of S enters the mempool.
Puts(S, path) == /\ Enter(S, path) /\ UNCHANGED confs
                 /\ S \subseteq Known(confs) /\ \A o \in S : spend[o].confs = 0

\* The steps that move the chain.
LEMMA ChainMoves ==
  ASSUME Typed, Next
  PROVE  \/ UNCHANGED <<confs, spend>>
         \/ \E S \in SUBSET Outputs, path \in {"Keypath", "Preimage", "Csv"} :
               /\ Puts(S, path)
               /\ \/ path = "Csv"
                  \/ path = "Keypath" /\ mem \in Record /\ mem.key
                  \/ Paid /\ S = {deposit}
         \/ Chain
  <1> USE DEF chainVars, serverVars, passVars, timeVars
  <1>1. CASE Begin \/ Poll \/ ChainFails \/ Send \/ SendFails \/ Save \/ SaveFails
    BY <1>1 DEF Begin, Look, Poll, ChainFails, Send, SendFails, Save, SaveFails
  <1>2. CASE NoRefund \/ Resave \/ ResaveFails
    BY <1>2 DEF NoRefund, Resave, ResaveFails
  <1>3. CASE RefundOut \/ RefundFails
    <2>1. PICK refund \in Refunds :
            \/ UNCHANGED <<confs, spend>>
            \/ /\ Acceptable(refund.takes, refund.path)
               /\ Enter(refund.takes, refund.path)
               /\ UNCHANGED confs
      BY <1>3 DEF RefundOut, RefundFails
    <2>2. refund.path = "Csv" \/ (refund.path = "Keypath" /\ mem.key)
      BY DEF Refunds, RefundKeypath
    <2>3. mem \in Record
      BY <1>3 DEF RefundOut, RefundFails, Typed, InPass
    <2> QED
      BY <2>1, <2>2, <2>3, RefundsAreTyped DEF Acceptable, Puts
  <1>4. CASE App
    BY <1>4 DEF App, UserCancel, Crash, LoseStore, Restore, Lapse, Expire
  <1>5. CASE PayInvoice \/ ServerTimeOut \/ LateRequest
    BY <1>5 DEF PayInvoice, ServerTimeOut, LateRequest
  <1>6. CASE Claim
    <2>1. {deposit} \in SUBSET Outputs
      BY <1>6 DEF Claim, Paid, Typed, TypeOK
    <2> QED
      BY <1>6, <2>1 DEF Claim, Acceptable, Puts
  <1> QED
    BY <1>1, <1>2, <1>3, <1>4, <1>5, <1>6 DEF Next, Pass, Server

\* What a block does to a spend.
LEMMA MineMoves ==
  ASSUME Typed, Mine, NEW o \in Outputs
  PROVE  /\ spend[o] = NoSpend => spend'[o] = NoSpend
         /\ spend[o] # NoSpend => spend'[o] # NoSpend
         /\ spend'[o].with = spend[o].with /\ spend'[o].path = spend[o].path
         /\ spend'[o].confs \in {spend[o].confs, spend[o].confs + 1}
         /\ spend'[o].confs # spend[o].confs => spend[o].confs < Deep
         /\ \A p \in Outputs : spend[p] = spend[o] => spend'[p] = spend'[o]
  <1> DEFINE Moved(s) == IF s = NoSpend \/ (s.confs = 0 /\ ~Mature(s)) \/ s.confs >= Deep
                         THEN s ELSE [s EXCEPT !.confs = @ + 1]
  <1>1. \A p \in Outputs : spend'[p] = Moved(spend[p])
    BY DEF Mine
  <1>2. spend[o] \in SpendSet
    BY DEF Typed, TypeOK
  <1>3. \A s \in SpendSet : /\ s.confs \in 0..Deepest
                            /\ [s EXCEPT !.confs = @ + 1].with = s.with
                            /\ [s EXCEPT !.confs = @ + 1].path = s.path
                            /\ [s EXCEPT !.confs = @ + 1].confs = s.confs + 1
    BY DeepIsNat DEF SpendSet, NoSpend
  <1>4. NoSpend.confs = 0
    BY DEF NoSpend
  <1>5. CASE spend'[o] = spend[o]
    BY <1>1, <1>5
  <1>6. CASE spend[o] # NoSpend /\ spend[o].confs < Deep /\ spend'[o] = [spend[o] EXCEPT !.confs = @ + 1]
    <2>1. spend'[o].confs = spend[o].confs + 1 /\ spend[o].confs \in Nat
      BY <1>2, <1>3, <1>6, DeepIsNat
    <2>2. spend'[o] # NoSpend
      BY <1>4, <2>1
    <2> QED
      BY <1>1, <1>2, <1>3, <1>6, <2>1, <2>2
  <1> QED
    BY <1>1, <1>2, <1>3, <1>5, <1>6, DeepIsNat

\* A spend keeps to its outputs.
LEMMA TogetherStays ==
  ASSUME Typed, Together, Next
  PROVE  Together'
  <1> USE DEF Typed, TypeOK
  <1>1. CASE UNCHANGED <<confs, spend>>
    BY <1>1 DEF Together
  <1>2. ASSUME NEW S \in SUBSET Outputs, NEW path, Puts(S, path) PROVE Together'
    <2>1. \A o \in S : spend'[o] = [with |-> S, path |-> path, confs |-> 0]
      BY <1>2 DEF Puts, Enter
    <2>2. \A o \in Outputs \ S : spend'[o] = IF spend[o].with \cap S # {} THEN NoSpend ELSE spend[o]
      BY <1>2 DEF Puts, Enter
    <2>3. ASSUME NEW o \in Outputs \ S, spend'[o] # NoSpend
          PROVE  o \in spend'[o].with /\ \A p \in spend'[o].with : spend'[p] = spend'[o]
      <3>1. /\ spend'[o] = spend[o] /\ spend[o].with \cap S = {}
            /\ o \in spend[o].with /\ \A p \in spend[o].with : spend[p] = spend[o]
        BY <2>2, <2>3 DEF Together
      <3>2. spend[o].with \subseteq Outputs
        BY DEF SpendSet, NoSpend
      <3> QED
        BY <2>2, <3>1, <3>2
    <2>4. ASSUME NEW o \in S
          PROVE  o \in spend'[o].with /\ \A p \in spend'[o].with : spend'[p] = spend'[o]
      BY <2>1
    <2> QED
      BY <2>3, <2>4 DEF Together
  <1>3. CASE \E o \in Outputs : Pay(o)
    BY <1>3 DEF Pay, Together
  <1>4. CASE Mine
    <2>1. ASSUME NEW o \in Outputs, spend'[o] # NoSpend
          PROVE  o \in spend'[o].with /\ \A p \in spend'[o].with : spend'[p] = spend'[o]
      <3>1. spend[o] # NoSpend /\ spend'[o].with = spend[o].with
        BY <1>4, <2>1, MineMoves
      <3>2. /\ o \in spend[o].with /\ \A p \in spend[o].with : spend[p] = spend[o]
            /\ spend[o].with \subseteq Outputs
        BY <3>1 DEF Together, SpendSet, NoSpend
      <3> QED
        BY <1>4, <3>1, <3>2, MineMoves
    <2> QED
      BY <2>1 DEF Together
  <1>5. CASE Reorg
    <2>1. \A o \in Outputs : spend'[o] = IF spend[o].confs > 0
                                       THEN [spend[o] EXCEPT !.confs = @ - 1] ELSE spend[o]
      BY <1>5 DEF Reorg
    <2>2. \A s \in SpendSet : [s EXCEPT !.confs = @ - 1].with = s.with /\ s.with \subseteq Outputs
      BY DEF SpendSet, NoSpend
    <2>3. ~(NoSpend.confs > 0)
      BY DEF NoSpend
    <2>4. ASSUME NEW o \in Outputs, spend'[o] # NoSpend
          PROVE  o \in spend'[o].with /\ \A p \in spend'[o].with : spend'[p] = spend'[o]
      <3>0. ASSUME spend[o] = NoSpend PROVE FALSE
        <4>1. ~(spend[o].confs > 0)
          BY <2>3, <3>0
        <4> QED
          BY <2>1, <2>4, <3>0, <4>1
      <3>1. spend[o] # NoSpend /\ spend[o] \in SpendSet
        BY <3>0
      <3>2. spend'[o].with = spend[o].with /\ spend[o].with \subseteq Outputs
        BY <2>1, <2>2, <3>1
      <3> QED
        BY <2>1, <3>1, <3>2 DEF Together
    <2> QED
      BY <2>4 DEF Together
  <1>6. CASE Evict
    <2>1. PICK e \in Outputs :
            spend' = [p \in Outputs |-> IF e \in spend[p].with THEN NoSpend ELSE spend[p]]
      BY <1>6 DEF Evict
    <2>2. \A o \in Outputs : spend[o].with \subseteq Outputs
      BY DEF SpendSet, NoSpend
    <2>3. ASSUME NEW o \in Outputs, spend'[o] # NoSpend
          PROVE  o \in spend'[o].with /\ \A p \in spend'[o].with : spend'[p] = spend'[o]
      <3>1. /\ spend'[o] = spend[o] /\ e \notin spend[o].with
            /\ o \in spend[o].with /\ \A p \in spend[o].with : spend[p] = spend[o]
        BY <2>1, <2>3 DEF Together
      <3> QED
        BY <2>1, <2>2, <3>1
    <2> QED
      BY <2>3 DEF Together
  <1> QED
    BY <1>1, <1>2, <1>3, <1>4, <1>5, <1>6, ChainMoves DEF Chain

\* A spend is no deeper than what it spends.
LEMMA BehindStays ==
  ASSUME Typed, Together, Behind, Next
  PROVE  Behind'
  <1> USE DEF Typed, TypeOK
  <1>0. \A o \in Outputs : spend[o] # NoSpend => /\ o \in Known(confs)
                                              /\ spend[o].confs \in Nat /\ confs[o] \in Nat
                                              /\ spend[o].confs <= confs[o]
    BY DeepIsNat DEF Behind, Known, SpendSet, Absent
  <1>1. CASE UNCHANGED <<confs, spend>>
    BY <1>1 DEF Behind, Known
  <1>2. ASSUME NEW S \in SUBSET Outputs, NEW path, Puts(S, path) PROVE Behind'
    <2>1. \A o \in Outputs : spend'[o] = IF o \in S THEN [with |-> S, path |-> path, confs |-> 0]
                                       ELSE IF spend[o].with \cap S # {} THEN NoSpend ELSE spend[o]
      BY <1>2 DEF Puts, Enter
    <2>2. UNCHANGED confs /\ S \subseteq Known(confs)
      BY <1>2 DEF Puts
    <2>3. ASSUME NEW o \in S PROVE o \in Known(confs) /\ spend'[o].confs <= confs[o]
      <3>1. o \in Known(confs) /\ confs[o] \in Nat /\ spend'[o].confs = 0
        BY <2>1, <2>2, DeepIsNat DEF Known, Absent
      <3> QED
        BY <3>1
    <2> QED
      BY <1>0, <2>1, <2>2, <2>3 DEF Behind, Known
  <1>3. CASE \E o \in Outputs : Pay(o)
    <2>1. PICK n \in Outputs : confs[n] = Absent /\ confs' = [confs EXCEPT ![n] = 0] /\ UNCHANGED spend
      BY <1>3 DEF Pay
    <2>2. \A o \in Outputs : spend[o] # NoSpend => o # n
      BY <1>0, <2>1 DEF Known
    <2> QED
      BY <1>0, <2>1, <2>2 DEF Behind, Known
  <1>4. CASE Mine
    <2>1. ASSUME NEW o \in Outputs, spend'[o] # NoSpend
          PROVE  confs'[o] # Absent /\ spend'[o].confs <= confs'[o]
      <3> DEFINE younger == {p \in Known(confs) : confs[p] < confs[o]}
      <3>1. /\ spend[o] # NoSpend
            /\ spend'[o].confs \in {spend[o].confs, spend[o].confs + 1}
            /\ spend'[o].confs # spend[o].confs => spend[o].confs < Deep
        BY <1>4, <2>1, MineMoves
      <3>2. /\ spend[o].confs \in Nat /\ confs[o] \in Nat /\ spend[o].confs <= confs[o]
            /\ confs[o] # Absent
        BY <1>0, <3>1 DEF Absent
      <3>3. Cardinality(younger) \in Nat
        <4>1. younger \in SUBSET Outputs
          BY DEF Known
        <4> QED
          BY <4>1, SubsetCounts
      <3>4. confs'[o] = IF confs[o] < Deep + Cardinality(younger) THEN confs[o] + 1 ELSE confs[o]
        BY <1>4, <3>2 DEF Mine, Deeper
      <3> HIDE DEF younger
      <3> QED
        BY <3>1, <3>2, <3>3, <3>4, DeepIsNat DEF Absent
    <2> QED
      BY <2>1 DEF Behind, Known
  <1>5. CASE Reorg
    <2>1. ASSUME NEW o \in Outputs
          PROVE  /\ spend'[o] = IF spend[o].confs > 0 THEN [spend[o] EXCEPT !.confs = @ - 1]
                                ELSE spend[o]
                 /\ confs'[o] = IF confs[o] > 0 THEN confs[o] - 1 ELSE confs[o]
      BY <1>5 DEF Reorg
    <2>2. \A s \in SpendSet : [s EXCEPT !.confs = @ - 1].confs = s.confs - 1
      BY DEF SpendSet, NoSpend
    <2>3. ~(NoSpend.confs > 0)
      BY DEF NoSpend
    <2>4. ASSUME NEW o \in Outputs, spend'[o] # NoSpend
          PROVE  confs'[o] # Absent /\ spend'[o].confs <= confs'[o]
      <3>1. spend[o] # NoSpend
        <4>1. ASSUME spend[o] = NoSpend PROVE FALSE
          <5>1. ~(spend[o].confs > 0)
            BY <2>3, <4>1
          <5> QED
            BY <2>1, <2>4, <4>1, <5>1
        <4> QED
          BY <4>1
      <3>2. /\ spend[o].confs \in Nat /\ confs[o] \in Nat /\ spend[o].confs <= confs[o]
            /\ spend[o] \in SpendSet
        BY <1>0, <3>1
      <3>3. spend'[o].confs = IF spend[o].confs > 0 THEN spend[o].confs - 1 ELSE spend[o].confs
        BY <2>1, <2>2, <3>2
      <3>4. confs'[o] = IF confs[o] > 0 THEN confs[o] - 1 ELSE confs[o]
        BY <2>1
      <3> QED
        BY ONLY <3>2, <3>3, <3>4 DEF Absent
    <2> QED
      BY <2>4 DEF Behind, Known
  <1>6. CASE Evict
    <2>1. PICK e \in Outputs :
            /\ confs' = [confs EXCEPT ![e] = Absent] \/ UNCHANGED confs
            /\ spend' = [p \in Outputs |-> IF e \in spend[p].with THEN NoSpend ELSE spend[p]]
      BY <1>6 DEF Evict
    <2>2. \A o \in Outputs : spend'[o] # NoSpend => spend'[o] = spend[o] /\ o # e
      BY <2>1 DEF Together
    <2> QED
      BY <1>0, <2>1, <2>2 DEF Behind, Known
  <1> QED
    BY <1>1, <1>2, <1>3, <1>4, <1>5, <1>6, ChainMoves DEF Chain

\* A spend in a block stays in one, reorgs apart.
LEMMA SpendsStay ==
  ASSUME Typed, Together, Behind, Next, ~Reorg, NEW o \in Outputs, spend[o].confs > 0
  PROVE  spend'[o].confs > 0
  <1> USE DEF Typed, TypeOK
  <1>0. spend[o] # NoSpend /\ spend[o] \in SpendSet /\ spend[o].with \subseteq Outputs
    BY DEF NoSpend, SpendSet
  <1>1. o \in spend[o].with /\ \A p \in spend[o].with : spend[p] = spend[o]
    BY <1>0 DEF Together
  <1>2. ASSUME NEW S \in SUBSET Outputs, NEW path, Puts(S, path) PROVE spend'[o].confs > 0
    <2>1. \A p \in S : spend[p].confs = 0
      BY <1>2 DEF Puts
    <2>2. spend[o].with \cap S = {} /\ o \notin S
      BY <1>1, <2>1
    <2>3. spend'[o] = spend[o]
      BY <1>2, <2>2 DEF Puts, Enter
    <2> QED
      BY <2>3
  <1>3. CASE Mine
    <2>1. spend'[o].confs \in {spend[o].confs, spend[o].confs + 1}
      BY <1>3, MineMoves
    <2>2. spend[o].confs \in Nat
      BY <1>0, DeepIsNat DEF SpendSet, NoSpend
    <2> QED
      BY <2>1, <2>2
  <1>4. CASE Evict
    <2>1. PICK e \in Outputs :
            /\ confs[e] = 0 \/ spend[e].confs = 0
            /\ spend' = [p \in Outputs |-> IF e \in spend[p].with THEN NoSpend ELSE spend[p]]
      BY <1>4 DEF Evict
    <2>2. ASSUME e \in spend[o].with PROVE FALSE
      <3>1. spend[e] = spend[o]
        BY <1>1, <2>2
      <3>2. spend[e].confs <= confs[e] /\ spend[e].confs > 0
        BY <1>0, <3>1 DEF Behind
      <3>3. spend[e].confs \in Nat
        BY <1>0, <3>1, DeepIsNat DEF SpendSet, NoSpend
      <3> QED
        BY <2>1, <3>2, <3>3
    <2> QED
      BY <2>1, <2>2
  <1> QED
    BY <1>2, <1>3, <1>4, ChainMoves DEF Chain, Pay

\* Every spend is the server's of what it paid for, or ours.
LEMMA SpendsStayExplained ==
  ASSUME Typed, Lasting, Accounted, Next
  PROVE  SpendsExplained(spend)' /\ SpendsExplained(view.spend)'
  <1> USE DEF Typed, TypeOK
  <1>0. /\ Paid => Paid' /\ deposit' = deposit
        /\ server = "Canceled" => server' = "Canceled"
    BY DepositStays, ServerKeepsSide DEF Lasting
  <1>1. SpendsExplained(spend) /\ SpendsExplained(view.spend)
    BY DEF Accounted
  <1>2. \A o \in Outputs : spend'[o].path \in {spend[o].path, "none", "Csv"}
                          \/ (spend'[o].path = "Keypath" /\ server = "Canceled")
                          \/ (Paid /\ o = deposit)
    <2>1. CASE UNCHANGED <<confs, spend>>
      BY <2>1
    <2>2. ASSUME NEW S \in SUBSET Outputs, NEW path \in {"Keypath", "Preimage", "Csv"},
                 Puts(S, path),
                 \/ path = "Csv"
                 \/ path = "Keypath" /\ mem \in Record /\ mem.key
                 \/ Paid /\ S = {deposit},
                 NEW o \in Outputs
          PROVE  \/ spend'[o].path \in {spend[o].path, "none", "Csv"}
                 \/ (spend'[o].path = "Keypath" /\ server = "Canceled")
                 \/ (Paid /\ o = deposit)
      <3>1. spend'[o].path = IF o \in S THEN path
                             ELSE IF spend[o].with \cap S # {} THEN "none" ELSE spend[o].path
        BY <2>2 DEF Puts, Enter, NoSpend
      <3> QED
        BY <2>2, <3>1 DEF Lasting, KeyOfCanceled
    <2>3. CASE \E o \in Outputs : Pay(o)
      BY <2>3 DEF Pay
    <2>4. CASE Mine
      BY <2>4, MineMoves
    <2>5. CASE Reorg
      <3>1. \A s \in SpendSet : [s EXCEPT !.confs = @ - 1].path = s.path
        BY DEF SpendSet, NoSpend
      <3>2. \A o \in Outputs : spend'[o] = spend[o] \/ spend'[o] = [spend[o] EXCEPT !.confs = @ - 1]
        BY <2>5 DEF Reorg
      <3> QED
        BY <3>1, <3>2
    <2>6. CASE Evict
      BY <2>6 DEF Evict, NoSpend
    <2> QED
      BY <2>1, <2>2, <2>3, <2>4, <2>5, <2>6, ChainMoves DEF Chain
  <1>3. SpendsExplained(spend)'
    BY <1>0, <1>1, <1>2 DEF SpendsExplained
  <1>4. \A o \in Outputs : view'.spend[o] \in {view.spend[o], spend[o], NoSpend}
    <2>1. CASE Begin
      BY <2>1, LookIsTyped DEF Begin
    <2>2. CASE ~Begin
      BY <2>2, ViewMoves
    <2> QED
      BY <2>1, <2>2
  <1>5. SpendsExplained(view.spend)'
    BY <1>0, <1>1, <1>4 DEF SpendsExplained, NoSpend
  <1> QED
    BY <1>3, <1>5

LEMMA ReorgCounts ==
  ASSUME Typed, Next, faults'.reorg = 0
  PROVE  faults.reorg = 0 /\ ~Reorg
  <1> USE DEF Typed, TypeOK, Counts
  <1>0. ASSUME NEW kind, NEW n \in Nat, Fault(kind, n)
        PROVE  faults.reorg = 0 /\ (kind = "reorg" => n = 0)
    <2>1. kind \in {"reorg", "eviction", "miss", "fail", "loss"} /\ MaxFaults \in Nat
      BY <1>0, Settings DEF Fault
    <2> QED
      BY <1>0, <2>1 DEF Fault
  <1>1. faults.reorg = 0
    <2>1. UNCHANGED faults \/ \E kind, n : n \in Nat /\ Fault(kind, n)
      BY FaultsMove
    <2> QED
      BY <1>0, <2>1
  <1> QED
    BY <1>0, <1>1 DEF Reorg

\* An output known has been seen by a pass that ended well, or is unseen.
LEMMA UnseenMoves ==
  ASSUME Typed, Next
  PROVE  \/ Known(confs') \ unseen' \subseteq Known(confs) \ unseen
         \/ /\ pc \in {"refund", "resave"} /\ call.ok
            /\ NoRefund \/ RefundFails \/ Resave
            /\ Known(confs') \ unseen' \subseteq (Known(confs) \ unseen) \cup Known(view.confs)
  <1> USE DEF Typed, TypeOK, chainVars, serverVars, passVars, timeVars
  <1>1. CASE Begin \/ Poll \/ ChainFails \/ Send \/ SendFails \/ Save \/ SaveFails
    BY <1>1 DEF Begin, Look, Poll, ChainFails, Send, SendFails, Save, SaveFails
  <1>2. CASE NoRefund \/ RefundFails \/ Resave
    <2>1. /\ pc \in {"refund", "resave"} /\ UNCHANGED confs
          /\ UNCHANGED unseen \/ (call.ok /\ unseen' = unseen \ Known(view.confs))
      BY <1>2 DEF NoRefund, RefundFails, Resave, Done
    <2> QED
      BY <1>2, <2>1
  <1>3. CASE RefundOut \/ ResaveFails
    BY <1>3 DEF RefundOut, ResaveFails
  <1>4. CASE App
    BY <1>4 DEF App, UserCancel, Crash, LoseStore, Restore, Lapse, Expire
  <1>5. CASE Server
    BY <1>5 DEF Server, PayInvoice, Claim, ServerTimeOut, LateRequest
  <1>6. CASE \E o \in Outputs : Pay(o)
    BY <1>6 DEF Pay, Known
  <1>7. CASE Mine
    BY <1>7 DEF Mine, Known
  <1>8. CASE Reorg
    BY <1>8, DeepIsNat DEF Reorg, Known, Absent
  <1>9. CASE Evict
    BY <1>9 DEF Evict, Known
  <1> QED
    BY <1>1, <1>2, <1>3, <1>4, <1>5, <1>6, <1>7, <1>8, <1>9 DEF Next, Pass, Chain

\* The funds a pass lists are those of every output it found, but the opening
\* of a completed swap and what the server took.
LEMMA FundsLeaveOut ==
  ASSUME OneDeposit, Typed, Evidence, Lasting, Accounted, mem \in Record
  PROVE  LeavesOut(Settled, Known(view.confs)) /\ RefundedInBlock(Settled)
  <1> DEFINE opening == Opening(view.confs)
  <1>1. /\ Settled.status = mem.status
        /\ \A o \in Outputs : Settled.funds[o] =
              IF o \notin Known(view.confs) \/ (o = opening /\ mem.status \notin Canceled)
              THEN "none" ELSE StateOf(mem, view, o)
    <2>1. Settled.status = mem.status /\ Settled.funds = Funds(mem, view)
      BY DEF Settled, Record
    <2> QED
      BY <2>1 DEF Funds
  <1>2. ASSUME NEW o \in Known(view.confs), mem.status \in Final, Settled.funds[o] = "none"
        PROVE  Paid /\ o = deposit
    <2>1. o \in Outputs
      BY DEF Known
    <2>2. CASE o = opening /\ mem.status \notin Canceled
      <3>1. mem.status = "Completed"
        BY <1>2, <2>2 DEF Final
      <3>2. Paid
        BY <3>1 DEF Accounted, PaidFor
      <3>3. Value[deposit] = Amount /\ deposit \in Outputs
        BY <3>2 DEF Accounted, Paid, Typed, TypeOK
      <3>4. view.confs \in [Outputs -> {Absent} \cup 0..Deepest]
        BY DEF Typed, TypeOK, View
      <3>5. Exact(view.confs) # {}
        BY <2>1, <2>2, <3>4, <1>2, OpeningIs, Deposits DEF None
      <3>6. o \in Exact(view.confs)
        BY <2>2, <3>4, <3>5, OpeningIs
      <3> QED
        BY <2>1, <3>2, <3>3, <3>6 DEF Exact, OneDeposit
    <2>3. CASE ~(o = opening /\ mem.status \notin Canceled)
      <3>1. StateOf(mem, view, o) = "none"
        BY <1>1, <1>2, <2>1, <2>3
      <3>2. view.spend[o] # NoSpend /\ ~OurRefund(mem, view.spend[o].path)
        BY <3>1 DEF StateOf
      <3>3. view.spend[o].path \in {"Keypath", "Preimage", "Csv"}
        BY <2>1, <3>2 DEF Typed, TypeOK, View, SpendSet
      <3>4. view.spend[o].path = "Preimage" \/ (view.spend[o].path = "Keypath" /\ mem.sentKey)
        BY <3>2, <3>3 DEF OurRefund
      <3>5. mem.sentKey => Paid /\ server # "Canceled"
        BY DEF Accounted, PaidFor, Lasting, ServerSide
      <3> QED
        BY <2>1, <3>4, <3>5 DEF Accounted, SpendsExplained
    <2> QED
      BY <2>2, <2>3
  <1>3. ASSUME NEW o \in Outputs, Settled.funds[o] = "Refunded", faults.reorg = 0
        PROVE  spend[o].confs > 0
    <2>1. StateOf(mem, view, o) = "Refunded"
      BY <1>1, <1>3
    <2>2. view.spend[o] # NoSpend /\ view.spend[o].confs # 0
      BY <2>1 DEF StateOf
    <2>3. view.spend[o].confs \in Nat
      BY DeepIsNat DEF Typed, TypeOK, View, SpendSet, NoSpend
    <2>4. view.spend[o].confs > 0
      BY <2>2, <2>3
    <2> QED
      BY <1>3, <2>4 DEF Accounted
  <1> QED
    BY <1>1, <1>2, <1>3 DEF LeavesOut, RefundedInBlock

\* Every step accounts for what it saves.
LEMMA RecordsStayAccounted ==
  ASSUME OneDeposit, Typed, Evidence, Lasting, Accounted, Next
  PROVE  /\ PaidFor(store)' /\ PaidFor(mem)'
         /\ RefundedInBlock(store)' /\ RefundedInBlock(mem)'
         /\ LeavesOut(store, Known(confs) \ unseen)'
         /\ (pc \in {"refund", "resave"} => LeavesOut(mem, Known(view.confs)))'
         /\ (pc = "refund" /\ call.ok => store = mem)'
  <1> DEFINE Goal == /\ PaidFor(store)' /\ PaidFor(mem)'
                     /\ RefundedInBlock(store)' /\ RefundedInBlock(mem)'
                     /\ LeavesOut(store, Known(confs) \ unseen)'
                     /\ (pc \in {"refund", "resave"} => LeavesOut(mem, Known(view.confs)))'
                     /\ (pc = "refund" /\ call.ok => store = mem)'
             found == Known(confs) \ unseen
             seen == Known(view.confs)
  <1> USE DEF chainVars, serverVars, passVars, timeVars
  <1>1. Paid => Paid' /\ deposit' = deposit
    BY DepositStays DEF Lasting
  <1>2. \A r : PaidFor(r) => (r \in Record /\ (r.sentKey \/ r.status = "Completed") => Paid')
    BY <1>1 DEF PaidFor
  <1>3. \A r : RefundedInBlock(r) =>
            (r \in Record /\ faults'.reorg = 0 =>
                \A o \in Outputs : r.funds[o] = "Refunded" => spend'[o].confs > 0)
    BY ReorgCounts, SpendsStay DEF RefundedInBlock, Accounted
  <1>4. \A r, S, T : LeavesOut(r, S) /\ T \subseteq S =>
            (r \in Record /\ r.status \in Final =>
                \A o \in T : r.funds[o] = "none" => Paid' /\ o = deposit')
    BY <1>1 DEF LeavesOut
  <1>5. /\ PaidFor(store) /\ PaidFor(mem) /\ RefundedInBlock(store) /\ RefundedInBlock(mem)
        /\ LeavesOut(store, found)
        /\ pc \in {"refund", "resave"} => LeavesOut(mem, seen)
        /\ pc = "refund" /\ call.ok => store = mem
        /\ pc # "idle" => found \subseteq seen
    BY DEF Accounted, Known
  <1>6. \/ Known(confs') \ unseen' \subseteq found
        \/ /\ pc \in {"refund", "resave"} /\ call.ok
           /\ NoRefund \/ RefundFails \/ Resave
           /\ Known(confs') \ unseen' \subseteq found \cup seen
    BY UnseenMoves
  <1>7. NoRecord \notin Record
    BY DEF NoRecord, Record, Status, Final, Canceled
  <1> HIDE DEF found, seen
  <1>8. ASSUME Known(confs') \ unseen' \subseteq found \/ LeavesOut(store, seen), UNCHANGED store
        PROVE  /\ PaidFor(store)' /\ RefundedInBlock(store)'
               /\ pc # "idle" \/ Known(confs') \ unseen' \subseteq found
                  => LeavesOut(store, Known(confs) \ unseen)'
    BY <1>2, <1>3, <1>4, <1>5, <1>6, <1>8 DEF PaidFor, RefundedInBlock, LeavesOut
  <1>9. ASSUME mem' = NoRecord, pc' = "idle"
        PROVE  /\ PaidFor(mem)' /\ RefundedInBlock(mem)'
               /\ (pc \in {"refund", "resave"} => LeavesOut(mem, Known(view.confs)))'
               /\ (pc = "refund" /\ call.ok => store = mem)'
    BY <1>7, <1>9 DEF PaidFor, RefundedInBlock
  <1>10. CASE ChainFails \/ NoRefund \/ RefundFails \/ Crash
    <2>1. UNCHANGED store /\ mem' = NoRecord /\ pc' = "idle" /\ pc # "idle"
      BY <1>10 DEF ChainFails, NoRefund, RefundFails, Crash, Stop, Typed, InPass
    <2>2. Known(confs') \ unseen' \subseteq found \/ LeavesOut(store, seen)
      BY <1>5, <1>6, <1>10 DEF ChainFails, NoRefund, RefundFails, Resave, Crash
    <2> QED
      BY <1>8, <1>9, <2>1, <2>2
  <1>11. CASE LoseStore
    <2>1. store' = NoRecord /\ mem' = NoRecord /\ pc' = "idle"
      BY <1>11 DEF LoseStore, Stop
    <2> QED
      BY <1>7, <1>9, <2>1 DEF PaidFor, RefundedInBlock, LeavesOut
  <1>12. CASE Resave \/ ResaveFails
    <2>1. /\ store' \in {store, mem} /\ mem' = NoRecord /\ pc' = "idle" /\ pc = "resave"
          /\ Resave => store' = mem
      BY <1>12 DEF Resave, ResaveFails, Stop
    <2>2. Known(confs') \ unseen' \subseteq seen
      BY <1>5, <1>6, <2>1
    <2>3. Known(confs') \ unseen' \subseteq found \/ store' = mem
      BY <1>6, <1>12, <2>1 DEF NoRefund, RefundFails
    <2>4. PaidFor(store)' /\ RefundedInBlock(store)'
      BY <1>2, <1>3, <1>5, <2>1 DEF PaidFor, RefundedInBlock
    <2>5. LeavesOut(store, Known(confs) \ unseen)'
      <3>1. CASE store' = mem
        <4>1. LeavesOut(mem, seen)
          BY <1>5, <2>1
        <4> QED
          BY <1>4, <2>2, <3>1, <4>1 DEF LeavesOut
      <3>2. CASE store' = store /\ Known(confs') \ unseen' \subseteq found
        BY <1>4, <1>5, <3>2 DEF LeavesOut
      <3> QED
        BY <2>1, <2>3, <3>1, <3>2
    <2> QED
      BY <1>9, <2>1, <2>4, <2>5
  <1>13. ASSUME UNCHANGED <<store, mem, pc, view, call>> PROVE Goal
    <2>1. Known(confs') \ unseen' \subseteq found
      BY <1>6, <1>13 DEF NoRefund, RefundFails, Resave, Stop
    <2>2. LeavesOut(store, Known(confs) \ unseen)'
      BY <1>4, <1>5, <1>13, <2>1 DEF LeavesOut
    <2>3. (pc \in {"refund", "resave"} => LeavesOut(mem, Known(view.confs)))'
      BY <1>4, <1>5, <1>13 DEF LeavesOut, seen
    <2>4. PaidFor(store)' /\ PaidFor(mem)' /\ RefundedInBlock(store)' /\ RefundedInBlock(mem)'
      BY <1>2, <1>3, <1>5, <1>13 DEF PaidFor, RefundedInBlock
    <2> QED
      BY <1>5, <1>13, <2>2, <2>3, <2>4
  <1>14. CASE Lapse \/ Expire
    BY <1>13, <1>14 DEF Lapse, Expire
  <1>15. CASE Server
    BY <1>13, <1>15 DEF Server, PayInvoice, Claim, ServerTimeOut, LateRequest
  <1>16. CASE Chain
    BY <1>13, <1>16 DEF Chain, Pay, Mine, Reorg, Evict
  <1>17. ASSUME pc' \notin {"idle", "refund", "resave"}, UNCHANGED store,
                Known(confs') \ unseen' \subseteq found,
                PaidFor(mem)', RefundedInBlock(mem)'
         PROVE  Goal
    <2>1. LeavesOut(store, Known(confs) \ unseen)'
      BY <1>4, <1>5, <1>17 DEF LeavesOut
    <2> QED
      BY <1>2, <1>3, <1>5, <1>17, <2>1 DEF PaidFor, RefundedInBlock
  <1>18. CASE Begin
    <2>1. mem' = store /\ pc' = "poll" /\ UNCHANGED store /\ pc = "idle"
      BY <1>18 DEF Begin, Look
    <2>2. PaidFor(mem)' /\ RefundedInBlock(mem)'
      BY <1>2, <1>3, <1>5, <2>1 DEF PaidFor, RefundedInBlock
    <2> QED
      BY <1>6, <1>17, <2>1, <2>2
  <1>19. CASE Poll
    <2>1. PICK answered \in BOOLEAN, shows \in BOOLEAN :
            mem' = LET proved == Proved(mem, view, answered, shows)
                   IN  [proved EXCEPT !.status = Decide(proved, view)]
      BY <1>19 DEF Poll
    <2> DEFINE proved == Proved(mem, view, answered, shows)
    <2>0. mem \in Record /\ view \in View
      BY <1>19 DEF Poll, Typed, TypeOK, InPass
    <2>2. /\ mem \in Record /\ proved \in Record /\ proved.sentKey = mem.sentKey
          /\ proved.funds = mem.funds
          /\ proved.preimage => Paid
      BY <2>0, ProvedIsRecord DEF Evidence, Honest
    <2>3. Decide(proved, view) = "Completed" => proved.preimage
      BY DEF Decide
    <2>4. mem' = [proved EXCEPT !.status = Decide(proved, view)]
      BY <2>1
    <2> HIDE DEF proved
    <2>5. mem'.status = Decide(proved, view) /\ mem'.sentKey = mem.sentKey /\ mem'.funds = mem.funds
      BY <2>2, <2>4 DEF Record
    <2>6. PaidFor(mem)' /\ RefundedInBlock(mem)'
      BY <1>1, <1>2, <1>3, <1>5, <2>2, <2>3, <2>5 DEF PaidFor, RefundedInBlock
    <2>7. pc' \in {"send", "save"} /\ UNCHANGED store /\ pc = "poll"
      BY <1>19 DEF Poll
    <2> QED
      BY <1>6, <1>17, <2>6, <2>7
  <1>20. CASE Send
    <2>1. mem \in Record /\ mem' = [mem EXCEPT !.sentCancel = @ \/ call.act = "Cancel",
                                              !.sentKey = @ \/ call.act = "RefundKey"]
      BY <1>20 DEF Send, Typed, InPass
    <2>2. /\ mem'.status = mem.status /\ mem'.funds = mem.funds
          /\ mem'.sentKey => mem.sentKey \/ call.act = "RefundKey"
      BY <2>1 DEF Record
    <2>3. call.act = "RefundKey" => Paid
      BY <1>20, <2>1 DEF Send, Evidence, Honest
    <2>4. PaidFor(mem)' /\ RefundedInBlock(mem)'
      BY <1>1, <1>2, <1>3, <1>5, <2>1, <2>2, <2>3 DEF PaidFor, RefundedInBlock
    <2> QED
      BY <1>6, <1>17, <1>20, <2>4 DEF Send
  <1>21. CASE SendFails
    <2>1. PaidFor(mem)' /\ RefundedInBlock(mem)'
      BY <1>2, <1>3, <1>5, <1>21 DEF PaidFor, RefundedInBlock, SendFails
    <2> QED
      BY <1>6, <1>17, <1>21, <2>1 DEF SendFails
  <1>22. CASE Save \/ SaveFails
    <2>1. /\ mem \in Record /\ mem' = Settled /\ pc = "save" /\ pc' = "refund"
          /\ store' \in {store, mem'} /\ UNCHANGED <<view, confs, unseen>>
          /\ store' = mem' \/ ~call'.ok
      BY <1>22 DEF Save, SaveFails, Typed, TypeOK, InPass, Call
    <2>2. LeavesOut(Settled, seen) /\ RefundedInBlock(Settled) /\ PaidFor(Settled)
      BY <1>5, <2>1, FundsLeaveOut, SettledIsRecord DEF PaidFor, seen
    <2>3. /\ PaidFor(store)' /\ PaidFor(mem)' /\ RefundedInBlock(store)' /\ RefundedInBlock(mem)'
      BY <1>2, <1>3, <1>5, <2>1, <2>2 DEF PaidFor, RefundedInBlock
    <2>4. Known(confs') \ unseen' \subseteq found /\ found \subseteq seen
      BY <1>5, <1>6, <2>1
    <2>5. LeavesOut(store, Known(confs) \ unseen)'
      BY <1>4, <1>5, <2>1, <2>2, <2>4 DEF LeavesOut
    <2>6. LeavesOut(mem, Known(view.confs))'
      BY <1>4, <2>1, <2>2 DEF LeavesOut, seen
    <2> QED
      BY <2>1, <2>3, <2>5, <2>6
  <1>23. CASE RefundOut
    <2>1. /\ mem \in Record /\ mem' \in Record /\ pc = "refund" /\ pc' = "resave"
          /\ UNCHANGED <<store, view, confs, unseen>>
      BY <1>23, PassTyped DEF RefundOut, Typed, InPass
    <2>2. PICK refund \in Refunds :
            mem' = [mem EXCEPT
                !.address = @ \/ ~call.given,
                !.funds = [o \in Outputs |->
                    IF o \in refund.takes /\ @[o] # "none" THEN "Refunding" ELSE @[o]]]
      BY <1>23 DEF RefundOut
    <2>3. mem'.status = mem.status /\ mem'.sentKey = mem.sentKey
      BY <2>1, <2>2 DEF Record
    <2>4. \A o \in Outputs : /\ mem'.funds[o] = "none" => mem.funds[o] = "none"
                             /\ mem'.funds[o] = "Refunded" => mem.funds[o] = "Refunded"
      BY <2>1, <2>2 DEF Record
    <2>5. PaidFor(mem)' /\ RefundedInBlock(mem)'
      BY <1>2, <1>3, <1>5, <2>1, <2>3, <2>4 DEF PaidFor, RefundedInBlock
    <2>6. LeavesOut(mem, Known(view.confs))'
      <3>1. seen \subseteq Outputs /\ Known(view.confs)' = seen
        BY <2>1 DEF seen, Known
      <3>2. LeavesOut(mem, seen) /\ seen \subseteq seen
        BY <1>5, <2>1
      <3>3. mem.status \in Final => \A o \in seen : mem.funds[o] = "none" => Paid' /\ o = deposit'
        BY <1>4, <2>1, <3>2
      <3>4. ASSUME mem'.status \in Final, NEW o \in seen, mem'.funds[o] = "none"
            PROVE  Paid' /\ o = deposit'
        <4>0. o \in Outputs
          BY DEF seen, Known
        <4>1. o \in Outputs /\ mem.status \in Final
          BY <4>0, <2>3, <3>4
        <4>2. mem.funds[o] = "none"
          BY <2>4, <3>4, <4>0
        <4> QED
          BY <3>3, <4>1, <4>2
      <3> QED
        BY <3>1, <3>4 DEF LeavesOut
    <2>7. PaidFor(store)' /\ RefundedInBlock(store)'
      BY <1>2, <1>3, <1>5, <2>1 DEF PaidFor, RefundedInBlock
    <2>8. LeavesOut(store, Known(confs) \ unseen)'
      BY <1>4, <1>5, <2>1 DEF LeavesOut, found
    <2> QED
      BY <2>1, <2>5, <2>6, <2>7, <2>8
  <1>24. CASE UserCancel
    <2>1. /\ store \in Record /\ UNCHANGED <<mem, pc, view, call, confs, unseen>> /\ pc = "idle"
          /\ store' \in {store, [store EXCEPT !.sentCancel = TRUE]}
      BY <1>24 DEF UserCancel, Typed, TypeOK
    <2>2. /\ store' \in Record /\ store'.status = store.status
          /\ store'.sentKey = store.sentKey /\ store'.funds = store.funds
      BY <2>1 DEF Record
    <2>3. /\ PaidFor(store)' /\ PaidFor(mem)' /\ RefundedInBlock(store)' /\ RefundedInBlock(mem)'
      BY <1>2, <1>3, <1>5, <2>1, <2>2 DEF PaidFor, RefundedInBlock
    <2>4. LeavesOut(store, Known(confs) \ unseen)'
      BY <1>4, <1>5, <2>1, <2>2 DEF LeavesOut, found
    <2> QED
      BY <2>1, <2>3, <2>4
  <1>25. CASE Restore
    <2>1. /\ store' \in Record /\ store'.status = "Restoring" /\ store'.funds = NoFunds
          /\ store'.sentKey => server = "AwaitClaimTxConfirmation"
      BY <1>25, RestoreLeaves
    <2>2. UNCHANGED <<mem, pc, view, call, server, confs>> /\ pc = "idle"
      BY <1>7, <1>25 DEF Restore, Typed, InPass
    <2>3. store'.sentKey => Paid
      BY <2>1 DEF Lasting, ServerSide
    <2>4. PaidFor(store)'
      BY <1>1, <2>1, <2>3 DEF PaidFor
    <2>5. RefundedInBlock(store)' /\ LeavesOut(store, Known(confs) \ unseen)'
      BY <2>1 DEF RefundedInBlock, LeavesOut, NoFunds, Final, Canceled
    <2>6. PaidFor(mem)' /\ RefundedInBlock(mem)'
      BY <1>2, <1>3, <1>5, <2>2 DEF PaidFor, RefundedInBlock
    <2> QED
      BY <2>2, <2>4, <2>5, <2>6
  <1> QED
    BY <1>10, <1>11, <1>12, <1>14, <1>15, <1>16, <1>18, <1>19, <1>20, <1>21, <1>22, <1>23,
       <1>24, <1>25 DEF Next, Pass, App

\* What a view holds in a block is in one, reorgs apart, and what came after
\* a pass looked is unseen.
LEMMA ViewsStayAccounted ==
  ASSUME Typed, Accounted, Next
  PROVE  /\ (faults.reorg = 0 => \A o \in Outputs : view.spend[o].confs > 0 => spend[o].confs > 0)'
         /\ (pc # "idle" => Known(confs) \ Known(view.confs) \subseteq unseen)'
  <1>1. ASSUME faults'.reorg = 0, NEW o \in Outputs, view'.spend[o].confs > 0
        PROVE  spend'[o].confs > 0
    <2>1. view'.spend[o] \in {view.spend[o], spend[o], NoSpend}
      <3>1. CASE Begin
        BY <3>1, LookIsTyped DEF Begin, Typed
      <3>2. CASE ~Begin
        BY <3>2, ViewMoves
      <3> QED
        BY <3>1, <3>2
    <2>2. ~(NoSpend.confs > 0)
      BY DEF NoSpend
    <2>3. view'.spend[o] # NoSpend
      BY <1>1, <2>2
    <2>4. spend[o].confs > 0
      <3>1. faults.reorg = 0
        BY <1>1, ReorgCounts
      <3>2. CASE view'.spend[o] = view.spend[o]
        BY <1>1, <3>1, <3>2 DEF Accounted
      <3>3. CASE view'.spend[o] = spend[o]
        BY <1>1, <3>3
      <3> QED
        BY <2>1, <2>3, <3>2, <3>3
    <2> QED
      BY <1>1, <2>4, ReorgCounts, SpendsStay DEF Accounted
  <1>2. ASSUME pc' # "idle" PROVE Known(confs') \ Known(view'.confs) \subseteq unseen'
    <2>1. CASE Begin
      <3>1. view'.confs = confs /\ confs' = confs
        BY <2>1, LookIsTyped DEF Begin, Look, chainVars, Typed
      <3> QED
        BY <3>1
    <2>2. CASE ~Begin
      <3>1. pc # "idle" /\ view' = view
        BY <1>2, <2>2, ViewMoves, PassMoves
      <3>2. Known(confs') \ unseen' \subseteq Known(confs) \ unseen
        BY <1>2, UnseenMoves DEF NoRefund, RefundFails, Resave, Stop
      <3> QED
        BY <3>1, <3>2 DEF Accounted
    <2> QED
      BY <2>1, <2>2
  <1> QED
    BY <1>1, <1>2

LEMMA AccountedInit == Init => Accounted
  <1> SUFFICES ASSUME Init PROVE Accounted
    OBVIOUS
  <1>1. /\ \A o \in Outputs : spend[o] = NoSpend /\ view.spend[o] = NoSpend /\ confs[o] = Absent
        /\ ~Paid /\ pc = "idle" /\ mem = NoRecord /\ store = Accepted
    BY DEF Init, NoView, Paid
  <1>2. NoSpend.path = "none" /\ ~(NoSpend.confs > 0)
    BY DEF NoSpend
  <1>3. Accepted.status = "Funding" /\ Accepted.sentKey = FALSE /\ Accepted.funds = NoFunds
    BY DEF Accepted
  <1>4. NoRecord \notin Record
    BY DEF NoRecord, Record, Status, Final, Canceled
  <1>5. Together /\ Behind /\ SpendsExplained(spend) /\ SpendsExplained(view.spend)
    BY <1>1, <1>2 DEF Together, Behind, SpendsExplained
  <1>6. PaidFor(store) /\ PaidFor(mem) /\ RefundedInBlock(store) /\ RefundedInBlock(mem)
    BY <1>1, <1>3, <1>4 DEF PaidFor, RefundedInBlock, NoFunds
  <1>7. LeavesOut(store, Known(confs) \ unseen)
    BY <1>1, <1>3 DEF LeavesOut, Final, Canceled
  <1> QED
    BY <1>1, <1>2, <1>5, <1>6, <1>7 DEF Accounted

LEMMA AccountedStep ==
  ASSUME OneDeposit
  PROVE  Typed /\ Evidence /\ Lasting /\ Accounted /\ [Next]_vars => Accounted'
  <1>1. CASE UNCHANGED vars
    BY <1>1 DEF Accounted, Together, Behind, SpendsExplained, PaidFor, Paid, RefundedInBlock,
                LeavesOut, Known, vars, chainVars, serverVars, passVars, timeVars
  <1>2. ASSUME Typed, Evidence, Lasting, Accounted, Next
        PROVE  Accounted'
    <2>1. Together' /\ Behind'
      BY <1>2, TogetherStays, BehindStays DEF Accounted
    <2>2. (Paid => Value[deposit] = Amount)'
      <3>1. CASE PayInvoice
        BY <3>1 DEF PayInvoice, Exact
      <3>2. CASE ~PayInvoice
        BY <1>2, <3>2, PaidStays DEF Accounted, Paid
      <3> QED
        BY <3>1, <3>2
    <2> QED
      BY <1>2, <2>1, <2>2, SpendsStayExplained, RecordsStayAccounted, ViewsStayAccounted
      DEF Accounted
  <1> QED
    BY <1>1, <1>2

\* A swap the run loop no longer drives left nothing behind: of one deposit of
\* the amount and any others, whatever failed meanwhile.
THEOREM QuietLeavesNothing ==
  ASSUME OneDeposit
  PROVE  Spec => []NothingLeftWhenQuiet
  <1>1. Typed /\ Accounted => NothingLeftWhenQuiet
    <2> SUFFICES ASSUME Typed, Accounted, store # NoRecord, IsQuiet(store),
                        NEW o \in Known(confs) \ unseen
                 PROVE  \/ o = deposit
                        \/ /\ store.funds[o] = "Refunded"
                           /\ spend[o].confs > 0 \/ faults.reorg > 0
                        \/ store.funds[o] \in {"Dust", "Refundable"}
      BY DEF NothingLeftWhenQuiet
    <2>1. o \in Outputs /\ store \in Record /\ store.status \in Final
      BY DEF Known, Typed, TypeOK, IsQuiet
    <2>2. store.funds[o] \in {"none", "Dust", "Refundable", "Refunded"}
      BY <2>1 DEF IsQuiet, Record, FundState
    <2>3. store.funds[o] = "none" => o = deposit
      BY <2>1 DEF Accounted, LeavesOut
    <2>4. store.funds[o] = "Refunded" => spend[o].confs > 0 \/ faults.reorg > 0
      <3>1. faults.reorg \in Nat
        BY Settings DEF Typed, TypeOK, Counts
      <3> QED
        BY <2>1, <3>1 DEF Accounted, RefundedInBlock
    <2> QED
      BY <2>2, <2>3, <2>4
  <1> QED
    BY <1>1, TypedInit, TypedStep, EvidenceInit, EvidenceStep, LastingInit, LastingStep,
       AccountedInit, AccountedStep, PTL DEF Spec
=============================================================================
