---------------------------- MODULE SwapOutProofs ----------------------------
(***************************************************************************)
(* Theorems about SwapOut, for every CSV, depth, margin, pace and number   *)
(* of faults: its types, the write-ahead of the preimage, what a final     *)
(* status means, when the preimage leaves, that no payment is lost, and    *)
(* the refinement of Escrow. Each names what it asks of the settings.      *)
(*                                                                         *)
(* The inductive invariant comes in layers, each proved with the ones      *)
(* before it. Of every instance: Typed, what the variables are; Evidence,  *)
(* that whatever shows the preimage left is true; Ahead, that the flag the *)
(* store holds is never behind; Reports, that a final status saw a deep    *)
(* spend. By the pace of passes: Carried and Seen, how far the record and  *)
(* the view of a pass are from the store and the chain; Gate, that what a  *)
(* release was decided on still holds when it leaves; InTime, the blocks   *)
(* left to a claim that is due; Ended, that a swap called off is never     *)
(* paid for; Earned, that only a claim completes.                          *)
(***************************************************************************)
EXTENDS MCSwapOut, TLAPS

-----------------------------------------------------------------------------
(* The layers.                                                             *)

\* A pass works on a record, of a swap the store holds.
InPass == /\ pc = "idle" => mem = NoRecord
          /\ pc # "idle" => mem \in Record /\ store \in Record
          /\ pc = "Claim" => plan.path \in ClaimPaths

\* What the tip the pass read makes of the opening is within the depth.
Shallow == opening - drift <= Deep

\* There is no opening before the server broadcast it.
NotOpened == server \in {"AwaitClaimInvoicePay", "OpeningTxBroadcast"} => opening = Absent

Typed == TypeOK /\ InPass /\ Shallow /\ NotOpened

\* The server's key and a preimage claim are seen only after the release.
RecordShows(r) == r # NoRecord /\ (r.key \/ r.preimage)
Evidence ==
    /\ settled \/ server = "Claimed" \/ "Preimage" \in wire => released
    /\ spend.path \in ClaimPaths => released
    /\ view.spend.path \in ClaimPaths => released
    /\ RecordShows(store) \/ RecordShows(mem) => released
    /\ pc = "Claim" => released \/ (plan.path = "Preimage" /\ mem.sentPreimage)

\* The flag is in the store before the request, in the record of the pass
\* once in the store, and in the store alone while the pass decides.
Ahead ==
    used.losses = 0 =>
        /\ store # NoRecord
        /\ released \/ pc = "reveal" => store.sentPreimage
        /\ pc # "idle" /\ store.sentPreimage => mem.sentPreimage
        /\ pc = "Claim" /\ mem.sentPreimage => store.sentPreimage
        /\ pc \in {"history", "poll"} => mem.sentPreimage = store.sentPreimage

-----------------------------------------------------------------------------
(* The operators.                                                          *)

\* The depth at which counting stops is a depth.
LEMMA DeepIsNat == Deep \in Nat /\ Deep >= 1
  BY CsvInRange, Bounds DEF Deep

\* What is counted from the tip is a depth, and in a block when it is.
LEMMA ConfsInDepth ==
  ASSUME TypeOK, NEW c \in {Absent} \cup 0..Deep, c - drift <= Deep
  PROVE  /\ Confs(c) \in {Absent} \cup 0..Deep
         /\ c = Absent <=> Confs(c) = Absent
  <1>1. drift \in Int
    BY Bounds DEF TypeOK, ChainTypeOK, Bound
  <1> QED
    BY <1>1, DeepIsNat DEF Confs, Absent

\* A plan made of a status alone.
LEMMA OnlyIsPlan ==
  ASSUME NEW s \in Status
  PROVE  Only(s) \in Plan /\ Only(s).act = "none" /\ Only(s).path = "none"
  BY DEF Only, NoPlan, Plan, Status, Final

\* A decision is a plan. It claims by keypath only with the server's key and
\* by preimage only once something shows the preimage left, and a release is
\* decided only while nothing does.
LEMMA DecideIsPlan ==
  ASSUME NEW r \in Record, NEW v \in View, NEW payable \in BOOLEAN
  PROVE  LET d == Decide(r, v, payable)
         IN  /\ d \in Plan
             /\ d.act = "Claim" =>
                   \/ d.path = "Keypath" /\ r.key
                   \/ /\ d.path = "Preimage"
                      /\ r.sentPreimage \/ r.preimage \/ v.spend.path = "Keypath"
             /\ d.act = "Preimage" => ~r.sentPreimage
  <1>1. Funding(r) \in Plan /\ Funding(r).act \in {"none", "Cancel"}
    BY DEF Funding, Only, NoPlan, Plan, Status, Final
  <1>2. /\ Confirming(v, payable) \in Plan
        /\ Confirming(v, payable).act \in {"none", "Preimage"}
    BY DEF Confirming, Only, NoPlan, Plan, Status, Final
  <1>3. Spent(v) \in Plan /\ Spent(v).act = "none"
    BY DEF Spent, Only, NoPlan, Plan, Status, Final
  <1>4. ClaimPath(r, v) \in ClaimPaths \cup {"none"}
    BY DEF ClaimPath, ClaimPaths
  <1>5. /\ Claiming(r, v) \in Plan
        /\ Claiming(r, v).act = IF ClaimPath(r, v) = "none" THEN "none" ELSE "Claim"
        /\ Claiming(r, v).path = ClaimPath(r, v)
    BY <1>4 DEF Claiming, Only, NoPlan, Plan, Status, Final
  <1>6. /\ ClaimPath(r, v) = "Keypath" => r.key
        /\ ClaimPath(r, v) = "Preimage" =>
              r.sentPreimage \/ r.preimage \/ v.spend.path = "Keypath"
    BY DEF ClaimPath, KeypathClaim
  <1> QED
    BY <1>1, <1>2, <1>3, <1>4, <1>5, <1>6 DEF Decide, PreimageLeft, ClaimPaths

\* Merging keeps the flag, and shows only what was seen.
LEMMA MergeIsRecord ==
  ASSUME NEW r \in Record, NEW v \in View,
         NEW key \in BOOLEAN, NEW canceled \in BOOLEAN
  PROVE  LET m == Merge(r, v, key, canceled)
         IN  /\ m \in Record
             /\ m.sentPreimage = r.sentPreimage
             /\ m.key <=> (r.key \/ key)
             /\ m.preimage <=> (r.preimage \/ v.spend.path = "Preimage")
  BY DEF Merge, Record

\* A request leaves the server in a status of its own, and settles only on
\* the preimage.
LEMMA TakeIsTyped ==
  ASSUME TypeOK, NEW m \in {"Preimage", "Cancel"}, Take(m)
  PROVE  /\ server' \in ServerStatus /\ settled' \in BOOLEAN
         /\ server' \in {"AwaitClaimInvoicePay", "OpeningTxBroadcast"} => server' = server
         /\ m = "Cancel" => settled' = settled /\ (server' = "Claimed" => server = "Claimed")
  BY DEF TypeOK, ServerTypeOK, Take, TakePreimage, TakeCancel, ServerStatus

\* Every step keeps the types of the server's side, of the invoice and of the
\* requests under way.
LEMMA ServerTyped ==
  ASSUME TypeOK, NotOpened, Next
  PROVE  ServerTypeOK' /\ NotOpened'
  <1> USE TakeIsTyped DEF TypeOK, ServerTypeOK, NotOpened, serverVars, chainVars, passVars, ServerStatus
  <1>1. CASE Begin
    BY <1>1 DEF Begin
  <1>2. CASE ReadHistory
    BY <1>2 DEF ReadHistory
  <1>3. CASE ChainFails
    BY <1>3 DEF ChainFails, Stop
  <1>4. CASE Poll
    BY <1>4 DEF Poll
  <1>5. CASE StorePreimageSent
    BY <1>5 DEF StorePreimageSent
  <1>6. CASE StorePreimageSentFails
    BY <1>6 DEF StorePreimageSentFails
  <1>7. CASE RevealPreimage
    BY <1>7 DEF RevealPreimage, Unanswered
  <1>8. CASE SendCancel
    BY <1>8 DEF SendCancel, TakeCancel
  <1>9. CASE SendCancelFails
    BY <1>9 DEF SendCancelFails, Unanswered
  <1>10. CASE BroadcastClaim
    BY <1>10 DEF BroadcastClaim, Acceptable
  <1>11. CASE BroadcastClaimFails
    BY <1>11 DEF BroadcastClaimFails, Acceptable
  <1>12. CASE Save
    BY <1>12 DEF Save, Stop
  <1>13. CASE SaveFails
    BY <1>13 DEF SaveFails, Stop
  <1>14. CASE UserCancel
    BY <1>14 DEF UserCancel, Unanswered
  <1>15. CASE Crash
    BY <1>15 DEF Crash, Stop
  <1>16. CASE LoseStore
    BY <1>16 DEF LoseStore, Stop
  <1>17. CASE Restore
    BY <1>17 DEF Restore, Accepted
  <1>18. CASE Hold
    BY <1>18 DEF Hold, ServerStep
  <1>19. CASE Open
    BY <1>19 DEF Open, ServerStep
  <1>20. CASE ServerTimeOut
    BY <1>20 DEF ServerTimeOut, ServerStep
  <1>21. CASE Refund
    BY <1>21 DEF Refund, ServerStep, Acceptable
  <1>22. CASE LateRequest
    BY <1>22 DEF LateRequest
  <1>23. CASE Expire
    BY <1>23 DEF Expire
  <1>24. CASE Mine
    BY <1>24 DEF Mine, Deeper, Drift
  <1>25. CASE Reorg
    BY <1>25 DEF Reorg, Drift, ChainTypeOK, Absent
  <1>26. CASE Evict
    BY <1>26 DEF Evict
  <1> QED
    BY <1>1, <1>2, <1>3, <1>4, <1>5, <1>6, <1>7, <1>8, <1>9, <1>10, <1>11, <1>12, <1>13, <1>14, <1>15, <1>16, <1>17, <1>18, <1>19, <1>20, <1>21, <1>22, <1>23, <1>24, <1>25, <1>26 DEF Next, Pass, App, Server, Chain

\* Every step keeps a spend within the depth of the opening, and the tip within
\* the blocks mined and dropped since it was read.
LEMMA ChainTyped ==
  ASSUME TypeOK, InPass, NotOpened, Shallow, Next
  PROVE  ChainTypeOK' /\ Shallow'
  <1> USE DeepIsNat, CsvInRange, Bounds DEF TypeOK, ChainTypeOK, NotOpened, Shallow, serverVars, chainVars, passVars, Bound, Absent, SpendSet, NoSpend, ClaimPaths
  <1>1. CASE Begin
    BY <1>1 DEF Begin
  <1>2. CASE ReadHistory
    BY <1>2 DEF ReadHistory
  <1>3. CASE ChainFails
    BY <1>3 DEF ChainFails, Stop
  <1>4. CASE Poll
    BY <1>4 DEF Poll
  <1>5. CASE StorePreimageSent
    BY <1>5 DEF StorePreimageSent
  <1>6. CASE StorePreimageSentFails
    BY <1>6 DEF StorePreimageSentFails
  <1>7. CASE RevealPreimage
    BY <1>7 DEF RevealPreimage, Unanswered
  <1>8. CASE SendCancel
    BY <1>8 DEF SendCancel, TakeCancel
  <1>9. CASE SendCancelFails
    BY <1>9 DEF SendCancelFails, Unanswered
  <1>10. CASE BroadcastClaim
    BY <1>10 DEF BroadcastClaim, Acceptable, InPass
  <1>11. CASE BroadcastClaimFails
    BY <1>11 DEF BroadcastClaimFails, Acceptable, InPass
  <1>12. CASE Save
    BY <1>12 DEF Save, Stop
  <1>13. CASE SaveFails
    BY <1>13 DEF SaveFails, Stop
  <1>14. CASE UserCancel
    BY <1>14 DEF UserCancel, Unanswered
  <1>15. CASE Crash
    BY <1>15 DEF Crash, Stop
  <1>16. CASE LoseStore
    BY <1>16 DEF LoseStore, Stop
  <1>17. CASE Restore
    BY <1>17 DEF Restore, Accepted
  <1>18. CASE Hold
    BY <1>18 DEF Hold, ServerStep
  <1>19. CASE Open
    <2>1. opening = Absent /\ opening' = 0 /\ drift' = drift
      BY <1>19 DEF Open, ServerStep
    <2>2. spend = NoSpend
      BY <2>1
    <2>3. used.reorgs \in 0..MaxReorgs /\ drift \in Int /\ drift >= -used.reorgs
      BY Bounds
    <2>4. -drift <= MaxReorgs
      BY <2>3
    <2>5. Shallow'
      BY <2>1, <2>3, <2>4 DEF Deep
    <2> QED
      BY <1>19, <2>1, <2>2, <2>5 DEF Open, ServerStep
  <1>20. CASE ServerTimeOut
    BY <1>20 DEF ServerTimeOut, ServerStep
  <1>21. CASE Refund
    BY <1>21 DEF Refund, ServerStep, Acceptable
  <1>22. CASE LateRequest
    BY <1>22 DEF LateRequest
  <1>23. CASE Expire
    BY <1>23 DEF Expire
  <1>24. CASE Mine
    BY <1>24 DEF Mine, Deeper, Drift
  <1>25. CASE Reorg
    BY <1>25 DEF Reorg, Drift
  <1>26. CASE Evict
    BY <1>26 DEF Evict
  <1> QED
    BY <1>1, <1>2, <1>3, <1>4, <1>5, <1>6, <1>7, <1>8, <1>9, <1>10, <1>11, <1>12, <1>13, <1>14, <1>15, <1>16, <1>17, <1>18, <1>19, <1>20, <1>21, <1>22, <1>23, <1>24, <1>25, <1>26 DEF Next, Pass, App, Server, Chain


\* The constants a pass starts from or ends with.
LEMMA Constants ==
  /\ NoRecord \notin Record
  /\ NoView \in View
  /\ NoPlan \in Plan
  /\ "idle" \in Pc
  <1>1. NoRecord \notin Record
    BY DEF NoRecord, Record, Status, Final
  <1>2. NoView \in View
    BY DeepIsNat DEF NoView, View, SpendSet
  <1>3. NoPlan \in Plan
    BY DEF NoPlan, Plan, Status
  <1>4. "idle" \in Pc
    BY DEF Pc
  <1> QED
    BY <1>1, <1>2, <1>3, <1>4

\* Two records say the same of what was seen.
SameShown(a, b) == a.key = b.key /\ a.preimage = b.preimage

\* The updates a pass makes of a record.
LEMMA FlagIsRecord ==
  ASSUME NEW r \in Record
  PROVE  /\ [r EXCEPT !.sentPreimage = TRUE] \in Record
         /\ [r EXCEPT !.sentPreimage = TRUE].sentPreimage
         /\ SameShown([r EXCEPT !.sentPreimage = TRUE], r)
         /\ [r EXCEPT !.sentCancel = TRUE] \in Record
         /\ [r EXCEPT !.sentCancel = TRUE].sentPreimage = r.sentPreimage
         /\ SameShown([r EXCEPT !.sentCancel = TRUE], r)
  BY DEF Record, SameShown

\* Setting the status of a record, or its preimage flag with it.
LEMMA StatusIsRecord ==
  ASSUME NEW r \in Record, NEW s \in Status
  PROVE  /\ [r EXCEPT !.status = s] \in Record
         /\ [r EXCEPT !.status = s].sentPreimage = r.sentPreimage
         /\ SameShown([r EXCEPT !.status = s], r)
         /\ [r EXCEPT !.sentPreimage = TRUE, !.status = s] \in Record
         /\ [r EXCEPT !.sentPreimage = TRUE, !.status = s].sentPreimage
         /\ SameShown([r EXCEPT !.sentPreimage = TRUE, !.status = s], r)
  BY DEF Record, SameShown

\* A restored record, whatever the server reported.
LEMMA RestoredIsRecord ==
  ASSUME NEW canceled \in BOOLEAN, NEW claimed \in BOOLEAN
  PROVE  LET r == [Accepted EXCEPT !.status = "Restoring", !.sentCancel = canceled,
                                   !.serverCancel = canceled, !.key = claimed]
         IN  r \in Record /\ r.key = claimed /\ ~r.preimage
  BY DEF Accepted, Record, Status

\* A plan whose action failed.
LEMMA FailedIsPlan ==
  ASSUME NEW p \in Plan, NEW b \in BOOLEAN
  PROVE  /\ [p EXCEPT !.ok = b] \in Plan
         /\ [p EXCEPT !.ok = b].path = p.path
  BY DEF Plan

\* A plan has a status of a record.
LEMMA PlanHasStatus ==
  ASSUME NEW p \in Plan
  PROVE  p.status \in Status /\ p.replaces \in BOOLEAN
  BY DEF Plan

\* What a pass reads of the chain is a view.
LEMMA HistoryIsView ==
  ASSUME Typed
  PROVE  [opening |-> Confs(opening),
          spend |-> [spend EXCEPT !.confs = Confs(spend.confs)]] \in View
  <1>1. Confs(opening) \in {Absent} \cup 0..Deep
    BY ConfsInDepth DEF Typed, TypeOK, ChainTypeOK, Shallow
  <1>2. spend.confs \in 0..Deep /\ spend.confs - drift <= Deep
    <2>1. CASE spend = NoSpend
      <3>1. used.reorgs \in 0..MaxReorgs /\ drift \in Int /\ drift >= -used.reorgs
        BY Bounds DEF Typed, TypeOK, ChainTypeOK, Bound
      <3>2. -drift <= Deep
        BY <3>1, CsvInRange, Bounds DEF Deep
      <3> QED
        BY <2>1, <3>1, <3>2, DeepIsNat DEF NoSpend
    <2>2. CASE spend # NoSpend
      BY <2>2, DeepIsNat, Bounds DEF Typed, TypeOK, ChainTypeOK, Shallow, SpendSet, Bound, Absent
    <2> QED
      BY <2>1, <2>2
  <1>3. Confs(spend.confs) \in 0..Deep
    BY <1>2, ConfsInDepth, DeepIsNat DEF Typed, Absent
  <1>4. [spend EXCEPT !.confs = Confs(spend.confs)] \in SpendSet
    BY <1>3 DEF Typed, TypeOK, ChainTypeOK, SpendSet, NoSpend, Confs
  <1> QED
    BY <1>1, <1>4 DEF View

\* Every step keeps the types of the records, of the view and of the plan.
LEMMA PassTyped ==
  ASSUME Typed, Next
  PROVE  PassTypeOK' /\ InPass'
  <1> USE DEF Typed, TypeOK, PassTypeOK, InPass, Pc, serverVars, chainVars, passVars
  <1>1. CASE Begin
    <2>1. store \in Record /\ pc' = "history" /\ mem' = store
      BY <1>1 DEF Begin
    <2> QED
      BY <1>1, <2>1 DEF Begin
  <1>2. CASE ReadHistory
    BY <1>2, HistoryIsView DEF ReadHistory
  <1>3. CASE ChainFails
    BY <1>3, Constants DEF ChainFails, Stop
  <1>4. CASE Poll
    <2>1. PICK answered, shows, payable \in BOOLEAN :
            LET merged == Merge(mem, view,
                                answered /\ shows /\ server = "Claimed",
                                answered /\ server = "Canceled")
                decided == Decide(merged, view, payable)
            IN  /\ plan' = decided
                /\ mem' = IF decided.act = "Preimage" THEN merged
                          ELSE [merged EXCEPT !.status = decided.status]
                /\ pc' = IF decided.act = "none" THEN "save" ELSE decided.act
      BY <1>4 DEF Poll
    <2> DEFINE merged == Merge(mem, view,
                               answered /\ shows /\ server = "Claimed",
                               answered /\ server = "Canceled")
               decided == Decide(merged, view, payable)
    <2>2. mem \in Record /\ store \in Record /\ view \in View
      BY <1>4 DEF Poll
    <2>3. merged \in Record
      BY <2>2, MergeIsRecord
    <2>4. /\ decided \in Plan
          /\ decided.act = "Claim" => decided.path \in ClaimPaths
      BY <2>2, <2>3, DecideIsPlan DEF ClaimPaths
    <2>5. plan' = decided /\ pc' = IF decided.act = "none" THEN "save" ELSE decided.act
      BY <2>1
    <2>6. mem' \in Record
      BY <2>1, <2>3, <2>4, StatusIsRecord, PlanHasStatus
    <2>7. pc' \in Pc \ {"idle"} /\ (pc' = "Claim" => decided.act = "Claim")
      BY <2>4, <2>5 DEF Plan
    <2>8. view' = NoView /\ store' = store
      BY <1>4 DEF Poll
    <2> HIDE DEF merged, decided
    <2> QED
      BY <2>2, <2>4, <2>5, <2>6, <2>7, <2>8, Constants
  <1>5. CASE StorePreimageSent
    <2>1. mem \in Record /\ store \in Record /\ plan \in Plan
      BY <1>5 DEF StorePreimageSent
    <2> QED
      BY <1>5, <2>1, FlagIsRecord DEF StorePreimageSent
  <1>6. CASE StorePreimageSentFails
    <2>1. mem \in Record /\ store \in Record /\ plan \in Plan
      BY <1>6 DEF StorePreimageSentFails
    <2> QED
      BY <1>6, <2>1, FlagIsRecord, StatusIsRecord, FailedIsPlan, PlanHasStatus DEF StorePreimageSentFails
  <1>7. CASE RevealPreimage
    <2>1. mem \in Record /\ store \in Record /\ plan \in Plan
      BY <1>7 DEF RevealPreimage
    <2> QED
      BY <1>7, <2>1, StatusIsRecord, PlanHasStatus DEF RevealPreimage
  <1>8. CASE SendCancel
    <2>1. mem \in Record /\ store \in Record /\ plan \in Plan
      BY <1>8 DEF SendCancel
    <2> QED
      BY <1>8, <2>1, FlagIsRecord DEF SendCancel
  <1>9. CASE SendCancelFails
    <2>1. mem \in Record /\ store \in Record /\ plan \in Plan
      BY <1>9 DEF SendCancelFails
    <2> QED
      BY <1>9, <2>1, FailedIsPlan DEF SendCancelFails
  <1>10. CASE BroadcastClaim
    BY <1>10 DEF BroadcastClaim, Acceptable
  <1>11. CASE BroadcastClaimFails
    <2>1. mem \in Record /\ store \in Record /\ plan \in Plan
      BY <1>11 DEF BroadcastClaimFails
    <2> QED
      BY <1>11, <2>1, FailedIsPlan, PlanHasStatus DEF BroadcastClaimFails
  <1>12. CASE Save
    BY <1>12, Constants DEF Save, Stop
  <1>13. CASE SaveFails
    BY <1>13, Constants DEF SaveFails, Stop
  <1>14. CASE UserCancel
    <2>1. store \in Record /\ pc = "idle" /\ pc' = pc /\ mem' = mem
      BY <1>14 DEF UserCancel
    <2>2. [store EXCEPT !.sentCancel = TRUE] \in Record
      BY <2>1, FlagIsRecord
    <2>3. store' \in {store, [store EXCEPT !.sentCancel = TRUE]}
      BY <1>14 DEF UserCancel
    <2> QED
      BY <1>14, <2>1, <2>2, <2>3 DEF UserCancel
  <1>15. CASE Crash
    BY <1>15, Constants DEF Crash, Stop
  <1>16. CASE LoseStore
    BY <1>16, Constants DEF LoseStore, Stop
  <1>17. CASE Restore
    BY <1>17, RestoredIsRecord, Constants DEF Restore
  <1>18. CASE Hold
    BY <1>18 DEF Hold, ServerStep
  <1>19. CASE Open
    BY <1>19 DEF Open, ServerStep
  <1>20. CASE ServerTimeOut
    BY <1>20 DEF ServerTimeOut, ServerStep
  <1>21. CASE Refund
    BY <1>21 DEF Refund, ServerStep, Acceptable
  <1>22. CASE LateRequest
    BY <1>22 DEF LateRequest
  <1>23. CASE Expire
    BY <1>23 DEF Expire
  <1>24. CASE Mine
    BY <1>24 DEF Mine, Deeper, Drift
  <1>25. CASE Reorg
    BY <1>25 DEF Reorg, Drift
  <1>26. CASE Evict
    BY <1>26 DEF Evict
  <1> QED
    BY <1>1, <1>2, <1>3, <1>4, <1>5, <1>6, <1>7, <1>8, <1>9, <1>10, <1>11, <1>12, <1>13, <1>14, <1>15, <1>16, <1>17, <1>18, <1>19, <1>20, <1>21, <1>22, <1>23, <1>24, <1>25, <1>26 DEF Next, Pass, App, Server, Chain

\* Every step keeps the evidence: whatever shows that the preimage may have left
\* is backed by the flag in a record or by the release itself.
LEMMA EvidenceHolds ==
  ASSUME Typed, Evidence, Next
  PROVE  Evidence'
  <1> USE DEF Evidence, RecordShows, serverVars, chainVars, passVars
  <1>1. CASE Begin
    BY <1>1 DEF Begin
  <1>2. CASE ReadHistory
    BY <1>2 DEF ReadHistory, Typed, TypeOK, ChainTypeOK, SpendSet, NoSpend
  <1>3. CASE ChainFails
    BY <1>3 DEF ChainFails, Stop, NoView, NoSpend, ClaimPaths
  <1>4. CASE Poll
    <2>1. PICK answered, shows, payable \in BOOLEAN :
            LET merged == Merge(mem, view,
                                answered /\ shows /\ server = "Claimed",
                                answered /\ server = "Canceled")
                decided == Decide(merged, view, payable)
            IN  /\ plan' = decided
                /\ mem' = IF decided.act = "Preimage" THEN merged
                          ELSE [merged EXCEPT !.status = decided.status]
                /\ pc' = IF decided.act = "none" THEN "save" ELSE decided.act
      BY <1>4 DEF Poll
    <2> DEFINE merged == Merge(mem, view,
                               answered /\ shows /\ server = "Claimed",
                               answered /\ server = "Canceled")
               decided == Decide(merged, view, payable)
    <2>2. mem \in Record /\ store \in Record /\ view \in View
      BY <1>4 DEF Poll, Typed, TypeOK, PassTypeOK, InPass
    <2>3. /\ merged \in Record
          /\ merged.sentPreimage = mem.sentPreimage
          /\ merged.key \/ merged.preimage => released
      <3>1. /\ merged \in Record
            /\ merged.sentPreimage = mem.sentPreimage
            /\ merged.key <=> (mem.key \/ (answered /\ shows /\ server = "Claimed"))
            /\ merged.preimage <=> (mem.preimage \/ view.spend.path = "Preimage")
        BY <2>2, MergeIsRecord
      <3>2. mem # NoRecord
        BY <2>2, Constants
      <3> HIDE DEF merged
      <3> QED
        BY <3>1, <3>2 DEF ClaimPaths
    <2>4. /\ decided \in Plan
          /\ decided.act = "Claim" =>
                released \/ (decided.path = "Preimage" /\ merged.sentPreimage)
      BY <2>2, <2>3, DecideIsPlan DEF ClaimPaths
    <2>5. plan' = decided /\ pc' = IF decided.act = "none" THEN "save" ELSE decided.act
      BY <2>1
    <2>6. /\ mem'.key = merged.key /\ mem'.preimage = merged.preimage
          /\ mem'.sentPreimage = merged.sentPreimage
      BY <2>1, <2>3, <2>4, PlanHasStatus DEF Record
    <2>7. view' = NoView /\ UNCHANGED <<server, settled, wire, spend, store, released>>
      BY <1>4 DEF Poll
    <2> HIDE DEF merged, decided
    <2> QED
      BY <2>3, <2>4, <2>5, <2>6, <2>7 DEF NoView, NoSpend, ClaimPaths
  <1>5. CASE StorePreimageSent
    <2>1. mem \in Record /\ store \in Record /\ plan \in Plan
      BY <1>5 DEF StorePreimageSent, Typed, TypeOK, PassTypeOK, InPass
    <2> QED
      BY <1>5, <2>1, Constants, FlagIsRecord DEF StorePreimageSent, SameShown
  <1>6. CASE StorePreimageSentFails
    <2>1. mem \in Record /\ store \in Record /\ plan \in Plan
      BY <1>6 DEF StorePreimageSentFails, Typed, TypeOK, PassTypeOK, InPass
    <2>2. store' \in {store, [mem EXCEPT !.sentPreimage = TRUE]}
          /\ mem' = [mem EXCEPT !.sentPreimage = TRUE, !.status = plan.status]
      BY <1>6 DEF StorePreimageSentFails
    <2>3. RecordShows(store') => RecordShows(store) \/ RecordShows(mem)
      BY <2>1, <2>2, Constants, FlagIsRecord DEF SameShown
    <2>4. RecordShows(mem') => RecordShows(mem)
      <3>1. plan.status \in Status
        BY <2>1, PlanHasStatus
      <3>2. mem' \in Record /\ SameShown(mem', mem)
        BY <2>1, <2>2, <3>1, StatusIsRecord
      <3> QED
        BY <2>1, <3>2, Constants DEF SameShown
    <2> QED
      BY <1>6, <2>3, <2>4 DEF StorePreimageSentFails
  <1>7. CASE RevealPreimage
    BY <1>7 DEF RevealPreimage, Unanswered
  <1>8. CASE SendCancel
    <2>1. mem \in Record /\ store \in Record /\ plan \in Plan
      BY <1>8 DEF SendCancel, Typed, TypeOK, PassTypeOK, InPass
    <2> QED
      BY <1>8, <2>1, Constants, FlagIsRecord DEF SendCancel, TakeCancel, SameShown
  <1>9. CASE SendCancelFails
    BY <1>9 DEF SendCancelFails, Unanswered, Take, TakeCancel
  <1>10. CASE BroadcastClaim
    BY <1>10 DEF BroadcastClaim, Acceptable
  <1>11. CASE BroadcastClaimFails
    BY <1>11 DEF BroadcastClaimFails, Acceptable
  <1>12. CASE Save
    BY <1>12 DEF Save, Stop, NoView, NoSpend, ClaimPaths
  <1>13. CASE SaveFails
    BY <1>13 DEF SaveFails, Stop, NoView, NoSpend, ClaimPaths
  <1>14. CASE UserCancel
    <2>1. store \in Record /\ pc = "idle"
      BY <1>14 DEF UserCancel, Typed, TypeOK, PassTypeOK
    <2>2. store' \in {store, [store EXCEPT !.sentCancel = TRUE]}
      BY <1>14 DEF UserCancel
    <2>3. RecordShows(store') => RecordShows(store)
      BY <2>1, <2>2, FlagIsRecord, Constants DEF RecordShows, SameShown
    <2> QED
      BY <1>14, <2>1, <2>3 DEF UserCancel, Unanswered, Take, TakeCancel
  <1>15. CASE Crash
    BY <1>15 DEF Crash, Stop, NoView, NoSpend, ClaimPaths
  <1>16. CASE LoseStore
    BY <1>16 DEF LoseStore, Stop, NoView, NoSpend, ClaimPaths
  <1>17. CASE Restore
    BY <1>17 DEF Restore, Accepted
  <1>18. CASE Hold
    BY <1>18 DEF Hold, ServerStep
  <1>19. CASE Open
    BY <1>19 DEF Open, ServerStep
  <1>20. CASE ServerTimeOut
    BY <1>20 DEF ServerTimeOut, ServerStep
  <1>21. CASE Refund
    BY <1>21 DEF Refund, ServerStep, ClaimPaths
  <1>22. CASE LateRequest
    BY <1>22 DEF LateRequest, Take, TakePreimage, TakeCancel
  <1>23. CASE Expire
    BY <1>23 DEF Expire
  <1>24. CASE Mine
    BY <1>24 DEF Mine, Deeper, Drift
  <1>25. CASE Reorg
    BY <1>25 DEF Reorg, Drift
  <1>26. CASE Evict
    BY <1>26 DEF Evict, NoSpend, ClaimPaths
  <1> QED
    BY <1>1, <1>2, <1>3, <1>4, <1>5, <1>6, <1>7, <1>8, <1>9, <1>10, <1>11, <1>12, <1>13, <1>14, <1>15, <1>16, <1>17, <1>18, <1>19, <1>20, <1>21, <1>22, <1>23, <1>24, <1>25, <1>26 DEF Next, Pass, App, Server, Chain

\* Every step keeps the flag in the store ahead of the release.
LEMMA AheadHolds ==
  ASSUME Typed, Evidence, Ahead, Next
  PROVE  Ahead'
  <1> USE DEF Ahead, serverVars, chainVars, passVars
  <1>1. CASE Begin
    BY <1>1 DEF Begin
  <1>2. CASE ReadHistory
    BY <1>2 DEF ReadHistory
  <1>3. CASE ChainFails
    BY <1>3 DEF ChainFails, Stop
  <1>4. CASE Poll
    <2>1. PICK answered, shows, payable \in BOOLEAN :
            LET merged == Merge(mem, view,
                                answered /\ shows /\ server = "Claimed",
                                answered /\ server = "Canceled")
                decided == Decide(merged, view, payable)
            IN  /\ plan' = decided
                /\ mem' = IF decided.act = "Preimage" THEN merged
                          ELSE [merged EXCEPT !.status = decided.status]
                /\ pc' = IF decided.act = "none" THEN "save" ELSE decided.act
      BY <1>4 DEF Poll
    <2> DEFINE merged == Merge(mem, view,
                               answered /\ shows /\ server = "Claimed",
                               answered /\ server = "Canceled")
               decided == Decide(merged, view, payable)
    <2>2. mem \in Record /\ store \in Record /\ view \in View
      BY <1>4 DEF Poll, Typed, TypeOK, PassTypeOK, InPass
    <2>3. /\ merged \in Record
          /\ merged.sentPreimage = mem.sentPreimage
          /\ merged.key \/ merged.preimage => released
      BY <2>2, MergeIsRecord, Constants DEF ClaimPaths, Evidence, RecordShows
    <2>4. /\ decided \in Plan
          /\ decided.act = "Preimage" => ~merged.sentPreimage
      BY <2>2, <2>3, DecideIsPlan
    <2>5. pc' = IF decided.act = "none" THEN "save" ELSE decided.act
      BY <2>1
    <2>6. mem'.sentPreimage = merged.sentPreimage
      BY <2>1, <2>3, <2>4, PlanHasStatus DEF Record
    <2>7. pc = "poll" /\ UNCHANGED <<store, released, used>>
      BY <1>4 DEF Poll
    <2>8. pc' # "reveal" /\ pc' # "history" /\ pc' # "poll"
      BY <2>4, <2>5 DEF Plan
    <2> HIDE DEF merged, decided
    <2> QED
      BY <2>3, <2>6, <2>7, <2>8
  <1>5. CASE StorePreimageSent
    <2>1. mem \in Record /\ store \in Record /\ plan \in Plan
      BY <1>5 DEF StorePreimageSent, Typed, TypeOK, PassTypeOK, InPass
    <2> QED
      BY <1>5, <2>1, FlagIsRecord, Constants DEF StorePreimageSent
  <1>6. CASE StorePreimageSentFails
    <2>1. mem \in Record /\ store \in Record /\ plan \in Plan
      BY <1>6 DEF StorePreimageSentFails, Typed, TypeOK, PassTypeOK, InPass
    <2> QED
      BY <1>6, <2>1, FlagIsRecord, StatusIsRecord, PlanHasStatus, Constants DEF StorePreimageSentFails
  <1>7. CASE RevealPreimage
    BY <1>7 DEF RevealPreimage, Unanswered
  <1>8. CASE SendCancel
    BY <1>8 DEF SendCancel, TakeCancel
  <1>9. CASE SendCancelFails
    BY <1>9 DEF SendCancelFails, Unanswered
  <1>10. CASE BroadcastClaim
    BY <1>10 DEF BroadcastClaim, Evidence, Typed, InPass
  <1>11. CASE BroadcastClaimFails
    BY <1>11 DEF BroadcastClaimFails, Evidence, Typed, InPass
  <1>12. CASE Save
    <2>1. mem \in Record /\ store \in Record /\ plan \in Plan
      BY <1>12 DEF Save, Typed, TypeOK, PassTypeOK, InPass
    <2> QED
      BY <1>12, <2>1, Constants DEF Save, Stop
  <1>13. CASE SaveFails
    <2>1. mem \in Record /\ store \in Record /\ plan \in Plan
      BY <1>13 DEF SaveFails, Typed, TypeOK, PassTypeOK, InPass
    <2> QED
      BY <1>13, <2>1, Constants DEF SaveFails, Stop
  <1>14. CASE UserCancel
    <2>1. store \in Record /\ pc = "idle"
      BY <1>14 DEF UserCancel, Typed, TypeOK, PassTypeOK
    <2>2. store' \in {store, [store EXCEPT !.sentCancel = TRUE]}
      BY <1>14 DEF UserCancel
    <2>3. store' \in Record /\ store'.sentPreimage = store.sentPreimage
      BY <2>1, <2>2, FlagIsRecord
    <2> QED
      BY <1>14, <2>1, <2>3, Constants DEF UserCancel
  <1>15. CASE Crash
    BY <1>15 DEF Crash, Stop
  <1>16. CASE LoseStore
    BY <1>16, Bounds DEF LoseStore, Stop, Typed, TypeOK, ChainTypeOK, Bound
  <1>17. CASE Restore
    BY <1>17 DEF Restore, Accepted
  <1>18. CASE Hold
    BY <1>18 DEF Hold, ServerStep
  <1>19. CASE Open
    BY <1>19 DEF Open, ServerStep
  <1>20. CASE ServerTimeOut
    BY <1>20 DEF ServerTimeOut, ServerStep
  <1>21. CASE Refund
    BY <1>21 DEF Refund, ServerStep, Acceptable
  <1>22. CASE LateRequest
    BY <1>22 DEF LateRequest
  <1>23. CASE Expire
    BY <1>23 DEF Expire
  <1>24. CASE Mine
    BY <1>24 DEF Mine, Deeper, Drift
  <1>25. CASE Reorg
    BY <1>25 DEF Reorg, Drift
  <1>26. CASE Evict
    BY <1>26 DEF Evict
  <1> QED
    BY <1>1, <1>2, <1>3, <1>4, <1>5, <1>6, <1>7, <1>8, <1>9, <1>10, <1>11, <1>12, <1>13, <1>14, <1>15, <1>16, <1>17, <1>18, <1>19, <1>20, <1>21, <1>22, <1>23, <1>24, <1>25, <1>26 DEF Next, Pass, App, Server, Chain

-----------------------------------------------------------------------------
(* The theorems.                                                           *)

\* The inductive invariant.
Inv == Typed /\ Evidence /\ Ahead

\* The inductive invariant holds at the start.
LEMMA InvInit == Init => Inv
  <1> SUFFICES ASSUME Init PROVE Inv
    OBVIOUS
  <1> USE DeepIsNat, CsvInRange, Bounds, Constants DEF Init
  <1>1. Accepted \in Record /\ ~Accepted.key /\ ~Accepted.preimage /\ ~Accepted.sentPreimage
    BY DEF Accepted, Record, Status
  <1>2. ChainTypeOK /\ Shallow
    BY DEF ChainTypeOK, Shallow, Absent, SpendSet, Bound
  <1>3. ServerTypeOK /\ NotOpened
    BY DEF ServerTypeOK, ServerStatus, NotOpened
  <1>4. PassTypeOK /\ InPass
    BY <1>1 DEF PassTypeOK, InPass, Pc
  <1>5. Evidence
    BY <1>1 DEF Evidence, RecordShows, ClaimPaths, NoSpend, NoView
  <1>6. Ahead
    BY <1>1 DEF Ahead
  <1> QED
    BY <1>2, <1>3, <1>4, <1>5, <1>6 DEF Inv, Typed, TypeOK

\* Every step keeps the inductive invariant.
LEMMA InvStep == Inv /\ [Next]_vars => Inv'
  <1> SUFFICES ASSUME Inv, [Next]_vars PROVE Inv'
    OBVIOUS
  <1>1. CASE Next
    BY <1>1, ServerTyped, ChainTyped, PassTyped, EvidenceHolds, AheadHolds
       DEF Inv, Typed, TypeOK
  <1>2. CASE UNCHANGED vars
    BY <1>2 DEF vars, chainVars, serverVars, passVars, Inv, Typed, TypeOK,
                ChainTypeOK, ServerTypeOK, PassTypeOK, InPass, Shallow, NotOpened,
                Evidence, RecordShows, Ahead
  <1> QED
    BY <1>1, <1>2

\* The inductive invariant holds in every behaviour.
LEMMA Invariance == Spec => []Inv
  BY InvInit, InvStep, PTL DEF Spec

\* The variables keep their types, a spend stays within the depth of the
\* opening, and the tip within what was mined and dropped, whatever the world
\* does between the awaits of a pass.
THEOREM TypeCorrect == Spec => []TypeOK
  <1>1. Inv => TypeOK
    BY DEF Inv, Typed
  <1> QED
    BY <1>1, Invariance, PTL

\* The write-ahead of the preimage (driver/tick.rs:171), for any number of
\* crashes, failed saves, reorgs and evictions.
THEOREM PreimageIsRecorded == Spec => []PreimageRecorded
  <1>1. Inv => PreimageRecorded
    BY DEF Inv, Ahead, PreimageRecorded
  <1> QED
    BY <1>1, Invariance, PTL

\* The server's hold on the payment and the driver's release of the preimage.
TakenWithPreimage == settled => released

\* The server takes the payment only with a preimage that left this process,
\* at once or with a request that timed out (tests/driver/world/server.rs:461).
THEOREM TakenOnlyReleased == Spec => []TakenWithPreimage
  <1>1. Inv => TakenWithPreimage
    BY DEF Inv, Evidence, TakenWithPreimage
  <1> QED
    BY <1>1, Invariance, PTL

-----------------------------------------------------------------------------
(* What a pass decides on, for the layers that follow.                     *)

\* The record has it that the preimage may have left.
Marks(r) == r # NoRecord /\ (r.sentPreimage \/ r.key \/ r.preimage)

\* The record of a pass keeps what the store's shows.
Carried ==
    pc # "idle" =>
        /\ store.sentPreimage => mem.sentPreimage
        /\ store.key => mem.key
        /\ store.preimage => mem.preimage

\* What each decision was taken on. The window of a claim is not looked at
\* again once anything shows the preimage left.
LEMMA DecideBecause ==
  ASSUME NEW r \in Record, NEW v \in View, NEW payable \in BOOLEAN
  PROVE  LET d    == Decide(r, v, payable)
             left == r.sentPreimage \/ r.key \/ r.preimage \/ v.spend.path = "Keypath"
         IN  /\ d.ok
             /\ d.act = "Preimage" =>
                  /\ ~left /\ v.spend = NoSpend /\ d.status = "Confirming"
                  /\ v.opening >= MinConfs /\ CsvLeft(v) >= ClaimMargin
             /\ d.act = "Claim" =>
                  left /\ d.status = "Claiming" /\ d.replaces = (v.spend # NoSpend)
             /\ d.act = "Cancel" => v.opening = Absent /\ d.status = "Funding"
             /\ d.act = "none" /\ left => v.opening < MinConfs \/ v.spend # NoSpend
             /\ d.status = "ServerCanceled" => r.serverCancel /\ d.act = "none"
             /\ d.status \in {"Completed", "ServerRefunded"} =>
                  /\ d.act = "none" /\ v.spend.confs >= MinConfs
                  /\ (v.spend.path = "Csv") <=> (d.status = "ServerRefunded")
             /\ d.status = "ClaimWindowClosed" =>
                  /\ d.act = "none" /\ ~left
                  /\ v.opening > 0 /\ CsvLeft(v) < ClaimMargin
  <1> DEFINE left == r.sentPreimage \/ r.key \/ r.preimage \/ v.spend.path = "Keypath"
             d    == Decide(r, v, payable)
  <1>1. v.opening \in Int /\ v.spend.confs \in Int /\ v.spend \in SpendSet
    BY DeepIsNat DEF View, Absent, SpendSet, NoSpend
  <1>2. CASE v.opening = Absent
    <2>1. d = Funding(r)
      BY <1>2 DEF Decide
    <2>2. v.opening < MinConfs
      BY <1>2, CsvInRange DEF Absent
    <2> QED
      BY <1>2, <2>1, <2>2 DEF Funding, Only, NoPlan
  <1>3. CASE v.opening # Absent /\ v.spend.confs >= MinConfs
    <2>1. d = Spent(v)
      BY <1>3 DEF Decide
    <2>2. v.spend # NoSpend
      BY <1>3, CsvInRange DEF NoSpend
    <2> QED
      BY <1>3, <2>1, <2>2 DEF Spent, Only, NoPlan
  <1>4. CASE v.opening # Absent /\ ~(v.spend.confs >= MinConfs) /\ left
    <2>1. d = Claiming(r, v)
      BY <1>4 DEF Decide, PreimageLeft, KeypathClaim
    <2>2. /\ d.status = "Claiming" /\ d.ok /\ d.replaces = (v.spend # NoSpend)
          /\ d.act = IF ClaimPath(r, v) = "none" THEN "none" ELSE "Claim"
      BY <2>1 DEF Claiming, Only, NoPlan
    <2>3. ClaimPath(r, v) = "none" => v.opening < MinConfs \/ v.spend # NoSpend
      BY <1>1, <1>4, CsvInRange DEF ClaimPath, KeypathClaim, NoSpend
    <2> QED
      BY <1>4, <2>2, <2>3
  <1>5. CASE v.opening # Absent /\ ~(v.spend.confs >= MinConfs) /\ ~left
    <2>1. d = Confirming(v, payable)
      BY <1>5 DEF Decide, PreimageLeft, KeypathClaim
    <2> QED
      BY <1>5, <2>1 DEF Confirming, Only, NoPlan
  <1> QED
    BY <1>2, <1>3, <1>4, <1>5

\* A poll decides on the record with what the answer and the chain proved, and
\* leaves the status for later only when the preimage is to go out.
LEMMA PollDecides ==
  ASSUME Typed, Poll
  PROVE  \E m \in Record, d \in Plan, payable, key, canceled \in BOOLEAN :
            /\ d = Decide(m, view, payable)
            /\ key => server = "Claimed"
            /\ canceled => server = "Canceled"
            /\ m.status = mem.status /\ m.sentPreimage = mem.sentPreimage
            /\ m.key <=> (mem.key \/ key)
            /\ m.preimage <=> (mem.preimage \/ view.spend.path = "Preimage")
            /\ m.serverCancel <=> (mem.serverCancel \/ canceled)
            /\ plan' = d
            /\ mem' \in Record
            /\ mem'.status = IF d.act = "Preimage" THEN mem.status ELSE d.status
            /\ mem'.sentPreimage = m.sentPreimage /\ mem'.key = m.key
            /\ mem'.preimage = m.preimage /\ mem'.serverCancel = m.serverCancel
            /\ pc' = IF d.act = "none" THEN "save" ELSE d.act
  <1>1. PICK answered, shows, payable \in BOOLEAN :
          LET merged == Merge(mem, view,
                              answered /\ shows /\ server = "Claimed",
                              answered /\ server = "Canceled")
              decided == Decide(merged, view, payable)
          IN  /\ plan' = decided
              /\ mem' = IF decided.act = "Preimage" THEN merged
                        ELSE [merged EXCEPT !.status = decided.status]
              /\ pc' = IF decided.act = "none" THEN "save" ELSE decided.act
    BY DEF Poll
  <1>2. PICK key \in BOOLEAN : key <=> (answered /\ shows /\ server = "Claimed")
    OBVIOUS
  <1>3. PICK canceled \in BOOLEAN : canceled <=> (answered /\ server = "Canceled")
    OBVIOUS
  <1> DEFINE m == Merge(mem, view, key, canceled)
             d == Decide(m, view, payable)
  <1>4. mem \in Record /\ view \in View
    BY DEF Poll, Typed, TypeOK, PassTypeOK, InPass
  <1>5. /\ m \in Record
        /\ m.status = mem.status /\ m.sentPreimage = mem.sentPreimage
        /\ m.key <=> (mem.key \/ key)
        /\ m.preimage <=> (mem.preimage \/ view.spend.path = "Preimage")
        /\ m.serverCancel <=> (mem.serverCancel \/ canceled)
    BY <1>4 DEF Merge, Record
  <1>6. d \in Plan
    BY <1>4, <1>5, DecideIsPlan
  <1>7. /\ plan' = d
        /\ mem' = IF d.act = "Preimage" THEN m ELSE [m EXCEPT !.status = d.status]
        /\ pc' = IF d.act = "none" THEN "save" ELSE d.act
    BY <1>1, <1>2, <1>3
  <1>8. d.status \in Status
    BY <1>6, PlanHasStatus
  <1> HIDE DEF m, d
  <1>9. /\ mem' \in Record
        /\ mem'.status = IF d.act = "Preimage" THEN mem.status ELSE d.status
        /\ mem'.sentPreimage = m.sentPreimage /\ mem'.key = m.key
        /\ mem'.preimage = m.preimage /\ mem'.serverCancel = m.serverCancel
    BY <1>5, <1>7, <1>8 DEF Record
  <1>10. d = Decide(m, view, payable)
    BY DEF d
  <1> QED
    BY <1>2, <1>3, <1>5, <1>6, <1>7, <1>9, <1>10

-----------------------------------------------------------------------------
(* Reports: a final status reports what the chain did.                     *)

\* A spend is min_confs deep less what reorgs dropped, the refund or not.
Sunk(csv) ==
    used.reorgs < MinConfs =>
        /\ spend.confs + used.reorgs >= MinConfs
        /\ (spend.path = "Csv") <=> csv

Reported(r) == /\ r.status = "Completed" => Sunk(FALSE)
               /\ r.status = "ServerRefunded" => Sunk(TRUE)

\* Whatever holds a final status, or the view that leads to one, saw a spend
\* that only more reorgs can lift off the chain.
Reports ==
    /\ Reported(store) /\ Reported(mem) /\ Reported(plan)
    /\ pc = "poll" /\ view.spend.confs >= MinConfs => Sunk(view.spend.path = "Csv")

\* A spend that is deep stays, whatever the step.
LEMMA SunkStays ==
  ASSUME Typed, Next, NEW csv \in BOOLEAN, Sunk(csv)
  PROVE  Sunk(csv)'
  <1> SUFFICES ASSUME used'.reorgs < MinConfs
               PROVE  /\ spend'.confs + used'.reorgs >= MinConfs
                      /\ (spend'.path = "Csv") <=> csv
    BY DEF Sunk
  <1> USE CsvInRange, Bounds, DeepIsNat DEF Sunk, Typed, TypeOK, ChainTypeOK, Bound, SpendSet, NoSpend, Absent, serverVars, chainVars, passVars, Acceptable
  <1>1. CASE UNCHANGED <<spend, used>>
    BY <1>1
  <1>2. CASE LoseStore
    BY <1>2 DEF LoseStore
  <1>3. CASE BroadcastClaim \/ BroadcastClaimFails
    BY <1>3 DEF BroadcastClaim, BroadcastClaimFails
  <1>4. CASE Refund
    BY <1>4 DEF Refund, ServerStep
  <1>5. CASE Mine
    BY <1>5 DEF Mine, Deeper
  <1>6. CASE Reorg
    BY <1>6 DEF Reorg
  <1>7. CASE Evict
    BY <1>7 DEF Evict
  <1>8. CASE /\ ~LoseStore /\ ~(BroadcastClaim \/ BroadcastClaimFails)
             /\ ~Refund /\ ~Mine /\ ~Reorg /\ ~Evict
    BY <1>1, <1>8 DEF Next, Pass, App, Server, Chain, Begin, ReadHistory, ChainFails, Poll, StorePreimageSent, StorePreimageSentFails, RevealPreimage, SendCancel, SendCancelFails, Save, SaveFails, UserCancel, Crash, Restore, Hold, Open, ServerTimeOut, LateRequest, Expire, ServerStep
  <1> QED
    BY <1>2, <1>3, <1>4, <1>5, <1>6, <1>7, <1>8

\* Where the statuses of a step come from, but for those a poll decides.
LEMMA StatusMoves ==
  ASSUME Typed, Next
  PROVE  /\ store'.status \in {store.status, mem.status, "none", "Restoring"}
         /\ ~Poll => mem'.status \in {store.status, mem.status, plan.status, "none"}
         /\ ~Poll => plan'.status \in {plan.status, "Restoring"}
  <1>1. /\ store \in Record \cup {NoRecord} /\ mem \in Record \cup {NoRecord} /\ plan \in Plan
        /\ pc # "idle" => mem \in Record
    BY DEF Typed, TypeOK, PassTypeOK, InPass
  <1>2. NoRecord.status = "none" /\ NoPlan.status = "Restoring"
    BY DEF NoRecord, NoPlan
  <1>3. \A r \in Record : /\ [r EXCEPT !.sentPreimage = TRUE].status = r.status
                          /\ [r EXCEPT !.sentCancel = TRUE].status = r.status
                          /\ \A t \in Status :
                                /\ [r EXCEPT !.status = t].status = t
                                /\ [r EXCEPT !.sentPreimage = TRUE, !.status = t].status = t
    BY DEF Record
  <1>4. plan.status \in Status /\ \A b \in BOOLEAN : [plan EXCEPT !.ok = b].status = plan.status
    BY <1>1 DEF Plan
  <1> USE <1>1, <1>2, <1>3, <1>4 DEF serverVars, chainVars, passVars, Stop
  <1>5. CASE Begin
    BY <1>5 DEF Begin
  <1>6. CASE StorePreimageSent
    BY <1>6 DEF StorePreimageSent
  <1>7. CASE StorePreimageSentFails
    BY <1>7 DEF StorePreimageSentFails
  <1>8. CASE RevealPreimage
    BY <1>8 DEF RevealPreimage
  <1>9. CASE SendCancel
    BY <1>9 DEF SendCancel
  <1>10. CASE SendCancelFails
    BY <1>10 DEF SendCancelFails
  <1>11. CASE BroadcastClaimFails
    <2>1. plan.replaces \in BOOLEAN
      BY DEF Plan
    <2> QED
      BY <1>11, <2>1 DEF BroadcastClaimFails
  <1>12. CASE Save
    BY <1>12 DEF Save
  <1>13. CASE SaveFails
    BY <1>13 DEF SaveFails
  <1>14. CASE UserCancel
    <2>1. store \in Record
      BY <1>14 DEF UserCancel
    <2>2. store' \in {store, [store EXCEPT !.sentCancel = TRUE]} /\ UNCHANGED <<mem, plan>>
      BY <1>14 DEF UserCancel
    <2> QED
      BY <2>1, <2>2
  <1>15. CASE LoseStore
    BY <1>15 DEF LoseStore
  <1>16. CASE Restore
    <2>1. store'.status = "Restoring"
      BY <1>16 DEF Restore, Accepted
    <2> QED
      BY <1>16, <2>1 DEF Restore
  <1>17. CASE Poll
    BY <1>17 DEF Poll
  <1>18. CASE ChainFails \/ Crash
    BY <1>18 DEF ChainFails, Crash
  <1>19. CASE ReadHistory \/ BroadcastClaim
    BY <1>19 DEF ReadHistory, BroadcastClaim
  <1>20. CASE Server
    BY <1>20 DEF Server, Hold, Open, ServerTimeOut, Refund, ServerStep, LateRequest, Expire
  <1>21. CASE Chain
    BY <1>21 DEF Chain, Mine, Reorg, Evict
  <1> QED
    BY <1>5, <1>6, <1>7, <1>8, <1>9, <1>10, <1>11, <1>12, <1>13, <1>14, <1>15, <1>16, <1>17, <1>18, <1>19, <1>20, <1>21 DEF Next, Pass, App

\* A view is that of the read the pass made, until the poll that decides on it.
LEMMA ViewStays ==
  ASSUME Typed, Next, pc' = "poll"
  PROVE  ReadHistory \/ (pc = "poll" /\ view' = view /\ mem' = mem /\ store' = store)
  <1>1. ~Poll
    <2>1. SUFFICES ASSUME Poll PROVE FALSE
      OBVIOUS
    <2>2. PICK d \in Plan : pc' = IF d.act = "none" THEN "save" ELSE d.act
      BY <2>1, PollDecides
    <2> QED
      BY <2>2 DEF Plan
  <1>2. pc # "idle" => store # NoRecord
    BY Constants DEF Typed, InPass
  <1> QED
    BY <1>1, <1>2 DEF Next, Pass, App, Server, Chain, Begin, ChainFails, StorePreimageSent, StorePreimageSentFails, RevealPreimage, SendCancel, SendCancelFails, BroadcastClaim, BroadcastClaimFails, Save, SaveFails, UserCancel, Crash, LoseStore, Restore, Hold, Open, ServerTimeOut, Refund, LateRequest, Expire, ServerStep, Mine, Reorg, Evict, Stop, passVars

\* What a pass reads is as deep as the spend is, less the blocks dropped.
LEMMA ReadIsSunk ==
  ASSUME Typed, ReadHistory, view'.spend.confs >= MinConfs
  PROVE  Sunk(view.spend.path = "Csv")'
  <1>1. /\ view'.spend.confs = Confs(spend.confs)
        /\ view'.spend.path = spend.path
    BY DEF ReadHistory, Typed, TypeOK, ChainTypeOK, SpendSet, NoSpend
  <1>2. /\ spend.confs \in Nat /\ drift \in Int
        /\ used.reorgs \in Nat /\ drift >= -used.reorgs
    BY DeepIsNat, Bounds DEF Typed, TypeOK, ChainTypeOK, SpendSet, NoSpend, Bound
  <1>3. spend.confs + used.reorgs >= MinConfs
    BY <1>1, <1>2, CsvInRange DEF Confs
  <1>4. UNCHANGED <<spend, used>>
    BY DEF ReadHistory, chainVars
  <1> QED
    BY <1>1, <1>3, <1>4 DEF Sunk

\* Every step keeps the reports true.
LEMMA ReportsHold ==
  ASSUME Typed, Reports, Next
  PROVE  Reports'
  <1>1. /\ Sunk(TRUE) => Sunk(TRUE)'
        /\ Sunk(FALSE) => Sunk(FALSE)'
    BY SunkStays
  <1>2. Reported(store) /\ Reported(mem) /\ Reported(plan)
    BY DEF Reports
  <1>3. \A t \in {store.status, mem.status, plan.status} :
            /\ t = "Completed" => Sunk(FALSE)'
            /\ t = "ServerRefunded" => Sunk(TRUE)'
    BY <1>1, <1>2 DEF Reported
  <1>4. Reported(store)'
    BY <1>3, StatusMoves DEF Reported
  <1>5. Reported(mem)' /\ Reported(plan)'
    <2>1. CASE ~Poll
      BY <2>1, <1>3, StatusMoves DEF Reported
    <2>2. CASE Poll
      <3>1. PICK m \in Record, d \in Plan, payable \in BOOLEAN :
              /\ d = Decide(m, view, payable)
              /\ plan' = d
              /\ mem'.status = IF d.act = "Preimage" THEN mem.status ELSE d.status
        BY <2>2, PollDecides
      <3>2. view \in View
        BY DEF Typed, TypeOK, PassTypeOK
      <3>3. d.status \in {"Completed", "ServerRefunded"} =>
              /\ view.spend.confs >= MinConfs
              /\ (view.spend.path = "Csv") <=> (d.status = "ServerRefunded")
        BY <3>1, <3>2, DecideBecause
      <3>4. pc = "poll"
        BY <2>2 DEF Poll
      <3>5. /\ d.status = "Completed" => Sunk(FALSE)
            /\ d.status = "ServerRefunded" => Sunk(TRUE)
        BY <3>3, <3>4 DEF Reports, Sunk
      <3> QED
        BY <1>1, <1>3, <3>1, <3>5 DEF Reported
    <2> QED
      BY <2>1, <2>2
  <1>6. (pc = "poll" /\ view.spend.confs >= MinConfs => Sunk(view.spend.path = "Csv"))'
    <2>1. SUFFICES ASSUME pc' = "poll", view'.spend.confs >= MinConfs
                   PROVE  Sunk(view.spend.path = "Csv")'
      OBVIOUS
    <2>2. CASE ReadHistory
      BY <2>1, <2>2, ReadIsSunk
    <2>3. CASE pc = "poll" /\ view' = view
      BY <1>1, <2>1, <2>3 DEF Reports, Sunk
    <2> QED
      BY <2>1, <2>2, <2>3, ViewStays
  <1> QED
    BY <1>4, <1>5, <1>6 DEF Reports

-----------------------------------------------------------------------------
(* Seen: how far a view may be from the chain when the pass decides on it. *)

\* Fewer blocks are mined between two good passes than claim_margin.
PaceInMargin == MaxPace < ClaimMargin

\* The opening is deeper than seen by no more than the blocks mined in the
\* pass, and less deep by no more than the blocks dropped; and a view with no
\* spend and the margin left is not of an opening refunded since.
Seen ==
    /\ spend.path = "Csv" => server = "AwaitRefundTxConfirmation"
    /\ pc = "poll" =>
         /\ opening <= (IF view.opening > 0 THEN view.opening ELSE 0) + pace
         /\ used.reorgs < MinConfs /\ view.opening >= MinConfs =>
               opening + used.reorgs >= view.opening
         /\ view.spend = NoSpend /\ view.opening + ClaimMargin <= Csv =>
               spend.path # "Csv"
         /\ view.spend.path = "Csv" => server = "AwaitRefundTxConfirmation"

\* The margin in the terms the invariants use.
LEMMA MarginLeft ==
  ASSUME PaceInMargin, NEW v \in View
  PROVE  CsvLeft(v) >= ClaimMargin <=> v.opening + ClaimMargin <= Csv
  BY CsvInRange, Bounds, DeepIsNat DEF PaceInMargin, CsvLeft, View, Absent

\* The depths, as integers.
LEMMA Depths ==
  ASSUME Typed
  PROVE  /\ opening \in Int /\ opening >= -1 /\ spend.confs \in Nat
         /\ spend # NoSpend => spend.confs <= opening
         /\ pace \in Nat /\ pace <= MaxPace /\ MaxPace \in Nat
         /\ used.reorgs \in Nat /\ used.reorgs <= MaxReorgs /\ MaxReorgs \in Nat
         /\ used.evictions \in Nat /\ used.evictions <= MaxEvictions /\ MaxEvictions \in Nat
         /\ drift \in Int /\ drift >= -used.reorgs /\ drift <= pace
         /\ view.opening \in Int /\ view.opening >= -1
  BY DeepIsNat, Bounds DEF Typed, TypeOK, ChainTypeOK, PassTypeOK, View, SpendSet, NoSpend, Bound, Absent

\* Every step keeps a view as near.
LEMMA SeenHolds ==
  ASSUME PaceInMargin, Typed, Seen, Next
  PROVE  Seen'
  <1> USE Depths, CsvInRange, Bounds, DeepIsNat DEF serverVars, chainVars, passVars
  <1>1. (spend.path = "Csv" => server = "AwaitRefundTxConfirmation")'
    <2>1. CASE BroadcastClaim \/ BroadcastClaimFails
      BY <2>1 DEF BroadcastClaim, BroadcastClaimFails, Typed, InPass, Seen, ClaimPaths
    <2>2. CASE Server
      BY <2>2 DEF Server, Hold, Open, ServerTimeOut, Refund, ServerStep, LateRequest, Expire, Take, TakePreimage, TakeCancel, Seen
    <2>3. CASE Chain
      BY <2>3 DEF Chain, Mine, Reorg, Evict, Seen, NoSpend, Typed, TypeOK, ChainTypeOK, SpendSet
    <2>4. CASE App
      BY <2>4 DEF App, UserCancel, Unanswered, Take, TakeCancel, Crash, LoseStore, Restore, Seen
    <2>5. CASE Pass /\ ~BroadcastClaim /\ ~BroadcastClaimFails
      BY <2>5 DEF Pass, Begin, ReadHistory, ChainFails, Poll, StorePreimageSent, StorePreimageSentFails, RevealPreimage, Unanswered, Take, TakePreimage, SendCancel, TakeCancel, SendCancelFails, Save, SaveFails, Seen
    <2> QED
      BY <2>1, <2>2, <2>3, <2>4, <2>5 DEF Next
  <1>2. CASE pc' # "poll"
    BY <1>1, <1>2 DEF Seen
  <1>3. CASE pc' = "poll" /\ ReadHistory
    <2>1. view'.opening = Confs(opening) /\ UNCHANGED <<opening, spend, server, pace, used>>
      BY <1>3 DEF ReadHistory
    <2>2. view'.spend.path = spend.path
      BY <1>3 DEF ReadHistory, Typed, TypeOK, ChainTypeOK, SpendSet, NoSpend
    <2>3. view'.spend = NoSpend => spend.path # "Csv"
      BY <2>2 DEF NoSpend
    <2>4. /\ opening <= (IF view'.opening > 0 THEN view'.opening ELSE 0) + pace
          /\ view'.opening >= MinConfs => opening + used.reorgs >= view'.opening
      BY <2>1 DEF Confs
    <2> QED
      BY <1>1, <2>1, <2>2, <2>3, <2>4 DEF Seen
  <1>4. CASE pc' = "poll" /\ pc = "poll" /\ view' = view
    <2>1. view.opening <= Deep
      BY DEF Typed, TypeOK, PassTypeOK, View, Absent
    <2> USE <1>1, <1>4, <2>1 DEF Seen
    <2>2. CASE Server
      <3>1. CASE Open
        BY <3>1 DEF Open, ServerStep, Absent, Typed, NotOpened
      <3>2. CASE Refund
        BY <3>2 DEF Refund, ServerStep, PaceInMargin, Absent
      <3>3. CASE UNCHANGED <<opening, spend, pace, used>>
        <4>1. view.spend.path = "Csv" => server' = server
          BY <2>2 DEF Server, Hold, Open, ServerTimeOut, Refund, ServerStep, LateRequest, Expire, Take, TakePreimage, TakeCancel
        <4> QED
          BY <3>3, <4>1
      <3> QED
        BY <2>2, <3>1, <3>2, <3>3 DEF Server, Hold, ServerTimeOut, ServerStep, LateRequest, Expire
    <2>3. CASE Mine
      BY <2>3 DEF Mine, Deeper, Absent
    <2>4. CASE Reorg
      BY <2>4 DEF Reorg
    <2>5. CASE Evict
      BY <2>5 DEF Evict, Absent, NoSpend
    <2>6. CASE Pass \/ App
      <3>1. ~(UNCHANGED <<opening, spend, pace, used, server>>) => pc # "poll" \/ pc' # "poll"
        BY <2>6 DEF Pass, App, Begin, ReadHistory, ChainFails, Poll, StorePreimageSent, StorePreimageSentFails, RevealPreimage, SendCancel, SendCancelFails, BroadcastClaim, BroadcastClaimFails, Save, SaveFails, UserCancel, Crash, LoseStore, Restore, Stop
      <3> QED
        BY <3>1
    <2> QED
      BY <2>2, <2>3, <2>4, <2>5, <2>6 DEF Next, Chain
  <1> QED
    BY <1>2, <1>3, <1>4, ViewStays

-----------------------------------------------------------------------------
(* Gate: what a release was decided on still holds when it leaves.         *)

\* A pass decided to release the preimage, and a record holds that it may
\* have left.
Flagged == Marks(store) \/ Marks(mem) \/ pc \in {"Preimage", "reveal"}

\* Reorgs drop fewer blocks than min_confs; and with any at all, a pass ends
\* well at every block.
GateKept ==
    /\ PaceInMargin
    /\ MaxReorgs < MinConfs
    /\ MaxReorgs = 0 \/ MaxPace <= 1

\* From the decision until the preimage leaves, in this pass or, after a
\* crash, in a later one that no longer looks at the margin, the opening is
\* deep, unspent and far from its CSV. A pass that ends well before that only
\* saw the opening lifted back under min_confs by a reorg.
Gate ==
    Flagged /\ ~released =>
        /\ spend = NoSpend
        /\ opening >= MinConfs - used.reorgs
        /\ Csv - opening >= ClaimMargin - pace
        /\ MaxReorgs = 0 /\ pc = "history" => opening - drift >= MinConfs
        /\ pc = "poll" => view.spend = NoSpend /\ (MaxReorgs = 0 => view.opening >= MinConfs)
        /\ pc \in {"save", "Cancel"} /\ plan.ok =>
              MaxReorgs > 0 /\ Csv - opening >= ClaimMargin + 1 - pace

\* Every step keeps what the store holds in the record of the pass.
LEMMA CarriedHolds ==
  ASSUME Typed, Carried, Next
  PROVE  Carried'
  <1> USE DEF Carried, serverVars, chainVars, passVars, Stop
  <1>1. /\ plan \in Plan /\ plan.status \in Status
        /\ pc # "idle" => mem \in Record /\ store \in Record /\ store # NoRecord
    BY Constants DEF Typed, TypeOK, PassTypeOK, InPass, Plan
  <1>2. CASE Poll
    <2>1. PICK m \in Record, key, canceled \in BOOLEAN :
            /\ m.sentPreimage = mem.sentPreimage
            /\ m.key <=> (mem.key \/ key)
            /\ m.preimage <=> (mem.preimage \/ view.spend.path = "Preimage")
            /\ m.serverCancel <=> (mem.serverCancel \/ canceled)
            /\ mem'.sentPreimage = m.sentPreimage /\ mem'.key = m.key
            /\ mem'.preimage = m.preimage
      BY <1>2, PollDecides
    <2> QED
      BY <1>2, <2>1 DEF Poll
  <1>3. CASE StorePreimageSent \/ StorePreimageSentFails \/ RevealPreimage \/ SendCancel
    <2>1. mem \in Record /\ store \in Record /\ pc # "idle"
      BY <1>1, <1>3 DEF StorePreimageSent, StorePreimageSentFails, RevealPreimage, SendCancel
    <2>2. \A r \in Record :
             /\ r.sentPreimage => [r EXCEPT !.sentCancel = TRUE].sentPreimage
             /\ SameShown([r EXCEPT !.sentCancel = TRUE], r)
             /\ [r EXCEPT !.sentPreimage = TRUE].sentPreimage
             /\ SameShown([r EXCEPT !.sentPreimage = TRUE], r)
             /\ r.sentPreimage => [r EXCEPT !.status = plan.status].sentPreimage
             /\ SameShown([r EXCEPT !.status = plan.status], r)
             /\ [r EXCEPT !.sentPreimage = TRUE, !.status = plan.status].sentPreimage
             /\ SameShown([r EXCEPT !.sentPreimage = TRUE, !.status = plan.status], r)
      BY <1>1, FlagIsRecord, StatusIsRecord
    <2>3. CASE StorePreimageSent
      BY <2>1, <2>2, <2>3 DEF StorePreimageSent, SameShown
    <2>4. CASE StorePreimageSentFails
      BY <2>1, <2>2, <2>4 DEF StorePreimageSentFails, SameShown
    <2>5. CASE RevealPreimage
      BY <2>1, <2>2, <2>5 DEF RevealPreimage, SameShown
    <2>6. CASE SendCancel
      BY <2>1, <2>2, <2>6 DEF SendCancel, SameShown
    <2> QED
      BY <1>3, <2>3, <2>4, <2>5, <2>6
  <1>4. CASE Begin
    BY <1>4 DEF Begin
  <1>5. CASE ReadHistory \/ SendCancelFails \/ BroadcastClaim \/ BroadcastClaimFails
    BY <1>5 DEF ReadHistory, SendCancelFails, BroadcastClaim, BroadcastClaimFails
  <1>6. CASE ChainFails \/ Save \/ SaveFails \/ Crash \/ LoseStore
    BY <1>6 DEF ChainFails, Save, SaveFails, Crash, LoseStore
  <1>7. CASE UserCancel \/ Restore
    BY <1>1, <1>7 DEF UserCancel, Restore
  <1>8. CASE Server
    BY <1>8 DEF Server, Hold, Open, ServerTimeOut, Refund, ServerStep, LateRequest, Expire
  <1>9. CASE Chain
    BY <1>9 DEF Chain, Mine, Reorg, Evict
  <1> QED
    BY <1>2, <1>3, <1>4, <1>5, <1>6, <1>7, <1>8, <1>9 DEF Next, Pass, App

\* A record gets its marks from a poll, from the flag or from the server.
LEMMA MarksMove ==
  ASSUME Typed, Next, ~Poll, Marks(store)' \/ Marks(mem)'
  PROVE  Marks(store) \/ Marks(mem) \/ pc = "Preimage" \/ (Restore /\ server = "Claimed")
  <1> USE DEF Marks, serverVars, chainVars, passVars, Stop
  <1>1. /\ store \in Record \cup {NoRecord} /\ mem \in Record \cup {NoRecord} /\ plan \in Plan
        /\ pc # "idle" => mem \in Record /\ store \in Record
        /\ NoRecord \notin Record
    BY Constants DEF Typed, TypeOK, PassTypeOK, InPass
  <1>2. \A r \in Record : /\ [r EXCEPT !.sentCancel = TRUE] \in Record
                          /\ Marks([r EXCEPT !.sentCancel = TRUE]) <=> Marks(r)
                          /\ \A t \in Status :
                                /\ [r EXCEPT !.status = t] \in Record
                                /\ Marks([r EXCEPT !.status = t]) <=> Marks(r)
    <2>1. SUFFICES ASSUME NEW r \in Record
                   PROVE  /\ [r EXCEPT !.sentCancel = TRUE] \in Record
                          /\ Marks([r EXCEPT !.sentCancel = TRUE]) <=> Marks(r)
                          /\ \A t \in Status :
                                /\ [r EXCEPT !.status = t] \in Record
                                /\ Marks([r EXCEPT !.status = t]) <=> Marks(r)
      OBVIOUS
    <2>2. \A a, b \in Record : SameShown(a, b) /\ a.sentPreimage = b.sentPreimage
                                  => (Marks(a) <=> Marks(b))
      BY <1>1 DEF SameShown
    <2> HIDE DEF Marks
    <2> QED
      BY <2>2, FlagIsRecord, StatusIsRecord
  <1>3. plan.status \in Status
    BY <1>1, PlanHasStatus
  <1>4. CASE Begin
    BY <1>4 DEF Begin
  <1>5. CASE ReadHistory \/ BroadcastClaim \/ BroadcastClaimFails
    BY <1>5 DEF ReadHistory, BroadcastClaim, BroadcastClaimFails, Typed, TypeOK, ServerTypeOK
  <1>6. CASE ChainFails \/ Crash
    BY <1>6 DEF ChainFails, Crash
  <1>7. CASE StorePreimageSent \/ StorePreimageSentFails
    BY <1>7 DEF StorePreimageSent, StorePreimageSentFails
  <1>8. CASE RevealPreimage
    BY <1>1, <1>2, <1>3, <1>8 DEF RevealPreimage
  <1>9. CASE SendCancel
    BY <1>1, <1>2, <1>9 DEF SendCancel
  <1>10. CASE SendCancelFails
    BY <1>10 DEF SendCancelFails
  <1>11. CASE Save \/ SaveFails
    BY <1>11 DEF Save, SaveFails
  <1>12. CASE UserCancel
    <2>1. store \in Record
      BY <1>1, <1>12 DEF UserCancel
    <2>2. store' \in {store, [store EXCEPT !.sentCancel = TRUE]} /\ UNCHANGED <<mem, pc, released>>
      BY <1>12 DEF UserCancel
    <2> QED
      BY <1>1, <1>2, <2>1, <2>2
  <1>13. CASE LoseStore
    BY <1>13 DEF LoseStore
  <1>14. CASE Restore
    <2>1. Marks(store)' => server = "Claimed"
      BY <1>14 DEF Restore, Accepted
    <2>2. Marks(mem)' => Marks(mem)
      BY <1>14 DEF Restore
    <2> QED
      BY <1>14, <2>1, <2>2
  <1>15. CASE Server
    BY <1>15 DEF Server, Hold, Open, ServerTimeOut, Refund, ServerStep, LateRequest, Expire
  <1>16. CASE Chain
    BY <1>16 DEF Chain, Mine, Reorg, Evict
  <1> QED
    BY <1>4, <1>5, <1>6, <1>7, <1>8, <1>9, <1>10, <1>11, <1>12, <1>13, <1>14, <1>15, <1>16 DEF Next, Pass, App

\* A release is decided by a poll alone, and what has left stays out.
LEMMA ReleaseByPoll ==
  ASSUME Typed, Next, ~Poll
  PROVE  /\ pc' = "Preimage" => pc = "Preimage"
         /\ pc' = "reveal" => pc \in {"Preimage", "reveal"}
         /\ pc' = "Claim" => pc = "Claim"
         /\ ~released' => ~released
  BY DEF Typed, TypeOK, ServerTypeOK, Next, Pass, App, Server, Chain, Begin, ReadHistory, ChainFails, StorePreimageSent, StorePreimageSentFails, RevealPreimage, SendCancel, SendCancelFails, BroadcastClaim, BroadcastClaimFails, Save, SaveFails, UserCancel, Crash, LoseStore, Restore, Hold, Open, ServerTimeOut, Refund, LateRequest, Expire, ServerStep, Mine, Reorg, Evict, Stop, passVars

\* Before the release, only a poll flags a record that was not.
LEMMA FlaggedByPoll ==
  ASSUME Typed, Evidence, Next, ~Poll, Flagged', ~released'
  PROVE  Flagged /\ ~released
  <1>1. ~released /\ server # "Claimed"
    BY ReleaseByPoll DEF Evidence
  <1> QED
    BY <1>1, MarksMove, ReleaseByPoll DEF Flagged

\* Every step keeps the gate.
LEMMA GateHolds ==
  ASSUME GateKept, Typed, Evidence, Carried, Seen, Gate, Next
  PROVE  Gate'
  <1> USE Depths, CsvInRange, Bounds, DeepIsNat DEF serverVars, chainVars, passVars, GateKept, PaceInMargin
  <1> SUFFICES ASSUME Flagged', ~released' PROVE Gate'
    BY DEF Gate
  <1>1. CASE Poll
    <2>1. PICK m \in Record, d \in Plan, payable, key, canceled \in BOOLEAN :
            /\ d = Decide(m, view, payable)
            /\ key => server = "Claimed"
            /\ m.sentPreimage = mem.sentPreimage
            /\ m.key <=> (mem.key \/ key)
            /\ m.preimage <=> (mem.preimage \/ view.spend.path = "Preimage")
            /\ plan' = d
            /\ mem'.sentPreimage = m.sentPreimage /\ mem'.key = m.key
            /\ mem'.preimage = m.preimage
            /\ pc' = IF d.act = "none" THEN "save" ELSE d.act
      BY <1>1, PollDecides
    <2>2. /\ mem \in Record /\ view \in View /\ mem # NoRecord
          /\ pc = "poll" /\ UNCHANGED <<chainVars, serverVars, store, released, pace, used>>
      BY <1>1, Constants DEF Poll, Typed, TypeOK, PassTypeOK, InPass
    <2>3. ~released /\ ~key /\ view.spend.path \notin ClaimPaths /\ spend.path \notin ClaimPaths
      BY <2>1, <2>2 DEF Evidence
    <2>4. CASE Flagged
      <3>1. /\ spend = NoSpend /\ opening >= MinConfs - used.reorgs
            /\ Csv - opening >= ClaimMargin - pace
            /\ view.spend = NoSpend /\ (MaxReorgs = 0 => view.opening >= MinConfs)
        BY <2>2, <2>3, <2>4 DEF Gate
      <3>2. d.act \in {"none", "Cancel"} => view.opening < MinConfs
        <4>1. d.act = "Cancel" => view.opening < MinConfs
          BY <2>1, <2>2, DecideBecause DEF Absent
        <4>2. d.act = "none" /\ (m.sentPreimage \/ m.key \/ m.preimage) => view.opening < MinConfs
          BY <2>1, <2>2, <3>1, DecideBecause
        <4>3. m.sentPreimage \/ m.key \/ m.preimage
          BY <2>1, <2>2, <2>4 DEF Carried, Flagged, Marks
        <4> QED
          BY <4>1, <4>2, <4>3
      <3>3. view.opening < MinConfs => MaxReorgs > 0 /\ Csv - opening >= ClaimMargin + 1 - pace
        BY <2>2, <3>1 DEF Seen
      <3>4. pc' \notin {"history", "poll"}
        BY <2>1 DEF Plan
      <3>5. pc' \in {"save", "Cancel"} => d.act \in {"none", "Cancel"}
        BY <2>1 DEF Plan
      <3>6. UNCHANGED <<opening, spend, pace, used>>
        BY <2>2
      <3> QED
        BY <3>1, <3>2, <3>3, <3>4, <3>5, <3>6 DEF Gate
    <2>5. CASE ~Flagged
      <3>1. pc' = "Preimage" /\ d.act = "Preimage"
        BY <2>1, <2>2, <2>3, <2>5 DEF Flagged, Marks, Plan, ClaimPaths
      <3>2. view.spend = NoSpend /\ view.opening >= MinConfs /\ view.opening + ClaimMargin <= Csv
        BY <2>1, <2>2, <3>1, DecideBecause, MarginLeft
      <3>3. spend = NoSpend
        BY <2>2, <2>3, <3>2 DEF Seen, Typed, TypeOK, ChainTypeOK, SpendSet
      <3> QED
        BY <2>2, <3>1, <3>2, <3>3 DEF Gate, Seen
    <2> QED
      BY <2>4, <2>5
  <1>2. CASE ~Poll
    <2>1. Flagged /\ ~released
      BY <1>2, FlaggedByPoll
    <2>2. /\ spend = NoSpend
          /\ opening >= MinConfs - used.reorgs
          /\ Csv - opening >= ClaimMargin - pace
          /\ MaxReorgs = 0 /\ pc = "history" => opening - drift >= MinConfs
          /\ pc = "poll" => view.spend = NoSpend /\ (MaxReorgs = 0 => view.opening >= MinConfs)
          /\ pc \in {"save", "Cancel"} /\ plan.ok =>
                MaxReorgs > 0 /\ Csv - opening >= ClaimMargin + 1 - pace
      BY <2>1 DEF Gate
    <2>3. CASE Begin
      BY <2>2, <2>3 DEF Begin, Gate
    <2>4. CASE ReadHistory
      <3>1. /\ view'.opening = Confs(opening) /\ view'.spend = NoSpend
        BY <2>2, <2>4 DEF ReadHistory, NoSpend, Confs
      <3> QED
        BY <2>2, <2>4, <3>1 DEF ReadHistory, Gate, Confs
    <2>5. CASE ChainFails \/ Crash \/ LoseStore
      BY <2>2, <2>5 DEF ChainFails, Crash, LoseStore, Stop, Gate, Flagged, Marks
    <2>6. CASE StorePreimageSent \/ StorePreimageSentFails
      BY <2>2, <2>6 DEF StorePreimageSent, StorePreimageSentFails, Gate, Typed, TypeOK, PassTypeOK, Plan
    <2>7. CASE RevealPreimage
      BY <2>7 DEF RevealPreimage
    <2>8. CASE SendCancel \/ SendCancelFails
      BY <2>2, <2>8 DEF SendCancel, SendCancelFails, Gate, Typed, TypeOK, PassTypeOK, Plan
    <2>9. CASE BroadcastClaim \/ BroadcastClaimFails
      BY <2>1, <2>9 DEF BroadcastClaim, BroadcastClaimFails, Evidence
    <2>10. CASE Save
      BY <2>2, <2>10 DEF Save, Stop, Gate
    <2>11. CASE SaveFails
      BY <2>2, <2>11 DEF SaveFails, Stop, Gate
    <2>12. CASE UserCancel \/ Restore
      BY <2>2, <2>12 DEF UserCancel, Restore, Gate
    <2>13. CASE Open
      BY <2>2, <2>13 DEF Open, ServerStep, Typed, NotOpened, Absent
    <2>14. CASE Refund
      BY <2>2, <2>14 DEF Refund, ServerStep
    <2>15. CASE Hold \/ ServerTimeOut \/ LateRequest \/ Expire
      BY <2>2, <2>15 DEF Hold, ServerTimeOut, ServerStep, LateRequest, Expire, Gate
    <2>16. CASE Mine
      <3>1. opening > 0
        BY <2>2
      <3>2. /\ opening' \in Int /\ opening' <= opening + 1 /\ opening' >= opening
            /\ pc = "history" => opening' = opening + 1 /\ drift' = drift + 1
            /\ pace' = pace + 1 /\ spend' = NoSpend
            /\ UNCHANGED <<used, pc, view, plan>>
        BY <2>2, <2>16, <3>1 DEF Mine, Deeper, Drift, Absent, Typed, TypeOK, ChainTypeOK
      <3>3. /\ spend' = NoSpend
            /\ opening' >= MinConfs - used'.reorgs
            /\ Csv - opening' >= ClaimMargin - pace'
        BY <2>2, <3>2
      <3>4. MaxReorgs = 0 /\ pc' = "history" => opening' - drift' >= MinConfs
        BY <2>2, <3>2
      <3>5. pc' = "poll" => view'.spend = NoSpend /\ (MaxReorgs = 0 => view'.opening >= MinConfs)
        BY <2>2, <3>2
      <3>6. pc' \in {"save", "Cancel"} /\ plan'.ok =>
                MaxReorgs > 0 /\ Csv - opening' >= ClaimMargin + 1 - pace'
        BY <2>2, <3>2
      <3> QED
        BY <3>3, <3>4, <3>5, <3>6 DEF Gate
    <2>17. CASE Reorg
      BY <2>2, <2>17 DEF Reorg, Drift, Gate, NoSpend
    <2>18. CASE Evict
      BY <2>2, <2>18 DEF Evict, Gate
    <2> QED
      BY <1>2, <2>3, <2>4, <2>5, <2>6, <2>7, <2>8, <2>9, <2>10, <2>11, <2>12, <2>13, <2>14, <2>15, <2>16, <2>17, <2>18 DEF Next, Pass, App, Server, Chain
  <1> QED
    BY <1>1, <1>2

-----------------------------------------------------------------------------
(* InTime: a claim that is due can still win.                              *)

\* claim_margin covers the blocks of the pass that releases and of the one
\* that claims, and as much again for every claim evicted.
MarginCovers == ClaimMargin > 2 * MaxPace * (1 + MaxEvictions)

\* The blocks the evictions so far have cost.
Cost == 2 * MaxPace * used.evictions

OurClaim == spend.path \in ClaimPaths

\* The server took the payment or may still, or a pass will claim without
\* another look at the margin.
Due == \/ settled \/ "Preimage" \in wire
       \/ Marks(store) \/ Marks(mem)
       \/ pc = "poll" /\ view.spend.path \in ClaimPaths
       \/ pc \in {"Preimage", "reveal", "Claim"}

\* The pass under way may end well though no claim is on chain: it releases,
\* the opening it saw was not deep, or the claim it saw was evicted since.
Settling == \/ pc \in {"Preimage", "reveal"}
            \/ pc \in {"save", "Cancel"} /\ plan.ok
            \/ pc = "Claim" /\ plan.replaces
            \/ pc = "poll" /\ view.spend # NoSpend

\* The blocks left before the CSV, whoever mines them.
Budget ==
    Due /\ ~OurClaim =>
        /\ spend = NoSpend
        /\ Csv - opening >= ClaimMargin - MaxPace - Cost - pace
        /\ Settling => Csv - opening >= ClaimMargin - Cost - pace

\* The server's status, the records and the view agree on what was taken.
Agreed ==
    /\ settled <=> server = "Claimed"
    /\ store # NoRecord /\ (settled \/ "Preimage" \in wire) => Marks(store)
    /\ pc = "reveal" => store.sentPreimage
    /\ pc = "poll" /\ view.spend.path = "Csv" => ~Due

InTime ==
    /\ OurClaim => Csv - opening + spend.confs >= ClaimMargin - 2 * MaxPace - Cost
    /\ Budget
    /\ Agreed

\* What the evictions cost is covered, each two passes' worth of blocks.
LEMMA CostCovered ==
  ASSUME MarginCovers, Typed
  PROVE  /\ Cost \in Nat /\ ClaimMargin > 2 * MaxPace + Cost
         /\ PaceInMargin
  <1>1. \A p, e, m \in Nat : e <= m => p * e <= p * m /\ p * e \in Nat
    <2>1. SUFFICES ASSUME NEW p \in Nat, NEW e \in Nat, NEW m \in Nat, e <= m
                   PROVE  p * e <= p * m /\ p * e \in Nat
      OBVIOUS
    <2>2. PICK k \in Nat : m = e + k
      <3>1. m - e \in Nat /\ m = e + (m - e)
        BY <2>1
      <3> QED
        BY <3>1
    <2>3. p * k \in Nat /\ p * e \in Nat
      OBVIOUS
    <2>4. p * m = p * e + p * k
      BY <2>2
    <2> QED
      BY <2>3, <2>4
  <1>2. MaxPace \in Nat /\ used.evictions \in Nat /\ MaxEvictions \in Nat
        /\ used.evictions <= MaxEvictions
    BY Depths
  <1>3. (2 * MaxPace) * used.evictions <= (2 * MaxPace) * MaxEvictions
        /\ (2 * MaxPace) * used.evictions \in Nat
    BY <1>1, <1>2
  <1>4. 2 * MaxPace * (1 + MaxEvictions) = 2 * MaxPace + (2 * MaxPace) * MaxEvictions
    BY <1>2
  <1>5. ClaimMargin \in Nat
    BY CsvInRange
  <1> HIDE DEF Cost
  <1>6. Cost = (2 * MaxPace) * used.evictions
    BY DEF Cost
  <1> QED
    BY <1>2, <1>3, <1>4, <1>5, <1>6 DEF MarginCovers, PaceInMargin

\* An eviction's cost.
LEMMA EvictCosts ==
  ASSUME Typed, used'.evictions = used.evictions + 1
  PROVE  Cost' = Cost + 2 * MaxPace
  <1>1. MaxPace \in Nat /\ used.evictions \in Nat
    BY Depths
  <1> QED
    BY <1>1 DEF Cost

\* Steps that evict nothing cost nothing.
LEMMA CostMoves ==
  ASSUME Typed, Next, ~Evict
  PROVE  Cost' = Cost
  <1>1. used'.evictions = used.evictions
    BY DEF Typed, TypeOK, ChainTypeOK, Bound, Next, Pass, App, Server, Chain, Begin, ReadHistory, ChainFails, Poll, StorePreimageSent, StorePreimageSentFails, RevealPreimage, SendCancel, SendCancelFails, BroadcastClaim, BroadcastClaimFails, Save, SaveFails, UserCancel, Crash, LoseStore, Restore, Hold, Open, ServerTimeOut, Refund, LateRequest, Expire, ServerStep, Mine, Reorg
  <1> QED
    BY <1>1 DEF Cost

\* What is due was due before, but for what a read sees of our claim and what
\* a poll decides.
LEMMA DueMoves ==
  ASSUME Typed, Agreed, Next, Due'
  PROVE  \/ Due
         \/ ReadHistory /\ OurClaim
         \/ Poll /\ pc' = "Preimage"
  <1>1. CASE Poll
    <2>1. PICK m \in Record, d \in Plan, payable, key, canceled \in BOOLEAN :
            /\ d = Decide(m, view, payable)
            /\ key => server = "Claimed"
            /\ m.sentPreimage = mem.sentPreimage
            /\ m.key <=> (mem.key \/ key)
            /\ m.preimage <=> (mem.preimage \/ view.spend.path = "Preimage")
            /\ mem'.sentPreimage = m.sentPreimage /\ mem'.key = m.key
            /\ mem'.preimage = m.preimage
            /\ pc' = IF d.act = "none" THEN "save" ELSE d.act
      BY <1>1, PollDecides
    <2>2. /\ mem \in Record /\ view \in View /\ mem # NoRecord /\ pc = "poll"
          /\ UNCHANGED <<serverVars, wire, store>>
      BY <1>1, Constants DEF Poll, Typed, TypeOK, PassTypeOK, InPass
    <2>3. d.act = "Claim" => m.sentPreimage \/ m.key \/ m.preimage \/ view.spend.path = "Keypath"
      BY <2>1, <2>2, DecideBecause
    <2>4. pc' # "poll" /\ pc' # "reveal"
      BY <2>1 DEF Plan
    <2>5. m.sentPreimage \/ m.key \/ m.preimage => Due
      BY <2>1, <2>2 DEF Due, Marks, Agreed, ClaimPaths
    <2>6. pc' = "Claim" => Due
      BY <2>1, <2>2, <2>3, <2>5 DEF Due, ClaimPaths, Plan
    <2>7. Marks(mem)' => Due
      BY <2>1, <2>2, <2>5 DEF Marks
    <2>8. Marks(store)' \/ settled' \/ "Preimage" \in wire' => Due
      BY <2>2 DEF Marks, Due, serverVars
    <2> QED
      BY <1>1, <2>4, <2>6, <2>7, <2>8 DEF Due
  <1>2. CASE ~Poll
    <2>1. Marks(store)' \/ Marks(mem)' => Due
      BY <1>2, MarksMove DEF Due, Agreed
    <2>2. pc' \in {"Preimage", "reveal", "Claim"} => Due
      BY <1>2, ReleaseByPoll DEF Due
    <2>3. pc' = "poll" /\ view'.spend.path \in ClaimPaths => Due \/ (ReadHistory /\ OurClaim)
      <3>1. ReadHistory => view'.spend.path = spend.path
        BY DEF ReadHistory, Typed, TypeOK, ChainTypeOK, SpendSet, NoSpend
      <3> QED
        BY <3>1, ViewStays DEF Due, OurClaim
    <2>4. settled' \/ "Preimage" \in wire' => Due
      BY <1>2 DEF Due, Next, Pass, App, Server, Chain, Begin, ReadHistory, ChainFails, StorePreimageSent, StorePreimageSentFails, RevealPreimage, SendCancel, SendCancelFails, BroadcastClaim, BroadcastClaimFails, Save, SaveFails, UserCancel, Crash, LoseStore, Restore, Hold, Open, ServerTimeOut, Refund, LateRequest, Expire, ServerStep, Mine, Reorg, Evict, Stop, Unanswered, Take, TakePreimage, TakeCancel, serverVars
    <2> QED
      BY <2>1, <2>2, <2>3, <2>4 DEF Due
  <1> QED
    BY <1>1, <1>2

\* What the server may still do, and what was seen of it, stays agreed on.
LEMMA AgreedHolds ==
  ASSUME MarginCovers, Typed, Carried, InTime, Next
  PROVE  Agreed'
  <1> USE DEF serverVars, chainVars, passVars, Stop
  <1>1. /\ store \in Record \cup {NoRecord} /\ mem \in Record \cup {NoRecord} /\ plan \in Plan
        /\ pc # "idle" => mem \in Record /\ store \in Record
        /\ NoRecord \notin Record /\ server \in ServerStatus
        /\ settled \in BOOLEAN
    BY Constants DEF Typed, TypeOK, PassTypeOK, ServerTypeOK, InPass
  <1>2. Refund => ~settled /\ ~Due
    <2>1. SUFFICES ASSUME Refund, Due PROVE FALSE
      BY DEF Due
    <2>2. opening >= Csv /\ spend.confs = 0
      BY <2>1 DEF Refund, Acceptable
    <2> QED
      BY <2>1, <2>2, CostCovered, Depths, CsvInRange DEF InTime, Budget
  <1>3. (settled <=> server = "Claimed")'
    BY <1>1, <1>2 DEF InTime, Agreed, Next, Pass, App, Server, Chain, Begin, ReadHistory, ChainFails, Poll, StorePreimageSent, StorePreimageSentFails, RevealPreimage, SendCancel, SendCancelFails, BroadcastClaim, BroadcastClaimFails, Save, SaveFails, UserCancel, Crash, LoseStore, Restore, Hold, Open, ServerTimeOut, Refund, LateRequest, Expire, ServerStep, Mine, Reorg, Evict, Unanswered, Take, TakePreimage, TakeCancel
  <1>4. (pc = "reveal" => store.sentPreimage)'
    <2>1. \A r \in Record : [r EXCEPT !.sentPreimage = TRUE].sentPreimage
      BY FlagIsRecord
    <2>2. Poll => pc' # "reveal"
      <3>1. SUFFICES ASSUME Poll PROVE pc' # "reveal"
        OBVIOUS
      <3>2. PICK d \in Plan : pc' = IF d.act = "none" THEN "save" ELSE d.act
        BY <3>1, PollDecides
      <3> QED
        BY <3>2 DEF Plan
    <2> QED
      BY <1>1, <2>1, <2>2 DEF InTime, Agreed, Next, Pass, App, Server, Chain, Begin, ReadHistory, ChainFails, StorePreimageSent, StorePreimageSentFails, RevealPreimage, SendCancel, SendCancelFails, BroadcastClaim, BroadcastClaimFails, Save, SaveFails, UserCancel, Crash, LoseStore, Restore, Hold, Open, ServerTimeOut, Refund, LateRequest, Expire, ServerStep, Mine, Reorg, Evict
  <1>5. (pc = "poll" /\ view.spend.path = "Csv" => ~Due)'
    <2>1. SUFFICES ASSUME pc' = "poll", view'.spend.path = "Csv" PROVE ~Due'
      OBVIOUS
    <2>2. CASE ReadHistory
      <3>1. spend.path = "Csv"
        BY <2>1, <2>2 DEF ReadHistory, Typed, TypeOK, ChainTypeOK, SpendSet, NoSpend
      <3>2. ~OurClaim /\ spend # NoSpend
        BY <3>1 DEF OurClaim, ClaimPaths, NoSpend
      <3>3. ~Due
        BY <3>2 DEF InTime, Budget
      <3>4. ~Poll
        BY <2>2 DEF ReadHistory, Poll
      <3> QED
        BY <3>2, <3>3, <3>4, DueMoves DEF InTime
    <2>3. CASE pc = "poll" /\ view' = view
      <3>1. ~ReadHistory /\ pc' # "Preimage" /\ ~Due
        BY <2>1, <2>3 DEF ReadHistory, InTime, Agreed
      <3> QED
        BY <3>1, DueMoves DEF InTime
    <2> QED
      BY <2>1, <2>2, <2>3, ViewStays
  <1>6. (store # NoRecord /\ (settled \/ "Preimage" \in wire) => Marks(store))'
    <2>1. SUFFICES ASSUME store' # NoRecord, settled' \/ "Preimage" \in wire'
                   PROVE  Marks(store)'
      OBVIOUS
    <2>2. CASE Restore
      <3>1. server = "Claimed"
        BY <2>1, <2>2 DEF Restore, InTime, Agreed
      <3> QED
        BY <2>1, <2>2, <3>1 DEF Restore, Marks, Accepted
    <2>3. CASE RevealPreimage
      BY <1>1, <2>3 DEF RevealPreimage, Marks, InTime, Agreed
    <2>4. CASE ~Restore /\ ~RevealPreimage
      <3>1. settled \/ "Preimage" \in wire
        BY <2>1, <2>4 DEF Next, Pass, App, Server, Chain, Begin, ReadHistory, ChainFails, Poll, StorePreimageSent, StorePreimageSentFails, SendCancel, SendCancelFails, BroadcastClaim, BroadcastClaimFails, Save, SaveFails, UserCancel, Crash, LoseStore, Hold, Open, ServerTimeOut, Refund, LateRequest, Expire, ServerStep, Mine, Reorg, Evict, Unanswered, Take, TakePreimage, TakeCancel
      <3>2. CASE store' = store
        BY <2>1, <3>1, <3>2 DEF Marks, InTime, Agreed
      <3>3. CASE StorePreimageSent \/ StorePreimageSentFails
        <4>1. mem \in Record
          BY <1>1, <3>3 DEF StorePreimageSent, StorePreimageSentFails
        <4>2. store' = store \/ store'.sentPreimage
          BY <3>3, <4>1, FlagIsRecord DEF StorePreimageSent, StorePreimageSentFails
        <4> QED
          BY <2>1, <3>1, <4>2 DEF Marks, InTime, Agreed
      <3>4. CASE Save \/ SaveFails
        <4>1. store \in Record /\ pc # "idle" /\ store' \in {store, mem}
          BY <1>1, <3>4 DEF Save, SaveFails
        <4> QED
          BY <1>1, <2>1, <3>1, <4>1 DEF Marks, InTime, Agreed, Carried
      <3>5. CASE UserCancel
        <4>1. store \in Record /\ store' \in {store, [store EXCEPT !.sentCancel = TRUE]}
          BY <1>1, <3>5 DEF UserCancel
        <4> QED
          BY <1>1, <2>1, <3>1, <4>1, FlagIsRecord DEF Marks, InTime, Agreed, SameShown
      <3> QED
        BY <2>1, <2>4, <3>2, <3>3, <3>4, <3>5 DEF Next, Pass, App, Server, Chain, Begin, ReadHistory, ChainFails, Poll, SendCancel, SendCancelFails, BroadcastClaim, BroadcastClaimFails, Crash, LoseStore, Hold, Open, ServerTimeOut, Refund, LateRequest, Expire, ServerStep, Mine, Reorg, Evict
    <2> QED
      BY <2>2, <2>3, <2>4
  <1> QED
    BY <1>3, <1>4, <1>5, <1>6 DEF Agreed

\* A claim on chain was broadcast with blocks to spare before the CSV, and has
\* gone as deep as the opening has since.
LEMMA ClaimInTime ==
  ASSUME MarginCovers, Typed, InTime, Next
  PROVE  (OurClaim => Csv - opening + spend.confs >= ClaimMargin - 2 * MaxPace - Cost)'
  <1> SUFFICES ASSUME OurClaim'
               PROVE  Csv - opening' + spend'.confs >= ClaimMargin - 2 * MaxPace - Cost'
    OBVIOUS
  <1> USE CostCovered, Depths, CsvInRange DEF serverVars, chainVars, passVars
  <1>1. CASE BroadcastClaim \/ (BroadcastClaimFails /\ ~UNCHANGED spend)
    <2>1. spend'.confs = 0 /\ opening' = opening /\ Acceptable /\ Due /\ Cost' = Cost
      BY <1>1, CostMoves DEF BroadcastClaim, BroadcastClaimFails, Due, Evict
    <2> QED
      BY <2>1 DEF InTime, Budget, Acceptable
  <1>2. CASE UNCHANGED <<opening, spend>>
    <2>1. OurClaim
      BY <1>2 DEF OurClaim
    <2>2. Cost' = Cost \/ Cost' = Cost + 2 * MaxPace
      <3>1. Evict => used'.evictions = used.evictions + 1
        BY DEF Evict, Typed, TypeOK, ChainTypeOK, Bound
      <3> QED
        BY <3>1, CostMoves, EvictCosts
    <2>3. MaxPace \in Nat /\ Cost \in Nat
      OBVIOUS
    <2> QED
      BY <1>2, <2>1, <2>2, <2>3 DEF InTime
  <1>3. CASE Mine
    <2>1. OurClaim /\ Cost' = Cost
      BY <1>3, CostMoves DEF Mine, OurClaim, Evict, NoSpend, ClaimPaths, Typed, TypeOK, ChainTypeOK, SpendSet
    <2>2. spend # NoSpend /\ spend.confs <= opening /\ opening <= Deep /\ opening >= 0
      BY <2>1, DeepIsNat DEF OurClaim, ClaimPaths, NoSpend, Typed, TypeOK, ChainTypeOK, Absent
    <2>3. /\ opening' = Deeper(opening) /\ spend'.confs = Deeper(spend.confs)
      BY <1>3, <2>1, <2>2 DEF Mine, OurClaim, ClaimPaths, Absent, Typed, TypeOK, ChainTypeOK, SpendSet
    <2>4. spend'.confs - opening' >= spend.confs - opening /\ opening' \in Int /\ spend'.confs \in Int
      BY <2>2, <2>3, DeepIsNat DEF Deeper
    <2> QED
      BY <2>1, <2>4 DEF InTime
  <1>4. CASE Reorg
    <2>1. OurClaim /\ Cost' = Cost
      BY <1>4, CostMoves DEF Reorg, OurClaim, Evict, Typed, TypeOK, ChainTypeOK, SpendSet, NoSpend
    <2>2. opening' = opening - 1 /\ (spend'.confs = spend.confs - 1 \/ (spend' = spend))
      BY <1>4 DEF Reorg, Typed, TypeOK, ChainTypeOK, SpendSet, NoSpend
    <2> QED
      BY <2>1, <2>2 DEF InTime
  <1>5. CASE Refund \/ Evict
    BY <1>5 DEF Refund, Evict, OurClaim, ClaimPaths, NoSpend
  <1>6. CASE Open
    <2>1. OurClaim /\ opening = Absent
      BY <1>6 DEF Open, ServerStep, OurClaim, Typed, NotOpened
    <2> QED
      BY <2>1 DEF OurClaim, ClaimPaths, NoSpend, Absent
  <1> QED
    BY <1>1, <1>2, <1>3, <1>4, <1>5, <1>6 DEF Next, Pass, App, Server, Chain, Begin, ReadHistory, ChainFails, Poll, StorePreimageSent, StorePreimageSentFails, RevealPreimage, SendCancel, SendCancelFails, BroadcastClaim, BroadcastClaimFails, Save, SaveFails, UserCancel, Crash, LoseStore, Restore, Hold, Open, ServerTimeOut, ServerStep, LateRequest, Expire

\* What a poll decides while a claim is due leaves its budget.
LEMMA PollInBudget ==
  ASSUME MarginCovers, Typed, Carried, Seen, InTime, Poll
  PROVE  Budget'
  <1> USE CostCovered, Depths, CsvInRange
  <1>1. PICK m \in Record, d \in Plan, payable, key, canceled \in BOOLEAN :
          /\ d = Decide(m, view, payable)
          /\ m.sentPreimage = mem.sentPreimage
          /\ m.key <=> (mem.key \/ key)
          /\ m.preimage <=> (mem.preimage \/ view.spend.path = "Preimage")
          /\ plan' = d
          /\ pc' = IF d.act = "none" THEN "save" ELSE d.act
    BY PollDecides
  <1>2. /\ mem \in Record /\ store \in Record /\ view \in View /\ mem # NoRecord /\ store # NoRecord
        /\ pc = "poll" /\ UNCHANGED <<opening, spend, server, pace, used>>
    BY Constants DEF Poll, Typed, TypeOK, PassTypeOK, InPass, chainVars, serverVars
  <1>3. Cost' = Cost
    BY <1>2 DEF Cost
  <1>4. OurClaim' <=> OurClaim
    BY <1>2 DEF OurClaim
  <1> SUFFICES ASSUME Due', ~OurClaim' PROVE Budget'
    BY DEF Budget
  <1>5. CASE Due
    <2>1. /\ spend = NoSpend
          /\ Csv - opening >= ClaimMargin - MaxPace - Cost - pace
          /\ view.spend # NoSpend => Csv - opening >= ClaimMargin - Cost - pace
      BY <1>2, <1>4, <1>5 DEF InTime, Budget, Settling
    <2>2. m.sentPreimage \/ m.key \/ m.preimage \/ view.spend.path = "Keypath"
      BY <1>1, <1>2, <1>5 DEF Due, InTime, Agreed, Carried, Marks, ClaimPaths
    <2>3. d.act # "Preimage" /\ (d.act = "Claim" => d.replaces = (view.spend # NoSpend))
      BY <1>1, <1>2, <2>2, DecideBecause
    <2>4. d.act \in {"none", "Cancel"} => view.opening < MinConfs \/ view.spend # NoSpend
      BY <1>1, <1>2, <2>2, DecideBecause DEF Absent
    <2>5. view.opening < MinConfs => Csv - opening >= ClaimMargin - Cost - pace
      BY <1>2 DEF Seen
    <2>6. Settling' => d.act \in {"none", "Cancel"} \/ (d.act = "Claim" /\ d.replaces)
      BY <1>1, <2>3 DEF Settling, Plan
    <2>7. Settling' => Csv - opening >= ClaimMargin - Cost - pace
      BY <2>1, <2>3, <2>4, <2>5, <2>6
    <2> QED
      BY <1>2, <1>3, <2>1, <2>7 DEF Budget
  <1>6. CASE ~Due
    <2>1. pc' = "Preimage"
      BY <1>2, <1>6, DueMoves DEF InTime, Next, Pass, ReadHistory
    <2>2. d.act = "Preimage"
      BY <1>1, <2>1
    <2>3. view.spend = NoSpend /\ view.opening >= MinConfs /\ view.opening + ClaimMargin <= Csv
      BY <1>1, <1>2, <2>2, DecideBecause, MarginLeft
    <2>4. spend = NoSpend
      BY <1>2, <1>4, <2>3 DEF Seen, OurClaim, ClaimPaths, Typed, TypeOK, ChainTypeOK, SpendSet
    <2>5. Csv - opening >= ClaimMargin - pace
      BY <1>2, <2>3 DEF Seen
    <2> QED
      BY <1>2, <1>3, <2>4, <2>5 DEF Budget
  <1> QED
    BY <1>5, <1>6

\* Every step keeps the budget of a claim that is due.
LEMMA BudgetHolds ==
  ASSUME MarginCovers, Typed, Carried, Seen, InTime, Next
  PROVE  Budget'
  <1> USE CostCovered, Depths, CsvInRange DEF serverVars, chainVars, passVars
  <1> SUFFICES ASSUME Due', ~OurClaim', ~Poll PROVE Budget'
    BY PollInBudget DEF Budget
  <1>1. CASE ReadHistory
    <2>1. /\ UNCHANGED <<opening, spend, pace, used, plan>> /\ pc' = "poll"
          /\ Cost' = Cost /\ ~OurClaim
      BY <1>1 DEF ReadHistory, OurClaim, Cost
    <2>2. Due
      BY <1>1, <2>1, DueMoves DEF InTime
    <2>3. /\ spend = NoSpend
          /\ Csv - opening >= ClaimMargin - MaxPace - Cost - pace
      BY <2>1, <2>2 DEF InTime, Budget
    <2>4. view'.spend = NoSpend
      BY <1>1, <2>3 DEF ReadHistory, NoSpend, Confs
    <2> QED
      BY <2>1, <2>3, <2>4 DEF Budget, Settling
  <1>2. CASE Evict
    <2>1. Cost' = Cost + 2 * MaxPace
      BY <1>2, EvictCosts DEF Evict, Typed, TypeOK, ChainTypeOK, Bound
    <2>2. Due
      BY <1>2, DueMoves DEF InTime, Evict, ReadHistory
    <2>3. spend' = NoSpend /\ opening' \in {opening, -1} /\ pace' = pace
      BY <1>2 DEF Evict, Absent
    <2>4. opening' <= opening
      BY <2>3
    <2>5. CASE OurClaim
      <3>1. spend.confs = 0
        BY <1>2, <2>5 DEF Evict, OurClaim, ClaimPaths, NoSpend
      <3>2. Csv - opening >= ClaimMargin - 2 * MaxPace - Cost
        BY <2>5, <3>1 DEF InTime
      <3> QED
        BY <2>1, <2>3, <2>4, <3>2 DEF Budget
    <2>6. CASE ~OurClaim
      <3>1. Csv - opening >= ClaimMargin - MaxPace - Cost - pace
        BY <2>2, <2>6 DEF InTime, Budget
      <3>2. ClaimMargin - MaxPace - Cost - pace >= ClaimMargin - Cost' - pace
        BY <2>1
      <3> QED
        BY <2>1, <2>3, <2>4, <3>1, <3>2 DEF Budget
    <2> QED
      BY <2>5, <2>6
  <1>3. CASE ~ReadHistory /\ ~Evict
    <2>1. Due
      BY <1>3, DueMoves DEF InTime
    <2>2. Cost' = Cost
      BY <1>3, CostMoves
    <2>3. CASE OurClaim
      <3>1. spend' # spend
        BY <2>3 DEF OurClaim
      <3>2. ~Refund
        <4>1. SUFFICES ASSUME Refund PROVE FALSE
          OBVIOUS
        <4> QED
          BY <2>3, <4>1 DEF Refund, Acceptable, InTime
      <3> QED
        BY <1>3, <2>3, <3>1, <3>2 DEF OurClaim, Next, Pass, App, Server, Chain, Begin, ChainFails, StorePreimageSent, StorePreimageSentFails, RevealPreimage, SendCancel, SendCancelFails, BroadcastClaim, BroadcastClaimFails, Save, SaveFails, UserCancel, Crash, LoseStore, Restore, Hold, Open, ServerTimeOut, ServerStep, LateRequest, Expire, Mine, Reorg, NoSpend, ClaimPaths, Typed, InPass, TypeOK, ChainTypeOK, SpendSet
    <2>4. CASE ~OurClaim
      <3>1. /\ spend = NoSpend
            /\ Csv - opening >= ClaimMargin - MaxPace - Cost - pace
            /\ Settling => Csv - opening >= ClaimMargin - Cost - pace
        BY <2>1, <2>4 DEF InTime, Budget
      <3>2. CASE Save
        <4>1. /\ UNCHANGED <<opening, spend>> /\ pc' = "idle"
              /\ pace' = IF plan.ok THEN 0 ELSE pace
              /\ plan.ok => Settling
          BY <3>2 DEF Save, Stop, Settling
        <4> QED
          BY <2>2, <3>1, <4>1 DEF Budget, Settling
      <3>3. CASE Mine
        <4>1. spend' = spend /\ pace' = pace + 1 /\ opening' \in Int /\ opening' <= opening + 1
          BY <3>1, <3>3, DeepIsNat DEF Mine, Deeper, Absent
        <4>2. Settling' = Settling
          BY <3>3 DEF Mine, Settling
        <4> QED
          BY <2>2, <3>1, <4>1, <4>2 DEF Budget
      <3>4. CASE Reorg
        <4>1. spend' = spend /\ pace' = pace /\ opening' = opening - 1
          BY <3>1, <3>4 DEF Reorg, NoSpend
        <4>2. Settling' = Settling
          BY <3>4 DEF Reorg, Settling
        <4> QED
          BY <2>2, <3>1, <4>1, <4>2 DEF Budget
      <3>5. CASE Open
        <4>1. spend' = spend /\ pace' = pace /\ opening' = 0
          BY <3>5 DEF Open, ServerStep
        <4> QED
          BY <2>2, <3>1, <4>1 DEF Budget
      <3>6. CASE Refund
        BY <3>1, <3>6 DEF Refund
      <3>7. CASE BroadcastClaim \/ (BroadcastClaimFails /\ spend' # spend)
        BY <3>7 DEF BroadcastClaim, BroadcastClaimFails, OurClaim, Typed, InPass
      <3>8. CASE ~Save /\ ~Mine /\ ~Reorg /\ ~Open /\ ~Refund /\ ~BroadcastClaim /\ ~(BroadcastClaimFails /\ spend' # spend)
        <4>1. UNCHANGED <<opening, spend, pace>>
          BY <1>3, <3>8 DEF Next, Pass, App, Server, Chain, Begin, ChainFails, StorePreimageSent, StorePreimageSentFails, RevealPreimage, SendCancel, SendCancelFails, BroadcastClaimFails, SaveFails, UserCancel, Crash, LoseStore, Restore, Hold, ServerTimeOut, ServerStep, LateRequest, Expire
        <4>2. Settling' => Settling
          BY <1>3, <3>8 DEF Next, Pass, App, Server, Chain, Begin, ChainFails, StorePreimageSent, StorePreimageSentFails, RevealPreimage, SendCancel, SendCancelFails, BroadcastClaimFails, SaveFails, UserCancel, Crash, LoseStore, Restore, Hold, ServerTimeOut, ServerStep, LateRequest, Expire, Settling, Stop, Typed, TypeOK, PassTypeOK, Plan
        <4> QED
          BY <2>2, <3>1, <4>1, <4>2 DEF Budget
      <3> QED
        BY <3>2, <3>3, <3>4, <3>5, <3>6, <3>7, <3>8
    <2> QED
      BY <2>3, <2>4
  <1> QED
    BY <1>1, <1>2, <1>3

\* Every step keeps what is due in time.
LEMMA InTimeHolds ==
  ASSUME MarginCovers, Typed, Carried, Seen, InTime, Next
  PROVE  InTime'
  BY ClaimInTime, BudgetHolds, AgreedHolds DEF InTime

-----------------------------------------------------------------------------
(* Ended: a swap that is called off is never paid for after.               *)

\* The app steps no finished swap by hand, or no reorg reopens its window.
Undisturbed == ~ByHand \/ MaxReorgs = 0

\* The server takes no payment any more.
CalledOff == server \in {"Canceled", "AwaitRefundTxConfirmation"}

\* What a status says of the server.
OffAs(status) ==
    /\ status = "ServerCanceled" => CalledOff
    /\ status = "ServerRefunded" => server = "AwaitRefundTxConfirmation"

Cancels(r) == r # NoRecord /\ r.serverCancel

\* A record says that the claim's window closed before the preimage left.
Closed == store.status = "ClaimWindowClosed" \/ mem.status = "ClaimWindowClosed"

\* The window of a claim stays closed for whoever steps the swap by hand.
WindowShut ==
    /\ opening > Csv - ClaimMargin
    /\ pc = "history" => opening - drift > Csv - ClaimMargin
    /\ pc = "poll" => view.opening > Csv - ClaimMargin

\* What the run loop drives is not quiet until a pass that ends saves it so.
Driven ==
    ~ByHand => /\ pc # "idle" => ~IsQuiet(store)
               /\ pc \notin {"idle", "save"} => ~IsQuiet(mem)

Ended ==
    /\ Cancels(store) \/ Cancels(mem) => CalledOff
    /\ OffAs(store.status) /\ OffAs(mem.status) /\ OffAs(plan.status)
    /\ pc \in {"Preimage", "reveal"} => plan.status = "Confirming"
    /\ pc = "poll" /\ OurClaim => view.spend.path \in ClaimPaths
    /\ Closed => ~Due /\ ~OurClaim /\ (ByHand => WindowShut)
    /\ Driven

\* A server that takes no payment never takes one again.
LEMMA CalledOffStays ==
  ASSUME Next
  PROVE  /\ CalledOff => CalledOff'
         /\ server = "AwaitRefundTxConfirmation" => server' = "AwaitRefundTxConfirmation"
  BY DEF CalledOff, Next, Pass, App, Server, Chain, Begin, ReadHistory, ChainFails, Poll, StorePreimageSent, StorePreimageSentFails, RevealPreimage, SendCancel, SendCancelFails, BroadcastClaim, BroadcastClaimFails, Save, SaveFails, UserCancel, Crash, LoseStore, Restore, Hold, Open, ServerTimeOut, Refund, LateRequest, Expire, ServerStep, Mine, Reorg, Evict, Unanswered, Take, TakePreimage, TakeCancel, serverVars

\* A record learns that the server called the swap off from the server.
LEMMA CancelsMove ==
  ASSUME Typed, Next, Cancels(store)' \/ Cancels(mem)'
  PROVE  Cancels(store) \/ Cancels(mem) \/ server = "Canceled"
  <1>1. /\ store \in Record \cup {NoRecord} /\ mem \in Record \cup {NoRecord} /\ plan \in Plan
        /\ pc # "idle" => mem \in Record /\ store \in Record
        /\ NoRecord \notin Record /\ plan.status \in Status
    BY Constants DEF Typed, TypeOK, PassTypeOK, InPass, Plan
  <1>2. \A r \in Record :
           /\ [r EXCEPT !.sentCancel = TRUE].serverCancel = r.serverCancel
           /\ [r EXCEPT !.sentPreimage = TRUE].serverCancel = r.serverCancel
           /\ [r EXCEPT !.status = plan.status].serverCancel = r.serverCancel
           /\ [r EXCEPT !.sentPreimage = TRUE, !.status = plan.status].serverCancel = r.serverCancel
    BY DEF Record
  <1> USE DEF Cancels, serverVars, chainVars, passVars, Stop
  <1>3. CASE Poll
    <2>1. PICK m \in Record, key, canceled \in BOOLEAN :
            /\ canceled => server = "Canceled"
            /\ m.serverCancel <=> (mem.serverCancel \/ canceled)
            /\ mem'.serverCancel = m.serverCancel
      BY <1>3, PollDecides
    <2> QED
      BY <1>1, <1>3, <2>1 DEF Poll
  <1>4. CASE Begin \/ ReadHistory \/ ChainFails
    BY <1>4 DEF Begin, ReadHistory, ChainFails
  <1>5. CASE StorePreimageSent
    BY <1>1, <1>2, <1>5 DEF StorePreimageSent
  <1>6. CASE StorePreimageSentFails
    BY <1>1, <1>2, <1>6 DEF StorePreimageSentFails
  <1>7. CASE RevealPreimage
    BY <1>1, <1>2, <1>7 DEF RevealPreimage
  <1>8. CASE SendCancel
    BY <1>1, <1>2, <1>8 DEF SendCancel
  <1>9. CASE SendCancelFails \/ BroadcastClaim \/ BroadcastClaimFails
    BY <1>9 DEF SendCancelFails, BroadcastClaim, BroadcastClaimFails
  <1>10. CASE Save \/ SaveFails \/ Crash \/ LoseStore
    BY <1>10 DEF Save, SaveFails, Crash, LoseStore
  <1>11. CASE UserCancel
    <2>1. store \in Record /\ store' \in {store, [store EXCEPT !.sentCancel = TRUE]} /\ mem' = mem
      BY <1>1, <1>11 DEF UserCancel
    <2> QED
      BY <1>1, <1>2, <2>1
  <1>12. CASE Restore
    BY <1>12 DEF Restore, Accepted
  <1>13. CASE Server
    BY <1>13 DEF Server, Hold, Open, ServerTimeOut, Refund, ServerStep, LateRequest, Expire
  <1>14. CASE Chain
    BY <1>14 DEF Chain, Mine, Reorg, Evict
  <1> QED
    BY <1>3, <1>4, <1>5, <1>6, <1>7, <1>8, <1>9, <1>10, <1>11, <1>12, <1>13, <1>14 DEF Next, Pass, App
\* What the statuses say of the server stays true.
LEMMA OffStays ==
  ASSUME Typed, Seen, Ended, Next
  PROVE  /\ (Cancels(store) \/ Cancels(mem) => CalledOff)'
         /\ OffAs(store.status)' /\ OffAs(mem.status)' /\ OffAs(plan.status)'
  <1>1. (Cancels(store) \/ Cancels(mem) => CalledOff)'
    <2>1. server = "Canceled" => CalledOff
      BY DEF CalledOff
    <2> QED
      BY <2>1, CancelsMove, CalledOffStays DEF Ended
  <1>2. \A t \in {store.status, mem.status, plan.status, "none", "Restoring"} : OffAs(t)'
    <2>1. \A t : OffAs(t) => OffAs(t)'
      BY CalledOffStays DEF OffAs
    <2>2. OffAs("none") /\ OffAs("Restoring")
      BY DEF OffAs
    <2> QED
      BY <2>1, <2>2 DEF Ended
  <1>3. \A t : OffAs(t)' <=> ((t = "ServerCanceled" => CalledOff') /\ (t = "ServerRefunded" => server' = "AwaitRefundTxConfirmation"))
    BY DEF OffAs
  <1>4. OffAs(store.status)'
    BY <1>2, <1>3, StatusMoves DEF OffAs
  <1>5. OffAs(mem.status)' /\ OffAs(plan.status)'
    <2>1. CASE ~Poll
      BY <2>1, <1>2, <1>3, StatusMoves DEF OffAs
    <2>2. CASE Poll
      <3>1. PICK m \in Record, d \in Plan, payable, canceled \in BOOLEAN :
              /\ d = Decide(m, view, payable)
              /\ canceled => server = "Canceled"
              /\ m.serverCancel <=> (mem.serverCancel \/ canceled)
              /\ plan' = d
              /\ mem'.status = IF d.act = "Preimage" THEN mem.status ELSE d.status
        BY <2>2, PollDecides
      <3>2. mem \in Record /\ view \in View /\ mem # NoRecord /\ pc = "poll" /\ server' = server
        BY <2>2, Constants DEF Poll, Typed, TypeOK, PassTypeOK, InPass, serverVars
      <3>3. d.status = "ServerCanceled" => CalledOff
        BY <3>1, <3>2, DecideBecause DEF Ended, Cancels, CalledOff
      <3>4. d.status = "ServerRefunded" => server = "AwaitRefundTxConfirmation"
        BY <3>1, <3>2, DecideBecause DEF Seen
      <3> QED
        BY <1>2, <1>3, <3>1, <3>2, <3>3, <3>4 DEF OffAs, CalledOff
    <2> QED
      BY <2>1, <2>2
  <1> QED
    BY <1>1, <1>4, <1>5

\* What a poll leaves of the plan while the preimage goes out, and of the view.
LEMMA PlanStays ==
  ASSUME Typed, Ended, Next
  PROVE  /\ (pc \in {"Preimage", "reveal"} => plan.status = "Confirming")'
         /\ (pc = "poll" /\ OurClaim => view.spend.path \in ClaimPaths)'
  <1>1. (pc \in {"Preimage", "reveal"} => plan.status = "Confirming")'
    <2>1. CASE Poll
      <3>1. PICK m \in Record, d \in Plan, payable \in BOOLEAN :
              /\ d = Decide(m, view, payable)
              /\ plan' = d
              /\ pc' = IF d.act = "none" THEN "save" ELSE d.act
        BY <2>1, PollDecides
      <3>2. view \in View
        BY DEF Typed, TypeOK, PassTypeOK
      <3> QED
        BY <3>1, <3>2, DecideBecause DEF Plan
    <2>2. CASE ~Poll
      BY <2>2 DEF Ended, Next, Pass, App, Server, Chain, Begin, ReadHistory, ChainFails, StorePreimageSent, StorePreimageSentFails, RevealPreimage, SendCancel, SendCancelFails, BroadcastClaim, BroadcastClaimFails, Save, SaveFails, UserCancel, Crash, LoseStore, Restore, Hold, Open, ServerTimeOut, Refund, LateRequest, Expire, ServerStep, Mine, Reorg, Evict, Stop, passVars
    <2> QED
      BY <2>1, <2>2
  <1>2. (pc = "poll" /\ OurClaim => view.spend.path \in ClaimPaths)'
    <2>1. SUFFICES ASSUME pc' = "poll", OurClaim' PROVE view'.spend.path \in ClaimPaths
      OBVIOUS
    <2>2. CASE ReadHistory
      BY <2>1, <2>2 DEF ReadHistory, OurClaim, chainVars, Typed, TypeOK, ChainTypeOK, SpendSet, NoSpend
    <2>3. CASE pc = "poll" /\ view' = view
      <3>1. OurClaim
        BY <2>1, <2>3 DEF OurClaim, Next, Pass, App, Server, Chain, Begin, ReadHistory, ChainFails, Poll, StorePreimageSent, StorePreimageSentFails, RevealPreimage, SendCancel, SendCancelFails, BroadcastClaim, BroadcastClaimFails, Save, SaveFails, UserCancel, Crash, LoseStore, Restore, Hold, Open, ServerTimeOut, Refund, LateRequest, Expire, ServerStep, Mine, Reorg, Evict, chainVars, NoSpend, ClaimPaths, Typed, TypeOK, ChainTypeOK, SpendSet
      <3> QED
        BY <2>1, <2>3, <3>1 DEF Ended
    <2> QED
      BY <2>1, <2>2, <2>3, ViewStays
  <1> QED
    BY <1>1, <1>2

\* The statuses that no run loop drives.
LEMMA QuietStatus ==
  /\ \A r : IsQuiet(r) <=> r.status \in Final
  /\ {"none", "Restoring", "Confirming", "Funding", "Claiming"} \cap Final = {}
  BY DEF IsQuiet, Final

\* A swap under way is not quiet, unless the app steps it by hand.
LEMMA DrivenHolds ==
  ASSUME Typed, Ended, Next
  PROVE  Driven'
  <1> SUFFICES ASSUME ~ByHand, pc' # "idle"
               PROVE  /\ store'.status \notin Final
                      /\ pc' # "save" => mem'.status \notin Final
    BY QuietStatus DEF Driven
  <1>1. /\ pc # "idle" => store.status \notin Final
        /\ pc \notin {"idle", "save"} => mem.status \notin Final
    BY QuietStatus DEF Ended, Driven
  <1>2. /\ pc # "idle" => mem \in Record /\ store \in Record /\ store # NoRecord
        /\ plan \in Plan /\ plan.status \in Status
    BY Constants DEF Typed, TypeOK, PassTypeOK, InPass, Plan
  <1>3. \A r \in Record : /\ [r EXCEPT !.sentPreimage = TRUE].status = r.status
                          /\ [r EXCEPT !.sentCancel = TRUE].status = r.status
                          /\ [r EXCEPT !.status = plan.status].status = plan.status
    BY <1>2 DEF Record
  <1> USE DEF serverVars, chainVars, passVars, Stop
  <1>4. CASE Begin
    BY <1>4, QuietStatus DEF Begin
  <1>5. CASE Poll
    <2>1. PICK m \in Record, d \in Plan, payable \in BOOLEAN :
            /\ d = Decide(m, view, payable)
            /\ mem'.status = IF d.act = "Preimage" THEN mem.status ELSE d.status
            /\ pc' = IF d.act = "none" THEN "save" ELSE d.act
      BY <1>5, PollDecides
    <2>2. view \in View /\ pc = "poll" /\ store' = store
      BY <1>5 DEF Poll, Typed, TypeOK, PassTypeOK
    <2>3. /\ d.act = "Claim" => d.status = "Claiming"
          /\ d.act = "Cancel" => d.status = "Funding"
          /\ d.act \in {"none", "Cancel", "Preimage", "Claim"}
      BY <2>1, <2>2, DecideBecause DEF Plan
    <2> QED
      BY <1>1, <2>1, <2>2, <2>3, QuietStatus
  <1>6. CASE StorePreimageSent
    BY <1>1, <1>2, <1>3, <1>6 DEF StorePreimageSent
  <1>7. CASE StorePreimageSentFails
    BY <1>1, <1>2, <1>3, <1>7 DEF StorePreimageSentFails
  <1>8. CASE RevealPreimage \/ SendCancel \/ SendCancelFails
    BY <1>1, <1>8 DEF RevealPreimage, SendCancel, SendCancelFails
  <1>9. CASE ReadHistory \/ BroadcastClaim \/ BroadcastClaimFails
    BY <1>1, <1>9 DEF ReadHistory, BroadcastClaim, BroadcastClaimFails
  <1>10. CASE ChainFails \/ Save \/ SaveFails \/ Crash \/ LoseStore \/ UserCancel
    BY <1>10 DEF ChainFails, Save, SaveFails, Crash, LoseStore, UserCancel
  <1>11. CASE Restore
    BY <1>2, <1>11 DEF Restore
  <1>12. CASE Server
    BY <1>1, <1>12 DEF Server, Hold, Open, ServerTimeOut, Refund, ServerStep, LateRequest, Expire
  <1>13. CASE Chain
    BY <1>1, <1>13 DEF Chain, Mine, Reorg, Evict
  <1> QED
    BY <1>4, <1>5, <1>6, <1>7, <1>8, <1>9, <1>10, <1>11, <1>12, <1>13 DEF Next, Pass, App

\* A window closes in a poll alone.
LEMMA ClosedByPoll ==
  ASSUME Typed, Ended, Next, ~Poll, Closed'
  PROVE  Closed
  <1>1. mem'.status \in {store.status, mem.status, plan.status, "none"}
        /\ store'.status \in {store.status, mem.status, "none", "Restoring"}
    BY StatusMoves
  <1>2. mem'.status = "ClaimWindowClosed" /\ ~Closed => mem'.status = plan.status
    BY <1>1 DEF Closed
  <1>3. mem'.status \notin {store.status, mem.status, "none"} => pc \in {"Preimage", "reveal"}
    <2>1. \A r \in Record : [r EXCEPT !.sentPreimage = TRUE].status = r.status
                            /\ [r EXCEPT !.sentCancel = TRUE].status = r.status
      BY DEF Record
    <2>2. pc # "idle" => mem \in Record
      BY DEF Typed, InPass
    <2>3. CASE SendCancel
      BY <2>1, <2>2, <2>3 DEF SendCancel
    <2>4. CASE StorePreimageSent \/ StorePreimageSentFails \/ RevealPreimage
      BY <2>4 DEF StorePreimageSent, StorePreimageSentFails, RevealPreimage
    <2>5. CASE ~SendCancel /\ ~StorePreimageSent /\ ~StorePreimageSentFails /\ ~RevealPreimage
      <3>1. mem' \in {mem, store, NoRecord}
        BY <2>5 DEF Next, Pass, App, Server, Chain, Begin, ReadHistory, ChainFails, SendCancelFails, BroadcastClaim, BroadcastClaimFails, Save, SaveFails, UserCancel, Crash, LoseStore, Restore, Hold, Open, ServerTimeOut, Refund, LateRequest, Expire, ServerStep, Mine, Reorg, Evict, Stop, passVars
      <3> QED
        BY <3>1 DEF NoRecord
    <2> QED
      BY <2>3, <2>4, <2>5
  <1> QED
    BY <1>1, <1>2, <1>3 DEF Closed, Ended

\* A closed window stays closed, and what it left is never due.
LEMMA ClosedHolds ==
  ASSUME MarginCovers, Undisturbed, Typed, Carried, Seen, InTime, Ended, Next
  PROVE  (Closed => ~Due /\ ~OurClaim /\ (ByHand => WindowShut))'
  <1> USE CostCovered, Depths, CsvInRange, Bounds DEF serverVars, chainVars, passVars
  <1> SUFFICES ASSUME Closed' PROVE ~Due' /\ ~OurClaim' /\ (ByHand => WindowShut')
    OBVIOUS
  <1>1. CASE Poll /\ ~Closed
    <2>1. PICK m \in Record, d \in Plan, payable, key, canceled \in BOOLEAN :
            /\ d = Decide(m, view, payable)
            /\ m.sentPreimage = mem.sentPreimage
            /\ m.key <=> (mem.key \/ key)
            /\ m.preimage <=> (mem.preimage \/ view.spend.path = "Preimage")
            /\ mem'.status = IF d.act = "Preimage" THEN mem.status ELSE d.status
            /\ pc' = IF d.act = "none" THEN "save" ELSE d.act
      BY <1>1, PollDecides
    <2>2. /\ mem \in Record /\ store \in Record /\ view \in View /\ mem # NoRecord /\ store # NoRecord
          /\ pc = "poll" /\ UNCHANGED <<opening, spend, store>>
      BY <1>1, Constants DEF Poll, Typed, TypeOK, PassTypeOK, InPass
    <2>3. d.status = "ClaimWindowClosed"
      BY <1>1, <2>1, <2>2 DEF Closed
    <2>4. /\ pc' = "save" /\ view.opening > 0 /\ CsvLeft(view) < ClaimMargin
          /\ ~m.sentPreimage /\ ~m.key /\ ~m.preimage /\ view.spend.path # "Keypath"
      BY <2>1, <2>2, <2>3, DecideBecause
    <2>5. ~Due
      BY <2>1, <2>2, <2>4 DEF Due, InTime, Agreed, Carried, Marks, ClaimPaths
    <2>6. ~Due'
      BY <1>1, <2>4, <2>5, DueMoves DEF InTime, ReadHistory, Poll
    <2>7. ~OurClaim /\ ~OurClaim'
      <3>1. view.spend.path \notin ClaimPaths
        BY <2>1, <2>4 DEF ClaimPaths
      <3>2. ~OurClaim
        BY <2>2, <3>1 DEF Ended
      <3> QED
        BY <2>2, <3>2 DEF OurClaim
    <2>8. view.opening + ClaimMargin > Csv
      BY <2>4 DEF CsvLeft
    <2>9. ByHand => opening >= view.opening
      BY <2>2, <2>8 DEF Undisturbed, Seen
    <2> QED
      BY <2>2, <2>4, <2>6, <2>7, <2>8, <2>9 DEF WindowShut
  <1>2. CASE Closed
    <2>1. ~Due /\ ~OurClaim /\ (ByHand => WindowShut)
      BY <1>2 DEF Ended
    <2>2. pc \notin {"idle", "save"} => ByHand
      BY <1>2, QuietStatus DEF Ended, Driven, Closed, Final
    <2>3. ~Due'
      <3>1. SUFFICES ASSUME Poll, pc' = "Preimage" PROVE FALSE
        BY <2>1, DueMoves DEF InTime
      <3>2. PICK m \in Record, d \in Plan, payable \in BOOLEAN :
              /\ d = Decide(m, view, payable)
              /\ pc' = IF d.act = "none" THEN "save" ELSE d.act
        BY <3>1, PollDecides
      <3>3. view \in View /\ pc = "poll"
        BY <3>1 DEF Poll, Typed, TypeOK, PassTypeOK
      <3>4. CsvLeft(view) >= ClaimMargin
        BY <3>1, <3>2, <3>3, DecideBecause
      <3> QED
        BY <2>1, <2>2, <3>3, <3>4, MarginLeft DEF WindowShut
    <2>4. ~OurClaim'
      <3>1. pc # "Claim"
        BY <2>1 DEF Due
      <3> QED
        BY <2>1, <3>1 DEF OurClaim, Next, Pass, App, Server, Chain, Begin, ReadHistory, ChainFails, Poll, StorePreimageSent, StorePreimageSentFails, RevealPreimage, SendCancel, SendCancelFails, BroadcastClaim, BroadcastClaimFails, Save, SaveFails, UserCancel, Crash, LoseStore, Restore, Hold, Open, ServerTimeOut, Refund, LateRequest, Expire, ServerStep, Mine, Reorg, Evict, NoSpend, ClaimPaths, Typed, TypeOK, ChainTypeOK, SpendSet
    <2>5. ByHand => WindowShut'
      <3>1. SUFFICES ASSUME ByHand PROVE WindowShut'
        OBVIOUS
      <3>2. /\ MaxReorgs = 0 /\ opening > Csv - ClaimMargin /\ opening > 0
            /\ pc = "history" => opening - drift > Csv - ClaimMargin
            /\ pc = "poll" => view.opening > Csv - ClaimMargin
        BY <2>1, <3>1 DEF Undisturbed, WindowShut
      <3>3. CASE Mine
        <4>1. /\ opening' \in Int /\ opening' >= opening
              /\ pc = "history" => opening' = opening + 1 /\ drift' = drift + 1
              /\ UNCHANGED <<pc, view>>
          BY <3>2, <3>3, DeepIsNat DEF Mine, Deeper, Drift, Absent, Typed, TypeOK, ChainTypeOK
        <4> QED
          BY <3>2, <4>1 DEF WindowShut
      <3>4. CASE Reorg \/ Evict
        BY <3>2, <3>4 DEF Reorg, Evict, WindowShut
      <3>5. CASE Open
        BY <3>2, <3>5 DEF Open, ServerStep, Typed, NotOpened, Absent
      <3>6. CASE Begin
        BY <3>2, <3>6 DEF Begin, WindowShut
      <3>7. CASE ReadHistory
        <4>1. view'.opening = Confs(opening) /\ pc' = "poll" /\ opening' = opening
          BY <3>7 DEF ReadHistory
        <4>2. Confs(opening) > Csv - ClaimMargin
          BY <3>2, <3>7 DEF Confs, ReadHistory
        <4> QED
          BY <3>2, <4>1, <4>2 DEF WindowShut
      <3>8. CASE ~Mine /\ ~Reorg /\ ~Evict /\ ~Open /\ ~Begin /\ ~ReadHistory
        <4>1. opening' = opening
          BY <3>8 DEF Next, Pass, App, Server, Chain, ChainFails, Poll, StorePreimageSent, StorePreimageSentFails, RevealPreimage, SendCancel, SendCancelFails, BroadcastClaim, BroadcastClaimFails, Save, SaveFails, UserCancel, Crash, LoseStore, Restore, Hold, ServerTimeOut, Refund, LateRequest, Expire, ServerStep
        <4>2. pc' = "history" => pc = "history" /\ drift' = drift
          <5>1. Poll => pc' # "history"
            <6>1. SUFFICES ASSUME Poll PROVE pc' # "history"
              OBVIOUS
            <6>2. PICK d \in Plan : pc' = IF d.act = "none" THEN "save" ELSE d.act
              BY <6>1, PollDecides
            <6> QED
              BY <6>2 DEF Plan
          <5> QED
            BY <3>8, <5>1 DEF Next, Pass, App, Server, Chain, ChainFails, StorePreimageSent, StorePreimageSentFails, RevealPreimage, SendCancel, SendCancelFails, BroadcastClaim, BroadcastClaimFails, Save, SaveFails, UserCancel, Crash, LoseStore, Restore, Hold, ServerTimeOut, Refund, LateRequest, Expire, ServerStep, Stop
        <4>3. pc' = "poll" => pc = "poll" /\ view' = view
          BY <3>8, ViewStays
        <4> QED
          BY <3>2, <4>1, <4>2, <4>3 DEF WindowShut
      <3> QED
        BY <3>3, <3>4, <3>5, <3>6, <3>7, <3>8
    <2> QED
      BY <2>3, <2>4, <2>5
  <1> QED
    BY <1>1, <1>2, ClosedByPoll

\* Every step keeps what ended ended.
LEMMA EndedHolds ==
  ASSUME MarginCovers, Undisturbed, Typed, Carried, Seen, InTime, Ended, Next
  PROVE  Ended'
  <1>1. (Closed => ~Due /\ ~OurClaim /\ (ByHand => WindowShut))'
    BY ClosedHolds
  <1> QED
    BY <1>1, OffStays, PlanStays, DrivenHolds DEF Ended

-----------------------------------------------------------------------------
(* The theorems that rest on these layers.                                 *)

\* A final status reports what the chain did, whatever a pass read too early
\* and however many blocks reorgs drop (driver/decide/swap_out.rs, spent).
THEOREM FinalsAreTrue == Spec => []FinalMatchesChain
  <1>1. Init => Reports
    BY DEF Init, Reports, Reported, Accepted, NoRecord, NoPlan
  <1>2. Inv /\ Reports /\ [Next]_vars => Reports'
    <2>1. CASE UNCHANGED vars
      BY <2>1 DEF vars, chainVars, serverVars, passVars, Reports, Reported, Sunk
    <2>2. CASE Next
      BY <2>2, ReportsHold DEF Inv
    <2> QED
      BY <2>1, <2>2
  <1>3. Inv /\ Reports => FinalMatchesChain
    <2>1. SUFFICES ASSUME Inv, Reports, store.status \in {"Completed", "ServerRefunded"},
                          used.reorgs < MinConfs
                   PROVE  /\ spend.confs >= MinConfs - used.reorgs
                          /\ (spend.path = "Csv") <=> (store.status = "ServerRefunded")
      BY DEF FinalMatchesChain
    <2> QED
      BY <2>1, Depths, CsvInRange DEF Inv, Reports, Reported, Sunk
  <1> QED
    BY <1>1, <1>2, <1>3, Invariance, PTL DEF Spec

\* The layers of a view and of the gate hold in every behaviour.
LEMMA GateInvariance ==
  ASSUME GateKept
  PROVE  Spec => [](Inv /\ Carried /\ Seen /\ Gate)
  <1>1. Init => Carried /\ Seen /\ Gate
    <2>1. SUFFICES ASSUME Init PROVE Carried /\ Seen /\ Gate
      OBVIOUS
    <2>2. ~Flagged
      BY <2>1 DEF Init, Flagged, Marks, Accepted
    <2>3. Carried /\ Seen
      BY <2>1 DEF Init, Carried, Seen, NoSpend
    <2> QED
      BY <2>2, <2>3 DEF Gate
  <1>2. Inv /\ Carried /\ Seen /\ Gate /\ [Next]_vars => (Carried /\ Seen /\ Gate)'
    <2>1. CASE UNCHANGED vars
      BY <2>1 DEF vars, chainVars, serverVars, passVars, Carried, Seen, Gate, Flagged, Marks
    <2>2. CASE Next
      BY <2>2, CarriedHolds, SeenHolds, GateHolds DEF Inv, GateKept
    <2> QED
      BY <2>1, <2>2
  <1> QED
    BY <1>1, <1>2, Invariance, PTL DEF Spec

\* The preimage leaves only while the opening is deep, unspent and far enough
\* from its CSV, at the moment it leaves (driver/decide/swap_out.rs:68):
\* even when a crash left it to a pass that does not look at the margin again.
THEOREM ReleasesAreGated ==
  ASSUME GateKept
  PROVE  Spec => ReleaseGate
  <1>1. Inv /\ Carried /\ Seen /\ Gate /\ [Next]_vars =>
          [released' /\ ~released /\ used.losses = 0 =>
             /\ opening >= MinConfs - used.reorgs
             /\ spend = NoSpend \/ used.reorgs > 0
             /\ Csv - opening >= ClaimMargin - pace]_vars
    <2>1. SUFFICES ASSUME Inv, Gate, Next, released', ~released
                   PROVE  /\ opening >= MinConfs - used.reorgs
                          /\ spend = NoSpend
                          /\ Csv - opening >= ClaimMargin - pace
      OBVIOUS
    <2>2. CASE RevealPreimage
      BY <2>1, <2>2 DEF RevealPreimage, Gate, Flagged
    <2>3. CASE BroadcastClaim \/ BroadcastClaimFails
      <3>1. pc = "Claim" /\ mem \in Record /\ mem # NoRecord
        BY <2>1, <2>3, Constants DEF BroadcastClaim, BroadcastClaimFails, Inv, Typed, InPass
      <3>2. mem.sentPreimage
        BY <2>1, <3>1 DEF Inv, Evidence
      <3> QED
        BY <2>1, <3>1, <3>2 DEF Gate, Flagged, Marks
    <2>4. CASE ~RevealPreimage /\ ~BroadcastClaim /\ ~BroadcastClaimFails
      BY <2>1, <2>4 DEF Next, Pass, App, Server, Chain, Begin, ReadHistory, ChainFails, Poll, StorePreimageSent, StorePreimageSentFails, SendCancel, SendCancelFails, Save, SaveFails, UserCancel, Crash, LoseStore, Restore, Hold, Open, ServerTimeOut, Refund, LateRequest, Expire, ServerStep, Mine, Reorg, Evict
    <2> QED
      BY <2>2, <2>3, <2>4
  <1> QED
    BY <1>1, GateInvariance, PTL DEF Spec, ReleaseGate

\* The layers of what is due hold in every behaviour.
LEMMA InTimeInvariance ==
  ASSUME MarginCovers
  PROVE  Spec => [](Inv /\ Carried /\ Seen /\ InTime)
  <1>1. Init => Carried /\ Seen /\ InTime
    <2>1. SUFFICES ASSUME Init PROVE Carried /\ Seen /\ InTime
      OBVIOUS
    <2>2. ~Due /\ ~OurClaim
      BY <2>1 DEF Init, Due, OurClaim, Marks, Accepted, NoSpend, ClaimPaths
    <2>3. Carried /\ Seen /\ Agreed
      BY <2>1, <2>2 DEF Init, Carried, Seen, Agreed, NoSpend
    <2> QED
      BY <2>2, <2>3 DEF InTime, Budget
  <1>2. Inv /\ Carried /\ Seen /\ InTime /\ [Next]_vars => (Carried /\ Seen /\ InTime)'
    <2>1. CASE UNCHANGED vars
      BY <2>1 DEF vars, chainVars, serverVars, passVars, Carried, Seen, InTime, Budget, Agreed, Due, Settling, OurClaim, Cost, Marks
    <2>2. CASE Next
      BY <2>2, CarriedHolds, SeenHolds, InTimeHolds, CostCovered DEF Inv
    <2> QED
      BY <2>1, <2>2
  <1> QED
    BY <1>1, <1>2, Invariance, PTL DEF Spec

\* A payment the server took is never lost to its CSV refund, for any number
\* of crashes, failed saves, reorgs and lost stores, as long as claim_margin
\* covers two passes and as much again for every claim evicted.
THEOREM PaymentIsNeverLost ==
  ASSUME MarginCovers
  PROVE  Spec => []NeverLosesPayment
  <1>1. InTime => NeverLosesPayment
    BY DEF InTime, Budget, Due, OurClaim, NeverLosesPayment, ClaimPaths, NoSpend
  <1> QED
    BY <1>1, InTimeInvariance, PTL

\* What ended stays ended in every behaviour.
LEMMA EndedInvariance ==
  ASSUME MarginCovers, Undisturbed
  PROVE  Spec => [](Inv /\ Carried /\ Seen /\ InTime /\ Ended)
  <1>1. Init => Ended
    <2>1. SUFFICES ASSUME Init PROVE Ended
      OBVIOUS
    <2>2. ~Cancels(store) /\ ~Cancels(mem) /\ ~Closed
      BY <2>1 DEF Init, Cancels, Closed, Accepted, NoRecord
    <2>3. OffAs(store.status) /\ OffAs(mem.status) /\ OffAs(plan.status)
      BY <2>1 DEF Init, OffAs, Accepted, NoRecord, NoPlan
    <2>4. Driven
      BY <2>1 DEF Init, Driven
    <2> QED
      BY <2>1, <2>2, <2>3, <2>4 DEF Ended, Init
  <1>2. Inv /\ Carried /\ Seen /\ InTime /\ Ended /\ [Next]_vars => Ended'
    <2>1. CASE UNCHANGED vars
      BY <2>1 DEF vars, chainVars, serverVars, passVars, Ended, Cancels, CalledOff, OffAs, Closed, Due, Marks, OurClaim, WindowShut, Driven, IsQuiet
    <2>2. CASE Next
      BY <2>2, EndedHolds DEF Inv
    <2> QED
      BY <2>1, <2>2
  <1> QED
    BY <1>1, <1>2, InTimeInvariance, PTL DEF Spec

\* A record that is quiet but not Completed is of a swap whose payment is not
\* taken.
LEMMA OffIsUnpaid ==
  ASSUME InTime, Ended, NEW r \in {store, mem}, IsQuiet(r), r.status # "Completed"
  PROVE  ~settled /\ (CalledOff \/ ~Due)
  <1>1. r.status \in {"ServerCanceled", "ServerRefunded", "ClaimWindowClosed"}
    BY DEF IsQuiet, Final
  <1>2. CASE r.status = "ClaimWindowClosed"
    BY <1>2 DEF Ended, Closed, Due
  <1>3. CASE r.status # "ClaimWindowClosed"
    BY <1>1, <1>3 DEF Ended, OffAs, CalledOff, InTime, Agreed
  <1> QED
    BY <1>2, <1>3

\* A swap the run loop no longer drives has no payment left to claim
\* (driver/record.rs:135).
THEOREM QuietLeavesNothing ==
  ASSUME MarginCovers, Undisturbed
  PROVE  Spec => []NothingLeftWhenQuiet
  <1>1. InTime /\ Ended => NothingLeftWhenQuiet
    BY OffIsUnpaid DEF NothingLeftWhenQuiet
  <1> QED
    BY <1>1, EndedInvariance, PTL

-----------------------------------------------------------------------------
(* The refinement of Escrow.                                               *)

\* Only a claim of ours, seen on chain, completes a swap.
Earned == \A t \in {store.status, mem.status, plan.status} :
              t = "Completed" => released

\* What the user is told of a record.
Told(r) == IF r.status = "Completed" THEN "paid"
           ELSE IF IsQuiet(r) THEN "off" ELSE "open"

\* Every step keeps completion earned.
LEMMA EarnedHolds ==
  ASSUME Typed, Evidence, Earned, Next
  PROVE  Earned'
  <1>1. released => released'
    BY DEF Typed, TypeOK, ServerTypeOK, Next, Pass, App, Server, Chain, Begin, ReadHistory, ChainFails, Poll, StorePreimageSent, StorePreimageSentFails, RevealPreimage, SendCancel, SendCancelFails, BroadcastClaim, BroadcastClaimFails, Save, SaveFails, UserCancel, Crash, LoseStore, Restore, Hold, Open, ServerTimeOut, Refund, LateRequest, Expire, ServerStep, Mine, Reorg, Evict
  <1>2. CASE ~Poll
    BY <1>1, <1>2, StatusMoves DEF Earned
  <1>3. CASE Poll
    <2>1. PICK m \in Record, d \in Plan, payable \in BOOLEAN :
            /\ d = Decide(m, view, payable)
            /\ plan' = d
            /\ mem'.status = IF d.act = "Preimage" THEN mem.status ELSE d.status
      BY <1>3, PollDecides
    <2>2. view \in View
      BY DEF Typed, TypeOK, PassTypeOK
    <2>3. d.status = "Completed" => view.spend.confs >= MinConfs /\ view.spend.path # "Csv"
      BY <2>1, <2>2, DecideBecause
    <2>4. d.status = "Completed" => released
      BY <2>2, <2>3, CsvInRange DEF View, SpendSet, NoSpend, Evidence
    <2> QED
      BY <1>1, <2>1, <2>4, StatusMoves DEF Earned
  <1> QED
    BY <1>2, <1>3

\* The terms on which the promise is kept: the record is never lost, and the
\* app leaves a finished swap alone.
PromiseKept == MarginCovers /\ ~ByHand /\ MaxLosses = 0
\* Every step of the driver and its world is a step of the promise or none.
LEMMA PromiseStep ==
  ASSUME PromiseKept, Inv, InTime, Ended, Earned, Next
  PROVE  Promise!Next \/ UNCHANGED Promise!vars
  <1> USE DEF serverVars, chainVars, passVars, Stop
  <1> DEFINE told == Told(store)
             out  == IF released THEN "out" ELSE "kept"
  <1>1. /\ Promise!Next <=>
             \/ told = "open" /\ ~released /\ out' = "out" /\ settled' = settled /\ told' = told
             \/ told # "off" /\ released /\ settled' = TRUE /\ out' = out /\ told' = told
             \/ told = "open" /\ ~released /\ out' = "out" /\ settled' = TRUE /\ told' = told
             \/ told = "open" /\ released /\ told' = "paid" /\ out' = out /\ settled' = settled
             \/ told = "open" /\ ~settled /\ told' = "off" /\ out' = out /\ settled' = settled
        /\ UNCHANGED Promise!vars <=> (out' = out /\ settled' = settled /\ told' = told)
    BY DEF Promise!Next, Promise!Release, Promise!Take, Promise!ReleaseAndTake, Promise!Pay, Promise!CallOff, Promise!vars, Told
  <1>2. /\ released \in BOOLEAN /\ settled \in BOOLEAN /\ released' \in BOOLEAN /\ settled' \in BOOLEAN
        /\ settled => released
    BY ServerTyped DEF Inv, Typed, TypeOK, ServerTypeOK, Evidence
  <1>3. store # NoRecord /\ ~LoseStore /\ ~Restore
    <2>1. used.losses = 0
      BY Bounds DEF PromiseKept, Inv, Typed, TypeOK, ChainTypeOK, Bound
    <2> QED
      BY <2>1 DEF Inv, Ahead, LoseStore, Restore, PromiseKept
  <1>4. /\ pc # "idle" => told = "open" /\ mem \in Record /\ store \in Record
        /\ pc = "Preimage" => Told(mem) = "open"
    BY QuietStatus DEF PromiseKept, Ended, Driven, Told, Final, Inv, Typed, InPass
  <1>5. \A r : r.status = store.status => Told(r) = told
    BY DEF Told, IsQuiet
  <1>6. CASE RevealPreimage \/ BroadcastClaim \/ BroadcastClaimFails
    <2>1. told = "open" /\ told' = told
      BY <1>4, <1>6 DEF RevealPreimage, BroadcastClaim, BroadcastClaimFails
    <2>2. (released => released') /\ (settled => settled')
      BY <1>2, <1>6 DEF RevealPreimage, BroadcastClaim, BroadcastClaimFails, Unanswered, Take, TakePreimage
    <2>3. settled' => released'
      BY <1>2, <1>6 DEF RevealPreimage, BroadcastClaim, BroadcastClaimFails
    <2> HIDE DEF told
    <2> QED
      BY <1>1, <1>2, <2>1, <2>2, <2>3
  <1>7. CASE Save \/ SaveFails
    <2>1. told = "open" /\ store' \in {store, mem} /\ UNCHANGED <<released, settled>>
      BY <1>4, <1>7 DEF Save, SaveFails
    <2>2. told' = told \/ told' = Told(mem)
      BY <2>1 DEF Told
    <2>3. Told(mem) \in {"open", "paid", "off"}
      BY DEF Told
    <2>4. Told(mem) = "paid" => released
      BY DEF Told, Earned
    <2>5. Told(mem) = "off" => ~settled
      BY OffIsUnpaid DEF Told
    <2> HIDE DEF told
    <2> QED
      BY <1>1, <1>2, <2>1, <2>2, <2>3, <2>4, <2>5
  <1>8. CASE StorePreimageSent \/ StorePreimageSentFails
    <2>1. told = "open" /\ Told(mem) = "open" /\ mem \in Record /\ UNCHANGED <<released, settled>>
      BY <1>4, <1>8 DEF StorePreimageSent, StorePreimageSentFails
    <2>2. store' \in {store, [mem EXCEPT !.sentPreimage = TRUE]}
      BY <1>8 DEF StorePreimageSent, StorePreimageSentFails
    <2>3. [mem EXCEPT !.sentPreimage = TRUE].status = mem.status
      BY <2>1 DEF Record
    <2>4. Told(store') = "open"
      BY <2>1, <2>2, <2>3 DEF Told, IsQuiet
    <2>5. told' = "open"
      BY <2>4 DEF Told, IsQuiet
    <2> HIDE DEF told
    <2> QED
      BY <1>1, <1>2, <2>1, <2>5
  <1>9. CASE UserCancel
    <2>1. store \in Record /\ store' \in {store, [store EXCEPT !.sentCancel = TRUE]} /\ UNCHANGED <<released, settled>>
      BY <1>3, <1>9 DEF UserCancel, Unanswered, Take, TakeCancel, Inv, Typed, TypeOK, PassTypeOK
    <2>2. store'.status = store.status
      BY <2>1 DEF Record
    <2>3. told' = told
      BY <2>2 DEF Told, IsQuiet
    <2> HIDE DEF told
    <2> QED
      BY <1>1, <2>1, <2>3
  <1>10. CASE LateRequest
    <2>1. told' = told /\ released' = released
      BY <1>10 DEF LateRequest, Told
    <2>2. settled' = settled \/ (/\ settled' = TRUE /\ "Preimage" \in wire
                                 /\ server = "AwaitPreimageRevealed")
      BY <1>10 DEF LateRequest, Take, TakePreimage, TakeCancel
    <2>3. "Preimage" \in wire /\ server = "AwaitPreimageRevealed" => released /\ told # "off"
      <3>1. SUFFICES ASSUME "Preimage" \in wire, server = "AwaitPreimageRevealed"
                     PROVE  released /\ told # "off"
        OBVIOUS
      <3>2. Due /\ ~CalledOff
        BY <3>1 DEF Due, CalledOff
      <3>3. told = "off" => IsQuiet(store) /\ store.status # "Completed"
        BY DEF Told
      <3> QED
        BY <3>1, <3>2, <3>3, OffIsUnpaid DEF Inv, Evidence
    <2> HIDE DEF told
    <2> QED
      BY <1>1, <1>2, <2>1, <2>2, <2>3
  <1>11. CASE UNCHANGED <<released, settled, store>>
    <2>1. told' = told
      BY <1>11 DEF Told, IsQuiet
    <2> HIDE DEF told
    <2> QED
      BY <1>1, <1>11, <2>1
  <1> QED
    BY <1>3, <1>6, <1>7, <1>8, <1>9, <1>10, <1>11 DEF Next, Pass, App, Server, Chain, Begin, ReadHistory, ChainFails, Poll, SendCancel, TakeCancel, SendCancelFails, Unanswered, Take, Crash, Hold, Open, ServerTimeOut, Refund, Expire, ServerStep, Mine, Reorg, Evict

\* A SwapOut under the driver keeps the promise of Escrow: the payment is
\* taken only with the preimage, and a swap is called off only while it is not
\* taken and never is after (driver/decide/swap_out.rs, driver/tick.rs).
THEOREM PromiseIsKept ==
  ASSUME PromiseKept
  PROVE  Spec => KeepsThePromise
  <1>1. MarginCovers /\ Undisturbed
    BY DEF PromiseKept, Undisturbed
  <1>2. Spec => [](Inv /\ Carried /\ Seen /\ InTime /\ Ended)
    BY <1>1, EndedInvariance
  <1>3. Init => Earned /\ Promise!Init
    BY QuietStatus DEF Init, Earned, Accepted, NoRecord, NoPlan, Promise!Init, IsQuiet, Final
  <1>4. Inv /\ Earned /\ [Next]_vars => Earned'
    <2>1. CASE UNCHANGED vars
      BY <2>1 DEF vars, chainVars, serverVars, passVars, Earned
    <2>2. CASE Next
      BY <2>2, EarnedHolds DEF Inv
    <2> QED
      BY <2>1, <2>2
  <1>5. Inv /\ InTime /\ Ended /\ Earned /\ [Next]_vars => [Promise!Next]_Promise!vars
    <2>1. CASE UNCHANGED vars
      BY <2>1 DEF vars, chainVars, serverVars, passVars, Promise!vars, IsQuiet
    <2>2. CASE Next
      BY <2>2, PromiseStep
    <2> QED
      BY <2>1, <2>2
  <1> QED
    BY <1>2, <1>3, <1>4, <1>5, PTL DEF Spec, KeepsThePromise, Promise!Spec
=============================================================================
