------------------------------ MODULE History ------------------------------
(***************************************************************************)
(* How a pass reads a chain: the history of a script page by page, and an  *)
(* output's spend from the output itself, while blocks come, a block is    *)
(* reorganised away and the mempool changes between two requests (core's   *)
(* esplora clients, ts-sdk's esplora.ts, driver/chain.rs).                 *)
(*                                                                         *)
(* The indexer is electrs: its first page is mempool, at most PoolCap of   *)
(* it, then the newest Page in blocks; further pages follow a transaction  *)
(* in a block. It indexes a block before it updates its mempool.           *)
(***************************************************************************)
EXTENDS Integers, Sequences, FiniteSets, SequencesExt, FiniteSetsExt, Functions

CONSTANTS
    Txs,            \* transactions touching the script, numbered
    Spending,       \* the one that spends the output asked about
    Page,           \* HISTORY_PAGE
    PoolCap,        \* electrs' bound on the mempool part
    MaxRetries,     \* MAX_RETRIES
    MaxHeight,      \* bound: blocks
    MaxMoves,       \* bound: changes of the chain during one read
    Clients,        \* "bitcoin", "liquid" and "ts"
    None

VARIABLES
    client,     \* whose reads
    blocks,     \* transactions in blocks with their heights, oldest first
    height,     \* the tip
    pool,       \* those in the mempool
    lag,        \* those in the tip and still listed as mempool
    bodies,     \* LiquidEsplora::txs and EsploraBase.txs: bodies kept
    read,       \* the read under way: its step, page anchor, tries, entries
    stay,       \* history: entries in blocks since the read began
    known,      \* history: whether Spending was known since the read began
    cut         \* history: whether the anchor left the chain

historyVars == <<client, blocks, height, pool, lag, bodies, read, stay, known, cut>>
chainVars == <<blocks, height, pool, lag>>

NoRead == [at |-> "idle", last |-> None, tries |-> 0, got |-> {}, moves |-> 0]

\* The steps of a read under way.
Reading == read.at \in {"pages", "bodies", "outspend", "body", "height"}

Init ==
    /\ client \in Clients
    /\ blocks = <<>> /\ height = 0 /\ pool = {} /\ lag = {}
    /\ bodies = {} /\ read = NoRead
    /\ stay = {} /\ known = FALSE /\ cut = FALSE

Mined == {blocks[i].tx : i \in DOMAIN blocks}

-----------------------------------------------------------------------------
(* The chain.                                                              *)

\* What a change of the chain leaves of the history variables, during a read.
Track(inBlocks, inPool) ==
    LET txs == {e.tx : e \in inBlocks}
    IN /\ read.moves < MaxMoves
       /\ read' = [read EXCEPT !.moves = IF Reading THEN @ + 1 ELSE 0]
       /\ stay' = stay \cap inBlocks
       /\ known' = (known /\ Spending \in txs \cup inPool)
       /\ cut' = (cut \/ (Reading /\ read.last # None /\ read.last \notin txs))

Enter(tx) ==
    /\ tx \notin Mined \cup pool
    /\ pool' = pool \cup {tx}
    /\ Track(Range(blocks), pool')
    /\ UNCHANGED <<client, blocks, height, lag, bodies>>

\* Replaced or evicted.
Leave(tx) ==
    /\ tx \in pool
    /\ pool' = pool \ {tx}
    /\ Track(Range(blocks), pool')
    /\ UNCHANGED <<client, blocks, height, lag, bodies>>

\* A block, in whatever order.
Mine(txs) ==
    /\ height < MaxHeight
    /\ txs \subseteq pool
    /\ height' = height + 1
    /\ \E order \in Bijection(1..Cardinality(txs), txs) :
          blocks' = blocks \o [i \in 1..Cardinality(txs) |->
                                  [tx |-> order[i], height |-> height + 1]]
    /\ pool' = pool \ txs /\ lag' = txs
    /\ Track(Range(blocks'), pool')
    /\ UNCHANGED <<client, bodies>>

MempoolUpdates ==
    /\ lag # {}
    /\ lag' = {}
    /\ Track(Range(blocks), pool)
    /\ UNCHANGED <<client, blocks, height, pool, bodies>>

\* The tip gives way; its transactions are in the mempool again.
Reorg ==
    LET below == {i \in DOMAIN blocks : blocks[i].height < height}
        kept == SubSeq(blocks, 1, Cardinality(below))
    IN /\ height > 0
       /\ height' = height - 1
       /\ blocks' = kept
       /\ pool' = pool \cup {e.tx : e \in Range(blocks) \ Range(kept)}
       /\ lag' = {}
       /\ Track(Range(kept), pool')
       /\ UNCHANGED <<client, bodies>>

-----------------------------------------------------------------------------
(* The indexer.                                                            *)

\* A transaction's status: no height in the mempool.
Confirmation(tx) ==
    IF tx \in Mined THEN (CHOOSE e \in Range(blocks) : e.tx = tx).height ELSE None
Served(tx) == tx \in Mined \cup pool

Smaller(a, b) == IF a < b THEN a ELSE b

\* As much of the mempool as a page lists, in whatever order.
PoolListings ==
    LET txs == pool \cup lag
    IN {{[tx |-> t, height |-> None] : t \in some} :
           some \in kSubset(Smaller(PoolCap, Cardinality(txs)), txs)}

\* The entries older than `last`: none when it is in no block any more.
ChainListing(last) ==
    LET newest == Reverse(blocks)
        after == IF last = None THEN newest
                 ELSE IF last \notin Mined THEN <<>>
                 ELSE SubSeq(newest, 1 + (CHOOSE i \in DOMAIN newest : newest[i].tx = last), Len(newest))
    IN SubSeq(after, 1, Smaller(Page, Len(after)))

\* The entries of a page: only the first has mempool before those in blocks.
AddressTxs(last) ==
    {listed \cup Range(ChainListing(last)) : listed \in IF last = None THEN PoolListings ELSE {{}}}

-----------------------------------------------------------------------------
(* A read of the history.                                                  *)

Begin(what) ==
    /\ read.at = "idle"
    /\ read' = [NoRead EXCEPT !.at = what]
    /\ stay' = IF what = "pages" THEN Range(blocks) ELSE {}
    /\ known' = (what = "outspend" /\ Spending \in Mined \cup pool)
    /\ cut' = FALSE
    /\ UNCHANGED chainVars /\ UNCHANGED <<client, bodies>>

\* Mutant: a full page is taken for the last.
MoreAbovePage(confirmed) == confirmed > Page

\* Whether a page of so many in blocks may have others below it.
More(confirmed) == confirmed >= Page

ReadPage ==
    /\ read.at = "pages"
    /\ \E page \in AddressTxs(read.last) :
          LET confirmed == ChainListing(read.last)
          IN read' = [read EXCEPT
               !.got = @ \cup page, !.tries = 0,
               !.last = IF confirmed = <<>> THEN None ELSE Last(confirmed).tx,
               !.at = IF More(Len(confirmed)) THEN "pages"
                      ELSE IF client = "bitcoin" THEN "done" ELSE "bodies"]
    /\ UNCHANGED chainVars /\ UNCHANGED <<client, bodies, stay, known, cut>>

\* knownTx, and get_tx of the bodies Liquid's client lacks, kept as each comes:
\* one no longer served leaves its entry out.
Missing == {e.tx : e \in read.got} \ bodies

ReadBody ==
    /\ read.at = "bodies" /\ Missing # {}
    /\ LET tx == Min(Missing)
       IN IF Served(tx)
          THEN bodies' = bodies \cup {tx} /\ read' = [read EXCEPT !.tries = 0]
          ELSE /\ read' = [read EXCEPT !.tries = 0,
                                       !.got = {e \in @ : e.tx # tx}]
               /\ UNCHANGED bodies
    /\ UNCHANGED chainVars /\ UNCHANGED <<client, stay, known, cut>>

EndBodies ==
    /\ read.at = "bodies" /\ Missing = {}
    /\ read' = [read EXCEPT !.at = "done"]
    /\ UNCHANGED chainVars /\ UNCHANGED <<client, bodies, stay, known, cut>>

-----------------------------------------------------------------------------
(* A read of an output's spend: by which transaction, its body, its height. *)

Outspend ==
    /\ read.at = "outspend"
    /\ read' = [read EXCEPT !.tries = 0,
                   !.at = IF Served(Spending) THEN "body" ELSE "spend",
                   !.got = IF Served(Spending) THEN {[tx |-> Spending, height |-> Confirmation(Spending)]}
                           ELSE {}]
    /\ UNCHANGED chainVars /\ UNCHANGED <<client, bodies, stay, known, cut>>

\* A spend the indexer no longer serves counts as none. The TypeScript client
\* has its height from the outspend, the others ask for it last.
SpendBody ==
    /\ read.at = "body"
    /\ LET there == Served(Spending) \/ (client = "ts" /\ Spending \in bodies)
       IN /\ read' = [read EXCEPT !.tries = 0, !.got = IF there THEN @ ELSE {},
                         !.at = IF there /\ client # "ts" THEN "height" ELSE "spend"]
          /\ bodies' = IF there /\ client = "ts" THEN bodies \cup {Spending} ELSE bodies
    /\ UNCHANGED chainVars /\ UNCHANGED <<client, stay, known, cut>>

\* /tx/:txid/status reports an unknown transaction as unconfirmed.
SpendHeight ==
    /\ read.at = "height"
    /\ read' = [read EXCEPT !.tries = 0, !.at = "spend",
                            !.got = {[tx |-> Spending, height |-> Confirmation(Spending)]}]
    /\ UNCHANGED chainVars /\ UNCHANGED <<client, bodies, stay, known, cut>>

\* retrying: a request answered by 429, 500 or 503 is asked again.
Retry ==
    /\ Reading /\ read.tries < MaxRetries
    /\ read' = [read EXCEPT !.tries = @ + 1]
    /\ UNCHANGED chainVars /\ UNCHANGED <<client, bodies, stay, known, cut>>

\* An error, a timeout or one try too many fails the whole read.
ReadFails ==
    /\ Reading
    /\ read' = NoRead /\ stay' = {} /\ known' = FALSE /\ cut' = FALSE
    /\ UNCHANGED chainVars /\ UNCHANGED <<client, bodies>>

\* The pass takes what was read.
Decide ==
    /\ read.at \in {"done", "spend"}
    /\ read' = NoRead /\ stay' = {} /\ known' = FALSE /\ cut' = FALSE
    /\ UNCHANGED chainVars /\ UNCHANGED <<client, bodies>>

\* The chain may move before every step of a read; moves after it are those
\* before the next.
Next ==
    \/ /\ read.at \notin {"done", "spend"}
       /\ \/ \E tx \in Txs : Enter(tx) \/ Leave(tx)
          \/ \E txs \in SUBSET pool : Mine(txs)
          \/ MempoolUpdates \/ Reorg
    \/ \E what \in {"pages", "outspend"} : Begin(what)
    \/ ReadPage \/ ReadBody \/ EndBodies
    \/ Outspend \/ SpendBody \/ SpendHeight
    \/ Retry \/ ReadFails \/ Decide

Spec == Init /\ [][Next]_historyVars

-----------------------------------------------------------------------------
(* Properties.                                                             *)

\* What a pass decides on is whole: a history read has every transaction that
\* stayed in its block from the first page to the last, at its height, however
\* many blocks, mempool arrivals and retries fell between the pages, unless a
\* reorg took the very transaction a page was asked from. And a spend known all
\* through the read of its output is never read as none.
HistoryWhole ==
    /\ (read.at = "done" /\ ~cut) => stay \subseteq read.got
    /\ (read.at = "spend" /\ known) => read.got # {}
=============================================================================
