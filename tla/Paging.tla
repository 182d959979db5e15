------------------------------- MODULE Paging -------------------------------
(***************************************************************************)
(* Driver::restore_all: the server's list of our swaps is read page by     *)
(* page while swaps go on being created, here or on another device, and    *)
(* every swap the store lacks is rebuilt from the request we signed.       *)
(*                                                                         *)
(* An honest server serves the list as it stands at each read, wherever a  *)
(* new swap comes in it. Another serves any entries it likes; it can only  *)
(* not sign for us.                                                        *)
(***************************************************************************)
EXTENDS Integers, Sequences, FiniteSets

CONSTANTS
    Mine,       \* the swaps we ever create
    MadeUp,     \* entries that are none of ours
    Limit       \* MAX_SWAP_LIST_LIMIT

VARIABLES
    honest,     \* whether the server is
    listed,     \* our swaps in the order it lists them
    created,    \* swaps created since the last page was read
    stored,     \* the swaps of the store as restore_all began
    found,      \* swaps restored, or failed with the check they failed
    seen,       \* ids listed so far
    due,        \* history: what was listed as restore_all began
    offset,     \* query.offset
    pages,      \* pages read
    loop        \* "no", "paging", "done" or "failed"

pageVars == <<honest, listed, created, stored, found, seen, due, offset, pages, loop>>

Listed == {listed[i] : i \in DOMAIN listed}

\* An entry of a page: whose it says it is, and whether we signed for it.
Entry == {e \in [id : Mine \cup MadeUp, signed : BOOLEAN] : e.signed => e.id \in Mine}

Ids(page) == {page[i].id : i \in DOMAIN page}

\* The entries looked at: the first of each id not listed before.
Fresh(page) ==
    {i \in DOMAIN page :
        page[i].id \notin seen /\ \A j \in DOMAIN page : j < i => page[j].id # page[i].id}

\* Mutant: any entry not listed before keeps the paging going.
BringsAny(page) == Fresh(page) # {}

\* Mutant: only a swap to restore does.
BringsToRestore(page) == \E i \in Fresh(page) : page[i].id \notin stored /\ page[i].signed

\* Whether a page brought one of ours.
Brings(page) == \E i \in Fresh(page) : page[i].id \in stored \/ page[i].signed

-----------------------------------------------------------------------------
Init ==
    /\ honest = TRUE
    /\ listed = <<>> /\ created = 0
    /\ stored = {} /\ found = {} /\ seen = {} /\ due = {}
    /\ offset = 0 /\ pages = 0 /\ loop = "no"

InsertAt(s, i, e) == [j \in 1..Len(s) + 1 |-> IF j < i THEN s[j] ELSE IF j = i THEN e ELSE s[j - 1]]

\* create_swap: the list grows by one, anywhere in it. While restore_all reads,
\* fewer than a page of them between two reads.
Create(id, i) ==
    /\ id \notin Listed
    /\ loop = "paging" => created + 1 < Limit
    /\ listed' = InsertAt(listed, i, id)
    /\ created' = created + 1
    /\ UNCHANGED <<honest, stored, found, seen, due, offset, pages, loop>>

\* restore_all starts with the ids of the store.
Begin(ids, truthful) ==
    /\ loop = "no"
    /\ loop' = "paging"
    /\ honest' = truthful
    /\ stored' = ids /\ due' = Listed
    /\ found' = {} /\ seen' = {} /\ offset' = 0 /\ pages' = 0 /\ created' = 0
    /\ UNCHANGED listed

\* One page: what the store lacks is restored if we signed for it, else it
\* failed. On to the next only if there is one and this one brought ours.
TakePage(page, hasNext) ==
    /\ loop = "paging"
    /\ seen' = seen \cup Ids(page)
    /\ found' = found \cup {page[i].id : i \in {i \in Fresh(page) : page[i].id \notin stored}}
    /\ offset' = offset + Len(page)
    /\ pages' = pages + 1
    /\ created' = 0
    /\ loop' = IF hasNext /\ Brings(page) THEN "paging" ELSE "done"
    /\ UNCHANGED <<honest, listed, stored, due>>

HonestPage ==
    LET swaps == SubSeq(listed, offset + 1, IF offset + Limit < Len(listed)
                                            THEN offset + Limit ELSE Len(listed))
        page == [i \in DOMAIN swaps |-> [id |-> swaps[i], signed |-> TRUE]]
    IN honest /\ TakePage(page, offset + Len(page) < Len(listed))

AnyPage ==
    /\ ~honest
    /\ \E n \in 0..Limit : \E page \in [1..n -> Entry], hasNext \in BOOLEAN :
          TakePage(page, hasNext)

\* A page that does not come fails the whole call.
PageLost ==
    /\ loop = "paging"
    /\ loop' = "failed"
    /\ UNCHANGED <<honest, listed, created, stored, found, seen, due, offset, pages>>

Next ==
    \/ \E id \in Mine : \E i \in 1..Len(listed) + 1 : Create(id, i)
    \/ \E ids \in SUBSET Listed, truthful \in BOOLEAN : Begin(ids, truthful)
    \/ HonestPage \/ AnyPage \/ PageLost

Spec == Init /\ [][Next]_pageVars

-----------------------------------------------------------------------------
(* Properties.                                                             *)

\* Every swap the server listed as restore_all began is in the store or in its
\* report when it ends, however many were created meanwhile: a swap pushed
\* past a page's end is listed again, never skipped.
RestoreFindsAll == (loop = "done" /\ honest) => due \subseteq stored \cup found

\* No server keeps the paging going: pages are at most one more than the swaps
\* of ours it listed.
PagingEnds == pages <= Cardinality(seen \cap Mine) + 1
=============================================================================
