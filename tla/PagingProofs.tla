---------------------------- MODULE PagingProofs ----------------------------
(***************************************************************************)
(* Theorems about Paging, for any finite set of swaps and any page size:   *)
(* no server keeps restore_all paging, and an honest one has it find every *)
(* swap listed as it began.                                                *)
(*                                                                         *)
(* The inductive invariants: a page that keeps the paging going lists a    *)
(* swap of ours not listed before (Counted); of the list as it stands, the *)
(* swaps seen reach no further past the offset than swaps were created     *)
(* since, and what of it was due and lies before the offset was found      *)
(* (Cursor, Looked), so that a full page always brings something new.      *)
(***************************************************************************)
EXTENDS Paging, SequenceTheorems, FiniteSetTheorems, TLAPS

Sizes == IsFiniteSet(Mine) /\ Limit \in Nat \ {0}

Typed ==
    /\ listed \in Seq(Mine)
    /\ stored \subseteq Mine
    /\ created \in Nat /\ offset \in Nat /\ pages \in Nat
    /\ loop \in {"no", "paging", "done", "failed"}

Counted == pages <= Cardinality(seen \cap Mine) + (IF loop = "paging" THEN 0 ELSE 1)

\* The server lists a swap once.
Once == \A i, j \in 1..Len(listed) : listed[i] = listed[j] => i = j

\* Whatever was due and listed on a page was found.
Looked == honest => \A id \in due \cap seen : id \in stored \cup found

Cursor ==
    (honest /\ loop = "paging") =>
        /\ created < Limit
        /\ offset <= Len(listed)
        /\ due \cup seen \subseteq Listed
        /\ \A i \in 1..Len(listed) : listed[i] \in seen => i <= offset + created
        /\ \A i \in 1..Len(listed) :
              i <= offset /\ listed[i] \in due => listed[i] \in stored \cup found

Inv == Typed /\ Counted /\ Once /\ Looked /\ Cursor /\ RestoreFindsAll

-----------------------------------------------------------------------------
(* A list with one more in it: what was there keeps its order.             *)
LEMMA Inserted ==
    ASSUME NEW s \in Seq(Mine), NEW id \in Mine, NEW i \in 1..Len(s) + 1
    PROVE  /\ InsertAt(s, i, id) \in Seq(Mine)
           /\ Len(InsertAt(s, i, id)) = Len(s) + 1
           /\ \A j \in 1..Len(s) + 1 :
                 InsertAt(s, i, id)[j] = IF j < i THEN s[j] ELSE IF j = i THEN id ELSE s[j - 1]
<1> DEFINE t == InsertAt(s, i, id)
<1>1. /\ Len(s) \in Nat
      /\ \A j \in 1..Len(s) : s[j] \in Mine
  BY LenProperties, ElementOfSeq
<1>2. \A j \in 1..Len(s) + 1 :
          (IF j < i THEN s[j] ELSE IF j = i THEN id ELSE s[j - 1]) \in Mine
  BY <1>1
<1>3. t \in [1..Len(s) + 1 -> Mine]
  BY <1>2 DEF InsertAt
<1>4. t \in Seq(Mine) /\ DOMAIN t = 1..Len(s) + 1
  BY <1>1, <1>3, SeqDef
<1>5. Len(t) = Len(s) + 1
  BY <1>1, <1>4, LenProperties
<1> QED
  BY <1>4, <1>5 DEF InsertAt

(* The page an honest server reads off its list.                           *)
LEMMA PageOf ==
    ASSUME NEW s \in Seq(Mine), NEW o \in Nat, NEW e \in Nat, o <= e, e <= Len(s)
    PROVE  LET swaps == SubSeq(s, o + 1, e)
               page == [i \in DOMAIN swaps |-> [id |-> swaps[i], signed |-> TRUE]]
           IN /\ DOMAIN page = 1..e - o
              /\ Len(page) = e - o
              /\ \A i \in 1..e - o : page[i] = [id |-> s[o + i], signed |-> TRUE]
<1> DEFINE swaps == SubSeq(s, o + 1, e)
<1> DEFINE page == [i \in DOMAIN swaps |-> [id |-> swaps[i], signed |-> TRUE]]
<1>1. Len(s) \in Nat /\ \A i \in o + 1..e : s[i] \in Mine
  BY LenProperties, ElementOfSeq
<1>2. /\ swaps \in Seq(Mine)
      /\ Len(swaps) = e - o
      /\ \A i \in 1..e - o : swaps[i] = s[o + i]
  BY <1>1, SubSeqProperties
<1>3. DOMAIN swaps = 1..e - o
  BY <1>2, LenProperties
<1> HIDE DEF swaps
<1>4. page \in Seq([id : Mine, signed : BOOLEAN])
  <2>1. page \in [1..e - o -> [id : Mine, signed : BOOLEAN]]
    BY <1>2, <1>3, ElementOfSeq
  <2> QED
    BY <2>1, SeqDef
<1>5. DOMAIN page = 1..e - o /\ Len(page) = e - o
  BY <1>3, <1>4, LenProperties
<1> QED
  BY <1>2, <1>3, <1>5 DEF swaps

-----------------------------------------------------------------------------
(* What any page leaves, whoever serves it: the one that lets the paging go *)
(* on lists one of ours that was not listed before.                         *)
LEMMA PageCounts ==
    ASSUME Sizes, Typed, Counted,
           NEW page, NEW hasNext \in BOOLEAN,
           Len(page) \in Nat,
           \A i \in DOMAIN page : page[i] \in Entry,
           TakePage(page, hasNext)
    PROVE  Typed' /\ Counted'
<1>1. Typed'
  BY DEF TakePage, Typed
<1>2. /\ IsFiniteSet(seen \cap Mine) /\ Cardinality(seen \cap Mine) \in Nat
      /\ IsFiniteSet(seen' \cap Mine) /\ Cardinality(seen' \cap Mine) \in Nat
  BY FS_Subset, FS_CardinalityType, seen \cap Mine \in SUBSET Mine, seen' \cap Mine \in SUBSET Mine DEF Sizes
<1>3. seen \cap Mine \subseteq seen' \cap Mine
  BY DEF TakePage
<1>4. Cardinality(seen \cap Mine) <= Cardinality(seen' \cap Mine)
  BY <1>2, <1>3, FS_Subset
<1>5. pages <= Cardinality(seen \cap Mine)
  BY <1>2 DEF TakePage, Counted, Typed
<1>6. pages' = pages + 1
  BY DEF TakePage
<1>7. CASE ~(hasNext /\ Brings(page))
  <2>1. loop' = "done"
    BY <1>7 DEF TakePage
  <2> QED
    BY <1>1, <1>2, <1>4, <1>5, <1>6, <2>1 DEF Counted, Typed
<1>8. CASE Brings(page)
  <2>1. PICK i \in Fresh(page) : page[i].id \in stored \/ page[i].signed
    BY <1>8 DEF Brings
  <2>2. page[i].id \in Mine /\ page[i].id \notin seen
    BY <2>1 DEF Fresh, Entry, Typed
  <2>3. page[i].id \in seen'
    BY <2>1 DEF Fresh, TakePage, Ids
  <2>4. Cardinality(seen \cap Mine) # Cardinality(seen' \cap Mine)
    BY <1>2, <1>3, <2>2, <2>3, FS_Subset
  <2>5. pages' <= Cardinality(seen' \cap Mine)
    BY <1>2, <1>4, <1>5, <1>6, <2>4 DEF Typed
  <2> QED
    BY <1>1, <1>2, <2>5 DEF Counted, Typed
<1> QED
  BY <1>7, <1>8

(* A page of an honest server: the swaps of its list from the offset on,    *)
(* each fresh unless seen, each due one of them found.                      *)
LEMMA HonestFinds ==
    ASSUME Sizes, Inv, HonestPage
    PROVE  Inv'
<1> DEFINE last == IF offset + Limit < Len(listed) THEN offset + Limit ELSE Len(listed)
<1> DEFINE swaps == SubSeq(listed, offset + 1, last)
<1> DEFINE page == [i \in DOMAIN swaps |-> [id |-> swaps[i], signed |-> TRUE]]
<1> DEFINE hasNext == offset + Len(page) < Len(listed)
<1>1. honest /\ TakePage(page, hasNext)
  BY DEF HonestPage
<1>2. /\ loop = "paging" /\ created < Limit /\ offset <= Len(listed)
      /\ listed \in Seq(Mine) /\ Len(listed) \in Nat /\ offset \in Nat /\ created \in Nat
  BY <1>1, LenProperties DEF Inv, Cursor, TakePage, Typed
<1>3. last \in Nat /\ offset <= last /\ last <= Len(listed)
  BY <1>2 DEF Sizes
<1>4. /\ DOMAIN page = 1..last - offset
      /\ Len(page) = last - offset
      /\ \A i \in 1..last - offset : page[i] = [id |-> listed[offset + i], signed |-> TRUE]
  BY <1>2, <1>3, PageOf
<1>5. \A i \in 1..Len(listed) : listed[i] \in Mine
  BY <1>2, ElementOfSeq
<1> HIDE DEF last, page
<1>6. \A i \in DOMAIN page : page[i] \in Entry
  <2> SUFFICES ASSUME NEW i \in 1..last - offset
               PROVE  [id |-> listed[offset + i], signed |-> TRUE] \in Entry
    BY <1>4
  <2>1. listed[offset + i] \in Mine
    BY <1>2, <1>3, <1>5
  <2> QED
    BY <2>1 DEF Entry
<1>7. Typed' /\ Counted'
  <2>1. Len(page) \in Nat /\ hasNext \in BOOLEAN
    BY <1>2, <1>3, <1>4
  <2> HIDE DEF hasNext
  <2> QED
    BY <1>1, <1>6, <2>1, PageCounts DEF Inv
<1>8. UNCHANGED <<honest, listed, stored, due>> /\ offset' = last /\ created' = 0
  BY <1>1, <1>2, <1>3, <1>4 DEF TakePage
<1>9. Once'
  BY <1>8 DEF Inv, Once
<1>10. Fresh(page) = {i \in 1..last - offset : listed[offset + i] \notin seen}
  <2>1. \A i, j \in 1..last - offset : j < i => page[j].id # page[i].id
    <3> SUFFICES ASSUME NEW i \in 1..last - offset, NEW j \in 1..last - offset, j < i
                 PROVE  listed[offset + j] # listed[offset + i]
      BY <1>4
    <3>1. offset + i \in 1..Len(listed) /\ offset + j \in 1..Len(listed) /\ offset + i # offset + j
      BY <1>2, <1>3
    <3> QED
      BY <3>1 DEF Inv, Once
  <2> QED
    BY <1>4, <2>1 DEF Fresh
<1>11. \A i \in 1..last - offset :
          listed[offset + i] \in seen'
  BY <1>1, <1>4 DEF TakePage, Ids
<1>12. \A id \in seen' : id \in seen \/ \E i \in 1..last - offset : id = listed[offset + i]
  BY <1>1, <1>4 DEF TakePage, Ids
<1>13. \A i \in 1..last - offset :
          listed[offset + i] \in due => listed[offset + i] \in stored \cup found'
  BY <1>1, <1>4, <1>10 DEF TakePage, Inv, Looked
<1>14. found \subseteq found'
  BY <1>1 DEF TakePage
<1>15. Looked'
  BY <1>8, <1>12, <1>13, <1>14 DEF Inv, Looked
<1>16. \A i \in 1..Len(listed) :
          i <= last /\ listed[i] \in due => listed[i] \in stored \cup found'
  <2> SUFFICES ASSUME NEW i \in 1..Len(listed), i <= last, listed[i] \in due
               PROVE  listed[i] \in stored \cup found'
    OBVIOUS
  <2>1. CASE i <= offset
    BY <1>1, <1>2, <1>14, <2>1 DEF Inv, Cursor
  <2>2. CASE i > offset
    <3>1. i - offset \in 1..last - offset /\ offset + (i - offset) = i
      BY <1>2, <1>3, <2>2
    <3> QED
      BY <1>13, <3>1
  <2> QED
    BY <1>2, <2>1, <2>2
<1>17. CASE loop' = "paging"
  <2>1. hasNext
    BY <1>1, <1>17 DEF TakePage
  <2>2. last = offset + Limit
    BY <1>2, <1>3, <1>4, <2>1 DEF last, Sizes
  <2>3. \A i \in 1..Len(listed) : listed[i] \in seen' => i <= last
    <3> SUFFICES ASSUME NEW i \in 1..Len(listed), listed[i] \in seen'
                 PROVE  i <= last
      OBVIOUS
    <3>1. CASE listed[i] \in seen
      <4>1. i <= offset + created
        BY <1>1, <1>2, <3>1 DEF Inv, Cursor
      <4> QED
        BY <1>2, <2>2, <4>1 DEF Sizes
    <3>2. CASE \E j \in 1..last - offset : listed[i] = listed[offset + j]
      <4>1. PICK j \in 1..last - offset : listed[i] = listed[offset + j]
        BY <3>2
      <4>2. offset + j \in 1..Len(listed) /\ offset + j <= last
        BY <1>2, <1>3
      <4>3. i = offset + j
        BY <4>1, <4>2 DEF Inv, Once
      <4> QED
        BY <4>2, <4>3
    <3> QED
      BY <1>12, <3>1, <3>2
  <2>4. Cursor'
    <3>1. due' \cup seen' \subseteq Listed'
      <4>1. \A i \in 1..last - offset : listed[offset + i] \in Listed
        <5> SUFFICES ASSUME NEW i \in 1..last - offset PROVE offset + i \in DOMAIN listed
          BY DEF Listed
        <5>1. offset + i \in 1..Len(listed)
          BY <1>2, <1>3
        <5> QED
          BY <1>2, <5>1, LenProperties
      <4>2. seen' \subseteq Listed
        BY <1>1, <1>2, <1>12, <4>1 DEF Inv, Cursor
      <4> QED
        BY <1>1, <1>2, <1>8, <4>2 DEF Inv, Cursor, Listed
    <3>2. created' < Limit
      BY <1>8 DEF Sizes
    <3>3. \A i \in 1..Len(listed) : listed[i] \in seen' => i <= last + 0
      BY <1>3, <2>3
    <3> QED
      BY <1>3, <1>8, <1>16, <3>1, <3>2, <3>3 DEF Cursor
  <2>5. RestoreFindsAll'
    BY <1>17 DEF RestoreFindsAll
  <2> QED
    BY <1>7, <1>9, <1>15, <2>4, <2>5 DEF Inv
<1>18. CASE loop' # "paging"
  <2>1. ~(hasNext /\ Brings(page))
    BY <1>1, <1>18 DEF TakePage
  <2>2. last = Len(listed)
    <3> SUFFICES ASSUME last # Len(listed) PROVE FALSE
      OBVIOUS
    <3>1. last = offset + Limit /\ offset + Limit < Len(listed)
      BY DEF last
    <3>2. hasNext
      BY <1>2, <1>3, <1>4, <3>1 DEF Sizes
    <3>3. Limit \in 1..last - offset /\ offset + Limit \in 1..Len(listed)
      BY <1>2, <3>1 DEF Sizes
    <3>4. ~(offset + Limit <= offset + created)
      BY <1>2 DEF Sizes
    <3>5. listed[offset + Limit] \notin seen
      BY <1>1, <1>2, <3>3, <3>4 DEF Inv, Cursor
    <3>6. Limit \in Fresh(page) /\ page[Limit].signed
      BY <1>4, <1>10, <3>3, <3>5
    <3>7. Brings(page)
      BY <3>6 DEF Brings
    <3> QED
      BY <2>1, <3>2, <3>7
  <2>3. due \subseteq stored \cup found'
    <3> SUFFICES ASSUME NEW id \in due PROVE id \in stored \cup found'
      OBVIOUS
    <3>1. PICK i \in DOMAIN listed : id = listed[i]
      BY <1>1, <1>2 DEF Inv, Cursor, Listed
    <3>2. i \in 1..Len(listed) /\ i <= last
      BY <1>2, <2>2, <3>1, LenProperties
    <3> QED
      BY <1>16, <3>1, <3>2
  <2>4. Cursor' /\ RestoreFindsAll'
    BY <1>8, <1>18, <2>3 DEF Cursor, RestoreFindsAll
  <2> QED
    BY <1>7, <1>9, <1>15, <2>4 DEF Inv
<1> QED
  BY <1>17, <1>18

-----------------------------------------------------------------------------
(* A swap created while the list is read: what was seen moves back by one   *)
(* at most, what lies before the offset is new or was there.                *)
LEMMA CreateKeeps ==
    ASSUME Sizes, Inv, NEW id \in Mine, NEW i \in 1..Len(listed) + 1, Create(id, i)
    PROVE  Inv'
<1>1. /\ listed \in Seq(Mine) /\ Len(listed) \in Nat
      /\ DOMAIN listed = 1..Len(listed)
      /\ offset \in Nat /\ created \in Nat /\ i \in Nat
  BY LenProperties DEF Inv, Typed
<1>2. /\ listed' \in Seq(Mine)
      /\ Len(listed') = Len(listed) + 1
      /\ \A j \in 1..Len(listed) + 1 :
            listed'[j] = IF j < i THEN listed[j] ELSE IF j = i THEN id ELSE listed[j - 1]
  <2>1. listed' = InsertAt(listed, i, id)
    BY DEF Create
  <2> DEFINE longer == InsertAt(listed, i, id)
  <2>2. /\ longer \in Seq(Mine)
        /\ Len(longer) = Len(listed) + 1
        /\ \A j \in 1..Len(listed) + 1 :
              longer[j] = IF j < i THEN listed[j] ELSE IF j = i THEN id ELSE listed[j - 1]
    BY <1>1, Inserted
  <2> HIDE DEF longer
  <2>3. listed' = longer
    BY <2>1 DEF longer
  <2> QED
    BY <2>2, <2>3
<1>3. /\ created' = created + 1
      /\ UNCHANGED <<honest, stored, found, seen, due, offset, pages, loop>>
  BY DEF Create
<1>4. \A j \in 1..Len(listed) : listed[j] # id
  BY <1>1 DEF Create, Listed
<1>5. Typed' /\ Counted' /\ Looked' /\ RestoreFindsAll'
  BY <1>1, <1>2, <1>3 DEF Inv, Typed, Counted, Looked, RestoreFindsAll
\* Where an entry of the new list was in the old one.
<1>6. \A j \in 1..Len(listed) + 1 :
          \/ listed'[j] = id /\ j = i
          \/ j \in 1..Len(listed) /\ j < i /\ listed'[j] = listed[j]
          \/ j - 1 \in 1..Len(listed) /\ j > i /\ listed'[j] = listed[j - 1]
  <2> SUFFICES ASSUME NEW j \in 1..Len(listed) + 1
               PROVE  \/ listed'[j] = id /\ j = i
                      \/ j \in 1..Len(listed) /\ j < i /\ listed'[j] = listed[j]
                      \/ j - 1 \in 1..Len(listed) /\ j > i /\ listed'[j] = listed[j - 1]
    OBVIOUS
  <2> QED
    BY <1>1, <1>2
<1>7. Once'
  <2> SUFFICES ASSUME NEW j \in 1..Len(listed) + 1, NEW k \in 1..Len(listed) + 1,
                      listed'[j] = listed'[k]
               PROVE  j = k
    BY <1>2 DEF Once
  <2> QED
    BY <1>1, <1>4, <1>6 DEF Inv, Once
<1>8. Cursor'
  <2> SUFFICES ASSUME honest, loop = "paging"
               PROVE  /\ created + 1 < Limit
                      /\ offset <= Len(listed) + 1
                      /\ due \cup seen \subseteq Listed'
                      /\ \A j \in 1..Len(listed) + 1 :
                            listed'[j] \in seen => j <= offset + (created + 1)
                      /\ \A j \in 1..Len(listed) + 1 :
                            j <= offset /\ listed'[j] \in due => listed'[j] \in stored \cup found
    BY <1>2, <1>3 DEF Cursor
  <2>1. /\ offset <= Len(listed)
        /\ due \cup seen \subseteq Listed
        /\ \A j \in 1..Len(listed) : listed[j] \in seen => j <= offset + created
        /\ \A j \in 1..Len(listed) :
              j <= offset /\ listed[j] \in due => listed[j] \in stored \cup found
    BY DEF Inv, Cursor
  <2>2. Listed \subseteq Listed'
    <3> SUFFICES ASSUME NEW j \in 1..Len(listed) PROVE listed[j] \in Listed'
      BY <1>1 DEF Listed
    <3>1. DOMAIN listed' = 1..Len(listed) + 1
      BY <1>1, <1>2, LenProperties
    <3>2. listed'[IF j < i THEN j ELSE j + 1] = listed[j]
      BY <1>1, <1>2
    <3>3. (IF j < i THEN j ELSE j + 1) \in DOMAIN listed'
      BY <1>1, <3>1
    <3> QED
      BY <3>2, <3>3 DEF Listed
  <2>3. id \notin due \cup seen
    BY <1>1, <1>4, <2>1 DEF Listed
  <2>4. created + 1 < Limit
    BY DEF Create
  <2>5. \A j \in 1..Len(listed) + 1 : listed'[j] \in seen => j <= offset + (created + 1)
    <3> SUFFICES ASSUME NEW j \in 1..Len(listed) + 1, listed'[j] \in seen
                 PROVE  j <= offset + (created + 1)
      OBVIOUS
    <3> QED
      BY <1>1, <1>6, <2>1, <2>3
  <2>6. \A j \in 1..Len(listed) + 1 :
            j <= offset /\ listed'[j] \in due => listed'[j] \in stored \cup found
    BY <1>1, <1>6, <2>1, <2>3
  <2> QED
    BY <1>1, <2>1, <2>2, <2>4, <2>5, <2>6
<1> QED
  BY <1>5, <1>7, <1>8 DEF Inv

LEMMA BeginKeeps ==
    ASSUME Sizes, Inv, NEW ids \in SUBSET Listed, NEW truthful \in BOOLEAN, Begin(ids, truthful)
    PROVE  Inv'
<1>1. listed \in Seq(Mine) /\ Len(listed) \in Nat /\ Listed \subseteq Mine
  BY LenProperties, ElementOfSeq DEF Inv, Typed, Listed
<1>2. Typed' /\ Once' /\ Looked' /\ RestoreFindsAll'
  BY <1>1 DEF Inv, Typed, Once, Looked, RestoreFindsAll, Begin
<1>3. Counted'
  <2>1. seen' \cap Mine = {} /\ pages' = 0
    BY DEF Begin
  <2>2. Cardinality(seen' \cap Mine) = 0
    BY <2>1, FS_EmptySet
  <2> QED
    BY <2>1, <2>2 DEF Counted
<1>4. Cursor'
  BY <1>1 DEF Begin, Cursor, Listed, Sizes
<1> QED
  BY <1>2, <1>3, <1>4 DEF Inv

LEMMA AnyPageKeeps ==
    ASSUME Sizes, Inv, AnyPage
    PROVE  Inv'
<1>1. PICK n \in 0..Limit : \E page \in [1..n -> Entry], hasNext \in BOOLEAN :
          TakePage(page, hasNext)
  BY DEF AnyPage
<1>2. PICK page \in [1..n -> Entry], hasNext \in BOOLEAN : TakePage(page, hasNext)
  BY <1>1
<1>3. Len(page) \in Nat
  <2>1. n \in Nat
    BY DEF Sizes
  <2>2. page \in Seq(Entry)
    BY <2>1, SeqDef
  <2> QED
    BY <2>2, LenProperties
<1>4. Typed' /\ Counted'
  BY <1>2, <1>3, PageCounts DEF Inv
<1>5. ~honest' /\ UNCHANGED listed
  BY <1>2 DEF AnyPage, TakePage
<1> QED
  BY <1>4, <1>5 DEF Inv, Once, Looked, Cursor, RestoreFindsAll

LEMMA InvHolds == Sizes /\ Inv /\ [Next]_pageVars => Inv'
<1> SUFFICES ASSUME Sizes, Inv, [Next]_pageVars PROVE Inv'
  OBVIOUS
<1>1. ASSUME NEW id \in Mine, NEW i \in 1..Len(listed) + 1, Create(id, i) PROVE Inv'
  BY <1>1, CreateKeeps
<1>2. ASSUME NEW ids \in SUBSET Listed, NEW truthful \in BOOLEAN, Begin(ids, truthful) PROVE Inv'
  BY <1>2, BeginKeeps
<1>3. CASE HonestPage
  BY <1>3, HonestFinds
<1>4. CASE AnyPage
  BY <1>4, AnyPageKeeps
<1>5. CASE PageLost
  <2>1. Typed' /\ Once' /\ Looked' /\ Cursor' /\ RestoreFindsAll'
    BY <1>5 DEF PageLost, Inv, Typed, Once, Looked, Cursor, RestoreFindsAll
  <2>2. Cardinality(seen \cap Mine) \in Nat
    BY FS_Intersection, FS_CardinalityType DEF Sizes
  <2>3. pages \in Nat /\ pages <= Cardinality(seen \cap Mine)
    BY <1>5, <2>2 DEF PageLost, Inv, Counted, Typed
  <2>4. loop' = "failed" /\ pages' = pages /\ Cardinality(seen' \cap Mine) = Cardinality(seen \cap Mine)
    BY <1>5 DEF PageLost
  <2>5. Counted'
    BY <2>2, <2>3, <2>4 DEF Counted
  <2> QED
    BY <2>1, <2>5 DEF Inv
<1>6. CASE UNCHANGED pageVars
  BY <1>6 DEF pageVars, Inv, Typed, Counted, Once, Looked, Cursor, Listed, RestoreFindsAll
<1> QED
  BY <1>1, <1>2, <1>3, <1>4, <1>5, <1>6 DEF Next

LEMMA InvStarts == Sizes /\ Init => Inv
<1> SUFFICES ASSUME Sizes, Init PROVE Inv
  OBVIOUS
<1>1. listed = <<>> /\ Len(listed) = 0 /\ listed \in Seq(Mine)
  BY EmptySeq DEF Init
<1>2. Counted
  BY FS_EmptySet, seen \cap Mine = {} DEF Init, Counted
<1> QED
  BY <1>1, <1>2 DEF Init, Inv, Typed, Once, Looked, Cursor, RestoreFindsAll

-----------------------------------------------------------------------------
(* restore_all reads at most one page more than the swaps of ours that were *)
(* listed to it, whatever the server: its paging ends.                      *)
THEOREM PagingAlwaysEnds ==
    ASSUME Sizes
    PROVE  Spec => []PagingEnds
<1>1. Inv => PagingEnds
  <2> SUFFICES ASSUME Inv PROVE PagingEnds
    OBVIOUS
  <2>1. Cardinality(seen \cap Mine) \in Nat
    BY FS_Intersection, FS_CardinalityType DEF Sizes
  <2> QED
    BY <2>1 DEF Inv, Counted, Typed, PagingEnds
<1> QED
  BY <1>1, InvStarts, InvHolds, PTL DEF Spec

(* With an honest server restore_all finds every swap listed as it began,   *)
(* for any page size and any swaps created meanwhile, fewer than a page of  *)
(* them between two reads.                                                  *)
THEOREM EverySwapIsFound ==
    ASSUME Sizes
    PROVE  Spec => []RestoreFindsAll
<1>1. Inv => RestoreFindsAll
  BY DEF Inv
<1> QED
  BY <1>1, InvStarts, InvHolds, PTL DEF Spec
=============================================================================
