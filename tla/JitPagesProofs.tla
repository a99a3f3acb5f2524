--------------------------- MODULE JitPagesProofs ---------------------------
(***************************************************************************)
(* The translation cache, for every number of pages, areas, slots and      *)
(* bytes. The page lists: ListsConsistent is inductive together with the   *)
(* types of the variables it speaks of (ListInv), and no page is ever lost *)
(* (ChainInv). The bytecode: the entries of the pages lead into it, it     *)
(* always ends in a word that leaves it, and a page that is handed out     *)
(* again is blank (CacheInv). In the second half, what they are for: the   *)
(* cache is invisible (JitInv). Last, the bytes that an instruction has in *)
(* the page after its own (PastInv).                                       *)
(***************************************************************************)
EXTENDS JitPages, SequenceTheorems, FiniteSetTheorems, WellFoundedInduction, TLAPS

ListInv == ListTypeOK /\ ListsConsistent

\* Both lists are made of pages, and no page is in both.
LEMMA PageSets ==
  ASSUME ListTypeOK
  PROVE  /\ Live \subseteq Page /\ Free \subseteq Page /\ Free \cap Live = {}
         /\ NoPage \notin Page /\ NoPage \notin Live /\ NoPage \notin Free
<1>1. NoPage \notin Page BY DEF Page, NoPage
<1>2. Live \subseteq Page BY DEF Live, ListTypeOK, PageOrNone
<1>3. Free \subseteq Page
  BY PagesAssumption DEF Free, ListTypeOK, Page
<1> QED BY <1>1, <1>2, <1>3 DEF Free

\* What remove_page does to the lists, seen as sets: the page leaves the map,
\* and joins the free list unless exec_inst is running it.
LEMMA RemoveSets ==
  ASSUME ListTypeOK, MapOK, LockOK, NEW s \in Slot, map[s] # NoPage,
         NEW pg, NEW at, RemovePage(s, pg, at)
  PROVE  /\ map[s] \in Live /\ map[s] \in Page
         /\ Live' = Live \ {map[s]}
         /\ map[s] # lock_page => Free' = Free \cup {map[s]}
         /\ map[s] = lock_page => Free' = Free
<1>1. map' = [map EXCEPT ![s] = NoPage] BY DEF RemovePage
<1>2. map[s] \in Live BY DEF Live
<1>3. map[s] \in Page /\ map[s] \in 1 .. allocated
  BY DEF ListTypeOK, MapOK, PageOrNone, NoPage
<1>4. Live' = Live \ {map[s]}
  <2>1. \A t \in Slot : map'[t] = IF t = s THEN NoPage ELSE map[t]
    BY <1>1 DEF ListTypeOK
  <2>2. \A t \in Slot : t # s => map[t] # map[s] BY DEF MapOK
  <2> QED BY <2>1, <2>2 DEF Live
<1>5. CASE map[s] # lock_page
  <2>1. allocated' = allocated /\ lock_page' = lock_page
        /\ free_lock_page' = free_lock_page
    BY <1>5 DEF RemovePage, Releasable
  <2>2. map[s] \notin Deferred BY <1>5 DEF Deferred
  <2> QED BY <1>2, <1>3, <1>4, <1>5, <2>1, <2>2 DEF Free, Deferred
<1>6. CASE map[s] = lock_page
  <2>1. allocated' = allocated /\ lock_page' = lock_page /\ free_lock_page' = TRUE
    BY <1>6 DEF RemovePage, Releasable
  <2>2. Deferred = {} BY <1>2, <1>3, <1>6 DEF LockOK, Deferred, Page, NoPage
  <2>3. Deferred' = {map[s]} BY <1>6, <2>1 DEF Deferred
  <2> QED BY <1>2, <1>3, <1>4, <1>6, <2>1, <2>2, <2>3 DEF Free
<1> QED BY <1>2, <1>3, <1>4, <1>5, <1>6

\* remove_page keeps the list of the pages in use linked both ways.
LEMMA RemoveLiveList ==
  ASSUME ListTypeOK, MapOK, LockOK, LiveListOK, NEW s \in Slot, map[s] # NoPage,
         NEW pg, NEW at, RemovePage(s, pg, at)
  PROVE  LiveListOK'
<1> DEFINE r == map[s]
           n == next[r]
           b == prev[r]
<1>1. r \in Live /\ r \in Page /\ Live' = Live \ {r} BY RemoveSets
<1>2. Live \subseteq Page BY DEF Live, ListTypeOK, PageOrNone
<1>3. \A p \in Live \ {r} : next'[p] = IF p = b THEN n ELSE next[p]
  BY <1>2 DEF RemovePage
<1>4. \A p \in Live \ {r} : prev'[p] = IF p = n THEN b ELSE prev[p]
  BY <1>2 DEF RemovePage
<1>5. pages' = (IF b = NoPage THEN n ELSE pages)
      /\ pages_tail' = (IF n = NoPage THEN b ELSE pages_tail)
  BY DEF RemovePage
<1>6. NoPage \notin Live BY DEF Live
<1> HIDE DEF r, n, b
<1>7. n = next[r] /\ b = prev[r] BY DEF n, b
<1>8. {pages, pages_tail}' \subseteq Live' \cup {NoPage}
      /\ (pages' = NoPage <=> pages_tail' = NoPage)
  BY <1>1, <1>5, <1>6, <1>7 DEF LiveListOK
<1>9. ASSUME NEW p \in Live'
      PROVE  /\ {next'[p], prev'[p]} \subseteq Live' \cup {NoPage}
             /\ next'[p] = NoPage <=> p = pages_tail'
             /\ prev'[p] = NoPage <=> p = pages'
             /\ next'[p] # NoPage => prev'[next'[p]] = p
             /\ prev'[p] # NoPage => next'[prev'[p]] = p
  BY <1>1, <1>3, <1>4, <1>5, <1>6, <1>7, <1>9 DEF LiveListOK
<1> QED BY <1>8, <1>9 DEF LiveListOK

\* remove_page puts the page on the free list, which does not hold it yet.
LEMMA RemoveFreeList ==
  ASSUME ListTypeOK, MapOK, LockOK, LiveListOK, FreeListOK,
         NEW s \in Slot, map[s] # NoPage, NEW pg, NEW at, RemovePage(s, pg, at)
  PROVE  FreeListOK'
<1> DEFINE r == map[s]
<1>1. r \in Live /\ r \in Page
      /\ (r # lock_page => Free' = Free \cup {r}) /\ (r = lock_page => Free' = Free)
  BY RemoveSets
<1>2. Free \subseteq Page /\ Free \cap Live = {} /\ NoPage \notin Page
  BY PageSets
<1>3. prev[r] \in Live \cup {NoPage} BY <1>1 DEF LiveListOK
<1>4. \A p \in Free : next'[p] = next[p]
  BY <1>1, <1>2, <1>3 DEF RemovePage
<1>5. CASE r # lock_page
  <2>1. free_pages' = r /\ next'[r] = free_pages
    BY <1>1, <1>5 DEF RemovePage, Releasable
  <2> QED BY <1>1, <1>2, <1>4, <1>5, <2>1 DEF FreeListOK
<1>6. CASE r = lock_page
  <2>1. free_pages' = free_pages BY <1>6 DEF RemovePage, Releasable
  <2> QED BY <1>1, <1>2, <1>4, <1>6, <2>1 DEF FreeListOK
<1> QED BY <1>5, <1>6

\* A page removed while it runs is marked for release; one removed otherwise is
\* not the one exec_inst runs.
LEMMA RemoveLock ==
  ASSUME ListTypeOK, MapOK, LockOK, NEW s \in Slot, map[s] # NoPage,
         NEW pg \in Live \cup {NoPage}, NEW at, RemovePage(s, pg, at)
  PROVE  LockOK'
<1>1. map[s] \in Live /\ Live' = Live \ {map[s]} BY RemoveSets
<1>2. current_page' = (IF pg = map[s] THEN NoPage ELSE pg)
      /\ lock_page' = lock_page /\ allocated' = allocated
      /\ free_lock_page' = (IF map[s] # lock_page THEN free_lock_page ELSE TRUE)
  BY DEF RemovePage, Releasable
<1>3. free_lock_page' \in BOOLEAN BY <1>2 DEF ListTypeOK
<1>4. current_page' \in Live' \cup {NoPage} BY <1>1, <1>2
<1>5. CASE map[s] = lock_page
  BY <1>1, <1>2, <1>4, <1>5 DEF LockOK, Live
<1>6. CASE map[s] # lock_page
  BY <1>1, <1>2, <1>4, <1>6 DEF LockOK
<1> QED BY <1>5, <1>6

\* The map after remove_page, and the types.
LEMMA RemoveMap ==
  ASSUME ListTypeOK, MapOK, NEW s \in Slot, map[s] # NoPage,
         NEW pg \in PageOrNone, NEW at, RemovePage(s, pg, at)
  PROVE  /\ \A t \in Slot : map'[t] = IF t = s THEN NoPage ELSE map[t]
         /\ map' \in [Slot -> PageOrNone]
         /\ next' \in [Page -> PageOrNone] /\ prev' \in [Page -> PageOrNone]
         /\ {pages, pages_tail, free_pages}' \subseteq PageOrNone
         /\ allocated' = allocated /\ lock_page' = lock_page
         /\ current_page' \in PageOrNone /\ free_lock_page' \in BOOLEAN
<1>1. \A t \in Slot : map'[t] = IF t = s THEN NoPage ELSE map[t]
  BY DEF RemovePage, ListTypeOK
<1>2. map' \in [Slot -> PageOrNone] BY DEF RemovePage, ListTypeOK, PageOrNone
<1>3. map[s] \in Page BY DEF ListTypeOK, PageOrNone
<1>4. next[map[s]] \in PageOrNone /\ prev[map[s]] \in PageOrNone
  BY <1>3 DEF ListTypeOK
<1>5. next' \in [Page -> PageOrNone] /\ prev' \in [Page -> PageOrNone]
  BY <1>3, <1>4 DEF RemovePage, ListTypeOK, PageOrNone
<1>6. {pages, pages_tail, free_pages}' \subseteq PageOrNone
  BY <1>3, <1>4 DEF RemovePage, ListTypeOK, PageOrNone
<1>7. current_page' \in PageOrNone /\ free_lock_page' \in BOOLEAN
      /\ allocated' = allocated /\ lock_page' = lock_page
  BY DEF RemovePage, ListTypeOK, PageOrNone
<1> QED BY <1>1, <1>2, <1>5, <1>6, <1>7

-----------------------------------------------------------------------------
\* get_new_page takes a page that is in neither list, and puts it first.
LEMMA NewSets ==
  ASSUME ListInv, NEW s \in Slot, map[s] = NoPage, GetNewPage(s)
  PROVE  \E p \in Page :
           /\ p \notin Live /\ p \notin Deferred
           /\ p \in 1 .. allocated' /\ allocated' \in 0 .. MaxPages
           /\ allocated <= allocated'
           /\ Live' = Live \cup {p} /\ Free' = Free \ {p}
           /\ map' = [map EXCEPT ![s] = p] /\ current_page' = p /\ pages' = p
           /\ next' = [next EXCEPT ![p] = pages]
           /\ prev' = [q \in Page |-> IF q = p THEN NoPage
                                      ELSE IF q = pages THEN p ELSE prev[q]]
           /\ pages_tail' = IF pages = NoPage THEN p ELSE pages_tail
           /\ free_pages' = (IF p \in Free THEN next[p] ELSE free_pages)
           /\ p \in Free => p = free_pages
           /\ p \notin Free => free_pages = NoPage
           /\ UNCHANGED <<lock_page, free_lock_page>>
<1> DEFINE p == IF Reuse THEN free_pages ELSE allocated + 1
<1>1. /\ p \in Page /\ map' = [map EXCEPT ![s] = p]
      /\ current_page' = p /\ pages' = p
      /\ next' = [next EXCEPT ![p] = pages]
      /\ prev' = [q \in Page |-> IF q = p THEN NoPage
                                 ELSE IF q = pages THEN p ELSE prev[q]]
      /\ pages_tail' = (IF pages = NoPage THEN p ELSE pages_tail)
      /\ lock_page' = lock_page /\ free_lock_page' = free_lock_page
  BY DEF GetNewPage
<1>2. allocated \in Nat /\ MaxPages \in Nat
  BY PagesAssumption DEF ListInv, ListTypeOK
<1>3. Live \subseteq 1 .. allocated
  BY DEF ListInv, ListsConsistent, MapOK, Live, NoPage
<1>4. Deferred \subseteq 1 .. allocated
  BY DEF Deferred, ListInv, ListsConsistent, LockOK
<1>5. Live' = Live \cup {p}
  <2>1. \A t \in Slot : map'[t] = IF t = s THEN p ELSE map[t]
    BY <1>1 DEF ListInv, ListTypeOK
  <2>2. p # NoPage BY <1>1 DEF Page, NoPage
  <2> QED BY <2>1, <2>2 DEF Live
<1>6. Deferred' = Deferred BY <1>1 DEF Deferred
<1>7. CASE Reuse
  <2>1. p = free_pages /\ free_pages' = next[p] /\ allocated' = allocated
    BY <1>7 DEF GetNewPage
  <2>2. p \in Free
    BY <1>7, <2>1 DEF ListInv, ListsConsistent, FreeListOK, Reuse
  <2>3. p \notin Live /\ p \notin Deferred /\ p \in 1 .. allocated
    BY <2>2 DEF Free
  <2>4. Free' = Free \ {p} BY <1>5, <1>6, <2>1 DEF Free
  <2>5. allocated' \in 0 .. MaxPages /\ allocated <= allocated'
    BY <1>2, <2>1 DEF ListInv, ListTypeOK
  <2> HIDE DEF p
  <2> QED BY <1>1, <1>5, <2>1, <2>2, <2>3, <2>4, <2>5
<1>8. CASE ~Reuse
  <2>1. p = allocated + 1 /\ free_pages' = free_pages /\ allocated' = p
        /\ free_pages = NoPage
    BY <1>8 DEF GetNewPage, Reuse
  <2>2. p \notin Live /\ p \notin Deferred /\ p \notin Free
    BY <1>2, <1>3, <1>4, <2>1 DEF Free
  <2>3. 1 .. allocated' = (1 .. allocated) \cup {p} BY <1>2, <2>1
  <2>4. Free' = Free \ {p}
    BY <1>5, <1>6, <2>2, <2>3 DEF Free
  <2>5. p \in 1 .. allocated' /\ allocated' \in 0 .. MaxPages
        /\ allocated <= allocated'
    BY <1>1, <1>2, <2>1 DEF Page
  <2> HIDE DEF p
  <2> QED BY <1>1, <1>5, <2>1, <2>2, <2>4, <2>5
<1> QED BY <1>7, <1>8

\* get_new_page keeps the lists consistent.
LEMMA NewPageLists ==
  ASSUME ListInv, NEW s \in Slot, map[s] = NoPage, GetNewPage(s),
         UNCHANGED <<guestVars, localVars>>, pc = "goto"
  PROVE  ListInv'
<1>1. PICK p \in Page :
           /\ p \notin Live /\ p \notin Deferred
           /\ p \in 1 .. allocated' /\ allocated' \in 0 .. MaxPages
           /\ allocated <= allocated'
           /\ Live' = Live \cup {p} /\ Free' = Free \ {p}
           /\ map' = [map EXCEPT ![s] = p] /\ current_page' = p /\ pages' = p
           /\ next' = [next EXCEPT ![p] = pages]
           /\ prev' = [q \in Page |-> IF q = p THEN NoPage
                                      ELSE IF q = pages THEN p ELSE prev[q]]
           /\ pages_tail' = (IF pages = NoPage THEN p ELSE pages_tail)
           /\ free_pages' = (IF p \in Free THEN next[p] ELSE free_pages)
           /\ p \in Free => p = free_pages
           /\ p \notin Free => free_pages = NoPage
           /\ UNCHANGED <<lock_page, free_lock_page>>
  BY NewSets
<1>2. NoPage \notin Page /\ Live \subseteq Page /\ Free \subseteq Page
      /\ NoPage \notin Live /\ NoPage \notin Free
  BY PageSets DEF ListInv
<1>3. UNCHANGED <<eip, pc, after, doomed>> BY DEF guestVars, localVars
<1>4. \A t \in Slot : map'[t] = IF t = s THEN p ELSE map[t]
  BY <1>1 DEF ListInv, ListTypeOK
<1>5. \A q \in Page : /\ next'[q] = IF q = p THEN pages ELSE next[q]
                      /\ prev'[q] = IF q = p THEN NoPage
                                    ELSE IF q = pages THEN p ELSE prev[q]
  BY <1>1 DEF ListInv, ListTypeOK
<1>6. ListTypeOK'
  <2>1. map' \in [Slot -> PageOrNone]
    BY <1>1 DEF ListInv, ListTypeOK, PageOrNone
  <2>2. next' \in [Page -> PageOrNone] /\ prev' \in [Page -> PageOrNone]
    BY <1>1 DEF ListInv, ListTypeOK, PageOrNone
  <2>3. {pages, pages_tail, free_pages}' \subseteq PageOrNone
    BY <1>1 DEF ListInv, ListTypeOK, PageOrNone
  <2> QED BY <1>1, <1>3, <2>1, <2>2, <2>3 DEF ListInv, ListTypeOK, PageOrNone
<1>7. MapOK'
  <2>1. \A t \in Slot : map[t] \in 0 .. allocated'
    BY <1>1 DEF ListInv, ListTypeOK, ListsConsistent, MapOK
  <2>2. \A t \in Slot : map[t] # p BY <1>1, <1>2 DEF Live
  <2>3. \A t \in doomed : map[t] # NoPage /\ t \in Slot
    BY DEF ListInv, ListTypeOK, ListsConsistent, MapOK
  <2>4. p # NoPage /\ p \in 0 .. allocated' BY <1>1, <1>2
  <2> QED BY <1>3, <1>4, <2>1, <2>2, <2>3, <2>4
          DEF ListInv, ListsConsistent, MapOK
<1>8. LiveListOK'
  <2>1. LiveListOK BY DEF ListInv, ListsConsistent
  <2>2. {pages, pages_tail}' \subseteq Live' \cup {NoPage}
        /\ (pages' = NoPage <=> pages_tail' = NoPage)
    BY <1>1, <1>2, <2>1 DEF LiveListOK
  <2>3. ASSUME NEW q \in Live'
        PROVE  /\ {next'[q], prev'[q]} \subseteq Live' \cup {NoPage}
               /\ next'[q] = NoPage <=> q = pages_tail'
               /\ prev'[q] = NoPage <=> q = pages'
               /\ next'[q] # NoPage => prev'[next'[q]] = q
               /\ prev'[q] # NoPage => next'[prev'[q]] = q
    <3>1. CASE q = p
      BY <1>1, <1>2, <1>5, <2>1, <3>1 DEF LiveListOK
    <3>2. CASE q # p
      <4>1. q \in Live /\ q \in Page BY <1>1, <1>2, <2>3, <3>2
      <4>2. next'[q] = next[q] /\ prev'[q] = IF q = pages THEN p ELSE prev[q]
        BY <1>5, <3>2, <4>1
      <4>3. next[q] # pages \/ pages = NoPage
        BY <1>2, <2>1, <4>1 DEF LiveListOK
      <4>4. next[q] \in Live \cup {NoPage} /\ prev[q] \in Live \cup {NoPage}
        BY <2>1, <4>1 DEF LiveListOK
      <4>5. next[q] # NoPage => prev'[next[q]] = prev[next[q]]
        BY <1>1, <1>2, <1>5, <4>3, <4>4
      <4>6. prev[q] # NoPage => next'[prev[q]] = next[prev[q]]
        BY <1>1, <1>2, <1>5, <4>4
      <4>7. q = pages_tail' <=> q = pages_tail
        BY <1>1, <1>2, <2>1, <3>2, <4>1 DEF LiveListOK
      <4>8. next'[p] = pages BY <1>5
      <4>9. prev'[q] = NoPage <=> q = pages'
        BY <1>1, <1>2, <2>1, <3>2, <4>1, <4>2 DEF LiveListOK
      <4>10. prev'[q] # NoPage => next'[prev'[q]] = q
        BY <2>1, <4>1, <4>2, <4>6, <4>8 DEF LiveListOK
      <4> QED
        BY <1>1, <2>1, <4>1, <4>2, <4>4, <4>5, <4>7, <4>9, <4>10 DEF LiveListOK
    <3> QED BY <3>1, <3>2
  <2> QED BY <2>2, <2>3 DEF LiveListOK
<1>9. FreeListOK'
  <2>1. \A q \in Free' : next'[q] = next[q] BY <1>1, <1>2, <1>5
  <2> QED BY <1>1, <1>2, <2>1 DEF ListInv, ListsConsistent, FreeListOK
<1>10. LockOK'
  <2>1. LockOK BY DEF ListInv, ListsConsistent
  <2>2. lock_page # NoPage => lock_page # p
    <3>1. CASE free_lock_page BY <1>1, <3>1 DEF Deferred
    <3>2. CASE ~free_lock_page BY <1>1, <2>1, <3>2 DEF LockOK
    <3> QED BY <3>1, <3>2
  <2>3. allocated \in Nat /\ allocated' \in Nat
    BY <1>1, PagesAssumption DEF ListInv, ListTypeOK
  <2> QED BY <1>1, <2>1, <2>2, <2>3 DEF LockOK
<1>11. PhaseOK'
  BY <1>1, <1>3 DEF ListInv, ListsConsistent, PhaseOK
<1> QED BY <1>6, <1>7, <1>8, <1>9, <1>10, <1>11 DEF ListInv, ListsConsistent

-----------------------------------------------------------------------------
\* The slots a call of the host removes hold a page.
LEMMA ChangedMapped ==
  ASSUME NEW a
  PROVE  ChangedSlots(a) \subseteq Slot
         /\ \A s \in ChangedSlots(a) : map[s] # NoPage
<1>1. OverlappingBefore(a) \subseteq Mapped(Before(SlotOf(a)))
  BY DEF OverlappingBefore
<1>2. Mapped({SlotOf(a)}) # {} => SlotOf(a) \in Slot /\ map[SlotOf(a)] # NoPage
  BY DEF Mapped
<1>3. Mapped(Before(SlotOf(a))) \subseteq {s \in Slot : map[s] # NoPage}
  BY DEF Mapped
<1>4. ASSUME NEW s \in ChangedSlots(a) PROVE s \in Slot /\ map[s] # NoPage
  <2>1. Mapped({SlotOf(a)}) # {} BY <1>4 DEF ChangedSlots
  <2>2. CASE s \in OverlappingBefore(a) BY <1>1, <1>3, <2>2
  <2>3. CASE s \notin OverlappingBefore(a)
    <3>1. s = SlotOf(a) BY <1>4, <2>1, <2>3 DEF ChangedSlots
    <3> QED BY <1>2, <2>1, <3>1
  <2> QED BY <2>2, <2>3
<1> QED BY <1>4

LEMMA RemappedMapped ==
  ASSUME NEW begin, NEW last
  PROVE  RemappedSlots(begin, last) \subseteq Slot
         /\ \A s \in RemappedSlots(begin, last) : map[s] # NoPage
<1>1. \A S : Mapped(S) \subseteq {s \in Slot : map[s] # NoPage} BY DEF Mapped
<1>2. \A a : OverlappingBefore(a) \subseteq Mapped(Before(SlotOf(a)))
  BY DEF OverlappingBefore
<1> DEFINE c == Cursor(begin, last)
           hit == {i \in DOMAIN Areas : c[i] <= last /\ InArea(c[i], i)}
           R(i) == Mapped({s \in SlotOf(c[i]) .. SlotOf(last) : s <= Areas[i].last})
<1>3. RemappedSlots(begin, last) = UNION {OverlappingBefore(c[i]) \cup R(i) : i \in hit}
  BY DEF RemappedSlots
<1>4. \A i \in hit : R(i) \subseteq {s \in Slot : map[s] # NoPage} BY <1>1
<1> HIDE DEF c, hit, R
<1> QED BY <1>1, <1>2, <1>3, <1>4

LEMMA StoresDoom ==
  ASSUME NEW W, HostStores(W)
  PROVE  doomed' \subseteq Slot /\ \A s \in doomed' : map[s] # NoPage
BY ChangedMapped DEF HostStores

LEMMA RemapsDoom ==
  ASSUME HostRemaps
  PROVE  doomed' \subseteq Slot /\ \A s \in doomed' : map[s] # NoPage
BY RemappedMapped DEF HostRemaps

\* A step that leaves the lists and the lock alone.
LEMMA ListsStay ==
  ASSUME ListInv, UNCHANGED <<listVars, lock_page, free_lock_page>>,
         current_page' \in Live \cup {NoPage},
         doomed' \subseteq Slot, \A s \in doomed' : map[s] # NoPage,
         pc' \in {"idle", "goto", "dis", "compile", "exc", "lock", "run", "stop", "exit"},
         after' \in {"idle", "lock", "stop"},
         PhaseOK'
  PROVE  ListInv'
<1>1. UNCHANGED <<map, next, prev, pages, pages_tail, free_pages, allocated,
                  lock_page, free_lock_page>>
  BY DEF listVars
<1>2. Live' = Live /\ Deferred' = Deferred BY <1>1 DEF Live, Deferred
<1>3. Free' = Free BY <1>1, <1>2 DEF Free
<1>4. current_page' \in PageOrNone
  BY PageSets DEF ListInv, PageOrNone
<1>5. ListTypeOK' BY <1>1, <1>4 DEF ListInv, ListTypeOK
<1>6. MapOK' BY <1>1 DEF ListInv, ListsConsistent, MapOK
<1>7. LiveListOK' BY <1>1, <1>2 DEF ListInv, ListsConsistent, LiveListOK
<1>8. FreeListOK' BY <1>1, <1>3 DEF ListInv, ListsConsistent, FreeListOK
<1>9. LockOK' BY <1>1, <1>2 DEF ListInv, ListsConsistent, LockOK
<1> QED BY <1>5, <1>6, <1>7, <1>8, <1>9 DEF ListInv, ListsConsistent

\* A step that removes the page of a slot.
LEMMA ListsRemove ==
  ASSUME ListInv, NEW s \in Slot, map[s] # NoPage, NEW pg \in Live \cup {NoPage},
         NEW at, RemovePage(s, pg, at),
         doomed' = doomed \ {s},
         pc' \in {"idle", "goto", "dis", "compile", "exc", "lock", "run", "stop", "exit"},
         after' \in {"idle", "lock", "stop"},
         PhaseOK'
  PROVE  ListInv'
<1>1. ListTypeOK /\ MapOK /\ LockOK /\ LiveListOK /\ FreeListOK
  BY DEF ListInv, ListsConsistent
<1>2. pg \in PageOrNone BY <1>1, PageSets DEF PageOrNone
<1>3. /\ \A t \in Slot : map'[t] = IF t = s THEN NoPage ELSE map[t]
      /\ map' \in [Slot -> PageOrNone]
      /\ next' \in [Page -> PageOrNone] /\ prev' \in [Page -> PageOrNone]
      /\ {pages, pages_tail, free_pages}' \subseteq PageOrNone
      /\ allocated' = allocated /\ lock_page' = lock_page
      /\ current_page' \in PageOrNone /\ free_lock_page' \in BOOLEAN
  BY <1>1, <1>2, RemoveMap
<1>4. ListTypeOK' BY <1>1, <1>3 DEF ListTypeOK
<1>5. MapOK'
  <2>1. 0 \in 0 .. allocated
    BY <1>1, PagesAssumption DEF ListTypeOK
  <2> QED BY <1>1, <1>3, <2>1 DEF MapOK, ListTypeOK, NoPage
<1>6. LiveListOK' BY <1>1, RemoveLiveList
<1>7. FreeListOK' BY <1>1, RemoveFreeList
<1>8. LockOK' BY <1>1, RemoveLock
<1> QED BY <1>4, <1>5, <1>6, <1>7, <1>8 DEF ListInv, ListsConsistent

-----------------------------------------------------------------------------
LEMMA ListInvInit == Init => ListInv
<1> SUFFICES ASSUME Init PROVE ListInv OBVIOUS
<1>1. ListTypeOK
  <2>1. NoPage \in PageOrNone BY DEF PageOrNone
  <2>2. map \in [Slot -> PageOrNone] /\ next \in [Page -> PageOrNone]
        /\ prev \in [Page -> PageOrNone]
    BY <2>1 DEF Init
  <2>3. allocated \in 0 .. MaxPages BY PagesAssumption DEF Init
  <2> QED BY <2>1, <2>2, <2>3 DEF Init, ListTypeOK
<1>2. Live = {} BY DEF Init, Live
<1>3. Free = {} BY DEF Init, Free
<1>4. MapOK BY DEF Init, MapOK, NoPage
<1>5. LiveListOK BY <1>2 DEF Init, LiveListOK
<1>6. FreeListOK BY <1>3 DEF Init, FreeListOK
<1>7. LockOK BY DEF Init, LockOK
<1>8. PhaseOK BY DEF Init, PhaseOK
<1> QED BY <1>1, <1>4, <1>5, <1>6, <1>7, <1>8 DEF ListInv, ListsConsistent

\* The steps that leave doomed empty and both lists, the lock and the current
\* page alone need only say where they leave the JIT.
LEMMA QuietStep ==
  ASSUME ListInv, doomed = {}, doomed' = {},
         UNCHANGED <<listVars, lock_page, free_lock_page, current_page>>,
         pc' \in {"idle", "goto", "dis", "compile", "exc", "lock", "run", "stop", "exit"},
         after' \in {"idle", "lock", "stop"},
         PhaseOK'
  PROVE  ListInv'
<1>1. current_page' \in Live \cup {NoPage}
  BY DEF ListInv, ListsConsistent, LockOK
<1> QED BY <1>1, ListsStay

\* The calls of the host.
LEMMA HostCallStep ==
  ASSUME ListInv, HostCall
  PROVE  ListInv'
<1> USE DEF At
<1>0. /\ ListTypeOK /\ PhaseOK /\ current_page \in Live \cup {NoPage}
      /\ after \in {"idle", "lock", "stop"}
  BY DEF ListInv, ListsConsistent, LockOK, ListTypeOK
<1>1. CASE ExecNextInst
  BY <1>0, <1>1, QuietStep DEF ExecNextInst, PhaseOK, runVars, listVars
<1>2. CASE Interrupt
  BY <1>0, <1>2, ListsStay, StoresDoom DEF Interrupt, PhaseOK, runVars
<1>3. CASE HostWrite
  <2>1. doomed' \subseteq Slot /\ \A s \in doomed' : map[s] # NoPage
    BY <1>3, StoresDoom, RemapsDoom DEF HostWrite
  <2> QED BY <1>0, <1>3, <2>1, ListsStay DEF HostWrite, PhaseOK, runVars
<1>4. CASE ClearAreas
  <2>1. doomed' \subseteq Slot /\ \A s \in doomed' : map[s] # NoPage
    BY <1>4 DEF ClearAreas, Mapped
  <2> QED BY <1>0, <1>4, <2>1, ListsStay DEF ClearAreas, PhaseOK, runVars
<1>5. CASE Reset
  <2>1. UNCHANGED <<pc, after, doomed>> BY <1>5 DEF Reset, localVars
  <2>2. PhaseOK' BY <1>0, <1>5, <2>1 DEF Reset, PhaseOK
  <2> QED BY <1>0, <1>5, <2>1, <2>2, ListsStay DEF Reset
<1> QED BY <1>1, <1>2, <1>3, <1>4, <1>5 DEF HostCall

\* goto_eip_body.
LEMMA GotoEipStep ==
  ASSUME ListInv, GotoEip
  PROVE  ListInv'
<1> USE DEF At, InSlot
<1>0. /\ ListTypeOK /\ PhaseOK /\ current_page \in Live \cup {NoPage}
      /\ after \in {"idle", "lock", "stop"}
      /\ \A s \in Slot : map[s] # NoPage => map[s] \in Live
  BY DEF ListInv, ListsConsistent, LockOK, ListTypeOK, Live
<1>1. CASE OutOfRange
  BY <1>0, <1>1, QuietStep DEF OutOfRange, PhaseOK, runVars
<1>2. CASE NewPage
  BY <1>2, NewPageLists DEF NewPage
<1>3. CASE Hit
  <2>1. PhaseOK' BY <1>0, <1>3 DEF Hit, PhaseOK, listVars
  <2> QED BY <1>0, <1>3, <2>1, ListsStay DEF Hit
<1>4. CASE Stale
  <2>1. UNCHANGED <<pc, after, doomed>> /\ lock_page' = lock_page
    BY <1>4 DEF Stale, localVars, RemovePage
  <2>2. PhaseOK' BY <1>0, <1>4, <2>1 DEF Stale, PhaseOK
  <2>3. map[Eslot] \in Live /\ Eslot \in Slot /\ map[Eslot] # NoPage
        /\ doomed' = doomed \ {Eslot} /\ RemovePage(Eslot, map[Eslot], Entry.ind)
    BY <1>0, <1>4, <2>1 DEF Stale
  <2> QED BY <1>0, <2>1, <2>2, <2>3, ListsRemove DEF ListTypeOK
<1>5. CASE Decode
  <2>1. PhaseOK' /\ current_page' = map[Eslot] /\ map[Eslot] # NoPage
    BY <1>0, <1>5 DEF Decode, PhaseOK, listVars, guestVars, Eslot
  <2> QED BY <1>0, <1>5, <2>1, ListsStay DEF Decode
<1> QED BY <1>1, <1>2, <1>3, <1>4, <1>5 DEF GotoEip

\* dis_insts.
LEMMA DisInstsStep ==
  ASSUME ListInv, DisInsts
  PROVE  ListInv'
<1> USE DEF At
<1>0. /\ ListTypeOK /\ PhaseOK /\ current_page \in Live \cup {NoPage}
      /\ after \in {"idle", "lock", "stop"}
  BY DEF ListInv, ListsConsistent, LockOK, ListTypeOK
<1>1. pc = "dis" => Eslot \in Slot /\ map[Eslot] = current_page
                    /\ current_page # NoPage /\ doomed = {}
  BY <1>0 DEF PhaseOK
<1>2. ASSUME pc = "dis", RemovePage(Eslot, current_page, current_pos),
             pc' \in {"goto", "exc"}, UNCHANGED <<after, doomed>>
      PROVE  ListInv'
  <2>1. lock_page' = lock_page BY <1>2 DEF RemovePage
  <2>2. PhaseOK' BY <1>0, <1>2, <2>1 DEF PhaseOK
  <2>3. doomed' = doomed \ {Eslot} BY <1>1, <1>2
  <2> QED BY <1>0, <1>1, <1>2, <2>2, <2>3, ListsRemove
<1>3. CASE DisInst
  <2>1. pc = "dis" /\ UNCHANGED <<after, doomed>> /\ eip' = eip
    BY <1>3 DEF DisInst, guestVars
  <2>2. CASE UNCHANGED <<listVars, runVars, pc>>
    <3>1. PhaseOK' BY <1>0, <2>1, <2>2 DEF PhaseOK, listVars, runVars, Eslot
    <3> QED BY <1>0, <1>1, <2>1, <2>2, <3>1, QuietStep DEF runVars
  <2>3. CASE RemovePage(Eslot, current_page, current_pos) /\ pc' = "goto"
    BY <1>2, <2>1, <2>3
  <2> QED BY <1>3, <2>2, <2>3 DEF DisInst
<1>4. CASE DisFault
  BY <1>2, <1>4 DEF DisFault
<1>5. CASE DisEnd
  <2>1. PhaseOK'
    BY <1>0, <1>5 DEF DisEnd, PhaseOK, listVars, guestVars, Eslot
  <2> QED BY <1>0, <1>5, <2>1, QuietStep DEF DisEnd
<1>6. CASE CompileInst
  <2>1. PhaseOK'
    BY <1>0, <1>6 DEF CompileInst, PhaseOK, listVars, runVars, guestVars, Eslot
  <2> QED BY <1>0, <1>6, <2>1, QuietStep DEF CompileInst, runVars
<1>7. CASE CompileEnd
  <2>1. PhaseOK'
    BY <1>0, <1>7 DEF CompileEnd, PhaseOK, listVars, runVars, guestVars, Eslot
  <2> QED BY <1>0, <1>7, <2>1, QuietStep DEF CompileEnd, runVars
<1> QED BY <1>3, <1>4, <1>5, <1>6, <1>7 DEF DisInsts

\* exception_body and exec_inst.
LEMMA ExecStep ==
  ASSUME ListInv, ExceptionBody \/ ExceptionGivesUp \/ Exec
  PROVE  ListInv'
<1> USE DEF At, Running, Advance, LeaveByGoto
<1>0. /\ ListTypeOK /\ PhaseOK /\ current_page \in Live \cup {NoPage}
      /\ after \in {"idle", "lock", "stop"}
  BY DEF ListInv, ListsConsistent, LockOK, ListTypeOK
<1>1. CASE ExceptionBody
  <2>1. PhaseOK' BY <1>0, <1>1 DEF ExceptionBody, PhaseOK, runVars
  <2> QED BY <1>0, <1>1, <2>1, ListsStay, StoresDoom DEF ExceptionBody, runVars
<1>2. CASE ExceptionGivesUp
  BY <1>0, <1>2, QuietStep DEF ExceptionGivesUp, PhaseOK, runVars
<1>3. CASE Lock
  <2>1. current_page \in Live /\ lock_page = NoPage
        /\ doomed' = {} /\ pc' = "run" /\ after' = after
        /\ lock_page' = current_page /\ current_page' = current_page
        /\ UNCHANGED <<map, next, prev, pages, pages_tail, free_pages, allocated>>
        /\ free_lock_page' = free_lock_page
    BY <1>0, <1>3 DEF Lock, PhaseOK, listVars
  <2>2. free_lock_page = FALSE
    BY <2>1 DEF ListInv, ListsConsistent, LockOK, ListTypeOK
  <2>3. Live' = Live /\ Free' = Free /\ current_page \in 1 .. allocated
    BY <2>1, <2>2 DEF Live, Free, Deferred, ListInv, ListsConsistent, MapOK, NoPage
  <2>4. current_page # NoPage /\ current_page \in Page BY <1>0, <2>1, PageSets
  <2>5. ListTypeOK' BY <2>1, <2>4 DEF ListInv, ListTypeOK, PageOrNone
  <2>6. MapOK' BY <2>1 DEF ListInv, ListsConsistent, MapOK
  <2>7. LiveListOK' BY <2>1, <2>3 DEF ListInv, ListsConsistent, LiveListOK
  <2>8. FreeListOK' BY <2>1, <2>3 DEF ListInv, ListsConsistent, FreeListOK
  <2>9. LockOK' BY <2>1, <2>2, <2>3, <2>4 DEF LockOK
  <2>10. PhaseOK' BY <2>1, <2>4 DEF PhaseOK
  <2> QED BY <2>5, <2>6, <2>7, <2>8, <2>9, <2>10 DEF ListInv, ListsConsistent
<1>4. CASE ExecSeq
  BY <1>0, <1>4, QuietStep DEF ExecSeq, PhaseOK, runVars
<1>5. CASE ExecStore
  <2>1. PhaseOK' BY <1>0, <1>5 DEF ExecStore, PhaseOK, runVars
  <2> QED BY <1>0, <1>5, <2>1, ListsStay, StoresDoom DEF ExecStore, runVars
<1>6. CASE ExecOut
  <2>1. PhaseOK' BY <1>0, <1>6 DEF ExecOut, PhaseOK, runVars
  <2>2. doomed' \subseteq Slot /\ \A s \in doomed' : map[s] # NoPage
    BY <1>0, <1>6, RemapsDoom DEF ExecOut
  <2> QED BY <1>0, <1>6, <2>1, <2>2, ListsStay DEF ExecOut, runVars
<1>7. CASE ExecCR0
  BY <1>0, <1>7, QuietStep DEF ExecCR0, PhaseOK, runVars
<1>8. CASE ExecJump
  BY <1>0, <1>8, QuietStep DEF ExecJump, PhaseOK, runVars
<1>9. CASE ExecFar
  BY <1>0, <1>9, QuietStep DEF ExecFar, PhaseOK, runVars
<1>10. CASE ExecFault
  BY <1>0, <1>10, QuietStep DEF ExecFault, PhaseOK, runVars
<1>11. CASE ExecInc
  <2>1. PhaseOK' /\ pc' \in {"run", "stop"} /\ after' = after
    BY <1>0, <1>11 DEF ExecInc, PhaseOK
  <2> QED BY <1>0, <1>11, <2>1, QuietStep DEF ExecInc
<1>12. CASE ExecGoto
  BY <1>0, <1>12, QuietStep DEF ExecGoto, PhaseOK, runVars
<1>13. CASE ExecHalt
  BY <1>0, <1>13, QuietStep DEF ExecHalt, PhaseOK
<1>14. CASE Stop
  <2>1. pc' = "idle" /\ after' = after /\ doomed' = {} /\ lock_page' = NoPage
        /\ free_lock_page' = FALSE
        /\ UNCHANGED <<map, pages, pages_tail, allocated, current_page>>
    BY <1>14 DEF Stop
  <2>2. Live' = Live BY <2>1 DEF Live
  <2>3. lock_page # NoPage BY <1>0, <1>14 DEF Stop, PhaseOK
  <2>4. lock_page \in 1 .. allocated /\ (free_lock_page <=> lock_page \notin Live)
    BY <2>3 DEF ListInv, ListsConsistent, LockOK
  <2>5. lock_page \in Page /\ lock_page \in PageOrNone
    BY <1>0, <2>3 DEF ListTypeOK, PageOrNone
  <2>6. MapOK' BY <2>1 DEF ListInv, ListsConsistent, MapOK
  <2>7. LockOK' BY <1>0, <2>1, <2>2 DEF LockOK
  <2>8. PhaseOK' BY <2>1 DEF PhaseOK
  <2>9. CASE ~free_lock_page
    <3>1. UNCHANGED <<prev, next, free_pages>> BY <1>14, <2>9 DEF Stop
    <3>2. Free' = Free BY <2>1, <2>2, <2>9 DEF Free, Deferred
    <3>3. ListTypeOK' BY <1>0, <2>1, <3>1 DEF ListTypeOK, PageOrNone
    <3>4. LiveListOK' BY <2>1, <2>2, <3>1 DEF ListInv, ListsConsistent, LiveListOK
    <3>5. FreeListOK' BY <3>1, <3>2 DEF ListInv, ListsConsistent, FreeListOK
    <3> QED BY <2>6, <2>7, <2>8, <3>3, <3>4, <3>5 DEF ListInv, ListsConsistent
  <2>10. CASE free_lock_page
    <3>1. prev' = [prev EXCEPT ![lock_page] = NoPage]
          /\ next' = [next EXCEPT ![lock_page] = free_pages]
          /\ free_pages' = lock_page
      BY <1>14, <2>10 DEF Stop
    <3>2. lock_page \notin Live /\ lock_page \notin Free
      BY <2>4, <2>10 DEF Free, Deferred
    <3>3. Free' = Free \cup {lock_page}
      BY <2>1, <2>2, <2>4, <2>10, <3>2 DEF Free, Deferred
    <3>4. ListTypeOK'
      BY <1>0, <2>1, <2>5, <3>1 DEF ListTypeOK, PageOrNone
    <3>5. Live \subseteq Page /\ Free \subseteq Page BY <1>0, PageSets
    <3>6. \A p \in Live \cup Free : next'[p] = next[p] /\ prev'[p] = prev[p]
      BY <1>0, <3>1, <3>2, <3>5 DEF ListTypeOK
    <3>7. next'[lock_page] = free_pages
      BY <1>0, <2>5, <3>1 DEF ListTypeOK
    <3>8. LiveListOK'
      BY <2>1, <2>2, <3>6 DEF ListInv, ListsConsistent, LiveListOK
    <3>9. FreeListOK'
      BY <3>1, <3>2, <3>3, <3>6, <3>7 DEF ListInv, ListsConsistent, FreeListOK
    <3> QED BY <2>6, <2>7, <2>8, <3>4, <3>8, <3>9 DEF ListInv, ListsConsistent
  <2> QED BY <2>9, <2>10
<1> QED BY <1>1, <1>2, <1>3, <1>4, <1>5, <1>6, <1>7, <1>8, <1>9, <1>10, <1>11,
           <1>12, <1>13, <1>14 DEF Exec

LEMMA RemoveDoomedStep ==
  ASSUME ListInv, RemoveDoomed
  PROVE  ListInv'
<1>0. /\ ListTypeOK /\ PhaseOK /\ MapOK /\ current_page \in Live \cup {NoPage}
      /\ after \in {"idle", "lock", "stop"}
  BY DEF ListInv, ListsConsistent, LockOK, ListTypeOK
<1>1. PICK s \in doomed : /\ RemovePage(s, current_page, current_pos)
                          /\ doomed' = doomed \ {s}
                          /\ UNCHANGED <<pc, after>>
  BY DEF RemoveDoomed
<1>2. s \in Slot /\ map[s] # NoPage BY <1>0 DEF ListTypeOK, MapOK
<1>3. lock_page' = lock_page BY <1>1 DEF RemovePage
<1>4. PhaseOK' BY <1>0, <1>1, <1>3 DEF PhaseOK
<1> QED BY <1>0, <1>1, <1>2, <1>4, ListsRemove DEF ListTypeOK

LEMMA ListInvStep == ListInv /\ [Next]_vars => ListInv'
<1> SUFFICES ASSUME ListInv, [Next]_vars PROVE ListInv' OBVIOUS
<1>1. CASE HostCall BY <1>1, HostCallStep
<1>2. CASE RemoveDoomed BY <1>2, RemoveDoomedStep
<1>3. CASE GotoEip BY <1>3, GotoEipStep
<1>4. CASE DisInsts BY <1>4, DisInstsStep
<1>5. CASE ExceptionBody \/ ExceptionGivesUp \/ Exec BY <1>5, ExecStep
<1>6. CASE UNCHANGED vars
  <2>1. UNCHANGED <<map, next, prev, pages, pages_tail, free_pages, allocated,
                    current_page, lock_page, free_lock_page, pc, after, doomed, eip>>
    BY <1>6 DEF vars, guestVars, listVars, runVars, localVars
  <2>2. Live' = Live /\ Free' = Free BY <2>1 DEF Live, Free, Deferred
  <2>3. PhaseOK' /\ ListTypeOK' /\ MapOK' /\ LockOK'
    BY <2>1, <2>2
       DEF ListInv, ListsConsistent, PhaseOK, ListTypeOK, MapOK, LockOK, Eslot
  <2>4. LiveListOK' /\ FreeListOK'
    BY <2>1, <2>2 DEF ListInv, ListsConsistent, LiveListOK, FreeListOK
  <2> QED BY <2>3, <2>4 DEF ListInv, ListsConsistent
<1> QED BY <1>1, <1>2, <1>3, <1>4, <1>5, <1>6 DEF Next, JitStep, Exited

\* However the guest, the host and the invalidations interleave, the lists of
\* pages, the map and the lock stay consistent: in particular the page exec_inst
\* is running is never on the free list.
THEOREM ListsAlwaysConsistent == Spec => []ListsConsistent
<1>1. Spec => []ListInv BY ListInvInit, ListInvStep, PTL DEF Spec
<1>2. ListInv => ListsConsistent BY DEF ListInv
<1> QED BY <1>1, <1>2, PTL

-----------------------------------------------------------------------------
(***************************************************************************)
(* No page is lost.  Reachability along next is proved from a rank that    *)
(* grows along it (Ranked) and from the predecessor every page but the     *)
(* first of its list has (LiveListOK, FreeLinked): the page of least rank  *)
(* that is not reached would have a predecessor that is not reached either.*)
(***************************************************************************)
Links(S, f, r) == \A q \in S : f[q] # NoPage => r[q] < r[f[q]]
Ranked == \E r \in [Page -> Nat] : Links(Live \cup Free, next, r)
FreeLinked == \A p \in Free : p # free_pages => \E q \in Free : next[q] = p
AllocatedBound == allocated <= Cardinality(Slot) + 1
ChainInv == Ranked /\ FreeLinked /\ AllocatedBound

\* A nonempty set of naturals has a least one.
LEMMA Least ==
  ASSUME NEW T, T \subseteq Nat, T # {}
  PROVE  \E m \in T : \A n \in T : m <= n
<1> DEFINE R == OpToRel(<, Nat)
<1>1. IsWellFoundedOn(R, Nat) BY NatLessThanWellFounded
<1>2. \A x, y \in Nat : y < x => <<y, x>> \in R BY DEF OpToRel
<1> HIDE DEF R
<1>3. PICK m \in T : \A n \in T : ~(<<n, m>> \in R) BY <1>1, WFMin
<1>4. ASSUME NEW n \in T PROVE m <= n
  <2>1. m \in Nat /\ n \in Nat OBVIOUS
  <2>2. ~(n < m) BY <1>2, <1>3, <2>1
  <2> QED BY <2>1, <2>2
<1> QED BY <1>4

LEMMA AreasTyped ==
  /\ Len(Areas) \in Nat /\ DOMAIN Areas = 1 .. Len(Areas)
  /\ \A i \in 1 .. Len(Areas) :
       Areas[i].first \in Nat /\ Areas[i].last \in Nat /\ Areas[i].first <= Areas[i].last
<1>1. Areas \in Seq([first : Nat, last : Nat]) BY PagesAssumption
<1>2. Len(Areas) \in Nat /\ DOMAIN Areas = 1 .. Len(Areas) BY <1>1, LenProperties
<1>3. \A i \in 1 .. Len(Areas) : Areas[i] \in [first : Nat, last : Nat]
  BY <1>1, <1>2, LenProperties
<1>4. \A i \in 1 .. Len(Areas) : Areas[i].first <= Areas[i].last
  BY <1>2, PagesAssumption
<1> QED BY <1>2, <1>3, <1>4

\* The areas come in order.
LEMMA AreasOrdered ==
  ASSUME NEW i \in 1 .. Len(Areas), NEW k \in 1 .. Len(Areas), i < k
  PROVE  Areas[i].last < Areas[k].first
<1> DEFINE N == Len(Areas)
           T == {n \in i + 1 .. N : ~(Areas[i].last < Areas[n].first)}
<1> SUFFICES ASSUME k \in T PROVE FALSE
  <2>1. k \in i + 1 .. N BY AreasTyped
  <2> QED BY <2>1
<1>1. N \in Nat /\ i \in Nat /\ T \subseteq Nat BY AreasTyped
<1>2. PICK n \in T : \A x \in T : n <= x BY <1>1, Least
<1>3. /\ n \in Nat /\ n \in i + 1 .. N /\ n \in 1 .. N /\ n > 1 /\ n - 1 \in 1 .. N
      /\ ~(n <= n - 1) /\ (n = i + 1 \/ n - 1 \in i + 1 .. N)
      /\ (n = i + 1 => n - 1 = i)
  BY <1>1, <1>2
<1>4. Areas[n - 1].last < Areas[n].first BY <1>3, AreasTyped, PagesAssumption
<1>5. Areas[i].last \in Nat /\ Areas[n].first \in Nat /\ Areas[n - 1].last \in Nat
      /\ Areas[n - 1].first \in Nat /\ Areas[n - 1].first <= Areas[n - 1].last
  BY <1>3, AreasTyped
<1>6. Areas[i].last < Areas[n].first
  <2>1. CASE n = i + 1 BY <1>3, <1>4, <2>1
  <2>2. CASE n - 1 \in i + 1 .. N
    <3>1. n - 1 \notin T BY <1>2, <1>3
    <3>2. Areas[i].last < Areas[n - 1].first BY <2>2, <3>1
    <3> QED BY <1>4, <1>5, <3>2
  <2> QED BY <1>3, <2>1, <2>2
<1> QED BY <1>2, <1>6

\* There are finitely many slots.
LEMMA SlotFinite == IsFiniteSet(Slot)
<1> DEFINE N == Len(Areas)
<1>1. N \in Nat /\ DOMAIN Areas = 1 .. N BY AreasTyped
<1>2. CASE N = 0
  <2>1. Slot = {} BY <1>1, <1>2 DEF Slot
  <2> QED BY <2>1, FS_EmptySet
<1>3. CASE N # 0
  <2>1. N \in 1 .. N BY <1>1, <1>3
  <2>2. Areas[N].last \in Nat BY <2>1, AreasTyped
  <2>3. ASSUME NEW s \in Slot PROVE s \in 0 .. Areas[N].last
    <3>1. PICK i \in 1 .. N : s \in Areas[i].first .. Areas[i].last
      BY <1>1 DEF Slot
    <3>2. Areas[i].first \in Nat /\ Areas[i].last \in Nat BY AreasTyped
    <3>3. Areas[i].last <= Areas[N].last
      <4>1. CASE i = N BY <2>2, <4>1
      <4>2. CASE i # N
        <5>1. i < N BY <1>1, <3>1, <4>2
        <5>2. Areas[i].last < Areas[N].first BY <2>1, <5>1, AreasOrdered
        <5>3. Areas[N].first \in Nat /\ Areas[N].first <= Areas[N].last
          BY <2>1, AreasTyped
        <5> QED BY <2>2, <3>2, <5>2, <5>3
      <4> QED BY <4>1, <4>2
    <3> QED BY <2>2, <3>1, <3>2, <3>3
  <2>4. IsFiniteSet(0 .. Areas[N].last)
    <3>1. 0 \in Int /\ Areas[N].last \in Int BY <2>2
    <3> QED BY <3>1, FS_Interval
  <2>5. Slot \in SUBSET (0 .. Areas[N].last) BY <2>3
  <2> QED BY <2>4, <2>5, FS_Subset
<1> QED BY <1>2, <1>3

\* A page no link leads to can be put before any other.
LEMMA RankPush ==
  ASSUME NEW S \in SUBSET Page, NEW T \in SUBSET Page, NEW p \in Page,
         NEW f, NEW g, NEW r \in [Page -> Nat], Links(S, f, r),
         T \subseteq S \cup {p},
         g[p] \in (Page \ {p}) \cup {NoPage},
         \A q \in T \ {p} : g[q] # NoPage =>
           g[q] \in Page \ {p} /\ r[q] < r[g[q]]
  PROVE  \E u \in [Page -> Nat] : Links(T, g, u)
<1> DEFINE u == [q \in Page |-> IF q = p THEN 0 ELSE r[q] + 1]
<1>1. u \in [Page -> Nat] OBVIOUS
<1>2. \A q \in Page : u[q] = IF q = p THEN 0 ELSE r[q] + 1 OBVIOUS
<1>3. \A q \in Page : r[q] \in Nat OBVIOUS
<1> HIDE DEF u
<1>4. ASSUME NEW q \in T, g[q] # NoPage PROVE u[q] < u[g[q]]
  <2>1. CASE q = p
    <3>1. g[p] \in Page \ {p} BY <1>4, <2>1
    <3>2. u[g[p]] = r[g[p]] + 1 /\ u[p] = 0 /\ r[g[p]] \in Nat BY <1>2, <1>3, <3>1
    <3> QED BY <2>1, <3>2
  <2>2. CASE q # p
    <3>1. g[q] \in Page \ {p} /\ r[q] < r[g[q]] /\ q \in Page BY <1>4, <2>2
    <3>2. u[g[q]] = r[g[q]] + 1 /\ u[q] = r[q] + 1 /\ r[q] \in Nat /\ r[g[q]] \in Nat
      BY <1>2, <1>3, <2>2, <3>1
    <3> QED BY <3>1, <3>2
  <2> QED BY <2>1, <2>2
<1>5. Links(T, g, u) BY <1>4 DEF Links
<1> QED BY <1>1, <1>5

LEMMA ChainInit == Init => ChainInv
<1> SUFFICES ASSUME Init PROVE ChainInv OBVIOUS
<1>1. Live = {} /\ Free = {} BY DEF Init, Live, Free
<1>2. [p \in Page |-> 0] \in [Page -> Nat] OBVIOUS
<1>3. Ranked BY <1>1, <1>2 DEF Ranked, Links
<1>4. AllocatedBound
  <2>1. Cardinality(Slot) \in Nat BY SlotFinite, FS_CardinalityType
  <2> QED BY <2>1 DEF Init, AllocatedBound
<1> QED BY <1>1, <1>3, <1>4 DEF ChainInv, FreeLinked

\* A step that leaves the lists alone.
LEMMA ChainStays ==
  ASSUME ChainInv, UNCHANGED listVars, Deferred' = Deferred
  PROVE  ChainInv'
<1>1. UNCHANGED <<map, next, free_pages, allocated>> BY DEF listVars
<1>2. Live' = Live BY <1>1 DEF Live
<1>3. Free' = Free BY <1>1, <1>2 DEF Free
<1>4. Ranked' BY <1>1, <1>2, <1>3 DEF ChainInv, Ranked, Links
<1>5. FreeLinked' BY <1>1, <1>3 DEF ChainInv, FreeLinked
<1>6. AllocatedBound' BY <1>1 DEF ChainInv, AllocatedBound
<1> QED BY <1>4, <1>5, <1>6 DEF ChainInv

\* remove_page.
LEMMA ChainRemove ==
  ASSUME ListInv, ChainInv, NEW s \in Slot, map[s] # NoPage, NEW pg, NEW at,
         RemovePage(s, pg, at)
  PROVE  ChainInv'
<1>0. ListTypeOK /\ MapOK /\ LockOK /\ LiveListOK /\ FreeListOK
  BY DEF ListInv, ListsConsistent
<1> DEFINE p == map[s]
           n == next[p]
           b == prev[p]
<1>1. /\ p \in Live /\ p \in Page /\ Live' = Live \ {p}
      /\ p # lock_page => Free' = Free \cup {p}
      /\ p = lock_page => Free' = Free
  BY <1>0, RemoveSets
<1>2. /\ Live \subseteq Page /\ Free \subseteq Page /\ Free \cap Live = {}
      /\ NoPage \notin Live /\ NoPage \notin Free /\ NoPage \notin Page
  BY <1>0, PageSets
<1>3. PICK r \in [Page -> Nat] : Links(Live \cup Free, next, r)
  BY DEF ChainInv, Ranked
<1>4. /\ n \in Live \cup {NoPage} /\ b \in Live \cup {NoPage}
      /\ \A q \in Live : /\ next[q] \in Live \cup {NoPage}
                         /\ next[q] = p => q = b
      /\ \A q \in Free : next[q] \in Free \cup {NoPage}
      /\ b # NoPage => next[b] = p
      /\ free_pages \in Free \cup {NoPage}
  BY <1>0, <1>1, <1>2 DEF LiveListOK, FreeListOK
<1>5. \A q \in Page : next'[q] = IF q = p /\ p # lock_page THEN free_pages
                                 ELSE IF q = b THEN n ELSE next[q]
  BY DEF RemovePage, Releasable
<1> HIDE DEF p, n, b
<1>6. \A q \in Live \cup Free : next[q] # NoPage => r[q] < r[next[q]]
  BY <1>3 DEF Links
<1>7. \A q \in Page : r[q] \in Nat OBVIOUS
<1>8. n = next[p] BY DEF n
<1>9. n # NoPage => n \in Live /\ r[p] < r[n] /\ n # p
  <2>1. SUFFICES ASSUME n # NoPage PROVE n \in Live /\ r[p] < r[n] /\ n # p OBVIOUS
  <2>2. n \in Live /\ r[p] < r[n] BY <1>1, <1>4, <1>6, <1>8, <2>1
  <2>3. r[p] \in Nat BY <1>1, <1>7
  <2> QED BY <2>2, <2>3
<1>10. ASSUME NEW q \in (Live \cup Free) \ {p}, next'[q] # NoPage
       PROVE  next'[q] \in Page \ {p} /\ r[q] < r[next'[q]]
  <2>1. q \in Page /\ next'[q] = IF q = b THEN n ELSE next[q]
    BY <1>2, <1>5, <1>10
  <2>2. CASE q = b
    <3>1. q \in Live BY <1>2, <1>4, <1>10, <2>2
    <3>2. next[q] = p /\ r[q] < r[p] BY <1>1, <1>2, <1>4, <1>6, <2>2, <3>1
    <3>3. n # NoPage /\ next'[q] = n BY <1>10, <2>1, <2>2
    <3>4. r[q] \in Nat /\ r[p] \in Nat /\ r[n] \in Nat BY <1>1, <1>2, <1>7, <1>9, <2>1, <3>3
    <3> QED BY <1>2, <1>9, <3>2, <3>3, <3>4
  <2>3. CASE q # b
    <3>1. next'[q] = next[q] /\ next[q] # NoPage BY <1>10, <2>1, <2>3
    <3>2. next[q] \in (Live \cup Free) \ {p} BY <1>1, <1>2, <1>4, <1>10, <2>3, <3>1
    <3> QED BY <1>2, <1>6, <1>10, <3>1, <3>2
  <2> QED BY <2>2, <2>3
<1>11. Ranked'
  <2>1. CASE p # lock_page
    <3>1. next'[p] = free_pages BY <1>1, <1>5, <2>1
    <3>2. next'[p] \in (Page \ {p}) \cup {NoPage} BY <1>1, <1>2, <1>4, <3>1
    <3>3. Live' \cup Free' \subseteq (Live \cup Free) \cup {p} BY <1>1, <2>1
    <3>4. Live' \cup Free' \in SUBSET Page /\ Live \cup Free \in SUBSET Page
      BY <1>1, <1>2, <3>3
    <3>5. \A q \in (Live' \cup Free') \ {p} : next'[q] # NoPage =>
            next'[q] \in Page \ {p} /\ r[q] < r[next'[q]]
      BY <1>10, <3>3
    <3>6. \E u \in [Page -> Nat] : Links(Live' \cup Free', next', u)
      BY <1>1, <1>3, <3>2, <3>3, <3>4, <3>5, RankPush
    <3> QED BY <3>6 DEF Ranked, Links
  <2>2. CASE p = lock_page
    <3>1. Live' \cup Free' = (Live \cup Free) \ {p} BY <1>1, <1>2, <2>2
    <3> QED BY <1>3, <1>10, <3>1 DEF Ranked, Links
  <2> QED BY <2>1, <2>2
<1>12. FreeLinked'
  <2>1. \A q \in Free : next'[q] = next[q] BY <1>1, <1>2, <1>4, <1>5
  <2>2. CASE p # lock_page
    <3>1. free_pages' = p BY <2>2 DEF RemovePage, Releasable, p
    <3>2. next'[p] = free_pages BY <1>1, <1>5, <2>2
    <3> QED BY <1>1, <2>1, <2>2, <3>1, <3>2 DEF ChainInv, FreeLinked
  <2>3. CASE p = lock_page
    <3>1. free_pages' = free_pages BY <2>3 DEF RemovePage, Releasable, p
    <3> QED BY <1>1, <2>1, <2>3, <3>1 DEF ChainInv, FreeLinked
  <2> QED BY <2>2, <2>3
<1>13. AllocatedBound' BY DEF RemovePage, ChainInv, AllocatedBound
<1> QED BY <1>11, <1>12, <1>13 DEF ChainInv

\* There is a page less in the map than slots while one of them has no page.
LEMMA LiveCount ==
  ASSUME ListTypeOK, NEW s \in Slot, map[s] = NoPage
  PROVE  IsFiniteSet(Live) /\ Cardinality(Live) <= Cardinality(Slot) - 1
<1> DEFINE T == {t \in Slot : map[t] # NoPage}
           f == [t \in T |-> map[t]]
<1>1. f \in Surjection(T, Live)
  <2>1. f \in [T -> Live] BY DEF Live
  <2>2. \A p \in Live : \E t \in T : f[t] = p BY DEF Live
  <2> QED BY <2>1, <2>2 DEF Surjection
<1>2. IsFiniteSet(Slot) /\ Cardinality(Slot) \in Nat BY SlotFinite, FS_CardinalityType
<1>3. IsFiniteSet(Slot \ {s}) /\ Cardinality(Slot \ {s}) = Cardinality(Slot) - 1
  BY <1>2, FS_RemoveElement
<1>4. T \in SUBSET (Slot \ {s}) OBVIOUS
<1> HIDE DEF T, f
<1>5. IsFiniteSet(T) /\ Cardinality(T) <= Cardinality(Slot \ {s}) BY <1>3, <1>4, FS_Subset
<1>6. IsFiniteSet(Live) /\ Cardinality(Live) <= Cardinality(T) BY <1>1, <1>5, FS_Surjection
<1>7. Cardinality(Live) \in Nat /\ Cardinality(T) \in Nat BY <1>5, <1>6, FS_CardinalityType
<1> QED BY <1>2, <1>3, <1>5, <1>6, <1>7

\* When the free list ends at once there is no free page: the one of least rank
\* would have a predecessor.
LEMMA NothingFree ==
  ASSUME ListInv, ChainInv, free_pages = NoPage
  PROVE  Free = {}
<1> SUFFICES ASSUME Free # {} PROVE FALSE OBVIOUS
<1>1. Free \subseteq Page /\ NoPage \notin Free BY PageSets DEF ListInv
<1>2. PICK r \in [Page -> Nat] : Links(Live \cup Free, next, r)
  BY DEF ChainInv, Ranked
<1> DEFINE R == {r[q] : q \in Free}
<1>3. R \subseteq Nat /\ R # {} BY <1>1
<1>4. PICK p \in Free : \A q \in Free : r[p] <= r[q]
  <2> HIDE DEF R
  <2>1. PICK m \in R : \A n \in R : m <= n BY <1>3, Least
  <2> QED BY <2>1 DEF R
<1>5. PICK q \in Free : next[q] = p BY <1>1, <1>4 DEF ChainInv, FreeLinked
<1>6. r[q] < r[p] BY <1>1, <1>2, <1>5 DEF Links
<1>7. r[p] <= r[q] /\ r[p] \in Nat /\ r[q] \in Nat BY <1>1, <1>4
<1> QED BY <1>6, <1>7

\* malloc is called when every page is in the map or locked, and a slot has none.
LEMMA AllocatesLast ==
  ASSUME ListInv, ChainInv, NEW s \in Slot, map[s] = NoPage, GetNewPage(s)
  PROVE  AllocatedBound'
<1>0. ListTypeOK /\ Cardinality(Slot) \in Nat
  BY SlotFinite, FS_CardinalityType DEF ListInv
<1>1. CASE Reuse
  <2>1. allocated' = allocated BY <1>1 DEF GetNewPage
  <2> QED BY <2>1 DEF ChainInv, AllocatedBound
<1>2. CASE ~Reuse
  <2>1. allocated' = allocated + 1 /\ free_pages = NoPage
    BY <1>2 DEF GetNewPage, Reuse
  <2>2. allocated \in Nat BY <1>0, PagesAssumption DEF ListTypeOK
  <2>3. 1 .. allocated \subseteq Live \cup {lock_page}
    <3>1. Free = {} BY <2>1, NothingFree
    <3>2. Deferred \subseteq {lock_page} BY DEF Deferred
    <3> QED BY <3>1, <3>2 DEF Free
  <2>4. IsFiniteSet(Live) /\ Cardinality(Live) <= Cardinality(Slot) - 1
    BY <1>0, LiveCount
  <2>5. Cardinality(Live) \in Nat BY <2>4, FS_CardinalityType
  <2>6. /\ IsFiniteSet(Live \cup {lock_page})
        /\ Cardinality(Live \cup {lock_page}) \in {Cardinality(Live), Cardinality(Live) + 1}
    BY <2>4, FS_AddElement
  <2>7. 1 .. allocated \in SUBSET (Live \cup {lock_page}) BY <2>3
  <2>8. Cardinality(1 .. allocated) <= Cardinality(Live \cup {lock_page})
    BY <2>6, <2>7, FS_Subset
  <2>9. Cardinality(1 .. allocated) = allocated
    <3>1. 1 \in Int /\ allocated \in Int BY <2>2
    <3>2. Cardinality(1 .. allocated) = IF 1 > allocated THEN 0 ELSE allocated - 1 + 1
      BY <3>1, FS_Interval
    <3> QED BY <2>2, <3>2
  <2>10. allocated <= Cardinality(Slot) BY <1>0, <2>2, <2>4, <2>5, <2>6, <2>8, <2>9
  <2> QED BY <1>0, <2>1, <2>2, <2>10 DEF AllocatedBound
<1> QED BY <1>1, <1>2

\* get_new_page.
LEMMA ChainNew ==
  ASSUME ListInv, ChainInv, NEW s \in Slot, map[s] = NoPage, GetNewPage(s)
  PROVE  ChainInv'
<1>0. ListTypeOK /\ LiveListOK /\ FreeListOK BY DEF ListInv, ListsConsistent
<1>1. PICK p \in Page :
        /\ p \notin Live
        /\ Live' = Live \cup {p} /\ Free' = Free \ {p}
        /\ next' = [next EXCEPT ![p] = pages]
        /\ free_pages' = (IF p \in Free THEN next[p] ELSE free_pages)
        /\ p \in Free => p = free_pages
        /\ p \notin Free => free_pages = NoPage
  BY NewSets
<1>2. /\ Live \subseteq Page /\ Free \subseteq Page /\ Free \cap Live = {}
      /\ NoPage \notin Live /\ NoPage \notin Free /\ NoPage \notin Page
  BY <1>0, PageSets
<1>3. PICK r \in [Page -> Nat] : Links(Live \cup Free, next, r)
  BY DEF ChainInv, Ranked
<1>4. \A q \in Page : next'[q] = IF q = p THEN pages ELSE next[q]
  BY <1>0, <1>1 DEF ListTypeOK
<1>5. pages \in Live \cup {NoPage} BY <1>0 DEF LiveListOK
<1>6. ASSUME NEW q \in (Live \cup Free) \ {p}, next[q] # NoPage
      PROVE  next[q] \in Page \ {p}
  <2>1. CASE q \in Live BY <1>0, <1>1, <1>2, <1>6, <2>1 DEF LiveListOK
  <2>2. CASE q \in Free BY <1>0, <1>1, <1>2, <1>6, <2>2 DEF FreeListOK
  <2> QED BY <1>6, <2>1, <2>2
<1>7. Ranked'
  <2>1. Live' \cup Free' \subseteq (Live \cup Free) \cup {p} BY <1>1
  <2>2. Live' \cup Free' \in SUBSET Page /\ Live \cup Free \in SUBSET Page
    BY <1>2, <2>1
  <2>3. next'[p] \in (Page \ {p}) \cup {NoPage} BY <1>1, <1>2, <1>4, <1>5
  <2>4. \A q \in (Live' \cup Free') \ {p} : next'[q] # NoPage =>
          next'[q] \in Page \ {p} /\ r[q] < r[next'[q]]
    BY <1>2, <1>3, <1>4, <1>6, <2>1 DEF Links
  <2>5. \E u \in [Page -> Nat] : Links(Live' \cup Free', next', u)
    BY <1>3, <2>1, <2>2, <2>3, <2>4, RankPush
  <2> QED BY <2>5 DEF Ranked, Links
<1>8. FreeLinked'
  <2>1. \A q \in Free' : q \in Free /\ q # p /\ next'[q] = next[q]
    BY <1>1, <1>2, <1>4
  <2>2. ASSUME NEW q \in Free', q # free_pages' PROVE \E w \in Free' : next'[w] = q
    <3>1. q \in Free /\ q # free_pages BY <1>1, <1>2, <2>1, <2>2
    <3>2. PICK w \in Free : next[w] = q BY <3>1 DEF ChainInv, FreeLinked
    <3>3. w # p BY <1>1, <2>2, <3>2
    <3> QED BY <1>1, <2>1, <3>2, <3>3
  <2> QED BY <2>2 DEF FreeLinked
<1>9. AllocatedBound' BY AllocatesLast
<1> QED BY <1>7, <1>8, <1>9 DEF ChainInv

\* The end of exec_inst, which may release the page it ran.
LEMMA ChainStop ==
  ASSUME ListInv, ChainInv, Stop
  PROVE  ChainInv'
<1>0. ListTypeOK /\ PhaseOK /\ LockOK /\ LiveListOK /\ FreeListOK
  BY DEF ListInv, ListsConsistent
<1>1. /\ free_lock_page' = FALSE /\ UNCHANGED <<map, pages, pages_tail, allocated>>
      /\ pc = "stop"
  BY DEF Stop, At
<1>2. Live' = Live /\ Deferred' = {} BY <1>1 DEF Live, Deferred
<1>3. AllocatedBound' BY <1>1 DEF ChainInv, AllocatedBound
<1>4. CASE ~free_lock_page
  <2>1. UNCHANGED <<prev, next, free_pages>> BY <1>4 DEF Stop
  <2>2. Deferred' = Deferred BY <1>2, <1>4 DEF Deferred
  <2> QED BY <1>1, <2>1, <2>2, ChainStays DEF listVars
<1>5. CASE free_lock_page
  <2> DEFINE p == lock_page
  <2>1. next' = [next EXCEPT ![p] = free_pages] /\ free_pages' = p
    BY <1>5 DEF Stop
  <2>2. p \in 1 .. allocated /\ p \notin Live /\ p \in Page /\ p \notin Free
    BY <1>0, <1>1, <1>5 DEF PhaseOK, LockOK, ListTypeOK, PageOrNone, Free, Deferred
  <2>3. Free' = Free \cup {p}
    BY <1>1, <1>2, <1>5, <2>2 DEF Free, Deferred
  <2>4. /\ Live \subseteq Page /\ Free \subseteq Page
        /\ NoPage \notin Live /\ NoPage \notin Free /\ NoPage \notin Page
    BY <1>0, PageSets
  <2> HIDE DEF p
  <2>5. PICK r \in [Page -> Nat] : Links(Live \cup Free, next, r)
    BY DEF ChainInv, Ranked
  <2>6. \A q \in Page : next'[q] = IF q = p THEN free_pages ELSE next[q]
    BY <1>0, <2>1 DEF ListTypeOK
  <2>7. free_pages \in Free \cup {NoPage}
        /\ \A q \in Live \cup Free : next[q] \in Live \cup Free \cup {NoPage}
    BY <1>0 DEF FreeListOK, LiveListOK
  <2>8. Ranked'
    <3>1. Live' \cup Free' \subseteq (Live \cup Free) \cup {p} BY <1>2, <2>3
    <3>2. Live' \cup Free' \in SUBSET Page /\ Live \cup Free \in SUBSET Page
      BY <2>2, <2>4, <3>1
    <3>3. next'[p] \in (Page \ {p}) \cup {NoPage} BY <2>2, <2>4, <2>6, <2>7
    <3>4. ASSUME NEW q \in (Live' \cup Free') \ {p}, next'[q] # NoPage
          PROVE  next'[q] \in Page \ {p} /\ r[q] < r[next'[q]]
      <4>1. q \in Live \cup Free /\ next'[q] = next[q] BY <2>4, <2>6, <3>1, <3>4
      <4>2. next[q] \in Live \cup Free BY <2>7, <3>4, <4>1
      <4> QED BY <2>2, <2>4, <2>5, <3>4, <4>1, <4>2 DEF Links
    <3>5. \E u \in [Page -> Nat] : Links(Live' \cup Free', next', u)
      BY <2>2, <2>5, <3>1, <3>2, <3>3, <3>4, RankPush
    <3> QED BY <3>5 DEF Ranked, Links
  <2>9. FreeLinked'
    <3>1. \A q \in Free : next'[q] = next[q] BY <2>2, <2>4, <2>6
    <3>2. next'[p] = free_pages BY <2>2, <2>6
    <3> QED BY <2>1, <2>3, <3>1, <3>2 DEF ChainInv, FreeLinked
  <2> QED BY <1>3, <2>8, <2>9 DEF ChainInv
<1> QED BY <1>4, <1>5

LEMMA ChainStep == ListInv /\ ChainInv /\ [Next]_vars => ChainInv'
<1> SUFFICES ASSUME ListInv, ChainInv, [Next]_vars PROVE ChainInv' OBVIOUS
<1>0. LockOK /\ PhaseOK /\ MapOK /\ ListTypeOK /\ doomed \subseteq Slot
  BY DEF ListInv, ListsConsistent, ListTypeOK
<1> USE DEF At, Running
<1>1. ASSUME UNCHANGED <<listVars, lock_page, free_lock_page>> PROVE ChainInv'
  <2>1. Deferred' = Deferred BY <1>1 DEF Deferred
  <2> QED BY <1>1, <2>1, ChainStays
<1>2. CASE HostCall
  BY <1>1, <1>2
     DEF HostCall, ExecNextInst, Interrupt, HostWrite, ClearAreas, Reset, runVars
<1>3. CASE RemoveDoomed
  <2>1. PICK s \in doomed : RemovePage(s, current_page, current_pos)
    BY <1>3 DEF RemoveDoomed
  <2>2. s \in Slot /\ map[s] # NoPage BY <1>0 DEF MapOK
  <2> QED BY <2>1, <2>2, ChainRemove
<1>4. CASE GotoEip
  <2>1. CASE OutOfRange \/ Hit \/ Decode
    BY <1>1, <2>1 DEF OutOfRange, Hit, Decode, runVars
  <2>2. CASE NewPage BY <2>2, ChainNew DEF NewPage, InSlot
  <2>3. CASE Stale BY <2>3, ChainRemove DEF Stale, InSlot
  <2> QED BY <1>4, <2>1, <2>2, <2>3 DEF GotoEip
<1>5. CASE DisInsts
  <2>1. CASE DisEnd \/ CompileInst \/ CompileEnd
    BY <1>1, <2>1 DEF DisEnd, CompileInst, CompileEnd, runVars
  <2>2. pc = "dis" => Eslot \in Slot /\ map[Eslot] # NoPage BY <1>0 DEF PhaseOK
  <2>3. CASE DisFault BY <2>2, <2>3, ChainRemove DEF DisFault
  <2>4. CASE DisInst
    <3>1. CASE UNCHANGED <<listVars, runVars>> BY <1>1, <3>1 DEF runVars
    <3>2. CASE RemovePage(Eslot, current_page, current_pos)
      BY <2>2, <2>4, <3>2, ChainRemove DEF DisInst
    <3> QED BY <2>4, <3>1, <3>2 DEF DisInst
  <2> QED BY <1>5, <2>1, <2>3, <2>4 DEF DisInsts
<1>6. CASE ExceptionBody \/ ExceptionGivesUp
  BY <1>1, <1>6 DEF ExceptionBody, ExceptionGivesUp, runVars
<1>7. CASE Exec
  <2>1. CASE Lock
    <3>1. UNCHANGED <<listVars, free_lock_page>> /\ lock_page = NoPage
      BY <1>0, <2>1 DEF Lock, PhaseOK
    <3>2. free_lock_page = FALSE BY <1>0, <3>1 DEF LockOK, ListTypeOK
    <3>3. Deferred' = Deferred BY <3>1, <3>2 DEF Deferred
    <3> QED BY <3>1, <3>3, ChainStays
  <2>2. CASE Stop BY <2>2, ChainStop
  <2>3. CASE ~Lock /\ ~Stop
    BY <1>1, <1>7, <2>3
       DEF Exec, ExecSeq, ExecStore, ExecOut, ExecCR0, ExecJump, ExecFar, ExecFault,
           ExecInc, ExecGoto, ExecHalt, runVars
  <2> QED BY <2>1, <2>2, <2>3
<1>8. CASE UNCHANGED vars BY <1>1, <1>8 DEF vars, runVars
<1> QED BY <1>2, <1>3, <1>4, <1>5, <1>6, <1>7, <1>8 DEF Next, JitStep, Exited

(***************************************************************************)
(* What Chain computes.  Its recursion is a function on 0 .. MaxPages: the *)
(* function exists, and MaxPages rounds reach everything, because a round  *)
(* that does not end adds a page.                                          *)
(***************************************************************************)
Grow(S) == S \cup ({next[q] : q \in S} \ {NoPage})
ChainOf(f, p, m) ==
  [n \in 0 .. m |-> IF n = 0 THEN {p} \ {NoPage} ELSE Grow(f[n - 1])]
ClosedUnderNext(S) == \A q \in S : next[q] # NoPage => next[q] \in S

LEMMA ChainExists ==
  ASSUME NEW p, NEW m \in Nat
  PROVE  \E f : f = ChainOf(f, p, m)
<1> DEFINE T == {n \in Nat : ~\E f : f = ChainOf(f, p, n)}
<1> SUFFICES ASSUME T # {} PROVE FALSE OBVIOUS
<1>1. T \subseteq Nat OBVIOUS
<1>2. PICK k \in T : \A n \in T : k <= n
  <2> HIDE DEF T
  <2> QED BY <1>1, Least
<1>3. k \in Nat BY <1>1, <1>2
<1>4. CASE k = 0
  <2> DEFINE g == [n \in 0 .. k |-> {p} \ {NoPage}]
  <2>1. \A n \in 0 .. k : n = 0 BY <1>4
  <2>2. g = ChainOf(g, p, k) BY <2>1 DEF ChainOf
  <2> QED BY <1>2, <2>2
<1>5. CASE k # 0
  <2>1. k - 1 \in Nat /\ ~(k <= k - 1) /\ k - 1 \in 0 .. k - 1 BY <1>3, <1>5
  <2>2. k - 1 \notin T BY <1>2, <2>1
  <2>3. PICK f : f = ChainOf(f, p, k - 1) BY <2>1, <2>2
  <2> DEFINE g == [n \in 0 .. k |-> IF n = k THEN Grow(f[k - 1]) ELSE f[n]]
  <2>4. ASSUME NEW n \in 0 .. k
        PROVE  g[n] = IF n = 0 THEN {p} \ {NoPage} ELSE Grow(g[n - 1])
    <3>1. CASE n = k
      <4>1. k - 1 \in 0 .. k /\ k - 1 # k BY <1>3, <2>1
      <4>2. g[n] = Grow(f[k - 1]) /\ g[k - 1] = f[k - 1] BY <3>1, <4>1
      <4> QED BY <1>5, <3>1, <4>2
    <3>2. CASE n # k
      <4>1. n \in 0 .. k - 1 BY <1>3, <3>2
      <4>2. f[n] = IF n = 0 THEN {p} \ {NoPage} ELSE Grow(f[n - 1])
        BY <2>3, <4>1 DEF ChainOf
      <4>3. g[n] = f[n] BY <3>2
      <4>4. n # 0 => n - 1 \in 0 .. k /\ n - 1 # k BY <1>3, <4>1
      <4>5. n # 0 => g[n - 1] = f[n - 1] BY <4>4
      <4> QED BY <4>2, <4>3, <4>5
    <3> QED BY <3>1, <3>2
  <2>5. g = [n \in 0 .. k |-> g[n]] OBVIOUS
  <2> HIDE DEF g
  <2>6. g = ChainOf(g, p, k) BY <2>4, <2>5 DEF ChainOf
  <2> QED BY <1>2, <2>6
<1> QED BY <1>4, <1>5

LEMMA ChainTurns ==
  ASSUME NEW p
  PROVE  \E c : c = ChainOf(c, p, MaxPages) /\ Chain(p) = c[MaxPages]
<1> DEFINE D(f) == ChainOf(f, p, MaxPages)
           c == CHOOSE f : f = D(f)
<1>1. Chain(p) = c[MaxPages] BY DEF Chain, ChainOf, Grow
<1>2. \E f : f = D(f) BY PagesAssumption, ChainExists
<1> HIDE DEF D
<1>3. c = D(c) BY <1>2
<1> QED BY <1>1, <1>3 DEF D

\* Chain(p) is the least set of pages with p that is closed under next.
LEMMA ChainIsLeast ==
  ASSUME ListTypeOK, NEW p \in Page \cup {NoPage}
  PROVE  /\ p # NoPage => p \in Chain(p)
         /\ ClosedUnderNext(Chain(p))
         /\ \A S : ClosedUnderNext(S) /\ (p # NoPage => p \in S) => Chain(p) \subseteq S
<1>0. /\ MaxPages \in Nat /\ NoPage \notin Page
      /\ \A q \in Page : next[q] \in Page \cup {NoPage}
  BY PagesAssumption, PageSets DEF ListTypeOK, PageOrNone
<1>1. PICK c : c = ChainOf(c, p, MaxPages) /\ Chain(p) = c[MaxPages] BY ChainTurns
<1>2. \A n \in 0 .. MaxPages :
        c[n] = IF n = 0 THEN {p} \ {NoPage} ELSE Grow(c[n - 1])
  BY <1>1 DEF ChainOf
<1>3. MaxPages \in 0 .. MaxPages /\ 0 \in 0 .. MaxPages BY <1>0
<1>4. c[0] = {p} \ {NoPage} BY <1>2, <1>3
<1>5. \A n \in 0 .. MaxPages : n # 0 =>
        n - 1 \in 0 .. MaxPages /\ n - 1 \in Nat /\ ~(n <= n - 1) /\ c[n] = Grow(c[n - 1])
  BY <1>0, <1>2
<1>6. ASSUME NEW S, ClosedUnderNext(S), p # NoPage => p \in S,
             NEW n \in 0 .. MaxPages
      PROVE  c[n] \subseteq S
  <2> DEFINE T == {k \in 0 .. MaxPages : ~(c[k] \subseteq S)}
  <2> SUFFICES ASSUME T # {} PROVE FALSE BY <1>6
  <2>1. T \subseteq Nat OBVIOUS
  <2>2. PICK k \in T : \A x \in T : k <= x
    <3> HIDE DEF T
    <3> QED BY <2>1, Least
  <2>3. k # 0 BY <1>4, <1>6, <2>2
  <2>4. k - 1 \in 0 .. MaxPages /\ ~(k <= k - 1) /\ c[k] = Grow(c[k - 1])
    BY <1>5, <2>2, <2>3
  <2>5. c[k - 1] \subseteq S BY <2>2, <2>4
  <2>6. c[k] \subseteq S BY <1>6, <2>4, <2>5 DEF Grow, ClosedUnderNext
  <2> QED BY <2>2, <2>6
<1>7. \A n \in 0 .. MaxPages : c[n] \subseteq Page
  <2>1. ClosedUnderNext(Page) BY <1>0 DEF ClosedUnderNext
  <2>2. p # NoPage => p \in Page OBVIOUS
  <2> QED BY <1>6, <2>1, <2>2
<1>8. \A n \in 0 .. MaxPages : p # NoPage => p \in c[n]
  <2> DEFINE T == {k \in 0 .. MaxPages : ~(p # NoPage => p \in c[k])}
  <2> SUFFICES ASSUME T # {} PROVE FALSE OBVIOUS
  <2>1. T \subseteq Nat OBVIOUS
  <2>2. PICK k \in T : \A x \in T : k <= x
    <3> HIDE DEF T
    <3> QED BY <2>1, Least
  <2>3. k # 0 BY <1>4, <2>2
  <2>4. k - 1 \in 0 .. MaxPages /\ ~(k <= k - 1) /\ c[k] = Grow(c[k - 1])
    BY <1>5, <2>2, <2>3
  <2>5. p # NoPage => p \in c[k - 1] BY <2>2, <2>4
  <2> QED BY <2>2, <2>4, <2>5 DEF Grow
<1>9. IsFiniteSet(Page) /\ Cardinality(Page) = MaxPages
  <2>1. 1 \in Int /\ MaxPages \in Int BY <1>0
  <2>2. IsFiniteSet(Page) /\ Cardinality(Page) = IF 1 > MaxPages THEN 0 ELSE MaxPages - 1 + 1
    BY <2>1, FS_Interval DEF Page
  <2> QED BY <1>0, <2>2
<1>10. \A n \in 0 .. MaxPages :
         IsFiniteSet(c[n]) /\ Cardinality(c[n]) \in Nat /\ Cardinality(c[n]) <= MaxPages
  BY <1>7, <1>9, FS_Subset, FS_CardinalityType
<1> DEFINE Grown(n) == ClosedUnderNext(c[n]) \/ Cardinality(c[n]) >= n + 1
<1>11. \A n \in 0 .. MaxPages : Grown(n)
  <2> DEFINE T == {k \in 0 .. MaxPages : ~Grown(k)}
  <2> SUFFICES ASSUME T # {} PROVE FALSE OBVIOUS
  <2>1. T \subseteq Nat OBVIOUS
  <2>2. PICK k \in T : \A x \in T : k <= x
    <3> HIDE DEF T
    <3> QED BY <2>1, Least
  <2>3. ~Grown(k) /\ k \in 0 .. MaxPages BY <2>2
  <2>4. CASE k = 0
    <3>1. CASE p = NoPage
      <4>1. c[k] = {} BY <1>4, <2>4, <3>1
      <4> QED BY <2>3, <4>1 DEF ClosedUnderNext
    <3>2. CASE p # NoPage
      <4>1. c[k] = {p} BY <1>4, <2>4, <3>2
      <4>2. Cardinality(c[k]) = 1 BY <4>1, FS_Singleton
      <4> QED BY <2>3, <2>4, <4>2
    <3> QED BY <3>1, <3>2
  <2>5. CASE k # 0
    <3>1. k - 1 \in 0 .. MaxPages /\ ~(k <= k - 1) /\ c[k] = Grow(c[k - 1]) /\ k \in Nat
      BY <1>5, <2>3, <2>5
    <3>2. Grown(k - 1) BY <2>2, <3>1
    <3> DEFINE S == c[k - 1]
    <3>3. CASE ClosedUnderNext(S)
      <4>1. Grow(S) = S BY <3>3 DEF Grow, ClosedUnderNext
      <4> QED BY <2>3, <3>1, <3>3, <4>1
    <3>4. CASE ~ClosedUnderNext(S)
      <4>1. Cardinality(S) >= k /\ Cardinality(S) \in Nat /\ IsFiniteSet(S)
        <5>1. Cardinality(S) >= (k - 1) + 1 BY <3>2, <3>4
        <5>2. Cardinality(S) \in Nat /\ IsFiniteSet(S) BY <1>10, <3>1
        <5> QED BY <3>1, <5>1, <5>2
      <4>2. PICK q \in S : next[q] # NoPage /\ next[q] \notin S
        BY <3>4 DEF ClosedUnderNext
      <4>3. S \cup {next[q]} \in SUBSET c[k] BY <3>1, <4>2 DEF Grow
      <4> HIDE DEF S
      <4>4. Cardinality(S \cup {next[q]}) = Cardinality(S) + 1
        BY <4>1, <4>2, FS_AddElement
      <4>5. IsFiniteSet(c[k]) /\ Cardinality(c[k]) \in Nat BY <1>10, <2>3
      <4>6. Cardinality(S \cup {next[q]}) <= Cardinality(c[k]) BY <4>3, <4>5, FS_Subset
      <4>7. Cardinality(c[k]) >= k + 1 BY <3>1, <4>1, <4>4, <4>5, <4>6
      <4> QED BY <2>3, <4>7
    <3> QED BY <3>3, <3>4
  <2> QED BY <2>4, <2>5
<1>12. ClosedUnderNext(c[MaxPages])
  <2>1. Grown(MaxPages) BY <1>3, <1>11
  <2>2. Cardinality(c[MaxPages]) \in Nat /\ Cardinality(c[MaxPages]) <= MaxPages
    BY <1>3, <1>10
  <2> QED BY <1>0, <2>1, <2>2
<1> QED BY <1>1, <1>3, <1>6, <1>8, <1>12

\* Everything is reached from the first page of a list whose other pages have a
\* predecessor of lower rank.
LEMMA ChainReaches ==
  ASSUME ListTypeOK, NEW S \in SUBSET Page, NEW p \in S \cup {NoPage},
         ClosedUnderNext(S),
         NEW r \in [Page -> Nat], Links(S, next, r),
         \A x \in S : x # p => \E q \in S : next[q] = x
  PROVE  Chain(p) = S
<1>1. p \in Page \cup {NoPage} /\ NoPage \notin Page BY PageSets
<1>2. /\ p # NoPage => p \in Chain(p)
      /\ ClosedUnderNext(Chain(p))
      /\ Chain(p) \subseteq S
  BY <1>1, ChainIsLeast
<1> DEFINE R == {r[x] : x \in S \ Chain(p)}
<1>3. ASSUME S \ Chain(p) # {} PROVE FALSE
  <2>1. R \subseteq Nat /\ R # {} BY <1>3
  <2>2. PICK x \in S \ Chain(p) : \A y \in S \ Chain(p) : r[x] <= r[y]
    <3> HIDE DEF R
    <3>1. PICK m \in R : \A n \in R : m <= n BY <2>1, Least
    <3> QED BY <3>1 DEF R
  <2>3. x # p BY <1>1, <1>2, <2>2
  <2>4. PICK q \in S : next[q] = x BY <2>2, <2>3
  <2>5. x # NoPage BY <1>1, <2>2
  <2>6. r[q] < r[x] BY <2>4, <2>5 DEF Links
  <2>7. q \notin Chain(p) BY <1>2, <2>2, <2>4, <2>5 DEF ClosedUnderNext
  <2>8. r[x] <= r[q] /\ r[q] \in Nat /\ r[x] \in Nat BY <2>2, <2>4, <2>7
  <2> QED BY <2>6, <2>8
<1> QED BY <1>2, <1>3

\* No page malloc returned is ever lost, and malloc is never called more than
\* once more than there are slots: the page that is removed while exec_inst runs
\* it comes back to the free list at the end.
THEOREM NoPageIsEverLost == Spec => []NoPageLost
<1>1. ASSUME ListInv, ChainInv PROVE NoPageLost
  <2>0. ListTypeOK /\ LiveListOK /\ FreeListOK BY <1>1 DEF ListInv, ListsConsistent
  <2>1. /\ Live \in SUBSET Page /\ Free \in SUBSET Page
        /\ NoPage \notin Live /\ NoPage \notin Free
    BY <2>0, PageSets
  <2>2. PICK r \in [Page -> Nat] : Links(Live \cup Free, next, r)
    BY <1>1 DEF ChainInv, Ranked
  <2>3. Links(Live, next, r) /\ Links(Free, next, r) BY <2>2 DEF Links
  <2>4. Chain(pages) = Live
    <3>1. pages \in Live \cup {NoPage} /\ ClosedUnderNext(Live)
      BY <2>0 DEF LiveListOK, ClosedUnderNext
    <3>2. \A x \in Live : x # pages => \E q \in Live : next[q] = x
      BY <2>0 DEF LiveListOK
    <3> QED BY <2>0, <2>1, <2>3, <3>1, <3>2, ChainReaches
  <2>5. Chain(free_pages) = Free
    <3>1. free_pages \in Free \cup {NoPage} /\ ClosedUnderNext(Free)
      BY <2>0 DEF FreeListOK, ClosedUnderNext
    <3>2. \A x \in Free : x # free_pages => \E q \in Free : next[q] = x
      BY <1>1 DEF ChainInv, FreeLinked
    <3> QED BY <2>0, <2>1, <2>3, <3>1, <3>2, ChainReaches
  <2> QED BY <1>1, <2>4, <2>5 DEF NoPageLost, ChainInv, AllocatedBound
<1>2. Init => ListInv /\ ChainInv BY ListInvInit, ChainInit
<1>3. ListInv /\ ChainInv /\ [Next]_vars => ListInv' /\ ChainInv'
  BY ListInvStep, ChainStep
<1>4. ListInv /\ ChainInv => NoPageLost BY <1>1
<1> QED BY <1>2, <1>3, <1>4, PTL DEF Spec

(***************************************************************************)
(* The bytecode                                                            *)
(***************************************************************************)
Instructions == [op : Kinds, bytes : Seq(Byte)]
Increments == [op : {"inc"}, len : Nat, stop : BOOLEAN]
Words == Instructions \cup Increments \cup [op : {"goto"}]
DisRecords == [addr : Nat, bytes : Seq(Byte) \ {<<>>}]

\* The loop goes on to the word after w, or may stop there.
GoesOn(w) == w.op \in {"seq", "store", "out", "cr0", "inc"}

\* The loop does not run past the end of s.
Closed(s) == s # <<>> => ~GoesOn(s[Len(s)])

\* BC_HALT comes after the BC_INCn_EIP_NOSTOP with its length.
HaltsAfterInc(s) ==
  \A i \in 1 .. Len(s) :
    s[i].op = "halt" => i > 1 /\ s[i - 1].op = "inc" /\ s[i - 1].len = Len(s[i].bytes)
                              /\ ~s[i - 1].stop

\* The bytecode of each page, but for the one compile is adding a block to.
CodeInv ==
  /\ v \in [Page -> Seq(Words)]
  /\ \A p \in Page : HaltsAfterInc(v[p])
  /\ \A p \in Page : Closed(v[p]) \/ (pc = "compile" /\ p = current_page)

InBytecode(p, i) == i - 1 \in 1 .. Len(v[p])

\* The entries lead into the bytecode; pages malloc has not handed out have none.
EntriesInv ==
  /\ RecycledPageIsBlank
  /\ \A p \in Page : \A o \in Offset :
       /\ p > allocated => entries[p][o].ind = NULL_ENTRY
       /\ entries[p][o].ind > PAD_ENTRY => InBytecode(p, entries[p][o].ind)

\* current_pos and pos are in the bytecode of their pages; BC_HALT is met either
\* again or right after EIP has gone past it.
PlaceInv ==
  /\ pc \in {"idle", "lock", "run", "stop"} /\ current_page # NoPage
       => InBytecode(current_page, current_pos)
  /\ pc = "run" => /\ InBytecode(lock_page, pos)
                   /\ current_page \in {lock_page, NoPage}
                   /\ Word.op = "halt" =>
                        doomed = {} /\ (Halting \/ eip >= Len(Word.bytes))
  /\ pc = "compile" => /\ current_pos - 1 \in 1 .. Len(v[current_page]) + 1
                       /\ dis = <<>> => InBytecode(current_page, current_pos)

\* The instructions of the block under way are in the range get_new_page clears.
InRange(p, o) == first_entry[p] # NoEntry /\ o \in first_entry[p] .. last_entry[p]
DisInv ==
  pc \in {"dis", "compile"} =>
    /\ dis \in Seq(DisRecords)
    /\ \A i \in 1 .. Len(dis) : InRange(current_page, OffsetOf(dis[i].addr))
    /\ pc = "dis" /\ dis = <<>> => InRange(current_page, OffsetOf(eip))

DataTypeOK ==
  /\ mem \in [Addr -> Byte] /\ eip \in Nat /\ is32 \in BOOLEAN
  /\ entries \in [Page -> [Offset -> [ind : Nat, is32 : BOOLEAN]]]
  /\ first_entry \in [Page -> Offset \cup {NoEntry}]
  /\ last_entry \in [Page -> Offset]
  /\ overlap_next_page \in [Page -> 0 .. (MaxLen - 1)]
  /\ {current_pos, pos} \subseteq Nat

BytecodeInv == DataTypeOK /\ CodeInv /\ EntriesInv /\ PlaceInv /\ DisInv
CacheInv == ListInv /\ BytecodeInv

LEMMA Sizes ==
  PageSize \in Nat /\ PageSize > 0 /\ MaxLen \in Nat /\ MaxLen > 0
  BY PagesAssumption, ConstantsAssumption

LEMMA Offsets ==
  ASSUME NEW a \in Nat
  PROVE  /\ OffsetOf(a) \in Offset
         /\ \A n \in Nat : OffsetOf(a) + n < PageSize => OffsetOf(a + n) = OffsetOf(a) + n
<1>1. OffsetOf(a) \in Offset
  BY Sizes DEF OffsetOf, Offset
<1>2. ASSUME NEW n \in Nat, OffsetOf(a) + n < PageSize
      PROVE  OffsetOf(a + n) = OffsetOf(a) + n
  <2>1. a = (a \div PageSize) * PageSize + (a % PageSize) /\ a \div PageSize \in Nat
    BY Sizes
  <2> DEFINE q == a \div PageSize
             r == (a % PageSize) + n
  <2>2. a + n = q * PageSize + r /\ r \in 0 .. PageSize - 1 /\ q \in Nat
    BY <1>2, <2>1, Sizes DEF OffsetOf
  <2>3. ASSUME NEW Q \in Nat, NEW R \in 0 .. PageSize - 1
        PROVE  (Q * PageSize + R) % PageSize = R
    BY Sizes
  <2>4. QED
    BY <2>2, <2>3 DEF OffsetOf
<1>3. QED
  BY <1>1, <1>2

\* Sequences that end and sequences put together.
LEMMA WordsTyped ==
  /\ \A w \in Instructions : /\ w.op \in Kinds /\ w.bytes \in Seq(Byte)
                             /\ w.op # "inc" /\ w.op # "goto"
  /\ \A w \in Increments : w.op = "inc" /\ w.len \in Nat /\ w.stop \in BOOLEAN
  /\ \A w \in [op : {"goto"}] : w.op = "goto"
  /\ \A w \in Words : w.op = "inc" => w \in Increments
  /\ \A w \in Words : w.op \in Kinds => w \in Instructions
<1>1. \A w \in Instructions : w.op \in Kinds /\ w.bytes \in Seq(Byte) /\ w.op # "inc" /\ w.op # "goto"
  BY DEF Instructions, Kinds
<1>2. \A w \in Increments : w.op = "inc" /\ w.len \in Nat /\ w.stop \in BOOLEAN
  BY DEF Increments
<1>3. \A w \in [op : {"goto"}] : w.op = "goto"
  OBVIOUS
<1>4. "inc" \notin Kinds /\ "goto" \notin Kinds
  BY DEF Kinds
<1>5. QED
  BY <1>1, <1>2, <1>3, <1>4 DEF Words

LEMMA Pairs ==
  ASSUME NEW S, NEW a \in S, NEW b \in S
  PROVE  <<a, b>> \in Seq(S) /\ Len(<<a, b>>) = 2 /\ <<a, b>>[1] = a /\ <<a, b>>[2] = b
  OBVIOUS

\* What compile makes of an instruction.
LEMMA CompileMakes ==
  ASSUME NEW d \in DisRecords
  PROVE  /\ compile(d) \in Seq(Words) /\ Len(compile(d)) \in {1, 2}
         /\ HaltsAfterInc(compile(d))
<1>1. d.bytes \in Seq(Byte) /\ d.bytes # <<>> /\ Len(d.bytes) \in Nat \ {0}
  BY EmptySeq DEF DisRecords
<1>2. d.bytes[1] \in Byte
  BY <1>1
<1>3. OpOf(d) \in Kinds
  BY <1>2, ConstantsAssumption DEF OpOf
<1>4. /\ Inst(d.bytes) \in Instructions /\ Inst(d.bytes) \in Words
      /\ Inst(d.bytes).op = OpOf(d) /\ Inst(d.bytes).bytes = d.bytes
  BY <1>1, <1>3 DEF Inst, Instructions, Words, OpOf
<1> DEFINE w == Inst(d.bytes)
           x == Inc(Len(d.bytes), FALSE)
           y == Inc(Len(d.bytes), TRUE)
<1>5. /\ x \in Words /\ x.op = "inc" /\ ~x.stop /\ x.len = Len(d.bytes)
      /\ y \in Words /\ y.op = "inc"
  BY <1>1 DEF Inc, Increments, Words
<1>6. CASE OpOf(d) = "halt"
  <2>1. compile(d) = <<x, w>>
    BY <1>6 DEF compile
  <2> HIDE DEF w, x, y
  <2>2. compile(d) \in Seq(Words) /\ Len(compile(d)) = 2
        /\ compile(d)[1] = x /\ compile(d)[2] = w
    BY <1>4, <1>5, <2>1, Pairs DEF w
  <2>3. HaltsAfterInc(compile(d))
    BY <1>4, <1>5, <2>2 DEF HaltsAfterInc, w
  <2>4. QED
    BY <2>2, <2>3
<1>7. CASE OpOf(d) \in {"jump", "far"}
  <2>1. compile(d) = <<Inst(d.bytes)>>
    BY <1>7 DEF compile
  <2>2. QED
    BY <1>4, <1>7, <2>1 DEF HaltsAfterInc
<1>8. CASE OpOf(d) \notin {"halt", "jump", "far"}
  <2>1. compile(d) = <<w, y>>
    BY <1>8 DEF compile
  <2> HIDE DEF w, x, y
  <2>2. compile(d) \in Seq(Words) /\ Len(compile(d)) = 2
        /\ compile(d)[1] = w /\ compile(d)[2] = y
    BY <1>4, <1>5, <2>1, Pairs DEF w
  <2>3. w.op # "halt" /\ y.op # "halt"
    BY <1>4, <1>5, <1>8 DEF w
  <2>4. HaltsAfterInc(compile(d))
    BY <2>2, <2>3 DEF HaltsAfterInc
  <2>5. QED
    BY <2>2, <2>4
<1>9. QED
  BY <1>6, <1>7, <1>8

\* Bytecode put after bytecode.
LEMMA HaltsAppend ==
  ASSUME NEW s \in Seq(Words), NEW t \in Seq(Words), HaltsAfterInc(s), HaltsAfterInc(t)
  PROVE  HaltsAfterInc(s \o t)
<1>1. /\ Len(s) \in Nat /\ Len(t) \in Nat
      /\ Len(s \o t) = Len(s) + Len(t)
      /\ \A i \in 1 .. Len(s) + Len(t) :
           (s \o t)[i] = IF i <= Len(s) THEN s[i] ELSE t[i - Len(s)]
  BY ConcatProperties
<1>2. SUFFICES ASSUME NEW i \in 1 .. Len(s) + Len(t), (s \o t)[i].op = "halt"
               PROVE  /\ i > 1 /\ (s \o t)[i - 1].op = "inc"
                      /\ (s \o t)[i - 1].len = Len((s \o t)[i].bytes)
                      /\ ~(s \o t)[i - 1].stop
  BY <1>1 DEF HaltsAfterInc
<1>3. CASE i <= Len(s)
  <2>1. (s \o t)[i] = s[i] /\ s[i].op = "halt" /\ i \in 1 .. Len(s)
    BY <1>1, <1>2, <1>3
  <2>2. i > 1 /\ i - 1 \in 1 .. Len(s) /\ i - 1 \in 1 .. Len(s) + Len(t) /\ i - 1 <= Len(s)
    BY <1>1, <2>1 DEF HaltsAfterInc
  <2>3. (s \o t)[i - 1] = s[i - 1]
    BY <1>1, <2>2
  <2>4. QED
    BY <2>1, <2>2, <2>3 DEF HaltsAfterInc
<1>4. CASE i > Len(s)
  <2> DEFINE j == i - Len(s)
  <2>1. (s \o t)[i] = t[j] /\ t[j].op = "halt" /\ j \in 1 .. Len(t)
    BY <1>1, <1>2, <1>4
  <2>2. j > 1
    BY <2>1 DEF HaltsAfterInc
  <2>3. i - 1 > Len(s) /\ i - 1 \in 1 .. Len(s) + Len(t) /\ (i - 1) - Len(s) = j - 1 /\ i > 1
    BY <1>1, <1>4, <2>2
  <2>4. (s \o t)[i - 1] = t[j - 1]
    BY <1>1, <2>3
  <2>5. QED
    BY <2>1, <2>2, <2>3, <2>4 DEF HaltsAfterInc
<1>5. QED
  BY <1>1, <1>3, <1>4

\* A final BC_GOTO_EIP closes the bytecode.
LEMMA GotoCloses ==
  ASSUME NEW s \in Seq(Words), HaltsAfterInc(s)
  PROVE  /\ WithGoto(s) \in Seq(Words) /\ Len(WithGoto(s)) = Len(s) + 1
         /\ HaltsAfterInc(WithGoto(s)) /\ Closed(WithGoto(s))
<1> DEFINE t == [i \in DOMAIN s |-> IF i = Len(s) /\ s[i].op = "inc"
                                    THEN [s[i] EXCEPT !.stop = FALSE] ELSE s[i]]
<1>1. Len(s) \in Nat /\ DOMAIN s = 1 .. Len(s) /\ \A i \in 1 .. Len(s) : s[i] \in Words
  BY LenProperties
<1>2. \A w \in Increments : [w EXCEPT !.stop = FALSE] \in Increments
  BY DEF Increments
<1>3. \A i \in 1 .. Len(s) : t[i] \in Words
  BY <1>1, <1>2, WordsTyped DEF Words
<1>4. t \in Seq(Words) /\ Len(t) = Len(s)
  <2>1. t \in [1 .. Len(s) -> Words]
    BY <1>1, <1>3
  <2>2. t \in Seq(Words)
    BY <1>1, <2>1, SeqDef
  <2>3. Len(t) = Len(s)
    BY <1>1, <2>1, <2>2, LenProperties
  <2>4. QED
    BY <2>2, <2>3
<1>5. \A i \in 1 .. Len(s) : /\ t[i].op = s[i].op
                             /\ s[i].op # "inc" => t[i] = s[i]
                             /\ s[i].op = "inc" => t[i].len = s[i].len /\ (~s[i].stop => ~t[i].stop)
  <2>1. TAKE i \in 1 .. Len(s)
  <2>2. CASE i = Len(s) /\ s[i].op = "inc"
    <3>1. s[i] \in Increments /\ t[i] = [s[i] EXCEPT !.stop = FALSE]
      BY <1>1, <2>2, WordsTyped
    <3>2. QED
      BY <2>2, <3>1 DEF Increments
  <2>3. CASE ~(i = Len(s) /\ s[i].op = "inc")
    <3>1. t[i] = s[i]
      BY <1>1, <2>3
    <3>2. QED
      BY <3>1
  <2>4. QED
    BY <2>2, <2>3
<1>6. HaltsAfterInc(t)
  <2> HIDE DEF t
  <2>1. SUFFICES ASSUME NEW i \in 1 .. Len(s), t[i].op = "halt"
                 PROVE  i > 1 /\ t[i - 1].op = "inc" /\ t[i - 1].len = Len(t[i].bytes)
                        /\ ~t[i - 1].stop
    BY <1>4 DEF HaltsAfterInc
  <2>2. s[i].op = "halt" /\ t[i] = s[i]
    BY <1>5, <2>1
  <2>3. /\ i > 1 /\ s[i - 1].op = "inc" /\ s[i - 1].len = Len(s[i].bytes) /\ ~s[i - 1].stop
        /\ i - 1 \in 1 .. Len(s)
    BY <1>1, <2>2 DEF HaltsAfterInc
  <2>4. QED
    BY <1>5, <2>2, <2>3
<1>7. GotoWord \in Words /\ GotoWord.op = "goto"
  BY DEF GotoWord, Words
<1>8. WithGoto(s) = Append(t, GotoWord)
  BY DEF WithGoto
<1>9. /\ WithGoto(s) \in Seq(Words) /\ Len(WithGoto(s)) = Len(s) + 1
      /\ WithGoto(s)[Len(s) + 1] = GotoWord
      /\ WithGoto(s) = t \o <<GotoWord>>
  <2> HIDE DEF t
  <2>1. /\ Append(t, GotoWord) \in Seq(Words) /\ Len(Append(t, GotoWord)) = Len(t) + 1
        /\ Append(t, GotoWord)[Len(t) + 1] = GotoWord
    BY <1>4, <1>7, AppendProperties
  <2>2. Append(t, GotoWord) = t \o <<GotoWord>>
    BY <1>4, <1>7, AppendIsConcat
  <2>3. QED
    BY <1>4, <1>8, <2>1, <2>2
<1>10. <<GotoWord>> \in Seq(Words) /\ HaltsAfterInc(<<GotoWord>>)
  BY <1>7 DEF HaltsAfterInc
<1>11. HaltsAfterInc(WithGoto(s))
  BY <1>4, <1>6, <1>9, <1>10, HaltsAppend
<1>12. Closed(WithGoto(s))
  BY <1>7, <1>9 DEF Closed, GoesOn
<1>13. QED
  BY <1>9, <1>11, <1>12

-----------------------------------------------------------------------------
LEMMA BytecodeInit == Init => BytecodeInv
<1> SUFFICES ASSUME Init PROVE BytecodeInv OBVIOUS
<1>1. \A p \in Page : v[p] = <<>> BY DEF Init
<1>2. <<>> \in Seq(Words) /\ HaltsAfterInc(<<>>) /\ Closed(<<>>)
  BY DEF HaltsAfterInc, Closed
<1>3. CodeInv
  <2>1. v \in [Page -> Seq(Words)] BY <1>2 DEF Init
  <2> QED BY <1>1, <1>2, <2>1 DEF CodeInv
<1>4. Blank \in [ind : Nat, is32 : BOOLEAN] /\ Blank.ind = NULL_ENTRY
  BY DEF Blank, NULL_ENTRY
<1>5. EntriesInv
  BY <1>4 DEF Init, EntriesInv, RecycledPageIsBlank, NULL_ENTRY, PAD_ENTRY
<1>6. 0 \in Offset /\ 0 \in 0 .. MaxLen - 1
  BY Sizes DEF Offset
<1>7. DataTypeOK
  <2>1. mem \in [Addr -> Byte] /\ eip \in Nat
    BY ConstantsAssumption DEF Init, Addr
  <2>2. entries \in [Page -> [Offset -> [ind : Nat, is32 : BOOLEAN]]]
    BY <1>4 DEF Init
  <2>3. /\ first_entry \in [Page -> Offset \cup {NoEntry}]
        /\ last_entry \in [Page -> Offset]
        /\ overlap_next_page \in [Page -> 0 .. (MaxLen - 1)]
    BY <1>6 DEF Init
  <2> QED BY <2>1, <2>2, <2>3 DEF Init, DataTypeOK
<1>8. PlaceInv /\ DisInv BY DEF Init, PlaceInv, DisInv
<1> QED BY <1>3, <1>5, <1>7, <1>8 DEF BytecodeInv

\* What the host writes are bytes.
LEMMA MemoryTyped ==
  ASSUME DataTypeOK, HostStores(Stores) \/ HostStores(Push) \/ HostRemaps \/ UNCHANGED mem
  PROVE  mem' \in [Addr -> Byte]
<1>1. mem \in [Addr -> Byte] BY DEF DataTypeOK
<1>2. ASSUME NEW w \in Addr \X Byte PROVE Written(mem, w) \in [Addr -> Byte]
  BY <1>1 DEF Written
<1>3. ASSUME NEW r \in Addr \X Addr \X Byte PROVE Filled(mem, r) \in [Addr -> Byte]
  BY <1>1 DEF Filled
<1>4. HostStores(Stores) \/ HostStores(Push) => mem' \in [Addr -> Byte]
  BY <1>2, ConstantsAssumption DEF HostStores
<1>5. HostRemaps => mem' \in [Addr -> Byte]
  BY <1>3, ConstantsAssumption DEF HostRemaps
<1> QED BY <1>1, <1>4, <1>5

\* The steps that leave the pages' contents alone.
LEMMA ContentsStay ==
  ASSUME CacheInv, UNCHANGED <<pageVars, allocated>>, pc # "compile",
         mem' \in [Addr -> Byte], eip' \in Nat, is32' \in BOOLEAN,
         current_pos' \in Nat, pos' \in Nat
  PROVE  DataTypeOK' /\ CodeInv' /\ EntriesInv'
<1> USE DEF CacheInv, BytecodeInv, pageVars
<1>1. DataTypeOK' BY DEF DataTypeOK
<1>2. CodeInv' BY DEF CodeInv
<1>3. EntriesInv' BY DEF EntriesInv, RecycledPageIsBlank, InBytecode
<1> QED BY <1>1, <1>2, <1>3

\* remove_page leaves the place where it is, or none.
LEMMA RemovePlace ==
  ASSUME ListTypeOK, NEW s, NEW pg, NEW at \in Nat, RemovePage(s, pg, at)
  PROVE  /\ current_page' \in {pg, NoPage} /\ current_pos' \in Nat
         /\ current_page' # NoPage => current_pos' = at
         /\ UNCHANGED <<allocated, lock_page>>
  BY DEF RemovePage

LEMMA HostCallBytecode ==
  ASSUME CacheInv, HostCall
  PROVE  BytecodeInv'
<1> USE DEF At
<1>0. /\ DataTypeOK /\ PlaceInv
      /\ mem \in [Addr -> Byte] /\ eip \in Nat /\ is32 \in BOOLEAN
      /\ current_pos \in Nat /\ pos \in Nat
  BY ConstantsAssumption DEF CacheInv, BytecodeInv, DataTypeOK
<1>1. /\ UNCHANGED <<pageVars, allocated, lock_page, pos>> /\ pc = "idle"
      /\ pc' \in {"idle", "lock", "goto"}
      /\ \/ UNCHANGED <<current_page, current_pos>>
         \/ current_page' = NoPage /\ current_pos' = 0
  BY DEF HostCall, ExecNextInst, Interrupt, HostWrite, ClearAreas, Reset, listVars,
         runVars, localVars
<1>2. mem' \in [Addr -> Byte] /\ eip' \in Nat /\ is32' \in BOOLEAN
  <2>1. HostStores(Stores) \/ HostStores(Push) \/ HostRemaps \/ UNCHANGED mem
    BY DEF HostCall, ExecNextInst, Interrupt, HostWrite, ClearAreas, Reset, guestVars
  <2>2. UNCHANGED <<eip, is32>> \/ (eip' = Handler /\ is32' = HandlerIs32)
    BY DEF HostCall, ExecNextInst, Interrupt, HostWrite, ClearAreas, Reset, guestVars
  <2>3. Handler \in Nat /\ HandlerIs32 \in BOOLEAN
    BY ConstantsAssumption DEF Addr
  <2> QED BY <1>0, <2>1, <2>2, <2>3, MemoryTyped
<1>3. DataTypeOK' /\ CodeInv' /\ EntriesInv'
  BY <1>0, <1>1, <1>2, ContentsStay
<1>4. PlaceInv' /\ DisInv'
  BY <1>0, <1>1 DEF PlaceInv, DisInv, InBytecode, pageVars
<1> QED BY <1>3, <1>4 DEF BytecodeInv

LEMMA RemoveDoomedBytecode ==
  ASSUME CacheInv, RemoveDoomed
  PROVE  BytecodeInv'
<1>0. /\ DataTypeOK /\ PlaceInv /\ ListTypeOK /\ PhaseOK
      /\ current_pos \in Nat /\ pos \in Nat
      /\ mem \in [Addr -> Byte] /\ eip \in Nat /\ is32 \in BOOLEAN
  BY DEF CacheInv, BytecodeInv, DataTypeOK, ListInv, ListsConsistent
<1>1. PICK s \in doomed : RemovePage(s, current_page, current_pos)
  BY DEF RemoveDoomed
<1>2. UNCHANGED <<mem, eip, is32, pageVars, pc, after, pos, dis>> /\ doomed # {}
  BY DEF RemoveDoomed, guestVars
<1>3. /\ current_page' \in {current_page, NoPage} /\ current_pos' \in Nat
      /\ current_page' # NoPage => current_pos' = current_pos
      /\ UNCHANGED <<allocated, lock_page>>
  BY <1>0, <1>1, RemovePlace
<1>4. pc \notin {"dis", "compile"} BY <1>0, <1>2 DEF PhaseOK
<1>5. DataTypeOK' /\ CodeInv' /\ EntriesInv'
  BY <1>0, <1>2, <1>3, <1>4, ContentsStay
<1>6. DisInv' BY <1>2, <1>4 DEF DisInv
<1>7. PlaceInv'
  <2>1. pc = "run" => Word.op # "halt" /\ Word' = Word
    BY <1>0, <1>2, <1>3 DEF PlaceInv, Word, WordAt, pageVars
  <2> QED
    BY <1>0, <1>2, <1>3, <1>4, <2>1 DEF PlaceInv, InBytecode, pageVars
<1> QED BY <1>5, <1>6, <1>7 DEF BytecodeInv

\* get_new_page gives a page with no entry and no bytecode.
LEMMA NewPageBytecode ==
  ASSUME CacheInv, NewPage
  PROVE  BytecodeInv'
<1> DEFINE p == IF Reuse THEN free_pages ELSE allocated + 1
<1>0. DataTypeOK /\ CodeInv /\ EntriesInv /\ ListTypeOK
  BY DEF CacheInv, BytecodeInv, ListInv
<1>1. /\ p \in Page /\ pc = "goto" /\ pc' = "goto" /\ v' = [v EXCEPT ![p] = <<>>]
      /\ first_entry' = [first_entry EXCEPT ![p] = NoEntry]
      /\ last_entry' = [last_entry EXCEPT ![p] = 0]
      /\ overlap_next_page' = [overlap_next_page EXCEPT ![p] = 0]
      /\ UNCHANGED <<mem, eip, is32, current_pos, pos, dis>>
  BY DEF NewPage, InSlot, At, GetNewPage, guestVars, localVars
<1>2. /\ entries' \in [Page -> [Offset -> [ind : Nat, is32 : BOOLEAN]]]
      /\ \A q \in Page \ {p} : entries'[q] = entries[q]
      /\ \A o \in Offset : entries'[p][o].ind = NULL_ENTRY
  <2>1. Blank \in [ind : Nat, is32 : BOOLEAN] /\ Blank.ind = NULL_ENTRY
    BY DEF Blank, NULL_ENTRY
  <2>2. entries \in [Page -> [Offset -> [ind : Nat, is32 : BOOLEAN]]]
    BY <1>0 DEF DataTypeOK
  <2>3. CASE Reuse
    <3> DEFINE clean == [o \in Offset |->
                           IF first_entry[p] # NoEntry /\ o \in first_entry[p] .. last_entry[p]
                           THEN Blank ELSE entries[p][o]]
    <3>1. entries' = [entries EXCEPT ![p] = clean]
      BY <2>3 DEF NewPage, GetNewPage
    <3>2. \A o \in Offset : clean[o] \in [ind : Nat, is32 : BOOLEAN] /\ clean[o].ind = NULL_ENTRY
      BY <1>0, <1>1, <2>1, <2>2 DEF EntriesInv, RecycledPageIsBlank
    <3>3. clean \in [Offset -> [ind : Nat, is32 : BOOLEAN]]
      BY <3>2
    <3> HIDE DEF clean, p
    <3> QED BY <1>1, <2>2, <3>1, <3>2, <3>3
  <2>4. CASE ~Reuse
    <3>1. entries' = entries /\ p = allocated + 1
      BY <2>4 DEF NewPage, GetNewPage
    <3>2. allocated \in Nat BY <1>0 DEF ListTypeOK
    <3>3. \A o \in Offset : entries[p][o].ind = NULL_ENTRY
      BY <1>0, <1>1, <3>1, <3>2 DEF EntriesInv
    <3> QED BY <2>2, <3>1, <3>3
  <2> QED BY <2>3, <2>4
<1>3. allocated' \in Nat /\ allocated' >= allocated /\ allocated \in Nat /\ p <= allocated'
  <2>1. allocated \in Nat BY <1>0 DEF ListTypeOK
  <2>2. CASE Reuse
    <3>1. free_pages \in Free \cup {NoPage} /\ free_pages # NoPage
      BY <2>2 DEF Reuse, CacheInv, ListInv, ListsConsistent, FreeListOK
    <3>2. p \in 1 .. allocated /\ allocated' = allocated
      BY <2>2, <3>1 DEF Free, NewPage, GetNewPage
    <3> QED BY <2>1, <3>2
  <2>3. CASE ~Reuse
    <3>1. p = allocated + 1 /\ allocated' = p
      BY <2>3 DEF NewPage, GetNewPage
    <3> QED BY <2>1, <3>1
  <2> QED BY <2>2, <2>3
<1> HIDE DEF p
<1>4. CodeInv'
  <2>1. <<>> \in Seq(Words) /\ HaltsAfterInc(<<>>) /\ Closed(<<>>)
    BY DEF HaltsAfterInc, Closed
  <2> QED BY <1>0, <1>1, <2>1 DEF CodeInv
<1>5. EntriesInv'
  <2>1. ASSUME NEW q \in Page \ {p}, NEW o \in Offset
        PROVE  /\ entries'[q][o] = entries[q][o] /\ v'[q] = v[q]
               /\ first_entry'[q] = first_entry[q] /\ last_entry'[q] = last_entry[q]
    BY <1>0, <1>1, <1>2 DEF DataTypeOK, CodeInv
  <2>2. \A q \in Page : q \in Nat BY DEF Page
  <2>3. RecycledPageIsBlank'
    BY <1>0, <1>2, <2>1 DEF EntriesInv, RecycledPageIsBlank
  <2>4. \A q \in Page : \A o \in Offset : q > allocated' => entries'[q][o].ind = NULL_ENTRY
    BY <1>0, <1>2, <1>3, <2>1, <2>2 DEF EntriesInv
  <2>5. ASSUME NEW q \in Page, NEW o \in Offset, entries'[q][o].ind > PAD_ENTRY
        PROVE  InBytecode(q, entries[q][o].ind)' 
    <3>1. q # p BY <1>2, <2>5 DEF NULL_ENTRY, PAD_ENTRY
    <3> QED BY <1>0, <2>1, <2>5, <3>1 DEF EntriesInv, InBytecode
  <2> QED BY <2>3, <2>4, <2>5 DEF EntriesInv
<1>6. DataTypeOK'
  <2>1. 0 \in Offset /\ 0 \in 0 .. MaxLen - 1 BY Sizes DEF Offset
  <2> QED BY <1>0, <1>1, <1>2, <2>1 DEF DataTypeOK
<1>7. PlaceInv' /\ DisInv'
  BY <1>1 DEF PlaceInv, DisInv
<1> QED BY <1>4, <1>5, <1>6, <1>7 DEF BytecodeInv

LEMMA GotoEipBytecode ==
  ASSUME CacheInv, GotoEip
  PROVE  BytecodeInv'
<1> USE DEF At, InSlot
<1>0. /\ DataTypeOK /\ CodeInv /\ EntriesInv /\ ListTypeOK
      /\ current_pos \in Nat /\ pos \in Nat
      /\ mem \in [Addr -> Byte] /\ eip \in Nat /\ is32 \in BOOLEAN
      /\ after \in {"idle", "lock", "stop"}
  BY DEF CacheInv, BytecodeInv, DataTypeOK, ListInv, ListTypeOK
<1>1. OffsetOf(eip) \in Offset BY <1>0, Offsets
<1>2. \A s \in Slot : map[s] # NoPage => map[s] \in Page
  BY <1>0 DEF ListTypeOK, PageOrNone
<1>3. CASE OutOfRange
  <2>1. /\ UNCHANGED <<mem, eip, is32, pageVars, allocated, current_pos, pos>>
        /\ pc = "goto" /\ pc' = "exit"
    BY <1>3 DEF OutOfRange, guestVars, listVars, runVars
  <2>2. DataTypeOK' /\ CodeInv' /\ EntriesInv' BY <1>0, <2>1, ContentsStay
  <2>3. PlaceInv' /\ DisInv' BY <2>1 DEF PlaceInv, DisInv
  <2> QED BY <2>2, <2>3 DEF BytecodeInv
<1>4. CASE NewPage
  BY <1>4, NewPageBytecode
<1>5. CASE Hit
  <2>1. /\ UNCHANGED <<mem, eip, is32, pageVars, allocated, pos, dis>>
        /\ pc = "goto" /\ pc' = after /\ current_page' = map[Eslot]
        /\ current_pos' = Entry.ind /\ Entry.ind > PAD_ENTRY /\ map[Eslot] \in Page
    BY <1>2, <1>5 DEF Hit, guestVars, listVars, Usable
  <2>2. InBytecode(map[Eslot], Entry.ind)
    BY <1>0, <1>1, <2>1 DEF EntriesInv, Entry
  <2>3. Entry.ind \in Nat
    BY <1>0, <1>1, <2>1 DEF Entry, DataTypeOK
  <2>4. DataTypeOK' /\ CodeInv' /\ EntriesInv' BY <1>0, <2>1, <2>3, ContentsStay
  <2>5. InBytecode(current_page, current_pos)'
    BY <2>1, <2>2 DEF InBytecode, pageVars
  <2>6. PlaceInv' /\ DisInv' BY <1>0, <2>1, <2>5 DEF PlaceInv, DisInv
  <2> QED BY <2>4, <2>6 DEF BytecodeInv
<1>6. CASE Stale
  <2>1. UNCHANGED <<mem, eip, is32, pageVars, pos, dis>> /\ pc = "goto" /\ pc' = "goto"
    BY <1>6 DEF Stale, guestVars, localVars
  <2>2. Entry.ind \in Nat
    BY <1>0, <1>1, <1>2, <1>6 DEF Stale, Entry, DataTypeOK
  <2>3. current_pos' \in Nat /\ UNCHANGED allocated
    BY <1>0, <1>6, <2>2, RemovePlace DEF Stale
  <2>4. DataTypeOK' /\ CodeInv' /\ EntriesInv' BY <1>0, <2>1, <2>3, ContentsStay
  <2>5. PlaceInv' /\ DisInv' BY <2>1 DEF PlaceInv, DisInv
  <2> QED BY <2>4, <2>5 DEF BytecodeInv
<1>7. CASE Decode
  <2> DEFINE p == map[Eslot]
             o == OffsetOf(eip)
             first == IF first_entry[p] = NoEntry \/ o < first_entry[p] THEN o ELSE first_entry[p]
             last == IF o > last_entry[p] THEN o ELSE last_entry[p]
  <2>1. /\ UNCHANGED <<mem, eip, is32, entries, overlap_next_page, v, allocated, pos>>
        /\ pc = "goto" /\ pc' = "dis" /\ dis' = <<>> /\ current_page' = p
        /\ current_pos' = NULL_ENTRY /\ p \in Page
        /\ first_entry' = [first_entry EXCEPT ![p] = first]
        /\ last_entry' = [last_entry EXCEPT ![p] = last]
    BY <1>2, <1>7 DEF Decode, guestVars, listVars
  <2>2. /\ first_entry[p] \in Offset \cup {NoEntry} /\ last_entry[p] \in Offset
        /\ first_entry \in [Page -> Offset \cup {NoEntry}]
        /\ last_entry \in [Page -> Offset]
    BY <1>0, <2>1 DEF DataTypeOK
  <2>3. /\ first \in Offset /\ last \in Offset /\ first # NoEntry
        /\ o \in first .. last
        /\ \A x \in Offset : first_entry[p] # NoEntry /\ x \in first_entry[p] .. last_entry[p]
             => x \in first .. last
    BY <1>1, <2>2 DEF Offset, NoEntry
  <2> HIDE DEF first, last, o, p
  <2>4. /\ first_entry'[p] = first /\ last_entry'[p] = last
        /\ \A q \in Page \ {p} : first_entry'[q] = first_entry[q] /\ last_entry'[q] = last_entry[q]
    BY <2>1, <2>2
  <2>5. DataTypeOK'
    BY <1>0, <2>1, <2>2, <2>3 DEF DataTypeOK, NULL_ENTRY
  <2>6. CodeInv' BY <1>0, <2>1 DEF CodeInv
  <2>7. EntriesInv'
    BY <1>0, <2>1, <2>3, <2>4 DEF EntriesInv, RecycledPageIsBlank, InBytecode
  <2>8. PlaceInv' BY <2>1 DEF PlaceInv
  <2>9. DisInv'
    <3>1. InRange(current_page, OffsetOf(eip))'
      BY <2>1, <2>3, <2>4 DEF InRange, o
    <3>2. <<>> \in Seq(DisRecords) /\ Len(<<>>) = 0 OBVIOUS
    <3> QED BY <2>1, <3>1, <3>2 DEF DisInv
  <2> QED BY <2>5, <2>6, <2>7, <2>8, <2>9 DEF BytecodeInv
<1> QED BY <1>3, <1>4, <1>5, <1>6, <1>7 DEF GotoEip

\* dis_insts works within the page of EIP, from an offset get_new_page will clear.
LEMMA DisPlace ==
  ASSUME CacheInv, pc = "dis", ~BlockEnds, Decodable
  PROVE  /\ DisAddr \in Nat /\ DisLen \in 1 .. MaxLen
         /\ OffsetOf(DisAddr) \in Offset
         /\ first_entry[current_page] \in Offset
         /\ first_entry[current_page] <= OffsetOf(DisAddr)
         /\ \A i \in 1 .. DisLen : mem[DisAddr + i - 1] \in Byte
<1>0. DataTypeOK /\ DisInv /\ current_page \in Page
  BY DEF CacheInv, BytecodeInv, ListInv, ListsConsistent, ListTypeOK, PhaseOK, PageOrNone
<1>1. DisAddr \in Addr BY ConstantsAssumption DEF Decodable
<1>2. mem[DisAddr] \in Byte /\ is32 \in BOOLEAN BY <1>0, <1>1 DEF DataTypeOK
<1>3. DisLen \in 1 .. MaxLen
  <2>1. <<mem[DisAddr], is32>> \in Byte \X BOOLEAN BY <1>2
  <2> QED BY <2>1, ConstantsAssumption DEF DisLen
<1>4. DisAddr \in Nat BY <1>1 DEF Addr
<1>5. \A i \in 1 .. DisLen : mem[DisAddr + i - 1] \in Byte
  <2>1. TAKE i \in 1 .. DisLen
  <2>2. DisAddr + i - 1 \in DisAddr .. DisAddr + DisLen - 1
    BY <1>3, <1>4, Sizes
  <2>3. DisAddr + i - 1 \in Addr
    BY <2>2, ConstantsAssumption DEF Decodable
  <2> QED BY <1>0, <2>3 DEF DataTypeOK
<1>6. /\ first_entry[current_page] \in Offset \cup {NoEntry}
      /\ last_entry[current_page] \in Offset
  BY <1>0 DEF DataTypeOK
<1>7. first_entry[current_page] # NoEntry /\ first_entry[current_page] <= OffsetOf(DisAddr)
  <2>1. CASE dis = <<>>
    <3>1. DisAddr = eip BY <2>1 DEF DisAddr
    <3> QED BY <1>0, <1>6, <2>1, <3>1 DEF DisInv, InRange, Offset, NoEntry
  <2>2. CASE dis # <<>>
    <3>1. dis \in Seq(DisRecords) /\ Len(dis) \in 1 .. Len(dis)
      BY <1>0, <2>2, EmptySeq DEF DisInv
    <3>2. LastDis \in DisRecords /\ InRange(current_page, OffsetOf(LastDis.addr))
      BY <1>0, <3>1 DEF DisInv, LastDis
    <3>3. LastDis.addr \in Nat /\ Len(LastDis.bytes) \in Nat
      BY <3>2 DEF DisRecords
    <3>4. OffsetOf(LastDis.addr) + Len(LastDis.bytes) < PageSize
      <4>1. ~(OffsetOf(LastDis.addr) + Len(LastDis.bytes) >= PageSize)
        BY <2>2 DEF BlockEnds
      <4>2. OffsetOf(LastDis.addr) \in Nat BY <3>3, Offsets DEF Offset
      <4> QED BY <3>3, <4>1, <4>2, Sizes
    <3>5. DisAddr = LastDis.addr + Len(LastDis.bytes)
      BY <2>2 DEF DisAddr, LastDis
    <3>6. OffsetOf(DisAddr) = OffsetOf(LastDis.addr) + Len(LastDis.bytes)
      BY <3>3, <3>4, <3>5, Offsets
    <3> QED BY <1>6, <3>2, <3>3, <3>6 DEF InRange, Offset, NoEntry
  <2> QED BY <2>1, <2>2
<1>8. OffsetOf(DisAddr) \in Offset BY <1>4, Offsets
<1> QED BY <1>3, <1>4, <1>5, <1>6, <1>7, <1>8

\* last_entry and overlap_next_page after an instruction of n bytes at e.
LEMMA LastEntryCovers ==
  ASSUME NEW e \in Offset, NEW n \in 1 .. MaxLen, NEW last \in Offset, NEW over \in 0 .. MaxLen - 1
  PROVE  /\ LastEntry(e, n, last) \in Offset
         /\ last <= LastEntry(e, n, last)
         /\ \A o \in Offset : o < e + n => o <= LastEntry(e, n, last)
         /\ Overlap(e, n, over) \in 0 .. MaxLen - 1
  BY Sizes DEF Offset, LastEntry, Overlap

LEMMA DisInstBytecode ==
  ASSUME CacheInv, DisInst
  PROVE  BytecodeInv'
<1> DEFINE p == current_page
           e == OffsetOf(DisAddr)
           bytes == {o \in e .. (e + DisLen - 1) : o < PageSize}
           used == {o \in bytes : entries[p][o].ind # NULL_ENTRY}
           marked == {o \in bytes : \A u \in used : o < u}
           page == [o \in Offset |-> IF o \in marked THEN [ind |-> PAD_ENTRY, is32 |-> is32]
                                     ELSE entries[p][o]]
<1>0. /\ DataTypeOK /\ CodeInv /\ EntriesInv /\ DisInv /\ ListTypeOK /\ p \in Page
      /\ p <= allocated
      /\ pc = "dis" /\ ~BlockEnds /\ Decodable
  <2>1. pc = "dis" /\ ~BlockEnds /\ Decodable BY DEF DisInst, At
  <2>2. p \in Page /\ p \in 0 .. allocated
    BY <2>1 DEF CacheInv, ListInv, ListsConsistent, ListTypeOK, PhaseOK, MapOK, PageOrNone
  <2> QED BY <2>1, <2>2 DEF CacheInv, BytecodeInv, ListInv, ListTypeOK, Page
<1>1. /\ DisAddr \in Nat /\ DisLen \in 1 .. MaxLen /\ e \in Offset
      /\ first_entry[p] \in Offset /\ first_entry[p] <= e
      /\ \A i \in 1 .. DisLen : mem[DisAddr + i - 1] \in Byte
  BY <1>0, DisPlace
<1>2. /\ entries' = [entries EXCEPT ![p] = page]
      /\ last_entry' = [last_entry EXCEPT ![p] = LastEntry(e, DisLen, last_entry[p])]
      /\ overlap_next_page' = [overlap_next_page EXCEPT ![p] =
                                 Overlap(e, DisLen, overlap_next_page[p])]
      /\ UNCHANGED <<mem, eip, is32, first_entry, v, after, pos, doomed>>
  BY DEF DisInst, guestVars
<1>3. /\ last_entry[p] \in Offset /\ overlap_next_page[p] \in 0 .. MaxLen - 1
      /\ last_entry \in [Page -> Offset]
      /\ overlap_next_page \in [Page -> 0 .. (MaxLen - 1)]
      /\ entries \in [Page -> [Offset -> [ind : Nat, is32 : BOOLEAN]]]
      /\ is32 \in BOOLEAN
  BY <1>0 DEF DataTypeOK
<1> DEFINE last == LastEntry(e, DisLen, last_entry[p])
<1>4. /\ last \in Offset /\ last_entry[p] <= last
      /\ \A o \in Offset : o < e + DisLen => o <= last
      /\ Overlap(e, DisLen, overlap_next_page[p]) \in 0 .. MaxLen - 1
  <2> HIDE DEF e
  <2> QED BY <1>1, <1>3, LastEntryCovers
<1>5. \A o \in marked : first_entry[p] <= o /\ o < e + DisLen
  BY <1>1 DEF Offset
<1>6. page \in [Offset -> [ind : Nat, is32 : BOOLEAN]]
  <2>1. [ind |-> PAD_ENTRY, is32 |-> is32] \in [ind : Nat, is32 : BOOLEAN]
    BY <1>3 DEF PAD_ENTRY
  <2> QED BY <1>0, <1>3, <2>1
<1>7. \A o \in Offset : (page[o].ind = PAD_ENTRY /\ o \in marked) \/ page[o] = entries[p][o]
  OBVIOUS
<1> HIDE DEF page, marked, last
<1>8. \A q \in Page : /\ entries'[q] = IF q = p THEN page ELSE entries[q]
                      /\ last_entry'[q] = IF q = p THEN last ELSE last_entry[q]
  BY <1>0, <1>2, <1>3 DEF last
<1>9. RecycledPageIsBlank'
  <2> SUFFICES ASSUME NEW q \in Page, NEW o \in Offset, entries'[q][o].ind # NULL_ENTRY
               PROVE  first_entry[q] # NoEntry /\ o \in first_entry[q] .. last_entry'[q]
    BY <1>2 DEF RecycledPageIsBlank
  <2>1. CASE q # p
    BY <1>0, <1>8, <2>1 DEF EntriesInv, RecycledPageIsBlank
  <2>2. CASE q = p /\ o \in marked
    BY <1>1, <1>4, <1>5, <1>8, <2>2 DEF Offset, NoEntry
  <2>3. CASE q = p /\ page[o] = entries[p][o]
    <3>1. o \in first_entry[p] .. last_entry[p]
      BY <1>0, <1>8, <2>3 DEF EntriesInv, RecycledPageIsBlank
    <3> QED BY <1>1, <1>3, <1>4, <1>8, <2>3, <3>1 DEF Offset, NoEntry
  <2> QED BY <1>7, <2>1, <2>2, <2>3
<1>10. EntriesInv'
  <2> SUFFICES ASSUME NEW q \in Page, NEW o \in Offset
               PROVE  /\ q > allocated' => entries'[q][o].ind = NULL_ENTRY
                      /\ entries'[q][o].ind > PAD_ENTRY => InBytecode(q, entries[q][o].ind)'
    BY <1>9 DEF EntriesInv
  <2>1. allocated' = allocated
    BY DEF DisInst, listVars, RemovePage
  <2>2. CASE q # p
    BY <1>0, <1>2, <1>8, <2>1, <2>2 DEF EntriesInv, InBytecode
  <2>3. CASE q = p
    <3>1. ~(q > allocated) BY <1>0, <2>3 DEF ListTypeOK, Page
    <3>2. page[o].ind = PAD_ENTRY \/ page[o] = entries[p][o] BY <1>7
    <3> QED BY <1>0, <1>2, <1>8, <2>1, <2>3, <3>1, <3>2 DEF EntriesInv, InBytecode, PAD_ENTRY
  <2> QED BY <2>2, <2>3
<1>11. DataTypeOK'
  <2>1. current_pos' \in Nat
    <3>1. current_pos \in Nat BY <1>0 DEF DataTypeOK
    <3>2. RemovePage(Eslot, current_page, current_pos) => current_pos' \in Nat
      BY <1>0, <3>1, RemovePlace
    <3> QED BY <3>1, <3>2 DEF DisInst, runVars
  <2> QED BY <1>0, <1>2, <1>3, <1>4, <1>6, <2>1 DEF DataTypeOK, last
<1>12. CodeInv' BY <1>0, <1>2 DEF CodeInv
<1>13. CASE used = {}
  <2> DEFINE code == [i \in 1 .. DisLen |-> mem[DisAddr + i - 1]]
             d == [addr |-> DisAddr, bytes |-> code]
  <2>1. dis' = Append(dis, d) /\ current_page' = p /\ pc' = "dis"
    BY <1>0, <1>13 DEF DisInst, runVars
  <2>2. code \in Seq(Byte) /\ code # <<>>
    <3>1. code \in [1 .. DisLen -> Byte] /\ DisLen \in Nat /\ 1 \in DOMAIN code
      BY <1>1
    <3>2. code \in Seq(Byte) BY <3>1, SeqDef
    <3> HIDE DEF code
    <3> QED BY <3>1, <3>2
  <2> HIDE DEF code
  <2>3. d \in DisRecords /\ d.addr = DisAddr BY <1>1, <2>2 DEF DisRecords
  <2> HIDE DEF d
  <2>4. dis \in Seq(DisRecords) /\ Len(dis) \in Nat
        /\ \A i \in 1 .. Len(dis) : InRange(p, OffsetOf(dis[i].addr))
    BY <1>0 DEF DisInv
  <2>5. /\ dis' \in Seq(DisRecords) /\ Len(dis') = Len(dis) + 1
        /\ \A i \in 1 .. Len(dis) : dis'[i] = dis[i]
        /\ dis'[Len(dis) + 1] = d /\ dis' # <<>>
    BY <2>1, <2>3, <2>4, AppendProperties
  <2>6. /\ first_entry'[p] # NoEntry /\ last_entry'[p] = last
        /\ first_entry'[p] = first_entry[p]
    BY <1>0, <1>1, <1>2, <1>8 DEF Offset, NoEntry
  <2>7. \A o \in Offset : o = e \/ InRange(p, o) => o \in first_entry'[p] .. last_entry'[p]
    BY <1>1, <1>3, <1>4, <2>6 DEF InRange, Offset
  <2>8. ASSUME NEW i \in 1 .. Len(dis')
        PROVE  /\ OffsetOf(dis'[i].addr) \in Offset
               /\ OffsetOf(dis'[i].addr) = e \/ InRange(p, OffsetOf(dis'[i].addr))
    <3>1. CASE i \in 1 .. Len(dis)
      <4>1. dis[i] \in DisRecords BY <2>4, <3>1
      <4>2. dis[i].addr \in Nat BY <4>1 DEF DisRecords
      <4> QED BY <2>4, <2>5, <3>1, <4>2, Offsets
    <3>2. CASE i = Len(dis) + 1
      BY <1>1, <2>3, <2>5, <3>2
    <3> QED BY <2>4, <2>5, <2>8, <3>1, <3>2
  <2>9. DisInv'
    <3>1. \A i \in 1 .. Len(dis') : InRange(current_page, OffsetOf(dis[i].addr))'
      BY <2>1, <2>6, <2>7, <2>8 DEF InRange
    <3> QED BY <2>1, <2>5, <3>1 DEF DisInv
  <2>10. PlaceInv' BY <2>1 DEF PlaceInv
  <2> QED BY <1>10, <1>11, <1>12, <2>9, <2>10 DEF BytecodeInv
<1>14. CASE used # {}
  <2>1. pc' = "goto" BY <1>14 DEF DisInst
  <2>2. PlaceInv' /\ DisInv' BY <2>1 DEF PlaceInv, DisInv
  <2> QED BY <1>10, <1>11, <1>12, <2>2 DEF BytecodeInv
<1> QED BY <1>13, <1>14

LEMMA CompileInstBytecode ==
  ASSUME CacheInv, CompileInst
  PROVE  BytecodeInv'
<1> DEFINE p == current_page
           e == OffsetOf(dis[1].addr)
           code == compile(dis[1])
<1>0. /\ DataTypeOK /\ CodeInv /\ EntriesInv /\ DisInv /\ PlaceInv /\ p \in Page
      /\ pc = "compile" /\ dis # <<>> /\ p <= allocated
  <2>1. pc = "compile" /\ dis # <<>> BY DEF CompileInst, At
  <2>2. p \in Page /\ p \in 0 .. allocated
    BY <2>1 DEF CacheInv, ListInv, ListsConsistent, ListTypeOK, PhaseOK, MapOK, PageOrNone
  <2> QED BY <2>1, <2>2 DEF CacheInv, BytecodeInv, Page
<1>1. /\ dis \in Seq(DisRecords) /\ Len(dis) \in Nat /\ Len(dis) > 0
      /\ \A i \in 1 .. Len(dis) : InRange(p, OffsetOf(dis[i].addr))
  BY <1>0, EmptySeq DEF DisInv
<1>2. dis[1] \in DisRecords /\ e \in Offset /\ InRange(p, e)
  <2>1. dis[1] \in DisRecords BY <1>1
  <2>2. dis[1].addr \in Nat BY <2>1 DEF DisRecords
  <2> QED BY <1>1, <2>1, <2>2, Offsets
<1>3. code \in Seq(Words) /\ Len(code) \in {1, 2} /\ HaltsAfterInc(code)
  BY <1>2, CompileMakes
<1>4. v[p] \in Seq(Words) /\ HaltsAfterInc(v[p]) /\ Len(v[p]) \in Nat
  BY <1>0 DEF CodeInv
<1>5. /\ entries' = [entries EXCEPT ![p][e].ind = Len(v[p]) + 2]
      /\ v' = [v EXCEPT ![p] = v[p] \o code]
      /\ dis' = Tail(dis)
      /\ UNCHANGED <<mem, eip, is32, first_entry, last_entry, overlap_next_page,
                     allocated, current_page, current_pos, pc, pos>>
  BY DEF CompileInst, guestVars, listVars, runVars
<1> HIDE DEF code, e
<1>6. /\ v[p] \o code \in Seq(Words) /\ HaltsAfterInc(v[p] \o code)
      /\ Len(v[p] \o code) = Len(v[p]) + Len(code)
  BY <1>3, <1>4, HaltsAppend, ConcatProperties
<1>7. /\ v' \in [Page -> Seq(Words)] /\ v'[p] = v[p] \o code
      /\ \A q \in Page \ {p} : v'[q] = v[q]
  BY <1>0, <1>5, <1>6 DEF CodeInv
<1>7a. Len(v'[p]) \in Nat /\ Len(v'[p]) >= Len(v[p]) + 1
  <2>1. Len(v'[p]) = Len(v[p]) + Len(code) BY <1>6, <1>7
  <2>2. Len(code) = 1 \/ Len(code) = 2 BY <1>3
  <2> DEFINE n == Len(v'[p])
             m == Len(v[p])
             c == Len(code)
  <2>3. n = m + c /\ m \in Nat /\ (c = 1 \/ c = 2) BY <1>4, <2>1, <2>2
  <2> HIDE DEF n, m, c
  <2>4. n \in Nat /\ n >= m + 1 BY <2>3
  <2> QED BY <2>4 DEF n, m
<1>8. CodeInv' BY <1>0, <1>5, <1>6, <1>7 DEF CodeInv
<1>9. /\ entries' \in [Page -> [Offset -> [ind : Nat, is32 : BOOLEAN]]]
      /\ entries'[p][e].ind = Len(v[p]) + 2
      /\ \A q \in Page : \A o \in Offset : (q = p /\ o = e) \/ entries'[q][o] = entries[q][o]
  <2>1. entries \in [Page -> [Offset -> [ind : Nat, is32 : BOOLEAN]]]
    BY <1>0 DEF DataTypeOK
  <2>2. entries[p][e] \in [ind : Nat, is32 : BOOLEAN] BY <1>0, <1>2, <2>1
  <2> DEFINE w == [entries[p][e] EXCEPT !.ind = Len(v[p]) + 2]
  <2>3. w \in [ind : Nat, is32 : BOOLEAN] /\ w.ind = Len(v[p]) + 2
    BY <1>4, <2>2
  <2> DEFINE g == [entries[p] EXCEPT ![e] = w]
  <2>4. entries' = [entries EXCEPT ![p] = g]
    BY <1>5
  <2> HIDE DEF w
  <2>5. g \in [Offset -> [ind : Nat, is32 : BOOLEAN]] /\ g[e] = w
        /\ \A o \in Offset \ {e} : g[o] = entries[p][o]
    BY <1>0, <1>2, <2>1, <2>3
  <2> HIDE DEF g
  <2> QED BY <1>0, <2>1, <2>3, <2>4, <2>5
<1>10. EntriesInv'
  <2>1. ASSUME NEW q \in Page, NEW o \in Offset
        PROVE  /\ entries'[q][o].ind # NULL_ENTRY
                    => first_entry[q] # NoEntry /\ o \in first_entry[q] .. last_entry[q]
               /\ q > allocated => entries'[q][o].ind = NULL_ENTRY
               /\ entries'[q][o].ind > PAD_ENTRY
                    => entries'[q][o].ind - 1 \in 1 .. Len(v'[q])
    <3>1. CASE q = p /\ o = e
      <4>1. ~(q > allocated)
        BY <1>0, <3>1 DEF CacheInv, ListInv, ListTypeOK, Page
      <4>2. entries'[q][o].ind - 1 \in 1 .. Len(v'[q])
        BY <1>4, <1>7a, <1>9, <3>1
      <4> QED BY <1>2, <3>1, <4>1, <4>2 DEF InRange
    <3>2. CASE ~(q = p /\ o = e)
      <4>1. entries'[q][o] = entries[q][o] BY <1>9, <3>2
      <4>2. Len(v[q]) \in Nat /\ Len(v'[q]) \in Nat /\ Len(v[q]) <= Len(v'[q])
        <5>1. Len(v[q]) \in Nat BY <1>0 DEF CodeInv
        <5> QED BY <1>3, <1>6, <1>7, <5>1
      <4>3. entries[q][o].ind > PAD_ENTRY => entries[q][o].ind - 1 \in 1 .. Len(v[q])
        BY <1>0 DEF EntriesInv, InBytecode
      <4> QED BY <1>0, <4>1, <4>2, <4>3 DEF EntriesInv, RecycledPageIsBlank
    <3> QED BY <3>1, <3>2
  <2> QED BY <1>5, <2>1 DEF EntriesInv, RecycledPageIsBlank, InBytecode
<1>11. DataTypeOK' BY <1>0, <1>5, <1>9 DEF DataTypeOK
<1>12. PlaceInv'
  <2>1. current_pos - 1 \in 1 .. Len(v[p]) + 1 BY <1>0 DEF PlaceInv
  <2>2. current_pos - 1 \in 1 .. Len(v'[p]) /\ Len(v'[p]) \in Nat
    BY <1>4, <1>7a, <2>1
  <2> QED BY <1>0, <1>5, <2>2 DEF PlaceInv, InBytecode
<1>13. DisInv'
  <2>1. /\ Tail(dis) \in Seq(DisRecords) /\ Len(Tail(dis)) = Len(dis) - 1
        /\ \A i \in 1 .. Len(dis) - 1 : Tail(dis)[i] = dis[i + 1]
    BY <1>1
  <2>2. \A i \in 1 .. Len(dis') : InRange(p, OffsetOf(dis'[i].addr))
    BY <1>1, <1>5, <2>1
  <2> QED BY <1>0, <1>5, <2>1, <2>2 DEF DisInv, InRange
<1> QED BY <1>8, <1>10, <1>11, <1>12, <1>13 DEF BytecodeInv

LEMMA CompileEndBytecode ==
  ASSUME CacheInv, CompileEnd
  PROVE  BytecodeInv'
<1> DEFINE p == current_page
           code == IF Branch(v[p][Len(v[p])].op) THEN v[p] ELSE WithGoto(v[p])
<1>0. /\ DataTypeOK /\ CodeInv /\ EntriesInv /\ PlaceInv /\ p \in Page
      /\ pc = "compile" /\ dis = <<>> /\ after \in {"idle", "lock", "stop"}
  <2>1. pc = "compile" /\ dis = <<>> BY DEF CompileEnd, At
  <2>2. p \in Page /\ after \in {"idle", "lock", "stop"}
    BY <2>1 DEF CacheInv, ListInv, ListsConsistent, ListTypeOK, PhaseOK, PageOrNone
  <2> QED BY <2>1, <2>2 DEF CacheInv, BytecodeInv
<1>1. v[p] \in Seq(Words) /\ HaltsAfterInc(v[p]) /\ Len(v[p]) \in Nat
  BY <1>0 DEF CodeInv
<1>2. /\ code \in Seq(Words) /\ HaltsAfterInc(code) /\ Closed(code)
      /\ Len(code) \in Nat /\ Len(v[p]) <= Len(code)
  <2>1. Branch(v[p][Len(v[p])].op) => Closed(v[p])
    BY DEF Branch, Closed, GoesOn
  <2> QED BY <1>1, <2>1, GotoCloses
<1>3. /\ v' = [v EXCEPT ![p] = code] /\ pc' = after
      /\ UNCHANGED <<mem, eip, is32, entries, first_entry, last_entry, overlap_next_page,
                     allocated, current_page, current_pos, pos>>
  BY DEF CompileEnd, guestVars, listVars, runVars
<1> HIDE DEF code
<1>4. /\ v' \in [Page -> Seq(Words)] /\ v'[p] = code
      /\ \A q \in Page \ {p} : v'[q] = v[q]
  BY <1>0, <1>2, <1>3 DEF CodeInv
<1>5. CodeInv' BY <1>0, <1>2, <1>3, <1>4 DEF CodeInv
<1>6. ASSUME NEW q \in Page, NEW i \in Nat, InBytecode(q, i)
      PROVE  i - 1 \in 1 .. Len(v'[q])
  <2>1. Len(v[q]) \in Nat BY <1>0 DEF CodeInv
  <2> QED BY <1>1, <1>2, <1>4, <1>6, <2>1 DEF InBytecode
<1>7. EntriesInv'
  <2>1. \A q \in Page : \A o \in Offset : entries[q][o].ind \in Nat
    BY <1>0 DEF DataTypeOK
  <2> QED BY <1>0, <1>3, <1>6, <2>1 DEF EntriesInv, RecycledPageIsBlank, InBytecode
<1>8. DataTypeOK' BY <1>0, <1>3 DEF DataTypeOK
<1>9. PlaceInv'
  <2>1. InBytecode(p, current_pos) /\ current_pos \in Nat
    BY <1>0 DEF PlaceInv, DataTypeOK
  <2> QED BY <1>0, <1>3, <1>6, <2>1 DEF PlaceInv, InBytecode
<1>10. DisInv' BY <1>0, <1>3 DEF DisInv
<1> QED BY <1>5, <1>7, <1>8, <1>9, <1>10 DEF BytecodeInv

LEMMA DisInstsBytecode ==
  ASSUME CacheInv, DisInsts
  PROVE  BytecodeInv'
<1> USE DEF At
<1>0. /\ DataTypeOK /\ CodeInv /\ DisInv /\ ListTypeOK
      /\ current_pos \in Nat /\ pos \in Nat
      /\ mem \in [Addr -> Byte] /\ eip \in Nat /\ is32 \in BOOLEAN
  BY DEF CacheInv, BytecodeInv, DataTypeOK, ListInv
<1>1. CASE DisInst BY <1>1, DisInstBytecode
<1>2. CASE CompileInst BY <1>2, CompileInstBytecode
<1>3. CASE CompileEnd BY <1>3, CompileEndBytecode
<1>4. CASE DisFault
  <2>1. /\ UNCHANGED <<mem, eip, is32, pageVars, pos>> /\ pc = "dis" /\ pc' = "exc"
        /\ current_pos' \in Nat /\ UNCHANGED allocated
    BY <1>0, <1>4, RemovePlace DEF DisFault, guestVars
  <2>2. DataTypeOK' /\ CodeInv' /\ EntriesInv' BY <1>0, <2>1, ContentsStay
  <2>3. PlaceInv' /\ DisInv' BY <2>1 DEF PlaceInv, DisInv
  <2> QED BY <2>2, <2>3 DEF BytecodeInv
<1>5. CASE DisEnd
  <2>1. /\ UNCHANGED <<mem, eip, is32, pageVars, allocated, current_page, pos, dis>>
        /\ pc = "dis" /\ pc' = "compile" /\ dis # <<>>
        /\ current_pos' = Len(v[current_page]) + 2
    BY <1>5 DEF DisEnd, guestVars, listVars
  <2>2. current_page \in Page
    BY <2>1 DEF CacheInv, ListInv, ListsConsistent, ListTypeOK, PhaseOK, PageOrNone
  <2>3. Len(v[current_page]) \in Nat BY <1>0, <2>2 DEF CodeInv
  <2>4. current_pos' \in Nat BY <2>1, <2>3
  <2>5. DataTypeOK' /\ CodeInv' /\ EntriesInv' BY <1>0, <2>1, <2>4, ContentsStay
  <2>6. PlaceInv' BY <2>1, <2>3 DEF PlaceInv, pageVars
  <2>7. DisInv' BY <1>0, <2>1 DEF DisInv, InRange, pageVars
  <2> QED BY <2>5, <2>6, <2>7 DEF BytecodeInv
<1> QED BY <1>1, <1>2, <1>3, <1>4, <1>5 DEF DisInsts

\* Where exec_inst is, and where a word that goes on leads.
LEMMA RunPlace ==
  ASSUME CacheInv, pc = "run"
  PROVE  /\ lock_page \in Page /\ pos \in Nat /\ eip \in Nat
         /\ InBytecode(lock_page, pos) /\ Word \in Words
         /\ GoesOn(Word) => InBytecode(lock_page, pos + 1)
         /\ GoesOn(Word) /\ WordAt(lock_page, pos + 1).op = "halt" =>
              /\ Word.op = "inc" /\ ~Word.stop
              /\ Word.len = Len(WordAt(lock_page, pos + 1).bytes)
         /\ current_page \in {lock_page, NoPage}
<1>1. DataTypeOK /\ CodeInv /\ PlaceInv /\ ListTypeOK /\ PhaseOK
  BY DEF CacheInv, BytecodeInv, ListInv, ListsConsistent
<1>2. lock_page \in Page /\ pos \in Nat /\ eip \in Nat
      /\ InBytecode(lock_page, pos) /\ current_page \in {lock_page, NoPage}
  BY <1>1 DEF ListTypeOK, PhaseOK, PageOrNone, DataTypeOK, PlaceInv
<1> DEFINE s == v[lock_page]
<1>3. s \in Seq(Words) /\ HaltsAfterInc(s) /\ Closed(s) /\ Len(s) \in Nat
  BY <1>1, <1>2 DEF CodeInv
<1>4. pos - 1 \in 1 .. Len(s) BY <1>2 DEF InBytecode
<1>5. Word = s[pos - 1] /\ WordAt(lock_page, pos + 1) = s[(pos + 1) - 1]
  BY DEF Word, WordAt
<1> HIDE DEF s
<1>6. Word \in Words BY <1>3, <1>4, <1>5
<1>7. ASSUME GoesOn(Word) PROVE pos \in 1 .. Len(s)
  <2>1. pos - 1 # Len(s) BY <1>3, <1>4, <1>5, <1>7 DEF Closed
  <2> QED BY <1>2, <1>3, <1>4, <2>1
<1>8. ASSUME GoesOn(Word), WordAt(lock_page, pos + 1).op = "halt"
      PROVE  /\ Word.op = "inc" /\ ~Word.stop
             /\ Word.len = Len(WordAt(lock_page, pos + 1).bytes)
  <2>1. (pos + 1) - 1 = pos BY <1>2
  <2>2. pos \in 1 .. Len(s) /\ s[pos].op = "halt" /\ WordAt(lock_page, pos + 1) = s[pos]
    BY <1>5, <1>7, <1>8, <2>1
  <2> QED BY <1>3, <1>5, <2>2 DEF HaltsAfterInc
<1>9. GoesOn(Word) => InBytecode(lock_page, pos + 1)
  <2>1. (pos + 1) - 1 = pos BY <1>2
  <2> QED BY <1>7, <2>1 DEF InBytecode, s
<1> QED BY <1>2, <1>6, <1>8, <1>9

LEMMA RunsOn ==
  ASSUME PlaceInv, pc = "run", pc' = "run", UNCHANGED <<v, current_page, current_pos>>,
         InBytecode(lock_page, pos)', (current_page \in {lock_page, NoPage})',
         (Word.op = "halt" => doomed = {} /\ (Halting \/ eip >= Len(Word.bytes)))'
  PROVE  PlaceInv'
<1>1. (current_page # NoPage => InBytecode(current_page, current_pos))'
  BY DEF PlaceInv, InBytecode
<1>2. (pc # "compile")' OBVIOUS
<1> QED BY <1>1, <1>2 DEF PlaceInv

LEMMA ExecBytecode ==
  ASSUME CacheInv, ExceptionBody \/ ExceptionGivesUp \/ Exec
  PROVE  BytecodeInv'
<1> USE DEF At, Running
<1>0. /\ DataTypeOK /\ PlaceInv /\ PhaseOK /\ ListTypeOK
      /\ current_pos \in Nat /\ pos \in Nat
      /\ mem \in [Addr -> Byte] /\ eip \in Nat /\ is32 \in BOOLEAN
      /\ \A t \in Targets : t \in Nat
      /\ Handler \in Nat /\ HandlerIs32 \in BOOLEAN
  BY ConstantsAssumption DEF CacheInv, BytecodeInv, DataTypeOK, ListInv, ListsConsistent, Addr
<1>1. CASE ExceptionBody \/ ExceptionGivesUp
  <2>1. /\ UNCHANGED <<pageVars, allocated, current_pos, pos>>
        /\ pc = "exc" /\ pc' \in {"goto", "exit"}
        /\ HostStores(Push) \/ UNCHANGED mem
        /\ UNCHANGED <<eip, is32>> \/ (eip' = Handler /\ is32' = HandlerIs32)
    BY <1>1 DEF ExceptionBody, ExceptionGivesUp, guestVars, listVars, runVars
  <2>2. mem' \in [Addr -> Byte] BY <1>0, <2>1, MemoryTyped
  <2>3. DataTypeOK' /\ CodeInv' /\ EntriesInv' BY <1>0, <2>1, <2>2, ContentsStay
  <2>4. PlaceInv' /\ DisInv' BY <2>1 DEF PlaceInv, DisInv
  <2> QED BY <2>3, <2>4 DEF BytecodeInv
<1>2. CASE Lock
  <2>1. /\ UNCHANGED <<mem, eip, is32, pageVars, allocated, current_page, current_pos, doomed>>
        /\ pc = "lock" /\ pc' = "run" /\ doomed = {}
        /\ lock_page' = current_page /\ pos' = current_pos
    BY <1>2 DEF Lock, guestVars, listVars
  <2>2. current_page # NoPage /\ InBytecode(current_page, current_pos)
    BY <1>0, <2>1 DEF PhaseOK, PlaceInv
  <2>3. DataTypeOK' /\ CodeInv' /\ EntriesInv' BY <1>0, <2>1, ContentsStay
  <2>4. PlaceInv' BY <2>1, <2>2 DEF PlaceInv, InBytecode, Halting, pageVars
  <2>5. DisInv' BY <2>1 DEF DisInv
  <2> QED BY <2>3, <2>4, <2>5 DEF BytecodeInv
<1>3. CASE ExecSeq \/ ExecStore \/ ExecOut \/ ExecCR0
  <2>1. /\ UNCHANGED <<eip, pageVars, allocated, lock_page, current_page, current_pos>>
        /\ pc = "run" /\ pc' = "run" /\ pos' = pos + 1
        /\ Word.op \in {"seq", "store", "out", "cr0"}
        /\ HostStores(Stores) \/ HostRemaps \/ UNCHANGED mem
        /\ UNCHANGED is32 \/ is32' \in BOOLEAN
    BY <1>3 DEF ExecSeq, ExecStore, ExecOut, ExecCR0, Advance, guestVars, listVars, runVars
  <2>2. mem' \in [Addr -> Byte] BY <1>0, <2>1, MemoryTyped
  <2>3. DataTypeOK' /\ CodeInv' /\ EntriesInv' BY <1>0, <2>1, <2>2, ContentsStay
  <2>4. GoesOn(Word) /\ Word.op # "inc" BY <2>1 DEF GoesOn
  <2>5. /\ InBytecode(lock_page, pos + 1) /\ current_page \in {lock_page, NoPage}
        /\ WordAt(lock_page, pos + 1).op # "halt"
    BY <2>1, <2>4, RunPlace
  <2>6. Word' = WordAt(lock_page, pos + 1)
    <3>1. UNCHANGED <<v, lock_page>> /\ pos' = pos + 1 BY <2>1 DEF pageVars
    <3> QED BY <3>1 DEF Word, WordAt
  <2>7. PlaceInv'
    <3>1. InBytecode(lock_page, pos)' BY <2>1, <2>5 DEF InBytecode, pageVars
    <3>2. (current_page \in {lock_page, NoPage})' BY <2>1, <2>5
    <3>3. (Word.op # "halt")' BY <2>5, <2>6
    <3>4. UNCHANGED <<v, current_page, current_pos>> BY <2>1 DEF pageVars
    <3> QED BY <1>0, <2>1, <3>1, <3>2, <3>3, <3>4, RunsOn
  <2>8. DisInv' BY <2>1 DEF DisInv
  <2> QED BY <2>3, <2>7, <2>8 DEF BytecodeInv
<1>4. CASE ExecJump \/ ExecFar \/ ExecGoto \/ ExecFault
  <2>1. /\ UNCHANGED <<mem, pageVars, allocated, current_pos, pos>>
        /\ pc = "run" /\ pc' \in {"goto", "exc"}
        /\ UNCHANGED is32 \/ is32' \in BOOLEAN
    BY <1>4 DEF ExecJump, ExecFar, ExecGoto, ExecFault, LeaveByGoto, guestVars, listVars, runVars
  <2>2. eip' \in Nat
    <3>1. CASE ExecJump \/ ExecFar \/ ExecGoto
      BY <1>0, <3>1 DEF ExecJump, ExecFar, ExecGoto, guestVars
    <3>2. CASE ExecFault
      <4>1. eip' = FaultEip /\ (Word.op = "halt" => ~Halting)
        BY <3>2 DEF ExecFault
      <4>2. CASE Word.op = "halt"
        <5>1. Word \in Instructions
          BY <2>1, <4>2, RunPlace, WordsTyped DEF Kinds
        <5>2. Len(Word.bytes) \in Nat BY <5>1, WordsTyped
        <5>3. eip >= Len(Word.bytes) BY <1>0, <2>1, <4>1, <4>2 DEF PlaceInv
        <5> QED BY <1>0, <4>1, <4>2, <5>2, <5>3 DEF FaultEip
      <4>3. CASE Word.op # "halt" BY <1>0, <4>1, <4>3 DEF FaultEip
      <4> QED BY <4>2, <4>3
    <3> QED BY <1>4, <3>1, <3>2
  <2>3. DataTypeOK' /\ CodeInv' /\ EntriesInv' BY <1>0, <2>1, <2>2, ContentsStay
  <2>4. PlaceInv' /\ DisInv' BY <2>1 DEF PlaceInv, DisInv
  <2> QED BY <2>3, <2>4 DEF BytecodeInv
<1>5. CASE ExecInc
  <2>1. /\ UNCHANGED <<mem, is32, pageVars, allocated, lock_page, current_page, doomed>>
        /\ pc = "run" /\ Word.op = "inc" /\ doomed = {} /\ eip' = eip + Word.len
        /\ \/ Word.stop /\ current_pos' = pos + 1 /\ pc' = "stop" /\ pos' = pos
           \/ ~Word.stop /\ pos' = pos + 1 /\ pc' = "run" /\ current_pos' = current_pos
    BY <1>5 DEF ExecInc, Advance, listVars
  <2>2. Word.len \in Nat BY <2>1, RunPlace, WordsTyped
  <2>3. eip' \in Nat /\ current_pos' \in Nat /\ pos' \in Nat BY <1>0, <2>1, <2>2
  <2>4. DataTypeOK' /\ CodeInv' /\ EntriesInv' BY <1>0, <2>1, <2>3, ContentsStay
  <2>5. GoesOn(Word) BY <2>1 DEF GoesOn
  <2>6. /\ InBytecode(lock_page, pos + 1) /\ current_page \in {lock_page, NoPage}
        /\ WordAt(lock_page, pos + 1).op = "halt"
             => Word.len = Len(WordAt(lock_page, pos + 1).bytes)
    BY <2>1, <2>5, RunPlace
  <2>7. PlaceInv'
    <3>1. CASE pc' = "stop"
      BY <2>1, <2>6, <3>1 DEF PlaceInv, InBytecode, pageVars
    <3>2. CASE pc' = "run"
      <4>1. pos' = pos + 1 /\ Word' = WordAt(lock_page, pos + 1)
        <5>1. UNCHANGED <<v, lock_page>> /\ pos' = pos + 1 BY <2>1, <3>2 DEF pageVars
        <5> QED BY <5>1 DEF Word, WordAt
      <4>2. Word'.op = "halt" => eip' >= Len(Word'.bytes)
        <5>1. SUFFICES ASSUME Word'.op = "halt" PROVE eip' >= Len(Word'.bytes)
          OBVIOUS
        <5>2. Len(Word'.bytes) = Word.len BY <2>6, <4>1, <5>1
        <5> QED BY <1>0, <2>1, <2>2, <5>2
      <4>3. InBytecode(lock_page, pos)' BY <2>1, <2>6, <4>1 DEF InBytecode, pageVars
      <4>4. (current_page \in {lock_page, NoPage})' BY <2>1, <2>6
      <4>5. (Word.op = "halt" => doomed = {} /\ (Halting \/ eip >= Len(Word.bytes)))'
        BY <2>1, <4>2
      <4>6. UNCHANGED <<v, current_page, current_pos>> BY <2>1, <3>2 DEF pageVars
      <4> QED BY <1>0, <2>1, <3>2, <4>3, <4>4, <4>5, <4>6, RunsOn
    <3> QED BY <2>1, <3>1, <3>2
  <2>8. DisInv' BY <2>1 DEF DisInv
  <2> QED BY <2>4, <2>7, <2>8 DEF BytecodeInv
<1>6. CASE ExecHalt
  <2>1. /\ UNCHANGED <<mem, eip, is32, pageVars, allocated, lock_page, current_page, pos>>
        /\ pc = "run" /\ pc' = "stop" /\ current_pos' = pos
    BY <1>6 DEF ExecHalt, guestVars, listVars
  <2>2. DataTypeOK' /\ CodeInv' /\ EntriesInv' BY <1>0, <2>1, ContentsStay
  <2>3. InBytecode(lock_page, pos) /\ current_page \in {lock_page, NoPage}
    BY <2>1, RunPlace
  <2>4. PlaceInv' BY <2>1, <2>3 DEF PlaceInv, InBytecode, pageVars
  <2>5. DisInv' BY <2>1 DEF DisInv
  <2> QED BY <2>2, <2>4, <2>5 DEF BytecodeInv
<1>7. CASE Stop
  <2>1. /\ UNCHANGED <<mem, eip, is32, pageVars, allocated, current_page, current_pos>>
        /\ pc = "stop" /\ pc' = "idle" /\ pos' = 0
    BY <1>7 DEF Stop, guestVars
  <2>2. DataTypeOK' /\ CodeInv' /\ EntriesInv' BY <1>0, <2>1, ContentsStay
  <2>3. PlaceInv' BY <1>0, <2>1 DEF PlaceInv, InBytecode, pageVars
  <2>4. DisInv' BY <2>1 DEF DisInv
  <2> QED BY <2>2, <2>3, <2>4 DEF BytecodeInv
<1> QED BY <1>1, <1>2, <1>3, <1>4, <1>5, <1>6, <1>7 DEF Exec

LEMMA CacheInvStep == CacheInv /\ [Next]_vars => CacheInv'
<1> SUFFICES ASSUME CacheInv, [Next]_vars PROVE CacheInv' OBVIOUS
<1>1. ListInv' BY ListInvStep DEF CacheInv
<1>2. BytecodeInv'
  <2>1. CASE HostCall BY <2>1, HostCallBytecode
  <2>2. CASE RemoveDoomed BY <2>2, RemoveDoomedBytecode
  <2>3. CASE GotoEip BY <2>3, GotoEipBytecode
  <2>4. CASE DisInsts BY <2>4, DisInstsBytecode
  <2>5. CASE ExceptionBody \/ ExceptionGivesUp \/ Exec BY <2>5, ExecBytecode
  <2>6. CASE UNCHANGED vars
    <3> USE DEF vars, guestVars, listVars, pageVars, runVars, localVars, CacheInv, BytecodeInv
    <3>1. DataTypeOK' BY <2>6 DEF DataTypeOK
    <3>2. CodeInv' BY <2>6 DEF CodeInv
    <3>3. EntriesInv' BY <2>6 DEF EntriesInv, RecycledPageIsBlank, InBytecode
    <3>4. Word' = Word BY <2>6 DEF Word, WordAt
    <3>5. PlaceInv' BY <2>6, <3>4 DEF PlaceInv, InBytecode, Halting
    <3>6. DisInv' BY <2>6 DEF DisInv, InRange
    <3> QED BY <3>1, <3>2, <3>3, <3>5, <3>6
  <2> QED BY <2>1, <2>2, <2>3, <2>4, <2>5, <2>6 DEF Next, JitStep, Exited
<1> QED BY <1>1, <1>2 DEF CacheInv

LEMMA CacheAlways == Spec => []CacheInv
<1>1. Init => CacheInv BY ListInvInit, BytecodeInit DEF CacheInv
<1> QED BY <1>1, CacheInvStep, PTL DEF Spec

\* No index leaves the array it is for, and EIP is never taken back below 0: BC_HALT
\* takes back what the word before it added.
THEOREM CacheTyped == Spec => []TypeOK
<1>1. CacheInv => TypeOK
  BY DEF CacheInv, ListInv, BytecodeInv, DataTypeOK, TypeOK
<1> QED BY <1>1, CacheAlways, PTL

\* get_new_page clears all that the earlier life of a page left in its entries, for
\* every page size, program and sequence of invalidations.
THEOREM RecycledAlwaysBlank == Spec => []RecycledPageIsBlank
<1>1. CacheInv => RecycledPageIsBlank
  BY DEF CacheInv, BytecodeInv, EntriesInv
<1> QED BY <1>1, CacheAlways, PTL

\* exec_inst never runs past the bytecode of the page it has locked, not even when
\* that page was removed under it.
THEOREM NeverRunsPastBytecode ==
  Spec => [](pc = "run" => pos - 1 \in 1 .. Len(v[lock_page]))
<1>1. CacheInv => (pc = "run" => pos - 1 \in 1 .. Len(v[lock_page]))
  BY DEF CacheInv, BytecodeInv, PlaceInv, InBytecode
<1> QED BY <1>1, CacheAlways, PTL

---------------------------------------------------------------------------
(***************************************************************************)
(* What the translation cache promises, for every program, memory and page *)
(* size: the decoded instructions are those of the memory (CodeIsFresh),   *)
(* the JIT resumes at the instruction of EIP (ResumesAtEip), and what it   *)
(* executes is what the machine of GuestCpu executes (ImplementsGuest).    *)
(*                                                                         *)
(* The inductive invariant adds to CacheInv what the bytecode of a page is *)
(* (BlockInv), that it agrees with the memory (MemInv), what the decoder   *)
(* holds half done (BlockDisInv) and where exec_inst is (Ready, RunInv).   *)
(***************************************************************************)

\* An instruction was decoded at offset o of page p.
Starts(p, o) == entries[p][o].ind > PAD_ENTRY
BytesAt(p, o) == DecodedAt(p, o).bytes

\* The block being compiled goes on, at offset x, with the words from k on.
Pending(p, x, k, m, op) ==
  /\ pc = "compile" /\ p = current_page /\ k = Len(v[p]) + 2
  /\ dis # <<>> => /\ OffsetOf(dis[1].addr) = x /\ x < PageSize
                   /\ m = is32 /\ op # "cr0"

\* After an instruction and its BC_INCn_EIP come the words of the instruction at
\* offset x, decoded in the same mode.
LeadsOn(p, x, k, m, op) ==
  \/ x < PageSize /\ op # "cr0" /\ entries[p][x] = [ind |-> k, is32 |-> m]
  \/ Pending(p, x, k, m, op)

\* The words from k on are those of the instruction at offset o of page p.
HaltCoded(p, k) ==
  /\ InBytecode(p, k + 1)
  /\ WordAt(p, k).op = "inc" /\ ~WordAt(p, k).stop
  /\ WordAt(p, k + 1).op = "halt"
  /\ WordAt(p, k).len = Len(WordAt(p, k + 1).bytes)

PlainCoded(p, o, k, m) ==
  /\ WordAt(p, k).op \in {"seq", "store", "out", "cr0"}
  /\ InBytecode(p, k + 1) /\ WordAt(p, k + 1).op = "inc"
  /\ WordAt(p, k + 1).len = Len(WordAt(p, k).bytes)
  /\ WordAt(p, k + 1).stop =>
       LeadsOn(p, o + Len(WordAt(p, k).bytes), k + 2, m, WordAt(p, k).op)
  /\ ~WordAt(p, k + 1).stop => InBytecode(p, k + 2) /\ WordAt(p, k + 2).op = "goto"

Coded(p, o, k, m) ==
  HaltCoded(p, k) \/ WordAt(p, k).op \in {"jump", "far"} \/ PlainCoded(p, o, k, m)

\* The bytes b are an instruction of kind op in mode m.
Decodes(b, m, op) ==
  /\ b \in Seq(Byte) /\ b # <<>>
  /\ op = Kind[b[1]] /\ Len(b) = InstLen[<<b[1], m>>]

\* A write to any of the n bytes at o finds their entry and removes the page.
Covers(p, o, n) ==
  \A i \in 1 .. n : o + i <= PageSize => entries[p][o + i - 1].ind # NULL_ENTRY

StartOK(p, o) ==
  /\ Coded(p, o, entries[p][o].ind, entries[p][o].is32)
  /\ Decodes(BytesAt(p, o), entries[p][o].is32, DecodedAt(p, o).op)
  /\ Covers(p, o, Len(BytesAt(p, o)))

BlockInv == \A p \in Page : \A o \in Offset : Starts(p, o) => StartOK(p, o)

\* The bytes b at offset o of slot s, those in the page, are in memory.
Same(s, o, b) ==
  \A i \in 1 .. Len(b) : o + i <= PageSize => mem[s * PageSize + o + i - 1] = b[i]
Fetched(s, o, n) == s * PageSize + o .. s * PageSize + o + n - 1 \subseteq Fetchable

MemInv ==
  \A s \in Slot : map[s] # NoPage =>
    \A o \in Offset : Starts(map[s], o) =>
      /\ s \notin doomed => Same(s, o, BytesAt(map[s], o))
      /\ Fetched(s, o, Len(BytesAt(map[s], o)))

\* An instruction dis_insts has decoded and compile has not reached.
DisOK(d) ==
  /\ SlotOf(d.addr) = Eslot
  /\ entries[current_page][OffsetOf(d.addr)] = [ind |-> PAD_ENTRY, is32 |-> is32]
  /\ Decodes(d.bytes, is32, OpOf(d))
  /\ Covers(current_page, OffsetOf(d.addr), Len(d.bytes))
  /\ Same(Eslot, OffsetOf(d.addr), d.bytes)
  /\ Fetched(Eslot, OffsetOf(d.addr), Len(d.bytes))

DisListInv ==
  /\ \A i \in 1 .. Len(dis) : DisOK(dis[i])
  /\ \A i, j \in 1 .. Len(dis) : i < j => OffsetOf(dis[i].addr) < OffsetOf(dis[j].addr)
  /\ \A i \in 1 .. Len(dis) : i + 1 <= Len(dis) =>
       /\ OffsetOf(dis[i + 1].addr) = OffsetOf(dis[i].addr) + Len(dis[i].bytes)
       /\ ~EndsBlock(OpOf(dis[i]))

\* The words from k on are the instruction at address a, in the present mode.
AtEntry(a, p, k) ==
  /\ SlotOf(a) \in Slot /\ map[SlotOf(a)] = p
  /\ entries[p][OffsetOf(a)] = [ind |-> k, is32 |-> is32]
  /\ k > PAD_ENTRY

CompileInv ==
  /\ pc = "dis" /\ dis # <<>> => dis[1].addr = eip
  /\ pc = "compile" =>
       \/ dis # <<>> /\ dis[1].addr = eip /\ current_pos = Len(v[current_page]) + 2
       \/ AtEntry(eip, current_page, current_pos)

BlockDisInv == pc \in {"dis", "compile"} => DisListInv /\ CompileInv

\* Between two calls.
OnHalt == WordAt(current_page, current_pos).op = "halt"
Ready ==
  pc \in {"idle", "lock", "stop"} /\ current_page # NoPage =>
    OnHalt \/ AtEntry(eip, current_page, current_pos)

\* In exec_inst: at the first word of an instruction, at a BC_HALT met again, at
\* a BC_HALT after its BC_INCn_EIP, at the BC_INCn_EIP after an instruction (whose
\* page may be gone), at BC_GOTO_EIP.
Starting ==
  /\ doomed = {} /\ current_page = lock_page /\ current_pos = pos
  /\ AtEntry(eip, lock_page, pos)
Again ==
  /\ doomed = {} /\ current_page = lock_page /\ current_pos = pos
  /\ Word.op = "halt"
InHalt ==
  /\ doomed = {} /\ current_page = lock_page /\ current_pos = pos - 1
  /\ Word.op = "halt"
  /\ AtEntry(eip - Len(Word.bytes), lock_page, pos - 1)
Leaving ==
  /\ Word.op = "inc" /\ pos - 1 > PAD_ENTRY
  /\ WordAt(lock_page, pos - 1).op \in {"seq", "store", "out", "cr0"}
  /\ entries[lock_page][OffsetOf(eip)].ind = pos - 1
  /\ Word.stop => entries[lock_page][OffsetOf(eip)].is32 = is32
  /\ current_page # NoPage =>
       /\ SlotOf(eip) \in Slot /\ map[SlotOf(eip)] = lock_page
       /\ current_pos = pos - 1
Going ==
  /\ doomed = {} /\ Word.op = "goto"
  /\ current_page # NoPage => ~OnHalt
RunInv == pc = "run" => Starting \/ Again \/ InHalt \/ Leaving \/ Going

\* A call that removes pages is under way only where one was made.
DoomInv == doomed # {} => pc \in {"goto", "run"} \/ (pc = "idle" /\ HostCalls # {})
HaltInv ==
  \A p \in Page : \A i \in 1 .. Len(v[p]) :
    v[p][i].op = "halt" => \E b \in Byte : Kind[b] = "halt"

JitInv == /\ CacheInv /\ BlockInv /\ MemInv /\ BlockDisInv
          /\ Ready /\ RunInv /\ DoomInv /\ HaltInv

-----------------------------------------------------------------------------
\* Addresses, slots and offsets.
LEMMA Slots == Slot \subseteq Nat /\ Offset \subseteq Nat
<1>1. \A i \in DOMAIN Areas : Areas[i].first \in Nat /\ Areas[i].last \in Nat
  <2>1. Areas \in Seq([first : Nat, last : Nat]) BY PagesAssumption
  <2>2. \A i \in DOMAIN Areas : Areas[i] \in [first : Nat, last : Nat]
    BY <2>1, LenProperties
  <2> QED BY <2>2
<1>2. \A i \in DOMAIN Areas : Areas[i].first .. Areas[i].last \subseteq Nat BY <1>1
<1>3. Slot \subseteq Nat BY <1>2 DEF Slot
<1> QED BY <1>3, Sizes DEF Offset

LEMMA Places ==
  ASSUME NEW a \in Nat
  PROVE  /\ SlotOf(a) \in Nat /\ OffsetOf(a) \in Offset
         /\ a = SlotOf(a) * PageSize + OffsetOf(a)
<1>1. OffsetOf(a) \in Offset BY Offsets
<1>2. a = (a \div PageSize) * PageSize + (a % PageSize) /\ a \div PageSize \in Nat
  BY Sizes
<1> QED BY <1>1, <1>2 DEF SlotOf, OffsetOf

LEMMA Here ==
  ASSUME NEW s \in Nat, NEW x \in Offset
  PROVE  /\ s * PageSize + x \in Nat
         /\ SlotOf(s * PageSize + x) = s /\ OffsetOf(s * PageSize + x) = x
<1>1. x \in 0 .. PageSize - 1 BY DEF Offset
<1>2. s * PageSize + x \in Nat BY <1>1, Sizes
<1>3. (s * PageSize + x) % PageSize = x BY <1>1, Sizes
<1>4. (s * PageSize + x) \div PageSize = s BY <1>1, Sizes
<1> QED BY <1>2, <1>3, <1>4 DEF SlotOf, OffsetOf

LEMMA Further ==
  ASSUME NEW a \in Nat, NEW n \in Nat, OffsetOf(a) + n < PageSize
  PROVE  SlotOf(a + n) = SlotOf(a) /\ OffsetOf(a + n) = OffsetOf(a) + n
<1>1. SlotOf(a) \in Nat /\ OffsetOf(a) \in Nat /\ a = SlotOf(a) * PageSize + OffsetOf(a)
  BY Places, Slots
<1> DEFINE s == SlotOf(a)
           x == OffsetOf(a) + n
<1>2. x \in Offset BY <1>1, Sizes DEF Offset
<1>3. a + n = s * PageSize + x
  <2> DEFINE t == s * PageSize
  <2>1. t \in Nat BY <1>1, Sizes
  <2> HIDE DEF t
  <2>2. a = t + OffsetOf(a) BY <1>1 DEF t
  <2> QED BY <1>1, <2>1, <2>2 DEF t
<1> HIDE DEF s, x
<1>4. SlotOf(s * PageSize + x) = s /\ OffsetOf(s * PageSize + x) = x
  BY <1>1, <1>2, Here DEF s
<1> QED BY <1>3, <1>4 DEF s, x

-----------------------------------------------------------------------------
\* An instruction that was decoded: its entry, its words and its bytes.
LEMMA StartTyped ==
  ASSUME CacheInv, NEW p \in Page, NEW o \in Offset, Starts(p, o)
  PROVE  /\ entries[p][o].ind \in Nat /\ entries[p][o].ind > PAD_ENTRY
         /\ entries[p][o].is32 \in BOOLEAN
         /\ entries[p][o] = [ind |-> entries[p][o].ind, is32 |-> entries[p][o].is32]
         /\ InBytecode(p, entries[p][o].ind)
<1>1. DataTypeOK /\ EntriesInv BY DEF CacheInv, BytecodeInv
<1>2. entries[p][o] \in [ind : Nat, is32 : BOOLEAN] BY <1>1 DEF DataTypeOK
<1>3. InBytecode(p, entries[p][o].ind) BY <1>1 DEF EntriesInv, Starts
<1> QED BY <1>2, <1>3 DEF Starts

LEMMA StartBytes ==
  ASSUME BlockInv, NEW p \in Page, NEW o \in Offset, Starts(p, o)
  PROVE  /\ BytesAt(p, o) \in Seq(Byte) /\ Len(BytesAt(p, o)) \in Nat
         /\ Len(BytesAt(p, o)) > 0 /\ BytesAt(p, o)[1] \in Byte
<1>1. BytesAt(p, o) \in Seq(Byte) /\ BytesAt(p, o) # <<>>
  BY DEF BlockInv, StartOK, Decodes
<1> QED BY <1>1, EmptySeq

\* The pages that stay in the map agree with the memory when the bytes that have
\* an entry do not change in them.
LEMMA MemKept ==
  ASSUME CacheInv, BlockInv, MemInv, UNCHANGED <<entries, v>>,
         \A s \in Slot : map'[s] = map[s] \/ map'[s] = NoPage,
         \A s \in Slot : map'[s] # NoPage /\ s \notin doomed' =>
           /\ s \notin doomed
           /\ \A x \in Offset :
                entries[map[s]][x].ind # NULL_ENTRY /\ s * PageSize + x \in Addr
                  => mem'[s * PageSize + x] = mem[s * PageSize + x]
  PROVE  MemInv'
<1> SUFFICES ASSUME NEW s \in Slot, map'[s] # NoPage,
                    NEW o \in Offset, Starts(map[s], o)'
             PROVE  /\ (s \notin doomed => Same(s, o, BytesAt(map[s], o)))'
                    /\ Fetched(s, o, Len(BytesAt(map[s], o)))'
  BY DEF MemInv
<1>1. map'[s] = map[s] OBVIOUS
<1>2. map[s] \in Page /\ map[s] # NoPage
  BY <1>1 DEF CacheInv, ListInv, ListTypeOK, PageOrNone
<1>3. Starts(map[s], o) /\ BytesAt(map[s], o)' = BytesAt(map[s], o)
  BY <1>1 DEF Starts, BytesAt, DecodedAt, WordAt
<1> DEFINE b == BytesAt(map[s], o)
           p == map[s]
<1>4. Fetched(s, o, Len(b)) BY <1>2, <1>3 DEF MemInv
<1>5. ASSUME s \notin doomed' PROVE Same(s, o, b)'
  <2>1. Same(s, o, b) BY <1>1, <1>2, <1>3, <1>5 DEF MemInv
  <2>2. Len(b) \in Nat /\ Len(b) > 0 BY <1>2, <1>3, StartBytes
  <2>3. Covers(p, o, Len(b)) BY <1>2, <1>3 DEF BlockInv, StartOK
  <2> HIDE DEF b, p
  <2>4. s \in Nat /\ o \in Nat /\ s * PageSize \in Nat BY Slots, Sizes
  <2>5. ASSUME NEW i \in 1 .. Len(b), o + i <= PageSize
        PROVE  mem'[s * PageSize + o + i - 1] = mem[s * PageSize + o + i - 1]
    <3> DEFINE x == o + i - 1
               t == s * PageSize
    <3>1. x \in Offset BY <2>2, <2>4, <2>5, Sizes DEF Offset
    <3>2. entries[p][x].ind # NULL_ENTRY BY <2>3, <2>5 DEF Covers
    <3>3. t + x = t + o + i - 1 /\ t + x \in t + o .. t + o + Len(b) - 1
      <4> HIDE DEF t
      <4> QED BY <2>2, <2>4, <2>5 DEF t
    <3>4. t + x \in Fetchable BY <1>4, <3>3 DEF Fetched
    <3>5. t + x \in Addr BY <3>4, ConstantsAssumption
    <3> HIDE DEF x
    <3>6. mem'[t + x] = mem[t + x] BY <1>1, <1>5, <3>1, <3>2, <3>5 DEF p
    <3> QED BY <3>3, <3>6
  <2>6. b' = b BY <1>1, <1>3 DEF b
  <2>7. \A i \in 1 .. Len(b) : o + i <= PageSize => mem[s * PageSize + o + i - 1] = b[i]
    BY <2>1 DEF Same
  <2>8. \A i \in 1 .. Len(b) : o + i <= PageSize => mem'[s * PageSize + o + i - 1] = b[i]
    BY <2>5, <2>7
  <2> QED BY <2>6, <2>8 DEF Same
<1> QED BY <1>1, <1>3, <1>4, <1>5 DEF Fetched

\* The pages a store reaches are those of the entries it finds.
LEMMA StoresKeep ==
  ASSUME CacheInv, NEW W, W \subseteq Addr \X Byte, HostStores(W),
         NEW s \in Slot, map[s] # NoPage, s \notin doomed',
         NEW x \in Offset, entries[map[s]][x].ind # NULL_ENTRY, s * PageSize + x \in Addr
  PROVE  mem'[s * PageSize + x] = mem[s * PageSize + x]
<1> DEFINE y == s * PageSize + x
<1>1. PICK w \in W : mem' = Written(mem, w) /\ doomed' = ChangedSlots(w[1])
  BY DEF HostStores
<1>2. mem \in [Addr -> Byte] BY DEF CacheInv, BytecodeInv, DataTypeOK
<1>3. w[1] # y
  <2> SUFFICES ASSUME w[1] = y PROVE FALSE OBVIOUS
  <2>1. s \in Nat BY Slots
  <2>2. SlotOf(y) = s /\ OffsetOf(y) = x BY <2>1, Here
  <2> HIDE DEF y
  <2>3. SlotOf(w[1]) = s /\ OffsetOf(w[1]) = x BY <2>2
  <2>4. s \in Mapped({SlotOf(w[1])}) BY <2>3 DEF Mapped
  <2>5. s \in ChangedSlots(w[1]) BY <2>3, <2>4 DEF ChangedSlots
  <2> QED BY <1>1, <2>5
<1> HIDE DEF y
<1>4. mem'[y] = mem[y] BY <1>1, <1>2, <1>3 DEF Written, y
<1> QED BY <1>4 DEF y

LEMMA RemapsKeep ==
  ASSUME CacheInv, RemapsBeginInAreas, RemapRemovesRange, HostRemaps,
         NEW s \in Slot, map[s] # NoPage, s \notin doomed',
         NEW x \in Offset, s * PageSize + x \in Addr
  PROVE  mem'[s * PageSize + x] = mem[s * PageSize + x]
<1> DEFINE y == s * PageSize + x
<1>1. PICK r \in Remaps : mem' = Filled(mem, r) /\ doomed' = RemappedSlots(r[1], r[2])
  BY DEF HostRemaps
<1>2. r[1] \in Nat /\ r[2] \in Nat
  BY ConstantsAssumption DEF Addr
<1>3. s \in Nat /\ x \in Nat /\ y \in Nat BY Slots, Here
<1>4. SlotOf(y) = s BY <1>3, Here
<1> HIDE DEF y
<1>5. y \notin r[1] .. r[2]
  <2> SUFFICES ASSUME y \in r[1] .. r[2] PROVE FALSE OBVIOUS
  <2>1. s \in SlotOf(r[1]) .. SlotOf(r[2])
    BY <1>2, <1>3, <1>4, Sizes, Places DEF SlotOf
  <2>2. s \in Mapped(SlotOf(r[1]) .. SlotOf(r[2])) BY <2>1 DEF Mapped
  <2> QED BY <1>1, <2>2 DEF RemapRemovesRange
<1>6. mem'[y] = mem[y] BY <1>1, <1>5 DEF Filled, y
<1> QED BY <1>6 DEF y

\* An instruction of a page whose contents stay.
LEMMA StartKept ==
  ASSUME NEW p \in Page, NEW o \in Offset, entries'[p] = entries[p], v'[p] = v[p],
         pc # "compile"
  PROVE  /\ Starts(p, o)' = Starts(p, o) /\ BytesAt(p, o)' = BytesAt(p, o)
         /\ StartOK(p, o) => StartOK(p, o)'
<1>1. Starts(p, o)' = Starts(p, o) BY DEF Starts
<1>2. BytesAt(p, o)' = BytesAt(p, o) /\ DecodedAt(p, o)' = DecodedAt(p, o)
  BY DEF BytesAt, DecodedAt, WordAt
<1>3. \A x, k, m, op : LeadsOn(p, x, k, m, op) => LeadsOn(p, x, k, m, op)'
  BY DEF LeadsOn, Pending
<1>4. \A k, m : PlainCoded(p, o, k, m) => PlainCoded(p, o, k, m)'
  BY <1>3 DEF PlainCoded, WordAt, InBytecode
<1>5. \A k, m : Coded(p, o, k, m) => Coded(p, o, k, m)'
  BY <1>4 DEF Coded, HaltCoded, WordAt, InBytecode
<1> QED BY <1>1, <1>2, <1>5 DEF StartOK, Covers

\* The steps that leave the contents of all of them alone.
LEMMA BlocksKept ==
  ASSUME BlockInv, HaltInv, UNCHANGED <<entries, v>>, pc # "compile"
  PROVE  BlockInv' /\ HaltInv'
<1>1. HaltInv' BY DEF HaltInv
<1>2. BlockInv' BY StartKept DEF BlockInv
<1> QED BY <1>1, <1>2

\* The calls of the host.
LEMMA HostCallCode ==
  ASSUME JitInv, RemapsBeginInAreas, RemapRemovesRange, HostCall
  PROVE  BlockInv' /\ MemInv' /\ BlockDisInv' /\ Ready' /\ RunInv' /\ DoomInv' /\ HaltInv'
<1> USE DEF JitInv, At
<1>1. /\ UNCHANGED <<entries, v, map, lock_page, pos>> /\ pc = "idle" /\ doomed = {}
      /\ \/ UNCHANGED <<current_page, current_pos>>
         \/ current_page' = NoPage
  BY DEF HostCall, ExecNextInst, Interrupt, HostWrite, ClearAreas, Reset, listVars,
         pageVars, runVars, localVars
<1>2. BlockInv' /\ HaltInv' BY <1>1, BlocksKept
<1>3. /\ pc' \in {"idle", "lock", "goto"}
      /\ pc' # "goto" => UNCHANGED <<eip, is32>>
      /\ doomed' # {} => pc' = "goto" \/ (pc' = "idle" /\ HostCalls # {})
  BY DEF HostCall, ExecNextInst, Interrupt, HostWrite, ClearAreas, Reset, localVars, guestVars
<1>4. BlockDisInv' /\ RunInv' /\ DoomInv' BY <1>3 DEF BlockDisInv, RunInv, DoomInv
<1>5. Ready'
  <2> SUFFICES ASSUME pc' \in {"idle", "lock", "stop"}, current_page' # NoPage
               PROVE  OnHalt' \/ AtEntry(eip, current_page, current_pos)'
    BY DEF Ready
  <2>1. UNCHANGED <<current_page, current_pos, eip, is32>> BY <1>1, <1>3
  <2>2. OnHalt \/ AtEntry(eip, current_page, current_pos) BY <1>1, <2>1 DEF Ready
  <2>3. OnHalt' = OnHalt BY <1>1, <2>1 DEF OnHalt, WordAt
  <2> QED BY <1>1, <2>1, <2>2, <2>3 DEF AtEntry
<1>6. MemInv'
  <2>1. SUFFICES ASSUME NEW s \in Slot, map'[s] # NoPage, s \notin doomed', NEW x \in Offset,
                        entries[map[s]][x].ind # NULL_ENTRY, s * PageSize + x \in Addr
                 PROVE  mem'[s * PageSize + x] = mem[s * PageSize + x]
    BY <1>1, MemKept
  <2>2. CASE HostStores(Push) \/ HostStores(Stores)
    BY <1>1, <2>1, <2>2, StoresKeep, ConstantsAssumption
  <2>3. CASE HostRemaps BY <1>1, <2>1, <2>3, RemapsKeep
  <2>4. CASE mem' = mem BY <2>4
  <2> QED
    BY <2>2, <2>3, <2>4 DEF HostCall, ExecNextInst, Interrupt, HostWrite, ClearAreas, Reset,
                            guestVars
<1> QED BY <1>2, <1>4, <1>5, <1>6

\* remove_page in a step that leaves the contents of the pages alone.
LEMMA RemoveKeeps ==
  ASSUME CacheInv, BlockInv, MemInv, NEW s \in Slot, map[s] # NoPage,
         NEW pg \in PageOrNone, NEW at, RemovePage(s, pg, at),
         UNCHANGED <<mem, entries, v>>, doomed' = doomed \ {s}
  PROVE  MemInv'
<1>1. \A t \in Slot : map'[t] = IF t = s THEN NoPage ELSE map[t]
  BY RemoveMap DEF CacheInv, ListInv, ListsConsistent
<1>2. \A t \in Slot : map'[t] # NoPage /\ t \notin doomed' => t \notin doomed
  BY <1>1
<1> QED BY <1>1, <1>2, MemKept

LEMMA RemoveDoomedCode ==
  ASSUME JitInv, RemoveDoomed
  PROVE  /\ BlockInv' /\ MemInv' /\ BlockDisInv' /\ Ready' /\ RunInv' /\ DoomInv' /\ HaltInv'
         /\ pc = "run" => Leaving /\ Leaving'
<1> USE DEF JitInv
<1>1. PICK s \in doomed : /\ RemovePage(s, current_page, current_pos)
                          /\ doomed' = doomed \ {s}
  BY DEF RemoveDoomed
<1>2. UNCHANGED <<mem, eip, is32, entries, v, pc, pos>> /\ doomed # {}
  BY DEF RemoveDoomed, guestVars, pageVars
<1>3. /\ ListTypeOK /\ MapOK /\ PhaseOK /\ PlaceInv
      /\ s \in Slot /\ map[s] # NoPage /\ current_page \in PageOrNone
  BY DEF CacheInv, BytecodeInv, ListInv, ListsConsistent, ListTypeOK, MapOK
<1>4. pc \in {"goto", "run", "idle"} BY <1>2 DEF DoomInv
<1>5. BlockInv' /\ HaltInv' BY <1>2, <1>4, BlocksKept
<1>6. MemInv' BY <1>1, <1>2, <1>3, RemoveKeeps
<1>7. BlockDisInv' /\ DoomInv' BY <1>1, <1>2, <1>4 DEF BlockDisInv, DoomInv
<1>8. \A t \in Slot : map'[t] = IF t = s THEN NoPage ELSE map[t]
  BY <1>1, <1>3, RemoveMap
<1>9. /\ current_page' = (IF current_page = map[s] THEN NoPage ELSE current_page)
      /\ current_page' # NoPage => current_pos' = current_pos
      /\ lock_page' = lock_page
  BY <1>1 DEF RemovePage
<1>10. Ready'
  <2> SUFFICES ASSUME pc' \in {"idle", "lock", "stop"}, current_page' # NoPage
               PROVE  OnHalt' \/ AtEntry(eip, current_page, current_pos)'
    BY DEF Ready
  <2>1. UNCHANGED <<current_page, current_pos>> /\ current_page # map[s] BY <1>9
  <2>2. OnHalt \/ AtEntry(eip, current_page, current_pos) BY <1>2, <2>1 DEF Ready
  <2>3. OnHalt' = OnHalt BY <1>2, <2>1 DEF OnHalt, WordAt
  <2>4. AtEntry(eip, current_page, current_pos) => map'[SlotOf(eip)] = map[SlotOf(eip)]
    BY <1>8, <2>1 DEF AtEntry
  <2> QED BY <1>2, <2>1, <2>2, <2>3, <2>4 DEF AtEntry
<1>11. ASSUME pc = "run" PROVE Leaving /\ Leaving'
  <2>1. Leaving BY <1>2, <1>11 DEF RunInv, Starting, Again, InHalt, Going
  <2>2. UNCHANGED <<Word, WordAt(lock_page, pos - 1)>> BY <1>2, <1>9 DEF Word, WordAt
  <2>3. ASSUME current_page' # NoPage
        PROVE  /\ SlotOf(eip) \in Slot /\ map'[SlotOf(eip)] = lock_page
               /\ current_pos' = pos - 1
    <3>1. current_page = lock_page /\ current_page # map[s] /\ current_page # NoPage
      BY <1>3, <1>9, <1>11, <2>3 DEF PlaceInv
    <3>2. SlotOf(eip) \in Slot /\ map[SlotOf(eip)] = lock_page /\ current_pos = pos - 1
      BY <2>1, <3>1 DEF Leaving
    <3> QED BY <1>8, <1>9, <2>3, <3>1, <3>2
  <2> QED BY <1>2, <1>9, <2>1, <2>2, <2>3 DEF Leaving
<1>12. RunInv' BY <1>2, <1>11 DEF RunInv
<1> QED BY <1>5, <1>6, <1>7, <1>10, <1>11, <1>12

\* What a step of goto_eip or of the decoder must show of the memory: the
\* instructions it leaves were there, or are in memory.
LEMMA MemCode ==
  ASSUME CacheInv, MemInv, UNCHANGED mem, doomed = {},
         \A s \in Slot : \A o \in Offset :
           map'[s] # NoPage /\ Starts(map[s], o)' =>
             \/ /\ map'[s] = map[s] /\ Starts(map[s], o)
                /\ BytesAt(map[s], o)' = BytesAt(map[s], o)
             \/ /\ Same(s, o, BytesAt(map[s], o)) '
                /\ Fetched(s, o, Len(BytesAt(map[s], o)))'
  PROVE  MemInv'
<1> SUFFICES ASSUME NEW s \in Slot, map'[s] # NoPage, NEW o \in Offset, Starts(map[s], o)'
             PROVE  /\ Same(s, o, BytesAt(map[s], o))'
                    /\ Fetched(s, o, Len(BytesAt(map[s], o)))'
  BY DEF MemInv
<1>1. CASE /\ map'[s] = map[s] /\ Starts(map[s], o)
           /\ BytesAt(map[s], o)' = BytesAt(map[s], o)
  <2>1. Same(s, o, BytesAt(map[s], o)) /\ Fetched(s, o, Len(BytesAt(map[s], o)))
    BY <1>1 DEF MemInv
  <2> QED BY <1>1, <2>1 DEF Same, Fetched
<1> QED BY <1>1

\* get_new_page gives a page without instructions.
LEMMA NewPageBlank ==
  ASSUME JitInv, NewPage, NEW p, p = current_page'
  PROVE  /\ pc = "goto" /\ pc' = "goto" /\ doomed = {} /\ doomed' = {} /\ UNCHANGED mem
         /\ p \in Page /\ p \notin Live
         /\ \A t \in Slot : map'[t] = IF t = Eslot THEN p ELSE map[t]
         /\ v'[p] = <<>>
         /\ \A q \in Page \ {p} : entries'[q] = entries[q] /\ v'[q] = v[q]
         /\ \A o \in Offset : ~Starts(p, o)'
<1> USE DEF JitInv
<1>1. /\ pc = "goto" /\ pc' = "goto" /\ doomed = {} /\ doomed' = {}
      /\ Eslot \in Slot /\ map[Eslot] = NoPage /\ GetNewPage(Eslot) /\ mem' = mem
  BY DEF NewPage, InSlot, At, localVars, guestVars
<1>2. /\ p \in Page /\ p \notin Live
      /\ \A t \in Slot : map'[t] = IF t = Eslot THEN p ELSE map[t]
  BY <1>1, NewSets DEF CacheInv, ListInv, ListTypeOK
<1>3. /\ v' = [v EXCEPT ![p] = <<>>]
      /\ \A q \in Page \ {p} : entries'[q] = entries[q]
  <2>1. entries \in [Page -> [Offset -> [ind : Nat, is32 : BOOLEAN]]]
    BY DEF CacheInv, BytecodeInv, DataTypeOK
  <2> QED BY <1>1, <2>1 DEF GetNewPage
<1>4. /\ v'[p] = <<>> /\ \A q \in Page \ {p} : v'[q] = v[q]
  <2>1. v \in [Page -> Seq(Words)] BY DEF CacheInv, BytecodeInv, CodeInv
  <2> QED BY <1>2, <1>3, <2>1
<1>5. \A o \in Offset : ~Starts(p, o)'
  <2>1. EntriesInv' BY NewPageBytecode DEF BytecodeInv
  <2>2. \A o \in Offset : entries'[p][o].ind > PAD_ENTRY
          => entries'[p][o].ind - 1 \in 1 .. Len(v'[p])
    BY <1>2, <2>1 DEF EntriesInv, InBytecode
  <2>3. Len(v'[p]) = 0 BY <1>4
  <2>4. 1 .. 0 = {} OBVIOUS
  <2> QED BY <2>2, <2>3, <2>4 DEF Starts
<1> QED BY <1>1, <1>2, <1>3, <1>4, <1>5

LEMMA NewPageCode ==
  ASSUME JitInv, NewPage
  PROVE  BlockInv' /\ MemInv' /\ BlockDisInv' /\ Ready' /\ RunInv' /\ DoomInv' /\ HaltInv'
<1> USE DEF JitInv
<1>0. PICK p : p = current_page' OBVIOUS
<1>1. /\ pc = "goto" /\ pc' = "goto" /\ doomed = {} /\ doomed' = {} /\ mem' = mem
      /\ p \in Page /\ p \notin Live
      /\ \A t \in Slot : map'[t] = IF t = Eslot THEN p ELSE map[t]
      /\ v'[p] = <<>>
      /\ \A q \in Page \ {p} : entries'[q] = entries[q] /\ v'[q] = v[q]
      /\ \A o \in Offset : ~Starts(p, o)'
  BY <1>0, NewPageBlank
<1>2. BlockInv'
  <2> SUFFICES ASSUME NEW q \in Page, NEW o \in Offset, Starts(q, o)' PROVE StartOK(q, o)'
    BY DEF BlockInv
  <2>1. q # p BY <1>1
  <2> QED BY <1>1, <2>1, StartKept DEF BlockInv
<1>3. HaltInv'
  <2>1. \A q \in Page : Len(v'[q]) = 0 \/ v'[q] = v[q] BY <1>1
  <2> QED BY <2>1 DEF HaltInv
<1>4. MemInv'
  <2> SUFFICES ASSUME NEW s \in Slot, NEW o \in Offset, map'[s] # NoPage, Starts(map[s], o)'
               PROVE  /\ map'[s] = map[s] /\ Starts(map[s], o)
                      /\ BytesAt(map[s], o)' = BytesAt(map[s], o)
    BY <1>1, MemCode
  <2>1. map'[s] = map[s] BY <1>1
  <2>2. map[s] \in Page /\ map[s] \in Live
    BY <2>1 DEF CacheInv, ListInv, ListTypeOK, PageOrNone, Live
  <2>3. map[s] # p BY <1>1, <2>2
  <2>4. PICK q \in Page : q = map[s] BY <2>2
  <2>5. Starts(q, o)' = Starts(q, o) /\ BytesAt(q, o)' = BytesAt(q, o)
    BY <1>1, <2>3, <2>4, StartKept
  <2> QED BY <2>1, <2>4, <2>5
<1>5. BlockDisInv' /\ Ready' /\ RunInv' /\ DoomInv'
  BY <1>1 DEF BlockDisInv, Ready, RunInv, DoomInv
<1> QED BY <1>2, <1>3, <1>4, <1>5

\* goto_eip_body.
LEMMA GotoEipCode ==
  ASSUME JitInv, GotoEip
  PROVE  BlockInv' /\ MemInv' /\ BlockDisInv' /\ Ready' /\ RunInv' /\ DoomInv' /\ HaltInv'
<1> USE DEF JitInv, At, InSlot
<1>1. CASE NewPage BY <1>1, NewPageCode
<1>2. CASE OutOfRange \/ Hit \/ Decode
  <2>1. /\ UNCHANGED <<mem, eip, is32, entries, v, map, doomed>> /\ pc = "goto" /\ doomed = {}
    BY <1>2 DEF OutOfRange, Hit, Decode, guestVars, listVars, pageVars
  <2>2. BlockInv' /\ HaltInv' BY <2>1, BlocksKept
  <2>3. MemInv' BY <2>1, MemKept
  <2>4. RunInv' /\ DoomInv'
    <3>1. pc' # "run"
      <4>1. after # "run" BY DEF CacheInv, ListInv, ListTypeOK
      <4> QED BY <1>2, <4>1 DEF OutOfRange, Hit, Decode
    <3> QED BY <2>1, <3>1 DEF RunInv, DoomInv
  <2>5. BlockDisInv'
    <3>1. CASE Decode
      <4>1. pc' = "dis" /\ dis' = <<>> BY <3>1 DEF Decode
      <4>2. Len(dis') = 0 /\ 1 .. 0 = {} BY <4>1
      <4>3. \A i \in 1 .. Len(dis') : FALSE BY <4>2
      <4> QED BY <4>1, <4>3 DEF BlockDisInv, DisListInv, CompileInv
    <3>2. CASE OutOfRange \/ Hit
      <4>1. after \notin {"dis", "compile"} BY DEF CacheInv, ListInv, ListTypeOK
      <4> QED BY <3>2, <4>1 DEF OutOfRange, Hit, BlockDisInv
    <3> QED BY <1>2, <3>1, <3>2
  <2>6. Ready'
    <3>1. CASE OutOfRange \/ Decode BY <3>1 DEF OutOfRange, Decode, Ready
    <3>2. CASE Hit
      <4>1. /\ Eslot \in Slot /\ map[Eslot] # NoPage /\ Usable(Entry)
            /\ current_page' = map[Eslot] /\ current_pos' = Entry.ind
        BY <3>2 DEF Hit
      <4>2. map[Eslot] \in Page /\ OffsetOf(eip) \in Offset /\ DataTypeOK
        BY <4>1, Offsets DEF CacheInv, ListInv, ListTypeOK, PageOrNone, BytecodeInv, DataTypeOK
      <4>3. Entry \in [ind : Nat, is32 : BOOLEAN] BY <4>2 DEF Entry, DataTypeOK
      <4>4. Entry = [ind |-> Entry.ind, is32 |-> is32] BY <4>1, <4>3 DEF Usable
      <4>5. AtEntry(eip, current_page, current_pos)'
        BY <2>1, <4>1, <4>4 DEF AtEntry, Eslot, Entry, Usable
      <4> QED BY <4>5 DEF Ready
    <3> QED BY <1>2, <3>1, <3>2
  <2> QED BY <2>2, <2>3, <2>4, <2>5, <2>6
<1>3. CASE Stale
  <2>1. /\ UNCHANGED <<mem, entries, v, doomed, pc>> /\ pc = "goto" /\ doomed = {}
        /\ Eslot \in Slot /\ map[Eslot] # NoPage
        /\ RemovePage(Eslot, map[Eslot], Entry.ind) /\ doomed' = doomed \ {Eslot}
    BY <1>3 DEF Stale, guestVars, pageVars, localVars
  <2>2. map[Eslot] \in PageOrNone BY <2>1 DEF CacheInv, ListInv, ListTypeOK
  <2>3. BlockInv' /\ HaltInv' BY <2>1, BlocksKept
  <2>4. MemInv' BY <2>1, <2>2, RemoveKeeps
  <2>5. BlockDisInv' /\ Ready' /\ RunInv' /\ DoomInv'
    BY <2>1 DEF BlockDisInv, Ready, RunInv, DoomInv
  <2> QED BY <2>3, <2>4, <2>5
<1> QED BY <1>1, <1>2, <1>3 DEF GotoEip

-----------------------------------------------------------------------------
\* The decoder. An instruction of a page that gets more entries and more words.
LEMMA StartGrows ==
  ASSUME CacheInv, NEW p \in Page, NEW o \in Offset, Starts(p, o), StartOK(p, o),
         Len(v'[p]) \in Nat, Len(v[p]) <= Len(v'[p]),
         \A i \in 1 .. Len(v[p]) : v'[p][i] = v[p][i],
         \A x \in Offset : entries[p][x].ind > PAD_ENTRY => entries'[p][x] = entries[p][x],
         \A x \in Offset : entries[p][x].ind # NULL_ENTRY => entries'[p][x].ind # NULL_ENTRY,
         \A x \in Nat, k \in Nat : \A m, op : Pending(p, x, k, m, op) => LeadsOn(p, x, k, m, op)'
  PROVE  StartOK(p, o)' /\ BytesAt(p, o)' = BytesAt(p, o)
<1>0. PICK k \in Nat, m \in BOOLEAN : entries[p][o] = [ind |-> k, is32 |-> m]
  BY StartTyped
<1>1. /\ k > PAD_ENTRY /\ InBytecode(p, k) /\ entries[p][o].ind = k /\ entries[p][o].is32 = m
      /\ entries'[p][o] = entries[p][o]
  BY <1>0, StartTyped DEF Starts
<1>2. Len(v[p]) \in Nat
  <2>1. v \in [Page -> Seq(Words)] BY DEF CacheInv, BytecodeInv, CodeInv
  <2> QED BY <2>1
<1>3. \A j \in Nat : InBytecode(p, j) => InBytecode(p, j)' /\ WordAt(p, j)' = WordAt(p, j)
  BY <1>2 DEF InBytecode, WordAt
<1>4. WordAt(p, k).op = "inc" => HaltCoded(p, k)
  BY <1>1 DEF StartOK, Coded, PlainCoded
<1>5. WordAt(p, k)' = WordAt(p, k) /\ k + 1 \in Nat /\ k + 2 \in Nat
  BY <1>1, <1>3
<1>6. DecodedAt(p, o)' = DecodedAt(p, o)
  <2>1. CASE WordAt(p, k).op = "inc"
    <3>1. WordAt(p, k + 1)' = WordAt(p, k + 1) BY <1>3, <1>4, <1>5, <2>1 DEF HaltCoded
    <3> QED BY <1>1, <1>5, <2>1, <3>1 DEF DecodedAt
  <2>2. CASE WordAt(p, k).op # "inc" BY <1>1, <1>5, <2>2 DEF DecodedAt
  <2> QED BY <2>1, <2>2
<1>7. BytesAt(p, o)' = BytesAt(p, o) BY <1>6 DEF BytesAt
<1>8. Decodes(BytesAt(p, o), m, DecodedAt(p, o).op) /\ Len(BytesAt(p, o)) \in Nat
  BY <1>1 DEF StartOK, Decodes
<1>9. Covers(p, o, Len(BytesAt(p, o)))'
  <2>1. Covers(p, o, Len(BytesAt(p, o))) BY DEF StartOK
  <2>2. \A i \in 1 .. Len(BytesAt(p, o)) : o + i <= PageSize => o + i - 1 \in Offset
    BY <1>8, Sizes DEF Offset
  <2> QED BY <1>7, <2>1, <2>2 DEF Covers
<1>10. Coded(p, o, k, m) BY <1>1 DEF StartOK
<1>11. Coded(p, o, k, m)'
  <2>1. CASE HaltCoded(p, k)
    <3>1. InBytecode(p, k + 1)' /\ WordAt(p, k + 1)' = WordAt(p, k + 1)
      BY <1>3, <1>5, <2>1 DEF HaltCoded
    <3>2. HaltCoded(p, k)' BY <1>5, <2>1, <3>1 DEF HaltCoded
    <3> QED BY <3>2 DEF Coded
  <2>2. CASE WordAt(p, k).op \in {"jump", "far"} BY <1>5, <2>2 DEF Coded
  <2>3. CASE PlainCoded(p, o, k, m)
    <3>1. InBytecode(p, k + 1)' /\ WordAt(p, k + 1)' = WordAt(p, k + 1)
      BY <1>3, <1>5, <2>3 DEF PlainCoded
    <3>2. ~WordAt(p, k + 1).stop =>
            InBytecode(p, k + 2)' /\ WordAt(p, k + 2)' = WordAt(p, k + 2)
      BY <1>3, <1>5, <2>3 DEF PlainCoded
    <3>3. WordAt(p, k).op # "inc" BY <2>3 DEF PlainCoded
    <3>4. BytesAt(p, o) = WordAt(p, k).bytes BY <1>1, <3>3 DEF BytesAt, DecodedAt
    <3>5. o + Len(WordAt(p, k).bytes) \in Nat BY <1>8, <3>4, Slots
    <3>6. ASSUME NEW x \in Nat, NEW op, LeadsOn(p, x, k + 2, m, op)
          PROVE  LeadsOn(p, x, k + 2, m, op)'
      <4>1. CASE x < PageSize /\ op # "cr0" /\ entries[p][x] = [ind |-> k + 2, is32 |-> m]
        <5>1. x \in Offset BY <4>1, Sizes DEF Offset
        <5>2. entries[p][x].ind > PAD_ENTRY BY <1>1, <4>1 DEF PAD_ENTRY
        <5>3. entries'[p][x] = entries[p][x] BY <5>1, <5>2
        <5> QED BY <4>1, <5>3 DEF LeadsOn
      <4>2. CASE Pending(p, x, k + 2, m, op) BY <1>5, <4>2
      <4> QED BY <3>6, <4>1, <4>2 DEF LeadsOn
    <3>7. PlainCoded(p, o, k, m)'
      BY <1>5, <2>3, <3>1, <3>2, <3>5, <3>6 DEF PlainCoded
    <3> QED BY <3>7 DEF Coded
  <2> QED BY <1>10, <2>1, <2>2, <2>3 DEF Coded
<1> QED BY <1>1, <1>6, <1>7, <1>8, <1>9, <1>11 DEF StartOK

\* Where dis_insts is in the page of EIP.
LEMMA DisHere ==
  ASSUME JitInv, pc = "dis", ~BlockEnds, Decodable
  PROVE  /\ DisAddr \in Nat /\ SlotOf(DisAddr) = Eslot
         /\ dis # <<>> => OffsetOf(DisAddr) = OffsetOf(LastDis.addr) + Len(LastDis.bytes)
<1> USE DEF JitInv
<1>1. DisAddr \in Nat BY DisPlace
<1>2. CASE dis = <<>>
  <2>1. DisAddr = eip BY <1>2 DEF DisAddr
  <2> QED BY <1>1, <1>2, <2>1 DEF Eslot
<1>3. CASE dis # <<>>
  <2>1. dis \in Seq(DisRecords) /\ Len(dis) \in 1 .. Len(dis)
    BY <1>3, EmptySeq DEF CacheInv, BytecodeInv, DisInv
  <2>2. LastDis \in DisRecords /\ SlotOf(LastDis.addr) = Eslot
    BY <2>1 DEF LastDis, BlockDisInv, DisListInv, DisOK
  <2>3. LastDis.addr \in Nat /\ Len(LastDis.bytes) \in Nat BY <2>2 DEF DisRecords
  <2>4. OffsetOf(LastDis.addr) + Len(LastDis.bytes) < PageSize
    <3>1. ~(OffsetOf(LastDis.addr) + Len(LastDis.bytes) >= PageSize)
      BY <1>3 DEF BlockEnds
    <3>2. OffsetOf(LastDis.addr) \in Nat BY <2>3, Offsets DEF Offset
    <3> QED BY <2>3, <3>1, <3>2, Sizes
  <2>5. DisAddr = LastDis.addr + Len(LastDis.bytes) BY <1>3 DEF DisAddr, LastDis
  <2> QED BY <1>1, <2>2, <2>3, <2>4, <2>5, Further
<1> QED BY <1>2, <1>3

\* One more instruction: no entry in use changes, and its own bytes are marked.
LEMMA DisMarks ==
  ASSUME JitInv, DisInst
  PROVE  /\ \A q \in Page : q # current_page => entries'[q] = entries[q]
         /\ \A x \in Offset : entries[current_page][x].ind # NULL_ENTRY
              => entries'[current_page][x] = entries[current_page][x]
         /\ \A x \in Offset : entries'[current_page][x] = entries[current_page][x]
              \/ entries'[current_page][x] = [ind |-> PAD_ENTRY, is32 |-> is32]
         /\ dis' # <<>> =>
              /\ \A x \in OffsetOf(DisAddr) .. OffsetOf(DisAddr) + DisLen - 1 : x < PageSize =>
                   entries'[current_page][x] = [ind |-> PAD_ENTRY, is32 |-> is32]
              /\ dis' = Append(dis, [addr |-> DisAddr,
                                     bytes |-> [i \in 1 .. DisLen |-> mem[DisAddr + i - 1]]])
              /\ pc' = "dis"
         /\ dis' = <<>> => pc' = "goto"
<1> DEFINE p == current_page
           e == OffsetOf(DisAddr)
           bytes == {o \in e .. (e + DisLen - 1) : o < PageSize}
           used == {o \in bytes : entries[p][o].ind # NULL_ENTRY}
           marked == {o \in bytes : \A u \in used : o < u}
           pad == [ind |-> PAD_ENTRY, is32 |-> is32]
           page == [o \in Offset |-> IF o \in marked THEN pad ELSE entries[p][o]]
<1>1. /\ pc = "dis" /\ ~BlockEnds /\ Decodable /\ entries' = [entries EXCEPT ![p] = page]
  BY DEF DisInst, At
<1>2. /\ DisAddr \in Nat /\ DisLen \in 1 .. MaxLen /\ e \in Offset
      /\ \A i \in 1 .. DisLen : mem[DisAddr + i - 1] \in Byte
  BY <1>1, DisPlace DEF JitInv
<1>3. p \in Page /\ entries \in [Page -> [Offset -> [ind : Nat, is32 : BOOLEAN]]]
  BY <1>1 DEF JitInv, CacheInv, ListInv, ListsConsistent, ListTypeOK, PhaseOK, PageOrNone,
              BytecodeInv, DataTypeOK
<1>4. bytes \subseteq Offset BY <1>2, Sizes DEF Offset
<1>5. ASSUME NEW x \in Offset, entries[p][x].ind # NULL_ENTRY PROVE x \notin marked
  <2> SUFFICES ASSUME x \in marked PROVE FALSE OBVIOUS
  <2>1. x \in used BY <1>5
  <2>2. x < x BY <2>1
  <2>3. x \in Nat BY Slots
  <2> QED BY <2>2, <2>3
<1>6. used = {} => marked = bytes OBVIOUS
<1> HIDE DEF marked, used, pad
<1>7. /\ entries'[p] = page /\ \A q \in Page \ {p} : entries'[q] = entries[q]
  BY <1>1, <1>3
<1>8. \A x \in Offset : page[x] = IF x \in marked THEN pad ELSE entries[p][x]
  OBVIOUS
<1> HIDE DEF page
<1>9. CASE used = {}
  <2> DEFINE code == [i \in 1 .. DisLen |-> mem[DisAddr + i - 1]]
             d == [addr |-> DisAddr, bytes |-> code]
  <2>1. dis' = Append(dis, d) /\ pc' = "dis"
    BY <1>1, <1>9 DEF DisInst, runVars, used
  <2>2. dis' # <<>>
    <3>1. dis \in Seq(DisRecords) BY <1>1 DEF JitInv, CacheInv, BytecodeInv, DisInv
    <3>2. Len(dis') = Len(dis) + 1 /\ Len(dis) \in Nat BY <2>1, <3>1
    <3> QED BY <3>2
  <2>3. \A x \in e .. e + DisLen - 1 : x < PageSize => entries'[p][x] = pad
    BY <1>4, <1>6, <1>7, <1>8, <1>9
  <2> QED BY <1>5, <1>7, <1>8, <2>1, <2>2, <2>3 DEF pad
<1>10. CASE used # {}
  <2>1. dis' = <<>> /\ pc' = "goto" BY <1>10 DEF DisInst, used
  <2> QED BY <1>5, <1>7, <1>8, <2>1 DEF pad
<1> QED BY <1>9, <1>10

\* An instruction dis_insts has decoded, in a page that gets more entries.
LEMMA DisKept ==
  ASSUME NEW d \in DisRecords, DisOK(d), UNCHANGED <<mem, eip, is32, current_page>>,
         \A x \in Offset : entries[current_page][x].ind # NULL_ENTRY
              => entries'[current_page][x].ind # NULL_ENTRY,
         entries'[current_page][OffsetOf(d.addr)] = entries[current_page][OffsetOf(d.addr)]
  PROVE  DisOK(d)'
<1> DEFINE o == OffsetOf(d.addr)
           n == Len(d.bytes)
<1>1. d.addr \in Nat /\ n \in Nat BY DEF DisRecords
<1>2. o \in Nat BY <1>1, Offsets, Slots
<1>3. Covers(current_page, o, n) BY DEF DisOK
<1> HIDE DEF o, n
<1>4. \A i \in 1 .. n : o + i <= PageSize => o + i - 1 \in Offset
  BY <1>1, <1>2, Sizes DEF Offset
<1>5. Covers(current_page, o, n)' BY <1>3, <1>4 DEF Covers, o, n
<1>6. Eslot' = Eslot BY DEF Eslot
<1>7. Same(Eslot, o, d.bytes)' BY <1>6 DEF Same, DisOK, o
<1> QED BY <1>5, <1>6, <1>7 DEF DisOK, Fetched, o, n

\* The instruction that dis_insts has just read.
LEMMA DisNew ==
  ASSUME JitInv, DisInst, dis' # <<>>, NEW d,
         d = [addr |-> DisAddr, bytes |-> [i \in 1 .. DisLen |-> mem[DisAddr + i - 1]]],
         UNCHANGED <<mem, eip, is32, current_page>>
  PROVE  d \in DisRecords /\ DisOK(d)'
<1> DEFINE code == [i \in 1 .. DisLen |-> mem[DisAddr + i - 1]]
           e == OffsetOf(d.addr)
           n == Len(d.bytes)
<1>1. pc = "dis" /\ ~BlockEnds /\ Decodable BY DEF DisInst, At
<1>2. /\ DisAddr \in Nat /\ DisLen \in 1 .. MaxLen
      /\ SlotOf(DisAddr) = Eslot
      /\ \A i \in 1 .. DisLen : mem[DisAddr + i - 1] \in Byte
  BY <1>1, DisPlace, DisHere DEF JitInv
<1>2a. d = [addr |-> DisAddr, bytes |-> code] OBVIOUS
<1>3. code \in Seq(Byte) /\ Len(code) = DisLen /\ code # <<>>
  <2>0. DisLen \in Nat /\ 1 \in 1 .. DisLen BY <1>2
  <2>1. code \in [1 .. DisLen -> Byte] /\ DisLen \in Nat /\ 1 \in DOMAIN code
    <3> HIDE DEF n, e
    <3> QED BY <1>2, <2>0
  <2>2. code \in Seq(Byte) BY <2>1, SeqDef
  <2>3. DOMAIN code = 1 .. DisLen OBVIOUS
  <2> HIDE DEF code
  <2>4. Len(code) = DisLen BY <2>1, <2>2, <2>3, LenProperties
  <2> QED BY <2>1, <2>2, <2>4
<1>4. code[1] = mem[DisAddr] /\ \A i \in 1 .. DisLen : code[i] = mem[DisAddr + i - 1]
  BY <1>2
<1> HIDE DEF code
<1>5. d.addr = DisAddr /\ d.bytes = code /\ n = DisLen /\ d \in DisRecords
  <2>1. d.addr = DisAddr /\ d.bytes = code BY <1>2a
  <2>2. code \in Seq(Byte) \ {<<>>} BY <1>3
  <2>3. d \in DisRecords BY <1>2, <1>2a, <2>2 DEF DisRecords
  <2> QED BY <1>3, <2>1, <2>3
<1>6. Decodes(d.bytes, is32, OpOf(d))
  BY <1>3, <1>4, <1>5 DEF Decodes, OpOf, DisLen
<1>7. \A x \in e .. e + n - 1 : x < PageSize =>
        entries'[current_page][x] = [ind |-> PAD_ENTRY, is32 |-> is32]
  BY <1>5, DisMarks
<1>8. d.addr = Eslot * PageSize + e /\ e \in Nat /\ e < PageSize /\ Eslot \in Nat /\ n \in 1 .. MaxLen
  BY <1>2, <1>5, Places, Slots, Sizes DEF Offset
<1> HIDE DEF e, n
<1>9. Covers(current_page, e, n)'
  <2> SUFFICES ASSUME NEW i \in 1 .. n, e + i <= PageSize
               PROVE  entries'[current_page][e + i - 1].ind # NULL_ENTRY
    BY DEF Covers
  <2>1. e + i - 1 \in e .. e + n - 1 /\ e + i - 1 < PageSize
    BY <1>8, Sizes
  <2> QED BY <1>7, <2>1 DEF NULL_ENTRY, PAD_ENTRY
<1>10. entries'[current_page][e] = [ind |-> PAD_ENTRY, is32 |-> is32]
  <2>1. e \in e .. e + n - 1 BY <1>8
  <2> QED BY <1>7, <1>8, <2>1
<1>11. Same(Eslot, e, d.bytes)
  <2> DEFINE t == Eslot * PageSize
  <2>1. t \in Nat BY <1>8, Sizes
  <2>2. d.addr = t + e BY <1>8
  <2> HIDE DEF t
  <2>3. \A i \in 1 .. n : t + e + i - 1 = d.addr + i - 1 BY <1>8, <2>1, <2>2
  <2>4. \A i \in 1 .. n : mem[t + e + i - 1] = d.bytes[i] BY <1>4, <1>5, <2>3
  <2> QED BY <2>4 DEF Same, n, t
<1>12. Fetched(Eslot, e, n)
  <2>1. d.addr .. d.addr + n - 1 \subseteq Fetchable BY <1>1, <1>5 DEF Decodable
  <2> QED BY <1>8, <2>1 DEF Fetched
<1>13. Eslot' = Eslot BY DEF Eslot
<1>14. Same(Eslot, e, d.bytes)' /\ Fetched(Eslot, e, n)'
  BY <1>11, <1>12, <1>13 DEF Same, Fetched
<1>15. SlotOf(d.addr) = Eslot' BY <1>2, <1>5, <1>13
<1>16. Decodes(d.bytes, is32, OpOf(d))' BY <1>6 DEF Decodes, OpOf
<1>17. DisOK(d)'
  BY <1>9, <1>10, <1>14, <1>15, <1>16 DEF DisOK, e, n
<1> QED BY <1>5, <1>17

LEMMA DisInstCode ==
  ASSUME JitInv, DisInst
  PROVE  BlockInv' /\ MemInv' /\ BlockDisInv' /\ Ready' /\ RunInv' /\ DoomInv' /\ HaltInv'
<1> USE DEF JitInv
<1>1. /\ pc = "dis" /\ ~BlockEnds /\ Decodable /\ doomed = {} /\ doomed' = {}
      /\ UNCHANGED <<mem, eip, is32, v>>
  BY DEF DisInst, At, guestVars
<1>2. PICK p \in Page : p = current_page
  BY <1>1 DEF CacheInv, ListInv, ListsConsistent, ListTypeOK, PhaseOK, PageOrNone
<1>3. /\ \A q \in Page : q # p => entries'[q] = entries[q]
      /\ \A x \in Offset : entries[p][x].ind # NULL_ENTRY => entries'[p][x] = entries[p][x]
      /\ \A x \in Offset : entries'[p][x] = entries[p][x] \/ entries'[p][x].ind = PAD_ENTRY
  BY <1>2, DisMarks
<1>4. \A q \in Page : \A o \in Offset : Starts(q, o)' => Starts(q, o)
  BY <1>3 DEF Starts, PAD_ENTRY
<1>5. \A q \in Page : \A o \in Offset : Starts(q, o)' =>
        StartOK(q, o)' /\ BytesAt(q, o)' = BytesAt(q, o)
  <2> SUFFICES ASSUME NEW q \in Page, NEW o \in Offset, Starts(q, o)'
               PROVE  StartOK(q, o)' /\ BytesAt(q, o)' = BytesAt(q, o)
    OBVIOUS
  <2>1. Starts(q, o) /\ StartOK(q, o) BY <1>4 DEF BlockInv
  <2>2. \A x \in Offset : entries[q][x].ind # NULL_ENTRY => entries'[q][x] = entries[q][x]
    BY <1>3
  <2>3. Len(v[q]) \in Nat BY DEF CacheInv, BytecodeInv, CodeInv
  <2>4. \A x, k, m, op : ~Pending(q, x, k, m, op) BY <1>1 DEF Pending
  <2> QED BY <1>1, <2>1, <2>2, <2>3, <2>4, StartGrows DEF NULL_ENTRY, PAD_ENTRY
<1>6. BlockInv' BY <1>5 DEF BlockInv
<1>7. HaltInv' BY <1>1 DEF HaltInv
<1>8. \A s \in Slot : map'[s] = map[s] \/ map'[s] = NoPage
  <2>1. RemovePage(Eslot, current_page, current_pos) \/ UNCHANGED map
    BY DEF DisInst, listVars
  <2>2. CASE RemovePage(Eslot, current_page, current_pos)
    <3>1. \A t \in Slot : map'[t] = IF t = Eslot THEN NoPage ELSE map[t]
      BY <2>2 DEF RemovePage, CacheInv, ListInv, ListTypeOK
    <3> QED BY <3>1
  <2> QED BY <2>1, <2>2
<1>9. MemInv'
  <2> SUFFICES ASSUME NEW s \in Slot, NEW o \in Offset, map'[s] # NoPage, Starts(map[s], o)'
               PROVE  /\ map'[s] = map[s] /\ Starts(map[s], o)
                      /\ BytesAt(map[s], o)' = BytesAt(map[s], o)
    BY <1>1, MemCode
  <2>1. map'[s] = map[s] BY <1>8
  <2>2. PICK q \in Page : q = map[s]
    BY <2>1 DEF CacheInv, ListInv, ListTypeOK, PageOrNone
  <2>3. Starts(q, o)' BY <2>1, <2>2
  <2> QED BY <1>4, <1>5, <2>1, <2>2, <2>3
<1>10. DoomInv' BY <1>1 DEF DoomInv
<1>11. CASE dis' = <<>>
  <2>1. pc' = "goto" BY <1>11, DisMarks
  <2> QED BY <1>6, <1>7, <1>9, <1>10, <2>1 DEF BlockDisInv, Ready, RunInv
<1>12. CASE dis' # <<>>
  <2>1. PICK d : d = [addr |-> DisAddr, bytes |-> [i \in 1 .. DisLen |-> mem[DisAddr + i - 1]]]
    OBVIOUS
  <2>2. dis' = Append(dis, d) /\ pc' = "dis" BY <1>12, <2>1, DisMarks
  <2>3. UNCHANGED current_page BY <1>1, <2>2 DEF DisInst, runVars
  <2>4. d \in DisRecords /\ DisOK(d)' BY <1>1, <1>12, <2>1, <2>3, DisNew
  <2>5. dis \in Seq(DisRecords) /\ Len(dis) \in Nat
    BY <1>1 DEF CacheInv, BytecodeInv, DisInv
  <2>6. DisListInv /\ CompileInv BY <1>1 DEF BlockDisInv
  <2>7. /\ Len(dis') = Len(dis) + 1 /\ \A i \in 1 .. Len(dis) : dis'[i] = dis[i]
        /\ dis'[Len(dis) + 1] = d
    BY <2>2, <2>4, <2>5, AppendProperties
  <2>8. ASSUME NEW i \in 1 .. Len(dis) PROVE DisOK(dis[i])'
    <3>1. PICK c \in DisRecords : c = dis[i] /\ dis'[i] = c BY <2>5, <2>7
    <3>2. DisOK(c) BY <2>6, <3>1 DEF DisListInv
    <3>3. OffsetOf(c.addr) \in Offset
      <4>1. c.addr \in Nat BY <3>1 DEF DisRecords
      <4> QED BY <4>1, Offsets
    <3>4. entries'[p][OffsetOf(c.addr)] = entries[p][OffsetOf(c.addr)]
      BY <1>2, <1>3, <3>2, <3>3 DEF DisOK, NULL_ENTRY, PAD_ENTRY
    <3>5. DisOK(c)' BY <1>1, <1>2, <1>3, <2>3, <3>2, <3>4, DisKept
    <3> QED BY <3>1, <3>5
  <2>9. \A i \in 1 .. Len(dis') : DisOK(dis[i])'
    <3>1. \A i \in 1 .. Len(dis') : i \in 1 .. Len(dis) \/ dis'[i] = d BY <2>5, <2>7
    <3> QED BY <2>4, <2>8, <3>1
  <2>10. /\ dis # <<>> => /\ OffsetOf(DisAddr) = OffsetOf(LastDis.addr) + Len(LastDis.bytes)
                          /\ Len(LastDis.bytes) \in Nat /\ Len(LastDis.bytes) > 0
                          /\ LastDis = dis[Len(dis)] /\ ~EndsBlock(OpOf(LastDis))
         /\ d.addr = DisAddr
    <3>1. d.addr = DisAddr BY <2>1
    <3>2. ASSUME dis # <<>>
          PROVE  /\ Len(LastDis.bytes) \in Nat /\ Len(LastDis.bytes) > 0
                 /\ LastDis = dis[Len(dis)]
      <4>1. Len(dis) \in 1 .. Len(dis) BY <2>5, <3>2, EmptySeq
      <4>2. LastDis \in DisRecords /\ LastDis = dis[Len(dis)] BY <2>5, <4>1 DEF LastDis
      <4>3. LastDis.bytes \in Seq(Byte) /\ LastDis.bytes # <<>> BY <4>2 DEF DisRecords
      <4> QED BY <4>2, <4>3, EmptySeq
    <3>3. dis # <<>> => ~EndsBlock(OpOf(LastDis)) BY <1>1 DEF BlockEnds
    <3> QED BY <1>1, <3>1, <3>2, <3>3, DisHere
  <2>11. \A i \in 1 .. Len(dis) : OffsetOf(dis[i].addr) \in Nat
    <3>1. \A i \in 1 .. Len(dis) : dis[i] \in DisRecords BY <2>5
    <3>2. \A i \in 1 .. Len(dis) : dis[i].addr \in Nat BY <3>1 DEF DisRecords
    <3> QED BY <3>2, Offsets, Slots
  <2>12. \A i \in 1 .. Len(dis) : OffsetOf(dis[i].addr) < OffsetOf(d.addr)
    <3> SUFFICES ASSUME NEW i \in 1 .. Len(dis)
                 PROVE  OffsetOf(dis[i].addr) < OffsetOf(d.addr)
      OBVIOUS
    <3>1. dis # <<>> /\ Len(dis) \in 1 .. Len(dis) BY <2>5
    <3>2. i = Len(dis) \/ OffsetOf(dis[i].addr) < OffsetOf(dis[Len(dis)].addr)
      <4>1. i = Len(dis) \/ i < Len(dis) BY <2>5
      <4> QED BY <2>6, <3>1, <4>1 DEF DisListInv
    <3>3. OffsetOf(dis[Len(dis)].addr) < OffsetOf(d.addr) BY <2>10, <2>11, <3>1
    <3>4. OffsetOf(d.addr) \in Nat BY <2>10, <2>11, <3>1
    <3> QED BY <2>11, <3>1, <3>2, <3>3, <3>4
  <2>13. \A i, j \in 1 .. Len(dis') : i < j => OffsetOf(dis'[i].addr) < OffsetOf(dis'[j].addr)
    <3> SUFFICES ASSUME NEW i \in 1 .. Len(dis'), NEW j \in 1 .. Len(dis'), i < j
                 PROVE  OffsetOf(dis'[i].addr) < OffsetOf(dis'[j].addr)
      OBVIOUS
    <3>1. i \in 1 .. Len(dis) BY <2>5, <2>7
    <3>2. j \in 1 .. Len(dis) \/ j = Len(dis) + 1 BY <2>5, <2>7
    <3> QED BY <2>6, <2>7, <2>12, <3>1, <3>2 DEF DisListInv
  <2>14. \A i \in 1 .. Len(dis') : i + 1 <= Len(dis') =>
           /\ OffsetOf(dis'[i + 1].addr) = OffsetOf(dis'[i].addr) + Len(dis'[i].bytes)
           /\ ~EndsBlock(OpOf(dis'[i]))
    <3> SUFFICES ASSUME NEW i \in 1 .. Len(dis'), i + 1 <= Len(dis')
                 PROVE  /\ OffsetOf(dis'[i + 1].addr) = OffsetOf(dis'[i].addr) + Len(dis'[i].bytes)
                        /\ ~EndsBlock(OpOf(dis'[i]))
      OBVIOUS
    <3>1. i \in 1 .. Len(dis) /\ dis'[i] = dis[i] /\ dis # <<>> BY <2>5, <2>7
    <3>2. CASE i = Len(dis)
      <4>1. dis'[i + 1] = d /\ dis[i] = LastDis BY <2>7, <2>10, <3>1, <3>2
      <4> QED BY <2>10, <3>1, <4>1
    <3>3. CASE i # Len(dis)
      <4>1. i + 1 \in 1 .. Len(dis) /\ i + 1 <= Len(dis) BY <2>5, <3>1, <3>3
      <4> QED BY <2>6, <2>7, <3>1, <4>1 DEF DisListInv
    <3> QED BY <3>2, <3>3
  <2>15. DisListInv' BY <2>9, <2>13, <2>14 DEF DisListInv, OpOf
  <2>16. dis'[1].addr = eip
    <3>1. CASE dis = <<>>
      <4>1. dis'[1] = d BY <2>7, <3>1
      <4> QED BY <2>10, <3>1, <4>1 DEF DisAddr
    <3>2. CASE dis # <<>>
      <4>1. 1 \in 1 .. Len(dis) BY <2>5, <3>2, EmptySeq
      <4> QED BY <1>1, <2>6, <2>7, <3>2, <4>1 DEF CompileInv
    <3> QED BY <3>1, <3>2
  <2>17. CompileInv' BY <1>1, <2>2, <2>16 DEF CompileInv
  <2>18. BlockDisInv' BY <2>15, <2>17 DEF BlockDisInv
  <2> QED BY <1>6, <1>7, <1>9, <1>10, <2>2, <2>18 DEF Ready, RunInv
<1> QED BY <1>11, <1>12

\* The words compile makes of an instruction.
LEMMA Compiled ==
  ASSUME NEW d \in DisRecords
  PROVE  /\ OpOf(d) \in Kinds
         /\ OpOf(d) = "halt" =>
              /\ Len(compile(d)) = 2 /\ compile(d)[1].op = "inc" /\ ~compile(d)[1].stop
              /\ compile(d)[1].len = Len(d.bytes)
              /\ compile(d)[2].op = "halt" /\ compile(d)[2].bytes = d.bytes
         /\ OpOf(d) \in {"jump", "far"} =>
              /\ Len(compile(d)) = 1
              /\ compile(d)[1].op = OpOf(d) /\ compile(d)[1].bytes = d.bytes
         /\ OpOf(d) \in {"seq", "store", "out", "cr0"} =>
              /\ Len(compile(d)) = 2
              /\ compile(d)[1].op = OpOf(d) /\ compile(d)[1].bytes = d.bytes
              /\ compile(d)[2].op = "inc" /\ compile(d)[2].stop
              /\ compile(d)[2].len = Len(d.bytes)
<1>1. d.bytes \in Seq(Byte) /\ d.bytes # <<>> BY DEF DisRecords
<1>2. d.bytes[1] \in Byte BY <1>1, EmptySeq
<1>3. OpOf(d) \in Kinds BY <1>2, ConstantsAssumption DEF OpOf
<1> DEFINE w == Inst(d.bytes)
           x == Inc(Len(d.bytes), FALSE)
           y == Inc(Len(d.bytes), TRUE)
<1>4. w.op = OpOf(d) /\ w.bytes = d.bytes BY DEF Inst, OpOf
<1>5. /\ x.op = "inc" /\ ~x.stop /\ x.len = Len(d.bytes)
      /\ y.op = "inc" /\ y.stop /\ y.len = Len(d.bytes)
  BY DEF Inc
<1>6. ASSUME OpOf(d) = "halt" PROVE compile(d) = <<x, w>> BY <1>6 DEF compile
<1>7. ASSUME OpOf(d) \in {"jump", "far"} PROVE compile(d) = <<w>> BY <1>7 DEF compile
<1>8. ASSUME OpOf(d) \in {"seq", "store", "out", "cr0"} PROVE compile(d) = <<w, y>>
  BY <1>8 DEF compile
<1> HIDE DEF w, x, y
<1> QED BY <1>3, <1>4, <1>5, <1>6, <1>7, <1>8

\* What compile does to its page p: instruction d, at offset e, gets the words
\* after the first L.
Writes(p, d, e, L) ==
  /\ d \in DisRecords /\ DisOK(d) /\ e \in Offset /\ L \in Nat
  /\ entries[p][e] = [ind |-> PAD_ENTRY, is32 |-> is32]
  /\ entries'[p][e] = [ind |-> L + 2, is32 |-> is32]
  /\ \A q \in Page : \A o \in Offset : (q = p /\ o = e) \/ entries'[q][o] = entries[q][o]
  /\ \A q \in Page : q # p => v'[q] = v[q]
  /\ Len(v'[p]) = L + Len(compile(d))
  /\ \A i \in 1 .. L : v'[p][i] = v[p][i]
  /\ v'[p][L + 1] = compile(d)[1]
  /\ Len(compile(d)) = 2 => v'[p][L + 2] = compile(d)[2]

LEMMA CompileWrites ==
  ASSUME JitInv, CompileInst, NEW p \in Page, p = current_page, NEW d, d = dis[1],
         NEW e, e = OffsetOf(d.addr), NEW L, L = Len(v[p])
  PROVE  Writes(p, d, e, L)
<1> USE DEF JitInv
<1>1. pc = "compile" /\ dis # <<>> BY DEF CompileInst, At
<1>2. dis \in Seq(DisRecords) BY <1>1 DEF CacheInv, BytecodeInv, DisInv
<1>3. d \in DisRecords /\ 1 \in 1 .. Len(dis) BY <1>1, <1>2, EmptySeq
<1>4. DisOK(d) BY <1>1, <1>3 DEF BlockDisInv, DisListInv
<1>5. e \in Offset
  <2>1. d.addr \in Nat BY <1>3 DEF DisRecords
  <2> QED BY <2>1, Offsets
<1>6. v \in [Page -> Seq(Words)] /\ entries \in [Page -> [Offset -> [ind : Nat, is32 : BOOLEAN]]]
  BY DEF CacheInv, BytecodeInv, CodeInv, DataTypeOK
<1>7. v[p] \in Seq(Words) /\ L \in Nat BY <1>6
<1>8. entries[p][e] = [ind |-> PAD_ENTRY, is32 |-> is32] BY <1>4 DEF DisOK
<1>9. compile(d) \in Seq(Words) /\ Len(compile(d)) \in {1, 2} BY <1>3, CompileMakes
<1>10. /\ entries' = [entries EXCEPT ![p][e].ind = L + 2]
       /\ v' = [v EXCEPT ![p] = v[p] \o compile(d)]
  BY DEF CompileInst
<1>11. v'[p] = v[p] \o compile(d) /\ \A q \in Page : q # p => v'[q] = v[q]
  BY <1>6, <1>10
<1>12. /\ Len(v'[p]) = L + Len(compile(d))
       /\ \A i \in 1 .. L : v'[p][i] = v[p][i]
       /\ v'[p][L + 1] = compile(d)[1]
       /\ Len(compile(d)) = 2 => v'[p][L + 2] = compile(d)[2]
  <2> DEFINE c == compile(d)
             s == v[p]
  <2>1. s \in Seq(Words) /\ c \in Seq(Words) /\ Len(c) \in {1, 2} /\ Len(s) = L /\ v'[p] = s \o c
    BY <1>7, <1>9, <1>11
  <2> HIDE DEF c, s
  <2>2. /\ Len(s \o c) = L + Len(c)
        /\ \A i \in 1 .. L + Len(c) : (s \o c)[i] = IF i <= L THEN s[i] ELSE c[i - L]
    <3>1. s \in Seq(Words) /\ c \in Seq(Words) /\ Len(s) = L BY <2>1
    <3> QED BY ONLY <3>1, ConcatProperties
  <2>3. ASSUME NEW n, n \in {1, 2}
        PROVE  /\ L + 1 \in 1 .. L + n /\ ~(L + 1 <= L) /\ (L + 1) - L = 1
               /\ \A i \in 1 .. L : i \in 1 .. L + n /\ i <= L
    BY <1>7, <2>3
  <2>4. L + 2 \in 1 .. L + 2 /\ ~(L + 2 <= L) /\ (L + 2) - L = 2
    BY <1>7
  <2> QED BY <2>1, <2>2, <2>3, <2>4 DEF c, s
<1>13. /\ entries'[p][e] = [ind |-> L + 2, is32 |-> is32]
       /\ \A q \in Page : \A o \in Offset : (q = p /\ o = e) \/ entries'[q][o] = entries[q][o]
  <2> DEFINE w == [entries[p][e] EXCEPT !.ind = L + 2]
             g == [entries[p] EXCEPT ![e] = w]
  <2>1. w = [ind |-> L + 2, is32 |-> is32] BY <1>8
  <2>2. entries' = [entries EXCEPT ![p] = g] BY <1>10
  <2> HIDE DEF w
  <2>3. g[e] = w /\ \A o \in Offset \ {e} : g[o] = entries[p][o] BY <1>5, <1>6
  <2> HIDE DEF g
  <2> QED BY <1>6, <2>1, <2>2, <2>3
<1> QED BY <1>3, <1>4, <1>5, <1>7, <1>8, <1>11, <1>12, <1>13 DEF Writes

\* The block goes on after the instruction compile has just written.
LEMMA CompileGoesOn ==
  ASSUME JitInv, CompileInst, NEW p \in Page, p = current_page, NEW d, d = dis[1],
         NEW e, e = OffsetOf(d.addr)
  PROVE  /\ pc = "compile" /\ pc' = "compile" /\ doomed = {} /\ doomed' = {}
         /\ UNCHANGED <<mem, eip, is32, map, current_page, current_pos>>
         /\ dis \in Seq(DisRecords) /\ Len(dis) \in Nat /\ Len(dis) > 0
         /\ Len(dis') = Len(dis) - 1
         /\ \A i \in 1 .. Len(dis) - 1 : dis'[i] = dis[i + 1]
         /\ dis' # <<>> => Len(dis) >= 2
         /\ dis' # <<>> => /\ OffsetOf(dis'[1].addr) = e + Len(d.bytes)
                           /\ e + Len(d.bytes) < PageSize /\ ~EndsBlock(OpOf(d))
<1> USE DEF JitInv
<1>1. /\ pc = "compile" /\ pc' = "compile" /\ doomed = {} /\ doomed' = {} /\ dis # <<>>
      /\ UNCHANGED <<mem, eip, is32, map, current_page, current_pos>> /\ dis' = Tail(dis)
  BY DEF CompileInst, At, guestVars, listVars, runVars
<1>2. dis \in Seq(DisRecords) /\ Len(dis) \in Nat /\ Len(dis) > 0
  BY <1>1, EmptySeq DEF CacheInv, BytecodeInv, DisInv
<1>3. /\ Tail(dis) \in Seq(DisRecords) /\ Len(Tail(dis)) = Len(dis) - 1
      /\ \A i \in 1 .. Len(dis) - 1 : Tail(dis)[i] = dis[i + 1]
  BY <1>2
<1>4. dis' # <<>> => Len(dis) >= 2
  <2>1. Tail(dis) # <<>> => Len(Tail(dis)) > 0 BY <1>3, EmptySeq
  <2> QED BY <1>1, <1>2, <1>3, <2>1
<1>5. ASSUME dis' # <<>>
      PROVE  /\ OffsetOf(dis'[1].addr) = e + Len(d.bytes)
             /\ e + Len(d.bytes) < PageSize /\ ~EndsBlock(OpOf(d))
  <2>1. Len(dis) >= 2 /\ 1 \in 1 .. Len(dis) - 1 /\ 1 \in 1 .. Len(dis) /\ 2 \in 1 .. Len(dis)
        /\ 1 + 1 <= Len(dis)
    BY <1>2, <1>4, <1>5
  <2>2. dis'[1] = dis[1 + 1] /\ 1 + 1 = 2 BY <1>1, <1>3, <2>1
  <2>3. DisListInv BY <1>1 DEF BlockDisInv
  <2>4. OffsetOf(dis[1 + 1].addr) = e + Len(d.bytes) /\ ~EndsBlock(OpOf(d))
    BY <2>1, <2>3 DEF DisListInv
  <2>5. dis[2] \in DisRecords BY <1>2, <2>1
  <2>6. dis[2].addr \in Nat BY <2>5 DEF DisRecords
  <2>7. OffsetOf(dis[2].addr) \in Offset BY <2>6, Offsets
  <2>8. OffsetOf(dis[2].addr) < PageSize BY <2>7, Sizes DEF Offset
  <2> QED BY <2>2, <2>4, <2>8
<1> QED BY <1>1, <1>2, <1>3, <1>4, <1>5

\* The instruction compile has just written.
LEMMA CompileHead ==
  ASSUME JitInv, CompileInst, NEW p \in Page, p = current_page, NEW d, d = dis[1],
         NEW e, e = OffsetOf(d.addr)
  PROVE  StartOK(p, e)' /\ BytesAt(p, e)' = d.bytes
<1>0. PICK L : L = Len(v[p]) OBVIOUS
<1>1. /\ d \in DisRecords /\ DisOK(d) /\ e \in Offset /\ L \in Nat
      /\ entries[p][e] = [ind |-> PAD_ENTRY, is32 |-> is32]
      /\ entries'[p][e] = [ind |-> L + 2, is32 |-> is32]
      /\ \A q \in Page : \A o \in Offset : (q = p /\ o = e) \/ entries'[q][o] = entries[q][o]
      /\ Len(v'[p]) = L + Len(compile(d))
      /\ v'[p][L + 1] = compile(d)[1]
      /\ Len(compile(d)) = 2 => v'[p][L + 2] = compile(d)[2]
  <2>1. Writes(p, d, e, L) BY <1>0, CompileWrites
  <2> QED BY <2>1 DEF Writes
<1>2. /\ pc' = "compile" /\ UNCHANGED <<is32, current_page>>
      /\ dis' # <<>> => /\ OffsetOf(dis'[1].addr) = e + Len(d.bytes)
                        /\ e + Len(d.bytes) < PageSize /\ ~EndsBlock(OpOf(d))
  BY CompileGoesOn
<1>3. /\ Decodes(d.bytes, is32, OpOf(d)) /\ Covers(p, e, Len(d.bytes))
  BY <1>1 DEF DisOK
<1>4. entries'[p][e].ind = L + 2 /\ entries'[p][e].is32 = is32 BY <1>1
<1>5. /\ L + 2 \in Nat /\ (L + 2) - 1 = L + 1 /\ ((L + 2) + 1) - 1 = L + 2
      /\ L + 1 \in 1 .. L + 1 /\ L + 2 \in 1 .. L + 2 /\ (L + 2) + 2 = (L + 2) + 2
  BY <1>1
<1>6. /\ WordAt(p, L + 2)' = compile(d)[1]
      /\ Len(compile(d)) = 2 => WordAt(p, (L + 2) + 1)' = compile(d)[2]
                                /\ InBytecode(p, (L + 2) + 1)'
  BY <1>1, <1>5 DEF WordAt, InBytecode
<1>7. OpOf(d) \in {"seq", "store", "out", "cr0", "jump", "far", "halt"}
  BY <1>1, Compiled DEF Kinds
<1>8. /\ DecodedAt(p, e)'.op = OpOf(d) /\ DecodedAt(p, e)'.bytes = d.bytes
      /\ Coded(p, e, L + 2, is32)'
  <2>1. CASE OpOf(d) = "halt"
    <3>0. /\ Len(compile(d)) = 2 /\ compile(d)[1].op = "inc" /\ ~compile(d)[1].stop
          /\ compile(d)[1].len = Len(d.bytes)
          /\ compile(d)[2].op = "halt" /\ compile(d)[2].bytes = d.bytes
      BY <1>1, <2>1, Compiled
    <3>1. HaltCoded(p, L + 2)' BY <1>6, <3>0 DEF HaltCoded
    <3>2. DecodedAt(p, e)' = WordAt(p, (L + 2) + 1)'
      BY <1>1, <1>4, <1>6, <2>1, Compiled DEF DecodedAt
    <3> QED BY <1>1, <1>6, <2>1, <3>1, <3>2, Compiled DEF Coded
  <2>2. CASE OpOf(d) \in {"jump", "far"}
    <3>1. WordAt(p, L + 2)'.op = OpOf(d) /\ WordAt(p, L + 2)'.bytes = d.bytes
      BY <1>1, <1>6, <2>2, Compiled
    <3>2. DecodedAt(p, e)' = WordAt(p, L + 2)' BY <1>4, <2>2, <3>1 DEF DecodedAt
    <3> QED BY <2>2, <3>1, <3>2 DEF Coded
  <2>3. CASE OpOf(d) \in {"seq", "store", "out", "cr0"}
    <3>1. /\ WordAt(p, L + 2)'.op = OpOf(d) /\ WordAt(p, L + 2)'.bytes = d.bytes
          /\ WordAt(p, (L + 2) + 1)'.op = "inc" /\ WordAt(p, (L + 2) + 1)'.stop
          /\ WordAt(p, (L + 2) + 1)'.len = Len(d.bytes)
          /\ InBytecode(p, (L + 2) + 1)' /\ Len(v'[p]) = L + 2
      BY <1>1, <1>6, <2>3, Compiled
    <3>2. DecodedAt(p, e)' = WordAt(p, L + 2)' BY <1>4, <2>3, <3>1 DEF DecodedAt
    <3>3. Pending(p, e + Len(d.bytes), (L + 2) + 2, is32, OpOf(d))'
      <4>1. (dis # <<>> => /\ OffsetOf(dis[1].addr) = e + Len(d.bytes)
                           /\ e + Len(d.bytes) < PageSize /\ is32 = is32
                           /\ OpOf(d) # "cr0")'
        BY <1>2 DEF EndsBlock, OpOf
      <4> QED BY <1>2, <3>1, <4>1 DEF Pending, OpOf
    <3>4. PlainCoded(p, e, L + 2, is32)'
      BY <2>3, <3>1, <3>3 DEF PlainCoded, LeadsOn, OpOf
    <3> QED BY <3>1, <3>2, <3>4 DEF Coded
  <2> QED BY <1>7, <2>1, <2>2, <2>3
<1>9. BytesAt(p, e)' = d.bytes BY <1>8 DEF BytesAt
<1>10. Decodes(BytesAt(p, e), is32, DecodedAt(p, e).op)'
  BY <1>2, <1>3, <1>8, <1>9 DEF Decodes
<1>11. Covers(p, e, Len(d.bytes))'
  <2>1. e \in Nat /\ Len(d.bytes) \in Nat BY <1>1, Slots DEF DisRecords
  <2>2. ASSUME NEW i \in 1 .. Len(d.bytes), e + i <= PageSize
        PROVE  entries'[p][e + i - 1].ind # NULL_ENTRY
    <3>1. e + i - 1 \in Offset BY <2>1, <2>2, Sizes DEF Offset
    <3>2. entries[p][e + i - 1].ind # NULL_ENTRY BY <1>3, <2>2 DEF Covers
    <3>3. entries'[p][e].ind # NULL_ENTRY BY <1>1, <1>4 DEF NULL_ENTRY
    <3> QED BY <1>1, <3>1, <3>2, <3>3
  <2> QED BY <2>2 DEF Covers
<1>12. Coded(p, e, entries[p][e].ind, entries[p][e].is32)' BY <1>2, <1>4, <1>8
<1>13. Decodes(BytesAt(p, e), entries[p][e].is32, DecodedAt(p, e).op)'
  BY <1>2, <1>4, <1>10
<1>14. Covers(p, e, Len(BytesAt(p, e)))' BY <1>9, <1>11 DEF Covers
<1> QED BY <1>9, <1>12, <1>13, <1>14 DEF StartOK

\* The other instructions stay, and the one before leads on to the new one.
LEMMA CompileKeeps ==
  ASSUME JitInv, CompileInst, NEW p \in Page, p = current_page, NEW d, d = dis[1],
         NEW e, e = OffsetOf(d.addr), NEW q \in Page, NEW o \in Offset, ~(q = p /\ o = e)
  PROVE  /\ entries'[q][o] = entries[q][o] /\ Starts(q, o)' = Starts(q, o)
         /\ Starts(q, o) => StartOK(q, o)' /\ BytesAt(q, o)' = BytesAt(q, o)
<1> USE DEF JitInv
<1>0. PICK L : L = Len(v[p]) OBVIOUS
<1>1. Writes(p, d, e, L) BY <1>0, CompileWrites
<1>2. entries'[q][o] = entries[q][o] BY <1>1 DEF Writes
<1>3. Starts(q, o)' = Starts(q, o) BY <1>2 DEF Starts
<1>4. ASSUME Starts(q, o) PROVE StartOK(q, o)' /\ BytesAt(q, o)' = BytesAt(q, o)
  <2>1. StartOK(q, o) BY <1>4 DEF BlockInv
  <2>2. v \in [Page -> Seq(Words)] BY DEF CacheInv, BytecodeInv, CodeInv
  <2>3. /\ L \in Nat /\ e \in Offset /\ entries[p][e] = [ind |-> PAD_ENTRY, is32 |-> is32]
        /\ entries'[p][e] = [ind |-> L + 2, is32 |-> is32]
        /\ \A x \in Offset : (q = p /\ x = e) \/ entries'[q][x] = entries[q][x]
    BY <1>1 DEF Writes
  <2>4. /\ Len(v[q]) \in Nat /\ Len(v'[q]) \in Nat /\ Len(v[q]) <= Len(v'[q])
        /\ \A i \in 1 .. Len(v[q]) : v'[q][i] = v[q][i]
    <3>1. CASE q = p
      <4>1. /\ Len(v'[p]) = L + Len(compile(d)) /\ \A i \in 1 .. L : v'[p][i] = v[p][i]
            /\ d \in DisRecords
        BY <1>1 DEF Writes
      <4>2. Len(compile(d)) \in {1, 2} BY <4>1, CompileMakes
      <4>3. \A n \in {1, 2} : L + n \in Nat /\ L <= L + n BY <2>3
      <4> QED BY <1>0, <2>3, <3>1, <4>1, <4>2, <4>3
    <3>2. CASE q # p
      <4>1. v'[q] = v[q] BY <1>1, <3>2 DEF Writes
      <4> QED BY <2>2, <4>1
    <3> QED BY <3>1, <3>2
  <2>5. \A x \in Offset : entries[q][x].ind > PAD_ENTRY => entries'[q][x] = entries[q][x]
    BY <2>3 DEF PAD_ENTRY
  <2>6. \A x \in Offset : entries[q][x].ind # NULL_ENTRY => entries'[q][x].ind # NULL_ENTRY
    BY <2>3 DEF NULL_ENTRY
  <2>7. ASSUME NEW x \in Nat, NEW k \in Nat, NEW m, NEW op, Pending(q, x, k, m, op)
        PROVE  LeadsOn(q, x, k, m, op)'
    <3>1. q = p /\ k = L + 2 /\ dis # <<>>
      BY <1>0, <2>7, CompileGoesOn, EmptySeq DEF Pending
    <3>2. x = e /\ x < PageSize /\ m = is32 /\ op # "cr0"
      BY <2>7, <3>1 DEF Pending
    <3> QED BY <2>3, <3>1, <3>2 DEF LeadsOn
  <2> QED BY <1>4, <2>1, <2>4, <2>5, <2>6, <2>7, StartGrows
<1> QED BY <1>2, <1>3, <1>4

\* One more instruction of the block is written.
LEMMA CompileInstCode ==
  ASSUME JitInv, CompileInst
  PROVE  BlockInv' /\ MemInv' /\ BlockDisInv' /\ Ready' /\ RunInv' /\ DoomInv' /\ HaltInv'
<1> USE DEF JitInv
<1>1. PICK p \in Page : p = current_page
  BY DEF CompileInst, At, CacheInv, ListInv, ListsConsistent, ListTypeOK, PhaseOK, PageOrNone
<1>2. PICK d, e, L : d = dis[1] /\ e = OffsetOf(d.addr) /\ L = Len(v[p])
  OBVIOUS
<1>3. Writes(p, d, e, L) BY <1>1, <1>2, CompileWrites
<1>4. StartOK(p, e)' /\ BytesAt(p, e)' = d.bytes BY <1>1, <1>2, CompileHead
<1>5. /\ pc = "compile" /\ pc' = "compile" /\ doomed = {} /\ doomed' = {}
      /\ UNCHANGED <<mem, eip, is32, map, current_page, current_pos>>
      /\ dis \in Seq(DisRecords) /\ Len(dis) \in Nat /\ Len(dis) > 0
      /\ Len(dis') = Len(dis) - 1
      /\ \A i \in 1 .. Len(dis) - 1 : dis'[i] = dis[i + 1]
  BY <1>1, <1>2, CompileGoesOn
<1>6. ASSUME NEW q \in Page, NEW o \in Offset, ~(q = p /\ o = e)
      PROVE  /\ entries'[q][o] = entries[q][o] /\ Starts(q, o)' = Starts(q, o)
             /\ Starts(q, o) => StartOK(q, o)' /\ BytesAt(q, o)' = BytesAt(q, o)
  BY <1>1, <1>2, <1>6, CompileKeeps
<1>7. BlockInv' BY <1>4, <1>6 DEF BlockInv
<1>8. PhaseOK /\ MapOK /\ DisListInv /\ CompileInv
  BY <1>5 DEF CacheInv, ListInv, ListsConsistent, BlockDisInv
<1>9. Eslot \in Slot /\ map[Eslot] = p BY <1>1, <1>5, <1>8 DEF PhaseOK
<1>10. MemInv'
  <2> SUFFICES ASSUME NEW s \in Slot, NEW o \in Offset, map'[s] # NoPage, Starts(map[s], o)'
               PROVE  \/ /\ map'[s] = map[s] /\ Starts(map[s], o)
                         /\ BytesAt(map[s], o)' = BytesAt(map[s], o)
                      \/ /\ Same(s, o, BytesAt(map[s], o))'
                         /\ Fetched(s, o, Len(BytesAt(map[s], o)))'
    BY <1>5, MemCode
  <2>1. PICK q \in Page : q = map[s] /\ q = map'[s]
    BY <1>5 DEF CacheInv, ListInv, ListTypeOK, PageOrNone
  <2>2. Starts(q, o)' BY <2>1
  <2>3. CASE q = p /\ o = e
    <3>1. s = Eslot BY <1>5, <1>8, <1>9, <2>1, <2>3 DEF MapOK
    <3>2. Same(s, o, d.bytes) /\ Fetched(s, o, Len(d.bytes))
      BY <1>2, <1>3, <2>3, <3>1 DEF Writes, DisOK
    <3>3. BytesAt(map[s], o)' = d.bytes BY <1>4, <2>1, <2>3
    <3> QED BY <1>5, <3>2, <3>3 DEF Same, Fetched
  <2>4. CASE ~(q = p /\ o = e)
    <3>1. Starts(q, o) /\ BytesAt(q, o)' = BytesAt(q, o) BY <1>6, <2>2, <2>4
    <3> QED BY <2>1, <3>1
  <2> QED BY <2>3, <2>4
<1>11. HaltInv'
  <2> SUFFICES ASSUME NEW q \in Page, NEW i \in 1 .. Len(v'[q]), v'[q][i].op = "halt"
               PROVE  \E b \in Byte : Kind[b] = "halt"
    BY DEF HaltInv
  <2>1. CASE q # p
    <3>1. v'[q] = v[q] BY <1>3, <2>1 DEF Writes
    <3> QED BY <3>1 DEF HaltInv
  <2>2. CASE q = p
    <3>1. /\ L \in Nat /\ d \in DisRecords /\ Len(v'[p]) = L + Len(compile(d))
          /\ \A j \in 1 .. L : v'[p][j] = v[p][j]
          /\ v'[p][L + 1] = compile(d)[1]
          /\ Len(compile(d)) = 2 => v'[p][L + 2] = compile(d)[2]
      BY <1>3 DEF Writes
    <3>2. CASE i \in 1 .. L BY <1>2, <2>2, <3>1, <3>2 DEF HaltInv
    <3>3. CASE i \notin 1 .. L
      <4>1. Len(compile(d)) \in {1, 2} BY <3>1, CompileMakes
      <4>2. \A n \in {1, 2} : \A j \in 1 .. L + n : j \in 1 .. L \/ j = L + 1 \/ (n = 2 /\ j = L + 2)
        BY <3>1
      <4>3. compile(d)[1].op = "halt" \/ (Len(compile(d)) = 2 /\ compile(d)[2].op = "halt")
        BY <2>2, <3>1, <3>3, <4>1, <4>2
      <4>4. OpOf(d) = "halt"
        <5>1. OpOf(d) \in {"seq", "store", "out", "cr0", "jump", "far", "halt"}
          BY <3>1, Compiled DEF Kinds
        <5> QED BY <3>1, <4>3, <5>1, Compiled
      <4>5. d.bytes \in Seq(Byte) /\ d.bytes # <<>> BY <3>1 DEF DisRecords
      <4>6. d.bytes[1] \in Byte BY <4>5, EmptySeq
      <4> QED BY <4>4, <4>6 DEF OpOf
    <3> QED BY <3>2, <3>3
  <2> QED BY <2>1, <2>2
<1>12. DisListInv'
  <2>1. \A i \in 1 .. Len(dis') : i + 1 \in 1 .. Len(dis) /\ i \in 1 .. Len(dis) - 1 /\ 1 < i + 1
                                  /\ 1 \in 1 .. Len(dis)
    BY <1>5
  <2>2. ASSUME NEW i \in 1 .. Len(dis') PROVE DisOK(dis[i])'
    <3>1. PICK c \in DisRecords : c = dis[i + 1] /\ dis'[i] = c BY <1>5, <2>1
    <3>2. DisOK(c) BY <1>8, <2>1, <3>1 DEF DisListInv
    <3>3. OffsetOf(c.addr) \in Offset
      <4>1. c.addr \in Nat BY <3>1 DEF DisRecords
      <4> QED BY <4>1, Offsets
    <3>4. OffsetOf(c.addr) # e
      <4>1. e < OffsetOf(c.addr) BY <1>2, <1>8, <2>1, <3>1 DEF DisListInv
      <4>2. OffsetOf(c.addr) \in Nat BY <3>3, Slots
      <4> QED BY <4>1, <4>2
    <3>5. entries'[p][OffsetOf(c.addr)] = entries[p][OffsetOf(c.addr)] BY <1>6, <3>3, <3>4
    <3>6. \A x \in Offset : entries[p][x].ind # NULL_ENTRY => entries'[p][x].ind # NULL_ENTRY
      <4>1. entries'[p][e].ind = L + 2 /\ L \in Nat BY <1>3 DEF Writes
      <4>2. \A x \in Offset : x # e => entries'[p][x] = entries[p][x] BY <1>6
      <4> QED BY <4>1, <4>2 DEF NULL_ENTRY
    <3>7. DisOK(c)' BY <1>1, <1>5, <3>2, <3>5, <3>6, DisKept
    <3> QED BY <3>1, <3>7
  <2>3. \A i \in 1 .. Len(dis') : dis'[i] = dis[i + 1] BY <1>5, <2>1
  <2>4. ASSUME NEW i \in 1 .. Len(dis'), NEW j \in 1 .. Len(dis'), i < j
        PROVE  OffsetOf(dis'[i].addr) < OffsetOf(dis'[j].addr)
    <3>1. i + 1 < j + 1 BY <1>5, <2>4
    <3> QED BY <1>8, <2>1, <2>3, <3>1 DEF DisListInv
  <2>5. ASSUME NEW i \in 1 .. Len(dis'), i + 1 <= Len(dis')
        PROVE  /\ OffsetOf(dis'[i + 1].addr) = OffsetOf(dis'[i].addr) + Len(dis'[i].bytes)
               /\ ~EndsBlock(OpOf(dis'[i]))
    <3>1. i + 1 \in 1 .. Len(dis') /\ (i + 1) + 1 <= Len(dis) BY <1>5, <2>5
    <3> QED BY <1>8, <2>1, <2>3, <3>1 DEF DisListInv
  <2>6. \A i \in 1 .. Len(dis') : DisOK(dis[i])' BY <2>2
  <2> QED BY <2>4, <2>5, <2>6 DEF DisListInv, OpOf
<1>13. CompileInv'
  <2>1. AtEntry(eip, current_page, current_pos)'
    <3>1. CASE dis[1].addr = eip /\ current_pos = Len(v[current_page]) + 2
      <4>1. entries'[p][e] = [ind |-> L + 2, is32 |-> is32] /\ L + 2 > PAD_ENTRY
        BY <1>3 DEF Writes, PAD_ENTRY
      <4> QED BY <1>1, <1>2, <1>5, <1>9, <3>1, <4>1 DEF AtEntry, Eslot
    <3>2. CASE AtEntry(eip, current_page, current_pos)
      <4>1. entries[p][OffsetOf(eip)] = [ind |-> current_pos, is32 |-> is32]
            /\ current_pos > PAD_ENTRY /\ current_pos \in Nat
        BY <1>1, <3>2 DEF AtEntry, CacheInv, BytecodeInv, DataTypeOK
      <4>2. OffsetOf(eip) \in Offset BY Offsets DEF CacheInv, BytecodeInv, DataTypeOK
      <4>3. OffsetOf(eip) # e
        <5>1. entries[p][e] = [ind |-> PAD_ENTRY, is32 |-> is32] BY <1>3 DEF Writes
        <5> QED BY <4>1, <5>1 DEF PAD_ENTRY
      <4>4. entries'[p][OffsetOf(eip)] = entries[p][OffsetOf(eip)] BY <1>6, <4>2, <4>3
      <4> QED BY <1>1, <1>5, <3>2, <4>4 DEF AtEntry
    <3> QED BY <1>5, <1>8, <3>1, <3>2 DEF CompileInv
  <2> QED BY <1>5, <2>1 DEF CompileInv
<1> QED BY <1>5, <1>7, <1>10, <1>11, <1>12, <1>13 DEF BlockDisInv, Ready, RunInv, DoomInv

\* The words of a bytecode that WithGoto closes.
LEMMA GotoWords ==
  ASSUME NEW s \in Seq(Words), HaltsAfterInc(s)
  PROVE  /\ Len(s) \in Nat /\ Len(WithGoto(s)) = Len(s) + 1
         /\ WithGoto(s)[Len(s) + 1].op = "goto"
         /\ \A i \in 1 .. Len(s) :
              /\ WithGoto(s)[i].op = s[i].op
              /\ s[i].op # "inc" \/ i < Len(s) => WithGoto(s)[i] = s[i]
              /\ s[i].op = "inc" => WithGoto(s)[i].len = s[i].len
              /\ s[i].op = "inc" /\ i = Len(s) => ~WithGoto(s)[i].stop
<1> DEFINE t == [i \in DOMAIN s |-> IF i = Len(s) /\ s[i].op = "inc"
                                    THEN [s[i] EXCEPT !.stop = FALSE] ELSE s[i]]
<1>1. Len(s) \in Nat /\ DOMAIN s = 1 .. Len(s) /\ \A i \in 1 .. Len(s) : s[i] \in Words
  BY LenProperties
<1>2. Len(WithGoto(s)) = Len(s) + 1 BY GotoCloses
<1>3. t \in Seq(Words) /\ Len(t) = Len(s)
  <2>1. \A w \in Increments : [w EXCEPT !.stop = FALSE] \in Increments BY DEF Increments
  <2>2. \A i \in 1 .. Len(s) : t[i] \in Words BY <1>1, <2>1, WordsTyped DEF Words
  <2>3. t \in [1 .. Len(s) -> Words] BY <1>1, <2>2
  <2>4. t \in Seq(Words) BY <1>1, <2>3, SeqDef
  <2> QED BY <1>1, <2>3, <2>4, LenProperties
<1>4. ASSUME NEW i \in 1 .. Len(s)
      PROVE  /\ t[i].op = s[i].op
             /\ s[i].op # "inc" \/ i < Len(s) => t[i] = s[i]
             /\ s[i].op = "inc" => t[i].len = s[i].len
             /\ s[i].op = "inc" /\ i = Len(s) => ~t[i].stop
  <2>1. CASE i = Len(s) /\ s[i].op = "inc"
    <3>1. s[i] \in Increments /\ t[i] = [s[i] EXCEPT !.stop = FALSE]
      BY <1>1, <2>1, WordsTyped
    <3>2. ~(i < Len(s)) BY <1>1, <2>1
    <3> QED BY <2>1, <3>1, <3>2 DEF Increments
  <2>2. CASE ~(i = Len(s) /\ s[i].op = "inc")
    <3>1. t[i] = s[i] BY <1>1, <2>2
    <3> QED BY <2>2, <3>1
  <2> QED BY <2>1, <2>2
<1>5. WithGoto(s) = Append(t, GotoWord) BY DEF WithGoto
<1> HIDE DEF t
<1>6. GotoWord.op = "goto" /\ GotoWord \in Words BY DEF GotoWord, Words
<1>7. /\ \A i \in 1 .. Len(s) : WithGoto(s)[i] = t[i]
      /\ WithGoto(s)[Len(s) + 1] = GotoWord
  BY <1>3, <1>5, <1>6, AppendProperties
<1> QED BY <1>1, <1>2, <1>4, <1>6, <1>7

\* What the end of a block does to the bytecode of its page.
LEMMA EndWords ==
  ASSUME JitInv, CompileEnd, NEW p \in Page, p = current_page, NEW s, s = v[p],
         NEW t, t = v'[p]
  PROVE  /\ Len(s) \in Nat /\ Len(t) \in Nat /\ Len(s) <= Len(t)
         /\ \A q \in Page : q # p => v'[q] = v[q]
         /\ \A i \in 1 .. Len(s) :
              /\ t[i].op = s[i].op
              /\ s[i].op # "inc" \/ i < Len(s) => t[i] = s[i]
              /\ s[i].op = "inc" => t[i].len = s[i].len
              /\ s[i].op = "inc" /\ i = Len(s) =>
                   ~t[i].stop /\ Len(t) = Len(s) + 1 /\ t[Len(s) + 1].op = "goto"
         /\ \A i \in 1 .. Len(t) : i \in 1 .. Len(s) \/ t[i].op = "goto"
<1>1. v \in [Page -> Seq(Words)] /\ HaltsAfterInc(s)
  BY DEF JitInv, CacheInv, BytecodeInv, CodeInv
<1>2. s \in Seq(Words) BY <1>1
<1>3. /\ t = (IF Branch(s[Len(s)].op) THEN s ELSE WithGoto(s))
      /\ \A q \in Page : q # p => v'[q] = v[q]
  BY <1>1 DEF CompileEnd
<1>4. CASE Branch(s[Len(s)].op)
  <2>1. t = s BY <1>3, <1>4
  <2>2. s[Len(s)].op # "inc" BY <1>4 DEF Branch
  <2>3. Len(s) \in Nat BY <1>2
  <2> QED BY <1>3, <2>1, <2>2, <2>3
<1>5. CASE ~Branch(s[Len(s)].op)
  <2>1. t = WithGoto(s) BY <1>3, <1>5
  <2>2. /\ Len(s) \in Nat /\ Len(t) = Len(s) + 1 /\ t[Len(s) + 1].op = "goto"
        /\ \A i \in 1 .. Len(s) :
              /\ t[i].op = s[i].op
              /\ s[i].op # "inc" \/ i < Len(s) => t[i] = s[i]
              /\ s[i].op = "inc" => t[i].len = s[i].len
              /\ s[i].op = "inc" /\ i = Len(s) => ~t[i].stop
    BY <1>1, <1>2, <2>1, GotoWords
  <2>3. \A i \in 1 .. Len(t) : i \in 1 .. Len(s) \/ i = Len(s) + 1 BY <2>2
  <2>4. Len(t) \in Nat /\ Len(s) <= Len(t) BY <2>2
  <2> QED BY <1>3, <2>2, <2>3, <2>4
<1> QED BY <1>4, <1>5

\* An instruction of the page whose block ends.
LEMMA EndKeeps ==
  ASSUME JitInv, CompileEnd, NEW p \in Page, p = current_page, NEW o \in Offset, Starts(p, o)
  PROVE  StartOK(p, o)' /\ BytesAt(p, o)' = BytesAt(p, o)
<1> USE DEF JitInv
<1>0. PICK s, t : s = v[p] /\ t = v'[p] OBVIOUS
<1>1. PICK k \in Nat, m \in BOOLEAN : entries[p][o] = [ind |-> k, is32 |-> m]
  BY StartTyped
<1>2. /\ k > PAD_ENTRY /\ k - 1 \in 1 .. Len(s) /\ entries[p][o].ind = k /\ entries[p][o].is32 = m
  BY <1>0, <1>1, StartTyped DEF Starts, InBytecode
<1>3. /\ pc = "compile" /\ dis = <<>> /\ UNCHANGED entries
  BY DEF CompileEnd, At
<1>4. StartOK(p, o) BY DEF BlockInv
<1>5. /\ Len(s) \in Nat /\ Len(t) \in Nat /\ Len(s) <= Len(t)
      /\ \A i \in 1 .. Len(s) :
           /\ t[i].op = s[i].op
           /\ s[i].op # "inc" \/ i < Len(s) => t[i] = s[i]
           /\ s[i].op = "inc" => t[i].len = s[i].len
           /\ s[i].op = "inc" /\ i = Len(s) =>
                ~t[i].stop /\ Len(t) = Len(s) + 1 /\ t[Len(s) + 1].op = "goto"
  BY <1>0, EndWords
<1>6. /\ WordAt(p, k) = s[k - 1] /\ WordAt(p, k)' = t[k - 1]
      /\ WordAt(p, k + 1) = s[k] /\ WordAt(p, k + 1)' = t[k]
      /\ WordAt(p, k + 2) = s[k + 1] /\ WordAt(p, k + 2)' = t[k + 1]
      /\ InBytecode(p, k + 1) = (k \in 1 .. Len(s)) /\ InBytecode(p, k + 1)' = (k \in 1 .. Len(t))
      /\ InBytecode(p, k + 2) = (k + 1 \in 1 .. Len(s))
      /\ InBytecode(p, k + 2)' = (k + 1 \in 1 .. Len(t))
  <2>1. (k + 1) - 1 = k /\ (k + 2) - 1 = k + 1 OBVIOUS
  <2> QED BY <1>0, <2>1 DEF WordAt, InBytecode
<1>7. k \in 1 .. Len(s) => k - 1 < Len(s) /\ k \in 1 .. Len(t) BY <1>5
<1>8. Coded(p, o, k, m) BY <1>2, <1>4 DEF StartOK
<1>9. Coded(p, o, k, m)' /\ DecodedAt(p, o)' = DecodedAt(p, o)
  <2>1. CASE HaltCoded(p, k)
    <3>1. k \in 1 .. Len(s) /\ s[k - 1].op = "inc" /\ s[k].op = "halt"
      BY <1>6, <2>1 DEF HaltCoded
    <3>2. t[k - 1] = s[k - 1] /\ t[k] = s[k] BY <1>2, <1>5, <1>7, <3>1
    <3>3. HaltCoded(p, k)' BY <1>6, <1>7, <2>1, <3>1, <3>2 DEF HaltCoded
    <3>4. DecodedAt(p, o) = s[k] /\ DecodedAt(p, o)' = t[k]
      BY <1>2, <1>3, <1>6, <3>1, <3>2 DEF DecodedAt
    <3> QED BY <3>2, <3>3, <3>4 DEF Coded
  <2>2. CASE WordAt(p, k).op \in {"jump", "far"}
    <3>1. t[k - 1] = s[k - 1] /\ s[k - 1].op # "inc" BY <1>2, <1>5, <1>6, <2>2
    <3>2. DecodedAt(p, o) = s[k - 1] /\ DecodedAt(p, o)' = t[k - 1]
      BY <1>2, <1>3, <1>6, <3>1 DEF DecodedAt
    <3> QED BY <1>6, <2>2, <3>1, <3>2 DEF Coded
  <2>3. CASE PlainCoded(p, o, k, m)
    <3>1. /\ s[k - 1].op \in {"seq", "store", "out", "cr0"}
          /\ k \in 1 .. Len(s) /\ s[k].op = "inc" /\ s[k].len = Len(s[k - 1].bytes)
      BY <1>6, <2>3 DEF PlainCoded
    <3>2. t[k - 1] = s[k - 1] /\ s[k - 1].op # "inc" BY <1>2, <1>5, <3>1
    <3>3. DecodedAt(p, o) = s[k - 1] /\ DecodedAt(p, o)' = t[k - 1]
      BY <1>2, <1>3, <1>6, <3>2 DEF DecodedAt
    <3>4. t[k].op = "inc" /\ t[k].len = s[k].len /\ k \in 1 .. Len(t)
      BY <1>5, <1>7, <3>1
    <3>5. CASE k = Len(s)
      <4>1. ~t[k].stop /\ k + 1 \in 1 .. Len(t) /\ t[k + 1].op = "goto" BY <1>5, <3>1, <3>5
      <4> QED BY <1>6, <3>1, <3>2, <3>3, <3>4, <4>1 DEF Coded, PlainCoded
    <3>6. CASE k # Len(s)
      <4>1. t[k] = s[k] BY <1>5, <3>1, <3>6
      <4>2. ASSUME t[k].stop
            PROVE  LeadsOn(p, o + Len(s[k - 1].bytes), k + 2, m, s[k - 1].op)'
        <5>1. LeadsOn(p, o + Len(s[k - 1].bytes), k + 2, m, s[k - 1].op)
          BY <1>6, <2>3, <4>1, <4>2 DEF PlainCoded
        <5>2. k + 2 # Len(v[p]) + 2 BY <1>0, <1>5, <3>6
        <5> QED BY <1>3, <5>1, <5>2 DEF LeadsOn, Pending
      <4>3. ASSUME ~t[k].stop PROVE k + 1 \in 1 .. Len(t) /\ t[k + 1].op = "goto"
        <5>1. k + 1 \in 1 .. Len(s) /\ s[k + 1].op = "goto"
          BY <1>6, <2>3, <4>1, <4>3 DEF PlainCoded
        <5> QED BY <1>5, <5>1
      <4> QED BY <1>6, <3>1, <3>2, <3>3, <3>4, <4>2, <4>3 DEF Coded, PlainCoded
    <3> QED BY <3>5, <3>6
  <2> QED BY <1>8, <2>1, <2>2, <2>3 DEF Coded
<1>10. BytesAt(p, o)' = BytesAt(p, o) BY <1>9 DEF BytesAt
<1> QED BY <1>2, <1>3, <1>4, <1>9, <1>10 DEF StartOK, Covers

LEMMA CompileEndCode ==
  ASSUME JitInv, CompileEnd
  PROVE  BlockInv' /\ MemInv' /\ BlockDisInv' /\ Ready' /\ RunInv' /\ DoomInv' /\ HaltInv'
<1> USE DEF JitInv
<1>0. /\ pc = "compile" /\ pc' = after /\ doomed = {} /\ doomed' = {} /\ dis = <<>>
      /\ UNCHANGED <<mem, eip, is32, map, entries, current_page, current_pos>>
  BY DEF CompileEnd, At, guestVars, listVars, runVars
<1>1. PICK p \in Page : p = current_page
  BY <1>0 DEF CacheInv, ListInv, ListsConsistent, ListTypeOK, PhaseOK, PageOrNone
<1>2. PICK s, t : s = v[p] /\ t = v'[p] OBVIOUS
<1>3. \A q \in Page : \A o \in Offset : Starts(q, o)' = Starts(q, o) BY <1>0 DEF Starts
<1>4. ASSUME NEW q \in Page, NEW o \in Offset, Starts(q, o)
      PROVE  StartOK(q, o)' /\ BytesAt(q, o)' = BytesAt(q, o)
  <2>1. CASE q = p BY <1>1, <1>4, <2>1, EndKeeps
  <2>2. CASE q # p
    <3>1. v'[q] = v[q] /\ entries'[q] = entries[q] BY <1>0, <1>1, <1>2, <2>2, EndWords
    <3>2. StartOK(q, o) BY <1>4 DEF BlockInv
    <3>3. Len(v[q]) \in Nat BY DEF CacheInv, BytecodeInv, CodeInv
    <3>4. \A x, k, m, op : ~Pending(q, x, k, m, op) BY <1>1, <2>2 DEF Pending
    <3> QED BY <1>4, <3>1, <3>2, <3>3, <3>4, StartGrows
  <2> QED BY <2>1, <2>2
<1>5. BlockInv' BY <1>3, <1>4 DEF BlockInv
<1>6. MemInv'
  <2> SUFFICES ASSUME NEW a \in Slot, NEW o \in Offset, map'[a] # NoPage, Starts(map[a], o)'
               PROVE  /\ map'[a] = map[a] /\ Starts(map[a], o)
                      /\ BytesAt(map[a], o)' = BytesAt(map[a], o)
    BY <1>0, MemCode
  <2>1. PICK q \in Page : q = map[a] /\ q = map'[a]
    BY <1>0 DEF CacheInv, ListInv, ListTypeOK, PageOrNone
  <2>2. Starts(q, o)' BY <2>1
  <2> QED BY <1>0, <1>3, <1>4, <2>1, <2>2
<1>7. HaltInv'
  <2> SUFFICES ASSUME NEW q \in Page, NEW i \in 1 .. Len(v'[q]), v'[q][i].op = "halt"
               PROVE  \E b \in Byte : Kind[b] = "halt"
    BY DEF HaltInv
  <2>1. i \in 1 .. Len(v[q]) /\ v[q][i].op = "halt" BY <1>1, <1>2, EndWords
  <2> QED BY <2>1 DEF HaltInv
<1>8. after \in {"idle", "lock", "stop"} BY DEF CacheInv, ListInv, ListTypeOK
<1>9. Ready'
  <2>1. AtEntry(eip, current_page, current_pos) BY <1>0 DEF BlockDisInv, CompileInv
  <2>2. AtEntry(eip, current_page, current_pos)' BY <1>0, <2>1 DEF AtEntry
  <2> QED BY <2>2 DEF Ready
<1>10. BlockDisInv' /\ RunInv' /\ DoomInv' BY <1>0, <1>8 DEF BlockDisInv, RunInv, DoomInv
<1> QED BY <1>5, <1>6, <1>7, <1>9, <1>10

\* dis_insts.
LEMMA DisInstsCode ==
  ASSUME JitInv, DisInsts
  PROVE  BlockInv' /\ MemInv' /\ BlockDisInv' /\ Ready' /\ RunInv' /\ DoomInv' /\ HaltInv'
<1> USE DEF JitInv, At
<1>1. CASE DisInst BY <1>1, DisInstCode
<1>2. CASE CompileInst BY <1>2, CompileInstCode
<1>3. CASE CompileEnd BY <1>3, CompileEndCode
<1>4. CASE DisFault
  <2>1. /\ UNCHANGED <<mem, entries, v>> /\ pc = "dis" /\ pc' = "exc" /\ doomed = {}
        /\ doomed' = {} /\ RemovePage(Eslot, current_page, current_pos)
        /\ doomed' = doomed \ {Eslot}
    BY <1>4 DEF DisFault, guestVars, pageVars
  <2>2. Eslot \in Slot /\ map[Eslot] # NoPage /\ current_page \in PageOrNone
    BY <2>1 DEF CacheInv, ListInv, ListsConsistent, ListTypeOK, PhaseOK
  <2>3. BlockInv' /\ HaltInv' BY <2>1, BlocksKept
  <2>4. MemInv' BY <2>1, <2>2, RemoveKeeps
  <2>5. BlockDisInv' /\ Ready' /\ RunInv' /\ DoomInv'
    BY <2>1 DEF BlockDisInv, Ready, RunInv, DoomInv
  <2> QED BY <2>3, <2>4, <2>5
<1>5. CASE DisEnd
  <2>1. /\ UNCHANGED <<mem, eip, is32, map, entries, v, dis, current_page>> /\ pc = "dis"
        /\ pc' = "compile" /\ doomed = {} /\ doomed' = {} /\ dis # <<>>
        /\ current_pos' = Len(v[current_page]) + 2
    BY <1>5 DEF DisEnd, guestVars, listVars, pageVars
  <2>2. BlockInv' /\ HaltInv' BY <2>1, BlocksKept
  <2>3. MemInv' BY <2>1, MemKept
  <2>4. DisListInv /\ dis[1].addr = eip BY <2>1 DEF BlockDisInv, CompileInv
  <2>5. Eslot' = Eslot BY <2>1 DEF Eslot
  <2>6. \A d : DisOK(d) => DisOK(d)'
    BY <2>1, <2>5 DEF DisOK, Covers, Same, Fetched, OpOf
  <2>7. DisListInv' BY <2>1, <2>4, <2>6 DEF DisListInv
  <2>8. CompileInv' BY <2>1, <2>4 DEF CompileInv
  <2> QED BY <2>1, <2>2, <2>3, <2>7, <2>8 DEF BlockDisInv, Ready, RunInv, DoomInv
<1> QED BY <1>1, <1>2, <1>3, <1>4, <1>5 DEF DisInsts

-----------------------------------------------------------------------------
\* The words of the instruction that begins at position k, while exec_inst runs.
LEMMA Beginning ==
  ASSUME JitInv, pc = "run", NEW k \in Nat, NEW m, k > PAD_ENTRY,
         entries[lock_page][OffsetOf(eip)] = [ind |-> k, is32 |-> m]
  PROVE  /\ lock_page \in Page /\ OffsetOf(eip) \in Offset /\ Starts(lock_page, OffsetOf(eip))
         /\ Coded(lock_page, OffsetOf(eip), k, m)
         /\ WordAt(lock_page, k).op \notin {"halt", "goto"}
         /\ WordAt(lock_page, k).op = "inc" => HaltCoded(lock_page, k)
         /\ WordAt(lock_page, k).op \in {"seq", "store", "out", "cr0"} =>
              /\ WordAt(lock_page, k + 1).op = "inc"
              /\ WordAt(lock_page, k + 1).len = Len(WordAt(lock_page, k).bytes)
              /\ WordAt(lock_page, k + 1).stop =>
                   LET x == OffsetOf(eip) + Len(WordAt(lock_page, k).bytes) IN
                   /\ WordAt(lock_page, k).op # "cr0" /\ x < PageSize
                   /\ entries[lock_page][x] = [ind |-> k + 2, is32 |-> m]
              /\ ~WordAt(lock_page, k + 1).stop => WordAt(lock_page, k + 2).op = "goto"
<1> USE DEF JitInv
<1>1. lock_page \in Page /\ eip \in Nat BY RunPlace
<1>2. OffsetOf(eip) \in Offset BY <1>1, Offsets
<1>3. Starts(lock_page, OffsetOf(eip)) BY DEF Starts
<1>4. Coded(lock_page, OffsetOf(eip), k, m) BY <1>1, <1>2, <1>3 DEF BlockInv, StartOK
<1>5. /\ WordAt(lock_page, k).op \notin {"halt", "goto"}
      /\ WordAt(lock_page, k).op = "inc" => HaltCoded(lock_page, k)
      /\ WordAt(lock_page, k).op \in {"seq", "store", "out", "cr0"} =>
           PlainCoded(lock_page, OffsetOf(eip), k, m)
  BY <1>4 DEF Coded, PlainCoded, HaltCoded
<1>6. \A x, op : LeadsOn(lock_page, x, k + 2, m, op) =>
        op # "cr0" /\ x < PageSize /\ entries[lock_page][x] = [ind |-> k + 2, is32 |-> m]
  BY DEF LeadsOn, Pending
<1> QED BY <1>1, <1>2, <1>3, <1>4, <1>5, <1>6 DEF PlainCoded

\* exec_inst is at the first word of an instruction, or at its last.
LEMMA AtStart ==
  ASSUME JitInv, pc = "run", Starting
  PROVE  /\ pos \in Nat /\ pos > PAD_ENTRY
         /\ entries[lock_page][OffsetOf(eip)] = [ind |-> pos, is32 |-> is32]
         /\ Word = WordAt(lock_page, pos)
BY RunPlace DEF JitInv, Starting, AtEntry, Word

LEMMA AtInc ==
  ASSUME JitInv, pc = "run", Leaving
  PROVE  /\ pos - 1 \in Nat /\ pos - 1 > PAD_ENTRY
         /\ Starts(lock_page, OffsetOf(eip))
         /\ entries[lock_page][OffsetOf(eip)] =
              [ind |-> pos - 1, is32 |-> entries[lock_page][OffsetOf(eip)].is32]
         /\ Word = WordAt(lock_page, (pos - 1) + 1)
         /\ WordAt(lock_page, pos + 1) = WordAt(lock_page, (pos - 1) + 2)
<1> USE DEF JitInv
<1>1. lock_page \in Page /\ eip \in Nat /\ pos \in Nat BY RunPlace
<1>2. OffsetOf(eip) \in Offset BY <1>1, Offsets
<1>3. Starts(lock_page, OffsetOf(eip)) BY DEF Leaving, Starts
<1>4. entries[lock_page][OffsetOf(eip)] =
        [ind |-> entries[lock_page][OffsetOf(eip)].ind,
         is32 |-> entries[lock_page][OffsetOf(eip)].is32]
  BY <1>1, <1>2, <1>3, StartTyped
<1>5. (pos - 1) + 1 = pos /\ (pos - 1) + 2 = pos + 1 BY <1>1
<1>6. pos - 1 \in Nat BY <1>1 DEF Leaving, PAD_ENTRY
<1> QED BY <1>3, <1>4, <1>5, <1>6 DEF Leaving, Word

\* An instruction of the middle of a block.
LEMMA ExecPlainCode ==
  ASSUME JitInv, RemapsBeginInAreas, RemapRemovesRange,
         ExecSeq \/ ExecStore \/ ExecOut \/ ExecCR0
  PROVE  /\ BlockInv' /\ MemInv' /\ BlockDisInv' /\ Ready' /\ RunInv' /\ DoomInv' /\ HaltInv'
         /\ Starting /\ Leaving'
<1> USE DEF JitInv, At, Running
<1>1. /\ UNCHANGED <<eip, map, entries, v, lock_page, current_page, current_pos>>
      /\ pc = "run" /\ pc' = "run" /\ pos' = pos + 1 /\ doomed = {}
      /\ Word.op \in {"seq", "store", "out", "cr0"}
      /\ Word.op # "cr0" => is32' = is32
  BY DEF ExecSeq, ExecStore, ExecOut, ExecCR0, Advance, guestVars, listVars, runVars, pageVars
<1>2. BlockInv' /\ HaltInv' BY <1>1, BlocksKept
<1>3. MemInv'
  <2>1. SUFFICES ASSUME NEW s \in Slot, map'[s] # NoPage, s \notin doomed', NEW x \in Offset,
                        entries[map[s]][x].ind # NULL_ENTRY, s * PageSize + x \in Addr
                 PROVE  mem'[s * PageSize + x] = mem[s * PageSize + x]
    BY <1>1, MemKept
  <2>2. CASE HostStores(Stores)
    BY <1>1, <2>1, <2>2, StoresKeep, ConstantsAssumption
  <2>3. CASE HostRemaps BY <1>1, <2>1, <2>3, RemapsKeep
  <2>4. CASE mem' = mem BY <2>4
  <2> QED BY <2>2, <2>3, <2>4 DEF ExecSeq, ExecStore, ExecOut, ExecCR0, guestVars
<1>4. Starting BY <1>1 DEF RunInv, Again, InHalt, Leaving, Going
<1>5. /\ pos \in Nat /\ pos > PAD_ENTRY
      /\ entries[lock_page][OffsetOf(eip)] = [ind |-> pos, is32 |-> is32]
      /\ Word = WordAt(lock_page, pos)
  BY <1>1, <1>4, AtStart
<1>6. /\ WordAt(lock_page, pos + 1).op = "inc"
      /\ WordAt(lock_page, pos + 1).stop => WordAt(lock_page, pos).op # "cr0"
  BY <1>1, <1>5, Beginning
<1>7. Leaving'
  <2>1. Word' = WordAt(lock_page, pos + 1) BY <1>1 DEF Word, WordAt
  <2>2. pos' - 1 = pos BY <1>1, <1>5
  <2>3. WordAt(lock_page, pos - 1)' = WordAt(lock_page, pos) BY <1>1, <2>2 DEF WordAt
  <2>4. entries'[lock_page'][OffsetOf(eip')].ind = pos' - 1
        /\ entries'[lock_page'][OffsetOf(eip')].is32 = is32
    BY <1>1, <1>5, <2>2
  <2>5. Word'.stop => is32' = is32 BY <1>1, <1>5, <1>6, <2>1
  <2>6. current_page' # NoPage =>
          SlotOf(eip') \in Slot /\ map'[SlotOf(eip')] = lock_page' /\ current_pos' = pos' - 1
    BY <1>1, <1>4, <2>2 DEF Starting, AtEntry
  <2> QED BY <1>1, <1>5, <1>6, <2>1, <2>2, <2>3, <2>4, <2>5, <2>6 DEF Leaving
<1>8. BlockDisInv' /\ Ready' /\ RunInv' /\ DoomInv'
  BY <1>1, <1>7 DEF BlockDisInv, Ready, RunInv, DoomInv
<1> QED BY <1>2, <1>3, <1>4, <1>7, <1>8

\* BC_INCn_EIP and BC_INCn_EIP_NOSTOP.
LEMMA ExecIncCode ==
  ASSUME JitInv, ExecInc
  PROVE  /\ BlockInv' /\ MemInv' /\ BlockDisInv' /\ Ready' /\ RunInv' /\ DoomInv' /\ HaltInv'
         /\ Starting => ~Word.stop /\ InHalt' /\ eip' - Len(Word'.bytes) = eip
         /\ Leaving /\ ~Word.stop => Going'
         /\ Starting \/ Leaving
         /\ pc' = "stop" /\ current_page' # NoPage => AtEntry(eip, current_page, current_pos)'
<1> USE DEF JitInv, At, Running
<1>1. /\ UNCHANGED <<mem, is32, map, entries, v, lock_page, current_page>>
      /\ pc = "run" /\ Word.op = "inc" /\ doomed = {} /\ doomed' = {} /\ eip' = eip + Word.len
      /\ \/ Word.stop /\ current_pos' = pos + 1 /\ pc' = "stop" /\ pos' = pos
         \/ ~Word.stop /\ pos' = pos + 1 /\ pc' = "run" /\ current_pos' = current_pos
  BY DEF ExecInc, Advance, listVars, pageVars
<1>2. BlockInv' /\ HaltInv' BY <1>1, BlocksKept
<1>3. MemInv' BY <1>1, MemKept
<1>4. Starting \/ Leaving BY <1>1 DEF RunInv, Again, InHalt, Going
<1>5. lock_page \in Page /\ eip \in Nat /\ pos \in Nat /\ current_page \in {lock_page, NoPage}
      /\ Word.len \in Nat
  BY <1>1, RunPlace, WordsTyped
<1>6. ASSUME Starting PROVE ~Word.stop /\ InHalt' /\ eip' - Len(Word'.bytes) = eip
  <2>1. /\ pos > PAD_ENTRY /\ Word = WordAt(lock_page, pos)
        /\ entries[lock_page][OffsetOf(eip)] = [ind |-> pos, is32 |-> is32]
    BY <1>1, <1>6, AtStart
  <2>2. HaltCoded(lock_page, pos) BY <1>1, <1>5, <2>1, Beginning
  <2>3. ~Word.stop /\ WordAt(lock_page, pos + 1).op = "halt"
        /\ Word.len = Len(WordAt(lock_page, pos + 1).bytes)
    BY <2>1, <2>2 DEF HaltCoded
  <2>4. Word' = WordAt(lock_page, pos + 1) BY <1>1, <2>3 DEF Word, WordAt
  <2>5. pos' - 1 = pos /\ eip' - Len(Word'.bytes) = eip
    BY <1>1, <1>5, <2>3, <2>4
  <2>6. AtEntry(eip, lock_page, pos) /\ current_page = lock_page /\ current_pos = pos
    BY <1>6 DEF Starting
  <2>7. AtEntry(eip - Len(Word.bytes), lock_page, pos - 1)'
    BY <1>1, <2>5, <2>6 DEF AtEntry
  <2> QED BY <1>1, <2>3, <2>4, <2>5, <2>6, <2>7 DEF InHalt
<1>7. ASSUME Leaving, ~Word.stop PROVE Going'
  <2>1. PICK m : entries[lock_page][OffsetOf(eip)] = [ind |-> pos - 1, is32 |-> m]
    BY <1>1, <1>7, AtInc
  <2>2. /\ pos - 1 \in Nat /\ pos - 1 > PAD_ENTRY /\ Word = WordAt(lock_page, (pos - 1) + 1)
        /\ WordAt(lock_page, pos + 1) = WordAt(lock_page, (pos - 1) + 2)
    BY <1>1, <1>7, AtInc
  <2>3. WordAt(lock_page, pos - 1).op \in {"seq", "store", "out", "cr0"} BY <1>7 DEF Leaving
  <2>4. WordAt(lock_page, pos + 1).op = "goto"
    BY <1>1, <1>7, <2>1, <2>2, <2>3, Beginning
  <2>5. Word' = WordAt(lock_page, pos + 1) BY <1>1, <1>7 DEF Word, WordAt
  <2>6. current_page' # NoPage => ~OnHalt'
    <3>1. ASSUME current_page' # NoPage PROVE ~OnHalt'
      <4>1. current_page' = lock_page /\ current_pos' = pos - 1
        BY <1>1, <1>5, <1>7, <3>1 DEF Leaving
      <4>2. OnHalt' = (WordAt(lock_page, pos - 1).op = "halt")
        BY <1>1, <4>1 DEF OnHalt, WordAt
      <4> QED BY <2>3, <4>2
    <3> QED BY <3>1
  <2> QED BY <1>1, <2>4, <2>5, <2>6 DEF Going
<1>8. ASSUME pc' = "stop", current_page' # NoPage
      PROVE  AtEntry(eip, current_page, current_pos)'
  <2>1. Word.stop /\ current_pos' = pos + 1 BY <1>1, <1>8
  <2>2. Leaving BY <1>4, <1>6, <2>1
  <2>3. /\ current_page = lock_page /\ SlotOf(eip) \in Slot /\ map[SlotOf(eip)] = lock_page
        /\ entries[lock_page][OffsetOf(eip)].is32 = is32
    BY <1>1, <1>5, <1>8, <2>1, <2>2 DEF Leaving
  <2>4. /\ pos - 1 \in Nat /\ pos - 1 > PAD_ENTRY
        /\ entries[lock_page][OffsetOf(eip)] = [ind |-> pos - 1, is32 |-> is32]
        /\ Word = WordAt(lock_page, (pos - 1) + 1)
    BY <1>1, <2>2, <2>3, AtInc
  <2>5. WordAt(lock_page, pos - 1).op \in {"seq", "store", "out", "cr0"} BY <2>2 DEF Leaving
  <2> DEFINE x == OffsetOf(eip) + Word.len
  <2>6. /\ Word.len = Len(WordAt(lock_page, pos - 1).bytes)
        /\ x < PageSize /\ entries[lock_page][x] = [ind |-> (pos - 1) + 2, is32 |-> is32]
    BY <1>1, <2>1, <2>4, <2>5, Beginning
  <2>7. (pos - 1) + 2 = pos + 1 /\ pos + 1 > PAD_ENTRY BY <1>5, <2>4 DEF PAD_ENTRY
  <2>8. SlotOf(eip') = SlotOf(eip) /\ OffsetOf(eip') = x BY <1>1, <1>5, <2>6, Further
  <2> QED BY <1>1, <2>1, <2>3, <2>6, <2>7, <2>8 DEF AtEntry
<1>9. RunInv' BY <1>1, <1>4, <1>6, <1>7 DEF RunInv
<1>10. Ready' BY <1>1, <1>8 DEF Ready
<1>11. BlockDisInv' /\ DoomInv' BY <1>1 DEF BlockDisInv, DoomInv
<1> QED BY <1>2, <1>3, <1>4, <1>6, <1>7, <1>8, <1>9, <1>10, <1>11

\* exec_inst and exception_body.
LEMMA ExecCode ==
  ASSUME JitInv, RemapsBeginInAreas, RemapRemovesRange,
         ExceptionBody \/ ExceptionGivesUp \/ Exec
  PROVE  BlockInv' /\ MemInv' /\ BlockDisInv' /\ Ready' /\ RunInv' /\ DoomInv' /\ HaltInv'
<1> USE DEF JitInv, At, Running
<1>1. CASE ExecSeq \/ ExecStore \/ ExecOut \/ ExecCR0 BY <1>1, ExecPlainCode
<1>2. CASE ExecInc BY <1>2, ExecIncCode
<1>3. CASE ExceptionBody
  <2>1. /\ UNCHANGED <<map, entries, v>> /\ pc = "exc" /\ pc' = "goto" /\ doomed = {}
        /\ HostStores(Push)
    BY <1>3 DEF ExceptionBody, listVars, pageVars
  <2>2. BlockInv' /\ HaltInv' BY <2>1, BlocksKept
  <2>3. MemInv'
    <3>1. SUFFICES ASSUME NEW s \in Slot, map'[s] # NoPage, s \notin doomed', NEW x \in Offset,
                          entries[map[s]][x].ind # NULL_ENTRY, s * PageSize + x \in Addr
                   PROVE  mem'[s * PageSize + x] = mem[s * PageSize + x]
      BY <2>1, MemKept
    <3> QED BY <2>1, <3>1, StoresKeep, ConstantsAssumption
  <2> QED BY <2>1, <2>2, <2>3 DEF BlockDisInv, Ready, RunInv, DoomInv
<1>4. CASE ExceptionGivesUp \/ ExecJump \/ ExecFar \/ ExecGoto \/ ExecFault
  <2>1. /\ UNCHANGED <<mem, map, entries, v, doomed>> /\ pc \in {"exc", "run"}
        /\ pc' \in {"goto", "exc", "exit"} /\ doomed = {}
    BY <1>4 DEF ExceptionGivesUp, ExecJump, ExecFar, ExecGoto, ExecFault, LeaveByGoto,
                guestVars, listVars, pageVars
  <2>2. BlockInv' /\ HaltInv' BY <2>1, BlocksKept
  <2>3. MemInv' BY <2>1, MemKept
  <2> QED BY <2>1, <2>2, <2>3 DEF BlockDisInv, Ready, RunInv, DoomInv
<1>5. CASE Lock
  <2>1. /\ UNCHANGED <<mem, eip, is32, map, entries, v, current_page, current_pos, doomed>>
        /\ pc = "lock" /\ pc' = "run" /\ doomed = {}
        /\ lock_page' = current_page /\ pos' = current_pos
    BY <1>5 DEF Lock, guestVars, listVars, pageVars
  <2>2. BlockInv' /\ HaltInv' BY <2>1, BlocksKept
  <2>3. MemInv' BY <2>1, MemKept
  <2>4. current_page # NoPage
    BY <2>1 DEF CacheInv, ListInv, ListsConsistent, PhaseOK
  <2>5. CASE OnHalt
    <3>1. Word'.op = "halt" BY <2>1, <2>5 DEF OnHalt, Word, WordAt
    <3>2. Again' BY <2>1, <3>1 DEF Again
    <3> QED BY <2>1, <2>2, <2>3, <3>2 DEF BlockDisInv, Ready, RunInv, DoomInv
  <2>6. CASE AtEntry(eip, current_page, current_pos)
    <3>1. Starting' BY <2>1, <2>6 DEF Starting, AtEntry
    <3> QED BY <2>1, <2>2, <2>3, <3>1 DEF BlockDisInv, Ready, RunInv, DoomInv
  <2> QED BY <2>1, <2>4, <2>5, <2>6 DEF Ready
<1>6. CASE ExecHalt
  <2>1. /\ UNCHANGED <<mem, map, entries, v, current_page, doomed>> /\ pc = "run"
        /\ pc' = "stop" /\ doomed = {} /\ current_pos' = pos /\ Word.op = "halt"
    BY <1>6 DEF ExecHalt, guestVars, listVars, pageVars
  <2>2. BlockInv' /\ HaltInv' BY <2>1, BlocksKept
  <2>3. MemInv' BY <2>1, MemKept
  <2>4. current_page' # NoPage => OnHalt'
    <3>1. current_page \in {lock_page, NoPage} BY <2>1, RunPlace
    <3> QED BY <2>1, <3>1 DEF OnHalt, Word, WordAt
  <2> QED BY <2>1, <2>2, <2>3, <2>4 DEF BlockDisInv, Ready, RunInv, DoomInv
<1>7. CASE Stop
  <2>1. /\ UNCHANGED <<mem, eip, is32, map, entries, v, current_page, current_pos, doomed>>
        /\ pc = "stop" /\ pc' = "idle" /\ doomed = {}
    BY <1>7 DEF Stop, guestVars, pageVars
  <2>2. BlockInv' /\ HaltInv' BY <2>1, BlocksKept
  <2>3. MemInv' BY <2>1, MemKept
  <2>4. Ready'
    <3>1. OnHalt' = OnHalt BY <2>1 DEF OnHalt, WordAt
    <3>2. AtEntry(eip, current_page, current_pos) => AtEntry(eip, current_page, current_pos)'
      BY <2>1 DEF AtEntry
    <3> QED BY <2>1, <3>1, <3>2 DEF Ready
  <2> QED BY <2>1, <2>2, <2>3, <2>4 DEF BlockDisInv, RunInv, DoomInv
<1> QED BY <1>1, <1>2, <1>3, <1>4, <1>5, <1>6, <1>7 DEF Exec

LEMMA JitInit == Init => JitInv
<1> SUFFICES ASSUME Init PROVE JitInv OBVIOUS
<1>1. CacheInv BY ListInvInit, BytecodeInit DEF CacheInv
<1>2. \A p \in Page : v[p] = <<>> BY DEF Init
<1>3. \A p \in Page : \A o \in Offset : ~Starts(p, o)
  BY DEF Init, Starts, Blank, NULL_ENTRY, PAD_ENTRY
<1>4. BlockInv BY <1>3 DEF BlockInv
<1>5. \A s \in Slot : map[s] = NoPage BY DEF Init
<1>6. MemInv BY <1>5 DEF MemInv
<1>7. HaltInv
  <2>1. \A p \in Page : Len(v[p]) = 0 BY <1>2
  <2> QED BY <2>1 DEF HaltInv
<1>8. BlockDisInv /\ Ready /\ RunInv /\ DoomInv
  BY DEF Init, BlockDisInv, Ready, RunInv, DoomInv
<1> QED BY <1>1, <1>4, <1>6, <1>7, <1>8 DEF JitInv

LEMMA JitStill == JitInv /\ UNCHANGED vars => JitInv'
<1> SUFFICES ASSUME JitInv, UNCHANGED vars PROVE JitInv' OBVIOUS
<1> USE DEF JitInv
<1>1. UNCHANGED <<mem, eip, is32, map, entries, v, current_page, current_pos, lock_page,
                  pc, pos, dis, doomed>>
  BY DEF vars, guestVars, listVars, pageVars, runVars, localVars
<1>2. CacheInv' BY CacheInvStep
<1>3. \A p, o, k : InBytecode(p, k)' = InBytecode(p, k) /\ WordAt(p, k)' = WordAt(p, k)
                   /\ Starts(p, o)' = Starts(p, o)
  BY <1>1 DEF InBytecode, WordAt, Starts
<1>4. \A p, x, k, m, op : LeadsOn(p, x, k, m, op) => LeadsOn(p, x, k, m, op)'
  BY <1>1 DEF LeadsOn, Pending
<1>5. \A p, o, k, m : PlainCoded(p, o, k, m) => PlainCoded(p, o, k, m)'
  BY <1>3, <1>4 DEF PlainCoded
<1>6. \A p, o, k, m : Coded(p, o, k, m) => Coded(p, o, k, m)'
  BY <1>3, <1>5 DEF Coded, HaltCoded
<1>7. \A p, o : DecodedAt(p, o)' = DecodedAt(p, o) /\ BytesAt(p, o)' = BytesAt(p, o)
  BY <1>1 DEF DecodedAt, BytesAt, WordAt
<1>8. \A p, o : StartOK(p, o) => StartOK(p, o)'
  BY <1>1, <1>6, <1>7 DEF StartOK, Covers
<1>9. BlockInv' BY <1>3, <1>8 DEF BlockInv
<1>10. MemInv' BY <1>1, <1>3, <1>7 DEF MemInv, Same, Fetched
<1>11. BlockDisInv'
  <2>1. Eslot' = Eslot BY <1>1 DEF Eslot
  <2>2. \A d : DisOK(d) => DisOK(d)'
    BY <1>1, <2>1 DEF DisOK, Covers, Same, Fetched, OpOf
  <2>3. DisListInv => DisListInv' BY <1>1, <2>2 DEF DisListInv
  <2>4. CompileInv => CompileInv' BY <1>1 DEF CompileInv, AtEntry
  <2> QED BY <1>1, <2>3, <2>4 DEF BlockDisInv
<1>12. OnHalt' = OnHalt /\ Word' = Word BY <1>1 DEF OnHalt, Word, WordAt
<1>13. Ready' BY <1>1, <1>12 DEF Ready, AtEntry
<1>14. RunInv'
  <2>1. Starting => Starting' BY <1>1 DEF Starting, AtEntry
  <2>2. Again => Again' BY <1>1, <1>12 DEF Again
  <2>3. InHalt => InHalt' BY <1>1, <1>12 DEF InHalt, AtEntry
  <2>4. Leaving => Leaving'
    <3>1. WordAt(lock_page, pos - 1)' = WordAt(lock_page, pos - 1) BY <1>1 DEF WordAt
    <3> QED BY <1>1, <1>12, <3>1 DEF Leaving
  <2>5. Going => Going' BY <1>1, <1>12 DEF Going
  <2> QED BY <1>1, <2>1, <2>2, <2>3, <2>4, <2>5 DEF RunInv
<1>15. DoomInv' /\ HaltInv' BY <1>1 DEF DoomInv, HaltInv
<1> QED BY <1>2, <1>9, <1>10, <1>11, <1>13, <1>14, <1>15

\* Every step, when a remapping finds the pages of its range.
LEMMA JitStepKeeps ==
  ASSUME JitInv, RemapsBeginInAreas, RemapRemovesRange, [Next]_vars
  PROVE  JitInv'
<1>1. CacheInv' BY CacheInvStep DEF JitInv
<1>2. CASE HostCall BY <1>1, <1>2, HostCallCode DEF JitInv
<1>3. CASE RemoveDoomed BY <1>1, <1>3, RemoveDoomedCode DEF JitInv
<1>4. CASE GotoEip BY <1>1, <1>4, GotoEipCode DEF JitInv
<1>5. CASE DisInsts BY <1>1, <1>5, DisInstsCode DEF JitInv
<1>6. CASE ExceptionBody \/ ExceptionGivesUp \/ Exec BY <1>1, <1>6, ExecCode DEF JitInv
<1>7. CASE UNCHANGED vars BY <1>7, JitStill
<1> QED BY <1>2, <1>3, <1>4, <1>5, <1>6, <1>7 DEF Next, JitStep, Exited

-----------------------------------------------------------------------------
(***************************************************************************)
(* IA32_jit_area_remapped: what Cursor computes. Its recursion is solved   *)
(* by a function in closed form, and shown to be that function by taking   *)
(* the least index where they differ.                                      *)
(***************************************************************************)
\* One turn of the loop over the areas.
CursorOf(f, begin, last) ==
  [i \in 1 .. Len(Areas) |->
     IF i = 1 THEN begin
     ELSE IF f[i - 1] <= last /\ InArea(f[i - 1], i - 1)
          THEN Areas[i].first * PageSize ELSE f[i - 1]]

LEMMA CursorTurns ==
  ASSUME NEW begin, NEW last, NEW w, w = CursorOf(w, begin, last)
  PROVE  Cursor(begin, last) = CursorOf(Cursor(begin, last), begin, last)
<1> DEFINE D(f) == CursorOf(f, begin, last)
<1>1. Cursor(begin, last) = CHOOSE f : f = D(f) BY DEF Cursor, CursorOf
<1>2. \E f : f = D(f) OBVIOUS
<1> HIDE DEF D
<1>3. (CHOOSE f : f = D(f)) = D(CHOOSE f : f = D(f)) BY <1>2
<1> QED BY <1>1, <1>3 DEF D

LEMMA CursorIs ==
  ASSUME NEW begin, NEW last, NEW w, w = CursorOf(w, begin, last)
  PROVE  \A i \in 1 .. Len(Areas) : Cursor(begin, last)[i] = w[i]
<1> DEFINE c == Cursor(begin, last)
           N == Len(Areas)
           T == {i \in 1 .. N : c[i] # w[i]}
<1> SUFFICES ASSUME T # {} PROVE FALSE OBVIOUS
<1>1. c = CursorOf(c, begin, last) BY CursorTurns
<1>2. N \in Nat /\ T \subseteq Nat BY AreasTyped
<1>3. PICK n \in T : \A x \in T : n <= x BY <1>2, Least
<1>4. n \in 1 .. N /\ n \in Nat BY <1>2, <1>3
<1>5. \A f : CursorOf(f, begin, last)[n] =
               IF n = 1 THEN begin
               ELSE IF f[n - 1] <= last /\ InArea(f[n - 1], n - 1)
                    THEN Areas[n].first * PageSize ELSE f[n - 1]
  BY <1>4 DEF CursorOf
<1> HIDE DEF c, N
<1>6. /\ c[n] = IF n = 1 THEN begin
                ELSE IF c[n - 1] <= last /\ InArea(c[n - 1], n - 1)
                     THEN Areas[n].first * PageSize ELSE c[n - 1]
      /\ w[n] = IF n = 1 THEN begin
                ELSE IF w[n - 1] <= last /\ InArea(w[n - 1], n - 1)
                     THEN Areas[n].first * PageSize ELSE w[n - 1]
  BY <1>1, <1>5
<1>7. n # 1 => c[n - 1] = w[n - 1]
  <2> SUFFICES ASSUME n # 1 PROVE c[n - 1] = w[n - 1] OBVIOUS
  <2>1. n - 1 \in 1 .. N /\ ~(n <= n - 1) BY <1>2, <1>4
  <2>2. n - 1 \notin T BY <1>3, <2>1
  <2> QED BY <2>1, <2>2
<1>8. c[n] = w[n] BY <1>6, <1>7
<1> QED BY <1>3, <1>8

LEMMA Times ==
  ASSUME NEW m \in Nat, NEW n \in Nat, m <= n
  PROVE  m * PageSize \in Nat /\ n * PageSize \in Nat /\ m * PageSize <= n * PageSize
BY Sizes

\* The cursor stays at the beginning of the range up to its area, and is at the
\* beginning of every later area that the range reaches.
LEMMA CursorReaches ==
  ASSUME NEW begin \in Nat, NEW last \in Nat, begin <= last,
         NEW j \in 1 .. Len(Areas), InArea(begin, j)
  PROVE  /\ Cursor(begin, last)[j] = begin
         /\ \A i \in j + 1 .. Len(Areas) : Areas[i].first * PageSize <= last =>
              Cursor(begin, last)[i] = Areas[i].first * PageSize
<1> DEFINE N == Len(Areas)
           F(i) == Areas[i].first * PageSize
<1>1. N \in Nat /\ j \in Nat /\ j \in 1 .. N BY AreasTyped
<1>2. \A i \in 1 .. N : F(i) \in Nat BY AreasTyped, Times
<1>3. \A i \in 1 .. N : InArea(F(i), i)
  <2> SUFFICES ASSUME NEW i \in 1 .. N PROVE InArea(F(i), i) OBVIOUS
  <2>1. Areas[i].first \in Nat /\ Areas[i].last \in Nat /\ Areas[i].first <= Areas[i].last
    BY AreasTyped
  <2>2. 0 \in Offset BY Sizes DEF Offset
  <2>3. Areas[i].first * PageSize + 0 = Areas[i].first * PageSize BY <1>2
  <2>4. SlotOf(F(i)) = Areas[i].first BY <2>1, <2>2, <2>3, Here
  <2> QED BY <2>1, <2>4 DEF InArea
<1>4. \A i \in 1 .. N : i < j => ~InArea(begin, i)
  <2> SUFFICES ASSUME NEW i \in 1 .. N, i < j, InArea(begin, i) PROVE FALSE OBVIOUS
  <2>1. Areas[i].last < Areas[j].first BY AreasOrdered
  <2>2. /\ Areas[i].last \in Nat /\ Areas[j].first \in Nat /\ Areas[i].first \in Nat
        /\ Areas[j].last \in Nat
    BY AreasTyped
  <2> QED BY <2>1, <2>2 DEF InArea
<1>5. \A i, k \in 1 .. N : i < k => F(i) <= F(k)
  <2> SUFFICES ASSUME NEW i \in 1 .. N, NEW k \in 1 .. N, i < k PROVE F(i) <= F(k) OBVIOUS
  <2>1. Areas[i].last < Areas[k].first BY AreasOrdered
  <2>2. /\ Areas[i].first \in Nat /\ Areas[i].last \in Nat /\ Areas[k].first \in Nat
        /\ Areas[i].first <= Areas[i].last
    BY AreasTyped
  <2>3. Areas[i].first <= Areas[k].first BY <2>1, <2>2
  <2> QED BY <2>2, <2>3, Times
<1> HIDE DEF F
<1>6. PICK M \in j + 1 .. N + 1 : /\ M <= N => F(M) > last
                                  /\ \A i \in j + 1 .. N : i < M => F(i) <= last
  <2> DEFINE T == {i \in j + 1 .. N : F(i) > last}
  <2>1. CASE T = {}
    <3>1. N + 1 \in j + 1 .. N + 1 /\ ~(N + 1 <= N) BY <1>1
    <3>2. \A i \in j + 1 .. N : F(i) <= last
      <4>1. \A i \in j + 1 .. N : ~(F(i) > last) /\ i \in 1 .. N BY <1>1, <2>1
      <4> QED BY <1>2, <4>1
    <3> QED BY <3>1, <3>2
  <2>2. CASE T # {}
    <3>1. T \subseteq Nat BY <1>1
    <3>2. PICK m \in T : \A n \in T : m <= n BY <2>2, <3>1, Least
    <3>3. m \in j + 1 .. N + 1 /\ F(m) > last BY <1>1, <3>2
    <3>4. ASSUME NEW i \in j + 1 .. N, i < m PROVE F(i) <= last
      <4>1. ~(m <= i) /\ i \in 1 .. N BY <1>1, <3>3, <3>4
      <4>2. i \notin T BY <3>2, <4>1
      <4> QED BY <1>2, <4>1, <4>2
    <3> QED BY <3>3, <3>4
  <2> QED BY <2>1, <2>2
<1> DEFINE w == [i \in 1 .. N |-> IF i <= j THEN begin ELSE IF i <= M THEN F(i) ELSE F(M)]
<1>7. w = CursorOf(w, begin, last)
  <2> SUFFICES ASSUME NEW i \in 1 .. N
               PROVE  w[i] = IF i = 1 THEN begin
                             ELSE IF w[i - 1] <= last /\ InArea(w[i - 1], i - 1)
                                  THEN F(i) ELSE w[i - 1]
    BY DEF CursorOf, F
  <2>1. CASE i = 1 BY <1>1, <2>1
  <2>2. CASE i # 1 /\ i <= j
    <3>1. i - 1 \in 1 .. N /\ i - 1 <= j /\ i - 1 < j BY <1>1, <2>2
    <3>2. w[i - 1] = begin /\ w[i] = begin BY <2>2, <3>1
    <3>3. ~InArea(begin, i - 1) BY <1>4, <3>1
    <3> QED BY <2>2, <3>2, <3>3
  <2>3. CASE i = j + 1
    <3>1. i - 1 = j /\ j \in 1 .. N /\ i <= M /\ ~(i <= j) /\ i # 1 BY <1>1, <1>6, <2>3
    <3>2. w[i - 1] = begin /\ w[i] = F(i) BY <1>1, <3>1
    <3> QED BY <3>1, <3>2
  <2>4. CASE i > j + 1 /\ i <= M
    <3>1. /\ i - 1 \in 1 .. N /\ i - 1 \in j + 1 .. N /\ i - 1 < M /\ i - 1 <= M
          /\ ~(i - 1 <= j) /\ ~(i <= j) /\ i # 1
      BY <1>1, <1>6, <2>4
    <3>2. w[i - 1] = F(i - 1) /\ w[i] = F(i) BY <2>4, <3>1
    <3>3. F(i - 1) <= last /\ InArea(F(i - 1), i - 1) BY <1>3, <1>6, <3>1
    <3> QED BY <3>1, <3>2, <3>3
  <2>5. CASE i > M
    <3>1. /\ i - 1 \in 1 .. N /\ M \in 1 .. N /\ ~(i - 1 <= j) /\ ~(i <= j) /\ i # 1
          /\ ~(i <= M) /\ M <= N /\ (i - 1 <= M => i - 1 = M)
      BY <1>1, <1>6, <2>5
    <3>2. w[i - 1] = F(M) /\ w[i] = F(M) BY <3>1
    <3>3. ~(F(M) <= last) BY <1>2, <1>6, <3>1
    <3> QED BY <3>1, <3>2, <3>3
  <2>6. (i # 1 /\ i <= j) \/ i = 1 \/ i = j + 1 \/ (i > j + 1 /\ i <= M) \/ i > M
    BY <1>1, <1>6
  <2> QED BY <2>1, <2>2, <2>3, <2>4, <2>5, <2>6
<1>8. \A i \in 1 .. N : Cursor(begin, last)[i] = w[i] BY <1>7, CursorIs
<1>9. Cursor(begin, last)[j] = begin BY <1>1, <1>8
<1>10. ASSUME NEW i \in j + 1 .. N, F(i) <= last
       PROVE  Cursor(begin, last)[i] = F(i)
  <2>1. i \in 1 .. N /\ ~(i <= j) BY <1>1
  <2>2. i <= M
    <3> SUFFICES ASSUME i > M PROVE FALSE BY <1>1, <1>6
    <3>1. M \in 1 .. N /\ M <= N /\ M < i BY <1>1, <1>6, <2>1
    <3>2. F(M) <= F(i) /\ F(M) > last /\ F(M) \in Nat /\ F(i) \in Nat
      BY <1>2, <1>5, <1>6, <2>1, <3>1
    <3> QED BY <1>10, <3>2
  <2>3. w[i] = F(i) BY <2>1, <2>2
  <2> QED BY <1>8, <2>1, <2>3
<1> QED BY <1>9, <1>10 DEF F

\* A remapping that begins in an area removes every page of its range.
LEMMA RemappedAll ==
  ASSUME RemapsBeginInAreas
  PROVE  RemapRemovesRange
<1> SUFFICES ASSUME NEW r \in Remaps, NEW s \in Mapped(SlotOf(r[1]) .. SlotOf(r[2]))
             PROVE  s \in RemappedSlots(r[1], r[2])
  BY DEF RemapRemovesRange
<1> DEFINE b == r[1]
           l == r[2]
           c == Cursor(b, l)
<1>1. b \in Nat /\ l \in Nat /\ b <= l /\ SlotOf(b) \in Slot
  BY ConstantsAssumption DEF Addr, RemapsBeginInAreas
<1>2. s \in Slot /\ map[s] # NoPage /\ s \in SlotOf(b) .. SlotOf(l) BY DEF Mapped
<1>3. SlotOf(b) \in Nat /\ SlotOf(l) \in Nat /\ s \in Nat BY <1>1, <1>2, Places, Slots
<1>4. PICK j \in 1 .. Len(Areas) : SlotOf(b) \in Areas[j].first .. Areas[j].last
  BY <1>1, AreasTyped DEF Slot
<1>5. PICK i \in 1 .. Len(Areas) : s \in Areas[i].first .. Areas[i].last
  BY <1>2, AreasTyped DEF Slot
<1>6. /\ Areas[i].first \in Nat /\ Areas[i].last \in Nat
      /\ Areas[j].first \in Nat /\ Areas[j].last \in Nat
      /\ Len(Areas) \in Nat
  BY AreasTyped
<1>7. i >= j
  <2> SUFFICES ASSUME i < j PROVE FALSE BY <1>6
  <2>1. Areas[i].last < Areas[j].first BY AreasOrdered
  <2> QED BY <1>2, <1>3, <1>4, <1>5, <1>6, <2>1
<1>8. InArea(b, j) BY <1>4 DEF InArea
<1> HIDE DEF b, l
<1>9. c[i] <= l /\ InArea(c[i], i) /\ SlotOf(c[i]) \in Nat /\ SlotOf(c[i]) <= s
  <2>1. CASE i = j
    <3>1. c[i] = b BY <1>1, <1>8, <2>1, CursorReaches
    <3> QED BY <1>1, <1>2, <1>3, <1>8, <2>1, <3>1
  <2>2. CASE i # j
    <3>1. i \in j + 1 .. Len(Areas) BY <1>6, <1>7, <2>2
    <3>2. Areas[i].first <= s /\ Areas[i].first <= SlotOf(l) BY <1>2, <1>3, <1>5, <1>6
    <3>3. Areas[i].first * PageSize <= l
      <4>1. Areas[i].first * PageSize <= SlotOf(l) * PageSize
            /\ Areas[i].first * PageSize \in Nat /\ SlotOf(l) * PageSize \in Nat
        BY <1>3, <1>6, <3>2, Times
      <4>2. l = SlotOf(l) * PageSize + OffsetOf(l) /\ OffsetOf(l) \in Nat
        BY <1>1, Places, Slots
      <4> DEFINE x == Areas[i].first * PageSize
                 y == SlotOf(l) * PageSize
      <4> HIDE DEF x, y
      <4>3. x <= y /\ x \in Nat /\ y \in Nat /\ l = y + OffsetOf(l) BY <4>1, <4>2 DEF x, y
      <4>4. x <= l BY <4>2, <4>3
      <4> QED BY <4>4 DEF x
    <3>4. c[i] = Areas[i].first * PageSize BY <1>1, <1>8, <3>1, <3>3, CursorReaches
    <3>5. SlotOf(c[i]) = Areas[i].first
      <4>1. 0 \in Offset BY Sizes DEF Offset
      <4>2. Areas[i].first * PageSize + 0 = Areas[i].first * PageSize BY <1>6, Times
      <4> QED BY <1>6, <3>4, <4>1, <4>2, Here
    <3>6. InArea(c[i], i) BY <1>5, <1>6, <3>5 DEF InArea
    <3> QED BY <1>6, <3>2, <3>3, <3>4, <3>5, <3>6
  <2> QED BY <2>1, <2>2
<1> HIDE DEF c
<1>10. s \in {t \in SlotOf(c[i]) .. SlotOf(l) : t <= Areas[i].last}
  BY <1>2, <1>3, <1>5, <1>6, <1>9
<1>11. s \in Mapped({t \in SlotOf(c[i]) .. SlotOf(l) : t <= Areas[i].last})
  BY <1>2, <1>10 DEF Mapped
<1>12. DOMAIN Areas = 1 .. Len(Areas) BY AreasTyped
<1> DEFINE G(k) == OverlappingBefore(c[k]) \cup
                     Mapped({t \in SlotOf(c[k]) .. SlotOf(l) : t <= Areas[k].last})
           hit == {k \in DOMAIN Areas : c[k] <= l /\ InArea(c[k], k)}
<1>13. RemappedSlots(b, l) = UNION {G(k) : k \in hit} BY DEF RemappedSlots, c
<1>14. i \in hit /\ s \in G(i) BY <1>9, <1>11, <1>12
<1> HIDE DEF G, hit
<1>15. s \in RemappedSlots(b, l) BY <1>13, <1>14
<1> QED BY <1>15 DEF b, l

-----------------------------------------------------------------------------
(***************************************************************************)
(* The theorems.                                                           *)
(***************************************************************************)
LEMMA JitAlways ==
  ASSUME RemapsBeginInAreas
  PROVE  Spec => []JitInv
<1>1. JitInv /\ [Next]_vars => JitInv' BY RemappedAll, JitStepKeeps
<1> QED BY <1>1, JitInit, PTL DEF Spec

\* "Elimina totes les pagines en el rang" (area_remapped): remapping a range that
\* begins in one of the areas removes every page of the range, whatever the areas
\* are and whichever of them the range crosses.
THEOREM RemapsRemoveRange ==
  ASSUME RemapsBeginInAreas
  PROVE  Spec => []RemapRemovesRange
<1>1. RemapRemovesRange BY RemappedAll
<1> QED BY <1>1, PTL

\* The words from k on are those of the instruction at address a, decoded in mode m.
Holds(a, p, k, m) ==
  /\ SlotOf(a) \in Slot \ doomed /\ map[SlotOf(a)] = p /\ p # NoPage
  /\ entries[p][OffsetOf(a)] = [ind |-> k, is32 |-> m] /\ k > PAD_ENTRY

\* It is the instruction a machine without a cache would decode there.
FromMemory(a, p, m) ==
  /\ p \in Page /\ OffsetOf(a) \in Offset /\ Starts(p, OffsetOf(a))
  /\ BytesAt(p, OffsetOf(a))[1] = mem[a]
  /\ DecodedAt(p, OffsetOf(a)).op = Kind[mem[a]] /\ Kind[mem[a]] \in Kinds
  /\ Len(BytesAt(p, OffsetOf(a))) = InstLen[<<mem[a], m>>]
  /\ a \in Fetchable
  /\ a .. a + InstLen[<<mem[a], m>>] - 1 \subseteq Fetchable

LEMMA InMemory ==
  ASSUME JitInv, NEW a \in Nat, NEW p, NEW k, NEW m, Holds(a, p, k, m)
  PROVE  FromMemory(a, p, m)
<1> USE DEF JitInv
<1> DEFINE s == SlotOf(a)
           o == OffsetOf(a)
           b == BytesAt(p, o)
<1>0. /\ s \in Slot \ doomed /\ map[s] = p /\ p # NoPage
      /\ entries[p][o] = [ind |-> k, is32 |-> m] /\ k > PAD_ENTRY
  BY DEF Holds
<1>1. s \in Nat /\ o \in Offset /\ o \in Nat /\ a = s * PageSize + o /\ o < PageSize
  BY <1>0, Places, Slots, Sizes DEF Offset
<1>2. p \in Page BY <1>0 DEF CacheInv, ListInv, ListTypeOK, PageOrNone
<1>3. Starts(p, o) BY <1>0 DEF Starts
<1>4. Decodes(b, m, DecodedAt(p, o).op) BY <1>0, <1>1, <1>2, <1>3 DEF BlockInv, StartOK
<1>5. Same(s, o, b) /\ Fetched(s, o, Len(b)) BY <1>0, <1>1, <1>3 DEF MemInv
<1>6. Len(b) \in Nat /\ Len(b) > 0 /\ b[1] \in Byte BY <1>1, <1>2, <1>3, StartBytes
<1> HIDE DEF b
<1> DEFINE t == s * PageSize
<1>7. t \in Nat /\ a = t + o BY <1>1, Sizes
<1>8. \A i \in 1 .. Len(b) : o + i <= PageSize => mem[t + o + i - 1] = b[i]
  BY <1>5 DEF Same
<1>9. t + o .. t + o + Len(b) - 1 \subseteq Fetchable BY <1>5 DEF Fetched
<1> HIDE DEF t, s, o
<1>10. 1 \in 1 .. Len(b) /\ o + 1 <= PageSize /\ t + o + 1 - 1 = a /\ a \in t + o .. t + o + Len(b) - 1
  BY <1>1, <1>6, <1>7, Sizes
<1>11. mem[a] = b[1] BY <1>8, <1>10
<1>12. a \in Fetchable /\ a .. a + Len(b) - 1 \subseteq Fetchable BY <1>7, <1>9, <1>10
<1>13. Len(b) = InstLen[<<mem[a], m>>] /\ DecodedAt(p, o).op = Kind[mem[a]]
  BY <1>4, <1>11 DEF Decodes
<1>14. Kind[mem[a]] \in Kinds BY <1>6, <1>11, ConstantsAssumption
<1> QED BY <1>1, <1>2, <1>3, <1>11, <1>12, <1>13, <1>14 DEF FromMemory, o, b

\* A page that no pending removal will take holds no instruction that was written
\* after it was decoded, or decoded with another length: addr_changed and
\* area_remapped find every page they must remove, whichever instruction of which
\* page they are called from.
THEOREM CodeAlwaysFresh ==
  ASSUME RemapsBeginInAreas
  PROVE  Spec => []CodeIsFresh
<1>1. JitInv => CodeIsFresh
  <2> SUFFICES ASSUME JitInv, NEW s \in Slot, NEW o \in Decoded(s)
               PROVE  LET b == DecodedAt(map[s], o).bytes IN
                      /\ Len(b) = InstLen[b[1], entries[map[s]][o].is32]
                      /\ \A i \in 1 .. Len(b) :
                           o + i <= PageSize => mem[s * PageSize + o + i - 1] = b[i]
    BY DEF CodeIsFresh
  <2> USE DEF JitInv
  <2>1. map[s] # NoPage /\ s \notin doomed /\ o \in Offset /\ Starts(map[s], o)
    BY DEF Decoded, Starts
  <2>2. map[s] \in Page BY <2>1 DEF CacheInv, ListInv, ListTypeOK, PageOrNone
  <2>3. Same(s, o, BytesAt(map[s], o)) BY <2>1 DEF MemInv
  <2>4. Decodes(BytesAt(map[s], o), entries[map[s]][o].is32, DecodedAt(map[s], o).op)
    BY <2>1, <2>2 DEF BlockInv, StartOK
  <2> QED BY <2>3, <2>4 DEF Same, Decodes, BytesAt
<1> QED BY <1>1, JitAlways, PTL

\* Between two calls of the host the JIT resumes at the instruction of EIP, decoded
\* in the present mode, or at a BC_GOTO_EIP or BC_HALT: goto_eip_body, the chain of
\* BC_INCn_EIP and the removals of pages keep current_page, current_pos and EIP
\* together.
THEOREM AlwaysResumesAtEip ==
  ASSUME RemapsBeginInAreas
  PROVE  Spec => []ResumesAtEip
<1>1. JitInv => ResumesAtEip
  <2> SUFFICES ASSUME JitInv, At("idle") \/ At("lock"), current_page # NoPage, ~OnHalt
               PROVE  LET w == WordAt(current_page, current_pos)
                          i == IF w.op = "inc" THEN WordAt(current_page, current_pos + 1) ELSE w IN
                      /\ SlotOf(eip) \in Slot /\ map[SlotOf(eip)] = current_page
                      /\ entries[current_page][OffsetOf(eip)] = [ind |-> current_pos, is32 |-> is32]
                      /\ i.op \in Kinds /\ i.bytes[1] = mem[eip]
    BY DEF ResumesAtEip, OnHalt
  <2>1. AtEntry(eip, current_page, current_pos) /\ doomed = {} BY DEF JitInv, Ready, At
  <2>2. eip \in Nat BY DEF JitInv, CacheInv, BytecodeInv, DataTypeOK
  <2>3. /\ SlotOf(eip) \in Slot \ doomed /\ map[SlotOf(eip)] = current_page
        /\ entries[current_page][OffsetOf(eip)] = [ind |-> current_pos, is32 |-> is32]
        /\ current_pos > PAD_ENTRY
    BY <2>1 DEF AtEntry
  <2>4. FromMemory(eip, current_page, is32)
    <3>1. Holds(eip, current_page, current_pos, is32) BY <2>1, <2>3 DEF Holds
    <3> QED BY <2>2, <3>1, InMemory
  <2>5. entries[current_page][OffsetOf(eip)].ind = current_pos BY <2>3
  <2> QED BY <2>3, <2>4, <2>5 DEF FromMemory, BytesAt, DecodedAt
<1> QED BY <1>1, JitAlways, PTL

-----------------------------------------------------------------------------
(***************************************************************************)
(* Refinement: the steps of the cache are steps of the machine of GuestCpu *)
(* or leave it as it is.                                                   *)
(***************************************************************************)

\* Where the guest is, for every place exec_inst may be at.
GuestPlace ==
  /\ pc # "run" => GuestEip = eip
  /\ pc \notin {"idle", "lock", "run", "stop"} \/ current_page = NoPage => ~Halted
  /\ pc # "run" /\ current_page # NoPage /\ AtEntry(eip, current_page, current_pos)
       => ~Halted
  /\ pc = "run" =>
       /\ Starting => GuestEip = eip /\ ~Halted
       /\ Again => GuestEip = eip /\ Halted
       /\ InHalt => GuestEip = eip - Len(Word.bytes) /\ ~Halted
       /\ Leaving => GuestEip = eip + Word.len /\ ~Halted
       /\ Going => GuestEip = eip /\ ~Halted

\* The first word of an instruction is never BC_HALT.
LEMMA NotOnHalt ==
  ASSUME JitInv, NEW a \in Nat, NEW p \in Page, NEW k, AtEntry(a, p, k)
  PROVE  WordAt(p, k).op # "halt"
<1> USE DEF JitInv
<1>1. OffsetOf(a) \in Offset BY Offsets
<1>2. Starts(p, OffsetOf(a)) /\ entries[p][OffsetOf(a)].ind = k BY DEF AtEntry, Starts
<1>3. Coded(p, OffsetOf(a), k, entries[p][OffsetOf(a)].is32)
  BY <1>1, <1>2 DEF BlockInv, StartOK
<1> QED BY <1>3 DEF Coded, HaltCoded, PlainCoded

LEMMA Placed == JitInv => GuestPlace
<1> SUFFICES ASSUME JitInv PROVE GuestPlace OBVIOUS
<1> USE DEF JitInv
<1>1. eip \in Nat /\ current_page \in PageOrNone
  BY DEF CacheInv, BytecodeInv, DataTypeOK, ListInv, ListTypeOK
<1>2. pc # "run" => GuestEip = eip BY DEF GuestEip
<1>3. pc \notin {"idle", "lock", "run", "stop"} \/ current_page = NoPage => ~Halted
  BY DEF Halted
<1>4. ASSUME current_page # NoPage, AtEntry(eip, current_page, current_pos) PROVE ~Halted
  <2>1. current_page \in Page BY <1>1, <1>4 DEF PageOrNone
  <2>2. WordAt(current_page, current_pos).op # "halt" BY <1>1, <1>4, <2>1, NotOnHalt
  <2> QED BY <2>2 DEF Halted
<1>5. ASSUME pc = "run"
      PROVE  /\ Starting => GuestEip = eip /\ ~Halted
             /\ Again => GuestEip = eip /\ Halted
             /\ InHalt => GuestEip = eip - Len(Word.bytes) /\ ~Halted
             /\ Leaving => GuestEip = eip + Word.len /\ ~Halted
             /\ Going => GuestEip = eip /\ ~Halted
  <2>1. /\ lock_page \in Page /\ lock_page # NoPage /\ pos \in Nat
        /\ InBytecode(lock_page, pos) /\ current_page \in {lock_page, NoPage}
    BY <1>5, RunPlace DEF Page, NoPage
  <2>2. Halted <=> /\ current_page # NoPage /\ current_pos > PAD_ENTRY
                   /\ WordAt(current_page, current_pos).op = "halt"
    BY <1>5 DEF Halted
  <2>3. ASSUME Starting PROVE GuestEip = eip /\ ~Halted
    <3>1. ~Halted BY <1>4, <2>1, <2>2, <2>3 DEF Starting
    <3>2. /\ pos > PAD_ENTRY /\ Word = WordAt(lock_page, pos)
          /\ entries[lock_page][OffsetOf(eip)] = [ind |-> pos, is32 |-> is32]
      BY <1>5, <2>3, AtStart
    <3>3. /\ Word.op \notin {"halt", "goto"}
          /\ Word.op = "inc" => HaltCoded(lock_page, pos)
      BY <1>5, <2>1, <3>2, Beginning
    <3>4. Word.op = "inc" =>
            /\ pos < Len(v[lock_page]) + 1 /\ ~Word.stop
            /\ WordAt(lock_page, pos + 1).op = "halt"
      BY <2>1, <3>2, <3>3 DEF HaltCoded, InBytecode
    <3> QED BY <1>5, <3>1, <3>3, <3>4 DEF GuestEip
  <2>4. ASSUME Again PROVE GuestEip = eip /\ Halted
    <3>1. pos > PAD_ENTRY BY <2>1 DEF InBytecode, PAD_ENTRY
    <3>2. Halted BY <2>1, <2>2, <2>4, <3>1 DEF Again, Word
    <3> QED BY <1>5, <2>4, <3>2 DEF GuestEip, Again
  <2>5. ASSUME InHalt PROVE GuestEip = eip - Len(Word.bytes) /\ ~Halted
    <3>1. WordAt(lock_page, pos - 1).op = "inc"
      <4>1. HaltsAfterInc(v[lock_page]) BY <2>1 DEF CacheInv, BytecodeInv, CodeInv
      <4>2. pos - 1 \in 1 .. Len(v[lock_page]) /\ v[lock_page][pos - 1].op = "halt"
        BY <2>1, <2>5 DEF InHalt, InBytecode, Word, WordAt
      <4> QED BY <4>1, <4>2 DEF HaltsAfterInc, WordAt
    <3>2. ~Halted BY <2>2, <2>5, <3>1 DEF InHalt
    <3> QED BY <1>5, <2>5, <3>2 DEF GuestEip, InHalt
  <2>6. ASSUME Leaving PROVE GuestEip = eip + Word.len /\ ~Halted
    <3>1. PICK m : entries[lock_page][OffsetOf(eip)] = [ind |-> pos - 1, is32 |-> m]
      BY <1>5, <2>6, AtInc
    <3>2. /\ pos - 1 \in Nat /\ pos - 1 > PAD_ENTRY /\ Word = WordAt(lock_page, (pos - 1) + 1)
          /\ WordAt(lock_page, pos + 1) = WordAt(lock_page, (pos - 1) + 2)
      BY <1>5, <2>6, AtInc
    <3>3. /\ WordAt(lock_page, pos - 1).op \in {"seq", "store", "out", "cr0"}
          /\ Word.op = "inc"
          /\ current_page # NoPage => current_pos = pos - 1
      BY <2>6 DEF Leaving
    <3>4. ~Word.stop => WordAt(lock_page, pos + 1).op = "goto"
      BY <1>5, <3>1, <3>2, <3>3, Beginning
    <3>5. ~Halted BY <2>1, <2>2, <3>3
    <3> QED BY <1>5, <3>3, <3>4, <3>5 DEF GuestEip
  <2>7. ASSUME Going PROVE GuestEip = eip /\ ~Halted
    <3>1. ~Halted BY <2>2, <2>7 DEF Going, OnHalt
    <3> QED BY <1>5, <2>7, <3>1 DEF GuestEip, Going
  <2> QED BY <2>3, <2>4, <2>5, <2>6, <2>7
<1> QED BY <1>2, <1>3, <1>4, <1>5 DEF GuestPlace

LEMMA PlacedNext == JitInv' => GuestPlace'
BY Placed, PTL

\* A guest whose host calls the cache between instructions has no HLT.
LEMMA NeverHalted == JitInv /\ HaltKept /\ HostCalls # {} => ~Halted
<1> SUFFICES ASSUME JitInv, HaltKept, HostCalls # {}, Halted PROVE FALSE OBVIOUS
<1> USE DEF JitInv
<1>1. /\ pc \in {"idle", "lock", "run", "stop"} /\ current_page # NoPage
      /\ WordAt(current_page, current_pos).op = "halt"
  BY DEF Halted
<1>2. current_page \in Page BY <1>1 DEF CacheInv, ListInv, ListTypeOK, PageOrNone
<1>3. InBytecode(current_page, current_pos) BY <1>1 DEF CacheInv, BytecodeInv, PlaceInv
<1>4. \E b \in Byte : Kind[b] = "halt" BY <1>1, <1>2, <1>3 DEF HaltInv, InBytecode, WordAt
<1> QED BY <1>4 DEF HaltKept

\* The only thing the cache does that the guest would not: a call of the host
\* between two instructions that removes the page of the HLT makes the JIT forget it.
Forgets ==
  /\ pc = "idle" /\ HostCalls # {} /\ (Reset \/ RemoveDoomed)
  /\ UNCHANGED <<mem, is32>> /\ GuestEip' = GuestEip /\ Halted /\ ~Halted'

\* A step of the cache as the guest sees it.
Refines ==
  [Guest!Next \/ Forgets]_(Guest!vars) /\ (Halted => Halted' \/ Interrupt \/ Forgets)
Stutters == UNCHANGED <<mem, is32>> /\ GuestEip' = GuestEip /\ (Halted' <=> Halted)

LEMMA Stuttering ==
  ASSUME Stutters
  PROVE  Refines
<1>1. Halted' = Halted BY DEF Stutters, Halted
<1>2. UNCHANGED (Guest!vars) BY <1>1 DEF Stutters, Guest!vars
<1>3. Halted => Halted' BY DEF Stutters
<1> QED BY <1>2, <1>3 DEF Refines

\* An instruction in execution is the one the machine of GuestCpu decodes.
Executes(op) ==
  /\ Guest!Executes(op) /\ ~Halted
  /\ GuestEip \in Nat /\ Guest!Size = Len(Word.bytes)

LEMMA Executing ==
  ASSUME JitInv, pc = "run", Word.op \in Kinds, ~Again
  PROVE  /\ Executes(Word.op) /\ GuestEip = FaultEip
         /\ Word.op # "halt" => Starting
         /\ Word.op = "halt" => InHalt
<1> USE DEF JitInv
<1>1. GuestPlace BY Placed
<1>2. lock_page \in Page /\ lock_page # NoPage /\ pos \in Nat /\ eip \in Nat
  BY RunPlace DEF Page, NoPage
<1>3. Starting \/ InHalt BY DEF RunInv, Leaving, Going, Kinds
<1>4. ASSUME NEW a \in Nat, NEW k, GuestEip = a, a = FaultEip, ~Halted,
             Holds(a, lock_page, k, is32), DecodedAt(lock_page, OffsetOf(a)) = Word
      PROVE  Executes(Word.op)
  <2>1. FromMemory(a, lock_page, is32) BY <1>4, InMemory
  <2>2. /\ Kind[mem[a]] = Word.op /\ Len(Word.bytes) = InstLen[<<mem[a], is32>>]
        /\ a \in Fetchable /\ a .. a + InstLen[<<mem[a], is32>>] - 1 \subseteq Fetchable
    BY <1>4, <2>1 DEF FromMemory, BytesAt
  <2>3. Guest!Opcode = mem[a] /\ Guest!Size = InstLen[<<mem[a], is32>>]
    BY <1>4 DEF Guest!Opcode, Guest!Size
  <2>4. Guest!Decodes BY <1>4, <2>2, <2>3 DEF Guest!Decodes
  <2> QED BY <1>4, <2>2, <2>3, <2>4 DEF Executes, Guest!Executes
<1>5. CASE Starting
  <2>1. /\ pos > PAD_ENTRY /\ Word = WordAt(lock_page, pos)
        /\ entries[lock_page][OffsetOf(eip)] = [ind |-> pos, is32 |-> is32]
    BY <1>5, AtStart
  <2>2. Word.op # "halt" BY <1>2, <2>1, Beginning
  <2>3. GuestEip = eip /\ FaultEip = eip /\ ~Halted
    BY <1>1, <1>5, <2>2 DEF GuestPlace, FaultEip
  <2>4. Holds(eip, lock_page, pos, is32)
    BY <1>2, <1>5, <2>1 DEF Starting, AtEntry, Holds
  <2>5. Word.op # "inc" BY DEF Kinds
  <2>6. entries[lock_page][OffsetOf(eip)].ind = pos BY <2>1
  <2>7. DecodedAt(lock_page, OffsetOf(eip)) = Word BY <2>1, <2>5, <2>6 DEF DecodedAt
  <2> QED BY <1>2, <1>4, <1>5, <2>2, <2>3, <2>4, <2>7
<1>6. CASE InHalt
  <2> DEFINE a == eip - Len(Word.bytes)
  <2>1. Word.op = "halt" /\ current_page = lock_page /\ current_pos = pos - 1
    BY <1>6 DEF InHalt
  <2>2. GuestEip = a /\ FaultEip = a /\ ~Halted
    BY <1>1, <1>6, <2>1 DEF GuestPlace, FaultEip
  <2>3. a \in Nat
    <3>1. current_pos # pos BY <1>2, <2>1
    <3>2. eip >= Len(Word.bytes)
      BY <2>1, <3>1 DEF CacheInv, BytecodeInv, PlaceInv, Halting
    <3>3. Len(Word.bytes) \in Nat
      <4>1. Word \in Instructions BY RunPlace, WordsTyped
      <4> QED BY <4>1, WordsTyped
    <3> QED BY <1>2, <3>2, <3>3
  <2>4. Holds(a, lock_page, pos - 1, is32) BY <1>2, <1>6 DEF InHalt, AtEntry, Holds
  <2>5. entries[lock_page][OffsetOf(a)].ind = pos - 1 BY <2>4 DEF Holds
  <2>6. WordAt(lock_page, pos - 1).op = "inc"
    <3>1. HaltsAfterInc(v[lock_page]) BY <1>2 DEF CacheInv, BytecodeInv, CodeInv
    <3>2. InBytecode(lock_page, pos) BY RunPlace
    <3>3. pos - 1 \in 1 .. Len(v[lock_page]) /\ v[lock_page][pos - 1].op = "halt"
      BY <2>1, <3>2 DEF InBytecode, Word, WordAt
    <3> QED BY <3>1, <3>3 DEF HaltsAfterInc, WordAt
  <2>7. (pos - 1) + 1 = pos BY <1>2
  <2>8. DecodedAt(lock_page, OffsetOf(a)) = Word BY <2>5, <2>6, <2>7 DEF DecodedAt, Word
  <2> HIDE DEF a
  <2> QED BY <1>4, <1>6, <2>1, <2>2, <2>3, <2>4, <2>8
<1> QED BY <1>3, <1>5, <1>6

LEMMA HostCallRefines ==
  ASSUME JitInv, JitInv', HostCall
  PROVE  Refines
<1> USE DEF At
<1>1. GuestPlace /\ GuestPlace' BY Placed, PlacedNext
<1>2. pc = "idle" /\ UNCHANGED v
  BY DEF HostCall, ExecNextInst, Interrupt, HostWrite, ClearAreas, Reset, pageVars
<1>3. GuestEip = eip BY <1>1, <1>2 DEF GuestPlace
<1>4. CASE ExecNextInst
  <2>1. /\ UNCHANGED <<mem, eip, is32, current_page, current_pos>>
        /\ pc' = "lock" \/ (pc' = "goto" /\ current_page = NoPage)
    BY <1>4 DEF ExecNextInst, guestVars, runVars
  <2>2. GuestEip' = eip' BY <1>1, <2>1 DEF GuestPlace
  <2>3. Halted' <=> Halted BY <1>2, <2>1 DEF Halted, WordAt
  <2> QED BY <1>3, <2>1, <2>2, <2>3, Stuttering DEF Stutters
<1>5. CASE Interrupt
  <2>1. /\ eip' = Handler /\ is32' = HandlerIs32 /\ pc' = "goto"
        /\ \E w \in Push : mem' = Written(mem, w)
    BY <1>5 DEF Interrupt, HostStores
  <2>2. GuestEip' = Handler /\ ~Halted' BY <1>1, <2>1 DEF GuestPlace
  <2>3. Halted' = FALSE BY <2>2 DEF Halted
  <2>4. Guest!Interrupt BY <2>1, <2>2, <2>3 DEF Guest!Interrupt, Guest!Written, Written
  <2> QED BY <1>5, <2>4 DEF Refines, Guest!Next
<1>6. CASE HostWrite
  <2>1. /\ UNCHANGED <<eip, is32, current_page, current_pos, pc>>
        /\ \/ "write" \in HostCalls /\ \E w \in Stores : mem' = Written(mem, w)
           \/ "remap" \in HostCalls /\ \E r \in Remaps : mem' = Filled(mem, r)
    BY <1>6 DEF HostWrite, HostStores, HostRemaps, runVars
  <2>2. GuestEip' = GuestEip BY <1>1, <1>2, <1>3, <2>1 DEF GuestPlace
  <2>3. Halted' = Halted BY <1>2, <2>1 DEF Halted, WordAt
  <2>4. Guest!HostWrite
    BY <2>1, <2>2, <2>3 DEF Guest!HostWrite, Guest!Written, Guest!Filled, Written, Filled,
                            Guest!Addr, Addr
  <2> QED BY <2>3, <2>4 DEF Refines, Guest!Next
<1>7. CASE ClearAreas
  <2>1. UNCHANGED <<mem, eip, is32, current_page, current_pos, pc>>
    BY <1>7 DEF ClearAreas, guestVars, runVars
  <2>2. GuestEip' = GuestEip BY <1>1, <1>2, <1>3, <2>1 DEF GuestPlace
  <2>3. Halted' <=> Halted BY <1>2, <2>1 DEF Halted, WordAt
  <2> QED BY <2>1, <2>2, <2>3, Stuttering DEF Stutters
<1>8. CASE Reset
  <2>1. UNCHANGED <<mem, eip, is32, pc>> /\ HostCalls # {}
    BY <1>8 DEF Reset, guestVars, localVars
  <2>2. GuestEip' = GuestEip BY <1>1, <1>2, <1>3, <2>1 DEF GuestPlace
  <2>3. ~Halted' BY <1>8 DEF Reset, Halted
  <2>4. CASE Halted
    <3>1. Forgets BY <1>2, <1>8, <2>1, <2>2, <2>3, <2>4 DEF Forgets
    <3> QED BY <3>1 DEF Refines
  <2>5. CASE ~Halted BY <2>1, <2>2, <2>3, <2>5, Stuttering DEF Stutters
  <2> QED BY <2>4, <2>5
<1> QED BY <1>4, <1>5, <1>6, <1>7, <1>8 DEF HostCall

LEMMA RemoveDoomedRefines ==
  ASSUME JitInv, JitInv', RemoveDoomed
  PROVE  Refines
<1>1. GuestPlace /\ GuestPlace' BY Placed, PlacedNext
<1>2. UNCHANGED <<mem, eip, is32, v, pc, pos>> /\ doomed # {}
  BY DEF RemoveDoomed, guestVars, pageVars
<1>3. lock_page' = lock_page BY DEF RemoveDoomed, RemovePage
<1>4. CASE pc = "run"
  <2>1. Leaving /\ Leaving' BY <1>4, RemoveDoomedCode
  <2>2. Word' = Word BY <1>2, <1>3 DEF Word, WordAt
  <2>3. GuestEip' = GuestEip /\ ~Halted /\ ~Halted'
    BY <1>1, <1>2, <1>4, <2>1, <2>2 DEF GuestPlace
  <2> QED BY <1>2, <2>3, Stuttering DEF Stutters
<1>5. CASE pc = "goto"
  <2>1. GuestEip' = GuestEip /\ ~Halted /\ ~Halted' BY <1>1, <1>2, <1>5 DEF GuestPlace
  <2> QED BY <1>2, <2>1, Stuttering DEF Stutters
<1>6. CASE pc = "idle" /\ HostCalls # {}
  <2>1. GuestEip' = GuestEip BY <1>1, <1>2, <1>6 DEF GuestPlace
  <2>2. current_page' # NoPage => current_page' = current_page /\ current_pos' = current_pos
    BY DEF RemoveDoomed, RemovePage
  <2>3. Halted' => Halted BY <1>2, <2>2 DEF Halted, WordAt
  <2>4. CASE Halted /\ ~Halted'
    <3>1. Forgets BY <1>2, <1>6, <2>1, <2>4 DEF Forgets
    <3> QED BY <3>1 DEF Refines
  <2>5. CASE Halted' <=> Halted BY <1>2, <2>1, <2>5, Stuttering DEF Stutters
  <2> QED BY <2>3, <2>4, <2>5
<1> QED BY <1>2, <1>4, <1>5, <1>6 DEF JitInv, DoomInv

\* goto_eip and the decoder are not seen by the guest: they end at an instruction.
LEMMA LookupRefines ==
  ASSUME JitInv, JitInv', GotoEip \/ DisInsts \/ ExceptionGivesUp
  PROVE  Refines
<1> USE DEF JitInv, At
<1>1. GuestPlace /\ GuestPlace' BY Placed, PlacedNext
<1>2. ListTypeOK /\ PhaseOK BY DEF CacheInv, ListInv, ListsConsistent
<1>3. UNCHANGED <<mem, eip, is32>> /\ pc \in {"goto", "dis", "compile", "exc"}
  BY DEF GotoEip, OutOfRange, NewPage, Hit, Stale, Decode, InSlot, DisInsts, DisInst, DisFault,
         DisEnd, CompileInst, CompileEnd, ExceptionGivesUp, guestVars
<1>4. pc' # "run" /\ (pc' \in {"idle", "lock", "stop"} => Hit \/ CompileEnd)
  BY <1>2 DEF GotoEip, OutOfRange, NewPage, Hit, Stale, Decode, InSlot, DisInsts, DisInst,
              DisFault, DisEnd, CompileInst, CompileEnd, ExceptionGivesUp, ListTypeOK, localVars
<1>5. ASSUME Hit PROVE current_page' # NoPage /\ AtEntry(eip, current_page, current_pos)'
  <2>1. /\ UNCHANGED <<eip, is32, map, entries>> /\ Eslot \in Slot /\ map[Eslot] # NoPage
        /\ Usable(Entry) /\ current_page' = map[Eslot] /\ current_pos' = Entry.ind
    BY <1>5 DEF Hit, InSlot, guestVars, listVars, pageVars
  <2>2. Entry = [ind |-> Entry.ind, is32 |-> Entry.is32]
    <3>1. map[Eslot] \in Page BY <1>2, <2>1 DEF ListTypeOK, PageOrNone
    <3>2. OffsetOf(eip) \in Offset BY Offsets DEF CacheInv, BytecodeInv, DataTypeOK
    <3>3. Entry \in [ind : Nat, is32 : BOOLEAN]
      BY <3>1, <3>2 DEF CacheInv, BytecodeInv, DataTypeOK, Entry
    <3> QED BY <3>3
  <2>3. AtEntry(eip, map[Eslot], Entry.ind) BY <2>1, <2>2 DEF AtEntry, Usable, Eslot, Entry
  <2> QED BY <2>1, <2>3 DEF AtEntry
<1>6. ASSUME CompileEnd PROVE current_page' # NoPage /\ AtEntry(eip, current_page, current_pos)'
  <2>1. /\ UNCHANGED <<eip, is32, map, entries, current_page, current_pos>>
        /\ pc = "compile" /\ dis = <<>>
    BY <1>6 DEF CompileEnd, guestVars, listVars, runVars
  <2>2. AtEntry(eip, current_page, current_pos) /\ current_page # NoPage
    BY <1>2, <2>1 DEF BlockDisInv, CompileInv, PhaseOK
  <2> QED BY <2>1, <2>2 DEF AtEntry
<1>7. ~Halted /\ ~Halted'
  <2>1. ~Halted BY <1>1, <1>3 DEF GuestPlace
  <2>2. /\ (pc # "run" /\ current_page # NoPage /\ AtEntry(eip, current_page, current_pos)
               => ~Halted)'
        /\ (pc \notin {"idle", "lock", "run", "stop"} => ~Halted)'
    BY <1>1 DEF GuestPlace
  <2>3. ~Halted' BY <1>4, <1>5, <1>6, <2>2
  <2> QED BY <2>1, <2>3
<1>8. GuestEip' = GuestEip BY <1>1, <1>3, <1>4 DEF GuestPlace
<1> QED BY <1>3, <1>7, <1>8, Stuttering DEF Stutters

LEMMA PlainRefines ==
  ASSUME JitInv, JitInv', RemapsBeginInAreas, ExecSeq \/ ExecStore \/ ExecOut \/ ExecCR0
  PROVE  Refines
<1> USE DEF At, Running
<1>1. /\ UNCHANGED <<eip, v, lock_page>> /\ pc = "run" /\ pc' = "run" /\ pos' = pos + 1
      /\ Word.op \in {"seq", "store", "out", "cr0"}
  BY DEF ExecSeq, ExecStore, ExecOut, ExecCR0, Advance, guestVars, runVars, pageVars
<1>2. Starting /\ Leaving' BY RemappedAll, ExecPlainCode
<1>3. /\ pos \in Nat /\ pos > PAD_ENTRY /\ Word = WordAt(lock_page, pos)
      /\ entries[lock_page][OffsetOf(eip)] = [ind |-> pos, is32 |-> is32]
  BY <1>1, <1>2, AtStart
<1>4. WordAt(lock_page, pos + 1).len = Len(WordAt(lock_page, pos).bytes)
  BY <1>1, <1>3, Beginning
<1>5. Word'.len = Len(Word.bytes) BY <1>1, <1>3, <1>4 DEF Word, WordAt
<1>6. Executes(Word.op)
  <2>1. Word.op \in Kinds /\ ~Again BY <1>1 DEF Kinds, Again
  <2> QED BY <1>1, <2>1, Executing
<1>7. GuestEip = eip /\ GuestEip' = eip' + Word'.len /\ ~Halted /\ ~Halted'
  BY <1>1, <1>2, Placed, PlacedNext DEF GuestPlace
<1>8. /\ Guest!Executes(Word.op) /\ GuestEip' = GuestEip + Guest!Size
      /\ Halted' = Halted
  BY <1>1, <1>5, <1>6, <1>7 DEF Executes, Halted
<1>9. CASE ExecSeq
  <2>1. Guest!Sequential BY <1>8, <1>9 DEF ExecSeq, guestVars, Guest!Sequential
  <2> QED BY <1>7, <2>1 DEF Refines, Guest!Next
<1>10. CASE ExecStore
  <2>1. UNCHANGED is32 /\ \E w \in Stores : mem' = Written(mem, w)
    BY <1>10 DEF ExecStore, HostStores
  <2>2. Guest!StoreInst
    BY <1>8, <1>10, <2>1 DEF ExecStore, Guest!StoreInst, Guest!Written, Written
  <2> QED BY <1>7, <2>2 DEF Refines, Guest!Next
<1>11. CASE ExecOut
  <2>1. UNCHANGED is32 /\ (mem' = mem \/ \E r \in Remaps : mem' = Filled(mem, r))
    BY <1>11 DEF ExecOut, HostRemaps
  <2>2. Guest!PortOutput
    BY <1>8, <1>11, <2>1 DEF ExecOut, Guest!PortOutput, Guest!Filled, Filled, Guest!Addr, Addr
  <2> QED BY <1>7, <2>2 DEF Refines, Guest!Next
<1>12. CASE ExecCR0
  <2>1. Guest!MoveToCR0 BY <1>8, <1>12 DEF ExecCR0, Guest!MoveToCR0
  <2> QED BY <1>7, <2>1 DEF Refines, Guest!Next
<1> QED BY <1>9, <1>10, <1>11, <1>12

\* BC_INCn_EIP is the guest's by the time it runs: only EIP catches up.
LEMMA IncRefines ==
  ASSUME JitInv, JitInv', ExecInc
  PROVE  Refines
<1> USE DEF At, Running
<1>1. GuestPlace /\ GuestPlace' BY Placed, PlacedNext
<1>2. /\ UNCHANGED <<mem, is32>> /\ pc = "run" /\ eip' = eip + Word.len
      /\ pc' = IF Word.stop THEN "stop" ELSE "run"
  BY DEF ExecInc, Advance
<1>3. /\ Starting => ~Word.stop /\ InHalt' /\ eip' - Len(Word'.bytes) = eip
      /\ Leaving /\ ~Word.stop => Going'
      /\ Starting \/ Leaving
      /\ pc' = "stop" /\ current_page' # NoPage => AtEntry(eip, current_page, current_pos)'
  BY ExecIncCode
<1>4. CASE Starting
  <2>1. GuestEip = eip /\ GuestEip' = eip' - Len(Word'.bytes) /\ ~Halted /\ ~Halted'
    BY <1>1, <1>2, <1>3, <1>4 DEF GuestPlace
  <2> QED BY <1>2, <1>3, <1>4, <2>1, Stuttering DEF Stutters
<1>5. CASE Leaving /\ ~Word.stop
  <2>1. GuestEip = eip + Word.len /\ GuestEip' = eip' /\ ~Halted /\ ~Halted'
    BY <1>1, <1>2, <1>3, <1>5 DEF GuestPlace
  <2> QED BY <1>2, <2>1, Stuttering DEF Stutters
<1>6. CASE Leaving /\ Word.stop
  <2>1. GuestEip = eip + Word.len /\ ~Halted BY <1>1, <1>2, <1>6 DEF GuestPlace
  <2>2. pc' = "stop" BY <1>2, <1>6
  <2>3. /\ (pc # "run" /\ current_page # NoPage /\ AtEntry(eip, current_page, current_pos)
              => ~Halted)'
        /\ (current_page = NoPage => ~Halted)' /\ (pc # "run" => GuestEip = eip)'
    BY <1>1 DEF GuestPlace
  <2>4. GuestEip' = eip' /\ ~Halted' BY <1>3, <2>2, <2>3
  <2> QED BY <1>2, <2>1, <2>4, Stuttering DEF Stutters
<1> QED BY <1>3, <1>4, <1>5, <1>6

LEMMA ExecRefines ==
  ASSUME JitInv, JitInv', RemapsBeginInAreas, ExceptionBody \/ Exec
  PROVE  Refines
<1> USE DEF At, Running
<1>1. GuestPlace /\ GuestPlace' BY Placed, PlacedNext
<1>2. CASE ExecSeq \/ ExecStore \/ ExecOut \/ ExecCR0 BY <1>2, PlainRefines
<1>3. CASE ExecInc BY <1>3, IncRefines
<1>4. CASE ExceptionBody
  <2>1. /\ eip' = Handler /\ is32' = HandlerIs32 /\ pc = "exc" /\ pc' = "goto"
        /\ \E w \in Push : mem' = Written(mem, w)
    BY <1>4 DEF ExceptionBody, HostStores
  <2>2. GuestEip' = Handler /\ ~Halted /\ ~Halted' BY <1>1, <2>1 DEF GuestPlace
  <2>3. Halted' = Halted BY <2>2 DEF Halted
  <2>4. Guest!Fault BY <2>1, <2>2, <2>3 DEF Guest!Fault, Guest!Written, Written
  <2> QED BY <2>2, <2>4 DEF Refines, Guest!Next
<1>5. CASE Lock
  <2>1. /\ UNCHANGED <<mem, eip, is32, v, current_page, current_pos>>
        /\ pc = "lock" /\ pc' = "run" /\ pos' = current_pos
    BY <1>5 DEF Lock, guestVars, pageVars
  <2>2. pos' \in Nat BY <2>1 DEF JitInv, CacheInv, BytecodeInv, DataTypeOK
  <2>3. current_page' # NoPage
    BY <2>1 DEF JitInv, CacheInv, ListInv, ListsConsistent, PhaseOK
  <2>4. pos' - 1 # pos'
    <3>1. \A n \in Nat : n - 1 # n OBVIOUS
    <3> QED BY <2>2, <3>1
  <2>5. ~InHalt' /\ ~Leaving' BY <2>1, <2>3, <2>4 DEF InHalt, Leaving
  <2>6. Starting' \/ Again' \/ Going' BY <2>1, <2>5 DEF JitInv, RunInv
  <2>7. GuestEip = eip /\ GuestEip' = eip' BY <1>1, <2>1, <2>6 DEF GuestPlace
  <2>8. Halted' <=> Halted BY <2>1 DEF Halted, WordAt
  <2> QED BY <2>1, <2>7, <2>8, Stuttering DEF Stutters
<1>6. CASE ExecJump \/ ExecFar
  <2>1. /\ mem' = mem /\ pc = "run" /\ pc' = "goto" /\ Word.op \in {"jump", "far"}
        /\ eip' \in Targets
    BY <1>6 DEF ExecJump, ExecFar, LeaveByGoto
  <2>2. Word.op \in Kinds /\ ~Again BY <2>1 DEF Kinds, Again
  <2>3. Executes(Word.op) BY <2>1, <2>2, Executing
  <2>4. GuestEip' = eip' /\ ~Halted /\ ~Halted' BY <1>1, <2>1, <2>3 DEF GuestPlace, Executes
  <2>5. Guest!Executes(Word.op) /\ Halted' = Halted BY <2>3, <2>4 DEF Executes, Halted
  <2>6. ExecJump => Guest!Jump BY <2>1, <2>4, <2>5 DEF ExecJump, Guest!Jump
  <2>7. ExecFar => Guest!FarJump BY <2>1, <2>4, <2>5 DEF ExecFar, Guest!FarJump
  <2> QED BY <1>6, <2>4, <2>6, <2>7 DEF Refines, Guest!Next
<1>7. CASE ExecFault
  <2>1. /\ UNCHANGED <<mem, is32>> /\ pc = "run" /\ pc' = "exc" /\ eip' = FaultEip
        /\ Word.op \in Kinds
    BY <1>7 DEF ExecFault
  <2>2. ~Again
    <3>1. lock_page # NoPage BY <2>1, RunPlace DEF JitInv, Page, NoPage
    <3> QED BY <1>7, <3>1 DEF ExecFault, Halting, Again
  <2>3. GuestEip = FaultEip /\ ~Halted BY <2>1, <2>2, Executing DEF Executes
  <2>4. GuestEip' = eip' /\ ~Halted' BY <1>1, <2>1 DEF GuestPlace
  <2> QED BY <2>1, <2>3, <2>4, Stuttering DEF Stutters
<1>8. CASE ExecGoto
  <2>1. /\ UNCHANGED <<mem, eip, is32>> /\ pc = "run" /\ pc' = "goto" /\ Word.op = "goto"
    BY <1>8 DEF ExecGoto, LeaveByGoto, guestVars
  <2>2. ~Starting
    <3> SUFFICES ASSUME Starting PROVE FALSE OBVIOUS
    <3>1. /\ pos \in Nat /\ pos > PAD_ENTRY /\ Word = WordAt(lock_page, pos)
          /\ entries[lock_page][OffsetOf(eip)] = [ind |-> pos, is32 |-> is32]
      BY <2>1, AtStart
    <3> QED BY <2>1, <3>1, Beginning
  <2>3. Going BY <2>1, <2>2 DEF JitInv, RunInv, Again, InHalt, Leaving
  <2>4. GuestEip' = GuestEip /\ ~Halted /\ ~Halted' BY <1>1, <2>1, <2>3 DEF GuestPlace
  <2> QED BY <2>1, <2>4, Stuttering DEF Stutters
<1>9. CASE ExecHalt
  <2>1. /\ UNCHANGED <<mem, eip, is32, v, current_page>> /\ pc = "run" /\ pc' = "stop"
        /\ current_pos' = pos /\ Word.op = "halt"
    BY <1>9 DEF ExecHalt, guestVars, pageVars
  <2>2. GuestEip' = eip BY <1>1, <2>1 DEF GuestPlace
  <2>3. ASSUME current_page = lock_page PROVE Halted'
    <3>1. /\ lock_page # NoPage /\ pos > PAD_ENTRY
      BY <2>1, RunPlace DEF JitInv, Page, NoPage, InBytecode, PAD_ENTRY
    <3> QED BY <2>1, <2>3, <3>1 DEF Halted, Word, WordAt
  <2>4. CASE Again
    <3>1. GuestEip = eip /\ Halted BY <1>1, <2>1, <2>4 DEF GuestPlace
    <3>2. Halted' BY <2>3, <2>4 DEF Again
    <3> QED BY <2>1, <2>2, <3>1, <3>2, Stuttering DEF Stutters
  <2>5. CASE ~Again
    <3>1. Word.op \in Kinds BY <2>1 DEF Kinds
    <3>2. Executes(Word.op) /\ InHalt BY <2>1, <2>5, <3>1, Executing
    <3>3. GuestEip = eip - Len(Word.bytes) /\ ~Halted BY <1>1, <2>1, <3>2 DEF GuestPlace
    <3>4. Halted' BY <2>3, <3>2 DEF InHalt
    <3>5. Halted' = TRUE BY <3>4 DEF Halted
    <3>6. GuestEip' = GuestEip + Guest!Size
      <4>1. Word \in Instructions BY <2>1, <3>1, RunPlace, WordsTyped DEF JitInv
      <4>2. Len(Word.bytes) \in Nat /\ eip \in Nat BY <2>1, <4>1, RunPlace, WordsTyped DEF JitInv
      <4>3. Guest!Size = Len(Word.bytes) BY <3>2 DEF Executes
      <4> QED BY <2>2, <3>3, <4>2, <4>3
    <3>7. Guest!Halt BY <2>1, <3>2, <3>5, <3>6 DEF Guest!Halt, Executes
    <3> QED BY <3>3, <3>7 DEF Refines, Guest!Next
  <2> QED BY <2>4, <2>5
<1>10. CASE Stop
  <2>1. /\ UNCHANGED <<mem, eip, is32, v, current_page, current_pos>> /\ pc = "stop"
        /\ pc' = "idle"
    BY <1>10 DEF Stop, guestVars, pageVars
  <2>2. GuestEip' = GuestEip BY <1>1, <2>1 DEF GuestPlace
  <2>3. Halted' <=> Halted BY <2>1 DEF Halted, WordAt
  <2> QED BY <2>1, <2>2, <2>3, Stuttering DEF Stutters
<1> QED BY <1>2, <1>3, <1>4, <1>5, <1>6, <1>7, <1>8, <1>9, <1>10 DEF Exec

LEMMA StepRefines ==
  ASSUME JitInv, RemapsBeginInAreas, [Next]_vars
  PROVE  Refines
<1>1. JitInv' BY RemappedAll, JitStepKeeps
<1>2. CASE HostCall BY <1>1, <1>2, HostCallRefines
<1>3. CASE RemoveDoomed BY <1>1, <1>3, RemoveDoomedRefines
<1>4. CASE GotoEip \/ DisInsts \/ ExceptionGivesUp BY <1>1, <1>4, LookupRefines
<1>5. CASE ExceptionBody \/ Exec BY <1>1, <1>5, ExecRefines
<1>6. CASE UNCHANGED vars
  <2>1. UNCHANGED <<mem, eip, is32, v, pc, pos, current_page, current_pos, lock_page>>
    BY <1>6 DEF vars, guestVars, pageVars, runVars, localVars
  <2>2. Word' = Word /\ (Halted' <=> Halted) BY <2>1 DEF Word, Halted, WordAt
  <2>3. WordAt(lock_page, pos + 1)' = WordAt(lock_page, pos + 1) BY <2>1 DEF WordAt
  <2>4. GuestEip' = GuestEip BY <2>1, <2>2, <2>3 DEF GuestEip
  <2> QED BY <2>1, <2>2, <2>4, Stuttering DEF Stutters
<1> QED BY <1>2, <1>3, <1>4, <1>5, <1>6 DEF Next, JitStep, Exited

\* The cache is invisible to the guest, whatever pages are decoded, removed and
\* reused and whichever instruction removes them, but for one thing: a HLT is
\* forgotten when a call of the host between two instructions removes its page.
THEOREM OnlyHaltIsForgotten ==
  ASSUME RemapsBeginInAreas
  PROVE  Spec => Guest!Init /\ [][Guest!Next \/ Forgets]_(Guest!vars)
<1>1. Init => Guest!Init BY DEF Init, Guest!Init, GuestEip, Halted
<1>2. JitInv /\ [Next]_vars => [Guest!Next \/ Forgets]_(Guest!vars)
  BY StepRefines DEF Refines
<1> QED BY <1>1, <1>2, JitAlways, PTL DEF Spec

\* So where the host leaves a guest with HLT alone, what exec_inst executes is what
\* a machine that decodes every instruction from memory could execute.
THEOREM CacheIsInvisible ==
  ASSUME RemapsBeginInAreas, HaltKept
  PROVE  Spec => ImplementsGuest
<1>1. Init => Guest!Init BY DEF Init, Guest!Init, GuestEip, Halted
<1>2. JitInv => ~Forgets BY NeverHalted DEF Forgets
<1>3. JitInv /\ [Next]_vars => [Guest!Next]_(Guest!vars)
  BY <1>2, StepRefines DEF Refines
<1> QED BY <1>1, <1>3, JitAlways, PTL DEF Spec, ImplementsGuest, Guest!Spec

\* "Bucle infinit" (BC_HALT): there, once the guest has halted only an interrupt
\* ends it; no removal of a page and no new decoding lets it go on.
THEOREM HaltOnlyEndsByInterrupt ==
  ASSUME RemapsBeginInAreas, HaltKept
  PROVE  Spec => HaltLastsUntilInterrupt
<1>1. JitInv => ~Forgets BY NeverHalted DEF Forgets
<1>2. JitInv /\ [Next]_vars => [Halted => Halted' \/ Interrupt]_vars
  BY <1>1, StepRefines DEF Refines
<1> QED BY <1>2, JitAlways, PTL DEF Spec, HaltLastsUntilInterrupt


-----------------------------------------------------------------------------
(***************************************************************************)
(* The bytes an instruction has in the next page (OverlapIsFresh): stale   *)
(* only where a store finds no code at its address, or where code runs     *)
(* from one area into the next. PastInv says that overlap_next_page is     *)
(* about the one instruction of its page that may reach the next one.      *)
(***************************************************************************)
\* The bytes b at offset o of slot s, those in the next page, are in memory.
SamePast(s, o, b) ==
  \A i \in 1 .. Len(b) : o + i > PageSize => mem[s * PageSize + o + i - 1] = b[i]

\* overlap_next_page counts what n bytes at offset o of page p have in the next page.
Noted(p, o, n) == o + n > PageSize => overlap_next_page[p] = o + n - PageSize

\* An instruction of a page, and one that compile has not reached.
PastPages ==
  \A s \in Slot : map[s] # NoPage =>
    \A o \in Offset : Starts(map[s], o) =>
      /\ s \notin doomed => SamePast(s, o, BytesAt(map[s], o))
      /\ Noted(map[s], o, Len(BytesAt(map[s], o)))

PastDisOK(d) ==
  /\ SamePast(Eslot, OffsetOf(d.addr), d.bytes)
  /\ Noted(current_page, OffsetOf(d.addr), Len(d.bytes))
PastDis == pc \in {"dis", "compile"} => \A i \in 1 .. Len(dis) : PastDisOK(dis[i])

PastInv == PastPages /\ PastDis

\* An instruction that reaches the next page has marked the last byte of its own.
LEMMA CoversLast ==
  ASSUME NEW p \in Page, NEW o \in Offset, NEW n \in Nat, Covers(p, o, n), o + n > PageSize
  PROVE  entries[p][PageSize - 1].ind # NULL_ENTRY
<1>1. o \in Nat /\ o < PageSize BY Sizes DEF Offset
<1>2. PageSize - o \in 1 .. n /\ o + (PageSize - o) <= PageSize
      /\ o + (PageSize - o) - 1 = PageSize - 1
  BY <1>1, Sizes
<1> QED BY <1>2 DEF Covers

\* A higher address is not in a lower slot.
LEMMA SlotsGrow ==
  ASSUME NEW a \in Nat, NEW b \in Nat, a <= b
  PROVE  SlotOf(a) <= SlotOf(b)
BY Sizes DEF SlotOf

\* The address of such a byte.
LEMMA PastPlace ==
  ASSUME NEW s \in Slot, NEW o \in Offset, NEW i \in 1 .. MaxLen, o + i > PageSize
  PROVE  /\ s * PageSize + o + i - 1 \in Nat
         /\ SlotOf(s * PageSize + o + i - 1) = s + 1
         /\ OffsetOf(s * PageSize + o + i - 1) = o + i - 1 - PageSize
<1> DEFINE x == o + i - 1 - PageSize
<1>1. s \in Nat /\ o \in Nat /\ o < PageSize /\ MaxLen <= PageSize /\ s + 1 \in Nat
  BY Slots, Sizes, PagesAssumption DEF Offset
<1>2. x \in Offset BY <1>1, Sizes DEF Offset
<1>3. (s + 1) * PageSize = s * PageSize + PageSize /\ s * PageSize \in Nat BY <1>1, Sizes
<1>4. s * PageSize + o + i - 1 = (s + 1) * PageSize + x
  <2> DEFINE t == s * PageSize
             u == (s + 1) * PageSize
  <2>1. u = t + PageSize /\ t \in Nat BY <1>3
  <2> HIDE DEF t, u
  <2>2. t + o + i - 1 = u + x BY <1>1, <2>1, Sizes
  <2> QED BY <2>2 DEF t, u
<1> HIDE DEF x
<1>5. /\ (s + 1) * PageSize + x \in Nat
      /\ SlotOf((s + 1) * PageSize + x) = s + 1 /\ OffsetOf((s + 1) * PageSize + x) = x
  BY <1>1, <1>2, Here
<1> QED BY <1>4, <1>5 DEF x

\* The n bytes of an instruction that was decoded: in the page they have entries,
\* and there are at most MaxLen of them.
LEMMA StartShort ==
  ASSUME CacheInv, BlockInv, NEW p \in Page, NEW o \in Offset, Starts(p, o)
  PROVE  Len(BytesAt(p, o)) \in 1 .. MaxLen /\ Covers(p, o, Len(BytesAt(p, o)))
<1>1. StartOK(p, o) BY DEF BlockInv
<1>2. BytesAt(p, o)[1] \in Byte /\ entries[p][o].is32 \in BOOLEAN BY StartBytes, StartTyped
<1>3. InstLen[<<BytesAt(p, o)[1], entries[p][o].is32>>] \in 1 .. MaxLen
  BY <1>2, ConstantsAssumption
<1> QED BY <1>1, <1>3 DEF StartOK, Decodes

\* area_remapped removes the page before the beginning of the range, if its last
\* instruction reaches it.
LEMMA RemappedBefore ==
  ASSUME RemapsBeginInAreas, NEW r \in Remaps
  PROVE  OverlappingBefore(r[1]) \subseteq RemappedSlots(r[1], r[2])
<1> DEFINE b == r[1]
           l == r[2]
           c == Cursor(b, l)
           G(k) == OverlappingBefore(c[k]) \cup
                     Mapped({t \in SlotOf(c[k]) .. SlotOf(l) : t <= Areas[k].last})
           hit == {k \in DOMAIN Areas : c[k] <= l /\ InArea(c[k], k)}
<1>1. b \in Nat /\ l \in Nat /\ b <= l /\ SlotOf(b) \in Slot
  BY ConstantsAssumption DEF Addr, RemapsBeginInAreas
<1>2. PICK j \in 1 .. Len(Areas) : InArea(b, j)
  BY <1>1, AreasTyped DEF Slot, InArea
<1>3. DOMAIN Areas = 1 .. Len(Areas) BY AreasTyped
<1>4. RemappedSlots(b, l) = UNION {G(k) : k \in hit} BY DEF RemappedSlots
<1> HIDE DEF b, l
<1>5. c[j] = b BY <1>1, <1>2, CursorReaches
<1> HIDE DEF c
<1>6. j \in hit /\ OverlappingBefore(b) \subseteq G(j) BY <1>1, <1>2, <1>3, <1>5
<1> HIDE DEF G, hit
<1>7. OverlappingBefore(b) \subseteq RemappedSlots(b, l) BY <1>4, <1>6
<1> QED BY <1>7 DEF b, l

\* A byte that an instruction has in the next page: where a store or a remapping
\* looks for the page of the instruction.
LEMMA Overlaps ==
  ASSUME JitInv, AreasApart, NEW s \in Slot, map[s] # NoPage, NEW o \in Offset,
         Starts(map[s], o), NEW n, n = Len(BytesAt(map[s], o)), Noted(map[s], o, n),
         NEW i \in 1 .. n, o + i > PageSize, NEW y, y = s * PageSize + o + i - 1
  PROVE  /\ y \in Addr /\ SlotOf(y) = s + 1
         /\ OffsetOf(y) < overlap_next_page[map[s]]
         /\ \A a \in Nat : SlotOf(a) = s + 1 /\ OffsetOf(a) <= OffsetOf(y) =>
              s \in OverlappingBefore(a)
<1> USE DEF JitInv
<1> DEFINE p == map[s]
<1>1. p \in Page BY DEF CacheInv, ListInv, ListTypeOK, PageOrNone
<1>2. n \in 1 .. MaxLen BY <1>1, StartShort
<1>3. i \in 1 .. MaxLen /\ i <= n /\ n \in Nat /\ o \in Nat /\ s \in Nat BY <1>2, Sizes, Slots
<1>4. y \in Nat /\ SlotOf(y) = s + 1 /\ OffsetOf(y) = o + i - 1 - PageSize
  BY <1>3, PastPlace
<1>5. Fetched(s, o, n) BY DEF MemInv
<1>6. y \in Fetchable
  <2> DEFINE t == s * PageSize
  <2>1. t \in Nat BY <1>3, Sizes
  <2>2. t + o .. t + o + n - 1 \subseteq Fetchable BY <1>5 DEF Fetched
  <2>3. y = t + o + i - 1 OBVIOUS
  <2> HIDE DEF t
  <2>4. y \in t + o .. t + o + n - 1 BY <1>3, <2>1, <2>3
  <2> QED BY <2>2, <2>4
<1>7. overlap_next_page[p] = o + n - PageSize BY <1>3, Sizes DEF Noted
<1>8. OffsetOf(y) < overlap_next_page[p] BY <1>3, <1>4, <1>7, Sizes
<1>9. overlap_next_page[p] <= OverlapWindow /\ overlap_next_page[p] \in Nat
      /\ OverlapWindow \in Nat
  <2>1. overlap_next_page[p] \in 0 .. MaxLen - 1
    BY <1>1 DEF CacheInv, BytecodeInv, DataTypeOK
  <2> QED BY <2>1, Sizes, PagesAssumption
<1>10. s \in Before(s + 1)
  <2>1. SlotOf(y) - 1 = s BY <1>3, <1>4
  <2>2. PICK k \in DOMAIN Areas : {s, s + 1} \subseteq Areas[k].first .. Areas[k].last
    BY <1>4, <1>6, <2>1 DEF AreasApart
  <2>3. (s + 1) - 1 = s BY <1>3
  <2> QED BY <2>2, <2>3 DEF Before
<1>11. ASSUME NEW a \in Nat, SlotOf(a) = s + 1, OffsetOf(a) <= OffsetOf(y)
       PROVE  s \in OverlappingBefore(a)
  <2>1. OffsetOf(a) \in Nat /\ OffsetOf(y) \in Nat BY <1>4, Places, Slots
  <2>2. OffsetOf(a) < OverlapWindow /\ OffsetOf(a) < overlap_next_page[p]
    BY <1>8, <1>9, <1>11, <2>1
  <2>3. s \in Mapped(Before(SlotOf(a))) BY <1>10, <1>11 DEF Mapped
  <2> QED BY <2>2, <2>3 DEF OverlappingBefore
<1>12. y \in Addr BY <1>6, ConstantsAssumption
<1> QED BY <1>4, <1>8, <1>11, <1>12

\* A call of the host leaves the bytes that the instructions of the pages it does
\* not remove have in the next page.
LEMMA HostKeepsPast ==
  ASSUME JitInv, RemapsBeginInAreas, AreasApart, StoresFindCode,
         HostStores(Stores) \/ HostStores(Push) \/ HostRemaps,
         NEW s \in Slot, map[s] # NoPage, s \notin doomed', NEW o \in Offset,
         Starts(map[s], o), NEW n, n = Len(BytesAt(map[s], o)), Noted(map[s], o, n),
         NEW i \in 1 .. n, o + i > PageSize
  PROVE  mem'[s * PageSize + o + i - 1] = mem[s * PageSize + o + i - 1]
<1>0. PICK y : y = s * PageSize + o + i - 1 OBVIOUS
<1>1. /\ y \in Addr /\ SlotOf(y) = s + 1
      /\ \A a \in Nat : SlotOf(a) = s + 1 /\ OffsetOf(a) <= OffsetOf(y) =>
           s \in OverlappingBefore(a)
  BY <1>0, Overlaps
<1>2. y \in Nat /\ s \in Nat /\ mem \in [Addr -> Byte]
  BY <1>1, Slots DEF Addr, JitInv, CacheInv, BytecodeInv, DataTypeOK
<1>3. CASE HostRemaps
  <2>1. PICK r \in Remaps : mem' = Filled(mem, r) /\ doomed' = RemappedSlots(r[1], r[2])
    BY <1>3 DEF HostRemaps
  <2>2. r[1] \in Nat /\ r[2] \in Nat /\ r[1] <= r[2]
    BY ConstantsAssumption DEF Addr, RemapsBeginInAreas
  <2>3. ASSUME y \in r[1] .. r[2] PROVE FALSE
    <3>1. SlotOf(r[1]) \in Nat /\ SlotOf(r[2]) \in Nat /\ OffsetOf(y) \in Nat
          /\ OffsetOf(r[1]) \in Nat
      BY <1>2, <2>2, Places, Slots
    <3>2. SlotOf(r[1]) <= s + 1 /\ s + 1 <= SlotOf(r[2])
      <4>1. r[1] <= y /\ y <= r[2] BY <1>2, <2>2, <2>3
      <4>2. SlotOf(r[1]) <= SlotOf(y) /\ SlotOf(y) <= SlotOf(r[2])
        BY <1>2, <2>2, <4>1, SlotsGrow
      <4> QED BY <1>1, <4>2
    <3>3. CASE SlotOf(r[1]) <= s
      <4>1. s \in SlotOf(r[1]) .. SlotOf(r[2]) BY <1>2, <3>1, <3>2, <3>3
      <4>2. s \in Mapped(SlotOf(r[1]) .. SlotOf(r[2])) BY <4>1 DEF Mapped
      <4> QED BY <2>1, <4>2, RemappedAll DEF RemapRemovesRange
    <3>4. CASE SlotOf(r[1]) = s + 1
      <4>1. /\ r[1] = (s + 1) * PageSize + OffsetOf(r[1])
            /\ y = (s + 1) * PageSize + OffsetOf(y)
        BY <1>1, <1>2, <2>2, <3>4, Places
      <4> DEFINE t == (s + 1) * PageSize
      <4>2. t \in Nat BY <1>2, Sizes
      <4> HIDE DEF t
      <4>3. OffsetOf(r[1]) <= OffsetOf(y)
        <5>1. r[1] = t + OffsetOf(r[1]) /\ y = t + OffsetOf(y) BY <4>1 DEF t
        <5> QED BY <2>2, <2>3, <3>1, <4>2, <5>1
      <4>4. s \in OverlappingBefore(r[1]) BY <1>1, <2>2, <3>4, <4>3
      <4> QED BY <2>1, <4>4, RemappedBefore
    <3> QED BY <1>2, <3>1, <3>2, <3>3, <3>4
  <2>4. mem'[y] = mem[y] BY <1>1, <2>1, <2>3 DEF Filled
  <2> QED BY <1>0, <2>4
<1>4. CASE ~HostRemaps
  <2>1. PICK w \in Stores \cup Push : mem' = Written(mem, w) /\ doomed' = ChangedSlots(w[1])
    BY <1>4 DEF HostStores
  <2>2. CASE w[1] = y /\ mem' # mem
    <3>1. OffsetOf(y) \in Nat BY <1>2, Places, Slots
    <3>2. s \in OverlappingBefore(w[1]) BY <1>1, <1>2, <2>2, <3>1
    <3>3. Mapped({SlotOf(w[1])}) # {} BY <1>4, <2>1, <2>2, <3>2 DEF StoresFindCode
    <3>4. s \in ChangedSlots(w[1]) BY <3>2, <3>3 DEF ChangedSlots
    <3> QED BY <2>1, <3>4
  <2>3. CASE w[1] # y
    <3>1. mem'[y] = mem[y] BY <1>1, <1>2, <2>1, <2>3 DEF Written
    <3> QED BY <1>0, <3>1
  <2> QED BY <2>2, <2>3
<1> QED BY <1>3, <1>4

\* The steps that leave the contents of the pages alone.
LEMMA PastKept ==
  ASSUME JitInv, PastPages, RemapsBeginInAreas, AreasApart, StoresFindCode,
         UNCHANGED <<entries, v, overlap_next_page>>,
         \A s \in Slot : map'[s] = map[s] \/ map'[s] = NoPage,
         \A s \in Slot : map'[s] # NoPage /\ s \notin doomed' => s \notin doomed,
         HostStores(Stores) \/ HostStores(Push) \/ HostRemaps \/ UNCHANGED mem
  PROVE  PastPages'
<1> SUFFICES ASSUME NEW s \in Slot, map'[s] # NoPage, NEW o \in Offset, Starts(map[s], o)'
             PROVE  /\ (s \notin doomed => SamePast(s, o, BytesAt(map[s], o)))'
                    /\ Noted(map[s], o, Len(BytesAt(map[s], o)))'
  BY DEF PastPages
<1> DEFINE b == BytesAt(map[s], o)
<1>1. map'[s] = map[s] OBVIOUS
<1>2. map[s] # NoPage /\ Starts(map[s], o) /\ b' = b
  BY <1>1 DEF Starts, BytesAt, DecodedAt, WordAt
<1>3. /\ s \notin doomed => SamePast(s, o, b)
      /\ Noted(map[s], o, Len(b))
  BY <1>2 DEF PastPages
<1>4. Noted(map[s], o, Len(b))' BY <1>1, <1>2, <1>3 DEF Noted
<1>5. ASSUME s \notin doomed' PROVE SamePast(s, o, b)'
  <2>1. SamePast(s, o, b) BY <1>1, <1>2, <1>3, <1>5
  <2> SUFFICES ASSUME NEW i \in 1 .. Len(b), o + i > PageSize
               PROVE  mem'[s * PageSize + o + i - 1] = b[i]
    BY <1>2 DEF SamePast
  <2>2. mem[s * PageSize + o + i - 1] = b[i] BY <2>1 DEF SamePast
  <2>3. mem'[s * PageSize + o + i - 1] = mem[s * PageSize + o + i - 1]
    <3>1. CASE UNCHANGED mem BY <3>1
    <3>2. CASE HostStores(Stores) \/ HostStores(Push) \/ HostRemaps
      <4> HIDE DEF b
      <4>1. PICK n : n = Len(b) OBVIOUS
      <4>2. i \in 1 .. n /\ Noted(map[s], o, n) /\ n = Len(BytesAt(map[s], o))
        BY <1>3, <4>1 DEF b
      <4> QED BY <1>2, <1>5, <3>2, <4>2, HostKeepsPast
    <3> QED BY <3>1, <3>2
  <2> QED BY <2>2, <2>3
<1> QED BY <1>4, <1>5

\* What a step of goto_eip or of the decoder must show: the instructions it leaves
\* were there, or are in memory.
LEMMA PastCode ==
  ASSUME PastPages, UNCHANGED mem, doomed = {},
         \A s \in Slot : \A o \in Offset :
           map'[s] # NoPage /\ Starts(map[s], o)' =>
             \/ /\ map'[s] = map[s] /\ Starts(map[s], o)
                /\ BytesAt(map[s], o)' = BytesAt(map[s], o)
                /\ Noted(map[s], o, Len(BytesAt(map[s], o)))
                     => Noted(map[s], o, Len(BytesAt(map[s], o)))'
             \/ /\ SamePast(s, o, BytesAt(map[s], o))'
                /\ Noted(map[s], o, Len(BytesAt(map[s], o)))'
  PROVE  PastPages'
<1> SUFFICES ASSUME NEW s \in Slot, map'[s] # NoPage, NEW o \in Offset, Starts(map[s], o)'
             PROVE  /\ SamePast(s, o, BytesAt(map[s], o))'
                    /\ Noted(map[s], o, Len(BytesAt(map[s], o)))'
  BY DEF PastPages
<1>1. CASE /\ map'[s] = map[s] /\ Starts(map[s], o)
           /\ BytesAt(map[s], o)' = BytesAt(map[s], o)
           /\ Noted(map[s], o, Len(BytesAt(map[s], o)))
                => Noted(map[s], o, Len(BytesAt(map[s], o)))'
  <2>1. SamePast(s, o, BytesAt(map[s], o)) /\ Noted(map[s], o, Len(BytesAt(map[s], o)))
    BY <1>1 DEF PastPages
  <2> QED BY <1>1, <2>1 DEF SamePast
<1> QED BY <1>1

\* get_new_page gives a page without instructions.
LEMMA NewPagePast ==
  ASSUME JitInv, PastPages, NewPage
  PROVE  PastPages'
<1> USE DEF JitInv
<1>0. PICK p : p = current_page' OBVIOUS
<1>1. /\ p \in Page /\ p \notin Live
      /\ \A t \in Slot : map'[t] = IF t = Eslot THEN p ELSE map[t]
      /\ UNCHANGED mem /\ doomed = {}
      /\ \A o \in Offset : ~Starts(p, o)'
      /\ \A q \in Page \ {p} : entries'[q] = entries[q] /\ v'[q] = v[q]
  BY <1>0, NewPageBlank
<1>2. \A q \in Page \ {p} : overlap_next_page'[q] = overlap_next_page[q]
  <2>1. overlap_next_page \in [Page -> 0 .. MaxLen - 1]
    BY DEF CacheInv, BytecodeInv, DataTypeOK
  <2>2. overlap_next_page' = [overlap_next_page EXCEPT ![p] = 0]
    BY <1>0 DEF NewPage, GetNewPage
  <2> QED BY <2>1, <2>2
<1> SUFFICES ASSUME NEW s \in Slot, NEW o \in Offset, map'[s] # NoPage, Starts(map[s], o)'
             PROVE  /\ map'[s] = map[s] /\ Starts(map[s], o)
                    /\ BytesAt(map[s], o)' = BytesAt(map[s], o)
                    /\ Noted(map[s], o, Len(BytesAt(map[s], o)))
                         => Noted(map[s], o, Len(BytesAt(map[s], o)))'
  BY <1>1, PastCode
<1>3. map'[s] = map[s] /\ map[s] \in Live BY <1>1 DEF Live
<1>4. PICK q \in Page \ {p} : q = map[s]
  BY <1>1, <1>3 DEF CacheInv, ListInv, ListTypeOK, PageOrNone, Live
<1>5. Starts(q, o) /\ BytesAt(q, o)' = BytesAt(q, o)
  BY <1>1, <1>3, <1>4 DEF Starts, BytesAt, DecodedAt, WordAt
<1>6. Noted(q, o, Len(BytesAt(q, o))) => Noted(q, o, Len(BytesAt(q, o)))'
  BY <1>2, <1>4, <1>5 DEF Noted
<1> QED BY <1>3, <1>4, <1>5, <1>6

\* dis_insts sets overlap_next_page only when no other instruction of the page
\* reaches the next one: it would have marked the last byte.
LEMMA DisNotes ==
  ASSUME JitInv, DisInst, dis' # <<>>, NEW p \in Page, NEW o \in Offset, NEW n \in Nat,
         Covers(p, o, n), Noted(p, o, n)
  PROVE  Noted(p, o, n)'
<1> USE DEF JitInv
<1> DEFINE e == OffsetOf(DisAddr)
           bytes == {x \in e .. (e + DisLen - 1) : x < PageSize}
           used == {x \in bytes : entries[current_page][x].ind # NULL_ENTRY}
<1>1. pc = "dis" /\ ~BlockEnds /\ Decodable BY DEF DisInst, At
<1>2. e \in Offset /\ DisLen \in 1 .. MaxLen BY <1>1, DisPlace
<1>3. used = {} BY DEF DisInst
<1>4. overlap_next_page \in [Page -> 0 .. MaxLen - 1]
  BY DEF CacheInv, BytecodeInv, DataTypeOK
<1>5. overlap_next_page' =
        [overlap_next_page EXCEPT ![current_page] = Overlap(e, DisLen, overlap_next_page[current_page])]
  BY DEF DisInst
<1> SUFFICES ASSUME o + n > PageSize PROVE overlap_next_page'[p] = overlap_next_page[p]
  BY DEF Noted
<1>6. CASE p # current_page BY <1>4, <1>5, <1>6
<1>7. CASE p = current_page
  <2>1. entries[p][PageSize - 1].ind # NULL_ENTRY BY CoversLast
  <2>2. PageSize - 1 \notin bytes BY <1>3, <1>7, <2>1
  <2>3. ~(e + DisLen >= PageSize)
    <3> SUFFICES ASSUME e + DisLen >= PageSize PROVE PageSize - 1 \in bytes BY <2>2
    <3>1. e \in Nat /\ e < PageSize /\ DisLen \in Nat BY <1>2, Sizes DEF Offset
    <3> QED BY <3>1, Sizes
  <2> QED BY <1>4, <1>5, <1>7, <2>3 DEF Overlap
<1> QED BY <1>6, <1>7

LEMMA DisInstPast ==
  ASSUME JitInv, PastPages, PastDis, DisInst
  PROVE  PastPages' /\ PastDis'
<1> USE DEF JitInv
<1>0. PICK p, e : p = current_page /\ e = OffsetOf(DisAddr) OBVIOUS
<1>1. /\ pc = "dis" /\ ~BlockEnds /\ Decodable /\ doomed = {}
      /\ UNCHANGED <<mem, eip, is32, v>>
  BY DEF DisInst, At, guestVars
<1>2. /\ DisAddr \in Nat /\ DisLen \in 1 .. MaxLen /\ e \in Offset /\ p \in Page
      /\ SlotOf(DisAddr) = Eslot /\ Eslot \in Slot /\ map[Eslot] = p
  BY <1>0, <1>1, DisPlace, DisHere
  DEF CacheInv, ListInv, ListsConsistent, ListTypeOK, PhaseOK, PageOrNone
<1>3. overlap_next_page' = [overlap_next_page EXCEPT ![p] = Overlap(e, DisLen, overlap_next_page[p])]
      /\ overlap_next_page \in [Page -> 0 .. MaxLen - 1]
  BY <1>0 DEF DisInst, CacheInv, BytecodeInv, DataTypeOK
<1>4. ASSUME NEW q \in Page, NEW o \in Offset, Starts(q, o)'
      PROVE  Starts(q, o) /\ BytesAt(q, o)' = BytesAt(q, o)
  <2>1. entries'[q][o] = entries[q][o]
    <3>1. entries'[q][o] = entries[q][o] \/ entries'[q][o].ind = PAD_ENTRY BY DisMarks
    <3> QED BY <1>4, <3>1 DEF Starts, PAD_ENTRY
  <2> QED BY <1>1, <1>4, <2>1 DEF Starts, BytesAt, DecodedAt, WordAt
<1>5. CASE dis' = <<>>
  <2>1. pc' = "goto" /\ RemovePage(Eslot, p, current_pos)
    <3>1. pc' = "goto" BY <1>5, DisMarks
    <3> QED BY <1>0, <1>1, <3>1 DEF DisInst
  <2>2. \A t \in Slot : map'[t] = IF t = Eslot THEN NoPage ELSE map[t]
    BY <2>1 DEF RemovePage, CacheInv, ListInv, ListTypeOK
  <2>3. PastPages'
    <3> SUFFICES ASSUME NEW s \in Slot, NEW o \in Offset, map'[s] # NoPage, Starts(map[s], o)'
                 PROVE  /\ map'[s] = map[s] /\ Starts(map[s], o)
                        /\ BytesAt(map[s], o)' = BytesAt(map[s], o)
                        /\ Noted(map[s], o, Len(BytesAt(map[s], o)))
                             => Noted(map[s], o, Len(BytesAt(map[s], o)))'
      BY <1>1, PastCode
    <3>1. map'[s] = map[s] /\ s # Eslot /\ map[s] # NoPage BY <2>2
    <3>2. PICK q \in Page : q = map[s] /\ q = map'[s] /\ q # p
      BY <1>2, <3>1 DEF CacheInv, ListInv, ListTypeOK, PageOrNone, ListsConsistent, MapOK
    <3>3. Starts(q, o) /\ BytesAt(q, o)' = BytesAt(q, o) BY <1>4, <3>2
    <3>4. overlap_next_page'[q] = overlap_next_page[q] BY <1>3, <3>2
    <3>5. Noted(q, o, Len(BytesAt(q, o))) => Noted(q, o, Len(BytesAt(q, o)))'
      BY <3>3, <3>4 DEF Noted
    <3> QED BY <3>2, <3>3, <3>5
  <2> QED BY <2>1, <2>3 DEF PastDis
<1>6. CASE dis' # <<>>
  <2>0. PICK d : d = [addr |-> DisAddr, bytes |-> [i \in 1 .. DisLen |-> mem[DisAddr + i - 1]]]
    OBVIOUS
  <2>1. dis' = Append(dis, d) /\ pc' = "dis" BY <1>6, <2>0, DisMarks
  <2>2. UNCHANGED <<map, current_page>> /\ Eslot' = Eslot
    BY <1>1, <2>1 DEF DisInst, runVars, listVars, Eslot
  <2>3. PastPages'
    <3> SUFFICES ASSUME NEW s \in Slot, NEW o \in Offset, map'[s] # NoPage, Starts(map[s], o)'
                 PROVE  /\ map'[s] = map[s] /\ Starts(map[s], o)
                        /\ BytesAt(map[s], o)' = BytesAt(map[s], o)
                        /\ Noted(map[s], o, Len(BytesAt(map[s], o)))
                             => Noted(map[s], o, Len(BytesAt(map[s], o)))'
      BY <1>1, PastCode
    <3>1. PICK q \in Page : q = map[s] /\ q = map'[s]
      BY <2>2 DEF CacheInv, ListInv, ListTypeOK, PageOrNone
    <3>2. Starts(q, o) /\ BytesAt(q, o)' = BytesAt(q, o) BY <1>4, <3>1
    <3>3. PICK n \in Nat : n = Len(BytesAt(q, o)) /\ Covers(q, o, n)
      BY <3>2, StartShort, Sizes
    <3>4. Noted(q, o, n) => Noted(q, o, n)' BY <1>6, <3>3, DisNotes
    <3>5. Noted(q, o, Len(BytesAt(q, o)))' = Noted(q, o, n)'
      BY <3>2, <3>3 DEF Noted
    <3> QED BY <3>1, <3>2, <3>3, <3>4, <3>5
  <2>4. d \in DisRecords /\ d.addr = DisAddr /\ Len(d.bytes) = DisLen
        /\ \A i \in 1 .. DisLen : d.bytes[i] = mem[DisAddr + i - 1]
    BY <1>1, <1>2, <1>6, <2>0, <2>2, DisNew, LenProperties
  <2>5. PastDisOK(d)'
    <3>1. /\ DisAddr = Eslot * PageSize + e /\ e \in Nat /\ DisLen \in Nat
          /\ Eslot * PageSize \in Nat
      <4>1. DisAddr = SlotOf(DisAddr) * PageSize + OffsetOf(DisAddr) BY <1>2, Places
      <4>2. Eslot \in Nat /\ e \in Nat BY <1>2, Slots
      <4> QED BY <1>0, <1>2, <4>1, <4>2, Sizes
    <3>2. SamePast(Eslot, e, d.bytes)
      <4> DEFINE t == Eslot * PageSize
      <4>1. t \in Nat /\ DisAddr = t + e BY <3>1
      <4> HIDE DEF t
      <4>2. \A i \in 1 .. DisLen : t + e + i - 1 = DisAddr + i - 1 BY <3>1, <4>1
      <4>3. \A i \in 1 .. DisLen : mem[t + e + i - 1] = d.bytes[i] BY <2>4, <4>2
      <4> QED BY <2>4, <4>3 DEF SamePast, t
    <3>3. Noted(p, e, Len(d.bytes))'
      <4>1. overlap_next_page'[p] = Overlap(e, DisLen, overlap_next_page[p]) BY <1>2, <1>3
      <4>2. e + DisLen > PageSize => overlap_next_page'[p] = e + DisLen - PageSize
        BY <3>1, <4>1, Sizes DEF Overlap
      <4> QED BY <2>4, <4>2 DEF Noted
    <3>4. SamePast(Eslot, e, d.bytes)' BY <1>1, <2>2, <3>2 DEF SamePast
    <3> QED BY <1>0, <2>2, <2>4, <3>3, <3>4 DEF PastDisOK
  <2>6. dis \in Seq(DisRecords) /\ Len(dis) \in Nat
    BY <1>1 DEF CacheInv, BytecodeInv, DisInv
  <2>7. /\ Len(dis') = Len(dis) + 1 /\ \A i \in 1 .. Len(dis) : dis'[i] = dis[i]
        /\ dis'[Len(dis) + 1] = d
    BY <2>1, <2>4, <2>6, AppendProperties
  <2>8. ASSUME NEW i \in 1 .. Len(dis) PROVE PastDisOK(dis[i])'
    <3>1. PICK c \in DisRecords : c = dis[i] /\ dis'[i] = c BY <2>6, <2>7
    <3>2. PastDisOK(c) /\ DisOK(c) BY <1>1, <3>1 DEF PastDis, BlockDisInv, DisListInv
    <3>3. c.addr \in Nat /\ Len(c.bytes) \in Nat BY <3>1 DEF DisRecords
    <3>4. OffsetOf(c.addr) \in Offset BY <3>3, Offsets
    <3>5. Noted(p, OffsetOf(c.addr), Len(c.bytes))'
      <4>1. PICK o \in Offset, n \in Nat : o = OffsetOf(c.addr) /\ n = Len(c.bytes)
        BY <3>3, <3>4
      <4>2. Covers(p, o, n) /\ Noted(p, o, n) BY <1>0, <3>2, <4>1 DEF PastDisOK, DisOK
      <4>3. Noted(p, o, n)' BY <1>2, <1>6, <4>2, DisNotes
      <4> QED BY <4>1, <4>3
    <3>6. SamePast(Eslot, OffsetOf(c.addr), c.bytes)'
      BY <1>1, <2>2, <3>2 DEF PastDisOK, SamePast
    <3> QED BY <1>0, <2>2, <3>1, <3>5, <3>6 DEF PastDisOK
  <2>9. \A i \in 1 .. Len(dis') : PastDisOK(dis[i])'
    <3>1. \A i \in 1 .. Len(dis') : i \in 1 .. Len(dis) \/ dis'[i] = d BY <2>6, <2>7
    <3> QED BY <2>5, <2>8, <3>1
  <2> QED BY <2>3, <2>9 DEF PastDis
<1> QED BY <1>5, <1>6

LEMMA CompileInstPast ==
  ASSUME JitInv, PastPages, PastDis, CompileInst
  PROVE  PastPages' /\ PastDis'
<1> USE DEF JitInv
<1>1. PICK p \in Page : p = current_page
  BY DEF CompileInst, At, CacheInv, ListInv, ListsConsistent, ListTypeOK, PhaseOK, PageOrNone
<1>2. PICK d, e : d = dis[1] /\ e = OffsetOf(d.addr) OBVIOUS
<1>3. /\ pc = "compile" /\ pc' = "compile" /\ doomed = {} /\ doomed' = {}
      /\ UNCHANGED <<mem, eip, is32, map, current_page>>
      /\ Len(dis) \in Nat /\ Len(dis) > 0 /\ Len(dis') = Len(dis) - 1
      /\ \A i \in 1 .. Len(dis) - 1 : dis'[i] = dis[i + 1]
  BY <1>1, <1>2, CompileGoesOn
<1>4. UNCHANGED overlap_next_page /\ Eslot' = Eslot BY <1>3 DEF CompileInst, Eslot
<1>5. \A i \in 1 .. Len(dis) : PastDisOK(dis[i]) BY <1>3 DEF PastDis
<1>6. \A c : PastDisOK(c) => PastDisOK(c)' BY <1>3, <1>4 DEF PastDisOK, SamePast, Noted
<1>7. PastDis'
  <2>1. \A i \in 1 .. Len(dis') : i \in 1 .. Len(dis) - 1 /\ i + 1 \in 1 .. Len(dis) BY <1>3
  <2>2. \A i \in 1 .. Len(dis') : PastDisOK(dis'[i]) BY <1>3, <1>5, <2>1
  <2>3. \A i \in 1 .. Len(dis') : PastDisOK(dis[i])'
    <3> SUFFICES ASSUME NEW i \in 1 .. Len(dis') PROVE PastDisOK(dis[i])' OBVIOUS
    <3>1. PICK c : c = dis'[i] /\ PastDisOK(c) BY <2>2
    <3>2. PastDisOK(c)' BY <1>6, <3>1
    <3> QED BY <1>3, <1>4, <3>1, <3>2 DEF PastDisOK
  <2> QED BY <2>3 DEF PastDis
<1>8. PastPages'
  <2> SUFFICES ASSUME NEW s \in Slot, NEW o \in Offset, map'[s] # NoPage, Starts(map[s], o)'
               PROVE  \/ /\ map'[s] = map[s] /\ Starts(map[s], o)
                         /\ BytesAt(map[s], o)' = BytesAt(map[s], o)
                         /\ Noted(map[s], o, Len(BytesAt(map[s], o)))
                              => Noted(map[s], o, Len(BytesAt(map[s], o)))'
                      \/ /\ SamePast(s, o, BytesAt(map[s], o))'
                         /\ Noted(map[s], o, Len(BytesAt(map[s], o)))'
    BY <1>3, PastCode
  <2>1. PICK q \in Page : q = map[s] /\ q = map'[s]
    BY <1>3 DEF CacheInv, ListInv, ListTypeOK, PageOrNone
  <2>2. CASE q = p /\ o = e
    <3>1. s = Eslot
      <4>1. PhaseOK /\ MapOK BY DEF CacheInv, ListInv, ListsConsistent
      <4>2. Eslot \in Slot /\ map[Eslot] = p BY <1>1, <1>3, <4>1 DEF PhaseOK
      <4> QED BY <1>3, <2>1, <2>2, <4>1, <4>2 DEF MapOK
    <3>2. BytesAt(p, o)' = d.bytes BY <1>1, <1>2, <2>2, CompileHead
    <3>3. PastDisOK(d)
      <4>1. 1 \in 1 .. Len(dis) BY <1>3
      <4> QED BY <1>2, <1>5, <4>1
    <3>4. SamePast(s, o, d.bytes) /\ Noted(p, o, Len(d.bytes))
      BY <1>1, <1>2, <2>2, <3>1, <3>3 DEF PastDisOK
    <3> QED BY <1>3, <1>4, <2>1, <2>2, <3>2, <3>4 DEF SamePast, Noted
  <2>3. CASE ~(q = p /\ o = e)
    <3>1. Starts(q, o) /\ BytesAt(q, o)' = BytesAt(q, o)
      BY <1>1, <1>2, <2>1, <2>3, CompileKeeps
    <3>2. Noted(q, o, Len(BytesAt(q, o))) => Noted(q, o, Len(BytesAt(q, o)))'
      BY <1>4, <3>1 DEF Noted
    <3> QED BY <2>1, <3>1, <3>2
  <2> QED BY <2>2, <2>3
<1> QED BY <1>7, <1>8

LEMMA CompileEndPast ==
  ASSUME JitInv, PastPages, CompileEnd
  PROVE  PastPages' /\ PastDis'
<1> USE DEF JitInv
<1>0. /\ pc = "compile" /\ pc' = after /\ doomed = {} /\ doomed' = {}
      /\ UNCHANGED <<mem, map, entries, overlap_next_page, current_page>>
  BY DEF CompileEnd, At, guestVars, listVars, runVars
<1>1. PICK p \in Page : p = current_page
  BY <1>0 DEF CacheInv, ListInv, ListsConsistent, ListTypeOK, PhaseOK, PageOrNone
<1>2. after \notin {"dis", "compile"} BY DEF CacheInv, ListInv, ListTypeOK
<1>3. PastPages'
  <2> SUFFICES ASSUME NEW s \in Slot, NEW o \in Offset, map'[s] # NoPage, Starts(map[s], o)'
               PROVE  /\ map'[s] = map[s] /\ Starts(map[s], o)
                      /\ BytesAt(map[s], o)' = BytesAt(map[s], o)
                      /\ Noted(map[s], o, Len(BytesAt(map[s], o)))
                           => Noted(map[s], o, Len(BytesAt(map[s], o)))'
    BY <1>0, PastCode
  <2>1. PICK q \in Page : q = map[s] /\ q = map'[s]
    BY <1>0 DEF CacheInv, ListInv, ListTypeOK, PageOrNone
  <2>2. Starts(q, o) BY <1>0, <2>1 DEF Starts
  <2>3. BytesAt(q, o)' = BytesAt(q, o)
    <3>1. CASE q = p BY <1>1, <2>2, <3>1, EndKeeps
    <3>2. CASE q # p
      <4>1. PICK s0, t0 : s0 = v[p] /\ t0 = v'[p] OBVIOUS
      <4>2. v'[q] = v[q] BY <1>1, <3>2, <4>1, EndWords
      <4> QED BY <1>0, <4>2 DEF BytesAt, DecodedAt, WordAt
    <3> QED BY <3>1, <3>2
  <2>4. Noted(q, o, Len(BytesAt(q, o))) => Noted(q, o, Len(BytesAt(q, o)))'
    BY <1>0, <2>3 DEF Noted
  <2> QED BY <2>1, <2>2, <2>3, <2>4
<1> QED BY <1>0, <1>2, <1>3 DEF PastDis

\* The decoder where nothing it has read changes.
LEMMA PastDisStays ==
  ASSUME PastDis, UNCHANGED <<mem, eip, overlap_next_page, current_page, dis>>,
         pc' \in {"dis", "compile"} => pc \in {"dis", "compile"}
  PROVE  PastDis'
<1>1. Eslot' = Eslot BY DEF Eslot
<1>2. \A d : PastDisOK(d) => PastDisOK(d)' BY <1>1 DEF PastDisOK, SamePast, Noted
<1> QED BY <1>2 DEF PastDis

LEMMA HostCallPast ==
  ASSUME JitInv, PastInv, RemapsBeginInAreas, AreasApart, StoresFindCode, HostCall
  PROVE  PastInv'
<1>1. /\ UNCHANGED <<entries, v, overlap_next_page, map>> /\ doomed = {}
      /\ HostStores(Stores) \/ HostStores(Push) \/ HostRemaps \/ UNCHANGED mem
      /\ pc' \notin {"dis", "compile"}
  BY DEF HostCall, ExecNextInst, Interrupt, HostWrite, ClearAreas, Reset, At, listVars,
         pageVars, runVars, localVars, guestVars
<1>2. PastPages' BY <1>1, PastKept DEF PastInv
<1> QED BY <1>1, <1>2 DEF PastInv, PastDis

LEMMA ExecPast ==
  ASSUME JitInv, PastInv, RemapsBeginInAreas, AreasApart, StoresFindCode,
         ExceptionBody \/ ExceptionGivesUp \/ Exec
  PROVE  PastInv'
<1>1. /\ UNCHANGED <<entries, v, overlap_next_page, map>> /\ doomed = {}
      /\ pc' \notin {"dis", "compile"}
  BY DEF ExceptionBody, ExceptionGivesUp, Exec, Lock, ExecSeq, ExecStore, ExecOut, ExecCR0,
         ExecJump, ExecFar, ExecFault, ExecInc, ExecGoto, ExecHalt, Stop, Advance, LeaveByGoto,
         Running, At, listVars, pageVars
<1>2. HostStores(Stores) \/ HostStores(Push) \/ HostRemaps \/ UNCHANGED mem
  BY DEF ExceptionBody, ExceptionGivesUp, Exec, Lock, ExecSeq, ExecStore, ExecOut, ExecCR0,
         ExecJump, ExecFar, ExecFault, ExecInc, ExecGoto, ExecHalt, Stop, guestVars
<1>3. PastPages' BY <1>1, <1>2, PastKept DEF PastInv
<1> QED BY <1>1, <1>3 DEF PastInv, PastDis

LEMMA RemoveDoomedPast ==
  ASSUME JitInv, PastInv, RemapsBeginInAreas, AreasApart, StoresFindCode, RemoveDoomed
  PROVE  PastInv'
<1>1. PICK s \in doomed : /\ RemovePage(s, current_page, current_pos)
                          /\ doomed' = doomed \ {s}
  BY DEF RemoveDoomed
<1>2. UNCHANGED <<mem, entries, v, overlap_next_page, pc>> BY DEF RemoveDoomed, guestVars, pageVars
<1>3. s \in Slot /\ map \in [Slot -> PageOrNone] BY DEF JitInv, CacheInv, ListInv, ListTypeOK
<1>4. map' = [map EXCEPT ![s] = NoPage] BY <1>1 DEF RemovePage
<1>5. \A t \in Slot : map'[t] = IF t = s THEN NoPage ELSE map[t] BY <1>3, <1>4
<1>6. \A t \in Slot : map'[t] # NoPage /\ t \notin doomed' => t \notin doomed BY <1>1, <1>5
<1>7. PastPages' BY <1>2, <1>5, <1>6, PastKept DEF PastInv
<1>8. pc \notin {"dis", "compile"} BY <1>1 DEF JitInv, DoomInv
<1> QED BY <1>2, <1>7, <1>8 DEF PastInv, PastDis

LEMMA GotoEipPast ==
  ASSUME JitInv, PastInv, RemapsBeginInAreas, AreasApart, StoresFindCode, GotoEip
  PROVE  PastInv'
<1> USE DEF At, InSlot
<1>1. CASE NewPage
  <2>1. PastPages' BY <1>1, NewPagePast DEF PastInv
  <2>2. pc' = "goto" BY <1>1 DEF NewPage, localVars
  <2> QED BY <2>1, <2>2 DEF PastInv, PastDis
<1>2. CASE OutOfRange \/ Hit \/ Decode \/ Stale
  <2>1. /\ UNCHANGED <<mem, entries, v, overlap_next_page>> /\ doomed = {}
        /\ UNCHANGED map \/ RemovePage(Eslot, map[Eslot], Entry.ind)
    BY <1>2 DEF OutOfRange, Hit, Decode, Stale, guestVars, listVars, pageVars
  <2>2. \A t \in Slot : map'[t] = map[t] \/ map'[t] = NoPage
    BY <2>1 DEF RemovePage, JitInv, CacheInv, ListInv, ListTypeOK
  <2>3. PastPages' BY <2>1, <2>2, PastKept DEF PastInv
  <2>4. after \notin {"dis", "compile"} BY DEF JitInv, CacheInv, ListInv, ListTypeOK
  <2>5. pc' \notin {"dis", "compile"} \/ dis' = <<>>
    BY <1>2, <2>4 DEF OutOfRange, Hit, Decode, Stale, localVars
  <2>6. dis' = <<>> => Len(dis') = 0 OBVIOUS
  <2> QED BY <2>3, <2>5, <2>6 DEF PastInv, PastDis
<1> QED BY <1>1, <1>2 DEF GotoEip

LEMMA DisInstsPast ==
  ASSUME JitInv, PastInv, RemapsBeginInAreas, AreasApart, StoresFindCode, DisInsts
  PROVE  PastInv'
<1> USE DEF At, PastInv
<1>1. CASE DisInst BY <1>1, DisInstPast
<1>2. CASE CompileInst BY <1>2, CompileInstPast
<1>3. CASE CompileEnd BY <1>3, CompileEndPast
<1>4. CASE DisFault
  <2>1. /\ UNCHANGED <<mem, entries, v, overlap_next_page>> /\ doomed = {} /\ pc' = "exc"
        /\ RemovePage(Eslot, current_page, current_pos)
    BY <1>4 DEF DisFault, guestVars, pageVars
  <2>2. \A t \in Slot : map'[t] = map[t] \/ map'[t] = NoPage
    BY <2>1 DEF RemovePage, JitInv, CacheInv, ListInv, ListTypeOK
  <2>3. PastPages' BY <2>1, <2>2, PastKept
  <2> QED BY <2>1, <2>3 DEF PastDis
<1>5. CASE DisEnd
  <2>1. /\ UNCHANGED <<mem, eip, map, entries, v, overlap_next_page, current_page, dis>>
        /\ doomed = {} /\ pc = "dis"
    BY <1>5 DEF DisEnd, guestVars, listVars, pageVars
  <2>2. PastPages' BY <2>1, PastKept
  <2>3. PastDis' BY <2>1, PastDisStays
  <2> QED BY <2>2, <2>3
<1> QED BY <1>1, <1>2, <1>3, <1>4, <1>5 DEF DisInsts

\* A step that changes nothing writes nothing.
LEMMA PastStep ==
  ASSUME JitInv, PastInv, RemapsBeginInAreas, AreasApart, [Next]_vars, [StoresFindCode]_vars
  PROVE  PastInv'
<1>1. CASE UNCHANGED vars
  <2>1. UNCHANGED <<mem, eip, map, entries, v, overlap_next_page, current_page, dis, doomed, pc>>
    BY <1>1 DEF vars, guestVars, listVars, pageVars, runVars, localVars
  <2>2. StoresFindCode BY <2>1 DEF StoresFindCode
  <2>3. PastPages' BY <2>1, <2>2, PastKept DEF PastInv
  <2>4. PastDis' BY <2>1, PastDisStays DEF PastInv
  <2> QED BY <2>3, <2>4 DEF PastInv
<1>2. CASE Next /\ StoresFindCode
  <2>1. CASE HostCall BY <1>2, <2>1, HostCallPast
  <2>2. CASE RemoveDoomed BY <1>2, <2>2, RemoveDoomedPast
  <2>3. CASE GotoEip BY <1>2, <2>3, GotoEipPast
  <2>4. CASE DisInsts BY <1>2, <2>4, DisInstsPast
  <2>5. CASE ExceptionBody \/ ExceptionGivesUp \/ Exec BY <1>2, <2>5, ExecPast
  <2> QED BY <1>1, <1>2, <2>1, <2>2, <2>3, <2>4, <2>5 DEF Next, JitStep, Exited
<1> QED BY <1>1, <1>2

\* "Elimina la pagina anterior si te overlapping en eixa zona": as long as no store
\* hits the last instruction of a page in a next page without code, and no
\* instruction is fetched from one area into the next, the pages addr_changed and
\* area_remapped remove are all those that hold a byte they changed, the bytes of
\* an instruction in the next page included.
THEOREM NoStaleOverlap ==
  ASSUME RemapsBeginInAreas, AreasApart
  PROVE  Spec /\ [][StoresFindCode]_vars => []OverlapIsFresh
<1>1. Init => PastInv
  <2>1. Init => \A s \in Slot : map[s] = NoPage BY DEF Init
  <2> QED BY <2>1 DEF Init, PastInv, PastPages, PastDis
<1>2. JitInv /\ PastInv /\ [Next]_vars /\ [StoresFindCode]_vars => PastInv' BY PastStep
<1>3. JitInv /\ PastInv => OverlapIsFresh
  <2> SUFFICES ASSUME JitInv, PastInv, NEW s \in Slot, NEW o \in Decoded(s),
                      NEW i \in 1 .. Len(BytesAt(map[s], o))
               PROVE  mem[s * PageSize + o + i - 1] = BytesAt(map[s], o)[i]
    BY DEF OverlapIsFresh, BytesAt
  <2>1. map[s] # NoPage /\ s \notin doomed /\ o \in Offset /\ Starts(map[s], o)
    BY DEF Decoded, Starts
  <2>2. Same(s, o, BytesAt(map[s], o)) BY <2>1 DEF JitInv, MemInv
  <2>3. SamePast(s, o, BytesAt(map[s], o)) BY <2>1 DEF PastInv, PastPages
  <2>4. o + i <= PageSize \/ o + i > PageSize
    <3>1. map[s] \in Page BY <2>1 DEF JitInv, CacheInv, ListInv, ListTypeOK, PageOrNone
    <3>2. Len(BytesAt(map[s], o)) \in Nat BY <2>1, <3>1, StartBytes DEF JitInv
    <3> QED BY <2>1, <3>2, Sizes, Slots
  <2> QED BY <2>2, <2>3, <2>4 DEF Same, SamePast
<1> QED BY <1>1, <1>2, <1>3, JitAlways, PTL DEF Spec

=============================================================================
