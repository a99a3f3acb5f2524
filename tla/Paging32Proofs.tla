--------------------------- MODULE Paging32Proofs ---------------------------
(***************************************************************************)
(* The pager of jit_pag.h for every number of frames and entries.  The     *)
(* invariants are restated of a pager p, a memory m and a directory, so    *)
(* that each function of jit_pag.h has a lemma of its own.                 *)
(***************************************************************************)
EXTENDS Paging32, TLAPS

Memories == [Phys -> Entry]

Distinct(a) == \A n, k \in 1 .. Len(a) : a[n] = a[k] => n = k
Lists(a, i) == \E n \in 1 .. Len(a) : a[n] = i
Listed(p) ==
  /\ Distinct(p.a)
  /\ \A i \in Index : p.v[i].active <=> Lists(p.a, i)
  /\ \A i \in Index : ~p.v[i].active => p.v[i].v4kB = NoTable

Ranged(p) ==
  /\ InRange(p, p.base_addr)
  /\ \A i \in Index : p.v[i].active /\ ~p.v[i].error => InRange(p, p.v[i].base_addr)

FreshEntry(p, m, i) ==
  LET pde == m[<<p.base_addr, i>>] IN
  p.v[i].active =>
    /\ p.v[i].error <=> ~pde.p
    /\ pde.p => /\ p.v[i].svm_addr <=> ~pde.us
                /\ p.v[i].writing_allowed <=> pde.rw
                /\ p.v[i].base_addr = pde.frame
FreshPage(p, m, i, j) ==
  LET t == p.v[i].v4kB[j]
      pte == m[<<p.v[i].base_addr, j>>] IN
  p.v[i].active /\ ~p.v[i].error /\ t.active =>
    /\ t.error <=> ~pte.p
    /\ pte.p => /\ t.svm_addr <=> ~pte.us \/ p.v[i].svm_addr
                /\ t.writing_allowed <=> pte.rw /\ p.v[i].writing_allowed
                /\ t.base_addr = pte.frame
Fresh(p, m) == \A i, j \in Index : FreshEntry(p, m, i) /\ FreshPage(p, m, i, j)

Private(m, dir) ==
  \A i \in Index : m[<<dir, i>>].p =>
    /\ m[<<dir, i>>].frame # dir
    /\ \A k \in Index : m[<<dir, k>>].p /\ k # i =>
         m[<<dir, k>>].frame # m[<<dir, i>>].frame

-----------------------------------------------------------------------------
\* What paging_32b_alloc_page makes of p but for the list: only entry i changes,
\* and the range only grows and holds the new table.
EntryRead(p, m, i, q) ==
  /\ q \in Paging32b /\ q.base_addr = p.base_addr /\ q.a = p.a
  /\ \A k \in Index \ {i} : q.v[k] = p.v[k]
  /\ q.v[i].active /\ FreshEntry(q, m, i)
  /\ q.v[i].error => q.v[i].v4kB = p.v[i].v4kB
  /\ ~q.v[i].error => q.v[i].v4kB = NoTable /\ InRange(q, q.v[i].base_addr)
  /\ \A f \in Frame : InRange(p, f) => InRange(q, f)

\* What paging_32b_active_4kB makes of p: only entry j of the table of i changes.
PageRead(p, m, i, j, q) ==
  /\ q \in Paging32b /\ q.base_addr = p.base_addr /\ q.a = p.a
  /\ q.addr_min = p.addr_min /\ q.addr_max = p.addr_max
  /\ \A k \in Index \ {i} : q.v[k] = p.v[k]
  /\ q.v[i].active = p.v[i].active /\ q.v[i].error = p.v[i].error
  /\ q.v[i].svm_addr = p.v[i].svm_addr
  /\ q.v[i].writing_allowed = p.v[i].writing_allowed
  /\ q.v[i].base_addr = p.v[i].base_addr
  /\ \A k \in Index \ {j} : q.v[i].v4kB[k] = p.v[i].v4kB[k]
  /\ q.v[i].v4kB[j].active /\ FreshPage(q, m, i, j)

LEMMA NoTableInactive == \A j \in Index : ~NoTable[j].active
BY DEF NoTable, Inactive

LEMMA WithEntryEffect ==
  ASSUME NEW p \in Paging32b, NEW m \in Memories, NEW i \in Index
  PROVE  EntryRead(p, m, i, WithEntry(p, m, i))
<1> DEFINE q == WithEntry(p, m, i)
<1> SUFFICES EntryRead(p, m, i, q) OBVIOUS
<1>0. q = WithEntry(p, m, i) OBVIOUS
<1> HIDE DEF q
<1> DEFINE pde == m[<<p.base_addr, i>>]
<1>1. pde \in Entry /\ p.base_addr \in Frame BY DEF Paging32b, Memories, Phys
<1>2. NoTable \in [Index -> L2]
  BY PagingAssumption DEF NoTable, Inactive, L2
<1>3. p.v \in [Index -> L1] /\ p.v[i] \in L1 BY DEF Paging32b
<1>4. CASE pde.p
  <2> DEFINE e == [active |-> TRUE, error |-> FALSE, svm_addr |-> ~pde.us,
                   writing_allowed |-> pde.rw, base_addr |-> pde.frame,
                   v4kB |-> NoTable]
             w == Widen(p, pde.frame)
  <2>1. pde.frame \in Nat /\ pde.frame \in Frame BY <1>1 DEF Entry, Frame
  <2>2. e \in L1 BY <1>1, <1>2 DEF L1, Entry
  <2>3. /\ w \in Paging32b /\ w.base_addr = p.base_addr /\ w.a = p.a /\ w.v = p.v
        /\ InRange(w, pde.frame) /\ \A f \in Frame : InRange(p, f) => InRange(w, f)
    <3>1. p.addr_min \in Nat /\ p.addr_max \in Nat BY DEF Paging32b
    <3> DEFINE lo == IF pde.frame < p.addr_min THEN pde.frame ELSE p.addr_min
               hi == IF pde.frame + 1 > p.addr_max THEN pde.frame + 1 ELSE p.addr_max
    <3>2. w = [p EXCEPT !.addr_min = lo, !.addr_max = hi] BY DEF Widen
    <3>3. /\ lo \in Nat /\ lo <= p.addr_min /\ lo <= pde.frame
          /\ hi \in Nat /\ hi >= p.addr_max /\ hi >= pde.frame + 1
      BY <2>1, <3>1
    <3> HIDE DEF w, lo, hi
    <3>4. /\ w \in Paging32b /\ w.base_addr = p.base_addr /\ w.a = p.a /\ w.v = p.v
          /\ w.addr_min = lo /\ w.addr_max = hi
      BY <3>2, <3>3 DEF Paging32b
    <3> QED BY <2>1, <3>1, <3>3, <3>4 DEF InRange, Frame
  <2>4. q = [w EXCEPT !.v[i] = e] BY <1>0, <1>4 DEF WithEntry
  <2>5. q = [w EXCEPT !.v = [w.v EXCEPT ![i] = e]] BY <2>3, <2>4 DEF Paging32b
  <2>6. [w.v EXCEPT ![i] = e] \in [Index -> L1] BY <2>2, <2>3, <1>3
  <2>7. /\ q \in Paging32b /\ q.base_addr = w.base_addr /\ q.a = w.a
        /\ q.addr_min = w.addr_min /\ q.addr_max = w.addr_max
        /\ q.v = [w.v EXCEPT ![i] = e]
    BY <2>3, <2>5, <2>6 DEF Paging32b
  <2>8. q.v[i] = e /\ \A k \in Index \ {i} : q.v[k] = p.v[k]
    BY <2>3, <2>7, <1>3
  <2> HIDE DEF w
  <2>9. FreshEntry(q, m, i)
    <3>1. q.base_addr = p.base_addr BY <2>3, <2>7
    <3>2. /\ q.v[i].error = FALSE /\ q.v[i].svm_addr = ~pde.us
          /\ q.v[i].writing_allowed = pde.rw /\ q.v[i].base_addr = pde.frame
      BY <2>8
    <3>3. m[<<q.base_addr, i>>] = pde BY <3>1
    <3> HIDE DEF pde
    <3> QED BY <1>4, <3>2, <3>3 DEF FreshEntry
  <2>10. \A f \in Frame : InRange(w, f) => InRange(q, f) BY <2>7 DEF InRange
  <2>11. /\ q.v[i].active /\ ~q.v[i].error /\ q.v[i].v4kB = NoTable
         /\ q.v[i].base_addr = pde.frame
    BY <2>8
  <2> HIDE DEF pde, e
  <2> QED BY <2>1, <2>3, <2>7, <2>8, <2>9, <2>10, <2>11 DEF EntryRead
<1>5. CASE ~pde.p
  <2> DEFINE e == [p.v[i] EXCEPT !.active = TRUE, !.error = TRUE]
  <2>1. e \in L1 /\ e.active /\ e.error /\ e.v4kB = p.v[i].v4kB
    BY <1>3 DEF L1
  <2>2. q = [p EXCEPT !.v = [p.v EXCEPT ![i] = e]]
    BY <1>0, <1>5, <1>3 DEF WithEntry, Paging32b
  <2>3. /\ q \in Paging32b /\ q.base_addr = p.base_addr /\ q.a = p.a
        /\ q.addr_min = p.addr_min /\ q.addr_max = p.addr_max
        /\ q.v = [p.v EXCEPT ![i] = e]
    BY <2>1, <2>2, <1>3 DEF Paging32b
  <2>4. q.v[i] = e /\ \A k \in Index \ {i} : q.v[k] = p.v[k]
    BY <2>3, <1>3
  <2>5. q.v[i].active /\ q.v[i].error /\ q.v[i].v4kB = p.v[i].v4kB BY <2>1, <2>4
  <2>6. FreshEntry(q, m, i) BY <1>5, <2>3, <2>5 DEF FreshEntry
  <2> HIDE DEF e
  <2> QED BY <2>3, <2>4, <2>5, <2>6 DEF EntryRead, InRange
<1> QED BY <1>4, <1>5

LEMMA Active4kBEffect ==
  ASSUME NEW p \in Paging32b, NEW m \in Memories, NEW i \in Index, NEW j \in Index
  PROVE  PageRead(p, m, i, j, Active4kB(p, m, i, j))
<1> DEFINE q == Active4kB(p, m, i, j)
<1> SUFFICES PageRead(p, m, i, j, q) OBVIOUS
<1>0. q = Active4kB(p, m, i, j) OBVIOUS
<1> HIDE DEF q
<1> DEFINE d == p.v[i]
           pte == m[<<d.base_addr, j>>]
           t == IF pte.p THEN Entry4kB(d, pte)
                ELSE [d.v4kB[j] EXCEPT !.active = TRUE, !.error = TRUE]
<1>1. d \in L1 /\ d.v4kB[j] \in L2 /\ p.v \in [Index -> L1] BY DEF Paging32b, L1
<1>2. pte \in Entry BY <1>1 DEF L1, Memories, Phys
<1>3. /\ t \in L2 /\ t.active
      /\ t.error <=> ~pte.p
      /\ pte.p => /\ t.svm_addr <=> ~pte.us \/ d.svm_addr
                  /\ t.writing_allowed <=> pte.rw /\ d.writing_allowed
                  /\ t.base_addr = pte.frame
  BY <1>1, <1>2 DEF Entry4kB, L1, L2, Entry
<1>4. q = [p EXCEPT !.v[i].v4kB[j] = t] BY <1>0 DEF Active4kB
<1> HIDE DEF t
<1> DEFINE e == [d EXCEPT !.v4kB = [d.v4kB EXCEPT ![j] = t]]
<1>5. q = [p EXCEPT !.v = [p.v EXCEPT ![i] = e]] BY <1>4, <1>1 DEF Paging32b, L1
<1>6. /\ e \in L1 /\ e.active = d.active /\ e.error = d.error /\ e.svm_addr = d.svm_addr
      /\ e.writing_allowed = d.writing_allowed /\ e.base_addr = d.base_addr
      /\ e.v4kB[j] = t /\ \A k \in Index \ {j} : e.v4kB[k] = d.v4kB[k]
  <2>1. d.v4kB \in [Index -> L2] BY <1>1 DEF L1
  <2> DEFINE x == [d.v4kB EXCEPT ![j] = t]
  <2>2. x \in [Index -> L2] /\ x[j] = t /\ \A k \in Index \ {j} : x[k] = d.v4kB[k]
    BY <1>3, <2>1
  <2>3. e = [d EXCEPT !.v4kB = x] OBVIOUS
  <2> HIDE DEF x, e, d
  <2>4. d \in L1 BY <1>1
  <2>5. /\ e \in L1 /\ e.active = d.active /\ e.error = d.error
        /\ e.svm_addr = d.svm_addr /\ e.writing_allowed = d.writing_allowed
        /\ e.base_addr = d.base_addr /\ e.v4kB = x
    BY <2>2, <2>3, <2>4 DEF L1
  <2> QED BY <2>2, <2>5
<1> HIDE DEF e
<1>7. /\ q \in Paging32b /\ q.base_addr = p.base_addr /\ q.a = p.a
      /\ q.addr_min = p.addr_min /\ q.addr_max = p.addr_max
      /\ q.v = [p.v EXCEPT ![i] = e]
  BY <1>1, <1>5, <1>6 DEF Paging32b
<1>8. q.v[i] = e /\ \A k \in Index \ {i} : q.v[k] = p.v[k] BY <1>1, <1>7
<1>9. FreshPage(q, m, i, j)
  <2>1. /\ q.v[i].v4kB[j] = t /\ q.v[i].base_addr = d.base_addr
        /\ q.v[i].svm_addr = d.svm_addr /\ q.v[i].writing_allowed = d.writing_allowed
    BY <1>6, <1>8
  <2> QED BY <1>3, <2>1, Zenon DEF FreshPage
<1> HIDE DEF d
<1>10. t.active BY <1>3
<1> HIDE DEF t
<1> QED BY <1>6, <1>7, <1>8, <1>9, <1>10 DEF d, PageRead

\* A list without repetitions that gains what it does not hold.
LEMMA AppendNew ==
  ASSUME NEW S, NEW a \in Seq(S), NEW x \in S, Distinct(a), ~Lists(a, x)
  PROVE  /\ Distinct(Append(a, x))
         /\ \A y : Lists(Append(a, x), y) <=> y = x \/ Lists(a, y)
<1> DEFINE L == Len(a)
           b == Append(a, x)
<1>1. L \in Nat OBVIOUS
<1>2. Len(b) = L + 1 OBVIOUS
<1>3. b[L + 1] = x /\ \A n \in 1 .. L : b[n] = a[n] OBVIOUS
<1>4. /\ \A n, k \in 1 .. L : a[n] = a[k] => n = k
      /\ \A n \in 1 .. L : a[n] # x
  BY DEF Distinct, Lists
<1>5. \A y : Lists(a, y) <=> \E n \in 1 .. L : a[n] = y
  BY DEF Lists
<1> HIDE DEF L, b
<1>6. \A n : n \in 1 .. L + 1 <=> n \in 1 .. L \/ n = L + 1 BY <1>1
<1>7. \A n, k \in 1 .. Len(b) : b[n] = b[k] => n = k
  BY <1>1, <1>2, <1>3, <1>4, <1>6
<1>8. \A y : (\E n \in 1 .. Len(b) : b[n] = y) <=> y = x \/ \E n \in 1 .. L : a[n] = y
  BY <1>1, <1>2, <1>3, <1>6
<1> QED BY <1>5, <1>7, <1>8 DEF Distinct, Lists, b

\* Reading one entry of the directory keeps the other invariants: the list only
\* gains an entry that was not active.
LEMMA AllocPageKeeps ==
  ASSUME NEW p \in Paging32b, NEW m \in Memories, NEW i \in Index,
         Listed(p), ~p.v[i].active, NEW q, q = AllocPage(p, m, i, TRUE)
  PROVE  /\ q \in Paging32b /\ q.base_addr = p.base_addr /\ Listed(q) /\ q.v[i].active
         /\ Ranged(p) => Ranged(q)
         /\ Fresh(p, m) => Fresh(q, m)
<1> DEFINE w == WithEntry(p, m, i)
<1>1. EntryRead(p, m, i, w) BY WithEntryEffect
<1>2. q = [w EXCEPT !.a = Append(w.a, i)] BY DEF AllocPage
<1> DEFINE s == Append(w.a, i)
<1>3. s \in Seq(Index) BY <1>1 DEF EntryRead, Paging32b
<1> HIDE DEF w, s
<1>4. /\ q \in Paging32b /\ q.base_addr = p.base_addr /\ q.v = w.v
      /\ q.addr_min = w.addr_min /\ q.addr_max = w.addr_max /\ q.a = s
  BY <1>1, <1>2, <1>3 DEF EntryRead, Paging32b, s
<1>5. Listed(q)
  <2>1. p.a \in Seq(Index) /\ q.a = Append(p.a, i)
    BY <1>1, <1>4 DEF s, EntryRead, Paging32b
  <2>2. Distinct(p.a) /\ ~Lists(p.a, i) BY DEF Listed
  <2>3. Distinct(q.a) /\ \A y : Lists(q.a, y) <=> y = i \/ Lists(p.a, y)
    <3>1. /\ Distinct(Append(p.a, i))
          /\ \A y : Lists(Append(p.a, i), y) <=> y = i \/ Lists(p.a, y)
      BY <2>1, <2>2, AppendNew, Zenon
    <3> QED BY <2>1, <3>1
  <2>4. q.v[i].active /\ \A k \in Index \ {i} : q.v[k] = p.v[k]
    BY <1>1, <1>4 DEF EntryRead
  <2>5. ASSUME NEW k \in Index
        PROVE  /\ q.v[k].active <=> Lists(q.a, k)
               /\ ~q.v[k].active => q.v[k].v4kB = NoTable
    <3>1. CASE k = i BY <3>1, <2>3, <2>4
    <3>2. CASE k # i
      <4>1. /\ p.v[k].active <=> Lists(p.a, k)
            /\ ~p.v[k].active => p.v[k].v4kB = NoTable
        BY DEF Listed
      <4> QED BY <3>2, <4>1, <2>3, <2>4
    <3> QED BY <3>1, <3>2
  <2> QED BY <2>3, <2>5 DEF Listed
<1>6. ASSUME Ranged(p) PROVE Ranged(q)
  <2>1. \A f \in Frame : InRange(p, f) => InRange(q, f)
    BY <1>1, <1>4 DEF EntryRead, InRange
  <2>2. ~q.v[i].error => InRange(q, q.v[i].base_addr)
    BY <1>1, <1>4 DEF EntryRead, InRange
  <2>3. /\ p.base_addr \in Frame /\ \A k \in Index : p.v[k].base_addr \in Frame
    BY DEF Paging32b, L1
  <2>4. \A k \in Index \ {i} : q.v[k] = p.v[k] BY <1>1, <1>4 DEF EntryRead
  <2> QED BY <1>6, <1>4, <2>1, <2>2, <2>3, <2>4 DEF Ranged
<1>7. ASSUME Fresh(p, m) PROVE Fresh(q, m)
  <2>1. \A k \in Index \ {i} : q.v[k] = p.v[k] BY <1>1, <1>4 DEF EntryRead
  <2>2. FreshEntry(q, m, i) BY <1>1, <1>4 DEF EntryRead, FreshEntry
  <2>3. q.v[i].v4kB = NoTable BY <1>1, <1>4 DEF EntryRead, Listed
  <2>4. ASSUME NEW k \in Index, NEW j \in Index
        PROVE  FreshEntry(q, m, k) /\ FreshPage(q, m, k, j)
    <3>1. CASE k = i BY <3>1, <2>2, <2>3, NoTableInactive DEF FreshPage
    <3>2. CASE k # i
      <4>1. FreshEntry(p, m, k) /\ FreshPage(p, m, k, j) BY <1>7 DEF Fresh
      <4> QED BY <3>2, <4>1, <2>1, <1>4 DEF FreshEntry, FreshPage
    <3> QED BY <3>1, <3>2
  <2> QED BY <2>4 DEF Fresh
<1>8. q.v[i].active BY <1>1, <1>4 DEF EntryRead
<1> QED BY <1>4, <1>5, <1>6, <1>7, <1>8

\* What reading an entry of a table keeps.
Kept(p, m, q) ==
  /\ q \in Paging32b /\ q.base_addr = p.base_addr /\ Listed(q)
  /\ Ranged(p) => Ranged(q)
  /\ Fresh(p, m) => Fresh(q, m)

LEMMA Active4kBKeeps ==
  ASSUME NEW p \in Paging32b, NEW m \in Memories, NEW i \in Index, NEW j \in Index,
         Listed(p), p.v[i].active
  PROVE  Kept(p, m, Active4kB(p, m, i, j))
<1> DEFINE q == Active4kB(p, m, i, j)
<1>1. PageRead(p, m, i, j, q) BY Active4kBEffect
<1> HIDE DEF q
<1>2. \A k \in Index :
        /\ q.v[k].active = p.v[k].active /\ q.v[k].error = p.v[k].error
        /\ q.v[k].svm_addr = p.v[k].svm_addr
        /\ q.v[k].writing_allowed = p.v[k].writing_allowed
        /\ q.v[k].base_addr = p.v[k].base_addr
  BY <1>1 DEF PageRead
<1>3. /\ q \in Paging32b /\ q.base_addr = p.base_addr /\ q.a = p.a
      /\ q.addr_min = p.addr_min /\ q.addr_max = p.addr_max
      /\ \A k \in Index \ {i} : q.v[k] = p.v[k]
  BY <1>1 DEF PageRead
<1>4. Listed(q) BY <1>2, <1>3 DEF Listed
<1>5. Ranged(p) => Ranged(q) BY <1>2, <1>3 DEF Ranged, InRange
<1>6. ASSUME Fresh(p, m) PROVE Fresh(q, m)
  <2>1. ASSUME NEW k \in Index PROVE FreshEntry(q, m, k)
    <3>1. FreshEntry(p, m, k) BY <1>6 DEF Fresh
    <3> QED BY <3>1, <1>2, <1>3 DEF FreshEntry
  <2>2. ASSUME NEW k \in Index, NEW l \in Index PROVE FreshPage(q, m, k, l)
    <3>1. CASE k = i /\ l = j BY <3>1, <1>1 DEF PageRead
    <3>2. CASE ~(k = i /\ l = j)
      <4>1. q.v[k].v4kB[l] = p.v[k].v4kB[l] BY <3>2, <1>1 DEF PageRead
      <4>2. FreshPage(p, m, k, l) BY <1>6 DEF Fresh
      <4> QED BY <4>1, <4>2, <1>2 DEF FreshPage
    <3> QED BY <3>1, <3>2
  <2> QED BY <2>1, <2>2 DEF Fresh
<1> QED BY <1>3, <1>4, <1>5, <1>6 DEF Kept, q

\* One translation activates the levels of l.
Walked(p, m, l, q) ==
  /\ q \in Paging32b /\ q.base_addr = p.base_addr /\ Listed(q) /\ Ranged(q)
  /\ Fresh(p, m) => Fresh(q, m)
  /\ q.v[l[1]].active /\ (~q.v[l[1]].error => q.v[l[1]].v4kB[l[2]].active)

LEMMA ActivatedKeeps ==
  ASSUME NEW p \in Paging32b, NEW m \in Memories, NEW l \in Linear,
         Listed(p), Ranged(p)
  PROVE  Walked(p, m, l, Activated(p, m, l))
<1> DEFINE i == l[1]
           j == l[2]
           w == WithDirectory(p, m, i)
           q == WithTable(w, m, i, j)
<1>1. i \in Index /\ j \in Index BY DEF Linear
<1>2. q = Activated(p, m, l) BY DEF Activated
<1> HIDE DEF i, j
<1>3. /\ w \in Paging32b /\ w.base_addr = p.base_addr /\ Listed(w) /\ w.v[i].active
      /\ Ranged(w) /\ (Fresh(p, m) => Fresh(w, m))
  <2>1. CASE p.v[i].active BY <2>1 DEF WithDirectory
  <2>2. CASE ~p.v[i].active BY <2>2, <1>1, AllocPageKeeps DEF WithDirectory
  <2> QED BY <2>1, <2>2
<1> HIDE DEF w
<1>4. /\ q \in Paging32b /\ q.base_addr = w.base_addr /\ Listed(q) /\ Ranged(q)
      /\ (Fresh(w, m) => Fresh(q, m))
      /\ q.v[i].active /\ (~q.v[i].error => q.v[i].v4kB[j].active)
  <2>1. CASE w.v[i].error \/ w.v[i].v4kB[j].active
    BY <2>1, <1>3 DEF WithTable
  <2>2. CASE ~(w.v[i].error \/ w.v[i].v4kB[j].active)
    <3>1. q = Active4kB(w, m, i, j) BY <2>2 DEF WithTable
    <3>2. PageRead(w, m, i, j, q) BY <1>1, <1>3, <3>1, Active4kBEffect
    <3> QED BY <1>1, <1>3, <2>2, <3>1, <3>2, Active4kBKeeps DEF PageRead, Kept
  <2> QED BY <2>1, <2>2
<1> HIDE DEF q
<1> QED BY <1>2, <1>3, <1>4 DEF i, j, Walked

\* The directory entry i has been stored: it is read again, if active.
LEMMA ReloadKeeps ==
  ASSUME NEW p \in Paging32b, NEW m \in Memories, NEW i \in Index,
         Listed(p), Ranged(p)
  PROVE  LET q == Reload(p, m, i) IN
         /\ q \in Paging32b /\ q.base_addr = p.base_addr
         /\ Listed(q) /\ Ranged(q)
         /\ \A k \in Index \ {i} : q.v[k] = p.v[k]
         /\ q.v[i].active => FreshEntry(q, m, i) /\ q.v[i].v4kB = NoTable
<1> DEFINE q == Reload(p, m, i)
<1>1. CASE ~p.v[i].active
  <2>1. q = p BY <1>1 DEF Reload
  <2> QED BY <1>1, <2>1
<1>2. CASE p.v[i].active
  <2> DEFINE e == [p.v[i] EXCEPT !.active = FALSE, !.v4kB = NoTable]
             c == [p EXCEPT !.v[i] = e]
             w == WithEntry(c, m, i)
  <2>1. NoTable \in [Index -> L2] BY PagingAssumption DEF NoTable, Inactive, L2
  <2>2. p.v \in [Index -> L1] /\ p.v[i] \in L1 BY DEF Paging32b
  <2>3. e \in L1 /\ e.v4kB = NoTable BY <2>1, <2>2 DEF L1
  <2>4. q = [w EXCEPT !.a = w.a] BY <1>2 DEF Reload, AllocPage
  <2> HIDE DEF e
  <2>5. /\ c \in Paging32b /\ c.base_addr = p.base_addr /\ c.a = p.a
        /\ c.addr_min = p.addr_min /\ c.addr_max = p.addr_max
        /\ c.v = [p.v EXCEPT ![i] = e]
    <3>1. c = [p EXCEPT !.v = [p.v EXCEPT ![i] = e]] BY DEF Paging32b
    <3>2. [p.v EXCEPT ![i] = e] \in [Index -> L1] BY <2>2, <2>3
    <3> QED BY <3>1, <3>2 DEF Paging32b
  <2>6. c.v[i] = e /\ \A k \in Index \ {i} : c.v[k] = p.v[k] BY <2>2, <2>5
  <2> HIDE DEF c
  <2>7. EntryRead(c, m, i, w) BY <2>5, WithEntryEffect
  <2> HIDE DEF w
  <2>8. q = w BY <2>4, <2>7 DEF EntryRead, Paging32b
  <2> HIDE DEF q
  <2>9. /\ q \in Paging32b /\ q.base_addr = p.base_addr /\ q.a = p.a
        /\ \A k \in Index \ {i} : q.v[k] = p.v[k]
        /\ q.v[i].active /\ FreshEntry(q, m, i) /\ q.v[i].v4kB = NoTable
    BY <2>3, <2>5, <2>6, <2>7, <2>8 DEF EntryRead
  <2>10. Listed(q)
    <3>1. Distinct(q.a) BY <2>9 DEF Listed
    <3>2. ASSUME NEW k \in Index
          PROVE  /\ q.v[k].active <=> Lists(q.a, k)
                 /\ ~q.v[k].active => q.v[k].v4kB = NoTable
      <4>1. /\ p.v[k].active <=> Lists(p.a, k)
            /\ ~p.v[k].active => p.v[k].v4kB = NoTable
        BY DEF Listed
      <4> QED BY <1>2, <2>9, <4>1
    <3> QED BY <3>1, <3>2 DEF Listed
  <2>11. Ranged(q)
    <3>1. \A f \in Frame : InRange(p, f) => InRange(q, f)
      BY <2>5, <2>7, <2>8 DEF EntryRead, InRange
    <3>2. ~q.v[i].error => InRange(q, q.v[i].base_addr)
      BY <2>7, <2>8 DEF EntryRead
    <3>3. /\ p.base_addr \in Frame /\ \A k \in Index : p.v[k].base_addr \in Frame
      BY DEF Paging32b, L1
    <3> QED BY <2>9, <3>1, <3>2, <3>3 DEF Ranged
  <2> QED BY <2>9, <2>10, <2>11 DEF q
<1> QED BY <1>1, <1>2

\* What is fresh stays so when neither it nor the word it was read from changes.
LEMMA StaysFresh ==
  ASSUME NEW p, NEW q, NEW m, NEW n, NEW k \in Index, NEW j \in Index,
         q.base_addr = p.base_addr, q.v[k] = p.v[k],
         n[<<p.base_addr, k>>] = m[<<p.base_addr, k>>],
         p.v[k].active /\ ~p.v[k].error =>
           n[<<p.v[k].base_addr, j>>] = m[<<p.v[k].base_addr, j>>],
         FreshEntry(p, m, k), FreshPage(p, m, k, j)
  PROVE  FreshEntry(q, n, k) /\ FreshPage(q, n, k, j)
<1>1. FreshEntry(q, n, k) BY DEF FreshEntry
<1>2. FreshPage(q, n, k, j) BY DEF FreshPage
<1> QED BY <1>1, <1>2

\* When the directory is fresh and private, so is the place of every table.
LEMMA TablesApart ==
  ASSUME NEW p \in Paging32b, NEW m \in Memories,
         Fresh(p, m), Private(m, p.base_addr),
         NEW i \in Index, p.v[i].active, ~p.v[i].error
  PROVE  /\ p.v[i].base_addr # p.base_addr
         /\ \A k \in Index \ {i} : p.v[k].active /\ ~p.v[k].error =>
              p.v[k].base_addr # p.v[i].base_addr
<1>1. \A k \in Index : p.v[k].active /\ ~p.v[k].error =>
        m[<<p.base_addr, k>>].p /\ p.v[k].base_addr = m[<<p.base_addr, k>>].frame
  BY DEF Fresh, FreshEntry
<1> QED BY <1>1 DEF Private

\* paging_32b_addr_changed, after a store: the pager keeps its shape, and stays
\* fresh if the tables were private.
LEMMA AddrChangedKeeps ==
  ASSUME NEW p \in Paging32b, NEW m \in Memories, NEW w \in Phys, NEW e \in Entry,
         Listed(p), Ranged(p),
         NEW n, n = [m EXCEPT ![w] = e], NEW q, AddrChanged(p, n, w, q)
  PROVE  /\ q \in Paging32b /\ q.base_addr = p.base_addr
         /\ Listed(q) /\ Ranged(q)
         /\ Fresh(p, m) /\ Private(m, p.base_addr) => Fresh(q, n)
<1> DEFINE f == w[1]
           x == w[2]
<1>1. f \in Frame /\ x \in Index /\ w = <<f, x>> BY DEF Phys
<1>2. n \in Memories BY DEF Memories
<1>3. \A g \in Frame, k \in Index : g # f \/ k # x => n[<<g, k>>] = m[<<g, k>>]
  BY <1>1 DEF Memories, Phys
<1>4. /\ p.base_addr \in Frame /\ \A k \in Index : p.v[k].base_addr \in Frame
  BY DEF Paging32b, L1
<1>5. AddrChanged(p, n, <<f, x>>, q) BY <1>1
<1> HIDE DEF f, x
\* Nothing the pager keeps was read from w.
<1>6. ASSUME q = p, f # p.base_addr,
             \A k \in Index : p.v[k].active /\ ~p.v[k].error => p.v[k].base_addr # f
      PROVE  Fresh(p, m) => Fresh(q, n)
  <2> SUFFICES ASSUME Fresh(p, m), NEW k \in Index, NEW j \in Index
               PROVE  FreshEntry(q, n, k) /\ FreshPage(q, n, k, j)
    BY DEF Fresh
  <2>1. FreshEntry(p, m, k) /\ FreshPage(p, m, k, j) BY DEF Fresh
  <2>2. n[<<p.base_addr, k>>] = m[<<p.base_addr, k>>] BY <1>3, <1>4, <1>6
  <2>3. p.v[k].active /\ ~p.v[k].error =>
          n[<<p.v[k].base_addr, j>>] = m[<<p.v[k].base_addr, j>>]
    BY <1>3, <1>4, <1>6
  <2> QED BY <1>6, <2>1, <2>2, <2>3, StaysFresh
<1>7. CASE ~InRange(p, f) /\ q = p
  <2>1. f # p.base_addr BY <1>7 DEF Ranged
  <2>2. \A k \in Index : p.v[k].active /\ ~p.v[k].error => p.v[k].base_addr # f
    BY <1>7 DEF Ranged
  <2> QED BY <1>6, <1>7, <2>1, <2>2
<1>8. CASE f = p.base_addr /\ q = Reload(p, n, x)
  <2>1. /\ q \in Paging32b /\ q.base_addr = p.base_addr /\ Listed(q) /\ Ranged(q)
        /\ \A k \in Index \ {x} : q.v[k] = p.v[k]
        /\ q.v[x].active => FreshEntry(q, n, x) /\ q.v[x].v4kB = NoTable
    BY <1>1, <1>2, <1>8, ReloadKeeps
  <2>2. ASSUME Fresh(p, m), Private(m, p.base_addr), NEW k \in Index, NEW j \in Index
        PROVE  FreshEntry(q, n, k) /\ FreshPage(q, n, k, j)
    <3>1. CASE k = x
      <4>1. FreshEntry(q, n, k) BY <3>1, <2>1 DEF FreshEntry
      <4>2. FreshPage(q, n, k, j) BY <3>1, <2>1, NoTableInactive DEF FreshPage
      <4> QED BY <4>1, <4>2
    <3>2. CASE k # x
      <4>1. FreshEntry(p, m, k) /\ FreshPage(p, m, k, j) BY <2>2 DEF Fresh
      <4>2. n[<<p.base_addr, k>>] = m[<<p.base_addr, k>>] BY <3>2, <1>3, <1>4
      <4>3. p.v[k].active /\ ~p.v[k].error =>
              n[<<p.v[k].base_addr, j>>] = m[<<p.v[k].base_addr, j>>]
        BY <2>2, <1>3, <1>4, <1>8, TablesApart
      <4> QED BY <3>2, <2>1, <4>1, <4>2, <4>3, StaysFresh
    <3> QED BY <3>1, <3>2
  <2> QED BY <2>1, <2>2 DEF Fresh
<1>9. CASE f # p.base_addr /\ TablesAt(p, f) = {} /\ q = p
  <2>1. \A k \in Index : p.v[k].active => Lists(p.a, k) BY DEF Listed
  <2>2. \A k \in Index : p.v[k].active /\ ~p.v[k].error => p.v[k].base_addr # f
    BY <1>9, <2>1 DEF Lists, TablesAt
  <2> QED BY <1>6, <1>9, <2>2
<1>10. ASSUME f # p.base_addr, NEW t \in TablesAt(p, f), q = Reload4kB(p, n, p.a[t], x)
       PROVE  /\ q \in Paging32b /\ q.base_addr = p.base_addr
              /\ Listed(q) /\ Ranged(q)
              /\ Fresh(p, m) /\ Private(m, p.base_addr) => Fresh(q, n)
  <2> DEFINE i == p.a[t]
  <2>1. t \in 1 .. Len(p.a) /\ ~p.v[i].error /\ p.v[i].base_addr = f
    BY <1>10 DEF TablesAt
  <2>2. i \in Index BY <2>1 DEF Paging32b
  <2>3. Lists(p.a, i) BY <2>1 DEF Lists
  <2>4. q = Reload4kB(p, n, i, x) BY <1>10
  <2> HIDE DEF i
  <2>5. p.v[i].active BY <2>2, <2>3 DEF Listed
  <2>6. CASE ~p.v[i].v4kB[x].active
    <3>1. q = p BY <2>4, <2>6 DEF Reload4kB
    <3>2. ASSUME Fresh(p, m), Private(m, p.base_addr), NEW k \in Index, NEW j \in Index
          PROVE  FreshEntry(q, n, k) /\ FreshPage(q, n, k, j)
      <4>1. FreshEntry(p, m, k) /\ FreshPage(p, m, k, j) BY <3>2 DEF Fresh
      <4>2. n[<<p.base_addr, k>>] = m[<<p.base_addr, k>>] BY <1>3, <1>4, <1>10
      <4>3. CASE k = i /\ j = x
        <5>1. FreshEntry(q, n, k) BY <3>1, <4>1, <4>2 DEF FreshEntry
        <5>2. FreshPage(q, n, k, j) BY <3>1, <4>3, <2>6 DEF FreshPage
        <5> QED BY <5>1, <5>2
      <4>4. CASE ~(k = i /\ j = x)
        <5>1. p.v[k].active /\ ~p.v[k].error => j # x \/ p.v[k].base_addr # f
          BY <4>4, <3>2, <2>1, <2>2, <2>5, TablesApart
        <5>2. p.v[k].active /\ ~p.v[k].error =>
                n[<<p.v[k].base_addr, j>>] = m[<<p.v[k].base_addr, j>>]
          BY <5>1, <1>3, <1>4
        <5> QED BY <3>1, <4>1, <4>2, <5>2, StaysFresh
      <4> QED BY <4>3, <4>4
    <3> QED BY <3>1, <3>2 DEF Fresh
  <2>7. CASE p.v[i].v4kB[x].active
    <3>1. q = Active4kB(p, n, i, x) BY <2>4, <2>7 DEF Reload4kB
    <3>2. /\ q \in Paging32b /\ q.base_addr = p.base_addr /\ Listed(q) /\ Ranged(q)
      <4>1. Kept(p, n, Active4kB(p, n, i, x)) BY <1>1, <1>2, <2>2, <2>5, Active4kBKeeps
      <4> QED BY <3>1, <4>1 DEF Kept
    <3>3. PageRead(p, n, i, x, q) BY <1>1, <1>2, <2>2, <3>1, Active4kBEffect
    <3>4. ASSUME Fresh(p, m), Private(m, p.base_addr), NEW k \in Index, NEW j \in Index
          PROVE  FreshEntry(q, n, k) /\ FreshPage(q, n, k, j)
      <4>1. FreshEntry(p, m, k) /\ FreshPage(p, m, k, j) BY <3>4 DEF Fresh
      <4>2. n[<<p.base_addr, k>>] = m[<<p.base_addr, k>>] BY <1>3, <1>4, <1>10
      <4>3. CASE k = i
        <5>1. /\ q.v[k].active = p.v[k].active /\ q.v[k].error = p.v[k].error
              /\ q.v[k].svm_addr = p.v[k].svm_addr
              /\ q.v[k].writing_allowed = p.v[k].writing_allowed
              /\ q.v[k].base_addr = p.v[k].base_addr
          BY <4>3, <3>3 DEF PageRead
        <5>2. FreshEntry(q, n, k) BY <3>2, <4>1, <4>2, <5>1 DEF FreshEntry
        <5>3. CASE j = x BY <4>3, <5>2, <5>3, <3>3 DEF PageRead
        <5>4. CASE j # x
          <6>1. q.v[k].v4kB[j] = p.v[k].v4kB[j] BY <4>3, <5>4, <3>3 DEF PageRead
          <6>2. n[<<p.v[k].base_addr, j>>] = m[<<p.v[k].base_addr, j>>]
            BY <5>4, <1>3, <1>4
          <6>3. FreshPage(q, n, k, j) BY <4>1, <5>1, <6>1, <6>2 DEF FreshPage
          <6> QED BY <5>2, <6>3
        <5> QED BY <5>3, <5>4
      <4>4. CASE k # i
        <5>1. q.v[k] = p.v[k] BY <4>4, <3>3 DEF PageRead
        <5>2. p.v[k].active /\ ~p.v[k].error => p.v[k].base_addr # f
          BY <4>4, <3>4, <2>1, <2>2, <2>5, TablesApart
        <5>3. p.v[k].active /\ ~p.v[k].error =>
                n[<<p.v[k].base_addr, j>>] = m[<<p.v[k].base_addr, j>>]
          BY <5>2, <1>3, <1>4
        <5> QED BY <3>2, <4>1, <4>2, <5>1, <5>3, StaysFresh
      <4> QED BY <4>3, <4>4
    <3> QED BY <3>2, <3>4 DEF Fresh
  <2> QED BY <2>6, <2>7
<1> QED BY <1>5, <1>7, <1>8, <1>9, <1>10 DEF AddrChanged

\* paging_32b_CR3_changed: an empty pager over the new directory.
LEMMA CR3ChangedKeeps ==
  ASSUME NEW p \in Paging32b, NEW f \in Frame
  PROVE  LET q == CR3Changed(p, f) IN
         /\ q \in Paging32b /\ q.base_addr = f /\ Listed(q) /\ Ranged(q)
         /\ \A m : Fresh(q, m)
<1> DEFINE q == CR3Changed(p, f)
           c == Cleared(p.v)
<1>1. NoTable \in [Index -> L2] BY PagingAssumption DEF NoTable, Inactive, L2
<1>2. \A k \in Index : c[k] \in L1 /\ ~c[k].active /\ c[k].v4kB = NoTable
  <2> TAKE k \in Index
  <2>1. p.v[k] \in L1 BY DEF Paging32b
  <2>2. c[k] = [p.v[k] EXCEPT !.active = FALSE, !.v4kB = NoTable] BY DEF Cleared
  <2> QED BY <1>1, <2>1, <2>2 DEF L1
<1>3. c \in [Index -> L1] BY <1>2 DEF Cleared
<1>4. f \in Nat BY DEF Frame
<1>5. /\ q.base_addr = f /\ q.addr_min = f /\ q.addr_max = f + 1 /\ q.a = <<>>
      /\ q.v = c
  BY DEF CR3Changed
<1>6. q \in Paging32b
  <2>1. <<>> \in Seq(Index) OBVIOUS
  <2>2. f + 1 \in Nat BY <1>4
  <2> HIDE DEF c
  <2> QED BY <1>3, <1>4, <2>1, <2>2 DEF CR3Changed, Paging32b, c
<1> HIDE DEF q, c
<1>7. InRange(q, f) BY <1>4, <1>5 DEF InRange
<1>8. \A k : ~Lists(q.a, k) BY <1>5 DEF Lists
<1>9. Distinct(q.a) BY <1>5 DEF Distinct
<1>10. Listed(q) BY <1>2, <1>5, <1>8, <1>9 DEF Listed
<1>11. Ranged(q) BY <1>2, <1>5, <1>7 DEF Ranged
<1>12. \A m : Fresh(q, m) BY <1>2, <1>5 DEF Fresh, FreshEntry, FreshPage
<1> QED BY <1>5, <1>6, <1>10, <1>11, <1>12 DEF q

-----------------------------------------------------------------------------
(***************************************************************************)
(* The steps.                                                              *)
(***************************************************************************)
PagerOK == Listed(p32) /\ (pg => p32.base_addr = cr3 /\ Ranged(p32))
PagerInv == TypeOK /\ PagerOK
PagerFresh == pg => Fresh(p32, mem)

LEMMA PartsType ==
  ASSUME NEW op \in Operands
  PROVE  Parts(op) \in Seq(Part) /\ Parts(op) # <<>> /\ op.l \in Linear
<1>1. op \in Operand BY PagingAssumption
<1>2. op.l \in Linear /\ op.ctx \in Context /\ op.kind \in AccessKind
      /\ op.odd \in BOOLEAN
  BY <1>1 DEF Operand
<1>3. 0 \in Index BY PagingAssumption DEF Index
<1>4. Following(op.l) \in Linear BY <1>2, <1>3 DEF Following, Linear
<1> DEFINE c == [op.ctx EXCEPT !.implicit = @ /\ ~op.odd /\ op.kind # "write"]
           first == [l |-> op.l, kind |-> op.kind, ctx |-> c]
           second == [first EXCEPT !.l = Following(op.l)]
<1>5. c \in Context BY <1>2 DEF Context
<1> HIDE DEF c
<1>6. first \in Part BY <1>2, <1>5 DEF Part
<1>7. second \in Part BY <1>2, <1>4, <1>5 DEF Part
<1> HIDE DEF first, second
<1>8. Parts(op) = IF op.straddles THEN <<first, second>> ELSE <<first>>
  BY DEF Parts, first, second, c
<1> QED BY <1>2, <1>6, <1>7, <1>8

\* The word a translation reaches is one of memory.
LEMMA TranslatedType ==
  ASSUME NEW p \in Paging32b, NEW part \in Part, Translated(p, part).fault # "PF"
  PROVE  Translated(p, part).at \in Phys
<1> DEFINE i == part.l[1]
           j == part.l[2]
           k == part.l[3]
           t == p.v[i].v4kB[j]
<1>1. i \in Index /\ j \in Index /\ k \in Index BY DEF Part, Linear
<1>2. t.base_addr \in Frame BY <1>1 DEF Paging32b, L1, L2
<1>3. Translated(p, part) = Reached(<<t.base_addr, k>>) BY DEF Translated, PageFault
<1> HIDE DEF t, k
<1> QED BY <1>1, <1>2, <1>3 DEF Reached, Phys

LEMMA StoreKeeps ==
  ASSUME TypeOK, NEW p \in Paging32b, Listed(p),
         pg => p.base_addr = cr3 /\ Ranged(p),
         NEW part, NEW w \in Phys, Store(part, p, w)
  PROVE  /\ mem' \in Memories /\ p32' \in Paging32b /\ Listed(p32')
         /\ pg => p32'.base_addr = cr3 /\ Ranged(p32')
         /\ pg /\ Fresh(p, mem) /\ Private(mem, cr3) => Fresh(p32', mem')
<1>1. mem \in Memories BY DEF TypeOK, Memories
<1>2. CASE part.kind = "write"
  <2>1. PICK e \in Storable(mem, w) :
          /\ mem' = [mem EXCEPT ![w] = e]
          /\ IF pg THEN AddrChanged(p, mem', w, p32') ELSE p32' = p
    BY <1>2 DEF Store
  <2>2. e \in Entry BY <1>1, <2>1, PagingAssumption DEF Storable, Memories
  <2>3. mem' \in Memories BY <1>1, <2>1, <2>2 DEF Memories
  <2>4. CASE pg
    <3>1. /\ p32' \in Paging32b /\ p32'.base_addr = p.base_addr
          /\ Listed(p32') /\ Ranged(p32')
          /\ Fresh(p, mem) /\ Private(mem, p.base_addr) => Fresh(p32', mem')
      BY <1>1, <2>1, <2>2, <2>4, AddrChangedKeeps
    <3> QED BY <2>3, <2>4, <3>1
  <2>5. CASE ~pg BY <2>1, <2>3, <2>5
  <2> QED BY <2>4, <2>5
<1>3. CASE part.kind # "write" BY <1>1, <1>3 DEF Store
<1> QED BY <1>2, <1>3

LEMMA DoKeeps ==
  ASSUME PagerInv, NEW parts \in Seq(Part), parts # <<>>, Do(parts)
  PROVE  PagerInv' /\ (PagerFresh /\ Private(mem, cr3) => PagerFresh')
<1> DEFINE part == Head(parts)
<1>1. part \in Part /\ Tail(parts) \in Seq(Part) /\ part.l \in Linear
  <2>1. part \in Part /\ Tail(parts) \in Seq(Part) OBVIOUS
  <2> QED BY <2>1 DEF Part
<1>2. /\ mem \in Memories /\ p32 \in Paging32b /\ Listed(p32) /\ TypeOK
      /\ cr3 \in Frame /\ pg \in BOOLEAN /\ cr2 \in Linear
      /\ pg => p32.base_addr = cr3 /\ Ranged(p32)
  BY DEF PagerInv, PagerOK, TypeOK, Memories
<1>3. CASE DoPaged(parts)
  <2> DEFINE p == Activated(p32, mem, part.l)
             r == Translated(p, part)
  <2>1. /\ pg /\ cr3' = cr3 /\ pg' = pg
        /\ IF r.fault = "PF"
           THEN cr2' = part.l /\ todo' = <<>> /\ p32' = p /\ UNCHANGED mem
           ELSE todo' = Tail(parts) /\ Store(part, p, r.at) /\ UNCHANGED cr2
    BY <1>3 DEF DoPaged
  <2>2. /\ p \in Paging32b /\ p.base_addr = cr3 /\ Listed(p) /\ Ranged(p)
        /\ Fresh(p32, mem) => Fresh(p, mem)
    <3>1. Walked(p32, mem, part.l, p) BY <1>1, <1>2, <2>1, ActivatedKeeps
    <3> HIDE DEF p, part
    <3> QED BY <1>2, <2>1, <3>1 DEF Walked
  <2>3. cr2' \in Linear /\ todo' \in Seq(Part)
    <3>1. <<>> \in Seq(Part) OBVIOUS
    <3> HIDE DEF p, part, r
    <3> QED BY <1>1, <1>2, <2>1, <3>1
  <2> HIDE DEF p, part
  <2>4. r.fault # "PF" => r.at \in Phys BY <1>1, <2>2, TranslatedType
  <2> HIDE DEF r
  <2>5. /\ mem' \in Memories /\ p32' \in Paging32b /\ Listed(p32')
        /\ p32'.base_addr = cr3 /\ Ranged(p32')
        /\ Fresh(p, mem) /\ Private(mem, cr3) => Fresh(p32', mem')
    <3>1. CASE r.fault = "PF" BY <1>2, <2>1, <2>2, <3>1
    <3>2. CASE r.fault # "PF"
      <4>1. Store(part, p, r.at) /\ r.at \in Phys BY <2>1, <2>4, <3>2
      <4> QED BY <1>2, <2>1, <2>2, <4>1, StoreKeeps
    <3> QED BY <3>1, <3>2
  <2>6. PagerInv'
    BY <1>2, <2>1, <2>3, <2>5 DEF PagerInv, PagerOK, TypeOK, Memories
  <2>7. PagerFresh /\ Private(mem, cr3) => PagerFresh'
    BY <2>1, <2>2, <2>5 DEF PagerFresh
  <2> QED BY <2>6, <2>7
<1>4. CASE DoFlat(parts)
  <2> DEFINE w == Flat(part.l)
  <2>1. /\ ~pg /\ w \in Phys /\ cr2' = cr2 /\ cr3' = cr3 /\ pg' = pg
        /\ todo' = Tail(parts) /\ Store(part, p32, w)
    BY <1>4 DEF DoFlat
  <2> HIDE DEF part, w
  <2>2. mem' \in Memories /\ p32' \in Paging32b /\ Listed(p32')
    BY <1>2, <2>1, StoreKeeps
  <2> QED BY <1>1, <1>2, <2>1, <2>2
       DEF PagerInv, PagerOK, PagerFresh, TypeOK, Memories
<1> QED BY <1>3, <1>4 DEF Do

LEMMA CR3Keeps ==
  ASSUME PagerInv, NEW f \in Frame, cr3' = f, p32' = CR3Changed(p32, f),
         UNCHANGED mem, todo' = todo, cr2' = cr2, pg' \in BOOLEAN
  PROVE  PagerInv' /\ PagerFresh'
<1>1. p32 \in Paging32b BY DEF PagerInv, TypeOK
<1>2. /\ p32' \in Paging32b /\ p32'.base_addr = f /\ Listed(p32') /\ Ranged(p32')
      /\ \A m : Fresh(p32', m)
  BY <1>1, CR3ChangedKeeps
<1> QED BY <1>2 DEF PagerInv, PagerOK, PagerFresh, TypeOK

LEMMA PagerStep ==
  ASSUME PagerInv, [Next]_vars
  PROVE  PagerInv' /\ (PagerFresh /\ Private(mem, cr3) => PagerFresh')
<1>1. /\ mem \in Memories /\ p32 \in Paging32b /\ Listed(p32)
      /\ cr3 \in Frame /\ pg \in BOOLEAN /\ cr2 \in Linear /\ todo \in Seq(Part)
      /\ pg => p32.base_addr = cr3 /\ Ranged(p32)
  BY DEF PagerInv, PagerOK, TypeOK, Memories
<1>2. ASSUME NEW op \in Operands, Access(op)
      PROVE  PagerInv' /\ (PagerFresh /\ Private(mem, cr3) => PagerFresh')
  BY <1>2, PartsType, DoKeeps DEF Access
<1>3. CASE Continue BY <1>1, <1>3, DoKeeps DEF Continue
<1>4. ASSUME NEW op \in Operands, Trace(op)
      PROVE  PagerInv' /\ (PagerFresh /\ Private(mem, cr3) => PagerFresh')
  <2>1. op.l \in Linear BY PartsType
  <2>2. CASE pg
    <3>1. Walked(p32, mem, op.l, Activated(p32, mem, op.l))
      BY <1>1, <2>1, <2>2, ActivatedKeeps
    <3>2. p32' = Activated(p32, mem, op.l) BY <1>4, <2>2 DEF Trace
    <3>3. UNCHANGED <<mem, cr3, pg, todo>> /\ cr2' \in Linear BY <1>1, <1>4, <2>1 DEF Trace
    <3> QED BY <1>1, <2>2, <3>1, <3>2, <3>3
         DEF Walked, PagerInv, PagerOK, PagerFresh, TypeOK
  <2>3. CASE ~pg
    <3>1. UNCHANGED <<mem, cr2, cr3, pg, todo, p32>> BY <1>4, <2>3 DEF Trace
    <3> QED BY <2>3, <3>1 DEF PagerInv, PagerOK, PagerFresh, TypeOK
  <2> QED BY <2>2, <2>3
<1>5. ASSUME NEW ctx \in Contexts, NEW f \in Directories, MovCR3(f, ctx)
      PROVE  PagerInv' /\ (PagerFresh /\ Private(mem, cr3) => PagerFresh')
  <2>1. f \in Frame BY PagingAssumption
  <2>2. CASE ctx.cpl = 0 BY <1>1, <1>5, <2>1, <2>2, CR3Keeps DEF MovCR3
  <2>3. CASE ctx.cpl # 0
    BY <1>5, <2>3 DEF MovCR3, PagerInv, PagerOK, PagerFresh, TypeOK
  <2> QED BY <2>2, <2>3
<1>6. ASSUME NEW ctx \in Contexts, NEW on \in BOOLEAN, MovCR0(on, ctx)
      PROVE  PagerInv' /\ (PagerFresh /\ Private(mem, cr3) => PagerFresh')
  <2>1. CASE ctx.cpl = 0 /\ on /\ ~pg
    BY <1>1, <1>6, <2>1, CR3Keeps DEF MovCR0, Callbacks
  <2>2. CASE ~(ctx.cpl = 0 /\ on /\ ~pg)
    <3>1. /\ UNCHANGED <<mem, cr2, cr3, todo, p32>> /\ pg' \in BOOLEAN /\ (pg' => pg)
      BY <1>1, <1>6, <2>2 DEF MovCR0, Callbacks
    <3> QED BY <3>1 DEF PagerInv, PagerOK, PagerFresh, TypeOK
  <2> QED BY <2>1, <2>2
<1>7. ASSUME NEW ctx \in Contexts, Invlpg(ctx)
      PROVE  PagerInv' /\ (PagerFresh /\ Private(mem, cr3) => PagerFresh')
  BY <1>7 DEF Invlpg, PagerInv, PagerOK, PagerFresh, TypeOK
<1>8. ASSUME NEW f \in Directories, SwitchTask(f)
      PROVE  PagerInv' /\ (PagerFresh /\ Private(mem, cr3) => PagerFresh')
  <2>1. f \in Frame BY PagingAssumption
  <2> QED BY <1>1, <1>8, <2>1, CR3Keeps DEF SwitchTask
<1>9. CASE Reset
  <2>1. <<0, 0, 0>> \in Linear /\ 0 \in Frame BY PagingAssumption DEF Linear, Index
  <2> QED BY <1>9, <2>1 DEF Reset, PagerInv, PagerOK, PagerFresh, TypeOK
<1>10. CASE UNCHANGED vars
  BY <1>10 DEF vars, PagerInv, PagerOK, PagerFresh, TypeOK
<1> QED BY <1>2, <1>3, <1>4, <1>5, <1>6, <1>7, <1>8, <1>9, <1>10 DEF Next

LEMMA PagerInit == Init => PagerInv /\ PagerFresh
<1> SUFFICES ASSUME Init PROVE PagerInv /\ PagerFresh OBVIOUS
<1>1. <<0, 0, 0>> \in Linear /\ 0 \in Frame BY PagingAssumption DEF Linear, Index
<1>2. NoTable \in [Index -> L2] BY PagingAssumption DEF NoTable, Inactive, L2
<1>3. InactiveL1 \in L1 BY <1>1, <1>2 DEF InactiveL1, L1
<1>4. New \in Paging32b BY <1>1, <1>3 DEF New, Paging32b
<1>5. Listed(New)
  <2>1. New.a = <<>> /\ \A k \in Index : New.v[k] = InactiveL1 BY DEF New
  <2>2. ~InactiveL1.active /\ InactiveL1.v4kB = NoTable BY DEF InactiveL1
  <2>3. \A k : ~Lists(New.a, k) BY <2>1 DEF Lists
  <2>4. Distinct(New.a) BY <2>1 DEF Distinct
  <2>5. \A k \in Index : ~New.v[k].active /\ New.v[k].v4kB = NoTable BY <2>1, <2>2
  <2> QED BY <2>3, <2>4, <2>5 DEF Listed
<1>6. <<>> \in Seq(Part) OBVIOUS
<1>7. TypeOK BY <1>1, <1>4, <1>6, PagingAssumption DEF Init, TypeOK
<1> QED BY <1>5, <1>7 DEF Init, PagerInv, PagerOK, PagerFresh

\* The inductive invariant: types, the list of actives and the range of tables,
\* after every step of the guest and of the host.
THEOREM PagerAlways == Spec => []PagerInv
<1>1. PagerInv /\ [Next]_vars => PagerInv' BY PagerStep
<1> QED BY <1>1, PagerInit, PTL DEF Spec

\* The properties of the runs, in the terms of the lemmas.
LEMMA Restated ==
  /\ ActivesListed <=> Listed(p32)
  /\ TablesInRange <=> (pg => p32.base_addr = cr3 /\ InRange(p32, cr3)
                              /\ \A i \in Index : p32.v[i].active /\ ~p32.v[i].error =>
                                   InRange(p32, p32.v[i].base_addr))
  /\ TablesPrivate <=> Private(mem, cr3)
<1>1. ActivesListed <=> Listed(p32) BY DEF ActivesListed, Listed, Distinct, Lists
<1>2. TablesPrivate <=> Private(mem, cr3) BY DEF TablesPrivate, Private
<1> QED BY <1>1, <1>2 DEF TablesInRange

\* The pager never outgrows its arrays, whatever the guest does with its tables.
THEOREM PagerTyped == Spec => []TypeOK
<1>1. PagerInv => TypeOK BY DEF PagerInv
<1> QED BY <1>1, PagerAlways, PTL

\* Whatever the guest writes, each active entry of the directory is in the list
\* of active entries once.
THEOREM ActivesAlwaysListed == Spec => []ActivesListed
<1>1. PagerInv => ActivesListed BY Restated DEF PagerInv, PagerOK
<1> QED BY <1>1, PagerAlways, PTL

\* Whatever the guest writes, no table the pager keeps is out of the range of
\* addresses in which stores are looked at.
THEOREM TablesAlwaysInRange == Spec => []TablesInRange
<1>1. PagerInv => TablesInRange BY Restated DEF PagerInv, PagerOK, Ranged
<1> QED BY <1>1, PagerAlways, PTL

\* As long as the guest keeps its tables private, what the pager keeps is what
\* the tables in memory say, with no INVLPG.
THEOREM TlbAlwaysFresh == Spec /\ []TablesPrivate => []TlbFresh
<1>1. PagerInv /\ PagerFresh /\ TablesPrivate /\ [Next]_vars => PagerInv' /\ PagerFresh'
  BY PagerStep, Restated
<1>2. PagerInv /\ PagerFresh => TlbFresh
  <2> SUFFICES ASSUME PagerInv, PagerFresh, pg, NEW i \in Index, NEW j \in Index
               PROVE  FreshL1(i) /\ FreshL2(i, j)
    BY DEF TlbFresh
  <2>1. p32.base_addr = cr3 BY DEF PagerInv, PagerOK
  <2>2. FreshEntry(p32, mem, i) /\ FreshPage(p32, mem, i, j) BY DEF PagerFresh, Fresh
  <2> QED BY <2>1, <2>2 DEF FreshEntry, FreshPage, FreshL1, FreshL2
<1> QED BY <1>1, <1>2, PagerInit, PTL DEF Spec

-----------------------------------------------------------------------------
(***************************************************************************)
(* Refinement.                                                             *)
(***************************************************************************)

\* The nested conditions of paging_32b_check_access are the rule.
LEMMA CheckAccessIsTheRule ==
  ASSUME NEW part \in Part, NEW svm_addr \in BOOLEAN, NEW writing_allowed \in BOOLEAN
  PROVE  CheckAccess(part.ctx, svm_addr, writing_allowed, part.kind)
         <=> Memory!Allowed(part, ~svm_addr, writing_allowed)
<1> DEFINE ctx == part.ctx
<1>1. ctx \in Context /\ part.kind \in AccessKind BY DEF Part
<1> HIDE DEF ctx
<1>2. CASE part.kind = "fetch"
  BY <1>1, <1>2 DEF CheckAccess, Memory!Allowed, Memory!Supervisor, ctx
<1>3. CASE part.kind = "read"
  BY <1>1, <1>3 DEF CheckAccess, Memory!Allowed, Memory!Supervisor, ctx
<1>4. CASE part.kind = "write"
  BY <1>1, <1>4 DEF CheckAccess, Memory!Allowed, Memory!Supervisor, ctx
<1> QED BY <1>1, <1>2, <1>3, <1>4 DEF AccessKind

LEMMA SameParts == \A op \in Operands : Parts(op) = Memory!Parts(op)
BY DEF Parts, Memory!Parts, Following, Memory!Following, Index, Memory!Index

LEMMA SameReplies ==
  /\ Done = Memory!Done /\ GeneralProtection = Memory!GeneralProtection
  /\ \A w : Reached(w) = Memory!Reached(w)
  /\ \A part, b : PageFault(part, b) = Memory!PageFault(part, b)
BY DEF Done, Memory!Done, GeneralProtection, Memory!GeneralProtection, Reached,
       Memory!Reached, PageFault, Memory!PageFault, Supervisor, Memory!Supervisor

\* The answer of a walked, fresh pager is that of a walk of the tables.
LEMMA TranslatedIsWalk ==
  ASSUME NEW p, NEW part \in Part, mem \in Memories, cr3 \in Frame,
         Walked(p32, mem, part.l, p), p.base_addr = cr3, Fresh(p, mem)
  PROVE  Translated(p, part) = Memory!Walk(part)
<1> DEFINE i == part.l[1]
           j == part.l[2]
           o == part.l[3]
           d == p.v[i]
           t == d.v4kB[j]
           pde == mem[<<cr3, i>>]
           pte == mem[<<pde.frame, j>>]
<1>1. i \in Index /\ j \in Index BY DEF Part, Linear
<1>2. FreshEntry(p, mem, i) /\ FreshPage(p, mem, i, j) BY <1>1 DEF Fresh
<1>3. d.active /\ (~d.error => t.active) BY DEF Walked
<1>4. d.error <=> ~pde.p BY <1>2, <1>3 DEF FreshEntry
<1>5. Translated(p, part) =
        IF d.error \/ t.error THEN PageFault(part, FALSE)
        ELSE IF CheckAccess(part.ctx, t.svm_addr, t.writing_allowed, part.kind)
             THEN Reached(<<t.base_addr, o>>) ELSE PageFault(part, TRUE)
  BY DEF Translated
<1>6. Memory!Walk(part) =
        IF ~pde.p \/ ~pte.p THEN PageFault(part, FALSE)
        ELSE IF Memory!Allowed(part, pde.us /\ pte.us, pde.rw /\ pte.rw)
             THEN Reached(<<pte.frame, o>>) ELSE PageFault(part, TRUE)
  BY SameReplies DEF Memory!Walk, Memory!Pde, Memory!Pte
<1>7. /\ pde.p \in BOOLEAN /\ pde.us \in BOOLEAN /\ pde.rw \in BOOLEAN
      /\ pde.frame \in Frame
  BY <1>1 DEF Memories, Phys, Entry
<1>8. pte.p \in BOOLEAN /\ pte.us \in BOOLEAN /\ pte.rw \in BOOLEAN
  BY <1>1, <1>7 DEF Memories, Phys, Entry
<1>9. /\ d.svm_addr \in BOOLEAN /\ d.writing_allowed \in BOOLEAN /\ t.error \in BOOLEAN
      /\ t.svm_addr \in BOOLEAN /\ t.writing_allowed \in BOOLEAN
  BY <1>1 DEF Walked, Paging32b, L1, L2
<1>10. CASE d.error BY <1>4, <1>5, <1>6, <1>10
<1>11. CASE ~d.error
  <2>1. /\ pde.p /\ d.base_addr = pde.frame
        /\ d.svm_addr <=> ~pde.us
        /\ d.writing_allowed <=> pde.rw
    BY <1>2, <1>3, <1>4, <1>11 DEF FreshEntry
  <2>2. /\ t.error <=> ~pte.p
        /\ pte.p => /\ t.svm_addr <=> ~pte.us \/ d.svm_addr
                    /\ t.writing_allowed <=> pte.rw /\ d.writing_allowed
                    /\ t.base_addr = pte.frame
    BY <1>2, <1>3, <1>11, <2>1 DEF FreshPage
  <2> HIDE DEF d, t, pde, pte, o
  <2>3. CASE t.error BY <1>5, <1>6, <2>2, <2>3
  <2>4. CASE ~t.error
    <3>1. (~t.svm_addr) = (pde.us /\ pte.us) /\ t.writing_allowed = (pde.rw /\ pte.rw)
      BY <1>7, <1>8, <1>9, <2>1, <2>2, <2>4
    <3>2. CheckAccess(part.ctx, t.svm_addr, t.writing_allowed, part.kind)
          <=> Memory!Allowed(part, pde.us /\ pte.us, pde.rw /\ pte.rw)
      BY <1>9, <3>1, CheckAccessIsTheRule
    <3> QED BY <1>5, <1>6, <1>11, <2>1, <2>2, <2>4, <3>2
  <2> QED BY <2>3, <2>4
<1> QED BY <1>10, <1>11

LEMMA SamePlaces ==
  /\ Frame = Memory!Frame /\ Index = Memory!Index /\ Phys = Memory!Phys
  /\ \A l : Flat(l) = Memory!Flat(l)
  /\ \A m, w : Storable(m, w) = Memory!Storable(m, w)
  /\ Linear = Memory!Linear
BY DEF Frame, Memory!Frame, Index, Memory!Index, Phys, Memory!Phys, Flat, Memory!Flat,
       Storable, Memory!Storable, Linear, Memory!Linear

LEMMA StoreRefines ==
  ASSUME NEW part, NEW p, NEW w, Store(part, p, w)
  PROVE  IF part.kind = "write"
         THEN \E e \in Memory!Storable(mem, w) : mem' = [mem EXCEPT ![w] = e]
         ELSE UNCHANGED mem
BY SamePlaces DEF Store

LEMMA DoRefines ==
  ASSUME PagerInv, PagerFresh, NEW parts \in Seq(Part), parts # <<>>, Do(parts)
  PROVE  Memory!Do(parts)
<1> DEFINE part == Head(parts)
<1>1. part \in Part /\ part.l \in Linear
  <2>1. part \in Part OBVIOUS
  <2> QED BY <2>1 DEF Part
<1>2. /\ mem \in Memories /\ p32 \in Paging32b /\ Listed(p32) /\ cr3 \in Frame
      /\ pg => p32.base_addr = cr3 /\ Ranged(p32) /\ Fresh(p32, mem)
  BY DEF PagerInv, PagerOK, PagerFresh, TypeOK, Memories
<1>3. CASE DoPaged(parts)
  <2> DEFINE p == Activated(p32, mem, part.l)
             r == Translated(p, part)
  <2>1. /\ pg /\ reply' = r /\ cr3' = cr3 /\ pg' = pg
        /\ IF r.fault = "PF"
           THEN cr2' = part.l /\ todo' = <<>> /\ p32' = p /\ UNCHANGED mem
           ELSE todo' = Tail(parts) /\ Store(part, p, r.at) /\ UNCHANGED cr2
    BY <1>3 DEF DoPaged
  <2>2. Walked(p32, mem, part.l, p) BY <1>1, <1>2, <2>1, ActivatedKeeps
  <2> HIDE DEF p, part
  <2>3. p.base_addr = cr3 /\ Fresh(p, mem) BY <1>2, <2>1, <2>2 DEF Walked
  <2>4. r = Memory!Walk(part) BY <1>1, <1>2, <2>2, <2>3, TranslatedIsWalk
  <2>5. Memory!Answer(part) = r BY <2>1, <2>4 DEF Memory!Answer
  <2> HIDE DEF r
  <2>6. CASE r.fault = "PF"
    BY <2>1, <2>5, <2>6 DEF Memory!Do, part
  <2>7. CASE r.fault # "PF"
    <3>1. IF part.kind = "write"
          THEN \E e \in Memory!Storable(mem, r.at) : mem' = [mem EXCEPT ![r.at] = e]
          ELSE UNCHANGED mem
      BY <2>1, <2>7, StoreRefines
    <3> QED BY <2>1, <2>5, <2>7, <3>1 DEF Memory!Do, part
  <2> QED BY <2>6, <2>7
<1>4. CASE DoFlat(parts)
  <2> DEFINE w == Flat(part.l)
  <2>1. /\ ~pg /\ w \in Phys /\ reply' = Reached(w) /\ todo' = Tail(parts)
        /\ Store(part, p32, w) /\ UNCHANGED <<cr2, cr3, pg>>
    BY <1>4 DEF DoFlat
  <2>2. /\ Memory!Flat(part.l) = w /\ w \in Memory!Phys
        /\ Memory!Reached(w) = Reached(w)
    BY <2>1, SamePlaces, SameReplies
  <2> HIDE DEF w, part
  <2>3. Memory!Answer(part) = Reached(w) BY <2>1, <2>2 DEF Memory!Answer
  <2>4. Reached(w).fault # "PF" /\ Reached(w).at = w BY DEF Reached
  <2>5. IF part.kind = "write"
        THEN \E e \in Memory!Storable(mem, w) : mem' = [mem EXCEPT ![w] = e]
        ELSE UNCHANGED mem
    BY <2>1, StoreRefines
  <2> QED BY <2>1, <2>2, <2>3, <2>4, <2>5 DEF Memory!Do, part
<1> QED BY <1>3, <1>4 DEF Do

LEMMA TraceRefines ==
  ASSUME PagerInv, PagerFresh, NEW op \in Operands, Trace(op)
  PROVE  Memory!Trace(op)
<1> DEFINE part == [l |-> op.l, kind |-> "fetch", ctx |-> op.ctx]
           p == Activated(p32, mem, op.l)
<1>1. op.l \in Linear /\ op.ctx \in Context
  <2>1. op \in Operand BY PagingAssumption
  <2> QED BY <2>1 DEF Operand
<1>2. part \in Part /\ part.l = op.l BY <1>1 DEF Part, AccessKind
<1>3. /\ mem \in Memories /\ p32 \in Paging32b /\ Listed(p32) /\ cr3 \in Frame
      /\ pg => p32.base_addr = cr3 /\ Ranged(p32) /\ Fresh(p32, mem)
  BY DEF PagerInv, PagerOK, PagerFresh, TypeOK, Memories
<1>4. /\ todo = <<>> /\ UNCHANGED <<mem, cr3, pg, reply, todo>>
      /\ cr2' = IF pg /\ Translated(p, part).fault = "PF" THEN op.l ELSE cr2
  BY DEF Trace
<1> HIDE DEF part
<1>5. CASE pg
  <2>1. Walked(p32, mem, part.l, p) BY <1>1, <1>2, <1>3, <1>5, ActivatedKeeps
  <2>2. p.base_addr = cr3 /\ Fresh(p, mem) BY <1>3, <1>5, <2>1 DEF Walked
  <2>3. Translated(p, part) = Memory!Walk(part)
    BY <1>2, <1>3, <2>1, <2>2, TranslatedIsWalk
  <2>4. Memory!Answer(part) = Translated(p, part) BY <1>5, <2>3 DEF Memory!Answer
  <2> QED BY <1>4, <1>5, <2>4 DEF Memory!Trace, part
<1>6. CASE ~pg
  <2>1. Memory!Answer(part).fault # "PF"
    BY <1>6 DEF Memory!Answer, Memory!Reached
  <2> QED BY <1>4, <1>6, <2>1 DEF Memory!Trace, part
<1> QED BY <1>5, <1>6

LEMMA StepRefines ==
  ASSUME PagerInv, PagerFresh, [Next]_vars
  PROVE  [Memory!Next]_Memory!vars
<1> USE SameReplies
<1>1. ASSUME NEW op \in Operands, Access(op) PROVE Memory!Access(op)
  <2>1. Parts(op) \in Seq(Part) /\ Parts(op) # <<>> BY PartsType
  <2>2. Parts(op) = Memory!Parts(op) BY SameParts
  <2>3. Memory!Do(Parts(op)) BY <1>1, <2>1, DoRefines DEF Access
  <2> QED BY <1>1, <2>2, <2>3 DEF Access, Memory!Access
<1>2. ASSUME Continue PROVE Memory!Continue
  <2>1. todo \in Seq(Part) BY DEF PagerInv, TypeOK
  <2>2. Memory!Do(todo) BY <1>2, <2>1, DoRefines DEF Continue
  <2> QED BY <1>2, <2>2 DEF Continue, Memory!Continue
<1>3. ASSUME NEW op \in Operands, Trace(op) PROVE Memory!Trace(op)
  BY <1>3, TraceRefines
<1>4. ASSUME NEW ctx \in Contexts, NEW f \in Directories, MovCR3(f, ctx)
      PROVE  Memory!MovCR3(f, ctx)
  BY <1>4 DEF MovCR3, Privileged, Memory!MovCR3, Memory!Privileged
<1>5. ASSUME NEW ctx \in Contexts, NEW on \in BOOLEAN, MovCR0(on, ctx)
      PROVE  Memory!MovCR0(on, ctx)
  BY <1>5 DEF MovCR0, Privileged, Memory!MovCR0, Memory!Privileged
<1>6. ASSUME NEW ctx \in Contexts, Invlpg(ctx) PROVE Memory!Invlpg(ctx)
  BY <1>6 DEF Invlpg, Privileged, Memory!Invlpg, Memory!Privileged
<1>7. ASSUME NEW f \in Directories, SwitchTask(f) PROVE Memory!SwitchTask(f)
  BY <1>7 DEF SwitchTask, Memory!SwitchTask
<1>8. ASSUME Reset PROVE Memory!Reset BY <1>8 DEF Reset, Memory!Reset
<1>9. ASSUME UNCHANGED vars PROVE UNCHANGED Memory!vars
  BY <1>9 DEF vars, Memory!vars
<1> QED BY <1>1, <1>2, <1>3, <1>4, <1>5, <1>6, <1>7, <1>8, <1>9 DEF Next, Memory!Next

\* A guest with private tables cannot tell the pager from a walk of its tables on
\* every access, without the cache, addr_min and addr_max, or INVLPG.
THEOREM PagerImplementsMemory == Spec /\ []TablesPrivate => ImplementsPagedMemory
<1>1. Init => Memory!Init BY SameReplies DEF Init, Memory!Init
<1>2. PagerInv /\ PagerFresh /\ TablesPrivate /\ [Next]_vars => PagerInv' /\ PagerFresh'
  BY PagerStep, Restated
<1>3. PagerInv /\ PagerFresh /\ [Next]_vars => [Memory!Next]_Memory!vars
  BY StepRefines
<1> QED BY <1>1, <1>2, <1>3, PagerInit, PTL
     DEF Spec, Memory!Spec, ImplementsPagedMemory

=============================================================================
