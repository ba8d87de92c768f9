---------------------------- MODULE StatusListProofs ----------------------------
(***************************************************************************)
(* The walk through the list of requests, for any number of documents, any *)
(* page size and any inserts: every request that was there when the walk   *)
(* began is shown, and a walk that nothing disturbs shows just those, each *)
(* once, newest first.                                                     *)
(***************************************************************************)
EXTENDS StatusList, FiniteSetTheorems, SequenceTheorems, TLAPS

ListSpec == ListInit /\ [][ListNext]_listVars

-------------------------------------------------------------------------------
Smaller(i, j) == IF i < j THEN i ELSE j

\* The key's requests that are listed before d.
Newer(d) == {e \in Own : e.created_at > d.created_at}

Shown(d) == \E i \in DOMAIN walk.seen : walk.seen[i] = d

Walking == walk.step # "idle"

ListTypeOK ==
    /\ IsFiniteSet(collection)
    /\ \A d \in collection : d.created_at \in Nat
    /\ Walking =>
          /\ walk.step \in {"ask", "counted", "done"}
          /\ {"step", "size", "page", "base", "seen", "total", "quiet", "exact"}
                \subseteq DOMAIN walk
          /\ walk.size \in Nat \ {0} /\ walk.page \in Nat \ {0}
          /\ walk.base \subseteq Own
          /\ walk.seen \in Seq(Own)
          /\ walk.exact \in BOOLEAN
          /\ walk.quiet \in BOOLEAN

\* The pages still to come begin before every request that was not shown: at least as many
\* newer ones as the pages so far had room for precede it.
Covered ==
    Walking => \A d \in walk.base :
        Untied(d, Own) =>
            \/ Shown(d)
            \/ walk.step # "done" /\ Cardinality(Newer(d)) >= Skip(walk.page, PageSize(walk.size))

\* What an undisturbed walk has seen is the beginning of the list.
Undisturbed ==
    Walking /\ walk.quiet =>
        /\ Own = walk.base
        /\ walk.step = "counted" => walk.total = Cardinality(Own)
        /\ walk.exact
        /\ (\A d \in walk.base : Untied(d, walk.base)) =>
              IF walk.step = "done" THEN walk.seen \in NewestFirst(walk.base)
              ELSE \A order \in NewestFirst(walk.base) :
                      walk.seen = SubSeq(order, 1, Smaller(Skip(walk.page, PageSize(walk.size)),
                                                           Len(order)))

ListInv == ListTypeOK /\ Covered /\ Undisturbed

-------------------------------------------------------------------------------
(***************************************************************************)
(* The order of a find, and where a document stands in it.                 *)
(***************************************************************************)

LEMMA OrderOfAll ==
    ASSUME NEW S, IsFiniteSet(S), NEW order \in NewestFirst(S)
    PROVE  /\ Len(order) = Cardinality(S) /\ Len(order) \in Nat
           /\ order \in [1..Len(order) -> S] /\ order \in Seq(S)
           /\ \A i, j \in 1..Len(order) : i # j => order[i] # order[j]
           /\ \A i, j \in 1..Len(order) : i < j => order[i].created_at >= order[j].created_at
           /\ \A d \in S : \E p \in 1..Len(order) : order[p] = d
<1>. DEFINE n == Cardinality(S)
<1>1. n \in Nat
  BY FS_CardinalityType
<1>2. /\ order \in [1..n -> S]
      /\ \A i, j \in 1..n : i # j => order[i] # order[j]
  BY DEF NewestFirst, SetToSeqs
<1>3. order \in Seq(S) /\ Len(order) = n
  BY <1>1, <1>2
<1>4. \A i, j \in 1..Len(order) : i < j => order[i].created_at >= order[j].created_at
  BY DEF NewestFirst
<1>5. order \in Injection(1..n, S)
  BY <1>2 DEF Injection, IsInjective
<1>6. IsFiniteSet(1..n) /\ Cardinality(1..n) = n
  BY <1>1, FS_Interval
<1>7. order \in Surjection(1..n, S)
  BY <1>5, <1>6, FS_Injection
<1>8. \A d \in S : \E p \in 1..n : order[p] = d
  BY <1>7 DEF Surjection
<1>. QED
  BY <1>1, <1>2, <1>3, <1>4, <1>8

\* Just the newer documents stand before one that is untied.
LEMMA PositionCounts ==
    ASSUME NEW S, IsFiniteSet(S), \A d \in S : d.created_at \in Nat,
           NEW order \in NewestFirst(S), NEW p \in 1..Len(order), Untied(order[p], S)
    PROVE  Cardinality({e \in S : e.created_at > order[p].created_at}) = p - 1
<1>. DEFINE N == {e \in S : e.created_at > order[p].created_at}
            f == [i \in 1..(p - 1) |-> order[i]]
<1>1. /\ Len(order) \in Nat /\ order \in [1..Len(order) -> S]
      /\ \A i, j \in 1..Len(order) : i # j => order[i] # order[j]
      /\ \A i, j \in 1..Len(order) : i < j => order[i].created_at >= order[j].created_at
      /\ \A d \in S : \E q \in 1..Len(order) : order[q] = d
  BY OrderOfAll
<1>2. p - 1 \in Nat /\ 1..(p - 1) \subseteq 1..Len(order)
  BY <1>1
<1>3. ASSUME NEW i \in 1..(p - 1) PROVE order[i] \in N
  <2>1. order[i] \in S /\ order[p] \in S /\ order[i] # order[p]
        /\ order[i].created_at >= order[p].created_at
    BY <1>1, <1>2
  <2>2. order[i].created_at # order[p].created_at
    BY <2>1 DEF Untied
  <2>. QED
    BY <2>1, <2>2
<1>4. ASSUME NEW e \in N PROVE \E i \in 1..(p - 1) : order[i] = e
  <2>1. PICK i \in 1..Len(order) : order[i] = e
    BY <1>1
  <2>2. order[p] \in S /\ e \in S
    BY <1>1
  <2>3. i < p
    BY <1>1, <2>1, <2>2
  <2>. QED
    BY <2>1, <2>3
<1>5. f \in Bijection(1..(p - 1), N)
  BY <1>1, <1>2, <1>3, <1>4 DEF Bijection, Injection, Surjection, IsInjective
<1>6. ExistsBijection(1..(p - 1), N)
  BY <1>5 DEF ExistsBijection
<1>. QED
  BY <1>2, <1>6, FS_CountingElements

\* Where nothing is tied there is one order.
LEMMA OneOrder ==
    ASSUME NEW S, IsFiniteSet(S), \A d \in S : d.created_at \in Nat, \A d \in S : Untied(d, S),
           NEW order \in NewestFirst(S), NEW other \in NewestFirst(S)
    PROVE  order = other
<1>1. /\ Len(order) = Len(other) /\ Len(order) \in Nat
      /\ order \in Seq(S) /\ other \in Seq(S)
      /\ order \in [1..Len(order) -> S]
      /\ \A d \in S : \E q \in 1..Len(other) : other[q] = d
  BY OrderOfAll
<1>2. ASSUME NEW p \in 1..Len(order) PROVE order[p] = other[p]
  <2>1. PICK q \in 1..Len(other) : other[q] = order[p]
    BY <1>1
  <2>2. order[p] \in S
    BY <1>1
  <2>3. Cardinality({e \in S : e.created_at > order[p].created_at}) = p - 1
    BY <2>2, PositionCounts
  <2>4. Cardinality({e \in S : e.created_at > other[q].created_at}) = q - 1
    BY <2>1, <2>2, PositionCounts
  <2>. QED
    BY <1>1, <2>1, <2>3, <2>4
<1>. QED
  BY <1>1, <1>2, SeqEqual

-------------------------------------------------------------------------------
(***************************************************************************)
(* Pages.                                                                  *)
(***************************************************************************)

LEMMA Skipped ==
    ASSUME NEW page \in Nat \ {0}, NEW size \in Nat \ {0}
    PROVE  /\ Skip(page, size) \in Nat
           /\ Skip(page + 1, size) = Skip(page, size) + size
           /\ Skip(1, size) = 0
<1>1. /\ (page - 1) * size \in Nat /\ ((page + 1) - 1) * size = (page - 1) * size + size
      /\ (1 - 1) * size = 0
  OBVIOUS
<1>. QED
  BY <1>1 DEF Skip

\* total_pages counts the pages that begin before the end of the list.
LEMMA PagesBegin ==
    ASSUME NEW page \in Nat \ {0}, NEW size \in Nat \ {0}, NEW count \in Nat
    PROVE  Skip(page, size) < count <=> page <= TotalPages(count, size)
<1>. DEFINE m == count + size - 1
            q == m \div size
<1>1. m \in Nat
  OBVIOUS
<1>2. q \in Nat /\ q * size <= m /\ m < q * size + size
  <2>. HIDE DEF m
  <2>. QED
    BY <1>1
<1>3. (page - 1) * size \in Nat /\ page * size = (page - 1) * size + size
  OBVIOUS
<1>. HIDE DEF q
<1>4. page <= q => page * size <= q * size
  BY <1>2
<1>5. page >= q + 1 => page * size >= q * size + size
  BY <1>2
<1>6. q * size \in Nat /\ page * size \in Nat
  BY <1>2
<1>. QED
  BY <1>1, <1>2, <1>3, <1>4, <1>5, <1>6 DEF Skip, TotalPages, q

LEMMA PageContents ==
    ASSUME NEW S, NEW order \in Seq(S), NEW page \in Nat \ {0}, NEW size \in Nat \ {0}
    PROVE  LET skip == Skip(page, size)
               items == PageOf(order, page, size)
           IN /\ items \in Seq(S)
              /\ Len(items) = IF skip + size <= Len(order) THEN size
                              ELSE IF skip < Len(order) THEN Len(order) - skip ELSE 0
              /\ \A i \in 1..Len(items) : items[i] = order[skip + i]
              /\ items = <<>> <=> ~(skip < Len(order))
<1>. DEFINE skip == Skip(page, size)
            items == PageOf(order, page, size)
            end == IF skip + size < Len(order) THEN skip + size ELSE Len(order)
<1>1. skip \in Nat /\ Len(order) \in Nat /\ end \in Nat
  <2>1. skip \in Nat /\ Len(order) \in Nat
    BY Skipped, LenProperties
  <2>. HIDE DEF skip
  <2>. QED
    BY <2>1
<1>2. \A i \in (skip + 1)..end : order[i] \in S
  BY <1>1
<1>3. items = SubSeq(order, skip + 1, end)
  BY DEF PageOf
<1>. HIDE DEF skip, items
<1>4. /\ items \in Seq(S)
      /\ Len(items) = IF skip + 1 <= end THEN end - (skip + 1) + 1 ELSE 0
      /\ \A i \in 1..(end - (skip + 1) + 1) : items[i] = order[(skip + 1) + i - 1]
  <2>. HIDE DEF end
  <2>1. skip + 1 \in Int /\ end \in Int
    BY <1>1
  <2>. QED
    BY <1>2, <1>3, <2>1, SubSeqProperties
<1>5. Len(items) = IF skip + size <= Len(order) THEN size
                   ELSE IF skip < Len(order) THEN Len(order) - skip ELSE 0
  BY <1>1, <1>4
<1>6. ASSUME NEW i \in 1..Len(items) PROVE items[i] = order[skip + i]
  <2>1. i \in 1..(end - (skip + 1) + 1) /\ (skip + 1) + i - 1 = skip + i
    BY <1>1, <1>4
  <2>2. items[i] = order[(skip + 1) + i - 1]
    BY <1>4, <2>1
  <2>. QED
    BY <2>1, <2>2
<1>7. items = <<>> <=> Len(items) = 0
  BY <1>4, EmptySeq
<1>8. Len(items) = 0 <=> ~(skip < Len(order))
  BY <1>1, <1>5
<1>. QED
  BY <1>4, <1>5, <1>6, <1>7, <1>8 DEF skip, items

\* A page continues what the pages before it showed.
LEMMA PageContinues ==
    ASSUME NEW S, NEW order \in Seq(S), NEW page \in Nat \ {0}, NEW size \in Nat \ {0}
    PROVE  SubSeq(order, 1, Smaller(Skip(page, size), Len(order))) \o PageOf(order, page, size)
             = SubSeq(order, 1, Smaller(Skip(page + 1, size), Len(order)))
<1>. DEFINE skip == Skip(page, size)
            n == Len(order)
            end == IF skip + size < n THEN skip + size ELSE n
<1>1. /\ skip \in Nat /\ n \in Nat /\ end \in Nat
      /\ Skip(page + 1, size) = skip + size
  <2>1. skip \in Nat /\ n \in Nat /\ Skip(page + 1, size) = skip + size
    BY Skipped, LenProperties
  <2>. HIDE DEF skip, n
  <2>. QED
    BY <2>1
<1>2. PageOf(order, page, size) = SubSeq(order, skip + 1, end)
  BY DEF PageOf
<1>3. Smaller(Skip(page + 1, size), n) = end
  BY <1>1 DEF Smaller
<1>. HIDE DEF skip, n
<1>4. CASE skip <= n
  <2>1. Smaller(skip, n) = skip
    BY <1>1, <1>4 DEF Smaller
  <2>2. 1 \in 1..(n + 1) /\ skip \in (1 - 1)..n /\ end \in skip..n
    BY <1>1, <1>4
  <2>. HIDE DEF end
  <2>3. SubSeq(order, 1, skip) \o SubSeq(order, skip + 1, end) = SubSeq(order, 1, end)
    BY <2>2, ConcatAdjacentSubSeq DEF n
  <2>. QED
    BY <1>2, <1>3, <2>1, <2>3 DEF skip, n
<1>5. CASE n < skip
  <2>1. Smaller(skip, n) = n /\ end = n /\ n < skip + 1
    BY <1>1, <1>5 DEF Smaller
  <2>2. SubSeq(order, skip + 1, n) = <<>>
    BY <1>1, <2>1, SubSeqEmpty
  <2>3. SubSeq(order, 1, n) = order
    BY SubSeqFull DEF n
  <2>4. order \o <<>> = order
    BY ConcatEmptySeq
  <2>. QED
    BY <1>2, <1>3, <2>1, <2>2, <2>3, <2>4 DEF skip, n
<1>6. skip <= n \/ n < skip
  BY <1>1
<1>. QED
  BY <1>4, <1>5, <1>6, Zenon

-------------------------------------------------------------------------------
(***************************************************************************)
(* What each step does to a walk.                                          *)
(***************************************************************************)

\* Nothing of a walk changes but its step and what the client was told of the total.
Keeps == /\ DOMAIN walk \subseteq DOMAIN walk'
         /\ walk'.size = walk.size /\ walk'.page = walk.page /\ walk'.base = walk.base
         /\ walk'.seen = walk.seen /\ walk'.exact = walk.exact

LEMMA OwnIsFinite == ListTypeOK => IsFiniteSet(Own) /\ \A d \in Own : d.created_at \in Nat
BY FS_Subset DEF ListTypeOK, Own

LEMMA SizeOfPages == \A size \in Nat \ {0} : PageSize(size) \in Nat \ {0}
BY StatusListAssumption DEF PageSize

LEMMA StartEffect ==
    ASSUME StartWalk
    PROVE  \E size \in Nat \ {0} :
              /\ walk' = [step |-> "ask", size |-> size, page |-> 1, base |-> Own, seen |-> <<>>,
                          total |-> 0, quiet |-> TRUE, exact |-> TRUE]
              /\ collection' = collection
<1>1. \A param \in PageSizeParams : parseIntQuery(param, DefaultPageSize) \in Nat \ {0}
  BY StatusListAssumption DEF parseIntQuery
<1>. QED
  BY <1>1 DEF StartWalk

LEMMA CountEffect ==
    ASSUME ListTypeOK, Count
    PROVE  /\ Walking /\ Keeps /\ walk'.quiet = walk.quiet /\ collection' = collection
           /\ walk.step = "ask" /\ walk'.step = "counted" /\ walk'.total = Cardinality(Own)
BY DEF Count, Walking, Keeps, ListTypeOK

LEMMA FailEffect ==
    ASSUME ListTypeOK, ListFails
    PROVE  /\ Walking /\ Keeps /\ walk'.quiet = walk.quiet /\ collection' = collection
           /\ walk.step \in {"ask", "counted"} /\ walk'.step = "ask"
BY DEF ListFails, Walking, Keeps, ListTypeOK

LEMMA FindEffect ==
    ASSUME ListTypeOK, Find
    PROVE  /\ Walking /\ walk.step = "counted" /\ collection' = collection
           /\ DOMAIN walk' = DOMAIN walk
           /\ walk'.size = walk.size /\ walk'.page = walk.page + 1
           /\ walk'.base = walk.base /\ walk'.quiet = walk.quiet
           /\ \E order \in NewestFirst(Own) :
                 LET size  == PageSize(walk.size)
                     items == PageOf(order, walk.page, size)
                 IN /\ walk'.step = IF Len(items) < size THEN "done" ELSE "ask"
                    /\ walk'.seen = walk.seen \o items
                    /\ walk'.exact = (walk.exact /\ (items # <<>>
                                         <=> walk.page <= TotalPages(walk.total, size)))
<1>1. Walking /\ walk.step = "counted" /\ collection' = collection
  BY DEF Find, Walking
<1>2. ReportedSize(walk.size) = PageSize(walk.size)
  BY DEF ReportedSize, PageSize
<1>3. PICK order \in NewestFirst(Own) :
         LET size  == PageSize(walk.size)
             items == PageOf(order, walk.page, size)
         IN walk' = [walk EXCEPT !.step = IF Len(items) < size THEN "done" ELSE "ask",
                                 !.page = @ + 1,
                                 !.seen = @ \o items,
                                 !.exact = @ /\ (items # <<>>
                                                   <=> walk.page <= TotalPages(walk.total, size))]
  BY <1>2 DEF Find
<1>. DEFINE size  == PageSize(walk.size)
            items == PageOf(order, walk.page, size)
            step  == IF Len(items) < size THEN "done" ELSE "ask"
<1>4. PICK exact : /\ walk' = [walk EXCEPT !.step = step, !.page = walk.page + 1,
                                           !.seen = walk.seen \o items, !.exact = exact]
                   /\ exact = (walk.exact /\ (items # <<>>
                                  <=> walk.page <= TotalPages(walk.total, size)))
  BY <1>3
<1>5. {"step", "size", "page", "base", "seen", "quiet", "exact"} \subseteq DOMAIN walk
  BY <1>1 DEF ListTypeOK
<1>. HIDE DEF size, items, step
<1>6. /\ DOMAIN walk' = DOMAIN walk
      /\ walk'.step = step /\ walk'.page = walk.page + 1
      /\ walk'.seen = walk.seen \o items /\ walk'.exact = exact
      /\ walk'.size = walk.size /\ walk'.base = walk.base /\ walk'.quiet = walk.quiet
  BY <1>4, <1>5
<1>7. /\ walk'.step = IF Len(items) < size THEN "done" ELSE "ask"
      /\ walk'.exact = (walk.exact /\ (items # <<>> <=> walk.page <= TotalPages(walk.total, size)))
  BY <1>4, <1>6 DEF step
<1>8. \E o \in NewestFirst(Own) :
         LET t == PageSize(walk.size)
             i == PageOf(o, walk.page, t)
         IN /\ walk'.step = IF Len(i) < t THEN "done" ELSE "ask"
            /\ walk'.seen = walk.seen \o i
            /\ walk'.exact = (walk.exact /\ (i # <<>> <=> walk.page <= TotalPages(walk.total, t)))
  BY <1>6, <1>7 DEF size, items
<1>. QED
  BY <1>1, <1>6, <1>8

LEMMA InsertEffect ==
    ASSUME ListTypeOK, Insert
    PROVE  /\ IsFiniteSet(collection') /\ \A d \in collection' : d.created_at \in Nat
           /\ Own \subseteq Own'
           /\ walk.step # "done"
           /\ walk'.step = walk.step
           /\ Walking => Keeps /\ walk'.quiet \in BOOLEAN
           /\ Walking /\ walk'.quiet => Own' = Own /\ walk' = walk
<1>1. PICK key \in ApiKeys, at \in Instants :
         /\ collection' = collection \cup
              {[request_id |-> Cardinality(collection) + 1, api_key_id |-> key, created_at |-> at]}
         /\ walk' = IF walk.step \in {"ask", "counted"} /\ key = ListedKey
                    THEN [walk EXCEPT !.quiet = FALSE] ELSE walk
  BY DEF Insert
<1>2. walk.step # "done"
  BY DEF Insert
<1>3. IsFiniteSet(collection') /\ \A d \in collection' : d.created_at \in Nat
  <2>. DEFINE d == [request_id |-> Cardinality(collection) + 1, api_key_id |-> key, created_at |-> at]
  <2>1. d.created_at \in Nat
    BY StatusListAssumption
  <2>2. IsFiniteSet(collection) /\ collection' = collection \cup {d}
    BY <1>1 DEF ListTypeOK
  <2>. HIDE DEF d
  <2>. QED
    BY <2>1, <2>2, FS_AddElement DEF ListTypeOK
<1>4. Own \subseteq Own' /\ (key # ListedKey => Own' = Own)
  BY <1>1 DEF Own
<1>5. walk'.step = walk.step /\ (Walking => Keeps /\ walk'.quiet \in BOOLEAN)
  <2>1. CASE walk.step \in {"ask", "counted"} /\ key = ListedKey
    <3>1. Walking /\ walk' = [walk EXCEPT !.quiet = FALSE]
      BY <1>1, <2>1 DEF Walking
    <3>. QED
      BY <3>1 DEF ListTypeOK, Keeps
  <2>2. CASE ~(walk.step \in {"ask", "counted"} /\ key = ListedKey)
    <3>1. walk' = walk
      BY <1>1, <2>2
    <3>. QED
      BY <3>1 DEF ListTypeOK, Keeps
  <2>. QED
    BY <2>1, <2>2
<1>6. Walking /\ walk'.quiet => Own' = Own /\ walk' = walk
  BY <1>1, <1>2, <1>4 DEF ListTypeOK, Walking
<1>. QED
  BY <1>2, <1>3, <1>4, <1>5, <1>6

-------------------------------------------------------------------------------
LEMMA ListTypeStep == ListTypeOK /\ [ListNext]_listVars => ListTypeOK'
<1>. SUFFICES ASSUME ListTypeOK, [ListNext]_listVars PROVE ListTypeOK'
  OBVIOUS
<1>1. CASE StartWalk
  <2>1. PICK size \in Nat \ {0} :
           /\ walk' = [step |-> "ask", size |-> size, page |-> 1, base |-> Own, seen |-> <<>>,
                       total |-> 0, quiet |-> TRUE, exact |-> TRUE]
           /\ collection' = collection
    BY <1>1, StartEffect
  <2>2. Own' = Own /\ <<>> \in Seq(Own)
    BY <2>1 DEF Own
  <2>. QED
    BY <2>1, <2>2 DEF ListTypeOK, Walking
<1>2. CASE Count
  <2>1. Own' = Own
    BY <1>2, CountEffect DEF Own
  <2>. QED
    BY <1>2, <2>1, CountEffect DEF ListTypeOK, Walking, Keeps
<1>3. CASE ListFails
  <2>1. Own' = Own
    BY <1>3, FailEffect DEF Own
  <2>. QED
    BY <1>3, <2>1, FailEffect DEF ListTypeOK, Walking, Keeps
<1>4. CASE Find
  <2>1. Own' = Own
    BY <1>4, FindEffect DEF Own
  <2>2. PICK order \in NewestFirst(Own) :
           LET size  == PageSize(walk.size)
               items == PageOf(order, walk.page, size)
           IN /\ walk'.step = IF Len(items) < size THEN "done" ELSE "ask"
              /\ walk'.seen = walk.seen \o items
              /\ walk'.exact = (walk.exact /\ (items # <<>>
                                   <=> walk.page <= TotalPages(walk.total, size)))
    BY <1>4, FindEffect
  <2>3. Walking /\ walk.page \in Nat \ {0} /\ PageSize(walk.size) \in Nat \ {0}
    BY <1>4, FindEffect, SizeOfPages DEF ListTypeOK
  <2>4. order \in Seq(Own)
    BY OwnIsFinite, OrderOfAll
  <2>5. PageOf(order, walk.page, PageSize(walk.size)) \in Seq(Own)
    BY <2>3, <2>4, PageContents
  <2>6. walk'.seen \in Seq(Own)
    BY <2>2, <2>3, <2>5, ConcatProperties DEF ListTypeOK
  <2>7. walk'.exact \in BOOLEAN /\ walk'.step \in {"done", "ask"}
    BY <2>2
  <2>. QED
    <3>1. /\ collection' = collection /\ DOMAIN walk' = DOMAIN walk
          /\ walk'.size = walk.size /\ walk'.page = walk.page + 1
          /\ walk'.base = walk.base /\ walk'.quiet = walk.quiet
      BY <1>4, FindEffect
    <3>. QED
      BY <2>1, <2>3, <2>6, <2>7, <3>1 DEF ListTypeOK
<1>5. CASE Insert
  <2>1. CASE Walking
    <3>1. walk.seen \in Seq(Own')
      BY <1>5, <2>1, InsertEffect, SeqMonotonic DEF ListTypeOK
    <3>. QED
      BY <1>5, <2>1, <3>1, InsertEffect DEF ListTypeOK, Walking, Keeps
  <2>2. CASE ~Walking
    BY <1>5, <2>2, InsertEffect DEF ListTypeOK, Walking
  <2>. QED
    BY <2>1, <2>2
<1>6. CASE UNCHANGED listVars
  BY <1>6 DEF listVars, ListTypeOK, Walking, Own
<1>. QED
  BY <1>1, <1>2, <1>3, <1>4, <1>5, <1>6 DEF ListNext

-------------------------------------------------------------------------------
\* More documents put more before one that is still untied.
LEMMA StaysCovered ==
    ASSUME ListTypeOK, IsFiniteSet(collection'), Own \subseteq Own'
    PROVE  \A d \in Own : /\ Untied(d, Own)' => Untied(d, Own)
                          /\ Cardinality(Newer(d)) \in Nat /\ Cardinality(Newer(d)') \in Nat
                          /\ Cardinality(Newer(d)) <= Cardinality(Newer(d)')
<1>. SUFFICES ASSUME NEW d \in Own
              PROVE  /\ Untied(d, Own)' => Untied(d, Own)
                     /\ Cardinality(Newer(d)) \in Nat /\ Cardinality(Newer(d)') \in Nat
                     /\ Cardinality(Newer(d)) <= Cardinality(Newer(d)')
  OBVIOUS
<1>1. Untied(d, Own)' => Untied(d, Own)
  BY DEF Untied
<1>2. IsFiniteSet(Own')
  <2>1. Own' \subseteq collection'
    BY DEF Own
  <2>. QED
    BY <2>1, FS_Subset
<1>3. Newer(d) \subseteq Newer(d)' /\ Newer(d)' \subseteq Own'
  BY DEF Newer
<1>4. IsFiniteSet(Newer(d)')
  BY <1>2, <1>3, FS_Subset
<1>5. /\ IsFiniteSet(Newer(d))
      /\ Cardinality(Newer(d)) <= Cardinality(Newer(d)')
  BY <1>3, <1>4, FS_Subset
<1>. QED
  BY <1>1, <1>4, <1>5, FS_CardinalityType

LEMMA CoveredStep == ListTypeOK /\ Covered /\ [ListNext]_listVars => Covered'
<1>. SUFFICES ASSUME ListTypeOK, Covered, [ListNext]_listVars PROVE Covered'
  OBVIOUS
<1>1. CASE StartWalk
  <2>1. PICK size \in Nat \ {0} :
           /\ walk' = [step |-> "ask", size |-> size, page |-> 1, base |-> Own, seen |-> <<>>,
                       total |-> 0, quiet |-> TRUE, exact |-> TRUE]
           /\ collection' = collection
    BY <1>1, StartEffect
  <2>2. Skip(1, PageSize(size)) = 0
    BY SizeOfPages, Skipped
  <2>3. Own' = Own
    BY <2>1 DEF Own
  <2>4. \A d \in Own : Cardinality(Newer(d)') >= 0
    BY <2>1, <2>3, StaysCovered DEF ListTypeOK
  <2>. QED
    BY <2>1, <2>2, <2>3, <2>4 DEF Covered
<1>2. CASE Count \/ ListFails \/ Insert
  <2>1. /\ Own \subseteq Own' /\ IsFiniteSet(collection')
        /\ Walking' => Walking /\ Keeps /\ walk'.step # "done" /\ walk.step # "done"
    <3>1. CASE Count \/ ListFails
      BY <3>1, CountEffect, FailEffect DEF ListTypeOK, Own
    <3>2. CASE Insert
      BY <3>2, InsertEffect DEF Walking
    <3>. QED
      BY <1>2, <3>1, <3>2
  <2>. SUFFICES ASSUME Walking', NEW d \in walk'.base, Untied(d, Own')
                PROVE  \/ Shown(d)'
                       \/ /\ walk'.step # "done"
                          /\ Cardinality(Newer(d)') >= Skip(walk'.page, PageSize(walk'.size))
    BY DEF Covered
  <2>2. d \in Own /\ d \in walk.base
    BY <2>1 DEF ListTypeOK, Keeps
  <2>3. Shown(d) \/ Cardinality(Newer(d)) >= Skip(walk.page, PageSize(walk.size))
    BY <2>1, <2>2, StaysCovered DEF Covered
  <2>4. Shown(d) => Shown(d)'
    BY <2>1 DEF Shown, Keeps
  <2>5. Skip(walk.page, PageSize(walk.size)) \in Nat
    BY <2>1, SizeOfPages, Skipped DEF ListTypeOK
  <2>. QED
    BY <2>1, <2>2, <2>3, <2>4, <2>5, StaysCovered DEF Keeps
<1>3. CASE Find
  <2>. DEFINE size == PageSize(walk.size)
              skip == Skip(walk.page, size)
  <2>1. PICK order \in NewestFirst(Own) :
           /\ walk'.step = IF Len(PageOf(order, walk.page, size)) < size THEN "done" ELSE "ask"
           /\ walk'.seen = walk.seen \o PageOf(order, walk.page, size)
    BY <1>3, FindEffect
  <2>. DEFINE items == PageOf(order, walk.page, size)
  <2>2. /\ Walking /\ walk.page \in Nat \ {0} /\ size \in Nat \ {0}
        /\ Own' = Own /\ walk'.base = walk.base /\ walk'.page = walk.page + 1
        /\ walk'.size = walk.size /\ walk.step = "counted" /\ walk.seen \in Seq(Own)
    BY <1>3, FindEffect, SizeOfPages DEF ListTypeOK, Own
  <2>3. /\ order \in Seq(Own) /\ Len(order) \in Nat
        /\ \A d \in Own : \E p \in 1..Len(order) : order[p] = d
    BY OwnIsFinite, OrderOfAll
  <2>4. /\ items \in Seq(Own)
        /\ Len(items) = IF skip + size <= Len(order) THEN size
                        ELSE IF skip < Len(order) THEN Len(order) - skip ELSE 0
        /\ \A i \in 1..Len(items) : items[i] = order[skip + i]
    <3>1. order \in Seq(Own) /\ walk.page \in Nat \ {0} /\ size \in Nat \ {0}
      BY <2>2, <2>3
    <3>. HIDE DEF size
    <3>2. items \in Seq(Own)
      BY <3>1, PageContents
    <3>3. Len(items) = IF skip + size <= Len(order) THEN size
                       ELSE IF skip < Len(order) THEN Len(order) - skip ELSE 0
      BY <3>1, PageContents
    <3>4. \A i \in 1..Len(items) : items[i] = order[skip + i]
      BY <3>1, PageContents, ZenonT(40)
    <3>. QED
      BY <3>2, <3>3, <3>4
  <2>5. skip \in Nat /\ Skip(walk'.page, PageSize(walk'.size)) = skip + size
    BY <2>2, Skipped
  <2>6. /\ walk'.seen \in Seq(Own)
        /\ Len(walk'.seen) = Len(walk.seen) + Len(items)
        /\ \A i \in 1..(Len(walk.seen) + Len(items)) :
              walk'.seen[i] = IF i <= Len(walk.seen) THEN walk.seen[i] ELSE items[i - Len(walk.seen)]
        /\ Len(walk.seen) \in Nat /\ Len(items) \in Nat
    <3>1. walk'.seen = walk.seen \o items
      BY <2>1
    <3>. HIDE DEF items
    <3>2. items \in Seq(Own) /\ walk.seen \in Seq(Own)
      BY <2>2, <2>4
    <3>. QED
      BY <3>1, <3>2, ConcatProperties, LenProperties
  <2>. SUFFICES ASSUME NEW d \in walk.base, Untied(d, Own)
                PROVE  \/ Shown(d)'
                       \/ /\ walk'.step # "done"
                          /\ Cardinality(Newer(d)) >= skip + size
    BY <2>2, <2>5 DEF Covered, Newer
  <2>. HIDE DEF size, skip, items
  <2>7. Shown(d) => Shown(d)'
    <3>. SUFFICES ASSUME NEW i \in DOMAIN walk.seen, walk.seen[i] = d
                  PROVE  \E j \in DOMAIN walk'.seen : walk'.seen[j] = d
      BY DEF Shown
    <3>1. i \in 1..Len(walk.seen) /\ DOMAIN walk'.seen = 1..Len(walk'.seen)
      BY <2>2, <2>6, LenProperties
    <3>2. i \in DOMAIN walk'.seen /\ walk'.seen[i] = walk.seen[i]
      BY <2>6, <3>1
    <3>. QED
      BY <3>2
  <2>8. PICK p \in 1..Len(order) : order[p] = d
    BY <2>2, <2>3 DEF ListTypeOK
  <2>9. Cardinality(Newer(d)) = p - 1
    BY <2>8, OwnIsFinite, PositionCounts DEF Newer
  <2>10. /\ skip \in Nat /\ size \in Nat \ {0} /\ Len(order) \in Nat /\ Len(items) \in Nat
         /\ Len(walk.seen) \in Nat /\ p \in Nat /\ p <= Len(order)
    BY <2>2, <2>3, <2>5, <2>6, <2>8
  <2>11. CASE ~Shown(d)
    <3>1. p - 1 >= skip
      BY <2>2, <2>9, <2>11 DEF Covered, size, skip
    <3>2. CASE p - skip \in 1..Len(items)
      <4>. DEFINE j == Len(walk.seen) + (p - skip)
      <4>1. j \in DOMAIN walk'.seen
        BY <2>6, <3>2, LenProperties
      <4>2. walk'.seen[j] = items[p - skip]
        <5>1. /\ j \in 1..(Len(walk.seen) + Len(items)) /\ ~(j <= Len(walk.seen))
              /\ j - Len(walk.seen) = p - skip
          BY <2>10, <3>2
        <5>. HIDE DEF j
        <5>. QED
          BY <2>6, <5>1
      <4>3. items[p - skip] = order[skip + (p - skip)] /\ skip + (p - skip) = p
        BY SMTT(30), <2>3, <2>4, <2>5, <2>8, <3>2
      <4>. QED
        BY <2>8, <4>1, <4>2, <4>3 DEF Shown
    <3>3. CASE p - skip \notin 1..Len(items)
      <4>1. skip + size <= Len(order) /\ Len(items) = size /\ p > skip + size
        <5>1. p \in Nat /\ p <= Len(order) /\ p - skip >= 1 /\ p - skip > Len(items)
          BY <2>10, <3>1, <3>3
        <5>2. Len(items) = IF skip + size <= Len(order) THEN size
                           ELSE IF skip < Len(order) THEN Len(order) - skip ELSE 0
          BY <2>4
        <5>. QED
          BY <2>10, <5>1, <5>2
      <4>2. walk'.step # "done"
        BY <2>1, <2>2, <4>1 DEF items
      <4>. QED
        BY <2>2, <2>3, <2>5, <2>8, <2>9, <4>1, <4>2
    <3>. QED
      BY <3>2, <3>3
  <2>. QED
    BY <2>7, <2>11
<1>4. CASE UNCHANGED listVars
  BY <1>4 DEF listVars, Covered, Walking, Own, Newer, Shown
<1>. QED
  BY <1>1, <1>2, <1>3, <1>4 DEF ListNext

-------------------------------------------------------------------------------
LEMMA UndisturbedStep == ListTypeOK /\ Undisturbed /\ [ListNext]_listVars => Undisturbed'
<1>. SUFFICES ASSUME ListTypeOK, Undisturbed, [ListNext]_listVars, Walking', walk'.quiet
              PROVE  /\ Own' = walk'.base
                     /\ walk'.step = "counted" => walk'.total = Cardinality(Own')
                     /\ walk'.exact
                     /\ (\A d \in walk'.base : Untied(d, walk'.base)) =>
                           IF walk'.step = "done" THEN walk'.seen \in NewestFirst(walk'.base)
                           ELSE \A order \in NewestFirst(walk'.base) :
                                   walk'.seen = SubSeq(order, 1,
                                      Smaller(Skip(walk'.page, PageSize(walk'.size)), Len(order)))
  BY DEF Undisturbed
<1>1. CASE StartWalk
  <2>1. PICK size \in Nat \ {0} :
           /\ walk' = [step |-> "ask", size |-> size, page |-> 1, base |-> Own, seen |-> <<>>,
                       total |-> 0, quiet |-> TRUE, exact |-> TRUE]
           /\ collection' = collection
    BY <1>1, StartEffect
  <2>2. Skip(1, PageSize(size)) = 0
    BY SizeOfPages, Skipped
  <2>3. Own' = Own
    BY <2>1 DEF Own
  <2>4. ASSUME NEW order \in NewestFirst(Own)
        PROVE  SubSeq(order, 1, Smaller(0, Len(order))) = <<>>
    <3>1. Smaller(0, Len(order)) = 0
      BY OwnIsFinite, OrderOfAll DEF Smaller
    <3>2. SubSeq(order, 1, 0) = <<>>
      BY SubSeqEmpty
    <3>. QED
      BY <3>1, <3>2
  <2>. QED
    BY <2>1, <2>2, <2>3, <2>4
<1>2. CASE Count \/ ListFails
  <2>1. /\ Own' = Own /\ Walking /\ Keeps /\ walk.quiet
        /\ walk'.step = "counted" => walk'.total = Cardinality(Own)
        /\ walk.step # "done" /\ walk'.step # "done"
    BY <1>2, CountEffect, FailEffect DEF Own
  <2>. QED
    BY <2>1 DEF Undisturbed, Keeps
<1>3. CASE Insert
  <2>1. Walking /\ Own' = Own /\ walk' = walk
    BY <1>3, InsertEffect DEF Walking
  <2>. QED
    BY <2>1 DEF Undisturbed
<1>4. CASE Find
  <2>. DEFINE size == PageSize(walk.size)
              skip == Skip(walk.page, size)
  <2>1. PICK order \in NewestFirst(Own) :
           /\ walk'.step = IF Len(PageOf(order, walk.page, size)) < size THEN "done" ELSE "ask"
           /\ walk'.seen = walk.seen \o PageOf(order, walk.page, size)
           /\ walk'.exact = (walk.exact /\ (PageOf(order, walk.page, size) # <<>>
                                              <=> walk.page <= TotalPages(walk.total, size)))
    BY <1>4, FindEffect
  <2>. DEFINE items == PageOf(order, walk.page, size)
  <2>2. /\ Walking /\ walk.page \in Nat \ {0} /\ size \in Nat \ {0}
        /\ Own' = Own /\ walk'.base = walk.base /\ walk'.page = walk.page + 1
        /\ walk'.size = walk.size /\ walk.step = "counted" /\ walk.quiet
    BY <1>4, FindEffect, SizeOfPages DEF ListTypeOK, Own
  <2>3. order \in Seq(Own) /\ Len(order) = Cardinality(Own) /\ Len(order) \in Nat
    BY OwnIsFinite, OrderOfAll
  <2>4. Own = walk.base /\ walk.exact /\ walk.total = Len(order)
    BY <2>2, <2>3 DEF Undisturbed
  <2>5. skip \in Nat /\ Skip(walk'.page, PageSize(walk'.size)) = skip + size
    BY <2>2, Skipped
  <2>. HIDE DEF size
  <2>6. /\ items = <<>> <=> ~(skip < Len(order))
        /\ Len(items) = IF skip + size <= Len(order) THEN size
                        ELSE IF skip < Len(order) THEN Len(order) - skip ELSE 0
    <3>1. items = <<>> <=> ~(skip < Len(order))
      BY <2>2, <2>3, PageContents
    <3>2. Len(items) = IF skip + size <= Len(order) THEN size
                       ELSE IF skip < Len(order) THEN Len(order) - skip ELSE 0
      BY <2>2, <2>3, PageContents, ZenonT(40)
    <3>. QED
      BY <3>1, <3>2
  <2>7. walk'.exact
    <3>1. skip < Len(order) <=> walk.page <= TotalPages(walk.total, size)
      BY <2>2, <2>3, <2>4, PagesBegin
    <3>. QED
      BY <2>1, <2>4, <2>6, <3>1
  <2>8. ASSUME \A d \in Own : Untied(d, Own)
        PROVE  IF walk'.step = "done" THEN walk'.seen \in NewestFirst(Own)
               ELSE \A other \in NewestFirst(Own) :
                       walk'.seen = SubSeq(other, 1, Smaller(skip + size, Len(other)))
    <3>1. walk.seen = SubSeq(order, 1, Smaller(skip, Len(order)))
      BY <2>2, <2>4, <2>8 DEF Undisturbed, size
    <3>2. walk'.seen = SubSeq(order, 1, Smaller(Skip(walk.page + 1, size), Len(order)))
      BY <2>1, <2>2, <2>3, <3>1, PageContinues
    <3>3. Skip(walk.page + 1, size) = skip + size
      BY <2>2, <2>5 DEF size
    <3>4. \A other \in NewestFirst(Own) : other = order
      BY <2>8, OwnIsFinite, OneOrder
    <3>5. CASE walk'.step = "done"
      <4>1. Len(items) < size
        BY <2>1, <3>5
      <4>. HIDE DEF items, skip
      <4>2. Smaller(skip + size, Len(order)) = Len(order)
        BY <2>2, <2>3, <2>5, <2>6, <4>1 DEF Smaller
      <4>3. SubSeq(order, 1, Len(order)) = order
        BY <2>3, SubSeqFull
      <4>. QED
        BY <3>2, <3>3, <3>5, <4>2, <4>3 DEF skip
    <3>6. CASE walk'.step # "done"
      BY <3>2, <3>3, <3>4, <3>6
    <3>. QED
      BY <3>5, <3>6
  <2>9. walk'.step # "counted"
    BY <2>1
  <2>. QED
    BY <2>2, <2>4, <2>5, <2>7, <2>8, <2>9
<1>5. CASE UNCHANGED listVars
  BY <1>5 DEF listVars, Undisturbed, Walking, Own
<1>. QED
  BY <1>1, <1>2, <1>3, <1>4, <1>5 DEF ListNext

LEMMA ListInvInit == ListInit => ListInv
BY FS_EmptySet DEF ListInit, ListInv, ListTypeOK, Covered, Undisturbed, Walking, NoWalk

LEMMA ListInvStep == ListInv /\ [ListNext]_listVars => ListInv'
BY ListTypeStep, CoveredStep, UndisturbedStep DEF ListInv

\* A walk that is over has shown every request of the key that was there when it began, for any
\* number of documents, any page size and any inserts meanwhile.
THEOREM WalkShowsAll == ListSpec => []EverythingListed
<1>1. ListInv => EverythingListed
  BY DEF ListInv, Covered, EverythingListed, Shown, Walking
<1>. QED
  BY ListInvInit, ListInvStep, <1>1, PTL DEF ListSpec

\* An undisturbed one has shown each once, newest first, over as many pages as it was told.
THEOREM QuietWalkIsExact == ListSpec => []QuietWalkExact
<1>1. ListInv => QuietWalkExact
  BY DEF ListInv, Undisturbed, QuietWalkExact, Walking
<1>. QED
  BY ListInvInit, ListInvStep, <1>1, PTL DEF ListSpec
===============================================================================
