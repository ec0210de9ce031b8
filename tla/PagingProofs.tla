---------------------------- MODULE PagingProofs ----------------------------
(* The pages of a history, for every set of messages, every limit and any  *)
(* precision of the cursor.                                                *)
EXTENDS Paging, TLAPS

(* The client lost the message to the cursor: it went on from a message of *)
(* the same second that is newer.                                          *)
SameSecond(x, y) == x.sentAt \div Second = y.sentAt \div Second

Skipped(row) == \E cut \in cuts : SameSecond(row, cut) /\ Newer(cut, row)

(* Whatever was there at the start and was not given is still to come, or  *)
(* was skipped; and nothing that is to come is newer than what was given.  *)
PagesInv ==
  /\ client = "idle" => request.before = None /\ given = {}
  /\ client = "asking" /\ request.before = None => given = {}
  /\ client = "asking" /\ request.before # None =>
       /\ \A earlier \in given : request.before <= earlier.sentAt
       /\ \A row \in atStart \ given : row.sentAt < request.before \/ Skipped(row)
  /\ client = "more" =>
       /\ Last(page) \in given
       /\ \A earlier \in given : Last(page).sentAt <= earlier.sentAt
       /\ \A row \in atStart \ given : Newer(Last(page), row) \/ Skipped(row)
  /\ client = "done" => \A row \in atStart \ given : Skipped(row)

-----------------------------------------------------------------------------
(* A clamped limit is at least one and at most the maximum.                *)
LEMMA PageSizes ==
  ASSUME NEW limit \in Limits \cup {0}
  PROVE  PageSize(limit) \in 1..MaxLimit
BY PagingAssumption DEF PageSize

(* The first rows of a sequence.                                           *)
LEMMA Limited ==
  ASSUME NEW S, NEW rows \in Seq(S), NEW n \in Nat
  PROVE  /\ Limit(rows, n) \in Seq(S)
         /\ Len(Limit(rows, n)) = IF Len(rows) < n THEN Len(rows) ELSE n
         /\ \A i \in 1..Len(Limit(rows, n)) : Limit(rows, n)[i] = rows[i]
BY DEF Limit

(* A sequence of rows as the query may return it.                          *)
LEMMA BoundedSeqs ==
  ASSUME NEW S, NEW n \in Nat, NEW s \in BoundedSeq(S, n)
  PROVE  s \in Seq(S) /\ Len(s) \in 0..n
BY DEF BoundedSeq, SeqOf

(* Cutting a time down to the second.                                      *)
LEMMA Seconds ==
  ASSUME NEW a \in Nat, NEW b \in Nat, a <= b, (b \div Second) * Second <= a
  PROVE  a \div Second = b \div Second
BY PagingAssumption

-----------------------------------------------------------------------------
(* What the query returns and what becomes of it.                          *)
LEMMA ListEffect ==
  ASSUME TypeOK, ListMessages
  PROVE  LET found == {row \in messages : Before(row, request.before)}
         IN  /\ page' \in Seq(found) /\ Len(page') <= MaxLimit
             /\ client' \in {"more", "done"}
             /\ client' = "more" => page' # <<>>
             /\ \A i, j \in DOMAIN page' : i < j => Newer(page'[i], page'[j])
             /\ \A row \in found \ ToSet(page') :
                  /\ client' = "more"
                  /\ \A kept \in ToSet(page') : Newer(kept, row)
             /\ given' = given \cup ToSet(page')
             /\ atStart' = IF request.before = None THEN messages ELSE atStart
             /\ UNCHANGED <<log, request, cuts>>
<1> DEFINE size  == PageSize(request.limit)
           found == {row \in messages : Before(row, request.before)}
<1>1. size \in 1..MaxLimit
  BY PageSizes DEF TypeOK
<1>2. size \in Nat /\ MaxLimit \in Nat /\ size <= MaxLimit /\ size >= 1
  BY <1>1, PagingAssumption
<1>3. PICK fetched \in BoundedSeq(found, size + 1) :
        /\ Selects(fetched, found, size + 1)
        /\ page' = Limit(fetched, size)
        /\ client' = IF Len(fetched) > size THEN "more" ELSE "done"
  BY DEF ListMessages, FetchLimit
<1>4. /\ given' = given \cup ToSet(page')
      /\ atStart' = IF request.before = None THEN messages ELSE atStart
      /\ UNCHANGED <<log, request, cuts>>
  BY DEF ListMessages
<1> HIDE DEF size, found
<1>5. fetched \in Seq(found) /\ Len(fetched) \in 0..(size + 1)
  BY <1>2, BoundedSeqs
<1>6. /\ page' \in Seq(found)
      /\ Len(page') = IF Len(fetched) < size THEN Len(fetched) ELSE size
      /\ \A i \in 1..Len(page') : page'[i] = fetched[i]
  BY <1>2, <1>3, <1>5, Limited
<1>7. DOMAIN page' = 1..Len(page') /\ DOMAIN fetched = 1..Len(fetched)
  BY <1>5, <1>6
<1>8. \A i, j \in DOMAIN page' : i < j => Newer(page'[i], page'[j])
  BY <1>2, <1>3, <1>5, <1>6, <1>7 DEF Selects
<1>9. client' = "more" => page' # <<>>
  BY <1>2, <1>3, <1>5, <1>6
<1>10. ASSUME NEW row \in found \ ToSet(page')
       PROVE  /\ client' = "more"
              /\ \A kept \in ToSet(page') : Newer(kept, row)
  <2>1. \A kept \in ToSet(page') : kept \in ToSet(fetched)
    BY <1>2, <1>5, <1>6, <1>7 DEF ToSet
  <2>2. CASE row \notin ToSet(fetched)
    <3>1. Len(fetched) = size + 1 /\ \A kept \in ToSet(fetched) : Newer(kept, row)
      BY <1>3, <2>2 DEF Selects
    <3> QED
      BY <1>2, <1>3, <2>1, <3>1
  <2>3. CASE row \in ToSet(fetched)
    <3>1. PICK i \in DOMAIN fetched : row = fetched[i]
      BY <2>3 DEF ToSet
    <3>2. i \notin DOMAIN page'
      BY <1>6, <1>7, <1>10, <3>1 DEF ToSet
    <3>3. i = size + 1 /\ Len(fetched) = size + 1
      <4>1. i \in Nat /\ i >= 1 /\ i <= Len(fetched) /\ ~(i <= Len(page'))
        BY <1>5, <1>7, <3>1, <3>2
      <4> QED
        BY <1>2, <1>5, <1>6, <4>1
    <3>4. \A h \in DOMAIN page' : h \in DOMAIN fetched /\ h < i /\ page'[h] = fetched[h]
      BY <1>2, <1>5, <1>6, <1>7, <3>3
    <3>5. \A h \in DOMAIN page' : Newer(page'[h], row)
      BY <1>3, <3>1, <3>4 DEF Selects
    <3> QED
      BY <1>2, <1>3, <3>3, <3>5 DEF ToSet
  <2> QED
    BY <2>2, <2>3
<1> QED
  BY <1>2, <1>3, <1>4, <1>5, <1>6, <1>7, <1>8, <1>9, <1>10 DEF found

(* The last message of a page is not newer than any of it.                 *)
LEMMA LastOfPage ==
  ASSUME NEW rows \in Seq(Row), rows # <<>>,
         \A i, j \in DOMAIN rows : i < j => Newer(rows[i], rows[j])
  PROVE  /\ Last(rows) \in ToSet(rows) /\ ToSet(rows) \subseteq Row
         /\ \A row \in ToSet(rows) : Last(rows).sentAt <= row.sentAt
<1>1. /\ DOMAIN rows = 1..Len(rows) /\ Len(rows) \in DOMAIN rows
      /\ Last(rows) = rows[Len(rows)]
      /\ \A i \in DOMAIN rows : rows[i] \in Row /\ rows[i].sentAt \in Nat /\ i <= Len(rows)
  <2>1. /\ DOMAIN rows = 1..Len(rows) /\ Len(rows) \in Nat /\ Len(rows) # 0
        /\ \A i \in DOMAIN rows : rows[i] \in Row /\ i <= Len(rows)
    OBVIOUS
  <2>2. \A row \in Row : row.sentAt \in Nat
    BY DEF Row, Time
  <2> QED
    BY <2>1, <2>2 DEF Last
<1>2. \A i \in DOMAIN rows : Last(rows).sentAt <= rows[i].sentAt
  <2> SUFFICES ASSUME NEW i \in DOMAIN rows PROVE Last(rows).sentAt <= rows[i].sentAt
    OBVIOUS
  <2>1. CASE i = Len(rows)
    BY <1>1, <2>1
  <2>2. CASE i < Len(rows)
    BY <1>1, <2>2 DEF Newer
  <2> QED
    BY <1>1, <2>1, <2>2
<1> QED
  BY <1>1, <1>2 DEF ToSet

-----------------------------------------------------------------------------
(* What a page leaves to be found: nothing newer than what was given, and  *)
(* of what was there at the start all but what is skipped already.         *)
LEMMA ListFinds ==
  ASSUME TypeOK, PagesInv, ListMessages
  PROVE  LET found == {row \in messages : Before(row, request.before)}
         IN  /\ \A row \in found, earlier \in given : row.sentAt < earlier.sentAt
             /\ \A row \in atStart' \ given' :
                  row \in found \ ToSet(page') \/ Skipped(row)'
<1> DEFINE found == {row \in messages : Before(row, request.before)}
<1>1. /\ client = "asking" /\ given' = given \cup ToSet(page')
      /\ atStart' = IF request.before = None THEN messages ELSE atStart
      /\ cuts' = cuts
  BY ListEffect DEF ListMessages
<1>2. \A row \in Row : Skipped(row)' = Skipped(row)
  BY <1>1 DEF Skipped
<1>3. CASE request.before = None
  <2>1. given = {} /\ found = messages /\ atStart' = messages
    BY <1>1, <1>3 DEF PagesInv, Before
  <2> QED
    BY <1>1, <2>1
<1>4. CASE request.before # None
  <2>1. \A row \in Row : row.sentAt \in Nat
    BY DEF Row, Time
  <2>2. request.before \in Nat
    BY <1>4 DEF TypeOK, Time
  <2>3. \A earlier \in given : request.before <= earlier.sentAt /\ earlier \in Row
    BY <1>1, <1>4 DEF PagesInv, TypeOK
  <2>4. \A row \in found : row.sentAt < request.before /\ row \in Row
    BY <1>4 DEF Before, TypeOK
  <2>5. \A row \in found, earlier \in given : row.sentAt < earlier.sentAt
    BY <2>1, <2>2, <2>3, <2>4
  <2>6. \A row \in atStart \ given :
          row \in Row /\ (row \in found \/ Skipped(row))
    BY <1>1, <1>4 DEF PagesInv, TypeOK, Before
  <2> QED
    BY <1>1, <1>2, <1>4, <2>5, <2>6
<1> QED
  BY <1>3, <1>4

(* A page that is fetched: its rows are of the table, descend, and leave out*)
(* nothing between them that was there.                                    *)
LEMMA ListInv ==
  ASSUME TypeOK, PagesInv, ListMessages
  PROVE  (TypeOK /\ PagesInv)'
<1> DEFINE found == {row \in messages : Before(row, request.before)}
<1>1. /\ page' \in Seq(found) /\ Len(page') <= MaxLimit
      /\ client' \in {"more", "done"}
      /\ client' = "more" => page' # <<>>
      /\ \A i, j \in DOMAIN page' : i < j => Newer(page'[i], page'[j])
      /\ \A row \in found \ ToSet(page') :
           /\ client' = "more"
           /\ \A kept \in ToSet(page') : Newer(kept, row)
      /\ given' = given \cup ToSet(page')
      /\ atStart' = IF request.before = None THEN messages ELSE atStart
      /\ UNCHANGED <<log, request, cuts>>
  BY ListEffect
<1>2. /\ \A row \in found, earlier \in given : row.sentAt < earlier.sentAt
      /\ \A row \in atStart' \ given' :
           row \in found \ ToSet(page') \/ Skipped(row)'
  BY ListFinds
<1>3. found \subseteq messages /\ found \subseteq Row
  BY DEF TypeOK
<1> HIDE DEF found
<1>4. page' \in Seq(Row) /\ ToSet(page') \subseteq found
  BY <1>1, <1>3 DEF ToSet
<1>5. TypeOK'
  BY <1>1, <1>3, <1>4 DEF TypeOK, log
<1>6. ASSUME client' = "more"
      PROVE  /\ Last(page') \in given'
             /\ \A earlier \in given' : Last(page').sentAt <= earlier.sentAt
             /\ \A row \in atStart' \ given' : Newer(Last(page'), row) \/ Skipped(row)'
  <2>1. /\ Last(page') \in ToSet(page')
        /\ \A row \in ToSet(page') : Last(page').sentAt <= row.sentAt
    BY <1>1, <1>4, <1>6, LastOfPage
  <2>2. Last(page') \in found
    BY <1>4, <2>1
  <2>3. \A earlier \in given : Last(page').sentAt <= earlier.sentAt
    <3>1. \A row \in Row : row.sentAt \in Nat
      BY DEF Row, Time
    <3> QED
      BY <1>2, <1>3, <2>2, <3>1 DEF TypeOK
  <2> QED
    BY <1>1, <1>2, <2>1, <2>3
<1>7. PagesInv'
  BY <1>1, <1>2, <1>6 DEF PagesInv
<1> QED
  BY <1>5, <1>7

(* The client goes on from the last message, by its time or by the second  *)
(* it is in: what is not before that is of this second and skipped.        *)
LEMMA NextPageInv ==
  ASSUME TypeOK, PagesInv, NEW limit \in Limits, NextPage(limit)
  PROVE  (TypeOK /\ PagesInv)'
<1> DEFINE last == Last(page)
           before == request'.before
<1>1. /\ client = "more" /\ client' = "asking"
      /\ cuts' = cuts \cup {last}
      /\ before \in {NextBefore(page), last.sentAt}
      /\ request' = [request EXCEPT !.limit = limit, !.before = before]
      /\ UNCHANGED <<log, page, given, atStart>>
  BY DEF NextPage, TypeOK
<1>2. /\ last \in given /\ last \in Row
      /\ \A earlier \in given : last.sentAt <= earlier.sentAt
      /\ \A row \in atStart \ given : Newer(last, row) \/ Skipped(row)
  BY <1>1 DEF PagesInv, TypeOK
<1>3. \A row \in Row : row.sentAt \in Nat /\ row.sentAt <= MaxTime
  BY DEF Row, Time
<1>4. /\ NextBefore(page) = (last.sentAt \div Second) * Second
      /\ NextBefore(page) \in Nat /\ NextBefore(page) <= last.sentAt
  BY <1>2, <1>3, PagingAssumption DEF NextBefore
<1> HIDE DEF last
<1>5. before \in Nat /\ before <= last.sentAt /\ NextBefore(page) <= before
  BY <1>1, <1>2, <1>3, <1>4
<1>6. before \in Time /\ before # None
  BY <1>2, <1>3, <1>5, PagingAssumption DEF Time, None
<1> HIDE DEF before
<1>7. TypeOK'
  BY <1>1, <1>2, <1>6 DEF TypeOK, log
<1>8. \A earlier \in given : before <= earlier.sentAt
  BY <1>2, <1>3, <1>5 DEF TypeOK
<1>9. ASSUME NEW row \in atStart \ given
      PROVE  row.sentAt < before \/ Skipped(row)'
  <2>1. row \in Row /\ row.sentAt \in Nat /\ last.sentAt \in Nat
    BY <1>2, <1>3 DEF TypeOK
  <2>2. CASE Skipped(row)
    BY <1>1, <2>2 DEF Skipped
  <2>3. CASE Newer(last, row) /\ ~(row.sentAt < before)
    <3>1. row.sentAt <= last.sentAt /\ (last.sentAt \div Second) * Second <= row.sentAt
      BY <1>4, <1>5, <2>1, <2>3 DEF Newer
    <3>2. SameSecond(row, last)
      BY <2>1, <3>1, Seconds DEF SameSecond
    <3> QED
      BY <1>1, <2>3, <3>2 DEF Skipped
  <2> QED
    BY <1>2, <2>2, <2>3
<1>10. PagesInv'
  <2>1. request'.before = before
    BY DEF before
  <2> QED
    BY <1>1, <1>6, <1>8, <1>9, <2>1 DEF PagesInv
<1> QED
  BY <1>7, <1>10

(* Every step preserves the invariant.                                     *)
LEMMA NextInv == TypeOK /\ PagesInv /\ [Next]_vars => (TypeOK /\ PagesInv)'
<1> SUFFICES ASSUME TypeOK, PagesInv, [Next]_vars PROVE (TypeOK /\ PagesInv)'
  OBVIOUS
<1>1. CASE ListMessages
  BY <1>1, ListInv
<1>2. ASSUME NEW limit \in Limits, NextPage(limit) PROVE (TypeOK /\ PagesInv)'
  BY <1>2, NextPageInv
<1>3. ASSUME NEW limit \in Limits, FirstPage(limit) PROVE (TypeOK /\ PagesInv)'
  <2>1. TypeOK'
    BY <1>3 DEF FirstPage, TypeOK, log, pages
  <2>2. request'.before = None /\ given' = {} /\ client' = "asking"
    BY <1>3 DEF FirstPage, TypeOK, PagesInv, pages
  <2> QED
    BY <2>1, <2>2 DEF PagesInv
<1>4. CASE Forbid
  BY <1>4 DEF Forbid, TypeOK, PagesInv, log, pages
<1>5. ASSUME UNCHANGED <<client, request, pages>> PROVE PagesInv'
  <2>1. \A row \in atStart : Skipped(row)' = Skipped(row)
    BY <1>5 DEF Skipped, pages
  <2> QED
    BY <1>5, <2>1 DEF PagesInv, pages
<1>6. ASSUME NEW id \in Ids, InsertMessage(id) PROVE (TypeOK /\ PagesInv)'
  <2>1. TypeOK'
    BY <1>6 DEF InsertMessage, TypeOK, Row, pages
  <2> QED
    BY <1>5, <1>6, <2>1 DEF InsertMessage
<1>7. ASSUME NEW row \in drafts, CommitMessage(row) \/ Rollback(row)
      PROVE  (TypeOK /\ PagesInv)'
  <2>1. TypeOK'
    BY <1>7 DEF CommitMessage, Rollback, TypeOK, pages
  <2> QED
    BY <1>5, <1>7, <2>1 DEF CommitMessage, Rollback
<1>8. CASE Tick \/ UNCHANGED vars
  <2>1. TypeOK'
    BY <1>8, PagingAssumption DEF Tick, TypeOK, Time, pages, vars
  <2> QED
    BY <1>5, <1>8, <2>1 DEF Tick, vars, pages
<1> QED
  BY <1>1, <1>2, <1>3, <1>4, <1>6, <1>7, <1>8 DEF Next

(* So it holds in every state.                                             *)
LEMMA SpecInv == Spec => [](TypeOK /\ PagesInv)
<1>1. Init => TypeOK /\ PagesInv
  BY PagingAssumption DEF Init, TypeOK, PagesInv, Row, Time
<1> QED
  BY <1>1, NextInv, PTL DEF Spec

-----------------------------------------------------------------------------
(* The types, and that a page holds at most MaxLimit messages, and one at  *)
(* least if there are more behind it.                                      *)
THEOREM TypeCorrect == Spec => []TypeOK
BY SpecInv, PTL

(* A client that comes to the end was given all that was there when it     *)
(* began, but what the cursor's precision cost it at the cuts.             *)
THEOREM SkippedOnlyAtCuts == Spec => []SkipsOnlyAtCuts
<1>1. PagesInv => SkipsOnlyAtCuts
  BY DEF PagesInv, SkipsOnlyAtCuts, Skipped, SameSecond
<1> QED
  BY <1>1, SpecInv, PTL

(* The pages are one descent, and no message is given twice.               *)
THEOREM PagesDescend == Spec => Descending
<1> DEFINE Step ==
      client = "asking" /\ client' \in {"more", "done"} =>
        /\ \A i, j \in DOMAIN page' : i < j => page'[j].sentAt <= page'[i].sentAt
        /\ \A row \in ToSet(page'), earlier \in given : row.sentAt < earlier.sentAt
<1>1. ASSUME TypeOK, PagesInv, [Next]_vars PROVE [Step]_vars
  <2>1. CASE ListMessages
    <3> DEFINE found == {row \in messages : Before(row, request.before)}
    <3>1. /\ page' \in Seq(found)
          /\ \A i, j \in DOMAIN page' : i < j => Newer(page'[i], page'[j])
      BY <1>1, <2>1, ListEffect
    <3>2. \A row \in found, earlier \in given : row.sentAt < earlier.sentAt
      BY <2>1, <1>1, ListFinds
    <3>3. \A row \in found : row.sentAt \in Nat
      BY <1>1 DEF TypeOK, Row, Time
    <3> HIDE DEF found
    <3>4. \A i \in DOMAIN page' : page'[i] \in found
      BY <3>1
    <3>5. \A i, j \in DOMAIN page' : i < j => page'[j].sentAt <= page'[i].sentAt
      BY <3>1, <3>3, <3>4 DEF Newer
    <3> QED
      BY <3>2, <3>4, <3>5 DEF ToSet
  <2>2. CASE ~ListMessages /\ ~UNCHANGED vars
    <3>1. client = "asking" => client' \notin {"more", "done"}
      BY <1>1, <2>2
      DEF Next, Forbid, FirstPage, NextPage, InsertMessage, CommitMessage, Rollback, Tick
    <3> QED
      BY <3>1
  <2> QED
    BY <2>1, <2>2
<1> QED
  BY <1>1, SpecInv, PTL DEF Spec, Descending
=============================================================================
