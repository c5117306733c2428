----------------------------- MODULE PagingProofs -----------------------------
(***************************************************************************)
(* For every table, page size and number of writers: what a reader who walks  *)
(* a PagedList is shown.                                                     *)
(***************************************************************************)
EXTENDS Paging, SequenceTheorems, TLAPS

\* Nothing was deleted, and nothing inserted between a count and its rows.
Undisturbed == deleted = {} /\ "rows" \notin inserted

\* Row x is still ahead of the reader.
Ahead(x) ==
    step # "end" /\ \E k \in 1 .. Len(table) :
                        table[k] = x /\ k > Offset(currentPage, pageSize)

PagingInv ==
    /\ PagingTypeOK
    /\ Undisturbed /\ step = "rows" => totalCount = Len(table)
    /\ Undisturbed /\ step # "start" =>
          \A x \in Listed(due) : x \in Listed(seen) \/ Ahead(x)

\* If a row is behind the page, the page has a next one.
LEMMA RowBehindMeansNext ==
    ASSUME NEW count \in Nat, NEW page \in Nat \ {0}, NEW size \in Nat \ {0},
           count > page * size
    PROVE  HasNext(count, page, size)
  <1>1. ASSUME NEW a \in Nat, a >= page * size + size
        PROVE  page < a \div size
    BY <1>1
  <1>2. count + size - 1 \in Nat /\ count + size - 1 >= page * size + size
    OBVIOUS
  <1> QED BY <1>1, <1>2 DEF HasNext, TotalPages

\* What a page of the table is.
LEMMA PageHasItsRows ==
    ASSUME NEW T, table \in Seq(T), NEW page \in Nat \ {0}, NEW size \in Nat \ {0}
    PROVE  /\ Page(page, size) \in Seq(T)
           /\ \A k \in 1 .. Len(table) :
                k > Offset(page, size) /\ k <= Offset(page, size) + size
                  => table[k] \in Listed(Page(page, size))
  <1> DEFINE off == Offset(page, size)
             last == IF off + size < Len(table) THEN off + size ELSE Len(table)
             s == SubSeq(table, off + 1, last)
  <1>1. off \in Nat
    BY Z3 DEF Offset
  <1>2. Page(page, size) = s
    BY DEF Page
  <1> HIDE DEF off
  <1>3. last \in Nat /\ last <= Len(table) /\ Len(table) \in Nat
    BY <1>1
  <1>4. s \in Seq(T) /\ Len(s) = IF off + 1 <= last THEN last - off ELSE 0
    BY <1>1, <1>3
  <1>5. \A m \in 1 .. last - off : s[m] = table[off + m]
    BY <1>1, <1>3
  <1>6. ASSUME NEW k \in 1 .. Len(table), k > off, k <= off + size
        PROVE  table[k] \in Listed(s)
    <2>1. k <= last /\ k - off \in 1 .. last - off /\ off + (k - off) = k
      BY <1>1, <1>3, <1>6
    <2>2. s[k - off] = table[k] /\ k - off \in DOMAIN s
      BY <1>1, <1>3, <1>4, <1>5, <2>1
    <2> QED BY <2>2 DEF Listed
  <1> QED BY <1>2, <1>4, <1>6 DEF off

\* A row is ahead of a reader who still has its page to read, or a later one.
LEMMA OffsetsGrow ==
    ASSUME NEW page \in Nat \ {0}, NEW size \in Nat \ {0}
    PROVE  /\ Offset(page, size) \in Nat
           /\ Offset(page + 1, size) = Offset(page, size) + size
           /\ Offset(page + 1, size) = page * size
  BY Z3 DEF Offset

LEMMA PagingInitially == PagingInit => PagingInv
  BY PagingAssumption DEF PagingInit, PagingInv, PagingTypeOK

\* The reader's own steps.
LEMMA AskKeeps ==
    ASSUME PagingInv, Ask
    PROVE  PagingInv'
  <1>1. /\ step' = "count" /\ deleted' = {} /\ inserted' = {}
        /\ UNCHANGED <<table, totalCount, seen, emptyPages, writes>>
        /\ due' = SubSeq(table, Offset(currentPage', pageSize') + 1, Len(table))
    BY DEF Ask
  <1>2. currentPage' \in Nat \ {0} /\ pageSize' \in Nat \ {0}
    BY PagingAssumption DEF Ask, Parsed, IsPositive
  <1>3. table \in Seq(Rows) /\ Len(table) \in Nat
    BY DEF PagingInv, PagingTypeOK
  <1> DEFINE off == Offset(currentPage', pageSize')
  <1>4. off \in Nat
    BY <1>2, OffsetsGrow
  <1> HIDE DEF off
  <1>5. /\ due' \in Seq(Rows)
        /\ Len(due') = IF off + 1 <= Len(table) THEN Len(table) - off ELSE 0
        /\ \A m \in 1 .. Len(table) - off : due'[m] = table[off + m]
    BY <1>1, <1>3, <1>4 DEF off
  <1>6. \A x \in Listed(due') : \E k \in 1 .. Len(table) : table[k] = x /\ k > off
    <2>1. ASSUME NEW m \in DOMAIN due'
          PROVE  \E k \in 1 .. Len(table) : table[k] = due'[m] /\ k > off
      <3>1. m \in 1 .. Len(table) - off
        BY <1>3, <1>4, <1>5
      <3>2. off + m \in 1 .. Len(table) /\ off + m > off /\ table[off + m] = due'[m]
        BY <1>3, <1>4, <1>5, <3>1
      <3> QED BY <3>2
    <2> QED BY <2>1 DEF Listed
  <1>7. PagingTypeOK'
    BY <1>1, <1>2, <1>5 DEF PagingInv, PagingTypeOK
  <1>8. \A x \in Listed(due') : Ahead(x)'
    BY <1>1, <1>6 DEF Ahead, off
  <1>9. Listed(due)' = Listed(due') /\ Listed(seen)' = Listed(seen')
    BY DEF Listed
  <1> QED BY <1>1, <1>7, <1>8, <1>9 DEF PagingInv

LEMMA CountKeeps ==
    ASSUME PagingInv, Count
    PROVE  PagingInv'
  <1>1. /\ step = "count" /\ step' = "rows" /\ totalCount' = Len(table)
        /\ UNCHANGED <<table, currentPage, pageSize, seen, emptyPages, history, writes>>
    BY DEF Count
  <1>2. Len(table) \in Nat
    BY DEF PagingInv, PagingTypeOK
  <1>3. PagingTypeOK'
    BY <1>1, <1>2 DEF PagingInv, PagingTypeOK, history
  <1>4. Undisturbed' <=> Undisturbed
    BY <1>1 DEF Undisturbed, history
  <1>5. \A x : Ahead(x)' <=> Ahead(x)
    BY <1>1 DEF Ahead
  <1>6. Listed(due)' = Listed(due) /\ Listed(seen)' = Listed(seen)
    BY <1>1 DEF Listed, history
  <1> QED BY <1>1, <1>3, <1>4, <1>5, <1>6 DEF PagingInv

LEMMA ReadRowsKeeps ==
    ASSUME PagingInv, ReadRows
    PROVE  PagingInv'
  <1> DEFINE p == Page(currentPage, pageSize)
  <1>1. /\ step = "rows" /\ seen' = seen \o p
        /\ emptyPages' = IF seen' = seen THEN emptyPages + 1 ELSE emptyPages
        /\ UNCHANGED <<table, pageSize, totalCount, history, writes>>
        /\ IF HasNext(totalCount, currentPage, pageSize)
             THEN step' = "count" /\ currentPage' = currentPage + 1
             ELSE step' = "end" /\ currentPage' = currentPage
    BY DEF ReadRows
  <1>2. /\ table \in Seq(Rows) /\ Len(table) \in Nat /\ seen \in Seq(Rows)
        /\ currentPage \in Nat \ {0} /\ pageSize \in Nat \ {0} /\ emptyPages \in Nat
    BY DEF PagingInv, PagingTypeOK
  <1>3. /\ p \in Seq(Rows)
        /\ \A k \in 1 .. Len(table) :
             k > Offset(currentPage, pageSize) /\ k <= Offset(currentPage, pageSize) + pageSize
               => table[k] \in Listed(p)
    BY <1>2, PageHasItsRows
  <1> HIDE DEF p
  <1>4. seen' \in Seq(Rows)
    BY <1>1, <1>2, <1>3
  <1>5. PagingTypeOK'
    BY <1>1, <1>2, <1>4 DEF PagingInv, PagingTypeOK, history
  <1>6. Listed(seen) \subseteq Listed(seen') /\ Listed(p) \subseteq Listed(seen')
    <2>1. /\ DOMAIN seen = 1 .. Len(seen) /\ DOMAIN p = 1 .. Len(p)
          /\ DOMAIN seen' = 1 .. Len(seen) + Len(p)
          /\ Len(seen) \in Nat /\ Len(p) \in Nat
          /\ \A k \in 1 .. Len(seen) : seen'[k] = seen[k]
          /\ \A k \in 1 .. Len(p) : seen'[Len(seen) + k] = p[k]
      BY <1>1, <1>2, <1>3
    <2>2. \A k \in DOMAIN seen : k \in DOMAIN seen' /\ seen'[k] = seen[k]
      BY <2>1
    <2>3. \A k \in DOMAIN p : Len(seen) + k \in DOMAIN seen' /\ seen'[Len(seen) + k] = p[k]
      BY <2>1
    <2> QED BY <2>2, <2>3 DEF Listed
  <1>7. ASSUME Undisturbed, NEW x \in Listed(due), x \notin Listed(seen')
        PROVE  Ahead(x)'
    <2>1. Ahead(x) /\ totalCount = Len(table)
      BY <1>1, <1>6, <1>7 DEF PagingInv
    <2>2. PICK k \in 1 .. Len(table) : table[k] = x /\ k > Offset(currentPage, pageSize)
      BY <2>1 DEF Ahead
    <2>3. k > Offset(currentPage, pageSize) + pageSize
      <3>1. ~ (k <= Offset(currentPage, pageSize) + pageSize)
        BY <1>3, <1>6, <1>7, <2>2
      <3> QED BY <1>2, <3>1, OffsetsGrow
    <2>4. k > Offset(currentPage + 1, pageSize) /\ k > currentPage * pageSize
      BY <1>2, <2>3, OffsetsGrow
    <2>5. Len(table) > currentPage * pageSize
      BY <1>2, <2>4
    <2>6. HasNext(totalCount, currentPage, pageSize)
      BY <1>2, <2>1, <2>5, RowBehindMeansNext
    <2>7. step' = "count" /\ currentPage' = currentPage + 1
      BY <1>1, <2>6
    <2> QED BY <1>1, <2>2, <2>4, <2>7 DEF Ahead
  <1>8. Undisturbed' <=> Undisturbed
    BY <1>1 DEF Undisturbed, history
  <1>9. Listed(due)' = Listed(due) /\ Listed(seen)' = Listed(seen')
    BY <1>1 DEF Listed, history
  <1>10. step' # "rows"
    BY <1>1
  <1> QED BY <1>5, <1>7, <1>8, <1>9, <1>10 DEF PagingInv

\* The writes of the others.
LEMMA InsertKeeps ==
    ASSUME PagingInv, NEW row \in Rows, Insert(row)
    PROVE  PagingInv'
  <1>1. PICK k \in 1 .. Len(table) + 1 : table' = With(row, k)
    BY DEF Insert
  <1>2. /\ writes < MaxWrites /\ step # "end" /\ inserted' = inserted \cup {step}
        /\ writes' = writes + 1 /\ UNCHANGED <<reader, due, deleted>>
    BY DEF Insert
  <1>3. /\ table \in Seq(Rows) /\ Len(table) \in Nat
        /\ currentPage \in Nat \ {0} /\ pageSize \in Nat \ {0}
        /\ DOMAIN table = 1 .. Len(table)
    BY DEF PagingInv, PagingTypeOK
  <1>4. /\ DOMAIN table' = 1 .. Len(table) + 1
        /\ \A i \in 1 .. Len(table) + 1 :
             table'[i] = IF i < k THEN table[i] ELSE IF i = k THEN row ELSE table[i - 1]
        /\ table' = [i \in 1 .. Len(table) + 1 |-> table'[i]]
    BY <1>1 DEF With
  <1>5. table' \in Seq(Rows) /\ Len(table') = Len(table) + 1
    <2>1. ASSUME NEW i \in 1 .. Len(table) + 1 PROVE table'[i] \in Rows
      <3>1. CASE i < k
        BY <1>3, <1>4, <3>1
      <3>2. CASE i = k
        BY <1>3, <1>4, <3>2
      <3>3. CASE i > k
        <4>1. i - 1 \in 1 .. Len(table) /\ ~ (i < k) /\ i # k
          BY <1>3, <3>3
        <4>2. table'[i] = table[i - 1]
          BY <1>4, <4>1
        <4> QED BY <1>3, <4>1, <4>2
      <3> QED BY <1>3, <3>1, <3>2, <3>3
    <2> QED BY <1>3, <1>4, <2>1
  <1>6. PagingTypeOK'
    BY <1>2, <1>5, PagingAssumption DEF PagingInv, PagingTypeOK, reader
  <1>7. ASSUME NEW x, Ahead(x) PROVE Ahead(x)'
    <2>1. PICK i \in 1 .. Len(table) : table[i] = x /\ i > Offset(currentPage, pageSize)
      BY <1>7 DEF Ahead
    <2>2. Offset(currentPage, pageSize) \in Nat
      BY <1>3, OffsetsGrow
    <2>3. \E n \in 1 .. Len(table') : table'[n] = x /\ n > Offset(currentPage, pageSize)
      <3>1. CASE i < k
        BY <1>3, <1>4, <1>5, <2>1, <3>1
      <3>2. CASE i >= k
        <4>1. i + 1 \in 1 .. Len(table') /\ i + 1 > Offset(currentPage, pageSize)
          BY <1>3, <1>5, <2>1, <2>2
        <4>2. ~ (i + 1 < k) /\ i + 1 # k /\ (i + 1) - 1 = i
          BY <1>3, <3>2
        <4>3. table'[i + 1] = table[i]
          BY <1>4, <1>5, <4>1, <4>2
        <4> QED BY <2>1, <4>1, <4>3
      <3> QED BY <1>3, <3>1, <3>2
    <2> QED BY <1>2, <2>3 DEF Ahead, reader
  <1>8. Undisturbed' => Undisturbed /\ step # "rows"
    BY <1>2 DEF Undisturbed
  <1>9. Listed(due)' = Listed(due) /\ Listed(seen)' = Listed(seen) /\ step' = step
    BY <1>2 DEF Listed, reader
  <1> QED BY <1>6, <1>7, <1>8, <1>9 DEF PagingInv

LEMMA DeleteKeeps ==
    ASSUME PagingInv, NEW k \in DOMAIN table, Delete(k)
    PROVE  PagingInv'
  <1>1. /\ writes < MaxWrites /\ table' = Without(k) /\ deleted' = deleted \cup {table[k]}
        /\ writes' = writes + 1 /\ UNCHANGED <<reader, due, inserted>>
    BY DEF Delete
  <1>2. /\ table \in Seq(Rows) /\ Len(table) \in Nat
        /\ DOMAIN table = 1 .. Len(table) /\ table[k] \in Rows
    BY DEF PagingInv, PagingTypeOK
  <1>3. ASSUME NEW i \in 1 .. Len(table) - 1
        PROVE  (IF i < k THEN table[i] ELSE table[i + 1]) \in Rows
    BY <1>2
  <1>4. table' \in Seq(Rows)
    BY <1>1, <1>2, <1>3 DEF Without
  <1>5. PagingTypeOK'
    <2>1. deleted' \subseteq Rows
      BY <1>1, <1>2 DEF PagingInv, PagingTypeOK
    <2>2. writes' \in 0 .. MaxWrites
      BY <1>1, PagingAssumption DEF PagingInv, PagingTypeOK
    <2> QED BY <1>1, <1>4, <2>1, <2>2 DEF PagingInv, PagingTypeOK, reader
  <1>6. ~ Undisturbed'
    BY <1>1 DEF Undisturbed
  <1> QED BY <1>5, <1>6 DEF PagingInv

LEMMA PagingStep ==
    ASSUME PagingInv, [PagingNext]_pagingVars
    PROVE  PagingInv'
  <1>1. CASE UNCHANGED pagingVars
    BY <1>1 DEF pagingVars, reader, history, PagingInv, PagingTypeOK, Undisturbed, Ahead, Listed
  <1>2. CASE Ask
    BY <1>2, AskKeeps
  <1>3. CASE Count
    BY <1>3, CountKeeps
  <1>4. CASE ReadRows
    BY <1>4, ReadRowsKeeps
  <1>5. ASSUME NEW row \in Rows, Insert(row) PROVE PagingInv'
    BY <1>5, InsertKeeps
  <1>6. ASSUME NEW k \in DOMAIN table, Delete(k) PROVE PagingInv'
    BY <1>6, DeleteKeeps
  <1> QED BY <1>1, <1>2, <1>3, <1>4, <1>5, <1>6 DEF PagingNext

\* The invariant of the walk holds in every state.
THEOREM PagingInvariant == PagingSpec => []PagingInv
  <1> QED BY PagingInitially, PagingStep, PTL DEF PagingSpec

\* Table, page and reader have their types.
THEOREM PagingTypeCorrect == PagingSpec => []PagingTypeOK
  <1>1. PagingInv => PagingTypeOK
    BY DEF PagingInv
  <1> QED BY <1>1, PagingInvariant, PTL

\* However long the table and whatever the size of a page: only a row inserted
\* between the count and the rows of a page, or a deletion, hides a row from a
\* reader.
THEOREM StaleCountsOnlySkip == PagingSpec => []OnlyStaleCountsSkip
  <1>1. PagingInv => OnlyStaleCountsSkip
    BY DEF PagingInv, OnlyStaleCountsSkip, Undisturbed, Ahead
  <1> QED BY <1>1, PagingInvariant, PTL

-----------------------------------------------------------------------------
\* The walk nobody disturbs.

Exact == deleted = {} /\ inserted = {}

\* The rows of the table that are not on an earlier page.
Rest(page, size) == SubSeq(table, Offset(page, size) + 1, Len(table))

\* What was read and what is left make up what was due; as long as rows are
\* due, every page asked for has one.
WalkInv ==
    /\ step = "start" => seen = <<>> /\ emptyPages = 0
    /\ Exact /\ step \in {"count", "rows"} =>
          /\ due = seen \o Rest(currentPage, pageSize)
          /\ due # <<>> => Offset(currentPage, pageSize) < Len(table) /\ emptyPages = 0
    /\ Exact /\ step = "end" =>
          /\ seen = due
          /\ due # <<>> => emptyPages = 0

\* The number of pages is the least that holds all rows: a further page has no
\* row on it (RowBehindMeansNext is the other half).
LEMMA NextMeansRowBehind ==
    ASSUME NEW count \in Nat, NEW page \in Nat \ {0}, NEW size \in Nat \ {0},
           HasNext(count, page, size)
    PROVE  count > page * size
  <1>1. ASSUME NEW a \in Nat, page < a \div size
        PROVE  a >= page * size + size
    BY <1>1
  <1>2. count + size - 1 \in Nat /\ page * size \in Nat
    OBVIOUS
  <1>3. count + size - 1 >= page * size + size
    BY <1>1, <1>2 DEF HasNext, TotalPages
  <1> QED BY <1>2, <1>3

\* A page and the rows behind it are the rows that were left.
LEMMA RestSplits ==
    ASSUME NEW T, table \in Seq(T), NEW page \in Nat \ {0}, NEW size \in Nat \ {0}
    PROVE  /\ Page(page, size) \in Seq(T) /\ Rest(page, size) \in Seq(T)
           /\ Rest(page + 1, size) \in Seq(T)
           /\ Rest(page, size) = Page(page, size) \o Rest(page + 1, size)
           /\ Offset(page, size) < Len(table) => Page(page, size) # <<>>
           /\ Offset(page, size) >= Len(table) => Rest(page, size) = <<>>
  <1> DEFINE off == Offset(page, size)
             next == Offset(page + 1, size)
             last == IF next < Len(table) THEN next ELSE Len(table)
  <1>1. off \in Nat /\ next = off + size
    BY OffsetsGrow
  <1>2. Page(page, size) = SubSeq(table, off + 1, last)
    BY <1>1 DEF Page
  <1>3. Rest(page, size) = SubSeq(table, off + 1, Len(table))
    BY DEF Rest
  <1>4. Rest(page + 1, size) = SubSeq(table, next + 1, Len(table))
    BY DEF Rest
  <1> HIDE DEF off, next
  <1>5. Len(table) \in Nat /\ next \in Nat /\ last \in Nat /\ last <= Len(table)
    BY <1>1
  <1>6. /\ \A i \in off + 1 .. last : table[i] \in T
        /\ \A i \in off + 1 .. Len(table) : table[i] \in T
        /\ \A i \in next + 1 .. Len(table) : table[i] \in T
    BY <1>1, <1>5
  <1> HIDE DEF last
  <1> DEFINE p == SubSeq(table, off + 1, last)
             r == SubSeq(table, off + 1, Len(table))
             b == SubSeq(table, next + 1, Len(table))
  <1>7. p \in Seq(T)
    BY <1>1, <1>5, <1>6, SubSeqProperties
  <1>8. r \in Seq(T)
    BY <1>1, <1>5, <1>6, SubSeqProperties
  <1>9. b \in Seq(T)
    BY <1>1, <1>5, <1>6, SubSeqProperties
  <1>10. off >= Len(table) => p = <<>> /\ r = <<>> /\ b = <<>>
    <2> SUFFICES ASSUME off >= Len(table) PROVE p = <<>> /\ r = <<>> /\ b = <<>>
      OBVIOUS
    <2>1. last = Len(table)
      BY <1>1, <1>5 DEF last
    <2>2. p = <<>>
      BY <1>1, <1>5, <2>1, SubSeqEmpty
    <2>3. r = <<>>
      BY <1>1, <1>5, SubSeqEmpty
    <2>4. b = <<>>
      BY <1>1, <1>5, SubSeqEmpty
    <2> QED BY <2>2, <2>3, <2>4
  <1>11. off < Len(table) => p # <<>> /\ r = p \o b
    <2> SUFFICES ASSUME off < Len(table) PROVE p # <<>> /\ r = p \o b
      OBVIOUS
    <2>1. last > off
      BY <1>1, <1>5 DEF last
    <2>2. SubSeq(table, last + 1, Len(table)) = b
      <3>1. CASE last = next
        BY <3>1
      <3>2. CASE last = Len(table) /\ next >= Len(table)
        <4>1. SubSeq(table, Len(table) + 1, Len(table)) = <<>>
          BY <1>5, SubSeqEmpty
        <4>2. b = <<>>
          BY <1>5, <3>2, SubSeqEmpty
        <4> QED BY <3>2, <4>1, <4>2
      <3>3. last = next \/ (last = Len(table) /\ next >= Len(table))
        BY <1>5 DEF last
      <3> QED BY <3>1, <3>2, <3>3
    <2>3. p \o SubSeq(table, last + 1, Len(table)) = r
      <3>1. /\ off + 1 \in 1 .. Len(table) + 1
            /\ last \in (off + 1) - 1 .. Len(table)
            /\ Len(table) \in last .. Len(table)
        BY <1>1, <1>5, <2>1
      <3> QED BY <3>1, ConcatAdjacentSubSeq
    <2>4. Len(p) = last - (off + 1) + 1
      BY <1>1, <1>5, <1>6, <2>1, SubSeqProperties
    <2>5. p # <<>>
      <3> HIDE DEF p
      <3> QED BY <1>1, <1>5, <2>1, <2>4, EmptySeq
    <2> QED BY <2>2, <2>3, <2>5
  <1> HIDE DEF p, r, b
  <1>12. r = p \o b
    <2>1. <<>> \in Seq(T) /\ <<>> = <<>> \o <<>>
      BY ConcatEmptySeq, EmptySeq
    <2>2. off < Len(table) \/ off >= Len(table)
      BY <1>1, <1>5
    <2>3. CASE off >= Len(table)
      <3>1. p = <<>> /\ r = <<>> /\ b = <<>>
        BY <1>10, <2>3
      <3> QED BY ONLY <2>1, <3>1
    <2> QED BY <1>11, <2>2, <2>3
  <1>13. Page(page, size) = p /\ Rest(page, size) = r /\ Rest(page + 1, size) = b
    BY <1>2, <1>3, <1>4 DEF p, r, b
  <1>14. off = Offset(page, size)
    BY DEF off
  <1> QED BY <1>7, <1>8, <1>9, <1>10, <1>11, <1>12, <1>13, <1>14

LEMMA WalkInitially == PagingInit => WalkInv
  BY DEF PagingInit, WalkInv

\* The page read is put behind the pages read before.
LEMMA ReadRowsKeepsWalk ==
    ASSUME PagingInv, WalkInv, ReadRows
    PROVE  WalkInv'
  <1> DEFINE p == Page(currentPage, pageSize)
             rest == Rest(currentPage, pageSize)
             behind == Rest(currentPage + 1, pageSize)
  <1>1. /\ step = "rows" /\ seen' = seen \o p
        /\ emptyPages' = IF seen' = seen THEN emptyPages + 1 ELSE emptyPages
        /\ UNCHANGED <<table, pageSize, totalCount, due, deleted, inserted>>
        /\ IF HasNext(totalCount, currentPage, pageSize)
             THEN step' = "count" /\ currentPage' = currentPage + 1
             ELSE step' = "end" /\ currentPage' = currentPage
    BY DEF ReadRows, history
  <1>2. /\ table \in Seq(Rows) /\ Len(table) \in Nat /\ seen \in Seq(Rows) /\ due \in Seq(Rows)
        /\ currentPage \in Nat \ {0} /\ pageSize \in Nat \ {0}
    BY DEF PagingInv, PagingTypeOK
  <1>3. SUFFICES ASSUME Exact' PROVE WalkInv'
    BY <1>1 DEF WalkInv
  <1>4. /\ due = seen \o rest
        /\ due # <<>> => Offset(currentPage, pageSize) < Len(table) /\ emptyPages = 0
    BY <1>1, <1>3 DEF WalkInv, Exact
  <1>5. totalCount = Len(table)
    BY <1>1, <1>3 DEF PagingInv, Exact, Undisturbed
  <1>6. /\ p \in Seq(Rows) /\ rest \in Seq(Rows) /\ behind \in Seq(Rows)
        /\ rest = p \o behind
        /\ Offset(currentPage, pageSize) < Len(table) => p # <<>>
    BY <1>2, RestSplits
  <1>7. Rest(currentPage, pageSize)' = Rest(currentPage', pageSize)
    BY <1>1 DEF Rest
  <1> HIDE DEF p, rest, behind
  <1>8. due = seen' \o behind
    <2>1. (seen \o p) \o behind = seen \o (p \o behind)
      <3>1. seen \in Seq(Rows) /\ p \in Seq(Rows) /\ behind \in Seq(Rows)
        BY <1>2, <1>6
      <3> QED BY ONLY <3>1, ConcatAssociative, SMT
    <2>2. due = seen \o (p \o behind)
      BY <1>4, <1>6
    <2>3. due = (seen \o p) \o behind
      BY ONLY <2>1, <2>2, Zenon
    <2> QED BY ONLY <2>3, <1>1, Zenon
  <1>9. due # <<>> => emptyPages' = 0
    BY <1>1, <1>2, <1>4, <1>6, ConcatEqualIffEmpty
  <1>10. CASE HasNext(totalCount, currentPage, pageSize)
    <2>1. Len(table) > currentPage * pageSize
      BY <1>2, <1>5, <1>10, NextMeansRowBehind
    <2>2. Offset(currentPage', pageSize) < Len(table)
      BY <1>1, <1>2, <1>10, <2>1, OffsetsGrow
    <2>3. due = seen' \o Rest(currentPage, pageSize)'
      BY <1>1, <1>7, <1>8, <1>10 DEF behind
    <2> QED BY <1>1, <1>9, <1>10, <2>2, <2>3 DEF WalkInv
  <1>11. CASE ~ HasNext(totalCount, currentPage, pageSize)
    <2>1. ~ (Len(table) > currentPage * pageSize)
      BY <1>2, <1>5, <1>11, RowBehindMeansNext
    <2>2. Offset(currentPage + 1, pageSize) >= Len(table)
      <3>1. /\ Offset(currentPage + 1, pageSize) \in Nat
            /\ Offset(currentPage + 1, pageSize) = currentPage * pageSize
        <4>1. currentPage + 1 \in Nat \ {0}
          BY <1>2
        <4> QED BY <1>2, <4>1, OffsetsGrow
      <3> QED BY <1>2, <2>1, <3>1
    <2>3. behind = <<>>
      <3>1. currentPage + 1 \in Nat \ {0}
        BY <1>2
      <3> QED BY <1>2, <2>2, <3>1, RestSplits DEF behind
    <2>4. seen' \in Seq(Rows)
      BY <1>1, <1>2, <1>6, ConcatProperties
    <2>5. seen' = due
      BY <1>8, <2>3, <2>4, ConcatEmptySeq
    <2> QED BY <1>1, <1>9, <1>11, <2>5 DEF WalkInv
  <1> QED BY <1>10, <1>11

LEMMA WalkStep ==
    ASSUME PagingInv, WalkInv, [PagingNext]_pagingVars
    PROVE  WalkInv'
  <1>1. CASE UNCHANGED pagingVars
    BY <1>1 DEF pagingVars, reader, history, WalkInv, Exact, Rest
  <1>2. CASE Ask
    <2>1. /\ step = "start" /\ step' = "count"
          /\ UNCHANGED <<table, seen, emptyPages>>
          /\ due' = SubSeq(table, Offset(currentPage', pageSize') + 1, Len(table))
      BY <1>2 DEF Ask
    <2>2. currentPage' \in Nat \ {0} /\ pageSize' \in Nat \ {0}
      BY <1>2, PagingAssumption DEF Ask, Parsed, IsPositive
    <2>3. table \in Seq(Rows) /\ Len(table) \in Nat
      BY DEF PagingInv, PagingTypeOK
    <2>4. seen' = <<>> /\ emptyPages' = 0
      BY <2>1 DEF WalkInv
    <2>5. due' = Rest(currentPage, pageSize)'
      BY <2>1 DEF Rest
    <2>6. due' = Rest(currentPage', pageSize')
      BY <2>1 DEF Rest
    <2>7. /\ due' \in Seq(Rows)
          /\ Offset(currentPage', pageSize') >= Len(table) => due' = <<>>
      BY <2>2, <2>3, <2>6, RestSplits
    <2>8. due' # <<>> => Offset(currentPage', pageSize') < Len(table)
      <3>1. Offset(currentPage', pageSize') \in Nat
        BY <2>2, OffsetsGrow
      <3>2. Offset(currentPage', pageSize') >= Len(table)
              \/ Offset(currentPage', pageSize') < Len(table)
        BY <2>3, <3>1
      <3> QED BY <2>7, <3>2
    <2>9. due' = seen' \o Rest(currentPage, pageSize)'
      BY <2>4, <2>5, <2>7, ConcatEmptySeq
    <2> QED BY <2>1, <2>4, <2>8, <2>9 DEF WalkInv
  <1>3. CASE Count
    <2>1. step = "count" /\ step' = "rows"
          /\ UNCHANGED <<table, currentPage, pageSize, seen, emptyPages, due, deleted, inserted>>
      BY <1>3 DEF Count, history
    <2> QED BY <2>1 DEF WalkInv, Exact, Rest
  <1>4. CASE ReadRows
    BY <1>4, ReadRowsKeepsWalk
  <1>5. ASSUME NEW row \in Rows, Insert(row) PROVE WalkInv'
    <2>1. inserted' # {} /\ UNCHANGED <<step, seen, emptyPages>>
      BY <1>5 DEF Insert, reader
    <2> QED BY <2>1 DEF WalkInv, Exact
  <1>6. ASSUME NEW k \in DOMAIN table, Delete(k) PROVE WalkInv'
    <2>1. deleted' # {} /\ UNCHANGED <<step, seen, emptyPages>>
      BY <1>6 DEF Delete, reader
    <2> QED BY <2>1 DEF WalkInv, Exact
  <1> QED BY <1>1, <1>2, <1>3, <1>4, <1>5, <1>6 DEF PagingNext

\* What was read and what is left make up what was due, in every state of an
\* undisturbed walk.
THEOREM WalkInvariant == PagingSpec => []WalkInv
  <1>1. PagingInv /\ WalkInv /\ [PagingNext]_pagingVars => WalkInv'
    BY WalkStep
  <1> QED BY <1>1, PagingInvariant, WalkInitially, PTL DEF PagingSpec

\* Whatever the table, the first page and the size of a page: an undisturbed
\* reader sees every row due to it once and in order, and no page is empty
\* (TotalPages, HasNext and skip/take agree at every boundary).
THEOREM QuietWalksAreExact == PagingSpec => []QuietWalkIsExact
  <1>1. WalkInv => QuietWalkIsExact
    BY DEF WalkInv, QuietWalkIsExact, Quiet, Exact
  <1> QED BY <1>1, WalkInvariant, PTL
=============================================================================
