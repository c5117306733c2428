------------------------------- MODULE Paging -------------------------------
(***************************************************************************)
(* PagedList: a reader who walks a table page by page, following hasNext,     *)
(* while others write to it.                                                 *)
(*                                                                          *)
(* toPagedListAsync() awaits the number of rows and returns the query for the *)
(* rows of the page without running it; whoever called it runs it later.  A   *)
(* page is therefore put together from two moments of the table.             *)
(***************************************************************************)
EXTENDS Integers, FiniteSets, Sequences

CONSTANTS
    Rows,           \* the rows there may be
    Parameters,     \* integers a client may send as pageNumber or pageSize
    MaxWrites       \* bound: inserts and deletes

ASSUME PagingAssumption ==
    /\ IsFiniteSet(Rows)
    /\ Parameters \subseteq Int
    /\ MaxWrites \in Nat

VARIABLES
    table,          \* the rows in the order of the query
    step,           \* what the reader does next
    currentPage, pageSize, totalCount,      \* the reader's PagedList
    seen,           \* the rows read, in the order they were read
    emptyPages,     \* history: pages read without a row on them
    due,            \* history: the rows from the first page on, as it was asked for
    deleted,        \* history: rows deleted since then
    inserted,       \* history: what the reader was about to do at each insert
    writes

reader == <<step, currentPage, pageSize, totalCount, seen, emptyPages>>
history == <<due, deleted, inserted>>
pagingVars == <<table, reader, history, writes>>

Listed(s) == {s[k] : k \in DOMAIN s}

\* The table with a row put before position k, and without the one at k.
With(row, k) == [i \in 1 .. Len(table) + 1 |->
    IF i < k THEN table[i] ELSE IF i = k THEN row ELSE table[i - 1]]

Without(k) == [i \in 1 .. Len(table) - 1 |-> IF i < k THEN table[i] ELSE table[i + 1]]

PagingInit ==
    /\ table = <<>>
    /\ step = "start"
    /\ currentPage = 1 /\ pageSize = 10
    /\ totalCount = 0
    /\ seen = <<>>
    /\ emptyPages = 0
    /\ due = <<>>
    /\ deleted = {}
    /\ inserted = {}
    /\ writes = 0

-----------------------------------------------------------------------------
\* PagedList.

\* Variant: a last page that is not full is not counted.
TotalPagesFloor(count, size) == count \div size

\* Math.ceil(count / pageSize)
TotalPages(count, size) == (count + size - 1) \div size

HasNext(count, page, size) == page < TotalPages(count, size)

\* skip((pageNumber - 1) * pageSize)
Offset(page, size) == (page - 1) * size

\* skip() and take() as the database runs them, on a page of the table.
Page(page, size) ==
    LET last == Offset(page, size) + size
    IN  SubSeq(table, Offset(page, size) + 1, IF last < Len(table) THEN last ELSE Len(table))

\* parseInt(value, 10) || default; 0 stands for whatever parseInt makes 0 or
\* NaN of, an absent parameter included.
Parsed(value, default) == IF value = 0 THEN default ELSE value

\* @IsPositive()
IsPositive(n) == n > 0

-----------------------------------------------------------------------------
\* The reader.

\* The first page is asked for.
Ask ==
    /\ step = "start"
    /\ \E n \in Parameters, s \in Parameters :
          /\ IsPositive(Parsed(n, 1)) /\ IsPositive(Parsed(s, 10))
          /\ currentPage' = Parsed(n, 1)
          /\ pageSize' = Parsed(s, 10)
    /\ step' = "count"
    /\ due' = SubSeq(table, Offset(currentPage', pageSize') + 1, Len(table))
    /\ deleted' = {} /\ inserted' = {}
    /\ UNCHANGED <<table, totalCount, seen, emptyPages, writes>>

\* Variant: the rows are counted for the first page only.
CountOnce ==
    /\ step = "count"
    /\ totalCount' = IF seen = <<>> THEN Len(table) ELSE totalCount
    /\ step' = "rows"
    /\ UNCHANGED <<table, currentPage, pageSize, seen, emptyPages, history, writes>>

\* getCount() answers.
Count ==
    /\ step = "count"
    /\ totalCount' = Len(table)
    /\ step' = "rows"
    /\ UNCHANGED <<table, currentPage, pageSize, seen, emptyPages, history, writes>>

\* The caller runs the query of the PagedList and, if there is a next page,
\* asks for it.
ReadRows ==
    /\ step = "rows"
    /\ seen' = seen \o Page(currentPage, pageSize)
    /\ emptyPages' = IF seen' = seen THEN emptyPages + 1 ELSE emptyPages
    /\ IF HasNext(totalCount, currentPage, pageSize)
         THEN step' = "count" /\ currentPage' = currentPage + 1
         ELSE step' = "end" /\ UNCHANGED currentPage
    /\ UNCHANGED <<table, pageSize, totalCount, history, writes>>

-----------------------------------------------------------------------------
\* The others.

Insert(row) ==
    /\ writes < MaxWrites /\ step # "end"
    /\ row \notin Listed(table) \cup deleted
    /\ \E k \in 1 .. Len(table) + 1 : table' = With(row, k)
    /\ inserted' = inserted \cup {step}
    /\ writes' = writes + 1
    /\ UNCHANGED <<reader, due, deleted>>

Delete(k) ==
    /\ writes < MaxWrites /\ step # "end"
    /\ table' = Without(k)
    /\ deleted' = deleted \cup {table[k]}
    /\ writes' = writes + 1
    /\ UNCHANGED <<reader, due, inserted>>

PagingNext ==
    \/ Ask \/ Count \/ ReadRows
    \/ \E row \in Rows : Insert(row)
    \/ \E k \in DOMAIN table : Delete(k)

PagingSpec == PagingInit /\ [][PagingNext]_pagingVars

-----------------------------------------------------------------------------
\* Every variable has its type.
PagingTypeOK ==
    /\ table \in Seq(Rows)
    /\ step \in {"start", "count", "rows", "end"}
    /\ currentPage \in Nat \ {0} /\ pageSize \in Nat \ {0}
    /\ totalCount \in Nat
    /\ seen \in Seq(Rows)
    /\ emptyPages \in Nat
    /\ due \in Seq(Rows)
    /\ deleted \subseteq Rows
    /\ inserted \subseteq {"start", "count", "rows"}
    /\ writes \in 0 .. MaxWrites

Quiet == step = "end" /\ deleted = {} /\ inserted = {}

\* A reader nobody disturbs sees every row from its first page on, once and in
\* order, and hasNext promises it no page without rows
\* (pageList 20, 28, 38 agree with each other at every boundary).
QuietWalkIsExact ==
    Quiet => /\ seen = due
             /\ due # <<>> => emptyPages = 0

\* Rows inserted while the reader walks may show it a row twice.  They hide one
\* from it only if they come between the count of a page and the rows of that
\* page, which toPagedListAsync() leaves to its caller (pageList 36-46): the
\* last page is then the last no more.
OnlyStaleCountsSkip ==
    step = "end" /\ deleted = {} /\ "rows" \notin inserted =>
        Listed(due) \subseteq Listed(seen)
=============================================================================
