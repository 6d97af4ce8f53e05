------------------------------ MODULE Paging ------------------------------
(***************************************************************************)
(* Reading a table page by page.                                           *)
(*                                                                         *)
(* JobRepository pages with limit and offset and without an order: each    *)
(* page is a query of its own on the table as it is then, and the database *)
(* may answer it from any order of the rows.  So a page is any set of rows *)
(* of the right size, and the loop ends with the first short page.         *)
(***************************************************************************)
EXTENDS Naturals, FiniteSets

CONSTANT PageSize    \* rows per page (1000 in the code)

ASSUME PageAssumption == PageSize \in Nat \ {0}

RowsFrom(table, offset) ==
    LET left == IF Cardinality(table) <= offset THEN 0
                ELSE Cardinality(table) - offset
    IN  IF left < PageSize THEN left ELSE PageSize

\* The loop ends with a short page.
LastPage(page) == Cardinality(page) < PageSize

\* The pages a query at offset may return.  While the table fits into one
\* page there is nothing to choose.
PagesAt(table, offset) ==
    {page \in SUBSET table : Cardinality(page) = RowsFrom(table, offset)}
=============================================================================
