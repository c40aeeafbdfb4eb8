------------------------------ MODULE Pagination ------------------------------
(* libs/pagination.py: the pages of a list of n rows, numbered from 1.         *)
EXTENDS Naturals

CONSTANT PageSize       \* page_size of the view, or the one of the request

\* Paginator.page
Bottom(page) == (page - 1) * PageSize
Top(page, n) == IF Bottom(page) + PageSize >= n THEN n ELSE Bottom(page) + PageSize
Slice(s, page, n) == {i \in DOMAIN s : Bottom(page) < i /\ i <= Top(page, n)}
HasNext(page, n) == Top(page, n) < n
=============================================================================
