---------------------------- MODULE MCPagination ----------------------------
(* Four rows with two sort values, pages of one and two. *)
EXTENDS Pagination

MCIds == 1..4
MCValues == {1, 2}
=============================================================================
