------------------------------- MODULE MCPaging -------------------------------
(* A small instance of Paging for TLC: three rows of three timestamps, in    *)
(* pages of one or two.                                                      *)
EXTENDS Paging

MCRows == 1..3
MCTimes == 1..3
MCLimits == {-1, 7}
=============================================================================
