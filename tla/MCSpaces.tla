-------------------------------- MODULE MCSpaces -------------------------------
(* A machine of two-unit pages with four pages to a page table.  The user  *)
(* region starts at an entry of its own and spans three; both regions run  *)
(* dry after a few launches, in either order.                              *)
EXTENDS Spaces
=============================================================================
