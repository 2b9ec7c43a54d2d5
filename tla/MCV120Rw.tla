------------------------------ MODULE MCV120Rw ------------------------------
(***************************************************************************)
(* Model-checking instance of V120Rw: two pages of four bytes, so that    *)
(* rw_open_vme allocates from page 1, the last one; a D32 access is one   *)
(* page.  The cfg chooses the command line.                              *)
(***************************************************************************)
EXTENDS V120Rw

=============================================================================
