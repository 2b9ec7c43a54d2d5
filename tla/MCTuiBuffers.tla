---------------------------- MODULE MCTuiBuffers ----------------------------
(***************************************************************************)
(* Four buffer addresses: the buffer list, one CONFIG browser and two      *)
(* browsers added at run time, or a reused address after a kill.  One      *)
(* crate is found at start-up; add-vme may name it or a crate that is not  *)
(* there.  A page of the buffer list shows two rows, so paging stops short *)
(* of the end as well as at it.                                            *)
(***************************************************************************)
EXTENDS TuiBuffers

MCBufs == {"b1", "b2", "b3", "b4"}

=============================================================================
