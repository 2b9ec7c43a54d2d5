------------------------------ MODULE MCV120Vme ------------------------------
(***************************************************************************)
(* Model-checking instance of V120Vme: two pages of two bytes, two      *)
(* access configurations, and regions that are page-aligned, unaligned    *)
(* and spanning two pages, and empty.                         *)
(***************************************************************************)
EXTENDS V120Vme

Reg(a, l, c) == [addr |-> a, len |-> l, cfg |-> c]

MCRegions ==
  { Reg(0, 2, "d16"),   \* one aligned page
    Reg(1, 2, "d32"),   \* unaligned, spans two pages
    Reg(2, 0, "d32") }  \* empty (a write of v120 with no values)

\* The fingerprint leaves out the allocate loop's locals outside the loop
\* (AllocateVme sets them all before they are read) and the record of the
\* last call (read only by the action properties, on the step that sets it).
MCView ==
  <<open, fdVme, fdIrq, devfds, pd, mmlist, maps, nextId, list, apc,
    IF apc = "loop" THEN <<cur, pgno, endpage>> ELSE <<>> >>

=============================================================================
