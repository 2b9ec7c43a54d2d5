----------------------------- MODULE MCIrqTable -----------------------------
(***************************************************************************)
(* Model-checking instance of IrqTable: two crates, IRQ lines 1 and 2, a   *)
(* 2-bit vector (ANYVECTOR = 3), two owners, and requests that include     *)
(* specific and wildcard selectors, multi-crate and multi-line masks, and  *)
(* the illegal masks register_interrupt rejects.                           *)
(***************************************************************************)
EXTENDS IrqTable

Sel(c, i, v, p) == [crate |-> c, irq |-> i, vector |-> v, payload |-> p]

MCRequests ==
  { Sel(1, 2, 1, 1),   \* crate 0, IRQ1, vector 1
    Sel(1, 2, 3, 2),   \* crate 0, IRQ1, any vector
    Sel(3, 2, 3, 3),   \* crates 0 and 1, IRQ1, any vector
    Sel(2, 6, 1, 4),   \* crate 1, IRQ1 and IRQ2, vector 1
    Sel(0, 2, 1, 5),   \* illegal: no crate
    Sel(1, 1, 1, 6) }  \* illegal: IRQ bit 0

=============================================================================
