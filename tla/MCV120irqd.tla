----------------------------- MODULE MCV120irqd -----------------------------
(***************************************************************************)
(* Model-checking instance of V120irqd: two client processes, crate 0     *)
(* attached (crate 1 may still be named in a request's crate mask), IRQ   *)
(* lines 1 and 2, a 1-bit vector (ANYVECTOR = 1, devices present 0).      *)
(***************************************************************************)
EXTENDS V120irqd, TLC

Sel(c, i, v, p) == [crate |-> c, irq |-> i, vector |-> v, payload |-> p]

\* One subscription: crate 0, IRQ1, any vector.
MCRequests1 == { Sel(1, 2, 1, 1) }

MCEvents == { Sel(1, 2, 0, 0) }   \* crate 0, IRQ1, vector 0

(* The daemon's scratch variables are fingerprinted only where they are   *)
(* live: revents, idx and nevents during a scan; the process_vme context  *)
(* inside process_vme; afd while blocked on it; actx while awaiting.  Out *)
(* of those states each is overwritten before it is read.                 *)
Live(b, v) == IF b THEN v ELSE 0

MCView ==
  <<slots, hw, spc, pollcap, cli,
    [i \in 1..Len(pfds) |-> [pfds[i] EXCEPT !.rev = pfds[i].rev /\ spc # "poll"]],
    Live(spc # "poll", <<idx, nevents>>),
    Live(spc = "vme" \/ (spc = "await" /\ actx = "vme"), <<vk, cen>>),
    Live(spc = "await", <<cirq, actx>>),
    Live(spc \in {"await", "crecv"}, afd)>>

MCSymmetry == Permutations(Clients)

=============================================================================
