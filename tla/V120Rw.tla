------------------------------ MODULE V120Rw ------------------------------
(***************************************************************************)
(* The read and write subcommands of the v120 tool (src/v120/rw.c), run    *)
(* against the libV120 model: rw_open_vme opens the crate, adds one       *)
(* VME_REGION for the requested units and allocates it from the last page *)
(* (v120_allocate_vme(.., 8191)); set_up_dwidth and check_align pick the  *)
(* access size; the units are then read or written through region.base,   *)
(* and the handle closed.                                                  *)
(*                                                                         *)
(* The transfer loop changes nothing the library sees, so one step        *)
(* (RwTransfer) stands for it.  Values are not modelled.                  *)
(***************************************************************************)
EXTENDS V120Vme

CONSTANTS
  Ops,        \* subcommands: "read", "write"
  Addresses,  \* VME addresses on the command line
  Counts,     \* read: the count argument; write: the number of values
  Widths      \* -d options: "b", "w", "s" (split), "l"

ASSUME /\ Ops \subseteq {"read", "write"}
       /\ Widths \subseteq {"b", "w", "s", "l"}

VARIABLES
  rpc,   \* where the tool is: "open", "add", "alloc", "wait", "xfer", "close", "done"
  rw     \* the command: [op, addr, n, w]

rwv == <<rpc, rw>>
vars == <<lib, rwv>>

\* parse_dwidth (main.c) and set_up_dwidth: the width of one access.
Dwidth(w) == CASE w = "b" -> "D8EO" [] w \in {"w", "s"} -> "D16" [] w = "l" -> "D32"
UnitSize(w) == CASE w = "b" -> 1 [] w = "w" -> 2 [] w \in {"s", "l"} -> 4

\* rw_open_vme: the region's length is the count times the data width of
\* the bus cycle, and a D16 region gets the V120_D16 configuration.
RegionOf(c) ==
  [addr |-> c.addr,
   len  |-> CASE Dwidth(c.w) = "D16" -> 2 * c.n [] Dwidth(c.w) = "D32" -> 4 * c.n [] OTHER -> c.n,
   cfg  |-> IF Dwidth(c.w) = "D16" THEN "d16" ELSE "plain"]

\* check_align
Aligned(c) == UnitSize(c.w) = 1 \/ c.addr % UnitSize(c.w) = 0

RwInit ==
  /\ Init
  /\ rpc = "open"
  /\ rw \in [op : Ops, addr : Addresses, n : Counts, w : Widths]
  /\ rw.op = "read" => rw.n > 0      \* v120_read rejects a count of 0

\* rw_open_vme: v120_open (v120_next when no crate is given).
RwOpen ==
  /\ rpc = "open"
  /\ \/ Open /\ rpc' = "add"
     \/ rpc' = "done" /\ UNCHANGED lib
  /\ UNCHANGED rw

RwAdd ==
  /\ rpc = "add" /\ AddVmeRegion(RegionOf(rw)) /\ rpc' = "alloc"
  /\ UNCHANGED rw

RwAlloc ==
  /\ rpc = "alloc" /\ AllocateVme(PageCount - 1) /\ rpc' = "wait"
  /\ UNCHANGED rw

\* The return of v120_allocate_vme; -1 closes the handle and fails.  Then
\* set_up_dwidth and check_align, whose failure also closes the handle.
RwChecked ==
  /\ rpc = "wait" /\ apc = "idle"
  /\ rpc' = IF lastOp.ret >= 0 /\ Aligned(rw) THEN "xfer" ELSE "close"
  /\ UNCHANGED <<lib, rw>>

\* v120_read, v120_write_args and v120_write_stdin: the units are read or
\* written through region.base; the library is not called.
RwTransfer ==
  /\ rpc = "xfer" /\ rpc' = "close"
  /\ UNCHANGED <<lib, rw>>

RwClose ==
  /\ rpc = "close" /\ Close /\ rpc' = "done"
  /\ UNCHANGED rw

RwNext ==
  \/ RwOpen \/ RwAdd \/ RwAlloc \/ RwChecked \/ RwTransfer \/ RwClose
  \/ AllocDone /\ UNCHANGED rwv
  \/ \E out \in Outcomes : AllocStep(out) /\ UNCHANGED rwv

RwSpec == RwInit /\ [][RwNext]_vars

====
