------------------------------ MODULE IrqTable ------------------------------
(***************************************************************************)
(* The subscription table as a component on its own: any owner may call   *)
(* register_interrupt, release_interrupt and release_all_interrupts in any *)
(* order (src/v120irqd/irq_vector_table.c).  lastOp records the call a     *)
(* step made and the value it returned to its caller, so that properties   *)
(* can speak about a call and its result.                                  *)
(***************************************************************************)
EXTENDS IrqVectorTable

VARIABLES
  slots,    \* the table_t array, vector_table .. vector_table_end
  lastOp    \* the last call: [op, sd, req, ret]

vars == <<slots, lastOp>>

NoOp == [op |-> "none", sd |-> 0, req |-> ZeroEntry, ret |-> "OK"]

Init ==
  /\ slots = <<>>               \* vector_table == NULL
  /\ lastOp = NoOp

Register(sd, req, growOk) ==
  LET r == RegisterInterrupt(slots, sd, req, growOk)
  IN  /\ Len(r.slots) <= MaxSlots
      /\ slots' = r.slots
      /\ lastOp' = [op |-> "register", sd |-> sd, req |-> req, ret |-> r.ret]

Release(sd, req) ==
  LET r == ReleaseInterrupt(slots, sd, req)
  IN  /\ slots' = r.slots
      /\ lastOp' = [op |-> "release", sd |-> sd, req |-> req, ret |-> r.ret]

ReleaseAll(sd) ==
  /\ slots' = ReleaseAllInterrupts(slots, sd)
  /\ lastOp' = [op |-> "releaseall", sd |-> sd, req |-> ZeroEntry, ret |-> "OK"]

Next ==
  \/ \E sd \in Tokens, req \in Requests, growOk \in BOOLEAN : Register(sd, req, growOk)
  \/ \E sd \in Tokens, req \in Requests : Release(sd, req)
  \/ \E sd \in Tokens : ReleaseAll(sd)

Spec == Init /\ [][Next]_vars

\* The subscriptions the table holds: its used slots, as a set.
Subscriptions == {slots[i] : i \in 1..Used(slots)}

Abstract == INSTANCE IrqSubscriptions WITH subs <- Subscriptions, last <- lastOp,
                                           AnyVector <- ANYVECTOR

-----------------------------------------------------------------------------
(* Properties                                                              *)

\* The used entries, in table order.
ValidPrefix(s) == SubSeq(s, 1, Used(s))

\* Entry e matches concrete interrupt c the way locate_interrupt does.
Covers(e, c) == HashMatch(e, c) /\ (e.vector = ANYVECTOR \/ e.vector = c.vector)

TypeOK ==
  /\ slots \in Seq(Entry)
  /\ Len(slots) % INCR = 0
  /\ lastOp.op \in {"none", "register", "release", "releaseall"}
  /\ lastOp.ret \in {"OK", "EINVAL", "EADDRINUSE", "ENOMEM"}

\* The comment above table_t (irq_vector_table.c:88-91): the used slots are
\* a contiguous prefix, so that foreach_vector, which stops at the first
\* zero slot, sees every entry.  remove_entry's move-down and zeroing and
\* register_interrupt's choice of slot must keep it.
ContiguousPrefix ==
  \A i \in 1..Len(slots) : slots[i].data = 0 => \A j \in i..Len(slots) : slots[j] = ZeroEntry

ReleaseAllIsFilter ==
  [][lastOp'.op = "releaseall" =>
       /\ ValidPrefix(slots') = SelectSeq(ValidPrefix(slots), LAMBDA e : e.data # lastOp'.sd)
       /\ Len(slots') = Len(slots)]_vars

\* No entry is entirely covered by an earlier one, so every entry can be
\* the first match of some interrupt: a specific subscription registered
\* before a wildcard (the order spec.md 4.B and v120irqd.h tell clients to
\* use) is never shadowed by it.  register_interrupt's covering check and
\* the order-preserving compaction of remove_entry must together keep it.
NoEntryShadowed ==
  \A i, j \in 1..Used(slots) : i < j => ~Covers(slots[i], slots[j])

\* The table implements the contract of irq_vector_table.h: seen as the
\* set of its used slots, every register, release and release_all call is
\* a call of IrqSubscriptions with the same result.  The array's growth,
\* first-free-slot insertion, first-match lookup and release, and
\* remove_entry's compaction must add up to set insertion and removal.
ImplementsSubscriptions == Abstract!Spec

=============================================================================
