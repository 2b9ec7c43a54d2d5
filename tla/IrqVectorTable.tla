--------------------------- MODULE IrqVectorTable ---------------------------
(***************************************************************************)
(* The v120irqd subscription table (src/v120irqd/irq_vector_table.c).      *)
(*                                                                         *)
(* The table is one array of table_t slots, grown by INCR slots at a time  *)
(* and never shrunk.  A slot whose data (the owner token, the client's     *)
(* socket descriptor) is 0 is unused; the code keeps the used slots a      *)
(* contiguous prefix, and every iteration (foreach_vector) stops at the    *)
(* first unused slot.  Here the array is the sequence `slots`, its length  *)
(* is the allocated size (vector_table_end - vector_table).                *)
(*                                                                         *)
(* Masks and vectors are integers combined with the Bitwise operators,     *)
(* exactly as the C code combines them.  The 32-bit vector is narrowed to  *)
(* VectorWidth bits: the code only ANDs and compares vectors, and          *)
(* ANYVECTOR is the all-ones value of the narrowed width.                  *)
(*                                                                         *)
(* The table operations are operators returning the caller-visible result  *)
(* and the new slots, so that the daemon model (V120irqd) can call them    *)
(* inside its handlers; module IrqTable lets arbitrary owners call them in *)
(* any order.                                                              *)
(***************************************************************************)
EXTENDS Integers, SequencesExt, Bitwise

CONSTANTS
  CrateIds,     \* crate numbers a crate mask may name (bit n = crate n)
  Tokens,       \* owner tokens (socket descriptors) callers present
  Requests,     \* selectors callers pass to register/release
  VectorWidth,  \* width of the narrowed vector
  INCR,         \* INTERRUPT_VECTOR_INCR: slots added per realloc
  MaxSlots      \* bound on the allocated size, for model checking

ANYIRQ    == 254                        \* 0x00FE
ANYVECTOR == 2^VectorWidth - 1          \* 0xFFFFFFFF, narrowed

Selector == [crate : Nat, irq : Nat, vector : 0..ANYVECTOR, payload : Nat]
Entry    == [crate : Nat, irq : Nat, vector : 0..ANYVECTOR, payload : Nat,
             data : Nat]

ASSUME /\ Tokens \subseteq Nat \ {0}
       /\ Requests \subseteq Selector
       /\ INCR \in Nat \ {0}
       /\ MaxSlots \in Nat

\* A zeroed slot (memset(ptr, 0, sizeof(table_t))).
ZeroEntry == [crate |-> 0, irq |-> 0, vector |-> 0, payload |-> 0, data |-> 0]

-----------------------------------------------------------------------------
(* Helpers of irq_vector_table.c                                           *)

\* Number of slots foreach_vector visits: those before the first slot
\* whose data is 0, or all of them.
Used(s) ==
  LET free == SelectInSeq(s, LAMBDA e : e.data = 0)
  IN  IF free = 0 THEN Len(s) ELSE free - 1

\* Mutant of hashmatch: the entry's bits are tested against the request,
\* the roles of the two operands swapped.
HashMatchSwapped(sel, req) ==
  /\ (sel.crate & req.crate) = sel.crate
  /\ (sel.irq & req.irq) = sel.irq
  /\ (sel.vector & req.vector) = req.vector

\* hashmatch(): every bit of the request is set in the entry.
HashMatch(sel, req) ==
  /\ (sel.crate & req.crate) = req.crate
  /\ (sel.irq & req.irq) = req.irq
  /\ (sel.vector & req.vector) = req.vector

\* hasheq(): crate, irq and vector are identical.
HashEq(sel, req) ==
  /\ sel.crate = req.crate
  /\ sel.irq = req.irq
  /\ sel.vector = req.vector

LocateInterrupt(s, req) ==
  SelectInSubSeq(s, 1, Used(s),
    LAMBDA e : HashMatch(e, req) /\ (e.vector = ANYVECTOR \/ e.vector = req.vector))

\* Mutant of remove_entry: zero the victim without moving the rest down.
RemoveEntryNoShift(s, victim) == [s EXCEPT ![victim] = ZeroEntry]

\* Mutant of remove_entry: move the last used entry into the victim's slot.
RemoveEntrySwapLast(s, victim) ==
  LET last == Used(s)
  IN  [s EXCEPT ![victim] = s[last], ![last] = ZeroEntry]

\* remove_entry(): move every used slot after the victim down one and zero
\* the slot that held the last used entry.
RemoveEntry(s, victim) ==
  LET last == Used(s)
  IN  [i \in 1..Len(s) |->
         IF i < victim \/ i > last THEN s[i]
         ELSE IF i < last THEN s[i + 1]
         ELSE ZeroEntry]

-----------------------------------------------------------------------------
(* The table operations.  Each returns [ret |-> code, slots |-> new slots] *)
(* where code is "OK" or the errno the C function returns negated.         *)

\* find_interrupt(): the owner token (0 if none) and the payload written
\* back into the request.
FindInterrupt(s, req) ==
  LET i == LocateInterrupt(s, req)
  IN  IF i = 0 THEN [data |-> 0, payload |-> req.payload]
               ELSE [data |-> s[i].data, payload |-> s[i].payload]

\* Mutant of register_interrupt: the realloc adds one slot, not INCR.
RegisterInterruptGrowOne(s, sd, req, growOk) ==
  LET free == Used(s) + 1
      grown == Append(s, ZeroEntry)
      store(t) == [t EXCEPT ![free] = [crate |-> req.crate, irq |-> req.irq,
                                         vector |-> req.vector,
                                         payload |-> req.payload, data |-> sd]]
  IN  IF sd = 0 THEN [ret |-> "EINVAL", slots |-> s]
      ELSE IF req.crate = 0 THEN [ret |-> "EINVAL", slots |-> s]
      ELSE IF req.irq = 0 \/ (req.irq & ANYIRQ) # req.irq
           THEN [ret |-> "EINVAL", slots |-> s]
      ELSE IF LocateInterrupt(s, req) # 0 THEN [ret |-> "EADDRINUSE", slots |-> s]
      ELSE IF free <= Len(s) THEN [ret |-> "OK", slots |-> store(s)]
      ELSE IF ~growOk THEN [ret |-> "ENOMEM", slots |-> s]
      ELSE [ret |-> "OK", slots |-> store(grown)]

\* register_interrupt(): argument checks, then reject a request that an
\* existing entry covers, then store it in the first unused slot, growing
\* the array by INCR zeroed slots when there is none.  growOk is whether
\* that realloc succeeds.
RegisterInterrupt(s, sd, req, growOk) ==
  LET free == Used(s) + 1
      grown == s \o [i \in 1..INCR |-> ZeroEntry]
      store(t) == [t EXCEPT ![free] = [crate |-> req.crate, irq |-> req.irq,
                                         vector |-> req.vector,
                                         payload |-> req.payload, data |-> sd]]
  IN  IF sd = 0 THEN [ret |-> "EINVAL", slots |-> s]
      ELSE IF req.crate = 0 THEN [ret |-> "EINVAL", slots |-> s]
      ELSE IF req.irq = 0 \/ (req.irq & ANYIRQ) # req.irq
           THEN [ret |-> "EINVAL", slots |-> s]
      ELSE IF LocateInterrupt(s, req) # 0 THEN [ret |-> "EADDRINUSE", slots |-> s]
      ELSE IF free <= Len(s) THEN [ret |-> "OK", slots |-> store(s)]
      ELSE IF ~growOk THEN [ret |-> "ENOMEM", slots |-> s]
      ELSE [ret |-> "OK", slots |-> store(grown)]

ReleaseInterrupt(s, sd, req) ==
  LET cur == SelectInSubSeq(s, 1, Used(s), LAMBDA e : HashEq(e, req))
  IN  IF cur = 0 THEN [ret |-> "EINVAL", slots |-> s]
      ELSE IF s[cur].data # sd THEN [ret |-> "EINVAL", slots |-> s]
      ELSE [ret |-> "OK", slots |-> RemoveEntry(s, cur)]

\* release_all_interrupts(): foreach_vector(ptr) { while (ptr->data == sd)
\* remove_entry(ptr); }.  The inner while re-examines the same slot after
\* the entries behind it have moved down.
\* Mutant of release_all_interrupts: `if` for `while`, the slot the next
\* entry moved into is skipped.
RECURSIVE ReleaseAllFromIf(_, _, _)
ReleaseAllFromIf(s, sd, p) ==
  IF p > Len(s) \/ s[p].data = 0 THEN s
  ELSE IF s[p].data = sd THEN ReleaseAllFromIf(RemoveEntry(s, p), sd, p + 1)
  ELSE ReleaseAllFromIf(s, sd, p + 1)

RECURSIVE ReleaseAllFrom(_, _, _)
ReleaseAllFrom(s, sd, p) ==
  IF p > Len(s) \/ s[p].data = 0 THEN s
  ELSE IF s[p].data = sd THEN ReleaseAllFrom(RemoveEntry(s, p), sd, p)
  ELSE ReleaseAllFrom(s, sd, p + 1)

ReleaseAllInterrupts(s, sd) == ReleaseAllFrom(s, sd, 1)

\* count_registered_interrupts()
CountRegisteredInterrupts(s) == Used(s)

\* list_registered_interrupts(): irqs[n] is the OR of the irq masks of the
\* used entries whose crate mask has bit n.
ListRegisteredInterrupts(s) ==
  [n \in CrateIds |->
     FoldFunctionOnSet(LAMBDA a, b : a | b, 0, [i \in 1..Used(s) |-> s[i].irq],
                       {i \in 1..Used(s) : (s[i].crate & 2^n) # 0})]

=============================================================================
