-------------------------- MODULE IrqSubscriptions --------------------------
(***************************************************************************)
(* What the subscription table promises its callers, as a set of           *)
(* subscriptions with no order and no storage: the contract of             *)
(* src/include/irq_vector_table.h, with the preconditions of spec.md 4.B.  *)
(*                                                                         *)
(*  - register_interrupt maps sd to the interrupts matching the request;   *)
(*    it returns -EADDRINUSE for a request an existing subscription        *)
(*    already matches (in find_interrupt's sense), -EINVAL for sd = 0 or   *)
(*    a malformed selector, and may fail for lack of memory.               *)
(*  - release_interrupt removes the subscription with exactly the same     *)
(*    crate, irq and vector owned by sd, or returns -EINVAL.               *)
(*  - release_all_interrupts removes every subscription of sd.             *)
(*                                                                         *)
(* spec.md 4.B asks more of Insert (no overlap at all); the table does     *)
(* not do that, and this module states only what the                     *)
(* header promises.                                                        *)
(***************************************************************************)
EXTENDS Integers, Bitwise

CONSTANTS
  Tokens,      \* connection tokens (socket fds)
  Requests,    \* selectors callers pass: [crate, irq, vector, payload]
  AnyVector    \* the "any vector" value of a selector

VARIABLES
  subs,    \* the subscriptions: [crate, irq, vector, payload, data]
  last     \* the last call and what it returned: [op, sd, req, ret]

vars == <<subs, last>>

\* spec.md 4.B Insert preconditions: a token, a crate, and an IRQ mask
\* inside IRQ1..IRQ7.
Malformed(sd, req) ==
  \/ sd = 0
  \/ req.crate = 0
  \/ req.irq = 0
  \/ req.irq % 2 = 1 \/ req.irq > 254

\* find_interrupt's matching (irq_vector_table.h): crate and irq of the
\* subscription have every bit of the request's, and the vectors are equal
\* unless the subscription's is the wildcard.
Matches(e, req) ==
  /\ (e.crate & req.crate) = req.crate
  /\ (e.irq & req.irq) = req.irq
  /\ e.vector \in {AnyVector, req.vector}

SameSelector(e, req) ==
  e.crate = req.crate /\ e.irq = req.irq /\ e.vector = req.vector

Call(op, sd, req, ret) == last' = [op |-> op, sd |-> sd, req |-> req, ret |-> ret]

Init ==
  /\ subs = {}
  /\ last.op = "none"

Register(sd, req) ==
  \/ Malformed(sd, req) /\ Call("register", sd, req, "EINVAL") /\ UNCHANGED subs
  \/ /\ ~Malformed(sd, req)
     /\ \E e \in subs : Matches(e, req)
     /\ Call("register", sd, req, "EADDRINUSE") /\ UNCHANGED subs
  \/ /\ ~Malformed(sd, req)
     /\ ~\E e \in subs : Matches(e, req)
     /\ \/ /\ subs' = subs \cup {[crate |-> req.crate, irq |-> req.irq, vector |-> req.vector,
                                 payload |-> req.payload, data |-> sd]}
           /\ Call("register", sd, req, "OK")
        \/ Call("register", sd, req, "ENOMEM") /\ UNCHANGED subs

Release(sd, req) ==
  \/ \E e \in subs :
       /\ SameSelector(e, req) /\ e.data = sd
       /\ subs' = subs \ {e}
       /\ Call("release", sd, req, "OK")
  \/ /\ ~\E e \in subs : SameSelector(e, req) /\ e.data = sd
     /\ Call("release", sd, req, "EINVAL") /\ UNCHANGED subs

ReleaseAll(sd) ==
  /\ subs' = {e \in subs : e.data # sd}
  /\ last'.op = "releaseall" /\ last'.sd = sd /\ last'.ret = "OK"

Next ==
  \/ \E sd \in Tokens, req \in Requests : Register(sd, req) \/ Release(sd, req)
  \/ \E sd \in Tokens : ReleaseAll(sd)

Spec == Init /\ [][Next]_vars

=============================================================================
