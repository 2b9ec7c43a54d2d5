----------------------------- MODULE TuiBuffers -----------------------------
(***************************************************************************)
(* The buffer list of v120_tui (src/v120_tui/buffer.c) and the commands    *)
(* that change it: the CONFIG browsers openallcrates adds at start-up, the *)
(* "Buffer list" buffer of bufferlist_start, the browsers add-dummy and    *)
(* add-vme add (browsernew, then buffershuffle), the cursor of the buffer  *)
(* list, goto, next, toggle, home, kill, and quit.                         *)
(*                                                                         *)
(* A buffer is a model value of Bufs; a freed buffer's value can be        *)
(* handed out again by the next allocation, as malloc does.  The global    *)
(* list gbl.g_headbuf is a sequence, head first.  What a browser shows,    *)
(* its region and its register names are not modelled: only the kind of   *)
(* a buffer, which decides what its kill does.                             *)
(***************************************************************************)
EXTENDS Integers, SequencesExt

CONSTANTS
  Bufs,      \* buffer_t addresses
  Crates,    \* crates v120_open finds at start-up
  CrateIds,  \* crate ids an add-vme command may name
  Rows,      \* btnrows(): rows of the buffer list page
  Null

Kinds == {"list", "config", "vme"}

VARIABLES
  phase,    \* "crates" (openallcrates), "run", "exited", "undefined"
  pending,  \* crates openallcrates has still to visit
  list,     \* gbl.g_headbuf and the b_next chain
  kind,     \* kind[b]: what buffer b was last allocated as
  cur,      \* gbl.g_buffer
  last,     \* gbl.g_lastbuf
  cpos      \* the buffer list's cursor (static cpos)

vars == <<phase, pending, list, kind, cur, last, cpos>>

Live == Range(list)
Free == Bufs \ Live

\* pos2buf: the buffer at position pos, NULL past the end.
Pos2Buf(pos) == IF pos < Len(list) THEN list[pos + 1] ELSE Null

\* bufferadd2list: push on the head.
Push(b) == <<b>> \o list

\* buffershuffle: swap the first two buffers, if there are two.
Shuffle(s) == IF Len(s) >= 2 THEN <<s[2], s[1]>> \o SubSeq(s, 3, Len(s)) ELSE s

\* buffergoto: the current buffer becomes the last one.  Its m_setto and
\* splash read the target through the pointer; if the target has been
\* freed what the program does next is undefined, and the model stops.
Goto(p) ==
  /\ last' = cur
  /\ cur' = p
  /\ phase' = IF p \in Live THEN phase ELSE "undefined"

Init ==
  /\ phase = "crates"
  /\ pending = Crates
  /\ list = <<>>
  /\ kind = [b \in Bufs |-> "config"]
  /\ cur = Null
  /\ last = Null
  /\ cpos = 0

\* openallcrates visits crates in order; ctrlnew adds a CONFIG browser for
\* each, or nothing when one of its mallocs or browsernew fails.  No
\* shuffle: the buffer list does not exist yet.
CtrlNew ==
  /\ phase = "crates" /\ pending # {}
  /\ pending' = pending \ {Min(pending)}
  /\ \/ \E b \in Free : list' = Push(b) /\ kind' = [kind EXCEPT ![b] = "config"]
     \/ UNCHANGED <<list, kind>>
  /\ UNCHANGED <<phase, cur, last, cpos>>

\* bufferlist_start, then main: exit(1) if g_buffer is NULL, else
\* buffergoto(g_buffer).  When buffernew fails, g_buffer is the head of
\* the list anyway: the first CONFIG browser, if there is one.
BufferListStart ==
  /\ phase = "crates" /\ pending = {}
  /\ \/ \E b \in Free :
          /\ list' = Push(b) /\ kind' = [kind EXCEPT ![b] = "list"]
          /\ cur' = b /\ last' = b /\ phase' = "run"
     \/ /\ list # <<>>
        /\ cur' = list[1] /\ last' = list[1] /\ phase' = "run"
        /\ UNCHANGED <<list, kind>>
     \/ list = <<>> /\ phase' = "exited" /\ UNCHANGED <<list, kind, cur, last>>
  /\ cpos' = 0
  /\ UNCHANGED pending

Run == phase = "run"

\* Mutant: add_dummy without the buffershuffle.
AddDummyNoShuffle ==
  /\ Run
  /\ \/ \E b \in Free : list' = Push(b) /\ kind' = [kind EXCEPT ![b] = "vme"]
     \/ UNCHANGED <<list, kind>>
  /\ UNCHANGED <<phase, pending, cur, last, cpos>>

\* add_dummy: browsernew and, if it gave a buffer, buffershuffle.  The
\* region and scratch memory are allocated first; any failure adds nothing.
AddDummy ==
  /\ Run
  /\ \/ \E b \in Free : list' = Shuffle(Push(b)) /\ kind' = [kind EXCEPT ![b] = "vme"]
     \/ UNCHANGED <<list, kind>>
  /\ UNCHANGED <<phase, pending, cur, last, cpos>>

\* add_vme: nothing for a crate with no handle, or when the region cannot
\* be added or allocated; else browsernew and buffershuffle.
AddVme(k) ==
  /\ Run
  /\ \/ /\ k \in Crates
        /\ \E b \in Free : list' = Shuffle(Push(b)) /\ kind' = [kind EXCEPT ![b] = "vme"]
     \/ UNCHANGED <<list, kind>>
  /\ UNCHANGED <<phase, pending, cur, last, cpos>>

\* The cursor keys of the buffer list (bumode): buup, budn, bupgup,
\* bupgdn, buend, buhome.  They act only while it is the current buffer.
OnList == Run /\ kind[cur] = "list"

SetCursor(n) == cpos' = n /\ UNCHANGED <<phase, pending, list, kind, cur, last>>

\* Mutant: buup without its cpos > 0 test.
BuUpNoGuard == OnList /\ SetCursor(cpos - 1)

BuUp == OnList /\ cpos > 0 /\ SetCursor(cpos - 1)

BuDn == OnList /\ Pos2Buf(cpos) # Null /\ Pos2Buf(cpos + 1) # Null /\ SetCursor(cpos + 1)

BuPgUp == OnList /\ SetCursor(IF cpos - Rows < 0 THEN 0 ELSE cpos - Rows)

BuPgDn ==
  /\ OnList /\ Pos2Buf(cpos) # Null
  /\ SetCursor(IF cpos + Rows < Len(list) - 1 THEN cpos + Rows ELSE Len(list) - 1)

BuEnd == OnList /\ SetCursor(IF list = <<>> THEN 0 ELSE Len(list) - 1)

BuHome == OnList /\ SetCursor(0)

\* bugoto (Enter in the buffer list): go to the buffer under the cursor.
BuGoto ==
  /\ OnList /\ Pos2Buf(cpos) # Null
  /\ Goto(Pos2Buf(cpos))
  /\ UNCHANGED <<pending, list, kind, cpos>>

\* Mutant: bufferkill without "cpos = 0".
BufferKillNoCursorReset(q) ==
  /\ q \in Live
  /\ LET i == SelectInSeq(list, LAMBDA b : b = q)
         p == list[i - 1]
     IN IF i = 1
        THEN list' = Tail(list) /\ UNCHANGED <<cur, last, cpos>>
        ELSE /\ list' = RemoveAt(list, i)
             /\ UNCHANGED cpos
             /\ IF cur = q THEN cur' = p /\ last' = p ELSE UNCHANGED <<cur, last>>
  /\ UNCHANGED <<phase, pending, kind>>

\* bufferkill: the head is unlinked and freed with nothing else touched
\* (only bufferclean passes it); any other buffer is unlinked, the cursor
\* reset, and if it was the current buffer its predecessor made current
\* through buffergoto, which also makes the predecessor the last buffer.
\* g_lastbuf is not looked at.
BufferKill(q) ==
  /\ q \in Live
  /\ LET i == SelectInSeq(list, LAMBDA b : b = q)
         p == list[i - 1]
     IN IF i = 1
        THEN list' = Tail(list) /\ UNCHANGED <<cur, last, cpos>>
        ELSE /\ list' = RemoveAt(list, i)
             /\ cpos' = 0
             /\ IF cur = q THEN cur' = p /\ last' = p ELSE UNCHANGED <<cur, last>>
  /\ UNCHANGED <<phase, pending, kind>>

\* brkill: a CONFIG browser (vme_addr < 0) is refused; any other browser
\* is freed by brquit, whose last step is bufferkill.
BrKill(b) == kind[b] = "vme" /\ BufferKill(b)

\* bukill: kill the buffer under the cursor, unless it is the head, a
\* buffer list, or the buffer list itself; then that buffer's m_kill.
BuKill(pbuf) ==
  LET p == Pos2Buf(cpos) IN
  /\ p \in Live   \* pos2buf is not NULL here: CursorInRange
  /\ p # list[1] /\ kind[p] # "list" /\ p # pbuf
  /\ BrKill(p)

\* inpkill: the current buffer's m_kill on itself.
InpKill ==
  /\ Run
  /\ IF kind[cur] = "list" THEN BuKill(cur) ELSE BrKill(cur)

\* inpnext / buffernext: the buffer after the current one, else the head.
InpNext ==
  /\ Run
  /\ LET i == SelectInSeq(list, LAMBDA b : b = cur)
     IN Goto(IF i < Len(list) THEN list[i + 1] ELSE list[1])
  /\ UNCHANGED <<pending, list, kind, cpos>>

\* inptoggle / bufferback: buffergoto(g_lastbuf).
InpToggle == Run /\ Goto(last) /\ UNCHANGED <<pending, list, kind, cpos>>

\* inphome: buffergoto(g_headbuf).
InpHome == Run /\ Goto(list[1]) /\ UNCHANGED <<pending, list, kind, cpos>>

\* inpquit, from the keyboard: quit() runs bufferclean, which kills every
\* buffer from the head on and clears the three pointers, then exits.
Quit ==
  /\ Run
  /\ list' = <<>> /\ cur' = Null /\ last' = Null /\ phase' = "exited"
  /\ UNCHANGED <<pending, kind, cpos>>

Next ==
  \/ CtrlNew \/ BufferListStart
  \/ AddDummy \/ \E k \in CrateIds : AddVme(k)
  \/ BuUp \/ BuDn \/ BuPgUp \/ BuPgDn \/ BuEnd \/ BuHome \/ BuGoto
  \/ InpKill \/ InpNext \/ InpToggle \/ InpHome \/ Quit

Spec == Init /\ [][Next]_vars

-----------------------------------------------------------------------------

TypeOK ==
  /\ phase \in {"crates", "run", "exited", "undefined"}
  /\ pending \subseteq Crates
  /\ list \in Seq(Bufs) /\ Len(list) = Cardinality(Live)
  /\ kind \in [Bufs -> Kinds]
  /\ cur \in Bufs \cup {Null} /\ last \in Bufs \cup {Null}
  /\ cpos \in Nat

\* While the program runs, the "Buffer list" buffer, once it exists, is the
\* head of the list: every browser added after bufferlist_start must be
\* shuffled behind it, and no kill may unlink it, or inphome and bukill's
\* "cannot kill the head" check would refer to a browser.
BufferListAtHead ==
  Run /\ (\E b \in Live : kind[b] = "list") => kind[list[1]] = "list"

\* The buffer list's cursor always names a buffer on the list, so pos2buf
\* never returns NULL to bukill, which dereferences it: every kill resets
\* the cursor and no cursor key moves it past the last buffer.
CursorInRange == Run => cpos < Len(list)

\* buffergoto is only ever handed a buffer that is on the list: g_buffer
\* never points at freed memory.
GotoLive == [][cur' # cur /\ cur' # Null => cur' \in Range(list')]_vars

=============================================================================
