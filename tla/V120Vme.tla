------------------------------ MODULE V120Vme ------------------------------
(***************************************************************************)
(* The VME-page half of libV120 (src/libV120/V120.c): a V120_HANDLE's      *)
(* lazily opened VME device, its list of mmap'd areas (mmlist), the       *)
(* crate's page-descriptor registers (pd) and the caller's list of        *)
(* VME_REGIONs, with the calls that change them: v120_open, v120_close,   *)
(* v120_get_vme, v120_get_all_vme, v120_configure_page,                   *)
(* v120_add_vme_region, v120_delete_vme_list and v120_allocate_vme.       *)
(*                                                                         *)
(* Pages and byte addresses are scaled down: PageCount stands for          *)
(* V120_PAGE_COUNT and PageSize for V120_PAGE_SIZE.  The pd array is       *)
(* followed in PCIe memory by the configuration registers; pd indices     *)
(* from PageCount on stand for those words.  A pointer into a mapping is  *)
(* the mapping's id, its first device page and a byte offset.             *)
(*                                                                         *)
(* v120_allocate_vme loops over the region list; each iteration is one    *)
(* step (AllocStep), so that the environment may fail each mmap or        *)
(* malloc on its own.                                                      *)
(***************************************************************************)
EXTENDS Integers, Sequences, FiniteSets

CONSTANTS
  PageCount,   \* V120_PAGE_COUNT
  PageSize,    \* V120_PAGE_SIZE, in bytes
  Configs,     \* V120_PD access configurations a region may ask for
  Regions,     \* [addr, len, cfg] contents of VME_REGIONs callers add
  Garbage,     \* values an uninitialised unsigned int may hold
  PageArgs,    \* page numbers callers pass to v120_get_vme and v120_configure_page
  MaxRegions,  \* bound on the length of the region list
  MaxMaps      \* bound on mmap calls

ASSUME /\ PageCount \in Nat \ {0} /\ PageSize \in Nat \ {0}
       /\ \A r \in Regions : r.addr \in Nat /\ r.len \in Nat /\ r.cfg \in Configs

\* Pages a region needs, as v120_allocate_vme computes them.
NPages(r) == (r.len + (r.addr % PageSize) + PageSize - 1) \div PageSize

\* pd words: the descriptors, then configuration registers a range may
\* run into.
PdIndex == 0..(PageCount + PageCount)
ASSUME \A r \in Regions : NPages(r) <= PageCount

NULL == [id |-> 0, pg |-> -1, off |-> 0]
NoPd == [cfg |-> "none", vpage |-> -1]
Outcomes == {"ok", "openfail", "mmapfail", "nomem"}

VARIABLES
  open,     \* a V120_HANDLE is live (v120_open succeeded, not closed)
  fdVme,    \* h->fd_vme >= 0
  pd,       \* page-descriptor registers, and the words after them
  mmlist,   \* h->mmlist: <<[id, pg, n]>>, head first
  maps,     \* mappings of the VME device the process holds
  nextId,   \* mmap calls so far (ids of mappings)
  list,     \* h->list_head: <<[addr, len, cfg, base, start, end]>>
  apc,      \* "idle", or "loop" inside v120_allocate_vme
  cur,      \* allocate: position of head in list
  pgno,     \* allocate: next page
  endpage,  \* allocate: last page of the last region
  lastOp,   \* the last call that returned: [op, ret]
  fdIrq,    \* h->fd_irq >= 0
  devfds    \* devfds[d]: descriptors of device d the process holds open

lib == <<open, fdVme, pd, mmlist, maps, nextId, list, apc, cur, pgno, endpage, lastOp,
        fdIrq, devfds>>

Devices == {"vme", "irq"}

\* Mutant: the mmap'd area is kept when the descriptor malloc fails.
AllocPagesNoUnmap(pageno, npages, out) ==
  LET m    == [id |-> nextId + 1, pg |-> pageno, n |-> npages]
      Fail(e, fd) == [ptr |-> NULL, err |-> e, fd |-> fd, mm |-> mmlist, mp |-> maps]
  IN CASE pageno < 0 \/ npages < 0         -> Fail("EINVAL", fdVme)
       [] ~fdVme /\ out = "openfail"       -> Fail("EBADFD", FALSE)
       [] out = "mmapfail" \/ npages = 0   -> Fail("ENOMEM", TRUE)
       [] out = "nomem"                    -> [Fail("ENOMEM", TRUE) EXCEPT !.mp = maps \cup {m}]
       [] OTHER -> [ptr |-> [id |-> m.id, pg |-> pageno, off |-> 0], err |-> "OK",
                    fd |-> TRUE, mm |-> <<m>> \o mmlist, mp |-> maps \cup {m}]

\* v120_alloc_pages(h, pageno, npages): the pointer it returns, errno, and
\* the handle's fd_vme, mmlist and mappings afterwards.  out is what the
\* system does: the open of the VME device fails, mmap fails, or the
\* malloc of the list descriptor fails (the area is then munmap'd).
\* mmap of length zero fails.
AllocPages(pageno, npages, out) ==
  LET m    == [id |-> nextId + 1, pg |-> pageno, n |-> npages]
      Fail(e, fd) == [ptr |-> NULL, err |-> e, fd |-> fd, mm |-> mmlist, mp |-> maps]
  IN CASE pageno < 0 \/ npages < 0         -> Fail("EINVAL", fdVme)
       [] ~fdVme /\ out = "openfail"       -> Fail("EBADFD", FALSE)
       [] out = "mmapfail" \/ npages = 0   -> Fail("ENOMEM", TRUE)
       [] out = "nomem"                    -> Fail("ENOMEM", TRUE)
       [] OTHER -> [ptr |-> [id |-> m.id, pg |-> pageno, off |-> 0], err |-> "OK",
                    fd |-> TRUE, mm |-> <<m>> \o mmlist, mp |-> maps \cup {m}]

\* Mutant: v120_get_vme without the check of the end page.
GetVmeNoBound(s, e, out) ==
  IF s > e THEN AllocPages(e, s - e + 1, out) ELSE AllocPages(s, e - s + 1, out)

\* v120_get_vme: the page bounds are swapped if reversed; an end page past
\* the last page is EINVAL.
GetVme(s, e, out) ==
  IF (IF s > e THEN s ELSE e) >= PageCount
  THEN [ptr |-> NULL, err |-> "EINVAL", fd |-> fdVme, mm |-> mmlist, mp |-> maps]
  ELSE IF s > e THEN AllocPages(e, s - e + 1, out) ELSE AllocPages(s, e - s + 1, out)

\* Mutant: every descriptor of the range is given the base's page.
ConfigurePdRangeSamePage(p, startpg, base, cfg, npages) ==
  [i \in DOMAIN p |->
     IF i \in startpg..(startpg + npages - 1)
     THEN [cfg |-> cfg, vpage |-> base \div PageSize]
     ELSE p[i]]

\* v120_configure_pd_range: descriptors startpg .. startpg + npages - 1 map
\* consecutive VME pages from base.  No bound is checked.
ConfigurePdRange(p, startpg, base, cfg, npages) ==
  [i \in DOMAIN p |->
     IF i \in startpg..(startpg + npages - 1)
     THEN [cfg |-> cfg, vpage |-> (base + (i - startpg) * PageSize) \div PageSize]
     ELSE p[i]]

\* The handle's state after a call to v120_alloc_pages with result r.
TakeMap(r) ==
  /\ fdVme' = r.fd
  /\ mmlist' = r.mm
  /\ maps' = r.mp
  /\ nextId' = IF r.ptr = NULL THEN nextId ELSE nextId + 1
  /\ devfds' = [devfds EXCEPT !["vme"] = @ + (IF r.fd /\ ~fdVme THEN 1 ELSE 0)]

Init ==
  /\ open = FALSE
  /\ fdVme = FALSE
  /\ pd = [i \in PdIndex |-> NoPd]
  /\ mmlist = <<>>
  /\ maps = {}
  /\ nextId = 0
  /\ list = <<>>
  /\ apc = "idle"
  /\ cur = 1
  /\ pgno = 0
  /\ endpage = 0
  /\ lastOp = [op |-> "none", ret |-> 0]
  /\ fdIrq = FALSE
  /\ devfds = [d \in Devices |-> 0]

\* v120_open: a new handle with no VME device open, no mappings and an
\* empty region list (its failure paths free everything and change nothing).
Open ==
  /\ ~open
  /\ open' = TRUE
  /\ fdVme' = FALSE
  /\ fdIrq' = FALSE
  /\ lastOp' = [op |-> "open", ret |-> 0]
  /\ UNCHANGED <<pd, mmlist, maps, nextId, list, apc, cur, pgno, endpage, devfds>>

\* v120_close -> v120_cleanup: v120_clean_mem_list unmaps and frees every
\* area of mmlist (each removed from the front by v120_remove_from_mm_list),
\* v120_delete_vme_list unlinks the regions, the IRQ device is closed if
\* fd_irq is set, the VME device if fd_vme is.
HandleFd(d) == IF d = "vme" THEN fdVme ELSE fdIrq

Close ==
  /\ open /\ apc = "idle"
  /\ open' = FALSE
  /\ maps' = maps \ {mmlist[i] : i \in DOMAIN mmlist}
  /\ mmlist' = <<>>
  /\ list' = <<>>
  /\ fdVme' = FALSE
  /\ fdIrq' = FALSE
  /\ devfds' = [d \in Devices |-> devfds[d] - (IF HandleFd(d) THEN 1 ELSE 0)]
  /\ lastOp' = [op |-> "close", ret |-> 0]
  /\ UNCHANGED <<pd, nextId, apc, cur, pgno, endpage>>

\* v120_get_vme(h, s, e) and v120_get_all_vme (s = 0, e = PageCount - 1).
GetVmeCall(s, e, out) ==
  LET r == GetVme(s, e, out)
  IN /\ open /\ apc = "idle" /\ nextId < MaxMaps
     /\ TakeMap(r)
     /\ lastOp' = [op |-> "get_vme", ret |-> IF r.ptr = NULL THEN -1 ELSE 0]
     /\ UNCHANGED <<open, pd, list, apc, cur, pgno, endpage, fdIrq>>

\* v120_configure_page: a page index past the last page or an unaligned
\* base is EINVAL; otherwise the descriptor is written and one page mapped.
ConfigurePage(idx, base, cfg, out) ==
  /\ open /\ apc = "idle" /\ nextId < MaxMaps
  /\ IF idx >= PageCount \/ base % PageSize # 0
     THEN /\ lastOp' = [op |-> "configure_page", ret |-> -1]
          /\ UNCHANGED <<fdVme, pd, mmlist, maps, nextId, devfds>>
     ELSE LET r == AllocPages(idx, 1, out)
          IN /\ pd' = ConfigurePdRange(pd, idx, base, cfg, 1)
             /\ TakeMap(r)
             /\ lastOp' = [op |-> "configure_page", ret |-> IF r.ptr = NULL THEN -1 ELSE 0]
  /\ UNCHANGED <<open, list, apc, cur, pgno, endpage, fdIrq>>

\* v120_add_vme_region: the caller's region, filled as rw_open_vme and
\* add_vme fill it, is pushed on the head of the list.
AddVmeRegion(r) ==
  /\ open /\ apc = "idle" /\ Len(list) < MaxRegions
  /\ list' = <<[addr |-> r.addr, len |-> r.len, cfg |-> r.cfg,
                 base |-> NULL, start |-> 0, end |-> 0]>> \o list
  /\ lastOp' = [op |-> "add_vme_region", ret |-> 0]
  /\ UNCHANGED <<open, fdVme, pd, mmlist, maps, nextId, apc, cur, pgno, endpage, fdIrq, devfds>>

\* v120_delete_vme_list: the list is unlinked; nothing is unmapped.
DeleteVmeList ==
  /\ open /\ apc = "idle"
  /\ list' = <<>>
  /\ lastOp' = [op |-> "delete_vme_list", ret |-> 0]
  /\ UNCHANGED <<open, fdVme, pd, mmlist, maps, nextId, apc, cur, pgno, endpage, fdIrq, devfds>>

\* v120_allocate_vme(h, start_page): a start page past the last page is
\* EINVAL; otherwise the loop begins at the head of the list.  endpage is
\* not initialised: with an empty list the call returns whatever its
\* stack slot held, plus one.
AllocateVme(start) ==
  /\ open /\ apc = "idle" /\ nextId + Len(list) <= MaxMaps
  /\ IF start >= PageCount
     THEN /\ lastOp' = [op |-> "allocate_vme", ret |-> -1]
          /\ UNCHANGED <<apc, cur, pgno, endpage>>
     ELSE /\ apc' = "loop" /\ cur' = 1 /\ pgno' = start
          /\ endpage' \in Garbage
          /\ UNCHANGED lastOp
  /\ UNCHANGED <<open, fdVme, pd, mmlist, maps, nextId, list, fdIrq, devfds>>

\* One iteration of v120_allocate_vme's loop, for the region at cur: the
\* pages are mapped with v120_get_vme, then the descriptors configured
\* with v120_configure_pd_range, and only then is the mapping checked.  On
\* success the region's base is moved to the requested byte and its page
\* range recorded.  endpage is unsigned: with pgno = 0 and no pages it is
\* UINT_MAX, which v120_get_vme receives as -1 and endpage + 1 wraps to 0.
AllocStep(out) ==
  LET h      == list[cur]
      pgoffs == h.addr % PageSize
      npages == NPages(h)
      e      == pgno + npages - 1
      r      == GetVme(pgno, e, out)
  IN /\ apc = "loop" /\ cur <= Len(list)
     /\ TakeMap(r)
     /\ pd' = ConfigurePdRange(pd, pgno, h.addr, h.cfg, npages)
     /\ endpage' = e
     /\ IF r.ptr = NULL
        THEN /\ list' = [list EXCEPT ![cur].base = NULL]
             /\ apc' = "idle"
             /\ lastOp' = [op |-> "allocate_vme", ret |-> -1]
             /\ UNCHANGED <<cur, pgno>>
        ELSE /\ list' = [list EXCEPT ![cur].base = [r.ptr EXCEPT !.off = pgoffs],
                                     ![cur].start = pgno, ![cur].end = e]
             /\ pgno' = pgno + npages
             /\ cur' = cur + 1
             /\ UNCHANGED <<apc, lastOp>>
  /\ UNCHANGED <<open, fdIrq>>

\* The loop ends at the end of the list and returns endpage + 1.
AllocDone ==
  /\ apc = "loop" /\ cur > Len(list)
  /\ apc' = "idle"
  /\ lastOp' = [op |-> "allocate_vme", ret |-> endpage + 1]
  /\ UNCHANGED <<open, fdVme, pd, mmlist, maps, nextId, list, cur, pgno, endpage, fdIrq, devfds>>

\* Mutant: v120_irq_open without the fd_irq < 0 test, opening the device
\* again on every call.
IrqOpenNoCache(ok) ==
  /\ open /\ apc = "idle"
  /\ fdIrq' = (fdIrq \/ ok)
  /\ devfds' = [devfds EXCEPT !["irq"] = @ + (IF ok THEN 1 ELSE 0)]
  /\ lastOp' = [op |-> "irq_open", ret |-> IF fdIrq \/ ok THEN 0 ELSE -1]
  /\ UNCHANGED <<open, fdVme, pd, mmlist, maps, nextId, list, apc, cur, pgno, endpage>>

\* v120_irq_open: the cached fd_irq, or, when it is not set, the IRQ
\* device opened (ok: the open succeeds; the read lock's result is
\* ignored) and cached in the handle.
IrqOpen(ok) ==
  /\ open /\ apc = "idle"
  /\ fdIrq' = (fdIrq \/ ok)
  /\ devfds' = [devfds EXCEPT !["irq"] = @ + (IF ~fdIrq /\ ok THEN 1 ELSE 0)]
  /\ lastOp' = [op |-> "irq_open", ret |-> IF fdIrq \/ ok THEN 0 ELSE -1]
  /\ UNCHANGED <<open, fdVme, pd, mmlist, maps, nextId, list, apc, cur, pgno, endpage>>

\* A caller using the library one call at a time, in any order.
Next ==
  \/ Open \/ Close \/ DeleteVmeList \/ AllocDone
  \/ \E s, e \in PageArgs, out \in Outcomes : GetVmeCall(s, e, out)
  \/ \E out \in Outcomes : GetVmeCall(0, PageCount - 1, out)
  \/ \E idx \in PageArgs, b \in {0, PageSize - 1}, c \in Configs, out \in Outcomes :
       ConfigurePage(idx, b, c, out)
  \/ \E r \in Regions : AddVmeRegion(r)
  \/ \E start \in 0..PageCount : AllocateVme(start)
  \/ \E out \in Outcomes : AllocStep(out)
  \/ \E ok \in BOOLEAN : IrqOpen(ok)

Spec == Init /\ [][Next]_lib

-----------------------------------------------------------------------------
(* Properties                                                              *)

Ptrs == {NULL} \cup [id : 1..MaxMaps, pg : 0..PageCount, off : 0..(PageSize - 1)]

TypeOK ==
  /\ open \in BOOLEAN /\ fdVme \in BOOLEAN
  /\ pd \in [PdIndex -> {NoPd} \cup [cfg : Configs, vpage : Nat]]
  /\ maps \subseteq [id : 1..MaxMaps, pg : 0..(PageCount - 1), n : 1..PageCount]
  /\ apc \in {"idle", "loop"}
  /\ fdIrq \in BOOLEAN /\ devfds \in [Devices -> Nat]
  /\ \A i \in DOMAIN list : list[i].base \in Ptrs

\* Every area the process has mapped from the VME device is on the
\* handle's mmlist, once, and closing the handle leaves none mapped: the
\* failure path of v120_alloc_pages (mmap succeeded, the descriptor malloc
\* failed) must munmap, and v120_cleanup must walk the whole list.
MappingsListed ==
  /\ maps = {mmlist[i] : i \in DOMAIN mmlist}
  /\ Len(mmlist) = Cardinality(maps)
  /\ ~open => maps = {}

\* The process holds a descriptor of the VME or IRQ device exactly while
\* the live handle records it in fd_vme or fd_irq, and never two: the
\* lazy opens of v120_alloc_pages and v120_irq_open must reuse the cached
\* descriptor, and v120_cleanup must close both.
DescriptorsHeld ==
  \A d \in Devices : devfds[d] = IF open /\ HandleFd(d) THEN 1 ELSE 0

\* The device page through which byte k of region h is reached from its
\* base pointer.
DevPage(h, k) == h.base.pg + (h.base.off + k) \div PageSize

\* Byte k of region h, reached through h->base, lies in the mapping base
\* points into, and the descriptor of its page maps it to VME address
\* vme_addr + k with the region's configuration.
Reaches(h, k) ==
  /\ h.base # NULL
  /\ \E m \in maps : m.id = h.base.id /\ DevPage(h, k) < m.pg + m.n
  /\ pd[DevPage(h, k)] = [cfg |-> h.cfg, vpage |-> (h.addr + k) \div PageSize]
  /\ (h.base.off + k) % PageSize = (h.addr + k) % PageSize

\* When v120_allocate_vme returns a page number (not -1), every byte of
\* every region on the list is reached through its base at the VME address
\* it asked for: the loop's page arithmetic, the order of get_vme and
\* configure_pd_range, and the base += pgoffs adjustment must agree.
AllocationReachesRegions ==
  [][apc = "loop" /\ apc' = "idle" /\ lastOp'.ret >= 0 =>
       \A i \in DOMAIN list' : \A k \in 0..(list'[i].len - 1) : Reaches(list'[i], k)]_lib

\* No call writes a page descriptor past the last page: the words after
\* pd are the V120's configuration registers.  v120_allocate_vme writes
\* the descriptors of a region before it looks at whether v120_get_vme
\* refused the range.
PdWritesInBounds ==
  \A i \in PdIndex : i >= PageCount => pd[i] = NoPd

====
