------------------------------ MODULE V120irqd ------------------------------
(***************************************************************************)
(* The v120irqd dispatcher loop (src/v120irqd/v120irqd.c) together with   *)
(* the crates' interrupt registers, the client library calls of           *)
(* src/libV120irqd/interrupts.c and the SOCK_SEQPACKET connections that   *)
(* join them.                                                              *)
(*                                                                         *)
(* The daemon is one thread.  It blocks in ppoll (Poll), then scans the   *)
(* pollfd list using the revents ppoll left there (Scan...).  Inside a    *)
(* handler it blocks twice: in v120irqd_interrupt, waiting for a client's *)
(* reply to IRQ_SIGNAL (spc = "await"), and in the read of process_client *)
(* (spc = "crecv").  Clients are processes calling the library; each call *)
(* is a send followed by a blocking receive.  Lines are asserted by the   *)
(* crates' devices (AssertLine) and cleared either by the interrupt           *)
(* acknowledge (a release-on-acknowledge device) or by the client that    *)
(* handles the interrupt.                                                  *)
(*                                                                         *)
(* The subscription table is the one of IrqVectorTable; its owner token   *)
(* is the server's file descriptor of the connection.                     *)
(***************************************************************************)
EXTENDS IrqVectorTable, FiniteSets

CONSTANTS
  Clients,      \* client processes
  Crates,       \* crate numbers with an interrupt endpoint (v120_info)
  Lines,        \* IRQ lines (in 1..7) that devices may assert
  AllowFake,    \* settings.allowFakeIrq (--fake-ok)
  Events,       \* concrete selectors a client (fakeirq) may fake
  MaxAsserts,   \* bound on line assertions
  MaxConnects   \* bound on connections a client opens

ASSUME /\ Crates \subseteq CrateIds
       /\ Lines \subseteq 1..7
       /\ AllowFake \in BOOLEAN
       /\ Events \subseteq Selector
       /\ Tokens = 1..Cardinality(Clients)

Msgs == {"REQUEST_IRQ", "RELEASE_IRQ", "IRQ_SIGNAL", "SERVER_STATUS", "ACK", "NAK"}
NoSel == [crate |-> 0, irq |-> 0, vector |-> 0, payload |-> 0]
Frame(m, s) == [msg |-> m, sel |-> s]

VARIABLES
  slots,     \* the subscription table
  irqen,     \* irqen[k]: crate k's interrupt enable register
  pending,   \* pending[k]: crate k's irqstatus (asserted lines)
  asserts,   \* number of line assertions so far
  roak,      \* roak[k]: lines of crate k whose device releases on acknowledge
  spc,       \* where the daemon is: poll, scan, vme, await, crecv, exited
  pfds,      \* list_pollfds: <<[kind, id, rev]>>, id = crate or fd
  pollcap,   \* allocated length of list_pollfds (len at the last realloc)
  idx,       \* the mainloop's index into pfds
  nevents,   \* events ppoll reported and not yet handled
  vk,        \* process_vme: the crate
  cen,       \* process_vme: the cached irqen
  cirq,      \* process_vme: the IRQ being delivered
  afd,       \* fd the daemon is blocked reading (await or crecv)
  actx,      \* what the awaited reply is for: "vme" or "fake"
  backlog,   \* connections not yet accepted, in order
  fdOf,      \* fdOf[c]: the daemon's fd for c's connection, 0 if none
  cst,       \* cst[c]: what client c is doing
  pend,      \* pend[c]: selector of c's current call or signal
  c2s,       \* c2s[c]: frames queued from c to the daemon
  s2c,       \* s2c[c]: frames queued from the daemon to c
  regs,      \* regs[c]: subscriptions c was told (ACK) it holds
  conns      \* conns[c]: connections c has opened

hw   == <<irqen, pending, asserts, roak>>
srv  == <<spc, pfds, pollcap, idx, nevents, vk, cen, cirq, afd, actx>>
cli  == <<backlog, fdOf, cst, pend, c2s, s2c, regs, conns>>
vars == <<slots, hw, srv, cli>>

CStates == {"out", "idle", "req", "rel", "fake", "status", "getirq", "handling"}

\* The client whose connection the daemon holds as fd f.
ClientOf(f) == CHOOSE c \in Clients : fdOf[c] = f

\* The peer of fd f has closed its socket.
PeerClosed(f) == cst[ClientOf(f)] = "out"

\* v120irqd_msg_send from the daemon to fd f: a frame to a closed peer is
\* not delivered (write fails with EPIPE).
SendTo(f, m) ==
  LET c == ClientOf(f)
  IN  IF cst[c] = "out" THEN s2c ELSE [s2c EXCEPT ![c] = Append(@, m)]

\* Highest set bit in 1..7 of a masked irqstatus (the for loop of
\* process_vme, irq = 7 down to 1).
HighestIrq(st) ==
  CHOOSE l \in 1..7 : (st & 2^l) # 0 /\ \A m \in (l + 1)..7 : (st & 2^m) = 0

\* enable_interrupts(): the test is `st->crate && (1 << cratenumber)`.
EnableInterrupts(en, sel) ==
  [k \in Crates |-> IF sel.crate # 0 /\ 2^k # 0 THEN en[k] | sel.irq ELSE en[k]]

\* disable_unused_interrupts(): every crate's enables become the lines the
\* table lists for it.
DisableUnusedInterrupts(s) ==
  LET irqs == ListRegisteredInterrupts(s) IN [k \in Crates |-> irqs[k]]

\* Lowest fd not open: the kernel's choice for accept().
FreeFd == CHOOSE f \in Tokens : (\A c \in Clients : fdOf[c] # f)
                               /\ \A g \in Tokens : g < f => \E c \in Clients : fdOf[c] = g

\* append_fd: len_pollfds grows by one and the entry is written at the
\* new end.  (The realloc is the caller's pollcap.)
AppendFd(list, e) == Append(list, e)

\* remove_fd: the entries after idx move down one place.  Its range check
\* (a client index, past the listener) holds at every call, since the
\* only caller removes the client entry being scanned.
RemoveFd(list, i) == RemoveAt(list, i)

\* configureVmeEndpoints: crates 0..15 in order, each one whose handle
\* and interrupt endpoint open (the set Crates), appended to the empty
\* list.
ConfigureVmeEndpoints ==
  FoldLeft(LAMBDA l, k : AppendFd(l, [kind |-> "vme", id |-> k, rev |-> FALSE]),
           <<>>, SetToSortSeq(Crates, <))

\* configureServerSocket: the listener right after the crates.
ConfigureServerSocket(list) == AppendFd(list, [kind |-> "listen", id |-> 0, rev |-> FALSE])

\* configureClientSocket: the accepted fd; r is the revents the new
\* memory holds.
ConfigureClientSocket(list, fd, r) == AppendFd(list, [kind |-> "client", id |-> fd, rev |-> r])

\* notify_irq: the target find_interrupt gives for a concrete selector
\* (data 0: no target, -EINVAL); the caller sends IRQ_SIGNAL to it.
NotifyIrq(s, sel) == FindInterrupt(s, sel)

Init ==
  /\ slots = <<>>
  /\ irqen = [k \in Crates |-> 0]
  /\ pending = [k \in Crates |-> 0]
  /\ asserts = 0
  /\ roak \in [Crates -> SUBSET Lines]
  /\ spc = "poll"
  \* configureVmeEndpoints then configureServerSocket
  /\ pfds = ConfigureServerSocket(ConfigureVmeEndpoints)
  /\ pollcap = Cardinality(Crates) + 1
  /\ idx = 1 /\ nevents = 0
  /\ vk = CHOOSE k \in Crates : TRUE
  /\ cen = 0 /\ cirq = 0 /\ afd = 0 /\ actx = "vme"
  /\ backlog = <<>>
  /\ fdOf = [c \in Clients |-> 0]
  /\ cst = [c \in Clients |-> "out"]
  /\ pend = [c \in Clients |-> NoSel]
  /\ c2s = [c \in Clients |-> <<>>]
  /\ s2c = [c \in Clients |-> <<>>]
  /\ regs = [c \in Clients |-> {}]
  /\ conns = [c \in Clients |-> 0]

-----------------------------------------------------------------------------
(* The daemon: mainloop and process_vme                                    *)

\* A pollfd ppoll reports readable.  A crate's interrupt endpoint is
\* readable while an enabled line is asserted; the listener while a
\* connection waits in the backlog; a client socket while a frame is
\* queued or its peer has hung up.
Ready(p) ==
  CASE p.kind = "vme"    -> (pending[p.id] & irqen[p.id]) # 0
    [] p.kind = "listen" -> backlog # <<>>
    [] OTHER             -> c2s[ClientOf(p.id)] # <<>> \/ PeerClosed(p.id)

\* ppoll returns with the number of ready fds and their revents.
Poll ==
  /\ spc = "poll"
  /\ \E i \in 1..Len(pfds) : Ready(pfds[i])
  /\ pfds' = [i \in 1..Len(pfds) |-> [pfds[i] EXCEPT !.rev = Ready(pfds[i])]]
  /\ nevents' = Cardinality({i \in 1..Len(pfds) : Ready(pfds[i])})
  /\ idx' = 1
  /\ spc' = "scan"
  /\ UNCHANGED <<slots, hw, pollcap, vk, cen, cirq, afd, actx, cli>>

\* SIGTERM interrupts ppoll; mainloop returns 1 and main exits.  The
\* atexit handler (termination) only logs.
Terminate ==
  /\ spc = "poll"
  /\ spc' = "exited"
  /\ UNCHANGED <<slots, hw, pfds, pollcap, idx, nevents, vk, cen, cirq, afd, actx, cli>>

\* End of the scan loop: `idx < len_pollfds && nevents` fails.
ScanEnd ==
  /\ spc = "scan"
  /\ idx > Len(pfds) \/ nevents = 0
  /\ spc' = "poll"
  /\ UNCHANGED <<slots, hw, pfds, pollcap, idx, nevents, vk, cen, cirq, afd, actx, cli>>

\* An entry whose (possibly stale) revents is 0.
ScanSkip ==
  /\ spc = "scan"
  /\ idx <= Len(pfds) /\ nevents > 0
  /\ ~pfds[idx].rev
  /\ idx' = idx + 1
  /\ UNCHANGED <<slots, hw, spc, pfds, pollcap, nevents, vk, cen, cirq, afd, actx, cli>>

ScanHit(kind) ==
  /\ spc = "scan"
  /\ idx <= Len(pfds) /\ nevents > 0
  /\ pfds[idx].rev
  /\ pfds[idx].kind = kind
  /\ nevents' = nevents - 1

\* Handler return: back in the scan loop at the next index.
Return == spc' = "scan" /\ idx' = idx + 1

\* process_vme entry: read the endpoint, cache irqen.
ScanVme ==
  /\ ScanHit("vme")
  /\ spc' = "vme"
  /\ vk' = pfds[idx].id
  /\ cen' = irqen[pfds[idx].id]
  /\ UNCHANGED <<slots, hw, pfds, pollcap, idx, cirq, afd, actx, cli>>

\* Mutant of process_newclient: the entry is appended without the realloc
\* that makes room for it.
ScanAcceptNoRealloc ==
  /\ ScanHit("listen")
  /\ backlog # <<>>
  /\ \E r \in BOOLEAN :
       pfds' = Append(pfds, [kind |-> "client", id |-> FreeFd, rev |-> r])
  /\ fdOf' = [fdOf EXCEPT ![Head(backlog)] = FreeFd]
  /\ backlog' = Tail(backlog)
  /\ Return
  /\ UNCHANGED <<slots, hw, pollcap, vk, cen, cirq, afd, actx, cst, pend, c2s, s2c, regs, conns>>

\* process_newclient: accept() and configureClientSocket's append_fd.  The
\* new entry's revents is whatever the reallocated memory held.
ScanAccept ==
  /\ ScanHit("listen")
  /\ backlog # <<>>
  /\ \E r \in BOOLEAN :
       pfds' = ConfigureClientSocket(pfds, FreeFd, r)
  /\ pollcap' = Len(pfds) + 1
  /\ fdOf' = [fdOf EXCEPT ![Head(backlog)] = FreeFd]
  /\ backlog' = Tail(backlog)
  /\ Return
  /\ UNCHANGED <<slots, hw, vk, cen, cirq, afd, actx, cst, pend, c2s, s2c, regs, conns>>

\* process_client entry: the read of the frame may block.
ScanClient ==
  /\ ScanHit("client")
  /\ spc' = "crecv"
  /\ afd' = pfds[idx].id
  /\ UNCHANGED <<slots, hw, pfds, pollcap, idx, vk, cen, cirq, actx, cli>>

\* process_vme after a failed delivery: if the line is still asserted,
\* clear it from the cached enables and write them back.
\* Mutant of the stuck check: it tests the line number as a mask.
StuckCheckIrqAsMask(p, irq) ==
  IF (p & irq) = 0
  THEN UNCHANGED <<cen, irqen>>
  ELSE /\ cen' = cen - (cen & 2^irq)
       /\ irqen' = [irqen EXCEPT ![vk] = cen - (cen & 2^irq)]

StuckCheck(p, irq) ==
  IF (p & 2^irq) = 0
  THEN UNCHANGED <<cen, irqen>>
  ELSE /\ cen' = cen - (cen & 2^irq)
       /\ irqen' = [irqen EXCEPT ![vk] = cen - (cen & 2^irq)]

\* process_vme at irqsearch: nothing enabled is pending, return.
VmeDone ==
  /\ spc = "vme"
  /\ (pending[vk] & cen) = 0
  /\ Return
  /\ UNCHANGED <<slots, hw, pfds, pollcap, nevents, vk, cen, cirq, afd, actx, cli>>

\* process_vme for the highest pending enabled line: interrupt acknowledge
\* reads vector v (a release-on-acknowledge device, roak, drops its line then),
\* notify_irq looks the owner up and sends IRQ_SIGNAL.  With no owner, or
\* when the send fails, the stuck check follows at once.
VmeDeliver ==
  /\ spc = "vme"
  /\ (pending[vk] & cen) # 0
  /\ cirq' = HighestIrq(pending[vk] & cen)
  /\ \E v \in 0..(ANYVECTOR - 1) :
       LET bit == 2^HighestIrq(pending[vk] & cen)
           p1  == IF HighestIrq(pending[vk] & cen) \in roak[vk] THEN pending[vk] - (pending[vk] & bit) ELSE pending[vk]
           sel == [crate |-> 2^vk, irq |-> bit, vector |-> v, payload |-> 0]
           f   == NotifyIrq(slots, sel)
       IN  /\ pending' = [pending EXCEPT ![vk] = p1]
           /\ IF f.data = 0 \/ PeerClosed(f.data)
              THEN /\ StuckCheck(p1, HighestIrq(pending[vk] & cen))
                   /\ UNCHANGED <<spc, afd, actx, s2c>>
              ELSE /\ s2c' = SendTo(f.data, Frame("IRQ_SIGNAL", [sel EXCEPT !.payload = f.payload]))
                   /\ spc' = "await" /\ afd' = f.data /\ actx' = "vme"
                   /\ UNCHANGED <<cen, irqen>>
  /\ UNCHANGED <<slots, asserts, roak, pfds, pollcap, idx, nevents, vk,
                 backlog, fdOf, cst, pend, c2s, regs, conns>>

\* v120irqd_interrupt's receive of the reply.  ACK returns 0; any other
\* frame, or end of file, is an error.  For process_vme an ACK goes back to
\* irqsearch and an error to the stuck check; for a faked interrupt
\* process_client returns.
AwaitReply ==
  /\ spc = "await"
  /\ LET c == ClientOf(afd)
     IN  /\ c2s[c] # <<>> \/ cst[c] = "out"
         /\ c2s' = IF c2s[c] = <<>> THEN c2s ELSE [c2s EXCEPT ![c] = Tail(@)]
         /\ LET ok == c2s[c] # <<>> /\ Head(c2s[c]).msg = "ACK"
            IN  IF actx = "fake"
                THEN /\ Return
                     /\ UNCHANGED <<cen, irqen>>
                ELSE /\ spc' = "vme" /\ UNCHANGED idx
                     /\ IF ok THEN UNCHANGED <<cen, irqen>>
                              ELSE StuckCheck(pending[vk], cirq)
  /\ UNCHANGED <<slots, pending, asserts, roak, pfds, pollcap, nevents, vk, cirq, afd, actx,
                 backlog, fdOf, cst, pend, s2c, regs, conns>>

-----------------------------------------------------------------------------
(* The daemon: process_client, after its read returned                     *)

\* The client being read and its first queued frame.
RC == ClientOf(afd)
RFrame == Head(c2s[RC])

\* The read found a frame of type m; it is consumed.
Recv(m) ==
  /\ spc = "crecv"
  /\ c2s[RC] # <<>>
  /\ RFrame.msg = m

Consume == [c2s EXCEPT ![RC] = Tail(@)]

\* Mutant of the hangup branch: release_all_interrupts is not called.
ClientHangupNoRelease ==
  /\ spc = "crecv"
  /\ c2s[RC] = <<>> /\ cst[RC] = "out"
  /\ irqen' = DisableUnusedInterrupts(slots)
  /\ pfds' = RemoveFd(pfds, idx)
  /\ fdOf' = [fdOf EXCEPT ![RC] = 0]
  /\ s2c' = [s2c EXCEPT ![RC] = <<>>]
  /\ Return
  /\ UNCHANGED <<slots, pending, asserts, roak, pollcap, nevents, vk, cen, cirq, afd, actx,
                 backlog, cst, pend, c2s, regs, conns>>

\* The read returned 0: remove_fd(idx), release_all_interrupts(sock),
\* disable_unused_interrupts(), close(sock).  The scan then goes on at
\* idx + 1.
ClientHangup ==
  /\ spc = "crecv"
  /\ c2s[RC] = <<>> /\ cst[RC] = "out"
  /\ LET s1 == ReleaseAllInterrupts(slots, afd)
     IN  /\ slots' = s1
         /\ irqen' = DisableUnusedInterrupts(s1)
  /\ pfds' = RemoveFd(pfds, idx)
  /\ fdOf' = [fdOf EXCEPT ![RC] = 0]
  /\ s2c' = [s2c EXCEPT ![RC] = <<>>]
  /\ Return
  /\ UNCHANGED <<pending, asserts, roak, pollcap, nevents, vk, cen, cirq, afd, actx,
                 backlog, cst, pend, c2s, regs, conns>>

\* Mutant of the REQUEST_IRQ branch: the result of register_interrupt is
\* not tested, the request is always ACKed.
ClientRequestAlwaysAck ==
  /\ Recv("REQUEST_IRQ")
  /\ \E growOk \in BOOLEAN :
       LET r == RegisterInterrupt(slots, afd, RFrame.sel, growOk)
       IN  /\ Len(r.slots) <= MaxSlots
           /\ slots' = r.slots
           /\ s2c' = SendTo(afd, Frame("ACK", NoSel))
           /\ irqen' = IF ~PeerClosed(afd) THEN EnableInterrupts(irqen, RFrame.sel) ELSE irqen
  /\ c2s' = Consume
  /\ Return
  /\ UNCHANGED <<pending, asserts, roak, pfds, pollcap, nevents, vk, cen, cirq, afd, actx,
                 backlog, fdOf, cst, pend, regs, conns>>

ClientRequest ==
  /\ Recv("REQUEST_IRQ")
  /\ \E growOk \in BOOLEAN :
       LET r == RegisterInterrupt(slots, afd, RFrame.sel, growOk)
       IN  /\ Len(r.slots) <= MaxSlots
           /\ slots' = r.slots
           /\ s2c' = SendTo(afd, Frame(IF r.ret = "OK" THEN "ACK" ELSE "NAK", NoSel))
           /\ irqen' = IF r.ret = "OK" /\ ~PeerClosed(afd)
                       THEN EnableInterrupts(irqen, RFrame.sel) ELSE irqen
  /\ c2s' = Consume
  /\ Return
  /\ UNCHANGED <<pending, asserts, roak, pfds, pollcap, nevents, vk, cen, cirq, afd, actx,
                 backlog, fdOf, cst, pend, regs, conns>>

\* RELEASE_IRQ: release_interrupt, ACK or NAK, disable_unused_interrupts.
ClientRelease ==
  /\ Recv("RELEASE_IRQ")
  /\ LET r == ReleaseInterrupt(slots, afd, RFrame.sel)
     IN  /\ slots' = r.slots
         /\ s2c' = SendTo(afd, Frame(IF r.ret = "OK" THEN "ACK" ELSE "NAK", NoSel))
         /\ irqen' = DisableUnusedInterrupts(r.slots)
  /\ c2s' = Consume
  /\ Return
  /\ UNCHANGED <<pending, asserts, roak, pfds, pollcap, nevents, vk, cen, cirq, afd, actx,
                 backlog, fdOf, cst, pend, regs, conns>>

\* IRQ_SIGNAL from a client: NAK unless faking is allowed; else
\* `v120irqd_ack(sock) || notify_irq(&sel)`: when the ACK is sent, look
\* the owner up and, if there is one and the send works, wait for its reply.
ClientFake ==
  /\ Recv("IRQ_SIGNAL")
  /\ LET sel == RFrame.sel
         f   == NotifyIrq(slots, sel)
         s1  == SendTo(afd, Frame(IF AllowFake THEN "ACK" ELSE "NAK", NoSel))
         tc  == ClientOf(f.data)
         go  == AllowFake /\ ~PeerClosed(afd) /\ f.data # 0 /\ ~PeerClosed(f.data)
     IN  IF go
         THEN /\ s2c' = [s1 EXCEPT ![tc] = Append(@, Frame("IRQ_SIGNAL",
                                                [sel EXCEPT !.payload = f.payload]))]
              /\ spc' = "await" /\ afd' = f.data /\ actx' = "fake"
              /\ UNCHANGED idx
         ELSE /\ s2c' = s1
              /\ Return
              /\ UNCHANGED <<afd, actx>>
  /\ c2s' = Consume
  /\ UNCHANGED <<slots, hw, pfds, pollcap, nevents, vk, cen, cirq,
                 backlog, fdOf, cst, pend, regs, conns>>

\* SERVER_STATUS: build_status_report and send it back.  A stray ACK or
\* NAK is logged and dropped.
ClientOther ==
  /\ \E m \in {"SERVER_STATUS", "ACK", "NAK"} : Recv(m)
  /\ s2c' = IF RFrame.msg = "SERVER_STATUS"
            THEN SendTo(afd, Frame("SERVER_STATUS", NoSel)) ELSE s2c
  /\ c2s' = Consume
  /\ Return
  /\ UNCHANGED <<slots, hw, pfds, pollcap, nevents, vk, cen, cirq, afd, actx,
                 backlog, fdOf, cst, pend, regs, conns>>

-----------------------------------------------------------------------------
(* Clients: the library calls of interrupts.c, and the devices             *)

\* The states in which a client is blocked in v120_irqd_msg_recv.
Waiting == {"req", "rel", "fake", "status", "getirq"}

\* v120irqd_client(): connect() succeeds while the daemon runs and leaves
\* the connection in the listener's backlog.
Connect(c) ==
  /\ cst[c] = "out" /\ fdOf[c] = 0
  /\ \A i \in 1..Len(backlog) : backlog[i] # c
  /\ conns[c] < MaxConnects
  /\ spc # "exited"
  /\ cst' = [cst EXCEPT ![c] = "idle"]
  /\ backlog' = Append(backlog, c)
  /\ conns' = [conns EXCEPT ![c] = @ + 1]
  /\ UNCHANGED <<slots, hw, srv, fdOf, pend, c2s, s2c, regs>>

\* v120irqd_request, v120irqd_release, v120irqd_interrupt (fakeirq) and
\* v120irqd_status: send the frame, then block for the reply.
Call(c, m, sel, st) ==
  /\ cst[c] = "idle"
  /\ spc # "exited"
  /\ c2s' = [c2s EXCEPT ![c] = Append(@, Frame(m, sel))]
  /\ cst' = [cst EXCEPT ![c] = st]
  /\ pend' = [pend EXCEPT ![c] = sel]
  /\ UNCHANGED <<slots, hw, srv, backlog, fdOf, s2c, regs, conns>>

\* v120irqd_getinterrupt: block for an IRQ_SIGNAL.
GetInterrupt(c) ==
  /\ cst[c] = "idle"
  /\ cst' = [cst EXCEPT ![c] = "getirq"]
  /\ UNCHANGED <<slots, hw, srv, backlog, fdOf, pend, c2s, s2c, regs, conns>>

\* The blocked receive returns the first queued frame.  request/release
\* succeed only on ACK; getinterrupt only on IRQ_SIGNAL, whose selector the
\* client then handles; any other frame is -EBADMSG.
Receive(c) ==
  /\ cst[c] \in Waiting
  /\ s2c[c] # <<>>
  /\ LET m == Head(s2c[c]).msg
     IN  /\ regs' = CASE cst[c] = "req" /\ m = "ACK" -> [regs EXCEPT ![c] = @ \cup {pend[c]}]
                      [] cst[c] = "rel" /\ m = "ACK" ->
                           [regs EXCEPT ![c] = {r \in @ : ~HashEq(r, pend[c])}]
                      [] OTHER -> regs
         /\ IF cst[c] = "getirq" /\ m = "IRQ_SIGNAL"
            THEN /\ cst' = [cst EXCEPT ![c] = "handling"]
                 /\ pend' = [pend EXCEPT ![c] = Head(s2c[c]).sel]
            ELSE /\ cst' = [cst EXCEPT ![c] = "idle"]
                 /\ UNCHANGED pend
  /\ s2c' = [s2c EXCEPT ![c] = Tail(@)]
  /\ UNCHANGED <<slots, hw, srv, backlog, fdOf, c2s, conns>>

\* The daemon has exited: a blocked receive returns 0 (-ECONNRESET).
Reset(c) ==
  /\ spc = "exited"
  /\ cst[c] \in Waiting /\ s2c[c] = <<>>
  /\ cst' = [cst EXCEPT ![c] = "idle"]
  /\ UNCHANGED <<slots, hw, srv, backlog, fdOf, pend, c2s, s2c, regs, conns>>

\* The client's interrupt handler: it may clear the device's line, then
\* answers with v120irqd_ack or v120irqd_nak.
HandleWith(c, clear, reply) ==
  /\ cst[c] = "handling"
  /\ pending' = IF clear
                THEN [k \in Crates |-> IF (pend[c].crate & 2^k) # 0
                                       THEN pending[k] - (pending[k] & pend[c].irq)
                                       ELSE pending[k]]
                ELSE pending
  /\ c2s' = [c2s EXCEPT ![c] = Append(@, Frame(reply, NoSel))]
  /\ cst' = [cst EXCEPT ![c] = "idle"]
  /\ UNCHANGED <<slots, irqen, asserts, roak, srv, backlog, fdOf, pend, s2c, regs, conns>>

Handle(c) == \E clear \in BOOLEAN, reply \in {"ACK", "NAK"} : HandleWith(c, clear, reply)

\* The client closes its socket or dies, in any state.  Frames it sent
\* stay readable by the daemon; frames queued to it are lost.
Close(c) ==
  /\ cst[c] # "out"
  /\ cst' = [cst EXCEPT ![c] = "out"]
  /\ s2c' = [s2c EXCEPT ![c] = <<>>]
  /\ regs' = [regs EXCEPT ![c] = {}]
  /\ pend' = [pend EXCEPT ![c] = NoSel]
  /\ UNCHANGED <<slots, hw, srv, backlog, fdOf, c2s, conns>>

\* A device asserts line l of crate k.
AssertLine(k, l) ==
  /\ asserts < MaxAsserts
  /\ pending' = [pending EXCEPT ![k] = @ | 2^l]
  /\ asserts' = asserts + 1
  /\ UNCHANGED <<slots, irqen, roak, srv, cli>>

\* Every step of the daemon's own code; SIGTERM (Terminate) comes from
\* outside.
DaemonStep ==
  \/ Poll \/ ScanEnd \/ ScanSkip \/ ScanVme \/ ScanAccept \/ ScanClient
  \/ VmeDone \/ VmeDeliver \/ AwaitReply
  \/ ClientHangup \/ ClientRequest \/ ClientRelease \/ ClientFake \/ ClientOther

Daemon == DaemonStep \/ Terminate

Client(c) ==
  \/ Connect(c) \/ GetInterrupt(c) \/ Receive(c) \/ Reset(c) \/ Handle(c) \/ Close(c)
  \/ \E sel \in Requests :
       \/ Call(c, "REQUEST_IRQ", sel, "req")
       \/ Call(c, "RELEASE_IRQ", sel, "rel")
  \/ \E sel \in Events : Call(c, "IRQ_SIGNAL", sel, "fake")
  \/ Call(c, "SERVER_STATUS", NoSel, "status")

Next ==
  \/ Daemon
  \/ \E c \in Clients : Client(c)
  \/ \E k \in Crates, l \in Lines : AssertLine(k, l)

Spec == Init /\ [][Next]_vars

\* The daemon is one thread that runs whenever it is not blocked: weak
\* fairness of its steps.
DaemonFairSpec == Spec /\ WF_vars(DaemonStep)

\* In addition, clients behave like examples/client.c: they go back to
\* v120irqd_getinterrupt, take the signal and answer it.  When the daemon
\* has exited the kernel ends a blocked receive (Reset).
FairSpec ==
  /\ DaemonFairSpec
  /\ \A c \in Clients : /\ WF_vars(GetInterrupt(c)) /\ WF_vars(Receive(c))
                      /\ WF_vars(Handle(c)) /\ WF_vars(Reset(c))

\* Clients that keep to the handler contract of spec.md 4.E step d and
\* section 8.2: a handler that is run again and again clears the interrupt
\* source at some point.  Strong fairness is weaker than clearing every
\* time, which is what a correct handler does.
ClearingHandle(c) == \E reply \in {"ACK", "NAK"} : HandleWith(c, TRUE, reply)

CompliantSpec == FairSpec /\ \A c \in Clients : SF_vars(ClearingHandle(c))

-----------------------------------------------------------------------------
(* Properties                                                              *)

SelOf(e) == [crate |-> e.crate, irq |-> e.irq, vector |-> e.vector, payload |-> e.payload]

\* The selectors the table holds for fd f.
HeldBy(f) == {SelOf(slots[i]) : i \in {j \in 1..Used(slots) : slots[j].data = f}}

TypeOK ==
  /\ slots \in Seq(Entry)
  /\ irqen \in [Crates -> 0..255] /\ pending \in [Crates -> 0..255]
  /\ spc \in {"poll", "scan", "vme", "await", "crecv", "exited"}
  /\ pfds \in Seq([kind : {"vme", "listen", "client"}, id : Nat, rev : BOOLEAN])
  /\ Len(pfds) <= pollcap
  /\ fdOf \in [Clients -> Tokens \cup {0}]
  /\ cst \in [Clients -> CStates]
  /\ c2s \in [Clients -> Seq([msg : Msgs, sel : Selector])]
  /\ s2c \in [Clients -> Seq([msg : Msgs, sel : Selector])]
  /\ regs \in [Clients -> SUBSET Selector]

\* spec.md section 3 invariant 5: every subscription in the table is owned
\* by a connection the daemon still holds open.  process_client's hangup
\* branch must release the owner's entries before close() lets the kernel
\* hand the same fd to the next accept().
EntriesBelongToHolder ==
  \A i \in 1..Used(slots) : \E c \in Clients : fdOf[c] = slots[i].data

\* What a client was told agrees with the table: for a connected client
\* between calls, the subscriptions the table holds for its fd are exactly
\* those it got an ACK for and has not had an ACK for releasing.  The
\* replies of process_client, the owner checks of the table and the reuse
\* of fds all bear on it.
ClientViewMatchesTable ==
  \A c \in Clients :
    (spc # "exited" /\ fdOf[c] # 0 /\ cst[c] \in {"idle", "getirq", "handling"})
      => HeldBy(fdOf[c]) = regs[c]

\* The daemon blocked reading a client that is itself blocked waiting for
\* the daemon.
MutualBlock ==
  /\ spc \in {"crecv", "await"}
  /\ LET c == ClientOf(afd)
     IN  c2s[c] = <<>> /\ cst[c] \in Waiting /\ s2c[c] = <<>>

\* The daemon is never blocked reading a client that is itself blocked
\* waiting for the daemon.  process_client is entered on the revents ppoll
\* returned, which may be stale by the time the scan reaches the entry
\* (v120irqd.c:810-816), and its read is blocking.
NoMutualBlock == ~MutualBlock

\* The client calls that send a frame and block for the daemon's reply.
Calls == {"req", "rel", "fake", "status"}

DeliveryReturns == spc = "vme" ~> spc = "scan"

====
