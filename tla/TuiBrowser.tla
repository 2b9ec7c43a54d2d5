----------------------------- MODULE TuiBrowser -----------------------------
(***************************************************************************)
(* One register browser of v120_tui (src/v120_tui/browser.c): the cursor   *)
(* (br_sel, the selected register on the page, and br_offs, the first     *)
(* register of the page), its data width, the RNM metadata attached to it  *)
(* and its refresh rate, under the commands of brmode, brslu and brklu,    *)
(* while the browser is the current buffer.                               *)
(*                                                                         *)
(* The terminal height is read again by ttsize() on every pass of          *)
(* tty_main's loop (main.c:256), so the page length brarraylen() is not    *)
(* a constant: rows is a variable that TtSize changes between keys.        *)
(*                                                                         *)
(* The RNM data come from rnmparse (TuiRnm), at browsernew and at         *)
(* add-rnm; brgotoname looks a name up with rnmsearch.                    *)
(*                                                                         *)
(* Register contents and what brsplash prints are not modelled.           *)
(* The register writes (brwrite, brditto, brzero through brwrite1) change  *)
(* only the hardware: they write register sel + offs with no bound check,  *)
(* which SelOnPage and PageInRegion together would keep in the region.   *)
(***************************************************************************)
EXTENDS Integers, TuiRnm

CONSTANTS
  RegionLen,     \* br_region->len, in bytes
  TtRows,        \* terminal heights ttsize() may report (ttnrows())
  Files,         \* RNM file paths typed at add-rnm or given at add-vme
  Content,       \* Content[f]: the lines of file f
  Faults,        \* what the environment does to one rnmparse call
  RefreshInputs  \* millisecond values typed at refresh-on

ASSUME /\ RegionLen \in Nat /\ RegionLen % 16 = 0
       /\ Faults \subseteq {"none", "path", "open", "rdata", "ret"}

\* Constants of browser.c and struct.h.
ROW_TAG == 2
ROW_START == 2
BROWSER_MS == 50
REFRESH_MIN_MS == 10
NoRnmTopOffs == 128

VARIABLES
  br,     \* struct browser_t: sel, offs, dwidth, ncols, mdata, topoffs, refresh
  rows,   \* ttnrows_, set by ttsize()
  rnms,   \* gbl.g_rnms, the list of cached RNMs
  frees   \* the blocks the last rnmparse call freed, in order

vars == <<br, rows, rnms, frees>>

\* btnrows(): the rows below the title and above the mode line.
BtnRows == rows - 3

\* C integer division truncates toward zero.
CDiv(a, n) == IF a >= 0 THEN a \div n ELSE -((-a) \div n)

\* brarraylen: registers shown on one page.
ArrayLen(b) == (BtnRows - ROW_TAG) * b.ncols

\* Registers of the region in the current data width.
NRegs(b) == RegionLen \div b.dwidth

\* broffmax: the highest register that can start a page.
OffMax(b) == NRegs(b) - ArrayLen(b)

\* Move the cursor by d registers forward, the page by d backward.
Shift(b, d) == [b EXCEPT !.sel = @ - d, !.offs = @ + d]

\* brstartpos and brendpos.
StartPos(b) == [b EXCEPT !.sel = 0, !.offs = 0]

EndPos(b) == [b EXCEPT !.sel = ArrayLen(b) - 1, !.offs = OffMax(b)]

\* brcheckpos: a cursor one row off the page scrolls the page by a row;
\* then a page starting before the region goes to the start, one starting
\* past broffmax to the end.
CheckPos(b) ==
  LET c == CASE b.sel < 0 -> Shift(b, -b.ncols)
             [] b.sel >= ArrayLen(b) -> Shift(b, b.ncols)
             [] OTHER -> b
  IN  IF c.offs < 0 THEN StartPos(c)
      ELSE IF c.offs > OffMax(c) THEN EndPos(c) ELSE c

\* Mutant: brchmod that does not recompute br_ncols.
ChmodNoNcols(b) ==
  LET c == IF b.dwidth = 2
           THEN [b EXCEPT !.dwidth = 4, !.offs = CDiv(@, 2), !.sel = CDiv(@, 2)]
           ELSE [b EXCEPT !.dwidth = 2, !.offs = @ * 2, !.sel = @ * 2]
  IN  CheckPos(c)

\* brchmod: toggle the data width between 2 and 4 bytes, rescaling the
\* cursor, then ncols = 16 / dwidth and brcheckpos.  (br_dwshift and
\* br_printlen only change what brsplash prints.)
Chmod(b) ==
  LET c == IF b.dwidth = 2
           THEN [b EXCEPT !.dwidth = 4, !.offs = CDiv(@, 2), !.sel = CDiv(@, 2)]
           ELSE [b EXCEPT !.dwidth = 2, !.offs = @ * 2, !.sel = @ * 2]
  IN  CheckPos([c EXCEPT !.ncols = 16 \div c.dwidth])

\* The while loop of brjump: scroll back a row while the page starts past
\* broffmax, moving the cursor down with it.
RECURSIVE JumpLoop(_)
JumpLoop(b) == IF b.offs > OffMax(b) THEN JumpLoop(Shift(b, -b.ncols)) ELSE b

\* Mutant: brjump without its while loop.
JumpNoLoop(b, v) ==
  LET r == CDiv(v, b.dwidth)
  IN  [b EXCEPT !.offs = (r \div 16) * 16, !.sel = r % 16]

\* brjump: v is a byte offset; the page starts at the 16-register boundary
\* below it, then the loop.
Jump(b, v) ==
  LET r == CDiv(v, b.dwidth)
  IN  JumpLoop([b EXCEPT !.offs = (r \div 16) * 16, !.sel = r % 16])

\* The registers brsplash reads: nrows = btnrows() - ROW_START rows of
\* ncols registers from br_offs.
SplashRegs(b) == b.offs .. b.offs + (BtnRows - ROW_START) * b.ncols - 1

\* browsernew: cursor at 0, width and topoffs from the RNM (2 and 128
\* without one), refresh BROWSER_MS, then brchmod twice.
BrowserNew(m) ==
  LET w == IF m = Null THEN 2 ELSE m.dwidth
  IN  Chmod(Chmod([sel |-> 0, offs |-> 0, dwidth |-> w,
                   ncols |-> 16 \div w, mdata |-> m,
                   topoffs |-> IF m = Null THEN NoRnmTopOffs ELSE m.len * m.dwidth,
                   refresh |-> BROWSER_MS]))

\* add_vme: the RNM file named on the command line, if any, is parsed
\* (rnmparse with g_rnms still NULL), then browsernew.
Init ==
  /\ rows \in TtRows
  /\ \/ br = BrowserNew(Null) /\ rnms = <<>> /\ frees = <<>>
     \/ \E f \in Files, fault \in Faults :
          LET p == RnmParse(f, Content[f], fault, <<>>)
          IN  br = BrowserNew(p.ret) /\ rnms = p.cache /\ frees = p.frees

Move(b) == br' = b /\ UNCHANGED <<rows, rnms, frees>>

\* The cursor keys: brleft, brright, brup, brdn, brpgdn, brpgup (each
\* followed by brcheckpos), brend and brhome.
Left  == Move(CheckPos([br EXCEPT !.sel = @ - 1]))
Right == Move(CheckPos([br EXCEPT !.sel = @ + 1]))
Up    == Move(CheckPos([br EXCEPT !.sel = @ - br.ncols]))
Dn    == Move(CheckPos([br EXCEPT !.sel = @ + br.ncols]))
PgDn  == Move(CheckPos([br EXCEPT !.offs = @ + ArrayLen(br)]))
PgUp  == Move(CheckPos([br EXCEPT !.offs = @ - ArrayLen(br)]))
End   == Move(EndPos(br))
Home  == Move(StartPos(br))

\* brgoto: a byte offset 0 <= v < br_topoffs, then brjump; any other
\* value is ignored.
Goto(v) == 0 <= v /\ v < br.topoffs /\ Move(Jump(br, v))

\* brgotoname: nothing without RNM data; rnmsearch gives the offset the
\* RNM file lists for the name, a register number in r_dwidth units, and
\* brjump is handed that number times br_dwidth; no match, no jump.
GotoName(n) ==
  /\ br.mdata # Null
  /\ LET i == RnmSearch(br.mdata, n)
     IN  Move(IF i < 0 THEN br ELSE Jump(br, i * br.dwidth))

\* brchmod as a command ('c').
ChMod == Move(Chmod(br))

\* brchrefresh: 1..9 ms become REFRESH_MIN_MS, negatives -1.
ChRefresh(v) ==
  Move([br EXCEPT !.refresh = CASE v > 0 /\ v < REFRESH_MIN_MS -> REFRESH_MIN_MS
                                [] v < 0 -> -1
                                [] OTHER -> v])

\* brrefreshoff.
RefreshOff == Move([br EXCEPT !.refresh = -1])

\* braddrnm: b_rnms and br_mdata become rnmparse's result, NULL when the
\* file cannot be parsed; br_topoffs is left as it was; brchmod twice.
AddRnm(f, fault) ==
  LET p == RnmParse(f, Content[f], fault, rnms)
  IN  /\ br' = Chmod(Chmod([br EXCEPT !.mdata = p.ret]))
      /\ rnms' = p.cache /\ frees' = p.frees
      /\ UNCHANGED rows

\* ttsize() at the top of tty_main's loop.
TtSize == rows' \in TtRows /\ UNCHANGED <<br, rnms, frees>>

Next ==
  \/ Left \/ Right \/ Up \/ Dn \/ PgDn \/ PgUp \/ End \/ Home
  \/ \E v \in -1..br.topoffs : Goto(v)
  \/ \E n \in Names : GotoName(n)
  \/ ChMod \/ (\E v \in RefreshInputs : ChRefresh(v)) \/ RefreshOff
  \/ \E f \in Files, fault \in Faults : AddRnm(f, fault)
  \/ TtSize

Spec == Init /\ [][Next]_vars

-----------------------------------------------------------------------------

TypeOK ==
  /\ br.dwidth \in {2, 4} /\ br.ncols = 16 \div br.dwidth
  /\ br.sel \in Int /\ br.offs \in Int
  /\ br.mdata = Null \/ br.mdata.dwidth \in {2, 4}
  /\ br.refresh \in {-1, REFRESH_MIN_MS, BROWSER_MS} \cup RefreshInputs
  /\ rows \in TtRows
  /\ frees \in Seq({"node", "rdata", "fnm", "ret"})

\* Every pass of tty_main's loop runs brsplash, which reads a whole page
\* of registers from br_offs: the page must lie inside the region, after
\* any sequence of cursor keys, jumps and width changes.
PageInRegion == SplashRegs(br) \subseteq 0..NRegs(br) - 1

\* The selected register is on the page shown, after any sequence of
\* keys, jumps and width changes: brsplash only reads and shows the
\* selected value when its drawno reaches br_sel, brjump ends with the
\* comment "assert sel < arraylen", and with PageInRegion it keeps the
\* register brwrite1 writes (sel + offs, unchecked) inside the region.
SelOnPage == 0 <= br.sel /\ br.sel < ArrayLen(br)

\* rnmparse frees no block twice, on any of its error paths.
NoDoubleFree == IsInjective(frees)

=============================================================================
