------------------------------- MODULE TuiRnm -------------------------------
(***************************************************************************)
(* The RNM register-name files of v120_tui (src/v120_tui/rnm.c): rnmparse, *)
(* its line parser filldata/linedata, the name hash table of add2hash, the *)
(* cache list g_rnms, rnmfree and rnmsearch.  Operators only; the browser  *)
(* (TuiBrowser) calls them from braddrnm, browsernew and brgotoname.       *)
(*                                                                         *)
(* A file is the sequence of its lines as linestrip and strtok leave them: *)
(*   [k |-> "W", v |-> n]        a global data width line ("W:n"), v = Null *)
(*                               when the value token is missing;          *)
(*   [k |-> "opt", ok |-> b]     an E or A line, or a line that starts     *)
(*                               with no known letter: ok = FALSE when     *)
(*                               linedata rejects it;                      *)
(*   [k |-> "reg", offs |-> n, name |-> nm, ok |-> b]                      *)
(*                               a register line, name = Null when it has  *)
(*                               no name token; ok = FALSE when its sign   *)
(*                               or width token is rejected.               *)
(* Blank and comment lines give no tokens and are skipped by both loops.  *)
(* Names are model values; hashstring is the constant function Hash.       *)
(* A heap block is named by the pointer that holds it: "fnm" (the full     *)
(* path), "rdata" (r_mdata), "ret" (the rnm_t).                            *)
(***************************************************************************)
EXTENDS Integers, SequencesExt

CONSTANTS
  Names,     \* register names
  Hash,      \* hashstring(name), a non-negative hash_t
  HashSize,  \* RNM_HASH_SIZE
  Null

ASSUME Hash \in [Names -> Nat] /\ HashSize \in Nat \ {0}

\* The slot of r_hash a name hashes to.
Slot(n) == Hash[n] % HashSize

\* maxoffs: the highest register offset of the file's register lines.
MaxOffs(lines) ==
  FoldLeft(LAMBDA m, l : IF l.k = "reg" /\ l.offs > m THEN l.offs ELSE m, 0, lines)

\* The rnm_t rnmparse fills: r_len, r_dwidth, the register names of
\* r_mdata ("" for a register without one), r_hash (each slot a chain of
\* [h, idx], <<>> for a slot with rh_hash = NIL_HASH), r_path, and the
\* error return of filldata.
NewRnm(path, len) ==
  [path |-> path, len |-> len, dwidth |-> 2, err |-> FALSE,
   names |-> [i \in 0..len |-> ""],
   hash |-> [s \in 0..HashSize - 1 |-> <<>>]]

\* add2hash: an empty slot takes the entry; otherwise the chain is walked
\* to its last node, a node is malloc'd and linked, and the entry is then
\* written into the last node, not the new one, whose rh_next is cleared:
\* the entry replaces the chain's last one and the new node is lost.
Add2Hash(r, name, idx) ==
  LET s == Slot(name)
      e == [h |-> Hash[name], idx |-> idx]
  IN  [r EXCEPT !.hash[s] = IF @ = <<>> THEN <<e>> ELSE ReplaceAt(@, Len(@), e)]

\* linedata: one line.  A register line first resets the register (no
\* name), then takes its name and adds it to the hash table, then checks
\* its sign and width tokens.
LineData(r, l) ==
  CASE l.k = "W" ->
         IF l.v \in {2, 4} THEN [r EXCEPT !.dwidth = l.v] ELSE [r EXCEPT !.err = TRUE]
    [] l.k = "opt" ->
         [r EXCEPT !.err = ~l.ok]
    [] l.k = "reg" /\ l.name = Null ->
         [r EXCEPT !.names[l.offs] = ""]
    [] l.k = "reg" ->
         [Add2Hash([r EXCEPT !.names[l.offs] = l.name], l.name, l.offs)
            EXCEPT !.err = ~l.ok]

\* filldata: the lines in order; the first error ends the loop.
FillData(r, lines) ==
  FoldLeft(LAMBDA q, l : IF q.err THEN q ELSE LineData(q, l), r, lines)

\* rnmsearch: the first node of the name's chain whose hash and name
\* (read through rh_name, which points into r_mdata) match; -1 if none.
RnmSearch(r, name) ==
  LET ch == r.hash[Slot(name)]
      i  == SelectInSeq(ch, LAMBDA e : e.h = Hash[name] /\ r.names[e.idx] = name)
  IN  IF i = 0 THEN -1 ELSE ch[i].idx

\* findrnm: the cached RNM with this path, or Null.
FindRnm(cache, path) ==
  LET i == SelectInSeq(cache, LAMBDA r : r.path = path)
  IN  IF i = 0 THEN Null ELSE cache[i]

\* rnmadd2path: rnm->r_next = g_rnms; g_rnms = rnm->r_next.  The new
\* RNM is linked in front of the list and the list head is then set to
\* its successor: g_rnms is left as it was.
RnmAdd2Path(cache, r) == LET rnext == cache IN rnext

\* rnmfree: the collision nodes of every chain (all but a slot's first),
\* r_mdata, r_path, then the rnm_t.
RnmFree(r) ==
  LET nodes == FoldFunction(LAMBDA ch, a : IF ch = <<>> THEN a ELSE a + Len(ch) - 1,
                            0, r.hash)
  IN  [i \in 1..nodes |-> "node"] \o <<"rdata", "fnm", "ret">>

\* rnmparse(path) for a file with the given lines.  fault is what the
\* environment does: "none", or the first call that fails: getfullpath
\* ("path"), fopen ("open"), or the calloc of r_mdata ("rdata") or of the
\* rnm_t ("ret").  The result is the returned RNM (Null on failure), the
\* new g_rnms, and the sequence of blocks the call frees.
RnmParse(path, lines, fault, cache) ==
  LET len == MaxOffs(lines)
      r   == FillData(NewRnm(path, len), lines)
      Out(ret, frees) == [ret |-> ret, cache |-> cache, frees |-> frees]
  IN  CASE fault = "path"                  -> Out(Null, <<>>)
        [] FindRnm(cache, path) # Null     -> Out(FindRnm(cache, path), <<"fnm">>)
        [] fault = "open" \/ len = 0       -> Out(Null, <<"fnm">>)
        [] fault = "rdata"                 -> Out(Null, <<"fnm">>)
        [] fault = "ret"                   -> Out(Null, <<"rdata", "fnm">>)
        [] r.err                           -> Out(Null, RnmFree(r) \o <<"rdata", "fnm">>)
        [] OTHER -> [ret |-> r, cache |-> RnmAdd2Path(cache, r), frees |-> <<>>]

=============================================================================
