---------------------------- MODULE MCTuiBrowser ----------------------------
(***************************************************************************)
(* A 128-byte region: 64 registers of 2 bytes or 32 of 4, more than two    *)
(* pages, and big enough that every brgoto offset of a browser without    *)
(* RNM data (below 128) lies in it.  Refresh inputs cover each branch of  *)
(* brchrefresh.                                                            *)
(*                                                                         *)
(* Three names: n1 and n3 have the same hashstring value, n2 another one  *)
(* in a different slot of a two-slot table.  File "regs" sets 4-byte      *)
(* registers up to offset 31, the whole region: n1 names register 31, n3  *)
(* register 5 (in n1's slot, so the entry replaces n1's), n2 register 12, *)
(* which a later line unnames.  File "regs2" keeps filldata's default    *)
(* 2-byte width and names registers 40 and 3.  File "bad" names a         *)
(* register, then has a line linedata rejects.                             *)
(***************************************************************************)
EXTENDS TuiBrowser

MCHash == [n \in Names |-> CASE n = "n1" -> 0 [] n = "n2" -> 1 [] n = "n3" -> 0]

Reg(o, n) == [k |-> "reg", offs |-> o, name |-> n, ok |-> TRUE]

MCContent ==
  [f \in Files |->
     IF f = "regs"
     THEN << [k |-> "W", v |-> 4], Reg(31, "n1"), Reg(5, "n3"), Reg(12, "n2"),
             Reg(12, Null) >>
     ELSE IF f = "regs2"
     THEN << Reg(40, "n2"), Reg(3, "n1") >>
     ELSE << Reg(4, "n2"), [k |-> "opt", ok |-> FALSE] >>]

MCRefreshInputs == {-5, 0, 5, 100}

=============================================================================
