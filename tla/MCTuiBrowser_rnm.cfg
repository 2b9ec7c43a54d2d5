CONSTANTS
  RegionLen = 128
  Files = {"regs", "regs2", "bad"}
  Content <- MCContent
  Faults = {"none", "path", "open", "rdata", "ret"}
  Names = {"n1", "n2", "n3"}
  Hash <- MCHash
  HashSize = 2
  RefreshInputs <- MCRefreshInputs
  Null = Null
\* A terminal of 9 rows; file "bad" is one rnmparse rejects.
  TtRows = {9}
SPECIFICATION Spec
INVARIANT NoDoubleFree
