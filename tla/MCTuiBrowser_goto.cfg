CONSTANTS
  RegionLen = 128
  Files = {"regs", "regs2", "bad"}
  Content <- MCContent
  Faults = {"none", "path", "open", "rdata", "ret"}
  Names = {"n1", "n2", "n3"}
  Hash <- MCHash
  HashSize = 2
  RefreshInputs <- MCRefreshInputs
  Null = Null
\* A terminal of 9 rows, never resized: pages of four rows, 16 registers or more.
  TtRows = {9}
SPECIFICATION Spec
INVARIANT SelOnPage
