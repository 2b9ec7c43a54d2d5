CONSTANTS
  RegionLen = 128
  Files = {"regs", "regs2", "bad"}
  Content <- MCContent
  Faults = {"none", "path", "open", "rdata", "ret"}
  Names = {"n1", "n2", "n3"}
  Hash <- MCHash
  HashSize = 2
  RefreshInputs <- MCRefreshInputs
  Null = Null
\* The terminal is resized between 9 and 10 rows: pages of four and five rows.
  TtRows = {9, 10}
SPECIFICATION Spec
INVARIANT PageInRegion
