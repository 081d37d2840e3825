SPECIFICATION MCSpec
CONSTANTS
  Users = {u1, u2}
  Contracts = {c1}
  Ripemd = ripemd
  Keys = {k1, k2}
  Values = {0, 1, 2}
  Codes = {code}
  NoCode = NoCode
  Hashes = {h1, h2}
  Workloads <- AllWorkloads
  MaxEntries = 3
  MaxSnapshots = 2
  Modes = {"default", "files", "db"}
  Goroutines = {1, 2}
  MaxExports = 2
SYMMETRY Symmetry
INVARIANTS
  IndicesExact
  
  
PROPERTIES
  ImplementsWorld
