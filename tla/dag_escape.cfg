CONSTANTS
  a = a
  b = b
  c = c
  d = d
  e = e
  Tasks = {a, b, c, d, e}
  Deps <- Diamond
  Files <- FourFiles
  FilesOf <- OwnFile
  Free = Free
  MaxWorkers = 2
  BadPaths = {}
  Leftovers = {}
SPECIFICATION Spec
INVARIANTS IndependentsComplete
