CONSTANTS
  x1 = x1
  x2 = x2
  e1 = e1
  SObjects = {x1, x2}
  StartSchema = {x1}
  Custom = {x1, x2}
  Prefix <- MCPrefix
  Exts = {e1}
  LiteralIds <- MCLiterals
  Null = Null
  Absent = Absent
  Unknown = Unknown
  MaxCounter = 2
  MaxBatch = 2
SPECIFICATION Spec
INVARIANT DmlFindsItsTable
