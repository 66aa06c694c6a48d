CONSTANTS
  x1 = x1
  r1 = r1
  r2 = r2
  u1 = u1
  SObjects = {x1}
  StartSchema = {x1}
  Custom = {x1}
  Prefix <- MCPrefix
  Exts = {u1}
  LiteralIds = {}
  Null = Null
  Absent = Absent
  Unknown = Unknown
  MaxCounter = 3
  MaxBatch = 2
  Refs = {r1, r2}
  Type <- MCType
  Hole = Hole
  Lists <- MCLists
  Users = {u1}
  None = None
  Denials <- MCDenials
  Events <- MCEvents
  MaxCalls = 2
SPECIFICATION FairDmlSpec
INVARIANTS DmlTypeOK OneObjectPerId
PROPERTIES AfterSeesItsRows RefusedChangesNothing InsertsHaveAnOwner DrivesEngine EveryStatementEnds
