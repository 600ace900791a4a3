SPECIFICATION Spec
CONSTANTS
  r1 = r1
  r2 = r2
  r3 = r3
  Runs = {r1, r2, r3}
  Length = 4
  Generic <- GenericLabel
  Calls <- AllCalls
  Trees <- AllTrees
INVARIANTS
  GenericTitleIsRefused
