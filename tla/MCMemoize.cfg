SPECIFICATION MCSpec
CONSTANTS
  Owners = {o1, o2, o3}
  Keys = {k1, k2}
  Entries = {1, 2, 3, 4}
  Nil = Nil
  OneKey = k1
  TwoOwners = {o1, o2}
INVARIANTS
  TypeOK
  HeldIsCached
  CompiledOnce
  ClosedOwnsNothing
  NoDeadEntry
  StoreIsFree
PROPERTIES
  SharesValues
  CallsReturn
CHECK_DEADLOCK FALSE
