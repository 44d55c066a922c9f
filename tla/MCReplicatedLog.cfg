SPECIFICATION Spec
CONSTANTS
  Command <- MCCommand
  Store <- MCStore
  InitStore = 0
  ApplyCommand <- MCApply
  Id = {r0, r1, r2}
  MaxSlots = 3
INVARIANTS StoresAgree StoreIsPrefixFold
PROPERTY AppendOnly
