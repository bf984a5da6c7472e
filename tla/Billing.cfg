SPECIFICATION Spec
CONSTANTS
  Selections = {"hosting"}
  MaxOrders = 2
  MaxTime = 2
  DomainDate = 0
  LinkLife = 1
  MaxEvents = 2
INVARIANTS MoneyAccounted
PROPERTY LedgerSpec
CHECK_DEADLOCK FALSE
