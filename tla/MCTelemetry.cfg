SPECIFICATION Spec
CONSTANTS
  Times <- SomeTimes
  Usages <- SomeUsages
  Quantities <- SomeQuantities
  Uptimes <- SomeUptimes
  NoTime = NoTime
  InvalidTime = InvalidTime
  ZeroTime = ZeroTime
  NotANumber = NotANumber
  NoSample = NoSample
INVARIANTS
  TableAccepts
  RowIsOneSample
CHECK_DEADLOCK FALSE
