\* ParquetStorage and KafkaStorage against the contract of EventSink.
SPECIFICATION Spec
CONSTANTS
  Options <- MCOptions
  Types = {OrderFilled, OrderCancelled}
  TxHash <- MCTxHash
  PartitionOf <- MCPartitionOf
  ColumnLists <- MCColumnLists
  MaxU64 = 3
  MaxClock = 1
  MaxRows = 3
  MaxRotations = 1
  MaxAttempts = 2
  OrderFilled = OrderFilled
  OrderCancelled = OrderCancelled
INVARIANTS
  WritersAreApart
  TransactionsAreInOrder
PROPERTIES
  KeepsContract
