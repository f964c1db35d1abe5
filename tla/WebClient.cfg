\* Two calls in flight, two writes of a page before it is opened again.
SPECIFICATION Spec
CONSTANTS
  Calls = {1, 2}
  MaxVersion = 2
  Inputs <- MCInputs
INVARIANTS TypeOK OwnWriteSeen WritesCarryToken PercentNeverOverstated
PROPERTY PagesSettle
