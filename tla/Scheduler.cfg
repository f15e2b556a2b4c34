SPECIFICATION FairSpec
CONSTANT NumReads = 2
PROPERTIES FinishesExecution
CHECK_DEADLOCK FALSE
