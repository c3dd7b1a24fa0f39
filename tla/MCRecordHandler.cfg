SPECIFICATION Spec
CONSTANT MaxEvents = 3
INVARIANTS NilMeansSettled ErrorMeansUnsettled CountedOnce
CHECK_DEADLOCK FALSE
