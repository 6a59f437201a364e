SPECIFICATION Spec
CONSTANT Inputs <- AdjacentThreads
INVARIANT ExactlyEntitled
CHECK_DEADLOCK FALSE
