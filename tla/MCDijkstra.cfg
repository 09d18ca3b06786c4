SPECIFICATION SampleSpec
INVARIANT ReachableIsAnswered
CHECK_DEADLOCK FALSE
