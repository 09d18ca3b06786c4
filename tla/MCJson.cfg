SPECIFICATION SampleSpec
INVARIANT DecodedStringsAreTerminated
CHECK_DEADLOCK FALSE
