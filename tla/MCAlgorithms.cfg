SPECIFICATION SampleSpec
INVARIANTS
  TextsAreReadAsWritten
  SortsAgree
  JsonWritesAndReads
  SearchesAgree
  ConversionsAreExact
CHECK_DEADLOCK FALSE
