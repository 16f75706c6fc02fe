\* Every rule, one input at a time.
SPECIFICATION RulesSpec
CONSTANTS
  Amounts <- SomeAmounts
  Capacity = 6
  Texts <- AllTexts
  Single <- SomeSingle
  Part <- SomePart
  MaxSegments = 3
INVARIANTS
  AmountsRounded
  SegmentsCounted
  SandboxRulesAgree
CHECK_DEADLOCK FALSE
