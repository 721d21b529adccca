\* Two raw rows a side, two scenarios and a portrait, two members.
SPECIFICATION Spec
CONSTANTS
  INJECT_BODY_BUDGET_TOKENS = 11
  INJECT_PACKET_BUDGET_TOKENS = 14
  INJECT_TOP_N = 3
  PERSONA_MAX_TOKENS = 3
  SCENARIO_MAX_TOKENS = 4
  ROLLUP_MAX_SCENARIOS = 2
  RECALL_RESULT_BUDGET_TOKENS = 4
  RECALL_FOREIGN_BUDGET_TOKENS = 3
  GROUP_MAX_MEMBERS = 2
  FramingHeader = 3
  SourceLabel = 4
  TruncationMark = 3
  Shell = 3
  Lengths <- RawLengths
  Bodies <- Replies
  MaxFound = 2
INVARIANTS InjectFits DerivedLayerDelivered WhatIsFoundIsHeard CutIsLargest
