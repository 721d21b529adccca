\* The instance of Provenance.cfg: two turns, a log of five events, evidence of two sources, room for two long records.
SPECIFICATION Spec
CONSTANTS
  Turns <- TwoTurns
  Content <- Events
  SUBAGENT_TOOL_NAMES <- ForegroundChild
  Replies <- Citations
  WORST_SOURCE_SEQS = 2
  EXTRACT_TRANSCRIPT_CHARS = 12
  EXTRACT_EVENT_EXCERPT_CHARS = 3
  ENQUEUE_MIN_TURN_TOKENS = 2
  Wrapper = 2
  Shell = 1
  MaxEvents = 5
  NULL = NULL
CHECK_DEADLOCK FALSE
INVARIANTS MixedSourcesTakeMinimum
