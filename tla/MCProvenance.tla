---------------------------- MODULE MCProvenance ----------------------------
(* An instance of Provenance for TLC: one call id for a foreground child and a   *)
(* shell, and texts that are blank, short, and cut to their excerpt.             *)
EXTENDS Provenance

TwoTurns == 1..2
Said(type, name, chars) == [type |-> type, name |-> name, id |-> 1, chars |-> chars]
Events == {Said("user/message", "user", 1), Said("user/message", "subagent-report", 5),
           Said("assistant/message", "", 5), Said("tool/call", "subagent", 0),
           Said("tool/call", "bash", 1), Said("tool/result", "", 1), Said("other", "", 1)}
ForegroundChild == {"subagent"}
Citations == {<<>>, <<2>>, <<3>>, <<4>>, <<2, 2, 3>>, <<4, 3>>, <<2, 5>>, <<3, 4, 5>>, <<5, 2, 4>>}
=============================================================================
