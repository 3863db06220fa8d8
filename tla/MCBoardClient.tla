--------------------------- MODULE MCBoardClient ----------------------------
EXTENDS BoardClient

CONSTANTS A, B, backlog, plan, finished, extra, alpha, beta, planner, helper, c1, c2, c3

(* The workflow's column is not on the board at first: it was removed.     *)
MCDefaultSections == <<backlog, finished>>
MCFlowSections == <<plan>>
MCFlowAgents == <<planner>>
MCFirstCard == [w \in Workspace |-> IF w = A THEN c1 ELSE c2]

DoesEverything ==
    EditKinds \cup {"start", "flow", "reset", "switch", "reload", "fail"}
DoneByOthers == EditKinds \cup {"start", "switch"}
=============================================================================
