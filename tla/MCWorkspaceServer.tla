------------------------- MODULE MCWorkspaceServer -------------------------
(***************************************************************************)
(* Small instances of WorkspaceServer: one plain task and one workflow.    *)
(***************************************************************************)
EXTENDS WorkspaceServer

CONSTANTS plain, flow, planner, builder

MCTask == {plain, flow}
MCWorkflow == {flow}
MCAgent == {planner, builder}
TwoSteps == [t \in MCTask |-> IF t = flow THEN <<planner, builder>> ELSE <<planner>>]
ThreeSteps ==
    [t \in MCTask |-> IF t = flow THEN <<planner, builder, planner>> ELSE <<planner>>]

NoFuel == [k \in Kinds |-> 0]

(* Webhooks, runs, failing saves and a crash; nobody edits the board. *)
PipelineFuel ==
    [NoFuel EXCEPT !["ingest"] = 1, !["run"] = 2, !["output"] = 3, !["trust"] = 1, !["save"] = 1,
                   !["crash"] = 1]

(* Goroutines that stall past the watchdogs' thresholds. *)
WatchdogFuel ==
    [NoFuel EXCEPT !["ingest"] = 1, !["run"] = 1, !["output"] = 2, !["save"] = 1, !["late"] = 1]

(* Three steps, and goroutines that stall while they call the agent. *)
StaleFuel == [NoFuel EXCEPT !["ingest"] = 1, !["output"] = 4]

(* The browser's PUTs against one run. *)
PutFuel ==
    [NoFuel EXCEPT !["run"] = 1, !["output"] = 2, !["get"] = 2, !["put"] = 2, !["reset"] = 1]
=============================================================================
