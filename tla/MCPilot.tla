---- MODULE MCPilot ----
(* Provider states and bounds for the Pilot client runs. *)
EXTENDS PilotIntegrationClient

States == {"READY", "DEGRADED"}
====
