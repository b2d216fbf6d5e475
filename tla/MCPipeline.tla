----------------------------- MODULE MCPipeline -----------------------------
(* An instance of Pipeline for TLC. *)
EXTENDS Pipeline, TLC

CONSTANTS agent, device, updated, switch

\* A telemetry-agent that speaks v9, a device that speaks IPFIX and uses the same
\* numbers, the same device after an update that changes its records, and a
\* sampling switch.
MCProtocol ==
    [e \in Exporters |-> IF e = agent THEN "v9" ELSE IF e = switch THEN "sflow" ELSE "ipfix"]
MCSource == [e \in Exporters |-> 1001]
MCTemplate == [e \in Exporters |-> 257]
MCLayout ==
    LET layouts == agent :> <<"lan", "wan", "bytes">> @@ switch :> FixedLayout("sflow")
                   @@ device :> <<"bytes", "wan", "other", "lan">> @@ updated :> <<"wan", "lan">>
    IN  [e \in Exporters |-> layouts[e]]
=============================================================================
