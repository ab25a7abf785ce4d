--------------------------- MODULE MCAgentStream ---------------------------
(***************************************************************************)
(* One daemon, one agent stream, one or two writers, two SSE connections.   *)
(***************************************************************************)
EXTENDS AgentStream

CONSTANTS r1, poll, attach, viewer, resumer

HomeOne == [t \in Tasks |-> r1]
SubHomeOne == [s \in Subs |-> r1]

(* `viewer` asks for everything, `resumer` for what follows seq 1. *)
FromMixed == [s \in Subs |-> IF s = resumer THEN 2 ELSE 0]

ScriptShort == [t \in Tasks |-> IF t = attach THEN <<"output", "finished">>
                                              ELSE <<"output">>]
ScriptEnd == [t \in Tasks |-> IF t = attach THEN <<"finished">> ELSE <<"output">>]

(* Two of the four kinds of fault are spent at the start, the others may come. *)
FaultPairs == appendFaults + crashes + prunes + replayFaults = 2

MCStreamInit == StreamInit /\ FaultPairs
MCStreamSpec == MCStreamInit /\ [][StreamNext]_streamVars /\ StreamFairness

============================================================================
