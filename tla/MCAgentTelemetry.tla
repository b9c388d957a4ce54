-------------------------- MODULE MCAgentTelemetry --------------------------
EXTENDS AgentTelemetry, TLC

(* A clock on time, one just beyond the skew ahead, one as far behind.       *)
MCOffsets == {-2, 0, 2}

Symmetry == Permutations(Agents)
===============================================================================
