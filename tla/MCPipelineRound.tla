---------------------------- MODULE MCPipelineRound ----------------------------
(* Instances of PipelineRound for TLC. *)
EXTENDS PipelineRound

Config(n, m, threshold) ==
  [n |-> n, m |-> m, confirm |-> 1, threshold |-> threshold, retries |-> 1]

\* One of two slots, escalating at once; two of two, after two refusals; a
\* single slot, which never escalates.
SmallConfigs == {Config(1, 2, 1), Config(2, 2, 2), Config(1, 1, 1)}

OneConfig == {Config(1, 2, 1)}
================================================================================
