---------------------------- MODULE MCToolBatch -----------------------------
(* An instance of ToolBatch: every pattern of repetition among three calls  *)
(* that run, and the calls that are rejected or held back by the breaker    *)
(* before, between and behind them.                                         *)
EXTENDS ToolBatch

CONSTANTS k1, k2, k3, bad, storm

MCFold == [s \in {"a"} |-> s]
MCDeclared == {{}, {All}}
MCKeys == {k1, k2, k3, bad, storm}
MCAnswers ==
    { <<k1, k1, k1>>, <<k1, k1, k2>>, <<k1, k2, k1>>, <<k1, k2, k2>>, <<k1, k2, k3>>,
      <<bad, k1, bad>>, <<k1, bad, k1>>, <<storm, k1, k1>> }
=============================================================================
