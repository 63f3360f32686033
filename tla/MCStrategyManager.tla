-------------------------- MODULE MCStrategyManager --------------------------
(* Values for the constants of StrategyManager.                            *)
EXTENDS StrategyManager

CallFaults == {"cursor", "start"}
\* With it, ResumesBehindIndexed is violated (five blocks, three requests).
AskAgain == {"again"}
=============================================================================
