----------------------------- MODULE MCPipeline -----------------------------
(***************************************************************************)
(* Small pipelines.                                                        *)
(***************************************************************************)
EXTENDS PipelineProperties

\* A deploy, a gate and an approval side by side behind it, a deploy of two
\* applications behind both.  The configuration lists them from the last to
\* the first, so that a failure travels against the order of a pass.
DiamondType == <<"deploy", "gate", "approval", "deploy">>
DiamondNeeds == <<{2, 3}, {4}, {4}, {}>>
DiamondApps == <<{1, 2}, {}, {}, {1}>>

\* A deploy and an approval behind it.
ShortType == <<"deploy", "approval">>
ShortNeeds == <<{}, {1}>>
ShortApps == <<{1}, {}>>

\* Two deploys, the second behind the first.
PairType == <<"deploy", "deploy">>
PairNeeds == <<{}, {1}>>
PairApps == <<{1}, {1}>>
=============================================================================
