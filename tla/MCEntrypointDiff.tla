-------------------------- MODULE MCEntrypointDiff --------------------------
(***************************************************************************)
(* The pipeline on the logs of MCControlPredicateParser: one or two lines, *)
(* two entry points, names with a prefix and a comma, pairs in any order.  *)
(***************************************************************************)
EXTENDS EntrypointDiff

MCP == INSTANCE MCControlPredicateParser WITH Rank <- <<>>, Logs <- {}

PipelineRank == MCP!MCRank
PipelineLogs == MCP!MCLogs
MCUnknown == <<"z">>
=============================================================================
