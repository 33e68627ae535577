--------------------------- MODULE MCPipelinePage ---------------------------
(* The page over the worlds of trades of MCRollup. *)
EXTENDS PipelinePage, MCRollup

=============================================================================
