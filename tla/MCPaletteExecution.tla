------------------------- MODULE MCPaletteExecution -------------------------
(* A DELETE of a catalog that comes and goes, and an MCP command.          *)
EXTENDS PaletteExecution, TLC

CONSTANTS d, t

MayNameWhat == d :> {"delete", "none"} @@ t :> {"tool"}
=============================================================================
