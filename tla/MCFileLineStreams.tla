--------------------------- MODULE MCFileLineStreams ---------------------------
(***************************************************************************)
(* An empty line, a short one, and a long one in two pieces.               *)
(***************************************************************************)
EXTENDS FileLineStreams

MCPiece == {"a", "b", "c"}
MCLines == { <<>>, <<"a">>, <<"b", "c">> }
MCLong == { <<"b", "c">> }
=============================================================================
