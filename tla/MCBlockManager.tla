--------------------------- MODULE MCBlockManager ---------------------------
(***************************************************************************)
(* Two requests whose prompts share their blocks, and one of its own.      *)
(***************************************************************************)
EXTENDS BlockManager

CONSTANTS r1, r2, r3, d1

MCPrompt == r1 :> <<0, 0, 0, 0, 0>> @@ r2 :> <<0, 0, 0, 0>> @@ r3 :> <<1, 1, 1, 1, 1>>
=============================================================================
