---------------------------- MODULE MCVideoPlayer ----------------------------
(***************************************************************************)
(* Instances of VideoPlayer for TLC: a segment and a frame are longer than *)
(* the pipes, so both writers block.                                       *)
(***************************************************************************)
EXTENDS VideoPlayer

MCDecodes == {<<>>, <<"V">>, <<"A", "V", "V">>}
=============================================================================
