------------------------------ MODULE MCWsHub ------------------------------
(***************************************************************************)
(* WsHub for TLC: a page with two sockets, then a page with one, whose     *)
(* identifier the first page has used.                                     *)
(***************************************************************************)
EXTENDS WsHub

ASSUME WsAssumption

TwoThenOne == <<2, 1>>
=============================================================================
