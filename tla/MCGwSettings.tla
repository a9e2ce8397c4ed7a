----------------------------- MODULE MCGwSettings -----------------------------
(* Two of the six dialog settings: the first of the seed statements and the *)
(* first field the dialog saves.                                            *)
EXTENDS GwSettings

MCSeedOrder   == <<"SERVER.ADDRESS", "AGENT.NAME">>
MCDialogOrder == <<"AGENT.NAME", "SERVER.ADDRESS">>
=============================================================================
