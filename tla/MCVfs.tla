-------------------------------- MODULE MCVfs ---------------------------------
(* Two names, paths of up to two segments and one that goes through "..". *)
EXTENDS Vfs, TLC

MCNames == {"x", "y"}
MCPaths == {<<"x">>, <<"y">>, <<"x", "x">>, <<"x", "..", "y">>}
=============================================================================
