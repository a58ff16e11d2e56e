---------------------------- MODULE MCFileIdMap ------------------------------
(* Instances of FileIdMap: two names of different lengths, one of them     *)
(* also with metadata, and replacements that are shorter, as long and      *)
(* longer, one of them with metadata of its own.                           *)
EXTENDS FileIdMap, TLC

MCPaths == {<<"a">>, <<"b", "b">>}
MCMetas == {<<>>, <<",", "m">>}
MCReplacements == {<<>>, <<"c">>, <<"c", ",", "m">>}
=============================================================================
