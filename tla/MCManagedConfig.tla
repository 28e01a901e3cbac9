-------------------------- MODULE MCManagedConfig --------------------------
(* The user has a line, a table and the model section that the block        *)
(* displaces; a file may begin with a legacy block, or with two blocks.     *)
EXTENDS ManagedConfig

MCLegacy     == <<"LEGACY_BEGIN", "keys", "LEGACY_END">>
MCUserFile   == {<<"model", "line">>}
MCFirstFiles == {<<>>, <<"model", "line">>, <<"line">> \o MCLegacy \o <<"table">>,
                 Block \o <<"line">> \o Block}
=============================================================================
