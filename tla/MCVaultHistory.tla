--------------------------- MODULE MCVaultHistory ---------------------------
(* VaultHistory on small instances.                                        *)
EXTENDS VaultHistory

CONSTANTS v1, i1, i2, d1, h1

NewEntries1 == {[id |-> i1, data |-> d1]}
Initially == {<<>>, <<[id |-> i2, data |-> d1], [id |-> i1, data |-> d1]>>}
(* A hash of nothing, as tests/test_command_handler.py claims one, and that *)
(* of an empty vault, which a client can compute before it asks for it.    *)
Claimed ==
  {h1, [vault_id |-> v1, version |-> 1, entries |-> <<>>, action |-> "create_vault", metadata |-> None]}
Updates == {[id |-> i2]}
Paths == {<<"healthz">>, <<"v1", "config">>, <<"v1", "unknown">>, <<"v2", "config">>,
          <<"vaults">>}
=============================================================================
