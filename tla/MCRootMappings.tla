--------------------------- MODULE MCRootMappings ---------------------------
(* RootMappings for TLC: eight addresses in granules of two; the users are alike. *)
EXTENDS RootMappings, TLC
UsersAlike == Permutations(Users)
=============================================================================
