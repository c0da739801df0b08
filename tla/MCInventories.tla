--------------------------- MODULE MCInventories ----------------------------
(***************************************************************************)
(* Instance of Inventories for TLC: two providers, a filtered inventory and *)
(* a composite one, which may be made of each other.                        *)
(***************************************************************************)
EXTENDS Inventories, TLC

CONSTANTS sat, zab, f, c, first, second, w1

\* f is made of one provider already.
FilterOfSat == sat :> {} @@ zab :> {} @@ f :> {sat} @@ c :> {}

Interchangeable == Permutations(Requests)

=============================================================================
