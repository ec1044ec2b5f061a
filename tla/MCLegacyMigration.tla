--------------------------- MODULE MCLegacyMigration ---------------------------
(* LegacyMigration for TLC: KBs, nodes and updates are interchangeable. *)
EXTENDS LegacyMigration, TLC

Symmetry == Permutations(Kbs) \cup Permutations(Nodes) \cup Permutations(Updates)

================================================================================
