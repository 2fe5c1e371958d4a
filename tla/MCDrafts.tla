------------------------------ MODULE MCDrafts ------------------------------
(* Instantiates Drafts with two resources and two editors, per database.   *)
EXTENDS Drafts, TLC

TabSymmetry == Permutations(Tabs)

=============================================================================
