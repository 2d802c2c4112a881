-------------------------- MODULE MCListingEditor --------------------------
(* ListingEditor for TLC: tabs, addresses and files are interchangeable.   *)
EXTENDS ListingEditor, TLC

Symmetry == Permutations(Tab) \cup Permutations(Place) \cup Permutations(Photo)
=============================================================================
