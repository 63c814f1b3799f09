---------------------------- MODULE MCMediaReview ----------------------------
(* The models of MediaReview: links, uploads and editors are interchangeable. *)
EXTENDS MediaReview, TLC

ContentSymmetry == Permutations(Links) \union Permutations(Uploads) \union Permutations(Editors)
==============================================================================
