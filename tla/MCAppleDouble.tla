--------------------------- MODULE MCAppleDouble ---------------------------
(* Instance of AppleDouble for TLC: blocks and fork numbers are alike. *)
EXTENDS AppleDouble, TLC

CONSTANTS f, g, b1, b2, k1, k2
MetadataOfF == {f} \X {"resource", "finderinfo", "comment"}
MetadataAndData == {<<f, "resource">>, <<f, "finderinfo">>, <<f, "comment">>, <<g, "data">>}
ForksOfBoth == {<<f, "resource">>, <<f, "data">>, <<g, "resource">>}
MCSymmetry == Permutations({b1, b2}) \cup Permutations({k1, k2})
=============================================================================
