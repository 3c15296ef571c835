---------------------------- MODULE MCPipeline -----------------------------
(* Instances of Pipeline for TLC.                                          *)
EXTENDS Pipeline

Archive == <<"download", "unpack", "patch", "configure", "make", "make">>
Linked == <<"download", "unpack", "patch", "lndirs", "make">>
Checkout == <<"download", "patch", "configure", "make">>

(* An archive package with two patches, then a checkout with two.          *)
MCRecipe == <<Archive, Checkout>>
MCNPatches == <<2, 2>>

(* Linked sources, then an archive that is unpacked with --ignore and has  *)
(* no patches, then a checkout with one.                                   *)
Lent == <<"download", "unpack", "patch", "configure", "make">>
MCRecipe3 == <<Linked, Lent, Checkout>>
MCNPatches3 == <<2, 0, 1>>
=============================================================================
