--------------------------- MODULE MCNixosInstall ---------------------------
(* Generation 1, which has a specialisation and whose number begins that of   *)
(* generation 10; the two share a kernel and differ in the initrd.            *)
EXTENDS NixosInstall, TLC

CONSTANTS g1, s1, g10, c1, c10, k, i1, i10

MCClosure == 1 :> c1 @@ 10 :> c10
MCGenerationOf == g1 :> 1 @@ s1 :> 1 @@ g10 :> 10
MCKernel == g1 :> k @@ s1 :> k @@ g10 :> k
MCInitrd == g1 :> i1 @@ s1 :> None @@ g10 :> i10

=============================================================================
