----------------------------- MODULE MCPackages -----------------------------
(* A default package with every module, which may be deleted and come back *)
(* once, and a package of the administrator with two of them in the        *)
(* opposite order; two connections.                                        *)
EXTENDS Packages

CONSTANTS b1, b2, k1, m1, m2, m3, c1, c2

MCSlug == (b1 :> "full") @@ (b2 :> "full") @@ (k1 :> "random")
MCDefaults == <<"full">>
MCPreset == "full" :> <<m1, m2, m3>>
MCLists == {<<m3, m2>>}
=============================================================================
