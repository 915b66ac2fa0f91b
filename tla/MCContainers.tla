----------------------------- MODULE MCContainers -----------------------------
(* Tables of 4 and 8 slots.  Keys k1, k2 and k3 collide in the small ones, *)
(* k1 and k2 in all; k1 and k1x are equal objects.  Lists and tuples of up *)
(* to three items, of which o1 and o2 sort alike.                          *)
EXTENDS Containers, TLC

CONSTANTS k1, k2, k3, k4, k5, k6, k1x, v1, v2, o1, o2, o3

MCHash  == k1 :> 3 @@ k2 :> 3 @@ k3 :> 7 @@ k1x :> 3 @@ k4 :> 1 @@ k5 :> 5 @@ k6 :> 6
MCEqual == k1 :> 1 @@ k2 :> 2 @@ k3 :> 3 @@ k1x :> 1 @@ k4 :> 4 @@ k5 :> 5 @@ k6 :> 6

MCSources == {<<Entry(k1x, v2)>>, <<Entry(k2, v2), Gone, Entry(k3, v2)>>}

MCSort == o1 :> 1 @@ o2 :> 1 @@ o3 :> 0
=============================================================================
