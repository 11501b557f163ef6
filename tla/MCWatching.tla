----------------------------- MODULE MCWatching -----------------------------
EXTENDS Watching, TLC

CONSTANTS v1, v2, h1, o1, o2, o3

WalletsOf == [vault |-> {v1, v2}, hot |-> {h1}]
BornAt == (v1 :> {1, 2}) @@ (v2 :> {1}) @@ (h1 :> {1})
OwnerOf == (o1 :> v1) @@ (o2 :> v1) @@ (o3 :> h1)
PaidAt == (o1 :> 1) @@ (o2 :> 1) @@ (o3 :> 2)
=============================================================================
