---------------------------- MODULE MCDiscovery -----------------------------
EXTENDS Discovery

(* Addresses at the start, within the gap of the first, and at the cap. *)
HandedOut == {0, 3, 4}
=============================================================================
