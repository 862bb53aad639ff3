---------------------------- MODULE MCSitesStore ----------------------------
(* A site with a password, an object store, and room for one more. *)
EXTENDS SitesStore
MCSaved == <<"normal", "cloud">>
=============================================================================
