----------------------------- MODULE MCConsole ------------------------------
(* An instance of Console: a page that lists and uploads documents and     *)
(* creates two keys, with the token of an administrator, of a viewer, the  *)
(* demo token or none.                                                     *)
EXTENDS Console, TLC

CONSTANTS list, upload, query, key1, key2, admin, viewer

MCKind == (list :> "list") @@ (upload :> "upload") @@ (query :> "query")
            @@ (key1 :> "key") @@ (key2 :> "key")
MCToken == (admin :> "admin") @@ (viewer :> "viewer")
MCSession == {{list, upload}, {query, key1}, {key1, key2}}
=============================================================================
