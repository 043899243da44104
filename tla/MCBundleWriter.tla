--------------------------- MODULE MCBundleWriter ---------------------------
(***************************************************************************)
(* Five resources in two groups and a bundle for TLC: one name is found in *)
(* both groups, one resource is empty and one is in the bundle.            *)
(***************************************************************************)
EXTENDS BundleWriter

MCNameOf    == [r \in Resource |-> <<"a", "b", "a", "d", "e">>[r]]
MCStorageOf == [r \in Resource |-> <<"s", "s", "t", "t", "t">>[r]]
MCGroupOf   == [r \in Resource |-> <<"g", "g", "h", "h", "h">>[r]]
MCRank      == [g \in {"bundles", "g", "h"} |-> CASE g = "g" -> 1 [] g = "bundles" -> 2 [] g = "h" -> 3]
MCSizeOf    == [r \in Resource |-> <<3, 1, 2, 0, 1>>[r]]
MCPacked    == [r \in Resource |-> <<2, 2, 1, 1, 1>>[r]]
=============================================================================
