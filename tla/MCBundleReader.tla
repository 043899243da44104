--------------------------- MODULE MCBundleReader ---------------------------
(***************************************************************************)
(* Bundles of up to three entries for TLC: the third has the name of the   *)
(* first, and all differ in size.                                          *)
(***************************************************************************)
EXTENDS BundleReader

MCNameOf == [e \in Entry |-> <<"a", "b", "a">>[e]]
MCSize   == [e \in Entry |-> <<1, 1, 2>>[e]]
MCFinal  == [e \in Entry |-> <<2, 1, 1>>[e]]
=============================================================================
