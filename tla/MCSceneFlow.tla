---------------------------- MODULE MCSceneFlow ----------------------------
(***************************************************************************)
(* Scenes for TLC: two more identities than the four scenes of FewScenes,  *)
(* so that the bound on them cuts nothing off, and up to three banners.    *)
(***************************************************************************)
EXTENDS SceneFlow
=============================================================================
