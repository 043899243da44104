----------------------------- MODULE MCDropping -----------------------------
(***************************************************************************)
(* A dropper for TLC that starts off the middle of a short range, with     *)
(* frames of lengths that do not divide the wait.                          *)
(***************************************************************************)
EXTENDS Dropping

MCMinX   == -5
MCStartX == -1
=============================================================================
