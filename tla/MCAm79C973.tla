----------------------------- MODULE MCAm79C973 -----------------------------
(***************************************************************************)
(* The driver with rings of a few descriptors; the geometry of the buffers *)
(* is the real one.                                                        *)
(***************************************************************************)
EXTENDS Am79C973
=============================================================================
