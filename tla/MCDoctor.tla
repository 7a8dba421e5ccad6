------------------------------ MODULE MCDoctor -------------------------------
(***************************************************************************)
(* Doctor for TLC.  No symmetry: one of the properties is liveness.        *)
(***************************************************************************)
EXTENDS Doctor, TLC

=============================================================================
