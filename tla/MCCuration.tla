----------------------------- MODULE MCCuration -----------------------------
(* Constants for the model-checking runs of Curation. *)
EXTENDS Curation

CONSTANTS s1
=============================================================================
