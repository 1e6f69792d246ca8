----------------------------- MODULE MCCallPipeline -----------------------------
(***************************************************************************)
(* Instances of CallPipeline for TLC.  Recordings are interchangeable, so  *)
(* the safety runs identify states that only permute them; the liveness    *)
(* runs use no symmetry.                                                   *)
(***************************************************************************)
EXTENDS CallPipeline, TLC

RecordingSymmetry == Permutations(Recordings)
=============================================================================
