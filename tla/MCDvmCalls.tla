----------------------------- MODULE MCDvmCalls -----------------------------
(***************************************************************************)
(* The instance of DvmCalls whose programs keep to what DvmConforming asks *)
(* for: those for which the theorems about calls hold.                     *)
(***************************************************************************)
EXTENDS MCDvmPrograms, DvmConforming

ASSUME ProgramsConform == Conforming /\ ShortMethods
=============================================================================
