------------------------------ MODULE MCHistory ------------------------------
(* The instances of MCDoctor, with the APIs that were down remembered.         *)
EXTENDS MCDoctor, DoctorHistory
=============================================================================
