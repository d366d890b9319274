--------------------------- MODULE MCRegistration ---------------------------
(* Values for model checking Registration.                                 *)
EXTENDS Registration

\* The commands the scripts and documents use: rRap, rap and the renewal ra.
MCCommands == {{"r", "R", "a", "p"}, {"r", "a", "p"}, {"r", "a"}}
MCRegisterAfresh == {{"r", "R", "a", "p"}}
MCResume == {TRUE}
MCEither == BOOLEAN
MCAnyKnown == {"Initialized", "Production", "Paused"}
=============================================================================
