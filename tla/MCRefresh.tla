----------------------------- MODULE MCRefresh -----------------------------
(* Values for model checking Refresh.                                      *)
EXTENDS Refresh

\* The script decides what to run; these are what it uses.
MCCommands == {RegisterAll, RenewOnly}
MCResumes == {FALSE}

\* "the attestation request reverts on an already-registered machine"
\* (deploy/render/README.md): on one in production.  R follows r on a machine
\* that r has just initialized.
MCNotInProduction == {"Initialized", "Paused"}
=============================================================================
