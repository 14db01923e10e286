----------------------------- MODULE MCOfficer -----------------------------
(***************************************************************************)
(* Small instances of Officer.                                             *)
(***************************************************************************)
EXTENDS Officer

\* Every table of the module.
AllTables == DOMAIN Entities
=============================================================================
