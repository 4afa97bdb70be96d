----------------------------- MODULE DriveSetupMC -----------------------------
(* Two packages and one tool for DriveSetup: the tool whose wrapper is tried
   out, which can do all that the others can.                              *)
EXTENDS DriveSetup
CONSTANTS samba, drive, identity
MCCalls == <<samba, drive>>
MCTools == <<identity>>
=============================================================================
