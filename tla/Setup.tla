------------------------------- MODULE Setup -------------------------------
(***************************************************************************)
(* An installation and its provisioning: one script at a time. Only a Mac  *)
(* is provisioned, and what provisioning made goes with the base.          *)
(***************************************************************************)
EXTENDS Installer, Provision

vars == <<ivars, pvars>>

Init == InstallerInit /\ ProvisionInit

InstallerTurn ==
    /\ task = "none"
    /\ InstallerNext
    /\ IF journal.present /\ ~journal'.present THEN Renew ELSE UNCHANGED pvars

ProvisionTurn ==
    /\ host = "mac" /\ script = "none" /\ journal.status = "installed"
    /\ ProvisionNext
    /\ UNCHANGED ivars

Next == InstallerTurn \/ ProvisionTurn

Spec == Init /\ [][Next]_vars
=============================================================================
