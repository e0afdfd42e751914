-------------------------------- MODULE Startup --------------------------------
(***************************************************************************)
(* main() from its first statements on: EnableFirewallRule, openssl for    *)
(* the own key, and with both done the log and the pages that poll it; a   *)
(* restart begins again with the firewall.                                 *)
(***************************************************************************)
EXTENDS ProxyLog, Firewall, Process

vars == <<logVars, fwVars, procVars>>

Init == LogInit /\ FwInit /\ ProcInit

Next ==
  \/ FwNext /\ UNCHANGED <<logVars, procVars>>
  \/ ProcNext /\ fw = "off" /\ UNCHANGED <<logVars, fwVars>>
  \/ LogNext /\ exec = "done" /\ UNCHANGED <<fwVars, procVars>>
  \/ Restart /\ FwRestart /\ ProcRestart

Spec == Init /\ [][Next]_vars
==============================================================================
