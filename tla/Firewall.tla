------------------------------- MODULE Firewall -------------------------------
(***************************************************************************)
(* EnableFirewallRule (src/src/win_util.cpp), which main() calls first on  *)
(* Windows: a chain of COM calls, each of which may fail, with a goto to   *)
(* the release of what the function holds.                                 *)
(*                                                                         *)
(*   fw        the call that is made next                                  *)
(*   held      references and strings that are held                        *)
(*   comInit   what CoInitializeEx returned: "none", "ok", "changed"       *)
(*   failed    FAILED(hr) of the function that is running                  *)
(*   listed    the application was found enabled (fwAppEnabled)            *)
(*   rule      the firewall's entry: "absent", "disabled", "enabled"       *)
(*   result    what EnableFirewallRule returned                            *)
(***************************************************************************)
EXTENDS Naturals

VARIABLES fw, held, comInit, failed, listed, rule, result

fwVars == <<fw, held, comInit, failed, listed, rule, result>>

AtStart == /\ fw = "CoInitializeEx" /\ held = {} /\ comInit = "none"
           /\ failed = FALSE /\ listed = FALSE /\ result = FALSE

FwInit == AtStart /\ rule \in {"absent", "disabled", "enabled"}

\* The plain calls of each function: what a call gets, the next call, and the
\* label it goes to when it fails.
InitializeCalls ==
  [createMgr    |-> [gets |-> {"fwMgr"}, next |-> "getPolicy", label |-> "initError"],
   getPolicy    |-> [gets |-> {"fwPolicy"}, next |-> "getProfile", label |-> "initError"],
   getProfile   |-> [gets |-> {"fwProfile"}, next |-> "initError", label |-> "initError"]]

AppIsEnabledCalls ==
  [queryApps    |-> [gets |-> {"queryApps"}, next |-> "queryPath", label |-> "queryError"],
   queryPath    |-> [gets |-> {"queryPath"}, next |-> "Item", label |-> "queryError"]]

AddAppCalls ==
  [getApps      |-> [gets |-> {"fwApps"}, next |-> "createApp", label |-> "addError"],
   createApp    |-> [gets |-> {"fwApp"}, next |-> "allocPath", label |-> "addError"],
   allocPath    |-> [gets |-> {"path"}, next |-> "putPath", label |-> "addError"],
   putPath      |-> [gets |-> {}, next |-> "allocName", label |-> "addError"],
   allocName    |-> [gets |-> {"name"}, next |-> "putName", label |-> "addError"],
   putName      |-> [gets |-> {}, next |-> "Add", label |-> "addError"]]

Call ==
  [c \in DOMAIN InitializeCalls \cup DOMAIN AppIsEnabledCalls \cup DOMAIN AddAppCalls |->
     CASE c \in DOMAIN InitializeCalls   -> InitializeCalls[c]
       [] c \in DOMAIN AppIsEnabledCalls -> AppIsEnabledCalls[c]
       [] c \in DOMAIN AddAppCalls       -> AddAppCalls[c]]

CoInitializeEx ==
  /\ fw = "CoInitializeEx"
  /\ \/ comInit' \in {"ok", "changed"} /\ fw' = "createMgr"
     \/ comInit' = "none" /\ fw' = "return"
  /\ UNCHANGED <<held, failed, listed, rule, result>>

Succeeds ==
  /\ fw \in DOMAIN Call
  /\ held' = held \cup Call[fw].gets
  /\ fw' = Call[fw].next
  /\ UNCHANGED <<comInit, failed, listed, rule, result>>

Fails ==
  /\ fw \in DOMAIN Call
  /\ failed' = TRUE
  /\ fw' = Call[fw].label
  /\ UNCHANGED <<held, comInit, listed, rule, result>>

\* fwApps->Item: any failure is taken for "not in the collection".
Item ==
  /\ fw = "Item"
  /\ \/ rule # "absent" /\ held' = held \cup {"queryApp"} /\ fw' = "getEnabled"
     \/ fw' = "queryError" /\ UNCHANGED held
  /\ UNCHANGED <<comInit, failed, listed, rule, result>>

getEnabled ==
  /\ fw = "getEnabled"
  /\ \/ listed' = (rule = "enabled") /\ UNCHANGED failed
     \/ failed' = TRUE /\ UNCHANGED listed
  /\ fw' = "queryError"
  /\ UNCHANGED <<held, comInit, rule, result>>

\* External: the entry that is added is enabled and replaces an older one.
Add ==
  /\ fw = "Add"
  /\ \/ rule' = "enabled" /\ UNCHANGED failed
     \/ failed' = TRUE /\ UNCHANGED rule
  /\ fw' = "addError"
  /\ UNCHANGED <<held, comInit, listed, result>>

\* The end of WindowsFirewallInitialize.
initError ==
  /\ fw = "initError"
  /\ held' = held \ {"fwMgr", "fwPolicy"}
  /\ fw' = IF failed THEN "return" ELSE "queryApps"
  /\ UNCHANGED <<comInit, failed, listed, rule, result>>

\* Fault: the entry that was found is not released.
queryReleases_KeepsApp == {"queryPath", "queryApps"}

queryReleases == {"queryPath", "queryApp", "queryApps"}

\* The end of WindowsFirewallAppIsEnabled, back in WindowsFirewallAddApp.
queryError ==
  /\ fw = "queryError"
  /\ held' = held \ queryReleases
  /\ fw' = IF failed \/ listed THEN "addError" ELSE "getApps"
  /\ UNCHANGED <<comInit, failed, listed, rule, result>>

AddResult == IF failed THEN "return" ELSE "cleanup"

\* The end of WindowsFirewallAddApp.
addError ==
  /\ fw = "addError"
  /\ held' = held \ {"name", "path", "fwApp", "fwApps"}
  /\ fw' = AddResult
  /\ UNCHANGED <<comInit, failed, listed, rule, result>>

WindowsFirewallCleanup ==
  /\ fw = "cleanup"
  /\ held' = held \ {"fwProfile"}
  /\ comInit' = IF comInit = "ok" THEN "none" ELSE comInit      \* CoUninitialize
  /\ result' = TRUE
  /\ fw' = "return"
  /\ UNCHANGED <<failed, listed, rule>>

\* main() goes on whatever the result is.
Returned ==
  /\ fw = "return"
  /\ fw' = "off"
  /\ held' = {} /\ comInit' = "none" /\ failed' = FALSE /\ listed' = FALSE /\ result' = FALSE
  /\ UNCHANGED rule

FwRestart ==
  /\ fw = "off"
  /\ fw' = "CoInitializeEx"
  /\ UNCHANGED <<held, comInit, failed, listed, rule, result>>

FwNext ==
  \/ CoInitializeEx \/ Succeeds \/ Fails \/ Item \/ getEnabled \/ Add
  \/ initError \/ queryError \/ addError \/ WindowsFirewallCleanup \/ Returned

------------------------------------------------------------------------------
(* Properties *)

\* Whichever call fails, the helper functions leave nothing behind but the
\* profile, and a call that reports success leaves nothing at all: COM is
\* uninitialised exactly when this call initialised it.  Success also means that
\* the program may be reached: its entry is there and enabled.
RuleOutcome ==
  /\ fw \in {"queryApps", "cleanup", "return"} => held \subseteq {"fwProfile"}
  /\ fw = "return" /\ result => held = {} /\ comInit # "ok" /\ rule = "enabled"
==============================================================================
