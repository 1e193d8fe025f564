------------------------- MODULE WindowsIntegration -------------------------
(* main of windows_integration.py: one process either registers the tasks  *)
(* or stops the monitors.  What the other command would do does not happen.*)
EXTENDS TaskRegistration, MonitorStop

VARIABLE command

mainVars == <<vars, stopVars, command>>

\* The state of the command that is not given is held at one value.
MainInit ==
    /\ command \in {"register-tasks", "stop-monitor"}
    /\ Init /\ StopInit
    /\ command = "register-tasks" => procs = [p \in Pids |-> "none"]
    /\ command = "stop-monitor"   => tasks = [i \in Names |-> "absent"]

RegisterTasks == command = "register-tasks" /\ Next /\ UNCHANGED <<stopVars, command>>
StopMonitor   == command = "stop-monitor" /\ StopNext /\ UNCHANGED <<vars, command>>

MainSpec == MainInit /\ [][RegisterTasks \/ StopMonitor]_mainVars
=============================================================================
