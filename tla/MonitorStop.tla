----------------------------- MODULE MonitorStop -----------------------------
(***************************************************************************)
(* stop_owned_monitors of windows_integration.py: the running monitors are *)
(* listed, and each listed process id is looked at again right before      *)
(* taskkill, because the process may have gone and its id may belong to    *)
(* another one by then.  Processes come and go between any two calls.      *)
(***************************************************************************)
EXTENDS Integers

CONSTANTS
    Pids,       \* process ids
    MaxBad,     \* BOUND: queries and taskkill calls that fail
    MaxChurn    \* BOUND: processes that end or start meanwhile

ASSUME StopAssumption == Pids \subseteq Nat \ {0} /\ MaxBad \in Nat /\ MaxChurn \in Nat

VARIABLES
    procs,   \* process id -> what runs under it
    step,    \* the caller: list, look, kill, left, stopped or error
    pid,     \* the process id in hand
    cands,   \* candidate_pids not yet dealt with
    bad, churn,
    listed,  \* history: the listed monitors that are still the same process
    reused   \* history: pid changed hands after the look that kill relies on

stopVars == <<procs, step, pid, cands, bad, churn, listed, reused>>

\* classify_monitor_process: this user's monitor of this install; another
\* Python process; or one whose owner or command line cannot be read.  A query
\* does not show processes that are not Python ("other").
Kinds    == {"own", "foreign", "unclear", "other"}
Runs(p)  == procs[p] # "none"
Shown(p) == procs[p] \in {"own", "foreign", "unclear"}

StopInit ==
    /\ procs \in [Pids -> Kinds \cup {"none"}]
    /\ step = "list" /\ pid = 0
    /\ cands = {} /\ bad = 0 /\ churn = 0
    /\ listed = {} /\ reused = FALSE

Bad == bad < MaxBad /\ bad' = bad + 1
GiveUpStop == step' = "error" /\ UNCHANGED <<pid, cands>>
NextPid    == step' = "look" /\ cands' = cands \ {pid} /\ UNCHANGED pid

\* owned_monitor_pids: one unclear process, or a failing query, ends it.
List ==
    /\ step = "list"
    /\ \/ Bad /\ GiveUpStop /\ UNCHANGED listed
       \/ /\ UNCHANGED bad
          /\ IF \E p \in Pids : procs[p] = "unclear"
             THEN GiveUpStop /\ UNCHANGED listed
             ELSE /\ cands' = {p \in Pids : procs[p] = "own"}
                  /\ listed' = cands'
                  /\ step' = "look" /\ UNCHANGED pid
    /\ UNCHANGED <<procs, churn, reused>>

\* Slip: the list is trusted, the process is not looked at again.
LookSkipped ==
    /\ step = "look"
    /\ \E p \in cands : pid' = p /\ step' = "kill"
    /\ UNCHANGED <<procs, cands, bad, churn, listed, reused>>

\* _query_processes for this id alone: gone, another process, or still ours.
Look ==
    /\ step = "look"
    /\ reused' = FALSE
    /\ \E p \in cands :
         \/ Bad /\ GiveUpStop
         \/ /\ UNCHANGED bad
            /\ \/ ~Shown(p) /\ cands' = cands \ {p} /\ UNCHANGED <<step, pid>>
               \/ procs[p] \in {"foreign", "unclear"} /\ GiveUpStop
               \/ procs[p] = "own" /\ pid' = p /\ step' = "kill" /\ UNCHANGED cands
    /\ UNCHANGED <<procs, churn, listed>>

\* taskkill ends whatever has the process id, or says it could not.
TaskKill ==
    /\ step = "kill"
    /\ \/ /\ Runs(pid)
          /\ procs' = [procs EXCEPT ![pid] = "none"]
          /\ listed' = listed \ {pid}
          /\ NextPid /\ UNCHANGED bad
       \/ /\ IF Runs(pid) THEN Bad ELSE UNCHANGED bad
          /\ step' = "left"
          /\ UNCHANGED <<procs, pid, cands, listed>>
    /\ UNCHANGED <<churn, reused>>

\* Slip: a process that taskkill could not end counts as stopped.
LeftIgnored ==
    /\ step = "left"
    /\ NextPid
    /\ UNCHANGED <<procs, bad, churn, listed, reused>>

\* ... then nothing may be left under the id.
Left ==
    /\ step = "left"
    /\ \/ Bad /\ GiveUpStop
       \/ UNCHANGED bad /\ IF Shown(pid) THEN GiveUpStop ELSE NextPid
    /\ UNCHANGED <<procs, churn, listed, reused>>

AllStopped ==
    /\ step = "look" /\ cands = {}
    /\ step' = "stopped"
    /\ UNCHANGED <<procs, pid, cands, bad, churn, listed, reused>>

\* A process ends by itself, or one starts under a free id.
Churn(p) ==
    /\ step \notin {"stopped", "error"}
    /\ churn < MaxChurn /\ churn' = churn + 1
    /\ IF Runs(p) THEN procs' = [procs EXCEPT ![p] = "none"]
                  ELSE \E k \in Kinds : procs' = [procs EXCEPT ![p] = k]
    /\ listed' = listed \ {p}
    /\ reused' = (reused \/ (step = "kill" /\ p = pid))
    /\ UNCHANGED <<step, pid, cands, bad>>

StopNext == List \/ Look \/ TaskKill \/ Left \/ AllStopped \/ \E p \in Pids : Churn(p)
StopSpec == StopInit /\ [][StopNext]_stopVars

-----------------------------------------------------------------------------
(* Correctness.                                                            *)

\* Only monitors of this install are killed, unless the id went to another
\* process between the second look and taskkill (stop_owned_monitors).
KillsOnlyMonitors ==
    [][\A p \in Pids : procs'[p] # procs[p] /\ churn' = churn =>
         procs[p] = "own" \/ reused]_stopVars

\* A stop that reports success has ended every monitor it listed, also where
\* taskkill failed and where the process had gone by itself.
StoppedAreGone == step = "stopped" => listed = {}
=============================================================================
