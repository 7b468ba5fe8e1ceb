----------------------------- MODULE MCProcess ------------------------------
(***************************************************************************)
(* The process for TLC: the runtime, and the three parts of package app    *)
(* that main does not use yet.  They share no state, so each behaviour     *)
(* follows one of them and the others stay as they are: the states add up  *)
(* instead of multiplying.                                                 *)
(***************************************************************************)
EXTENDS Runtime, Lifecycle, Supervisor, Metrics

VARIABLE part           \* the part this behaviour follows

otherVars == <<vars, lifecycleVars, supervisorVars, metricsVars, part>>

ProcessInit ==
    /\ Init /\ LifecycleInit /\ SupervisorInit /\ MetricsInit
    /\ part \in {"runtime", "lifecycle", "supervisor", "metrics"}
    /\ part # "supervisor" => \A r \in Runs : runs[r].name = CHOOSE n \in Names : TRUE

RuntimeStep    == part = "runtime" /\ Next /\ UNCHANGED <<lifecycleVars, supervisorVars, metricsVars, part>>
LifecycleStep  == part = "lifecycle" /\ LifecycleNext /\ UNCHANGED <<vars, supervisorVars, metricsVars, part>>
SupervisorStep == part = "supervisor" /\ SupervisorNext /\ UNCHANGED <<vars, lifecycleVars, metricsVars, part>>
MetricsStep    == part = "metrics" /\ MetricsNext /\ UNCHANGED <<vars, lifecycleVars, supervisorVars, part>>

ProcessSpec ==
    /\ ProcessInit
    /\ [][RuntimeStep \/ LifecycleStep \/ SupervisorStep \/ MetricsStep]_otherVars
    /\ part = "runtime" => Fairness
    /\ part = "supervisor" => SupervisorFairness

\* Every call of Shutdown returns some day, and after Supervisor.Stop the table of
\* workers empties although Stop waits for none (Runtime.Shutdown, Supervisor).
EverythingStops == Stops /\ TableEmpties

=============================================================================
