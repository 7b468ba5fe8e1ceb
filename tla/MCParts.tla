------------------------------ MODULE MCParts -------------------------------
(***************************************************************************)
(* Small parts that share nothing, for TLC: a behaviour follows the audit  *)
(* walk, the row locks, the permits, the weighing or one calculation.      *)
(***************************************************************************)
EXTENDS AuditPages, RowLocks, Permits, Weighing, Calculations

\* Clocks up to a minute of a day of six ahead of UTC or behind it.
MCOffsets == -1..1

VARIABLE part

AuditStep    == part = "audit" /\ AuditNext /\ UNCHANGED <<scheduleVars, lockVars, permitVars, weighingVars>>
LockStep     == part = "locks" /\ LockNext /\ UNCHANGED <<auditVars, permitVars, weighingVars>>
PermitStep   == part = "permits" /\ PermitNext /\ UNCHANGED <<auditVars, scheduleVars, lockVars, weighingVars>>
WeighingStep == part = "weighing" /\ WeighingNext /\ UNCHANGED <<auditVars, scheduleVars, lockVars, permitVars>>

PartsInit ==
    /\ AuditInit /\ LockInit /\ PermitInit
    /\ part \in {"audit", "locks", "permits", "weighing", "calculations"}
    /\ IF part = "weighing" THEN WeighingInit
       ELSE WeighingInit /\ \A r \in Taken : net[r] = 1 /\ at[r] = 0
    /\ IF part = "calculations" THEN CalculationsInit ELSE call = [what |-> "none"]

PartsNext == (AuditStep \/ LockStep \/ PermitStep \/ WeighingStep) /\ UNCHANGED <<call, part>>

PartsSpec ==
    PartsInit /\ [][PartsNext]_<<auditVars, scheduleVars, lockVars, permitVars, weighingVars, call, part>>

=============================================================================
