------------------------------- MODULE Faults -------------------------------
(***************************************************************************)
(* The failures of what the services call (PostgreSQL, NATS, gRPC peers)   *)
(* and of the service processes themselves.  The code under src/ does not  *)
(* produce them, it reacts to them, so this module is external: a          *)
(* component's action for an error path conjoins Fault(kind), every other  *)
(* action NoFault.  A run chooses the kinds it allows and how many of them *)
(* may happen, the only bound on failures.                                 *)
(***************************************************************************)
EXTENDS Naturals

CONSTANTS
    FaultKinds,  \* The kinds of failure that may happen.
    MaxFaults    \* How many failures one behaviour may hold.

ASSUME FaultsAssumption == MaxFaults \in Nat

VARIABLE faults  \* How many failures have happened.

FaultsType == faults \in 0..MaxFaults

FaultsInit == faults = 0

\* A failure of this kind happens in this step.
Fault(kind) == kind \in FaultKinds /\ faults < MaxFaults /\ faults' = faults + 1

NoFault == UNCHANGED faults

=============================================================================
