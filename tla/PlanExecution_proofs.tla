------------------------ MODULE PlanExecution_proofs ------------------------
(***************************************************************************)
(* The promises of the abstract execution, for every value of the limits.  *)
(***************************************************************************)
EXTENDS PlanExecution, TLAPS

\* Every step that passed, and every attempt at the one under way, is paid for with a
\* sub-agent call, and neither limit is exceeded, until the run fails.
THEOREM PaidForThm ==
  ASSUME HopLimit \in Nat, RetryLimit \in Nat \ {0}
  PROVE  PlanSpec => []PaidFor
<1>1. PlanInit => PlanTypeOK /\ PaidFor
  BY DEF PlanInit, PlanTypeOK, PaidFor
<1>2. PlanTypeOK /\ PaidFor /\ [PlanNext]_planVars => PlanTypeOK' /\ PaidFor'
  <2> SUFFICES ASSUME PlanTypeOK, PaidFor, [PlanNext]_planVars
               PROVE  PlanTypeOK' /\ PaidFor'
    OBVIOUS
  <2>1. CASE Begin
    BY <2>1 DEF Begin, PlanTypeOK, PaidFor
  <2>2. CASE Try
    BY <2>2 DEF Try, PlanTypeOK, PaidFor
  <2>3. CASE Pass
    BY <2>3 DEF Pass, PlanTypeOK, PaidFor
  <2>4. CASE Stop
    BY <2>4 DEF Stop, PlanTypeOK, PaidFor
  <2>5. CASE Answer
    BY <2>5 DEF Answer, PlanTypeOK, PaidFor
  <2>6. CASE Fail
    BY <2>6 DEF Fail, PlanTypeOK, PaidFor
  <2>7. CASE UNCHANGED planVars
    BY <2>7 DEF planVars, PlanTypeOK, PaidFor
  <2> QED
    BY <2>1, <2>2, <2>3, <2>4, <2>5, <2>6, <2>7 DEF PlanNext
<1> QED
  BY <1>1, <1>2, PTL DEF PlanSpec
=============================================================================
