------------------------ MODULE MCInvocationService ------------------------
(***************************************************************************)
(* Two messages in one session; the second may be sent while the first     *)
(* still runs.  They compete for one thread of the pool.                   *)
(***************************************************************************)
EXTENDS InvocationService

MCSessionOf == [m1 |-> "s1", m2 |-> "s1"]
MCRequests == DOMAIN MCSessionOf
MCTurn == [m1 |-> 1, m2 |-> 2]
=============================================================================
