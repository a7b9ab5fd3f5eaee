------------------------------ MODULE GraphRun ------------------------------
(***************************************************************************)
(* What the service sees of one run of the state graph: it records its     *)
(* steps one by one, at most MaxRecords of them and none after a step was  *)
(* given up; then it writes a log entry for each record, and is answered   *)
(* when all are written.  It may raise anywhere.                           *)
(*                                                                         *)
(* OrchestratorGraph implements this specification (see                    *)
(* OrchestratorRefinement), and so does every request of                   *)
(* InvocationService, whose runs leave out the rest of the graph.          *)
(***************************************************************************)
EXTENDS Naturals

CONSTANT MaxRecords

VARIABLES
  stage,      (* "running", "logging", "answered", "raised"                *)
  recorded,   (* how many step results there are                           *)
  gaveUp,     (* a step failed and was given up after its retries          *)
  entries     (* how many log entries have been written                    *)

runVars == <<stage, recorded, gaveUp, entries>>

RunInit == stage = "running" /\ recorded = 0 /\ gaveUp = FALSE /\ entries = 0

RecordStep ==
  /\ stage = "running" /\ ~gaveUp /\ recorded < MaxRecords
  /\ recorded' = recorded + 1
  /\ gaveUp' \in BOOLEAN
  /\ UNCHANGED <<stage, entries>>

GiveUp ==
  /\ stage = "running" /\ recorded > 0
  /\ gaveUp' = TRUE
  /\ UNCHANGED <<stage, recorded, entries>>

BeginLog ==
  /\ stage = "running" /\ stage' = "logging"
  /\ UNCHANGED <<recorded, gaveUp, entries>>

WriteLog ==
  /\ stage = "logging"
  /\ entries' \in entries .. recorded
  /\ stage' \in {"logging", "answered", "raised"}
  /\ stage' = "answered" => entries' = recorded
  /\ UNCHANGED <<recorded, gaveUp>>

Raise ==
  /\ stage \in {"running", "logging"} /\ stage' = "raised"
  /\ UNCHANGED <<recorded, gaveUp, entries>>

RunNext == RecordStep \/ GiveUp \/ BeginLog \/ WriteLog \/ Raise

RunSpec == RunInit /\ [][RunNext]_runVars
=============================================================================
