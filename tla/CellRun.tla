------------------------------ MODULE CellRun ------------------------------
(***************************************************************************)
(* What Cell::run promises its caller, whatever happens inside: the agent  *)
(* is started at most once, run() answers once, and an answer is given     *)
(* only when no agent is alive and none will be started any more.          *)
(***************************************************************************)
VARIABLES
  agent,   \* "none", "alive" or "dead"
  answer   \* what run() returned: "none", "error", or the child's exit code,
           \* which is the agent's, that of a signal, or 126 of a refusal

cellVars == <<agent, answer>>

CellInit == agent = "none" /\ answer = "none"

Starts == agent = "none" /\ answer = "none" /\ agent' = "alive" /\ UNCHANGED answer

Dies == agent = "alive" /\ agent' = "dead" /\ UNCHANGED answer

Outcomes == IF agent = "none" THEN {"error", "refused", "killed"} ELSE {"agent", "killed"}

Answers ==
  /\ agent # "alive" /\ answer = "none"
  /\ answer' \in Outcomes
  /\ UNCHANGED agent

CellNext == Starts \/ Dies \/ Answers

CellSpec == CellInit /\ [][CellNext]_cellVars
=============================================================================
