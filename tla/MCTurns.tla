------------------------------- MODULE MCTurns ------------------------------
(***************************************************************************)
(* CodexTurn and AntigravityTurn for TLC: a small instance of one or of the*)
(* other, while the other stays as it is.                                  *)
(***************************************************************************)
EXTENDS CodexTurn, AntigravityTurn

VARIABLE part    \* the one that is run

NoBudget  == [messages |-> {}, steps |-> 0, log |-> 0, faults |-> 0]
MCBudgets == {NoBudget,
              [messages |-> {1, 2}, steps |-> 1, log |-> 1, faults |-> 1],
              [messages |-> {1, 2}, steps |-> 1, log |-> 2, faults |-> 0],
              [messages |-> {1}, steps |-> 2, log |-> 2, faults |-> 1]}

NoBrain  == BrainInit /\ budget = NoBudget /\ models = [m \in Message |-> <<TRUE>>]

\* A turn of codex that is over.
TurnOver ==
  /\ mode = "live" /\ elsewhere = FALSE /\ at = "end" /\ result = "ok"
  /\ want = 0 /\ out = <<>> /\ backlog = <<>> /\ closed = FALSE /\ sent = 0
  /\ ask = NoAsk /\ perm = NoPerm /\ answers = <<>> /\ verdict = <<>>
  /\ reply = <<>> /\ item = Nothing /\ said = <<>>
  /\ starts = 0 /\ lost = FALSE
  /\ script = <<>> /\ half = FALSE /\ offset = 0 /\ latest = Nothing

TurnsInit ==
  \/ part = "codex" /\ TurnInit /\ NoBrain
  \/ part = "antigravity" /\ BrainInit /\ budget # NoBudget /\ TurnOver

TurnsNext ==
  \/ part = "codex" /\ TurnNext /\ UNCHANGED <<part, avars>>
  \/ part = "antigravity" /\ BrainNext /\ UNCHANGED <<part, tvars>>

TurnsSpec ==
  /\ TurnsInit /\ [][TurnsNext]_<<part, tvars, avars>>
  /\ WF_tvars(Client) /\ WF_tvars(RunsOut) /\ WF_tvars(WatchEnds)
  /\ \A m \in Message : WF_avars(Works(m)) /\ SF_avars(Deadline(m))

\* A message to either agent ends, whatever the server, the desktop and the owner do
\* or leave (run_codex_turn_via_app_server, wait_for_antigravity_reply).
EveryTurnEnds == TurnEnds /\ BrainTurnsEnd
=============================================================================
