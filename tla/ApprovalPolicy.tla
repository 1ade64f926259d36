--------------------------- MODULE ApprovalPolicy ---------------------------
(***************************************************************************)
(* What the approval gate promises, whatever the channels, timers, ids and *)
(* crashes behind it: a request is answered at most once; the owner's word *)
(* on it is never taken back; a gated command is approved because the      *)
(* owner approved it or, when it is not destructive, because nobody        *)
(* answered; and it is denied in the owner's name only if the owner did    *)
(* deny it.  PermCheck implements this specification.                      *)
(***************************************************************************)
CONSTANTS
  Request,      \* the requests
  Verdict       \* {"approve", "deny"}

VARIABLES
  kind,    \* "free": no gate rule matches; "ask": one does; "guard": one does
           \* and the command is destructive
  word,    \* the owner's decisions that bear on each request
  answer   \* what each request was told

policyVars == <<kind, word, answer>>

Unanswered == [verdict |-> "none", reason |-> "none"]

\* The reasons a request may be given for each verdict.
Allowed(q, v, why) ==
  CASE v = "approve" -> \/ why = "no_gate_match" /\ kind[q] = "free"
                        \/ why = "user_approved" /\ "approve" \in word[q]
                        \/ why = "timeout_fail_open" /\ kind[q] # "guard"
    [] v = "deny"    -> \/ why = "user_denied" /\ "deny" \in word[q]
                        \/ why = "timeout_fail_closed" /\ kind[q] = "guard"
                        \/ why = "approval_gate_tampered"
    [] v = "none"    -> why \in {"http_500", "eof"}
    [] OTHER         -> FALSE

Init ==
  /\ kind \in [Request -> {"free", "ask", "guard"}]
  /\ word = [q \in Request |-> {}]
  /\ answer = [q \in Request |-> Unanswered]

\* The owner decides; the decision may bear on several requests at once.
Decide ==
  /\ word' \in [Request -> SUBSET Verdict]
  /\ \A q \in Request : word[q] \subseteq word'[q]
  /\ UNCHANGED <<kind, answer>>

\* Requests are answered, each for a reason that holds; a crash answers many.
Reply ==
  /\ \A q \in Request :
       \/ answer'[q] = answer[q]
       \/ /\ answer[q] = Unanswered
          /\ Allowed(q, answer'[q].verdict, answer'[q].reason)
  /\ UNCHANGED <<kind, word>>

Next == Decide \/ Reply

Spec == Init /\ [][Next]_policyVars
=============================================================================
