--------------------------- MODULE StateCommands ---------------------------
(***************************************************************************)
(* What the commands of the state actor do to the state (core/state.rs).   *)
(* The state is a map from slots (a perm, a rotation, a chat's repository, *)
(* an approval of Antigravity) to values; the commands differ in the       *)
(* condition under which they write and in whether they then flush.        *)
(***************************************************************************)

CONSTANT Slot

Value == {"none", "open", "approved", "denied", "timedout"}   \* "none": no entry
State == [Slot -> Value]

\*  put       SetDefaultRepo, InsertPending, SetMobileSession, SetBridgedSession,
\*            SetAuthContextStatus, SetActiveAuthContext, InsertPendingRotation,
\*            SetLeadDefault, SetLeadForChat, SetSelectedModel with a model
\*  clear     ClearMobileSession, ClearLeadForChat, SetSelectedModel without one,
\*            RemovePendingAntigravityApproval
\*  set       ResolvePending, ResolvePendingRotation
\*  resolve   ResolvePendingIfOpen
\*  expire    ExpirePending
\*  insert    InsertPendingAntigravityApproval
Op      == {"put", "clear", "set", "resolve", "expire", "insert"}
Command == [op : Op, slot : Slot, val : Value]

\* Mutant: a decision is overwritten as if it were open.
HitsDecided(c, v) ==
  \/ c.op \in {"put", "clear"}
  \/ c.op \in {"set", "resolve"} /\ v # "none"
  \/ c.op = "expire" /\ v = "open"
  \/ c.op = "insert" /\ v = "none"

\* The command writes a slot that holds v.
Hits(c, v) ==
  \/ c.op \in {"put", "clear"}
  \/ c.op = "set" /\ v # "none"
  \/ c.op \in {"resolve", "expire"} /\ v = "open"
  \/ c.op = "insert" /\ v = "none"

Written(c) == CASE c.op = "clear"  -> "none"
                [] c.op = "expire" -> "timedout"
                [] OTHER           -> c.val

After(c, s) == IF Hits(c, s[c.slot]) THEN [s EXCEPT ![c.slot] = Written(c)] ELSE s

\* What the caller is told if nothing fails.  A refused command (AlreadyResolved,
\* Missing, Ok(false)) is answered without a flush; every other one flushes,
\* whether it changed the state or not.
Outcome(c, s) == IF c.op \notin {"resolve", "insert"} THEN "ok"
                 ELSE IF Hits(c, s[c.slot]) THEN "won" ELSE "refused"
=============================================================================
