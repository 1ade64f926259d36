--------------------------- MODULE AntigravityTurn --------------------------
(***************************************************************************)
(* Messages to the selected Antigravity session (telegram.rs).             *)
(*                                                                         *)
(* Each message is a task of its own: it finds the language server, sends  *)
(* the message with the first model that has quota, and then polls.  A poll*)
(* asks the server which interactions wait for a decision, puts a card with*)
(* buttons in the chat for each, and reads what the agent has added to the *)
(* session's overview log; the text of it is the reply.  The cards are kept*)
(* in the state, and a press is sent to the server, by the chat's handler. *)
(* The server and the desktop are external.                                *)
(***************************************************************************)
EXTENDS Selection, Integers, Sequences

CONSTANTS
  Message,       \* messages to one session, each a task
  MaxSteps,      \* bound of the model: interactions of the trajectory
  Budgets         \* bounds of the model: messages; interactions; entries of the log;
                 \* sends, calls and the daemon that fail

ASSUME BrainAssumption ==
  /\ MaxSteps \in Nat
  /\ Budgets \subseteq [messages : SUBSET Message, steps : 0..MaxSteps, log : Nat, faults : Nat]

VARIABLES
  turn,          \* message -> what its task is doing
  models,        \* message -> whether each candidate model has quota left
  step,          \* interaction -> "open" or "decided"
  log,           \* the entries of the model in the overview log
  entry,         \* the interactions with a pending approval in the state
  card,          \* interaction -> cards sent for it
  removed,       \* history: interaction -> times its approval was removed
  pressed,       \* the press under way
  given,         \* history: message -> the times the session was given it
  budget, slips

turns  == <<turn, models, given>>
server == <<step, log>>
cards  == <<entry, card, removed>>
avars  == <<turns, server, cards, pressed, budget, slips>>

Step    == 1..MaxSteps
Kinds   == {"text", "tool", "unsafe"}     \* content, a tool call, one not SafeToAutoRun
NotPressed == 0
NewTurn == [at |-> "begin", from |-> 0, tried |-> 0, todo |-> <<>>, announced |-> {},
            reply |-> "none"]

BrainInit ==
  /\ turn = [m \in Message |-> NewTurn]
  /\ models \in [Message -> {<<TRUE>>, <<FALSE, TRUE>>, <<FALSE, FALSE>>}]
  /\ step = <<>> /\ log = <<>>
  /\ entry = {} /\ card = [i \in Step |-> 0] /\ removed = [i \in Step |-> 0]
  /\ pressed = NotPressed /\ given = [m \in Message |-> 0]
  /\ budget \in Budgets /\ slips = 0

Slip == slips < budget.faults /\ slips' = slips + 1
At(m, at)  == turn' = [turn EXCEPT ![m].at = at]
Ended(m, how) == turn' = [turn EXCEPT ![m] = [NewTurn EXCEPT !.at = "end", !.reply = how,
                                                              !.from = turn[m].from]]

-----------------------------------------------------------------------------
(* The agent and its desktop (external) *)

AgentAsks ==
  /\ Len(step) < budget.steps /\ \E m \in Message : given[m] > 0
  /\ step' = Append(step, "open")
  /\ UNCHANGED <<turns, log, cards, pressed, budget, slips>>

AgentLogs ==
  /\ Len(log) < budget.log /\ \E m \in Message : given[m] > 0
  /\ \E kind \in Kinds : log' = Append(log, kind)
  /\ UNCHANGED <<turns, step, cards, pressed, budget, slips>>

DesktopDecides(i) ==
  /\ step[i] = "open"
  /\ step' = [step EXCEPT ![i] = "decided"]
  /\ UNCHANGED <<turns, log, cards, pressed, budget, slips>>

-----------------------------------------------------------------------------
(* run_antigravity_brain_resume *)

\* The end of the log is noted and the server found, by the workspace's process and
\* the port that knows the session; or there is none, or it names no models.
Discovers(m) ==
  /\ turn[m].at = "begin" /\ m \in budget.messages
  /\ \/ turn' = [turn EXCEPT ![m].at = "send", ![m].from = Len(log)]
     \/ Ended(m, "failed")
  /\ UNCHANGED <<models, given, server, cards, pressed, budget, slips>>

\* Mutant: after a call that failed the next model is tried.
GivesAgain(m) ==
  LET n == turn[m].tried + 1 IN
  /\ turn[m].at = "send" /\ n <= Len(models[m])
  /\ \/ models[m][n] /\ At(m, "poll") /\ given' = [given EXCEPT ![m] = @ + 1]
     \/ turn' = [turn EXCEPT ![m].tried = n] /\ given' \in {given, [given EXCEPT ![m] = @ + 1]}
  /\ UNCHANGED <<models, server, cards, pressed, budget, slips>>

\* Mutant: a model without quota is asked again.
GivesSame(m) ==
  /\ turn[m].at = "send"
  /\ IF models[m][1] THEN At(m, "poll") /\ given' = [given EXCEPT ![m] = @ + 1]
     ELSE UNCHANGED <<turn, given>>
  /\ UNCHANGED <<models, server, cards, pressed, budget, slips>>

\* send_antigravity_user_message: the models in turn, until one has quota; any other
\* refusal ends it, and so does a call that fails, whether it was heard or not.
Gives(m) ==
  LET n == turn[m].tried + 1 IN
  /\ turn[m].at = "send"
  /\ \/ n > Len(models[m]) /\ Ended(m, "failed") /\ UNCHANGED <<given, slips>>
     \/ /\ n <= Len(models[m]) /\ models[m][n]
        /\ At(m, "poll") /\ given' = [given EXCEPT ![m] = @ + 1] /\ UNCHANGED slips
     \/ /\ n <= Len(models[m]) /\ ~models[m][n]
        /\ turn' = [turn EXCEPT ![m].tried = n] /\ UNCHANGED <<given, slips>>
     \/ /\ n <= Len(models[m]) /\ Slip /\ Ended(m, "failed")
        /\ given' \in {given, [given EXCEPT ![m] = @ + 1]}
  /\ UNCHANGED <<models, server, cards, pressed, budget>>

-----------------------------------------------------------------------------
(* wait_for_antigravity_reply *)

Waiting == {i \in DOMAIN step : step[i] = "open"}
InOrder(steps) == Selected([n \in DOMAIN step |-> n], steps)

\* find_pending_antigravity_interactions, at the top of a poll; or the call fails.
Fetches(m) ==
  /\ turn[m].at = "poll"
  /\ turn' = [turn EXCEPT ![m].at = "announce", ![m].todo = InOrder(Waiting)]
  /\ UNCHANGED <<models, given, server, cards, pressed, budget, slips>>

FetchFails(m) ==
  /\ turn[m].at = "poll" /\ Slip
  /\ turn' = [turn EXCEPT ![m].at = "announce"]
  /\ UNCHANGED <<models, given, server, cards, pressed, budget>>

Foremost(m) == Head(turn[m].todo)
Heard(m) == turn' = [turn EXCEPT ![m].todo = Tail(@), ![m].announced = @ \cup {Foremost(m)}]

\* An interaction the task has announced before.
Passes(m) ==
  /\ turn[m].at = "announce" /\ turn[m].todo # <<>> /\ Foremost(m) \in turn[m].announced
  /\ turn' = [turn EXCEPT ![m].todo = Tail(@)]
  /\ UNCHANGED <<models, given, server, cards, pressed, budget, slips>>

\* Mutant: the interactions of a trajectory are announced as one.
AnnouncesOne(m) ==
  /\ turn[m].at = "announce" /\ turn[m].todo # <<>> /\ Foremost(m) \notin turn[m].announced
  /\ Heard(m)
  /\ IF turn[m].announced # {} THEN UNCHANGED <<entry, card>>
     ELSE /\ entry' = entry \cup {Foremost(m)}
          /\ card' = IF Foremost(m) \in entry THEN card ELSE [card EXCEPT ![Foremost(m)] = @ + 1]
  /\ UNCHANGED <<models, given, server, removed, pressed, budget, slips>>

\* Mutant: that another task has announced it is not looked at.
AnnouncesAlways(m) ==
  /\ turn[m].at = "announce" /\ turn[m].todo # <<>> /\ Foremost(m) \notin turn[m].announced
  /\ Heard(m)
  /\ entry' = entry \cup {Foremost(m)} /\ card' = [card EXCEPT ![Foremost(m)] = @ + 1]
  /\ UNCHANGED <<models, given, server, removed, pressed, budget, slips>>

\* announce_antigravity_approval: inserted unless it is there, and the card is sent; or
\* the insert or the send fails, and the entry is there without a card.
Announces(m) ==
  /\ turn[m].at = "announce" /\ turn[m].todo # <<>> /\ Foremost(m) \notin turn[m].announced
  /\ Heard(m)
  /\ entry' = entry \cup {Foremost(m)}
  /\ \/ /\ card' = IF Foremost(m) \in entry THEN card ELSE [card EXCEPT ![Foremost(m)] = @ + 1]
        /\ UNCHANGED slips
     \/ Slip /\ UNCHANGED card
  /\ UNCHANGED <<models, given, server, removed, pressed, budget>>

\* aggregate_antigravity_state of what was added since the message.
Added(m)   == {log[k] : k \in turn[m].from + 1..Len(log)}
AsksThere(m) == "unsafe" \in Added(m)
OnlyText(m)  == Added(m) = {"text"}

\* The log is read: a reply of text alone ends the turn; so does one with tool calls
\* that has not changed for a while, if nothing was announced and nothing asks; else
\* there is another poll.
Reads(m) ==
  /\ turn[m].at = "announce" /\ turn[m].todo = <<>>
  /\ \/ OnlyText(m) /\ Ended(m, "text")
     \/ /\ Added(m) # {} /\ ~AsksThere(m) /\ turn[m].announced = {}
        /\ Ended(m, "tools")
     \/ ~OnlyText(m) /\ At(m, "poll")
  /\ UNCHANGED <<models, given, server, cards, pressed, budget, slips>>

\* The deadline, at the top of a poll: what there is, or that nothing was seen.
Deadline(m) ==
  /\ turn[m].at = "poll"
  /\ Ended(m, IF Added(m) = {} THEN "nothing" ELSE "late")
  /\ UNCHANGED <<models, given, server, cards, pressed, budget, slips>>

-----------------------------------------------------------------------------
(* handle_callback_antigravity_approval, one press at a time *)

\* A press whose approval is pending, for a server that is found.
PressCard(i) ==
  /\ pressed = NotPressed /\ card[i] > 0 /\ i \in entry
  /\ pressed' = i
  /\ UNCHANGED <<turns, server, cards, budget, slips>>

\* The server takes the decision of an open interaction, and refuses another.
ServerTakes ==
  /\ pressed # NotPressed /\ pressed' = NotPressed
  /\ IF step[pressed] = "open"
     THEN /\ step' = [step EXCEPT ![pressed] = "decided"]
          /\ entry' = entry \ {pressed}
          /\ removed' = [removed EXCEPT ![pressed] = @ + 1]
     ELSE UNCHANGED <<step, entry, removed>>
  /\ UNCHANGED <<turns, log, card, budget, slips>>

\* The call fails, perhaps after it was heard: the approval stays.
PressFails ==
  /\ pressed # NotPressed /\ Slip
  /\ pressed' = NotPressed
  /\ step' \in {step, [step EXCEPT ![pressed] = "decided"]}
  /\ UNCHANGED <<turns, log, cards, budget>>

\* The daemon ends and starts: tasks are gone, approvals are in state.json.
DaemonRestarts ==
  /\ Slip
  /\ turn' = [m \in Message |-> IF turn[m].at = "begin" THEN turn[m]
                ELSE [NewTurn EXCEPT !.at = "end", !.from = turn[m].from,
                        !.reply = IF turn[m].at = "end" THEN turn[m].reply ELSE "failed"]]
  /\ pressed' = NotPressed
  /\ UNCHANGED <<models, given, server, cards, budget>>

Rounds(m) == Fetches(m) \/ Passes(m) \/ Announces(m) \/ Reads(m)
Works(m) == Discovers(m) \/ Gives(m) \/ Rounds(m)

BrainNext ==
  \/ AgentAsks \/ AgentLogs \/ \E i \in DOMAIN step : DesktopDecides(i)
  \/ \E m \in Message : Works(m) \/ FetchFails(m) \/ Deadline(m)
  \/ \E i \in Step : PressCard(i)
  \/ ServerTakes \/ PressFails \/ DaemonRestarts

\* A task goes on, and its deadline comes.
BrainSpec == BrainInit /\ [][BrainNext]_avars
             /\ \A m \in Message : WF_avars(Works(m)) /\ SF_avars(Deadline(m))

-----------------------------------------------------------------------------
(* Properties *)

BrainTypeOK ==
  /\ \A m \in Message : /\ turn[m].at \in {"begin", "send", "poll", "announce", "end"}
                        /\ turn[m].from \in Nat
                        /\ turn[m].announced \subseteq DOMAIN step
                        /\ turn[m].reply \in {"none", "failed", "text", "tools", "late", "nothing"}
  /\ step \in Seq({"open", "decided"}) /\ log \in Seq(Kinds)
  /\ entry \subseteq DOMAIN step /\ card \in [Step -> Nat]

\* A message is given to the session once, whatever models are out of quota, and not
\* again when a call that may have been heard fails.
GivenOnce == \A m \in Message : given[m] <= 1

\* Tasks of several messages see the same interaction: there is one card for each time
\* its approval was missing from the state (insert_pending_antigravity_approval).
OneCardPerApproval == \A i \in Step : card[i] <= removed[i] + 1

\* A reply holds something that was added after its message was sent, although other
\* tasks' turns are in the same log.
ReplyIsNew ==
  \A m \in Message : turn[m].reply \in {"text", "tools", "late"} => Len(log) > turn[m].from

\* One message, one turn, and a reply of that turn's time.
AskedOnceAnsweredNew == GivenOnce /\ ReplyIsNew

\* An interaction that a polling task has announced, and passes over from then on,
\* keeps its approval in the state as long as it waits for a decision: nobody else
\* would put it there again.
AnnouncedIsPending ==
  \A m \in Message : \A i \in turn[m].announced : step[i] = "open" => i \in entry

\* Every message's task ends, with no decision ever made.
BrainTurnsEnd == <>(\A m \in budget.messages : turn[m].at = "end")

\* "only the first caller actually inserts and announces; the rest skip"
OneCard == \A i \in Step : card[i] <= 1
=============================================================================
