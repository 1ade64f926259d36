----------------------------- MODULE TurnProofs -----------------------------
(***************************************************************************)
(* Proofs about AntigravityTurn and CodexTurn, for any number of messages, *)
(* interactions, entries and requests.                                     *)
(***************************************************************************)
EXTENDS CodexTurn, AntigravityTurn, SelectionProofs

USE BrainAssumption, TurnAssumption

-----------------------------------------------------------------------------
(* Messages to an Antigravity session: the invariant *)

Task == [at : {"begin", "send", "poll", "announce", "end"}, from : Nat, tried : Nat,
         todo : Seq(Step), announced : SUBSET Step,
         reply : {"none", "failed", "text", "tools", "late", "nothing"}]

BrainTypes ==
  /\ turn \in [Message -> Task]
  /\ step \in Seq({"open", "decided"}) /\ Len(step) <= MaxSteps
  /\ log \in Seq(Kinds)
  /\ entry \subseteq DOMAIN step
  /\ card \in [Step -> Nat] /\ removed \in [Step -> Nat]
  /\ pressed # NotPressed => pressed \in DOMAIN step
  /\ given \in [Message -> Nat]
  /\ budget \in Budgets /\ slips \in Nat

\* What a task has heard of is in the trajectory.
Known ==
  \A m \in Message : /\ turn[m].announced \subseteq DOMAIN step
                     /\ turn[m].todo \in Seq(DOMAIN step)

\* The session is given the message in the step from "send", and only then; what the
\* task replies was logged since.
Turns ==
  \A m \in Message :
    /\ given[m] <= IF turn[m].at \in {"begin", "send"} THEN 0 ELSE 1
    /\ turn[m].from <= Len(log)
    /\ turn[m].reply \in {"text", "tools", "late"} => Len(log) > turn[m].from
    /\ turn[m].at # "end" => turn[m].reply = "none"

\* The cards of an interaction are those of its removed approvals, and one for the
\* approval that is there.
Carded == \A i \in Step : card[i] <= removed[i] + (IF i \in entry THEN 1 ELSE 0)

BrainInv == BrainTypes /\ Known /\ Turns /\ Carded /\ AnnouncedIsPending

-----------------------------------------------------------------------------
(* Its steps *)

LEMMA InOrderIs ==
  ASSUME NEW S, step \in Seq({"open", "decided"}), Len(step) <= MaxSteps
  PROVE  InOrder(S) \in Seq(DOMAIN step) /\ InOrder(S) \in Seq(Step)
<1> DEFINE all == [n \in DOMAIN step |-> n]
<1>1. all \in Seq(DOMAIN step)
  OBVIOUS
<1>2. DOMAIN step \subseteq Step
  BY DEF Step
<1> HIDE DEF all
<1>3. Selected(all, S) \in Seq(DOMAIN step)
  BY <1>1, SelectedType, Zenon
<1>4. InOrder(S) = Selected(all, S)
  BY DEF InOrder, all
<1> QED
  BY <1>2, <1>3, <1>4

LEMMA BrainInitially == BrainInit => BrainInv
<1> SUFFICES ASSUME BrainInit PROVE BrainInv
  OBVIOUS
<1> USE DEF BrainInit, NewTurn
<1>1. BrainTypes
  BY DEF BrainTypes, Task, Step, Kinds, NotPressed
<1>2. /\ step = <<>> /\ log = <<>> /\ entry = {}
      /\ \A i \in Step : card[i] = 0 /\ removed[i] = 0
      /\ \A m \in Message : /\ given[m] = 0 /\ turn[m].at = "begin" /\ turn[m].from = 0
                           /\ turn[m].todo = <<>> /\ turn[m].announced = {}
                           /\ turn[m].reply = "none"
  OBVIOUS
<1> HIDE DEF BrainInit
<1>3. Known
  <2>1. <<>> \in Seq(DOMAIN step)
    OBVIOUS
  <2> QED
    BY <1>2, <2>1 DEF Known
<1>4. Turns
  BY <1>2 DEF Turns
<1>5. Carded /\ AnnouncedIsPending
  BY <1>2 DEF Carded, AnnouncedIsPending
<1> QED
  BY <1>1, <1>3, <1>4, <1>5 DEF BrainInv

\* What the agent and its desktop do, and a press, leaves the tasks as they are.
Outside ==
  \/ AgentAsks \/ AgentLogs \/ \E i \in DOMAIN step : DesktopDecides(i)
  \/ \E i \in Step : PressCard(i)
  \/ ServerTakes \/ PressFails

LEMMA StepsAre ==
  ASSUME BrainTypes
  PROVE  /\ Len(step) \in Nat /\ DOMAIN step = 1 .. Len(step) /\ DOMAIN step \subseteq Step
         /\ Len(log) \in Nat
         /\ budget.steps \in 0 .. MaxSteps /\ budget.faults \in Nat
BY DEF BrainTypes, Step

LEMMA DecidedIs ==
  ASSUME NEW s \in Seq({"open", "decided"}), NEW i \in DOMAIN s,
         NEW t \in {s, [s EXCEPT ![i] = "decided"]}
  PROVE  t \in Seq({"open", "decided"}) /\ Len(t) = Len(s) /\ DOMAIN t = DOMAIN s
OBVIOUS

LEMMA OutsideTypes ==
  ASSUME BrainInv, Outside
  PROVE  BrainTypes' /\ turn' = turn /\ given' = given
         /\ DOMAIN step \subseteq DOMAIN step' /\ Len(log) <= Len(log')
<1> USE DEF BrainInv, BrainTypes, turns, server, cards
<1>0. /\ Len(step) \in Nat /\ DOMAIN step = 1 .. Len(step) /\ DOMAIN step \subseteq Step
      /\ Len(log) \in Nat
      /\ budget.steps \in 0 .. MaxSteps /\ budget.faults \in Nat
  BY StepsAre
<1>1. CASE AgentAsks
  BY <1>0, <1>1 DEF AgentAsks
<1>2. CASE AgentLogs
  BY <1>0, <1>2 DEF AgentLogs
<1>3. CASE \E i \in DOMAIN step : DesktopDecides(i)
  BY <1>0, <1>3 DEF DesktopDecides
<1>4. CASE \E i \in Step : PressCard(i)
  BY <1>0, <1>4 DEF PressCard
<1>5. CASE ServerTakes
  <2>1. /\ pressed \in DOMAIN step /\ pressed' = NotPressed
        /\ step' \in {step, [step EXCEPT ![pressed] = "decided"]}
        /\ entry' \subseteq entry
        /\ removed' \in {removed, [removed EXCEPT ![pressed] = @ + 1]}
        /\ UNCHANGED <<turn, given, log, card, budget, slips>>
    BY <1>5 DEF ServerTakes
  <2>2. step' \in Seq({"open", "decided"}) /\ Len(step') = Len(step) /\ DOMAIN step' = DOMAIN step
    <3>1. step \in Seq({"open", "decided"})
      OBVIOUS
    <3> HIDE DEF BrainTypes, BrainInv
    <3>2. pressed \in DOMAIN step /\ step' \in {step, [step EXCEPT ![pressed] = "decided"]}
      BY <2>1
    <3> QED
      BY <3>1, <3>2, DecidedIs
  <2>3. removed' \in [Step -> Nat]
    BY <1>0, <2>1
  <2> QED
    BY <1>0, <2>1, <2>2, <2>3
<1>6. CASE PressFails
  <2>1. /\ pressed \in DOMAIN step /\ pressed' = NotPressed
        /\ step' \in {step, [step EXCEPT ![pressed] = "decided"]}
        /\ slips' = slips + 1
        /\ UNCHANGED <<turn, given, log, entry, card, removed, budget>>
    BY <1>6 DEF PressFails, Slip
  <2>2. step' \in Seq({"open", "decided"}) /\ Len(step') = Len(step) /\ DOMAIN step' = DOMAIN step
    <3>1. step \in Seq({"open", "decided"})
      OBVIOUS
    <3> HIDE DEF BrainTypes, BrainInv
    <3>2. pressed \in DOMAIN step /\ step' \in {step, [step EXCEPT ![pressed] = "decided"]}
      BY <2>1
    <3> QED
      BY <3>1, <3>2, DecidedIs
  <2> QED
    BY <1>0, <2>1, <2>2
<1> QED
  BY <1>1, <1>2, <1>3, <1>4, <1>5, <1>6 DEF Outside

LEMMA OutsideStep ==
  ASSUME BrainInv, Outside
  PROVE  BrainInv'
<1>0. /\ Len(step) \in Nat /\ DOMAIN step = 1 .. Len(step) /\ DOMAIN step \subseteq Step
      /\ Len(log) \in Nat
  BY StepsAre DEF BrainInv
<1>1. /\ BrainTypes' /\ turn' = turn /\ given' = given
      /\ DOMAIN step \subseteq DOMAIN step' /\ Len(log) <= Len(log')
  BY OutsideTypes
<1>2. Known'
  BY <1>1 DEF BrainInv, Known
<1>3. Turns'
  <2>1. Len(log') \in Nat /\ \A m \in Message : turn[m].from \in Nat
    BY <1>1 DEF BrainInv, BrainTypes, Task
  <2> QED
    BY <1>0, <1>1, <2>1 DEF BrainInv, Turns
<1>4. Carded' /\ AnnouncedIsPending'
  <2> USE <1>0 DEF BrainInv, BrainTypes, Known, Carded, AnnouncedIsPending, turns, server, cards
  <2>1. CASE AgentAsks
    BY <2>1 DEF AgentAsks
  <2>2. CASE AgentLogs
    BY <2>2 DEF AgentLogs
  <2>3. CASE \E i \in DOMAIN step : DesktopDecides(i)
    BY <2>3 DEF DesktopDecides
  <2>4. CASE \E i \in Step : PressCard(i)
    BY <2>4 DEF PressCard
  <2>5. CASE ServerTakes
    BY <2>5 DEF ServerTakes
  <2>6. CASE PressFails
    BY <2>6 DEF PressFails, Slip
  <2> QED
    BY <2>1, <2>2, <2>3, <2>4, <2>5, <2>6 DEF Outside
<1> QED
  BY <1>1, <1>2, <1>3, <1>4 DEF BrainInv

LEMMA TailIs ==
  ASSUME NEW A, NEW s \in Seq(A), s # <<>>
  PROVE  Tail(s) \in Seq(A)
OBVIOUS

\* What a step of its own may make of a task.
Goes(m) ==
  /\ turn' \in [Message -> Task] /\ \A n \in Message \ {m} : turn'[n] = turn[n]
  /\ turn'[m].announced \subseteq DOMAIN step /\ turn'[m].todo \in Seq(DOMAIN step)
  /\ given' \in [Message -> Nat] /\ \A n \in Message \ {m} : given'[n] = given[n]
  /\ given'[m] <= IF turn'[m].at \in {"begin", "send"} THEN 0 ELSE 1
  /\ turn'[m].from <= Len(log)
  /\ turn'[m].reply \in {"text", "tools", "late"} => Len(log) > turn'[m].from
  /\ turn'[m].at # "end" => turn'[m].reply = "none"

LEMMA GoesOn ==
  ASSUME BrainInv, NEW m \in Message, Goes(m), UNCHANGED server
  PROVE  Known' /\ Turns'
<1>1. Known'
  BY DEF Goes, BrainInv, Known, server
<1>2. Turns'
  BY DEF Goes, BrainInv, Turns, server
<1> QED
  BY <1>1, <1>2

LEMMA NewIsTask == NewTurn \in Task /\ NewTurn.todo \in Seq(DOMAIN step)
<1>1. <<>> \in Seq(DOMAIN step) /\ <<>> \in Seq(Step)
  OBVIOUS
<1> QED
  BY <1>1 DEF NewTurn, Task

LEMMA AppendIs ==
  ASSUME NEW A, NEW s \in Seq(A), NEW x \in A
  PROVE  Append(s, x) \in Seq(A)
OBVIOUS

\* A task that goes on: its phase, its start and what it has to announce may change.
Alike(m) ==
  /\ turn' \in [Message -> Task] /\ \A n \in Message \ {m} : turn'[n] = turn[n]
  /\ turn'[m].announced = turn[m].announced /\ turn'[m].reply = turn[m].reply
  /\ turn'[m].from \in {turn[m].from, Len(log)}

LEMMA AlikeGoes ==
  ASSUME BrainInv, NEW m \in Message, Alike(m), turn'[m].todo \in Seq(DOMAIN step),
         turn[m].at # "end",
         \/ given' = given /\ (turn'[m].at \in {"begin", "send"} => turn[m].at \in {"begin", "send"})
         \/ /\ given' = [given EXCEPT ![m] = @ + 1] /\ turn[m].at = "send"
            /\ turn'[m].at \notin {"begin", "send"}
  PROVE  Goes(m) /\ turn'[m].announced \subseteq turn[m].announced
<1>1. /\ turn[m].announced \subseteq DOMAIN step /\ turn[m].from <= Len(log)
      /\ turn[m].reply = "none" /\ Len(log) \in Nat
      /\ given[m] <= IF turn[m].at \in {"begin", "send"} THEN 0 ELSE 1
  BY StepsAre DEF BrainInv, Known, Turns
<1>2. given \in [Message -> Nat]
  BY DEF BrainInv, BrainTypes
<1>3. /\ given' \in [Message -> Nat] /\ \A n \in Message \ {m} : given'[n] = given[n]
      /\ given'[m] <= IF turn'[m].at \in {"begin", "send"} THEN 0 ELSE 1
  BY <1>1, <1>2
<1>4. turn'[m].from <= Len(log)
  BY <1>1 DEF Alike
<1> QED
  BY <1>1, <1>3, <1>4 DEF Alike, Goes

LEMMA EndedGoes ==
  ASSUME BrainInv, NEW m \in Message, NEW how \in {"failed", "text", "tools", "late", "nothing"},
         Ended(m, how), turn[m].at # "end",
         how \in {"text", "tools", "late"} => Len(log) > turn[m].from,
         \/ given' = given
         \/ given' = [given EXCEPT ![m] = @ + 1] /\ turn[m].at = "send"
  PROVE  Goes(m) /\ turn'[m].announced = {}
<1> DEFINE t == [NewTurn EXCEPT !.at = "end", !.reply = how, !.from = turn[m].from]
<1>1. turn \in [Message -> Task] /\ turn[m] \in Task /\ turn[m].from <= Len(log)
  BY DEF BrainInv, BrainTypes, Turns
<1>2. /\ t \in Task /\ t.at = "end" /\ t.reply = how /\ t.from = turn[m].from
      /\ t.announced = {} /\ t.todo \in Seq(DOMAIN step)
  <2>1. NewTurn.announced = {}
    BY DEF NewTurn
  <2> QED
    BY <1>1, <2>1, NewIsTask DEF Task
<1>3. turn' = [turn EXCEPT ![m] = t]
  BY DEF Ended
<1>4. /\ given' \in [Message -> Nat] /\ given'[m] <= 1
      /\ \A n \in Message \ {m} : given'[n] = given[n]
  <2>1. /\ given \in [Message -> Nat] /\ given[m] <= 1
        /\ turn[m].at = "send" => given[m] <= 0
    BY DEF BrainInv, BrainTypes, Turns
  <2> HIDE DEF t
  <2> QED
    BY <2>1
<1> HIDE DEF t
<1>5. turn'[m] = t /\ turn' \in [Message -> Task] /\ \A n \in Message \ {m} : turn'[n] = turn[n]
  BY <1>1, <1>2, <1>3
<1> QED
  BY <1>1, <1>2, <1>4, <1>5 DEF Goes

\* The steps of a task that leave the cards alone.
LEMMA PlainGoes ==
  ASSUME BrainInv, NEW m \in Message,
         Discovers(m) \/ Gives(m) \/ Fetches(m) \/ FetchFails(m) \/ Passes(m) \/ Reads(m)
         \/ Deadline(m)
  PROVE  /\ UNCHANGED <<server, cards, pressed, budget>> /\ slips' \in Nat
         /\ Goes(m) /\ turn'[m].announced \subseteq turn[m].announced
<1>0. /\ Len(step) \in Nat /\ DOMAIN step = 1 .. Len(step) /\ DOMAIN step \subseteq Step
      /\ Len(log) \in Nat /\ budget.faults \in Nat
  BY StepsAre DEF BrainInv
<1>1. /\ turn[m] \in Task /\ turn[m].announced \subseteq DOMAIN step
      /\ turn[m].todo \in Seq(DOMAIN step)
      /\ given[m] <= IF turn[m].at \in {"begin", "send"} THEN 0 ELSE 1
      /\ turn[m].from <= Len(log)
      /\ turn[m].reply \in {"text", "tools", "late"} => Len(log) > turn[m].from
  BY DEF BrainInv, BrainTypes, Known, Turns
<1>2. turn \in [Message -> Task] /\ given \in [Message -> Nat] /\ slips \in Nat
  BY DEF BrainInv, BrainTypes
<1>3. Added(m) # {} => Len(log) > turn[m].from
  BY <1>0, <1>1 DEF Added, Task
<1> DEFINE Frame == UNCHANGED <<server, cards, pressed, budget>> /\ slips' \in Nat
<1>4. CASE Discovers(m)
  <2>0. Frame
    BY <1>2, <1>4 DEF Discovers
  <2>1. CASE Ended(m, "failed")
    <3>1. turn[m].at # "end" /\ given' = given
      BY <1>4 DEF Discovers
    <3> QED
      BY <2>0, <2>1, <3>1, EndedGoes
  <2>2. CASE turn' = [turn EXCEPT ![m].at = "send", ![m].from = Len(log)]
    <3>1. turn[m].at # "end" /\ Alike(m) /\ turn'[m].todo = turn[m].todo /\ turn'[m].at = "send"
      BY <1>0, <1>1, <1>2, <1>4, <2>2 DEF Discovers, Alike, Task
    <3>2. \/ /\ given' = given
             /\ turn'[m].at \in {"begin", "send"} => turn[m].at \in {"begin", "send"}
          \/ /\ given' = [given EXCEPT ![m] = @ + 1] /\ turn[m].at = "send"
             /\ turn'[m].at \notin {"begin", "send"}
      BY <1>4, <2>2, <3>1 DEF Discovers
    <3> QED
      BY <1>1, <2>0, <3>1, <3>2, AlikeGoes
  <2> QED
    BY <1>4, <2>1, <2>2 DEF Discovers
<1>5. CASE Gives(m)
  <2>0. Frame
    BY <1>2, <1>5 DEF Gives, Slip
  <2>1. CASE Ended(m, "failed")
    <3>1. turn[m].at = "send" /\ (given' = given \/ given' = [given EXCEPT ![m] = @ + 1])
      BY <1>5, <2>1 DEF Gives
    <3> QED
      BY <2>0, <2>1, <3>1, EndedGoes
  <2>2. CASE At(m, "poll") /\ given' = [given EXCEPT ![m] = @ + 1]
    <3>1. turn[m].at # "end" /\ Alike(m) /\ turn'[m].todo = turn[m].todo /\ turn'[m].at = "poll"
      BY <1>1, <1>2, <1>5, <2>2 DEF Gives, At, Alike, Task
    <3>2. \/ /\ given' = given
             /\ turn'[m].at \in {"begin", "send"} => turn[m].at \in {"begin", "send"}
          \/ /\ given' = [given EXCEPT ![m] = @ + 1] /\ turn[m].at = "send"
             /\ turn'[m].at \notin {"begin", "send"}
      BY <1>5, <2>2, <3>1 DEF Gives
    <3> QED
      BY <1>1, <2>0, <3>1, <3>2, AlikeGoes
  <2>3. CASE turn' = [turn EXCEPT ![m].tried = turn[m].tried + 1] /\ given' = given
    <3>1. turn[m].at # "end" /\ Alike(m) /\ turn'[m].todo = turn[m].todo /\ turn'[m].at = turn[m].at
      <4>1. turn[m].at = "send" /\ turn[m].tried + 1 \in Nat
        BY <1>1, <1>5 DEF Gives, Task
      <4> DEFINE n == turn[m].tried + 1
      <4> HIDE DEF n
      <4>2. n \in Nat /\ turn' = [turn EXCEPT ![m].tried = n]
        BY <2>3, <4>1 DEF n
      <4> QED
        BY <1>1, <1>2, <4>1, <4>2 DEF Alike, Task
    <3>2. \/ /\ given' = given
             /\ turn'[m].at \in {"begin", "send"} => turn[m].at \in {"begin", "send"}
          \/ /\ given' = [given EXCEPT ![m] = @ + 1] /\ turn[m].at = "send"
             /\ turn'[m].at \notin {"begin", "send"}
      BY <1>5, <2>3, <3>1 DEF Gives
    <3> QED
      BY <1>1, <2>0, <3>1, <3>2, AlikeGoes
  <2> QED
    BY <1>5, <2>1, <2>2, <2>3 DEF Gives
<1>6. CASE Fetches(m)
  <2>0. Frame
    BY <1>2, <1>6 DEF Fetches
  <2>1. InOrder(Waiting) \in Seq(DOMAIN step) /\ InOrder(Waiting) \in Seq(Step)
    BY InOrderIs DEF BrainInv, BrainTypes
  <2>2. /\ Alike(m) /\ turn'[m].todo = InOrder(Waiting) /\ turn'[m].at = "announce"
        /\ turn[m].at # "end" /\ given' = given
    BY <1>1, <1>2, <1>6, <2>1 DEF Fetches, Alike, Task
  <2> QED
    BY <2>0, <2>1, <2>2, AlikeGoes
<1>7. CASE FetchFails(m)
  <2>0. Frame
    BY <1>2, <1>7 DEF FetchFails, Slip
  <2>1. /\ Alike(m) /\ turn'[m].todo = turn[m].todo /\ turn'[m].at = "announce"
        /\ turn[m].at # "end" /\ given' = given
    BY <1>1, <1>2, <1>7 DEF FetchFails, Alike, Task
  <2> QED
    BY <1>1, <2>0, <2>1, AlikeGoes
<1>8. CASE Passes(m)
  <2>0. Frame
    BY <1>2, <1>8 DEF Passes
  <2>1. Tail(turn[m].todo) \in Seq(DOMAIN step) /\ Tail(turn[m].todo) \in Seq(Step)
    <3>1. turn[m].todo \in Seq(DOMAIN step) /\ turn[m].todo \in Seq(Step) /\ turn[m].todo # <<>>
      BY <1>1, <1>8 DEF Passes, Task
    <3> QED
      BY <3>1, TailIs
  <2>2. /\ Alike(m) /\ turn'[m].todo = Tail(turn[m].todo) /\ turn'[m].at = turn[m].at
        /\ turn[m].at # "end" /\ given' = given
    BY <1>1, <1>2, <1>8, <2>1 DEF Passes, Alike, Task
  <2> QED
    BY <2>0, <2>1, <2>2, AlikeGoes
<1>9. CASE Reads(m)
  <2>0. Frame
    BY <1>2, <1>9 DEF Reads
  <2>1. CASE OnlyText(m) /\ Ended(m, "text")
    <3>1. turn[m].at # "end" /\ given' = given /\ Len(log) > turn[m].from
      BY <1>3, <1>9, <2>1 DEF Reads, OnlyText
    <3> QED
      BY <2>0, <2>1, <3>1, EndedGoes
  <2>2. CASE Added(m) # {} /\ Ended(m, "tools")
    <3>1. turn[m].at # "end" /\ given' = given /\ Len(log) > turn[m].from
      BY <1>3, <1>9, <2>2 DEF Reads
    <3> QED
      BY <2>0, <2>2, <3>1, EndedGoes
  <2>3. CASE At(m, "poll")
    <3>1. turn[m].at # "end" /\ Alike(m) /\ turn'[m].todo = turn[m].todo /\ turn'[m].at = "poll"
      BY <1>1, <1>2, <1>9, <2>3 DEF Reads, At, Alike, Task
    <3>2. \/ /\ given' = given
             /\ turn'[m].at \in {"begin", "send"} => turn[m].at \in {"begin", "send"}
          \/ /\ given' = [given EXCEPT ![m] = @ + 1] /\ turn[m].at = "send"
             /\ turn'[m].at \notin {"begin", "send"}
      BY <1>9, <2>3, <3>1 DEF Reads
    <3> QED
      BY <1>1, <2>0, <3>1, <3>2, AlikeGoes
  <2> QED
    BY <1>9, <2>1, <2>2, <2>3 DEF Reads
<1>10. CASE Deadline(m)
  <2>0. Frame
    BY <1>2, <1>10 DEF Deadline
  <2>1. turn[m].at # "end" /\ given' = given
    BY <1>10 DEF Deadline
  <2>2. (Ended(m, "late") /\ Len(log) > turn[m].from) \/ Ended(m, "nothing")
    BY <1>3, <1>10 DEF Deadline
  <2>3. CASE Ended(m, "late") /\ Len(log) > turn[m].from
    BY <2>0, <2>1, <2>3, EndedGoes
  <2>4. CASE Ended(m, "nothing")
    BY <2>0, <2>1, <2>4, EndedGoes
  <2> QED
    BY <2>2, <2>3, <2>4
<1> QED
  BY <1>4, <1>5, <1>6, <1>7, <1>8, <1>9, <1>10

LEMMA PlainStep ==
  ASSUME BrainInv, NEW m \in Message,
         Discovers(m) \/ Gives(m) \/ Fetches(m) \/ FetchFails(m) \/ Passes(m) \/ Reads(m)
         \/ Deadline(m)
  PROVE  BrainInv'
<1>1. /\ UNCHANGED <<step, log, entry, card, removed, pressed, budget>> /\ slips' \in Nat
      /\ Goes(m) /\ turn'[m].announced \subseteq turn[m].announced
  BY PlainGoes DEF server, cards
<1>2. BrainTypes'
  BY <1>1 DEF BrainInv, BrainTypes, Goes
<1>3. Known' /\ Turns'
  BY <1>1, GoesOn DEF server
<1>4. Carded'
  BY <1>1 DEF BrainInv, Carded
<1>5. AnnouncedIsPending'
  BY <1>1 DEF BrainInv, AnnouncedIsPending, Goes
<1> QED
  BY <1>2, <1>3, <1>4, <1>5 DEF BrainInv

LEMMA AnnounceStep ==
  ASSUME BrainInv, NEW m \in Message, Announces(m)
  PROVE  BrainInv'
<1> DEFINE i == Foremost(m)
<1>1. /\ turn[m] \in Task /\ turn \in [Message -> Task] /\ given \in [Message -> Nat]
      /\ turn[m].announced \subseteq DOMAIN step /\ turn[m].todo \in Seq(DOMAIN step)
      /\ DOMAIN step \subseteq Step /\ card \in [Step -> Nat] /\ removed \in [Step -> Nat]
      /\ entry \subseteq DOMAIN step
  BY StepsAre DEF BrainInv, BrainTypes, Known
<1>2. /\ i \in DOMAIN step /\ Tail(turn[m].todo) \in Seq(DOMAIN step)
      /\ Tail(turn[m].todo) \in Seq(Step)
  <2>1. turn[m].todo # <<>>
    BY DEF Announces
  <2> QED
    BY <1>1, <2>1, TailIs DEF Foremost, Task
<1>3. /\ turn' = [turn EXCEPT ![m].todo = Tail(turn[m].todo),
                              ![m].announced = turn[m].announced \cup {i}]
      /\ turn[m].at = "announce" /\ given' = given /\ UNCHANGED <<step, log>>
  BY DEF Announces, Heard, server
<1>4. /\ entry' = entry \cup {i} /\ UNCHANGED <<removed, pressed, budget>>
      /\ card' \in {card, [card EXCEPT ![i] = @ + 1]} /\ (i \in entry => card' = card)
      /\ slips' \in Nat
  BY DEF Announces, Slip, BrainInv, BrainTypes
<1> HIDE DEF i
<1>5. /\ turn' \in [Message -> Task] /\ \A n \in Message \ {m} : turn'[n] = turn[n]
      /\ turn'[m].announced = turn[m].announced \cup {i}
      /\ turn'[m].todo = Tail(turn[m].todo) /\ turn'[m].at = "announce"
      /\ turn'[m].from = turn[m].from /\ turn'[m].reply = turn[m].reply
  BY <1>1, <1>2, <1>3 DEF Task
<1>6. BrainTypes'
  <2>1. card' \in [Step -> Nat] /\ entry' \subseteq DOMAIN step
    <3>1. CASE card' = card
      BY <1>1, <1>2, <1>4, <3>1
    <3>2. CASE card' = [card EXCEPT ![i] = @ + 1]
      BY <1>1, <1>2, <1>4, <3>2
    <3> QED
      BY <1>4, <3>1, <3>2
  <2> QED
    BY <1>3, <1>4, <1>5, <2>1 DEF BrainInv, BrainTypes
<1>7. Goes(m)
  BY <1>1, <1>2, <1>3, <1>5 DEF BrainInv, Turns, Goes
<1>8. Known' /\ Turns'
  BY <1>3, <1>7, GoesOn DEF server
<1>9. Carded'
  BY <1>1, <1>2, <1>4 DEF BrainInv, Carded
<1>10. AnnouncedIsPending'
  BY <1>3, <1>4, <1>5 DEF BrainInv, AnnouncedIsPending
<1> QED
  BY <1>6, <1>8, <1>9, <1>10 DEF BrainInv

LEMMA RestartStep ==
  ASSUME BrainInv, DaemonRestarts
  PROVE  BrainInv'
<1> DEFINE Over(m) == [NewTurn EXCEPT !.at = "end", !.from = turn[m].from,
                        !.reply = IF turn[m].at = "end" THEN turn[m].reply ELSE "failed"]
<1>1. /\ turn' = [m \in Message |-> IF turn[m].at = "begin" THEN turn[m] ELSE Over(m)]
      /\ UNCHANGED <<step, log, entry, card, removed, budget, given>>
      /\ pressed' = NotPressed /\ slips' \in Nat
  <2>1. turn' = [m \in Message |-> IF turn[m].at = "begin" THEN turn[m] ELSE Over(m)]
    BY DEF DaemonRestarts
  <2> HIDE DEF Over
  <2>2. UNCHANGED <<step, log, entry, card, removed, budget, given>> /\ pressed' = NotPressed
    BY DEF DaemonRestarts, server, cards
  <2>3. slips' \in Nat
    <3>1. slips \in Nat
      BY DEF BrainInv, BrainTypes
    <3>2. Slip
      BY DEF DaemonRestarts
    <3> QED
      BY <3>1, <3>2 DEF Slip
  <2> QED
    BY <2>1, <2>2, <2>3
<1>2. ASSUME NEW m \in Message
      PROVE  /\ Over(m) \in Task /\ Over(m).at = "end" /\ Over(m).from = turn[m].from
             /\ Over(m).announced = {} /\ Over(m).todo \in Seq(DOMAIN step)
             /\ Over(m).reply = IF turn[m].at = "end" THEN turn[m].reply ELSE "failed"
  <2>1. NewTurn.announced = {}
    BY DEF NewTurn
  <2>2. turn[m] \in Task
    BY DEF BrainInv, BrainTypes
  <2> QED
    BY <2>1, <2>2, NewIsTask DEF Task
<1> HIDE DEF Over
<1>3. \A m \in Message : turn'[m] = IF turn[m].at = "begin" THEN turn[m] ELSE Over(m)
  BY <1>1
<1>4. turn' \in [Message -> Task]
  BY <1>1, <1>2 DEF BrainInv, BrainTypes
<1>5. BrainTypes'
  BY <1>1, <1>4 DEF BrainInv, BrainTypes
<1>6. Known'
  BY <1>1, <1>2, <1>3 DEF BrainInv, Known
<1>7. Turns'
  <2>1. ASSUME NEW m \in Message
        PROVE  /\ given[m] <= IF turn'[m].at \in {"begin", "send"} THEN 0 ELSE 1
               /\ turn'[m].from <= Len(log)
               /\ turn'[m].reply \in {"text", "tools", "late"} => Len(log) > turn'[m].from
               /\ turn'[m].at # "end" => turn'[m].reply = "none"
    <3>1. /\ given[m] \in Nat /\ given[m] <= 1 /\ turn[m].from <= Len(log)
          /\ turn[m].at = "begin" => given[m] <= 0
          /\ turn[m].reply \in {"text", "tools", "late"} => Len(log) > turn[m].from
          /\ turn[m].at # "end" => turn[m].reply = "none"
      BY DEF BrainInv, BrainTypes, Turns
    <3> QED
      BY <1>2, <1>3, <3>1
  <2> QED
    BY <1>1, <2>1 DEF Turns
<1>8. Carded' /\ AnnouncedIsPending'
  BY <1>1, <1>2, <1>3 DEF BrainInv, Carded, AnnouncedIsPending
<1> QED
  BY <1>5, <1>6, <1>7, <1>8 DEF BrainInv

LEMMA BrainStep == BrainInv /\ [BrainNext]_avars => BrainInv'
<1> SUFFICES ASSUME BrainInv, [BrainNext]_avars PROVE BrainInv'
  OBVIOUS
<1>1. CASE UNCHANGED avars
  BY <1>1 DEF avars, turns, server, cards, BrainInv, BrainTypes, Known, Turns, Carded,
     AnnouncedIsPending
<1>2. CASE Outside
  BY <1>2, OutsideStep
<1>3. CASE \E m \in Message : Works(m) \/ FetchFails(m) \/ Deadline(m)
  <2>1. PICK m \in Message : \/ Discovers(m) \/ Gives(m) \/ Fetches(m) \/ FetchFails(m)
                            \/ Passes(m) \/ Reads(m) \/ Deadline(m) \/ Announces(m)
    BY <1>3 DEF Works, Rounds
  <2> QED
    BY <2>1, PlainStep, AnnounceStep
<1>4. CASE DaemonRestarts
  BY <1>4, RestartStep
<1> QED
  BY <1>1, <1>2, <1>3, <1>4 DEF BrainNext, Outside

-----------------------------------------------------------------------------
(* What an Antigravity session is given, and what the chat sees *)

\* The invariant holds in every state.
THEOREM BrainInvariance == BrainSpec => []BrainInv
<1>1. BrainInit => BrainInv
  BY BrainInitially
<1>2. BrainInv /\ [BrainNext]_avars => BrainInv'
  BY BrainStep
<1> QED
  BY <1>1, <1>2, PTL DEF BrainSpec

\* The tasks, the trajectory, the log and the pending approvals keep their types
\* (run_antigravity_brain_resume, wait_for_antigravity_reply).
THEOREM BrainTypeCorrect == BrainSpec => []BrainTypeOK
<1>1. BrainInv => BrainTypeOK
  BY DEF BrainInv, BrainTypes, Known, Task, BrainTypeOK
<1> QED
  BY <1>1, BrainInvariance, PTL

\* Whatever models are out of quota, calls fail, tasks overlap and restarts come, a
\* message is given to the session once at most, and a reply holds something logged
\* since (send_antigravity_user_message, aggregate_antigravity_state).
THEOREM GivenOnceRepliedNew == BrainSpec => []AskedOnceAnsweredNew
<1>1. BrainInv => AskedOnceAnsweredNew
  <2> SUFFICES ASSUME BrainInv PROVE AskedOnceAnsweredNew
    OBVIOUS
  <2>1. \A m \in Message : given[m] \in Nat
    BY DEF BrainInv, BrainTypes
  <2>2. GivenOnce
    BY <2>1 DEF BrainInv, Turns, GivenOnce
  <2>3. ReplyIsNew
    BY DEF BrainInv, Turns, ReplyIsNew
  <2> QED
    BY <2>2, <2>3 DEF AskedOnceAnsweredNew
<1> QED
  BY <1>1, BrainInvariance, PTL

\* However many tasks poll, an interaction has one card for each time its approval was
\* missing from the state (insert_pending_antigravity_approval).
THEOREM CardsAreFew == BrainSpec => []OneCardPerApproval
<1>1. BrainInv => OneCardPerApproval
  BY DEF BrainInv, BrainTypes, Carded, OneCardPerApproval
<1> QED
  BY <1>1, BrainInvariance, PTL

\* An interaction that a task has announced, and passes over from then on, has its
\* approval in the state as long as it waits for a decision
\* (handle_callback_antigravity_approval removes it only when the server took it).
THEOREM AnnouncedStaysPending == BrainSpec => []AnnouncedIsPending
<1>1. BrainInv => AnnouncedIsPending
  BY DEF BrainInv
<1> QED
  BY <1>1, BrainInvariance, PTL

-----------------------------------------------------------------------------
(* A message to codex: the invariant *)

\* What the server writes.
Wire ==
  [kind : {"response"}, id : 1..3, ours : {TRUE}, data : BOOLEAN]
  \cup [kind : {"note", "error"}, id : {0}, ours : {TRUE}, data : {0}]
  \cup [kind : {"delta", "item"}, id : {0}, ours : BOOLEAN, data : 1..MaxMessages]
  \cup [kind : {"done"}, id : {0}, ours : BOOLEAN, data : 0..MaxMessages]
  \cup [kind : {"approval"}, id : 11..10 + MaxMessages, ours : {TRUE}, data : Command]
  \cup [kind : {"change"}, id : 11..10 + MaxMessages, ours : {TRUE}, data : {"free"}]

OurText(kind) == [kind : {kind}, id : {0}, ours : {TRUE}, data : 1..MaxMessages]

IsText(m)    == m.kind \in {"delta", "item"} /\ m.ours
IsRequest(m) == m.kind \in {"approval", "change"}
Putting      == {"insert", "send", "mark", "poll", "expire"}

PhaseTypes ==
  /\ mode \in {"live", "server"} /\ elsewhere \in BOOLEAN
  /\ at \in {"begin", "wait", "collect", "runner", "watch", "end"} \cup Putting
  /\ result \in {"none", "ok", "error", "noreply"} /\ (result = "none" <=> at # "end")

PipeTypes ==
  /\ want \in 0..3 /\ out \in Seq(Wire) /\ backlog \in Seq(Wire) /\ closed \in BOOLEAN
  /\ sent \in 0..MaxMessages

Perm     == [id : Nat, status : Open \cup {"none", "approved", "denied", "timedout"},
             card : BOOLEAN]
Answered == [id : Nat, command : Command, decision : {"accept", "decline"}]

AskTypes ==
  /\ ask \in [id : Nat, command : Command]
  /\ perm \in Perm
  /\ answers \in Seq(Answered)
  /\ verdict \in Seq(Nat \X {"approved", "denied"})

TextTypes ==
  /\ reply \in Seq(1..MaxMessages) /\ item \in Nat
  /\ said \in Seq({"delta", "item"} \X (1..MaxMessages))

LiveTypes ==
  /\ starts \in 0..2 /\ lost \in BOOLEAN
  /\ script \in Seq(Entry) /\ half \in BOOLEAN /\ offset \in 0..Len(script) /\ latest \in Nat

\* The phases of the two modes, and what is still as it was.
Phases ==
  /\ at \in {"wait", "collect"} \cup Putting => mode = "server"
  /\ at \in {"runner", "watch"} => mode = "live"
  /\ at = "wait" => want # 0
  /\ at \in {"begin", "wait"} => answers = <<>> /\ reply = <<>> /\ item = Nothing
  /\ at = "begin" => out = <<>> /\ said = <<>> /\ script = <<>> /\ ~half
                     /\ offset = 0 /\ latest = Nothing
  /\ at \in {"runner", "watch"} => item = Nothing

\* The runs of the prompt.
Runs ==
  /\ at = "begin" => starts = 0
  /\ at = "runner" => starts <= (IF lost THEN 1 ELSE 0)
  /\ PromptRunsOnce

\* What is put back is one request, for the rest of the handler's time.
PutBack ==
  backlog # <<>> => at = "wait" /\ Len(backlog) = 1 /\ IsRequest(backlog[1])

\* While an answer is awaited there is one at most, and the text comes after it.
Stream ==
  /\ at = "wait" =>
       \A i \in DOMAIN out :
         /\ out[i].kind = "response" =>
              out[i].id = want /\ \A j \in DOMAIN out : out[j].kind = "response" => j = i
         /\ IsText(out[i]) => want = 3 /\ \E j \in DOMAIN out : j < i /\ out[j].kind = "response"
  /\ \A i, j \in DOMAIN out : i < j /\ out[i].kind = "done" /\ out[i].ours => ~IsText(out[j])

\* The text of the turn is what was read of it, and then what was not.
DataOf(seq)  == [i \in DOMAIN seq |-> seq[i].data]
Unread(kind) == DataOf(Selected(out, OurText(kind)))

Texts ==
  mode = "server" /\ at # "end" =>
    /\ Said("delta") = reply \o Unread("delta")
    /\ \E read \in Seq(1..MaxMessages) :
         Said("item") = read \o Unread("item") /\ item = Final(read)

\* Requests are numbered in their order: those answered, the one put to the owner,
\* those to be read, those to come.
Numbered ==
  /\ \A i \in DOMAIN out : IsRequest(out[i]) =>
       /\ out[i].id <= 10 + sent
       /\ \A j \in DOMAIN out : i < j /\ IsRequest(out[j]) => out[i].id < out[j].id
       /\ \A k \in DOMAIN answers : answers[k].id < out[i].id
       /\ at \in Putting => ask.id < out[i].id
  /\ \A k \in DOMAIN answers :
       /\ answers[k].id <= 10 + sent
       /\ at \in Putting => answers[k].id < ask.id
  /\ at \in Putting => ask.id <= 10 + sent

\* The entry is that of the request put to the owner; an approval was pressed.
Put ==
  /\ at \in Putting \ {"insert"} => perm.id = ask.id /\ perm.status # "none"
  /\ perm.status = "approved" =>
       \E j \in DOMAIN verdict : verdict[j] = <<perm.id, "approved">>

\* Of the transcript the watcher knows the last message of what it has read, and that
\* there was no end.
Watched ==
  at = "watch" => /\ offset <= Whole /\ latest = LastMessage(offset)
                  /\ \A k \in 1..offset : ~IsEnd(k)

CodexInv == /\ PhaseTypes /\ PipeTypes /\ AskTypes /\ TextTypes /\ LiveTypes
            /\ Phases /\ Runs /\ PutBack /\ Stream /\ Texts /\ Numbered /\ Put
            /\ Watched /\ OwnerDecides /\ RightReply

-----------------------------------------------------------------------------
(* What is read and written *)

LEMMA MessagesAre ==
  ASSUME NEW m \in Wire
  PROVE  /\ m.id \in Nat
         /\ m.kind = "response" => m.id \in 1..3 /\ m.ours /\ m.data \in BOOLEAN
         /\ IsRequest(m) => m.id \in 11..10 + MaxMessages /\ m.data \in Command
         /\ m.kind \in {"delta", "item"} => m.data \in 1..MaxMessages
         /\ HasId(m) <=> m.kind = "response" \/ IsRequest(m)
         /\ \A kind \in {"delta", "item"} : m \in OurText(kind) <=> m.kind = kind /\ m.ours
<1>0. \/ m.kind = "response" /\ m.id \in 1..3
      \/ m.kind \in {"note", "error", "delta", "item", "done"} /\ m.id = 0
      \/ m.kind \in {"approval", "change"} /\ m.id \in 11..10 + MaxMessages
  BY DEF Wire
<1>1. m.id \in Nat
  BY <1>0
<1>2. m.kind = "response" => m.id \in 1..3 /\ m.ours /\ m.data \in BOOLEAN
  BY DEF Wire
<1>3. IsRequest(m) => m.id \in 11..10 + MaxMessages /\ m.data \in Command
  BY DEF Wire, IsRequest, Command
<1>4. m.kind \in {"delta", "item"} => m.data \in 1..MaxMessages
  BY DEF Wire
<1>5. HasId(m) <=> m.kind = "response" \/ IsRequest(m)
  BY <1>0 DEF IsRequest, HasId
<1>6. ASSUME NEW kind \in {"delta", "item"}
      PROVE  m \in OurText(kind) <=> m.kind = kind /\ m.ours
  <2>1. m.kind = kind /\ m.ours => m \in [kind : {"delta", "item"}, id : {0}, ours : BOOLEAN,
                                          data : 1..MaxMessages]
    BY DEF Wire
  <2> QED
    BY <2>1 DEF OurText
<1> QED
  BY <1>1, <1>2, <1>3, <1>4, <1>5, <1>6

LEMMA SentIsWire ==
  ASSUME sent \in 0..MaxMessages, sent < MaxMessages
  PROVE  /\ Msg("note", 0, TRUE, 0) \in Wire /\ Msg("error", 0, TRUE, 0) \in Wire
         /\ Msg("done", 0, TRUE, 0) \in Wire /\ Msg("done", 0, FALSE, sent + 1) \in Wire
         /\ \A kind \in {"delta", "item"}, ours \in BOOLEAN :
              Msg(kind, 0, ours, sent + 1) \in Wire
         /\ \A c \in Command : Msg("approval", 11 + sent, TRUE, c) \in Wire
         /\ Msg("change", 11 + sent, TRUE, "free") \in Wire
BY DEF Msg, Wire

LEMMA AnswerIsWire ==
  ASSUME NEW id \in 1..3, NEW ok \in BOOLEAN
  PROVE  Msg("response", id, TRUE, ok) \in Wire
BY DEF Msg, Wire

\* What the next message is, and what is left.
LEMMA NextIs ==
  ASSUME PipeTypes, Readable
  PROVE  /\ NextMessage \in Wire /\ Rest \in Seq(Wire)
         /\ backlog = <<>> => out # <<>> /\ NextMessage = Head(out) /\ Tail(out) \in Seq(Wire)
<1> USE DEF PipeTypes, Readable, NextMessage, Rest
<1>1. CASE backlog = <<>>
  <2>1. out # <<>> /\ out \in Seq(Wire)
    BY <1>1
  <2>2. Head(out) \in Wire /\ Tail(out) \in Seq(Wire)
    BY <2>1, TailIs
  <2> QED
    BY <1>1, <2>1, <2>2
<1>2. CASE backlog # <<>>
  <2>1. backlog \in Seq(Wire) /\ Len(backlog) \in Nat /\ Len(backlog) # 0
    BY <1>2
  <2>2. backlog[Len(backlog)] \in Wire /\ SubSeq(backlog, 1, Len(backlog) - 1) \in Seq(Wire)
    BY <2>1
  <2> QED
    BY <1>2, <2>2
<1> QED
  BY <1>1, <1>2

\* Which steps change which part of the state.
Pipes   == \/ Responds \/ Notifies \/ Requests \/ Dies \/ Spawns \/ Awaits
           \/ CollectsText \/ CollectsEnd \/ CollectsRequest
Asks    == \/ CollectsRequest \/ Inserts \/ Sends \/ Marks \/ Polls \/ Expires
           \/ \E v \in {"approved", "denied"} : Presses(v)
Reads2  == Notifies \/ CollectsText \/ Watches
Watching == DesktopWrites \/ AsksDesktop \/ RunsOnRunner \/ Watches

LEMMA Frames ==
  ASSUME TurnNext
  PROVE  /\ UNCHANGED fixed
         /\ Pipes \/ UNCHANGED pipe
         /\ Asks \/ UNCHANGED asking
         /\ Reads2 \/ UNCHANGED text
         /\ Watching \/ UNCHANGED live
<1>1. CASE Responds
  BY <1>1 DEF Responds, Pipes, fixed, pipe, asking, text, live
<1>2. CASE Notifies
  BY <1>2 DEF Notifies, Emits, Pipes, Reads2, fixed, pipe, asking, text, live
<1>3. CASE Requests
  BY <1>3 DEF Requests, Emits, Pipes, fixed, pipe, asking, text, live
<1>4. CASE Dies
  BY <1>4 DEF Dies, Pipes, fixed, pipe, asking, text, live
<1>5. CASE DesktopWrites
  BY <1>5 DEF DesktopWrites, Watching, fixed, pipe, asking, text, live
<1>6. CASE Spawns
  BY <1>6 DEF Spawns, Pipes, fixed, pipe, asking, text, live
<1>7. CASE Awaits
  BY <1>7 DEF Awaits, Pipes, fixed, pipe, asking, text, live
<1>8. CASE CollectsText
  BY <1>8 DEF CollectsText, Pipes, Reads2, fixed, pipe, asking, text, live
<1>9. CASE CollectsEnd
  BY <1>9 DEF CollectsEnd, Pipes, fixed, pipe, asking, text, live
<1>10. CASE CollectsRequest
  BY <1>10 DEF CollectsRequest, Pipes, Asks, fixed, pipe, asking, text, live
<1>11. CASE ReadsEnd
  BY <1>11 DEF ReadsEnd, fixed, pipe, asking, text, live
<1>12. CASE Inserts
  BY <1>12 DEF Inserts, Asks, fixed, pipe, asking, text, live
<1>13. CASE Sends
  BY <1>13 DEF Sends, Asks, fixed, pipe, asking, text, live
<1>14. CASE Marks
  BY <1>14 DEF Marks, Asks, fixed, pipe, asking, text, live
<1>15. CASE Polls
  BY <1>15 DEF Polls, Asks, fixed, pipe, asking, text, live
<1>16. CASE Lapses
  BY <1>16 DEF Lapses, fixed, pipe, asking, text, live
<1>17. CASE Expires
  BY <1>17 DEF Expires, Asks, fixed, pipe, asking, text, live
<1>18. CASE WriteFails
  BY <1>18 DEF WriteFails, fixed, pipe, asking, text, live
<1>19. CASE AsksDesktop
  BY <1>19 DEF AsksDesktop, Watching, fixed, pipe, asking, text, live
<1>20. CASE RunsOnRunner
  BY <1>20 DEF RunsOnRunner, Watching, fixed, pipe, asking, text, live
<1>21. CASE Watches
  BY <1>21 DEF Watches, Reads2, Watching, fixed, pipe, asking, text, live
<1>22. CASE WatchEnds
  BY <1>22 DEF WatchEnds, fixed, pipe, asking, text, live
<1>23. CASE RunsOut
  BY <1>23 DEF RunsOut, fixed, pipe, asking, text, live
<1>24. CASE \E v \in {"approved", "denied"} : Presses(v)
  BY <1>24 DEF Presses, Asks, fixed, pipe, asking, text, live
<1> QED
  BY <1>1, <1>2, <1>3, <1>4, <1>5, <1>6, <1>7, <1>8, <1>9, <1>10, <1>11, <1>12,
     <1>13, <1>14, <1>15, <1>16, <1>17, <1>18, <1>19, <1>20, <1>21, <1>22, <1>23, <1>24
     DEF TurnNext, Client, Collects, Approves, Desktop

\* The handler reads what the server wrote, first to last, once it collects.
LEMMA CollectReads ==
  ASSUME CodexInv, at = "collect", Readable, Takes
  PROVE  /\ out # <<>> /\ NextMessage = Head(out) /\ NextMessage \in Wire
         /\ out' = Tail(out) /\ backlog' = <<>> /\ out' \in Seq(Wire)
<1>1. backlog = <<>>
  BY DEF CodexInv, PutBack
<1>2. /\ NextMessage \in Wire /\ out # <<>> /\ NextMessage = Head(out)
      /\ Tail(out) \in Seq(Wire)
  BY <1>1, NextIs DEF CodexInv
<1> QED
  BY <1>1, <1>2 DEF Takes, Rest

\* A request that was put back is read and put back again; what the server wrote is
\* read until the answer comes or a request that is put back.
LEMMA AwaitReads ==
  ASSUME CodexInv, Awaits
  PROVE  \/ UNCHANGED <<out, backlog, want, at, result>>
         \/ /\ backlog = <<>> /\ out # <<>> /\ Head(out) \in Wire
            /\ out' = Tail(out) /\ Tail(out) \in Seq(Wire)
            /\ \/ /\ Head(out).kind = "response" /\ Head(out).id = want /\ backlog' = <<>>
                  /\ \/ want < 3 /\ want' = want + 1 /\ at' = "wait" /\ result' = result
                     \/ want = 3 /\ want' = want /\ at' = "collect" /\ result' = result
                     \/ want' = want /\ at' = "end" /\ result' = "error"
               \/ /\ ~(Head(out).kind = "response" /\ Head(out).id = want)
                  /\ UNCHANGED <<want, at, result>>
                  /\ backlog' = IF HasId(Head(out)) THEN <<Head(out)>> ELSE <<>>
<1> USE DEF Awaits, Moves, Concludes, Takes, Rest
<1>1. Readable /\ PipeTypes /\ PutBack /\ at = "wait"
  BY DEF CodexInv
<1>2. CASE backlog = <<>>
  <2>1. /\ out # <<>> /\ NextMessage = Head(out) /\ Head(out) \in Wire
        /\ Tail(out) \in Seq(Wire)
    BY <1>1, <1>2, NextIs
  <2>2. Rest = <<>> /\ \A x : Append(<<>>, x) = <<x>>
    BY <1>2
  <2> QED
    BY <1>1, <1>2, <2>1, <2>2
<1>3. CASE backlog # <<>>
  <2>1. Len(backlog) = 1 /\ IsRequest(backlog[1]) /\ backlog \in Seq(Wire)
    BY <1>1, <1>3 DEF PutBack, PipeTypes
  <2>2. NextMessage = backlog[1] /\ Rest = <<>>
    BY <1>3, <2>1 DEF NextMessage
  <2>3. HasId(NextMessage) /\ NextMessage.kind # "response"
    BY <2>1, <2>2, MessagesAre DEF IsRequest
  <2>4. Append(Rest, NextMessage) = backlog
    BY <2>1, <2>2
  <2> QED
    BY <1>1, <1>3, <2>3, <2>4
<1> QED
  BY <1>2, <1>3

\* Which phases a step leads to.
LEMMA AtMoves ==
  ASSUME TurnNext
  PROVE  /\ at' = "begin" => at = "begin"
         /\ at' = "runner" => at = "runner" \/ AsksDesktop
         /\ at' = "watch" => at = "watch" \/ AsksDesktop
         /\ at' = "wait" => at = "wait" \/ Spawns
         /\ at' = "insert" => at = "insert" \/ CollectsRequest
         /\ at' \in {"send", "mark", "poll", "expire"} => at \in Putting
         /\ at' = "collect" => at = "collect" \/ Awaits \/ Polls \/ Expires
         /\ at = "end" => at' = "end" /\ result' = result
<1> USE DEF Moves, Concludes, Putting
<1>1. CASE Responds
  BY <1>1 DEF Responds
<1>2. CASE Notifies
  BY <1>2 DEF Notifies, Emits
<1>3. CASE Requests
  BY <1>3 DEF Requests, Emits
<1>4. CASE Dies
  BY <1>4 DEF Dies
<1>5. CASE DesktopWrites
  BY <1>5 DEF DesktopWrites
<1>6. CASE Spawns
  BY <1>6 DEF Spawns
<1>7. CASE Awaits
  BY <1>7 DEF Awaits
<1>8. CASE CollectsText
  BY <1>8 DEF CollectsText
<1>9. CASE CollectsEnd
  BY <1>9 DEF CollectsEnd
<1>10. CASE CollectsRequest
  BY <1>10 DEF CollectsRequest
<1>11. CASE ReadsEnd
  BY <1>11 DEF ReadsEnd
<1>12. CASE Inserts
  BY <1>12 DEF Inserts
<1>13. CASE Sends
  BY <1>13 DEF Sends
<1>14. CASE Marks
  BY <1>14 DEF Marks
<1>15. CASE Polls
  BY <1>15 DEF Polls
<1>16. CASE Lapses
  BY <1>16 DEF Lapses
<1>17. CASE Expires
  BY <1>17 DEF Expires
<1>18. CASE WriteFails
  BY <1>18 DEF WriteFails
<1>19. CASE AsksDesktop
  BY <1>19 DEF AsksDesktop, Falls
<1>20. CASE RunsOnRunner
  BY <1>20 DEF RunsOnRunner
<1>21. CASE Watches
  BY <1>21 DEF Watches
<1>22. CASE WatchEnds
  BY <1>22 DEF WatchEnds
<1>23. CASE RunsOut
  BY <1>23 DEF RunsOut
<1>24. CASE \E v \in {"approved", "denied"} : Presses(v)
  BY <1>24 DEF Presses
<1> QED
  BY <1>1, <1>2, <1>3, <1>4, <1>5, <1>6, <1>7, <1>8, <1>9, <1>10, <1>11, <1>12,
     <1>13, <1>14, <1>15, <1>16, <1>17, <1>18, <1>19, <1>20, <1>21, <1>22, <1>23, <1>24
     DEF TurnNext, Client, Collects, Approves, Desktop

LEMMA PhaseTypesStep ==
  ASSUME CodexInv, TurnNext
  PROVE  PhaseTypes'
<1>1. PhaseTypes /\ fixed' = fixed
  BY Frames DEF CodexInv
<1> USE DEF PhaseTypes, Putting, Concludes, Moves, fixed
<1>2. CASE Responds
  BY <1>1, <1>2 DEF Responds
<1>3. CASE Notifies
  BY <1>1, <1>3 DEF Notifies, Emits
<1>4. CASE Requests
  BY <1>1, <1>4 DEF Requests, Emits
<1>5. CASE Dies
  BY <1>1, <1>5 DEF Dies
<1>6. CASE DesktopWrites
  BY <1>1, <1>6 DEF DesktopWrites
<1>7. CASE Spawns
  BY <1>1, <1>7 DEF Spawns
<1>8. CASE Awaits
  BY <1>1, <1>8 DEF Awaits
<1>9. CASE CollectsText
  BY <1>1, <1>9 DEF CollectsText
<1>10. CASE CollectsEnd
  BY <1>1, <1>10 DEF CollectsEnd
<1>11. CASE CollectsRequest
  BY <1>1, <1>11 DEF CollectsRequest
<1>12. CASE ReadsEnd
  BY <1>1, <1>12 DEF ReadsEnd
<1>13. CASE Inserts
  BY <1>1, <1>13 DEF Inserts
<1>14. CASE Sends
  BY <1>1, <1>14 DEF Sends
<1>15. CASE Marks
  BY <1>1, <1>15 DEF Marks
<1>16. CASE Polls
  BY <1>1, <1>16 DEF Polls
<1>17. CASE Lapses
  BY <1>1, <1>17 DEF Lapses
<1>18. CASE Expires
  BY <1>1, <1>18 DEF Expires
<1>19. CASE WriteFails
  BY <1>1, <1>19 DEF WriteFails
<1>20. CASE AsksDesktop
  BY <1>1, <1>20 DEF AsksDesktop, Falls
<1>21. CASE RunsOnRunner
  BY <1>1, <1>21 DEF RunsOnRunner
<1>22. CASE Watches
  BY <1>1, <1>22 DEF Watches
<1>23. CASE WatchEnds
  BY <1>1, <1>23 DEF WatchEnds
<1>24. CASE RunsOut
  BY <1>1, <1>24 DEF RunsOut
<1>25. CASE \E v \in {"approved", "denied"} : Presses(v)
  BY <1>1, <1>25 DEF Presses
<1> QED
  BY <1>2, <1>3, <1>4, <1>5, <1>6, <1>7, <1>8, <1>9, <1>10, <1>11, <1>12, <1>13,
     <1>14, <1>15, <1>16, <1>17, <1>18, <1>19, <1>20, <1>21, <1>22, <1>23, <1>24, <1>25
     DEF TurnNext, Client, Collects, Approves, Desktop

LEMMA PipeTypesStep ==
  ASSUME CodexInv, TurnNext
  PROVE  PipeTypes'
<1>0. PipeTypes
  BY DEF CodexInv
<1> USE DEF PipeTypes, pipe
<1>1. CASE UNCHANGED pipe
  BY <1>0, <1>1
<1>2. CASE Responds
  <2>1. want \in 1..3
    BY <1>0, <1>2 DEF Responds, CodexInv, Phases
  <2>3. PICK ok \in BOOLEAN : out' = Append(out, Msg("response", want, TRUE, ok))
    BY <1>2 DEF Responds
  <2>4. out' \in Seq(Wire)
    <3>1. Msg("response", want, TRUE, ok) \in Wire
      BY <2>1, AnswerIsWire
    <3>2. out \in Seq(Wire)
      BY <1>0
    <3> QED
      BY <2>3, <3>1, <3>2, AppendIs
  <2>5. UNCHANGED <<want, backlog, closed, sent>>
    BY <1>2 DEF Responds
  <2> QED
    BY <1>0, <2>4, <2>5
<1>3. CASE Notifies \/ Requests
  <2>1. PICK m : Emits(m) /\ m \in Wire
    <3>1. sent < MaxMessages /\ sent \in 0..MaxMessages
      BY <1>0, <1>3 DEF Notifies, Requests, Emits
    <3>2. CASE Notifies
      BY <3>1, <3>2, SentIsWire DEF Notifies
    <3>3. CASE Requests
      BY <3>1, <3>3, SentIsWire DEF Requests
    <3> QED
      BY <1>3, <3>2, <3>3
  <2> QED
    BY <1>0, <2>1 DEF Emits
<1>4. CASE Dies
  BY <1>0, <1>4 DEF Dies
<1>5. CASE Spawns
  BY <1>0, <1>5 DEF Spawns
<1>6. CASE Awaits
  <2>1. UNCHANGED <<closed, sent>>
    BY <1>6 DEF Awaits
  <2>2. CASE UNCHANGED <<out, backlog, want, at, result>>
    BY <1>0, <2>1, <2>2
  <2>3. CASE out' = Tail(out) /\ Tail(out) \in Seq(Wire) /\ Head(out) \in Wire
    <3>1. <<>> \in Seq(Wire) /\ <<Head(out)>> \in Seq(Wire)
      BY <2>3
    <3>2. backlog' \in {<<>>, <<Head(out)>>} /\ want' \in {want, want + 1} /\ (want < 3 \/ want' = want)
      BY <1>0, <1>6, <2>3, AwaitReads
    <3>3. want' \in 0..3
      BY <1>0, <3>2
    <3>4. backlog' \in Seq(Wire) /\ out' \in Seq(Wire)
      BY <2>3, <3>1, <3>2
    <3> QED
      BY <1>0, <2>1, <3>3, <3>4
  <2> QED
    BY <1>6, <2>2, <2>3, AwaitReads
<1>7. CASE CollectsText \/ CollectsEnd \/ CollectsRequest
  <2>1. at = "collect" /\ Readable /\ Takes /\ UNCHANGED <<want, closed, sent>>
    BY <1>7 DEF CollectsText, CollectsEnd, CollectsRequest
  <2>2. out' \in Seq(Wire) /\ backlog' = <<>>
    BY <2>1, CollectReads
  <2> QED
    BY <1>0, <2>1, <2>2
<1> QED
  BY <1>1, <1>2, <1>3, <1>4, <1>5, <1>6, <1>7, Frames DEF Pipes

\* The first and the last of some places.
LEMMA LastIs ==
  ASSUME NEW n \in Nat, NEW S \in SUBSET (1 .. n), S # {}
  PROVE  Newest(S) \in S /\ \A j \in S : j <= Newest(S)
<1> DEFINE N == Cardinality(S)
<1>1. /\ N \in Nat /\ \A i \in S : Rank(S, i) \in 1 .. N
      /\ \A m \in 1 .. N : \E i \in S : Rank(S, i) = m
  BY RankOnto
<1> HIDE DEF N
<1>2. N \in 1 .. N
  <2>1. PICK i \in S : Rank(S, i) \in 1 .. N
    BY <1>1
  <2> QED
    BY <1>1, <2>1
<1>4. PICK i \in S : Rank(S, i) = N
  BY <1>1, <1>2
<1>5. ASSUME NEW j \in S PROVE j <= i
  <2>1. i < j => Rank(S, i) < Rank(S, j)
    BY RankGrows
  <2>2. i \in Int /\ j \in Int /\ Rank(S, j) \in 1 .. N
    BY <1>1
  <2> QED
    BY <1>1, <1>4, <2>1, <2>2
<1> QED
  BY <1>5 DEF Newest

LEMMA FirstIs ==
  ASSUME NEW n \in Nat, NEW S \in SUBSET (1 .. n), S # {}
  PROVE  Oldest(S) \in S /\ \A j \in S : Oldest(S) <= j
<1> DEFINE N == Cardinality(S)
<1>1. /\ N \in Nat /\ \A i \in S : Rank(S, i) \in 1 .. N
      /\ \A m \in 1 .. N : \E i \in S : Rank(S, i) = m
  BY RankOnto
<1> HIDE DEF N
<1>2. 1 \in 1 .. N
  <2>1. PICK i \in S : Rank(S, i) \in 1 .. N
    BY <1>1
  <2> QED
    BY <1>1, <2>1
<1>4. PICK i \in S : Rank(S, i) = 1
  BY <1>1, <1>2
<1>5. ASSUME NEW j \in S PROVE i <= j
  <2>1. j < i => Rank(S, j) < Rank(S, i)
    BY RankGrows
  <2>2. i \in Int /\ j \in Int /\ Rank(S, j) \in 1 .. N
    BY <1>1
  <2> QED
    BY <1>1, <1>4, <2>1, <2>2
<1> QED
  BY <1>5 DEF Oldest

LEMMA EntriesAre ==
  ASSUME LiveTypes
  PROVE  /\ Len(script) \in Nat /\ DOMAIN script = 1..Len(script) /\ Whole <= Len(script)
         /\ Whole \in Int /\ offset \in Nat
         /\ \A i \in 1..Len(script) :
              script[i].n \in Nat /\ (script[i].kind = "message" => script[i].n # 0)
BY DEF LiveTypes, Entry, Whole

LEMMA ReplyIs ==
  ASSUME LiveTypes, NEW k \in offset + 1..Whole
  PROVE  k \in 1..Len(script) /\ Reply(k) \in Nat /\ LastUpTo(k, latest) \in Nat
<1>1. k \in 1..Len(script)
  BY EntriesAre
<1> DEFINE ns == {i \in offset + 1..k : script[i].kind = "message"}
<1>2. ns \in SUBSET (1..Len(script))
  BY <1>1, EntriesAre
<1>3. LastUpTo(k, latest) \in Nat
  <2>1. CASE ns = {}
    BY <2>1 DEF LastUpTo, LiveTypes
  <2>2. CASE ns # {}
    <3>1. Newest(ns) \in ns
      BY <1>2, <2>2, LastIs, EntriesAre
    <3> QED
      BY <1>2, <2>2, <3>1, EntriesAre DEF LastUpTo
  <2> QED
    BY <2>1, <2>2
<1> QED
  BY <1>1, <1>3, EntriesAre DEF Reply

LEMMA AskTypesStep ==
  ASSUME CodexInv, TurnNext
  PROVE  AskTypes'
<1>0. AskTypes
  BY DEF CodexInv
<1> USE DEF AskTypes, asking
<1>1. CASE UNCHANGED asking
  BY <1>0, <1>1
<1>2. CASE CollectsRequest
  <2>1. NextMessage \in Wire
    BY <1>2, CollectReads DEF CollectsRequest
  <2>2. IsRequest(NextMessage) => NextMessage.id \in Nat /\ NextMessage.data \in Command
    BY <2>1, MessagesAre
  <2>3. /\ ask' \in {ask, [id |-> NextMessage.id, command |-> NextMessage.data]}
        /\ IsRequest(NextMessage)
        /\ \/ answers' = answers
           \/ answers' = Append(answers, [id |-> NextMessage.id, command |-> "free",
                                          decision |-> "accept"])
        /\ UNCHANGED <<perm, verdict>>
    BY <1>2 DEF CollectsRequest, Answers, IsRequest
  <2>4. [id |-> NextMessage.id, command |-> NextMessage.data] \in [id : Nat, command : Command]
    BY <2>2, <2>3
  <2>5. [id |-> NextMessage.id, command |-> "free", decision |-> "accept"]
          \in Answered
    BY <2>2, <2>3 DEF Command, Answered
  <2>6. answers' \in Seq(Answered)
    <3>1. answers \in Seq(Answered)
      BY <1>0
    <3> QED
      BY <2>3, <2>5, <3>1, AppendIs
  <2> QED
    BY <1>0, <2>3, <2>4, <2>6
<1>3. CASE Inserts \/ Sends \/ Marks
  <2>1. UNCHANGED <<ask, answers, verdict>>
    BY <1>3 DEF Inserts, Sends, Marks
  <2>2. perm' \in {perm, [id |-> ask.id, status |-> "pending", card |-> FALSE],
                   [perm EXCEPT !.card = TRUE], [perm EXCEPT !.status = "sent"]}
    BY <1>3 DEF Inserts, Sends, Marks
  <2>3. perm' \in Perm
    <3>1. perm \in Perm /\ ask.id \in Nat
      BY <1>0
    <3>2. [id |-> ask.id, status |-> "pending", card |-> FALSE] \in Perm
      BY <3>1 DEF Perm, Open
    <3>3. [perm EXCEPT !.card = TRUE] \in Perm
      BY <3>1 DEF Perm
    <3>4. [perm EXCEPT !.status = "sent"] \in Perm
      BY <3>1 DEF Perm, Open
    <3> QED
      BY <2>2, <3>1, <3>2, <3>3, <3>4
  <2> QED
    BY <1>0, <2>1, <2>3
<1>4. CASE Polls \/ Expires
  <2>1. \A st : Says(st) \in {"accept", "decline"}
    BY DEF Says
  <2>2. /\ perm' \in {perm, Expired} /\ UNCHANGED <<ask, verdict>>
        /\ \/ answers' = answers
           \/ \E st : Answers(ask.id, ask.command, Says(st))
    BY <1>4 DEF Polls, Expires
  <2>3. perm' \in Perm
    BY <1>0, <2>2 DEF Expired, Perm
  <2>4. answers' \in Seq(Answered)
    <3>1. CASE answers' = answers
      BY <1>0, <3>1
    <3>2. CASE \E st : Answers(ask.id, ask.command, Says(st))
      <4>1. PICK d \in {"accept", "decline"} : Answers(ask.id, ask.command, d)
        BY <2>1, <3>2
      <4>2. [id |-> ask.id, command |-> ask.command, decision |-> d]
              \in Answered
        BY <1>0 DEF Answered
      <4> QED
        BY <1>0, <4>1, <4>2 DEF Answers
    <3> QED
      BY <2>2, <3>1, <3>2
  <2> QED
    BY <1>0, <2>2, <2>3, <2>4
<1>5. CASE \E v \in {"approved", "denied"} : Presses(v)
  <2>1. PICK v \in {"approved", "denied"} : Presses(v)
    BY <1>5
  <2>2. <<perm.id, v>> \in Nat \X {"approved", "denied"}
    BY <1>0 DEF Perm
  <2>3. verdict' \in Seq(Nat \X {"approved", "denied"})
    BY <1>0, <2>1, <2>2 DEF Presses
  <2>4. perm' \in Perm
    BY <1>0, <2>1 DEF Presses, Perm
  <2> QED
    BY <1>0, <2>1, <2>3, <2>4 DEF Presses
<1> QED
  BY <1>1, <1>2, <1>3, <1>4, <1>5, Frames DEF Asks

LEMMA TextTypesStep ==
  ASSUME CodexInv, TurnNext
  PROVE  TextTypes'
<1>0. TextTypes /\ PipeTypes
  BY DEF CodexInv
<1> USE DEF TextTypes, text
<1>1. CASE UNCHANGED text
  BY <1>0, <1>1
<1>2. CASE Notifies
  <2>1. CASE UNCHANGED text
    BY <1>0, <2>1
  <2>2. CASE \E kind \in {"delta", "item"} :
               /\ Emits(Msg(kind, 0, TRUE, sent + 1))
               /\ said' = Append(said, <<kind, sent + 1>>) /\ UNCHANGED <<reply, item>>
    <3>1. PICK kind \in {"delta", "item"} :
               /\ Emits(Msg(kind, 0, TRUE, sent + 1))
               /\ said' = Append(said, <<kind, sent + 1>>) /\ UNCHANGED <<reply, item>>
      BY <2>2
    <3>2. <<kind, sent + 1>> \in {"delta", "item"} \X (1..MaxMessages)
      BY <1>0, <3>1 DEF PipeTypes, Emits
    <3>3. said' \in Seq({"delta", "item"} \X (1..MaxMessages))
      BY <1>0, <3>1, <3>2
    <3> QED
      BY <1>0, <3>1, <3>3
  <2> QED
    BY <1>2, <2>1, <2>2 DEF Notifies
<1>3. CASE CollectsText
  <2>1. NextMessage \in Wire
    BY <1>3, CollectReads DEF CollectsText
  <2>2. NextMessage.kind \in {"delta", "item"} => NextMessage.data \in 1..MaxMessages
    BY <2>1, MessagesAre
  <2>3. /\ reply' = IF NextMessage.kind = "delta" /\ NextMessage.ours
                    THEN Append(reply, NextMessage.data) ELSE reply
        /\ item' = IF NextMessage.kind = "item" /\ NextMessage.ours THEN NextMessage.data ELSE item
        /\ said' = said
    BY <1>3 DEF CollectsText
  <2>4. reply' \in Seq(1..MaxMessages)
    <3>1. reply \in Seq(1..MaxMessages)
      BY <1>0
    <3> QED
      BY <2>2, <2>3, <3>1, AppendIs
  <2>5. item' \in Nat
    BY <1>0, <2>2, <2>3
  <2> QED
    BY <1>0, <2>3, <2>4, <2>5
<1>4. CASE Watches
  <2>1. item' = item \/ \E k \in offset + 1..Whole : item' = Reply(k)
    <3> DEFINE ends == {k \in offset + 1..Whole : SaysEnd(k)}
    <3>1. CASE ends = {}
      BY <1>4, <3>1 DEF Watches
    <3>2. CASE ends # {}
      <4>1. ends \in SUBSET (1..Len(script)) /\ Len(script) \in Nat
        BY EntriesAre DEF CodexInv
      <4>2. PICK k \in ends : item' = Reply(k)
        BY <1>4, <3>2, <4>1, FirstIs DEF Watches
      <4> QED
        BY <4>2
    <3> QED
      BY <3>1, <3>2
  <2>2. item' \in Nat
    BY <1>0, <2>1, ReplyIs DEF CodexInv
  <2> QED
    BY <1>0, <1>4, <2>2 DEF Watches
<1> QED
  BY <1>1, <1>2, <1>3, <1>4, Frames DEF Reads2

LEMMA LiveTypesStep ==
  ASSUME CodexInv, TurnNext
  PROVE  LiveTypes'
<1>0. LiveTypes
  BY DEF CodexInv
<1> USE DEF LiveTypes, live
<1>1. CASE UNCHANGED live
  BY <1>0, <1>1
<1>2. CASE DesktopWrites
  <2>1. /\ UNCHANGED <<starts, lost, offset, latest>> /\ half' \in BOOLEAN
        /\ \/ script' = script
           \/ \E e \in Entry : script' = Append(script, e)
    <3>1. Len(script) \in Nat
      BY <1>0
    <3>2. \A kind \in {"message", "complete"} :
            Len(script) < MaxEntries => [kind |-> kind, n |-> Len(script) + 1] \in Entry
      BY <3>1 DEF Entry
    <3>3. \A kind \in {"complete", "other"} : [kind |-> kind, n |-> 0] \in Entry
      BY DEF Entry
    <3> QED
      BY <1>2, <3>2, <3>3 DEF DesktopWrites
  <2>2. CASE script' = script
    BY <1>0, <2>1, <2>2
  <2>3. CASE \E e \in Entry : script' = Append(script, e)
    <3>1. PICK e \in Entry : script' = Append(script, e)
      BY <2>3
    <3>2. script' \in Seq(Entry) /\ Len(script') = Len(script) + 1
      BY <1>0, <3>1
    <3> QED
      BY <1>0, <2>1, <3>2
  <2> QED
    BY <2>1, <2>2, <2>3
<1>3. CASE AsksDesktop
  <2>1. UNCHANGED <<script, half, offset, latest>>
    BY <1>3 DEF AsksDesktop
  <2>2. starts' \in {0, 1, starts} /\ (lost' = TRUE \/ lost' = lost)
    BY <1>3 DEF AsksDesktop
  <2>3. starts' \in 0..2
    BY <1>0, <2>2
  <2>4. lost' \in BOOLEAN
    BY <1>0, <2>2
  <2> QED
    BY <1>0, <2>1, <2>3, <2>4
<1>4. CASE RunsOnRunner
  <2>1. starts <= 1
    BY <1>0, <1>4 DEF RunsOnRunner, CodexInv, Runs
  <2> QED
    BY <1>0, <1>4, <2>1 DEF RunsOnRunner
<1>5. CASE Watches
  <2>1. /\ UNCHANGED <<starts, lost, script, half>> /\ Whole > offset /\ offset' = Whole
        /\ latest' \in {latest, LastUpTo(Whole, latest)}
    BY <1>5 DEF Watches
  <2>2. Whole \in offset + 1..Whole /\ Whole \in 0..Len(script)
    BY <1>0, <2>1, EntriesAre
  <2>3. latest' \in Nat
    BY <1>0, <2>1, <2>2, ReplyIs
  <2> QED
    BY <1>0, <2>1, <2>2, <2>3
<1> QED
  BY <1>1, <1>2, <1>3, <1>4, <1>5, Frames DEF Watching

LEMMA RunsStep ==
  ASSUME CodexInv, TurnNext
  PROVE  Runs'
<1>0. Runs /\ LiveTypes
  BY DEF CodexInv
<1> USE DEF Runs, PromptRunsOnce, LiveTypes, Moves, Concludes
<1>1. CASE AsksDesktop
  BY <1>0, <1>1 DEF AsksDesktop, Falls
<1>2. CASE RunsOnRunner
  BY <1>0, <1>2 DEF RunsOnRunner
<1>3. CASE ~AsksDesktop /\ ~RunsOnRunner
  <2>1. UNCHANGED <<starts, lost>>
    BY <1>3, Frames DEF Watching, DesktopWrites, Watches, live
  <2>2. at' \in {"begin", "runner"} => at' = at
    BY <1>3, AtMoves
  <2> QED
    BY <1>0, <2>1, <2>2
<1> QED
  BY <1>1, <1>2, <1>3

\* A client that goes round its backlog reads no end and its time does not run out.
LEMMA WaitStays ==
  ASSUME TurnNext, at = "wait", backlog # <<>>, ~Awaits
  PROVE  at' = "wait"
BY DEF Moves, Concludes, TurnNext, Client, Collects, Approves, Desktop,
   Responds, Notifies, Requests, Emits, Dies, DesktopWrites, Spawns, CollectsText, CollectsEnd,
   CollectsRequest, ReadsEnd, Readable, Inserts, Sends, Marks, Polls, Lapses, Expires, WriteFails,
   AsksDesktop, RunsOnRunner, Watches, WatchEnds, RunsOut, Presses

LEMMA BeginStays ==
  ASSUME TurnNext, at = "begin", at' = "begin"
  PROVE  UNCHANGED <<pipe, text, live, answers>>
<1> USE DEF Moves, Concludes, Emits, pipe, text, live
<1>1. UNCHANGED pipe
  <2>1. ~Pipes
    BY DEF Pipes, Responds, Notifies, Running, Requests, MayAsk, Dies, Spawns, Awaits, CollectsText,
       CollectsEnd, CollectsRequest
  <2> QED
    BY <2>1, Frames
<1>2. UNCHANGED text
  <2>1. ~Reads2
    BY DEF Reads2, Notifies, CollectsText, Watches
  <2> QED
    BY <2>1, Frames
<1>3. UNCHANGED live
  <2>1. ~Watching
    BY DEF Watching, DesktopWrites, AsksDesktop, Falls, RunsOnRunner, Watches
  <2> QED
    BY <2>1, Frames
<1>4. answers' = answers
  BY Frames DEF Asks, CollectsRequest, Inserts, Sends, Marks, Polls, Expires, Presses, asking
<1> QED
  BY <1>1, <1>2, <1>3, <1>4

LEMMA PhasesStep ==
  ASSUME CodexInv, TurnNext
  PROVE  Phases'
<1>0. Phases /\ PipeTypes /\ PhaseTypes /\ mode' = mode
  BY Frames DEF CodexInv, fixed
<1>1. at' \in {"wait", "collect"} \cup Putting => mode' = "server"
  <2>1. at' \in {"wait", "collect"} \cup Putting =>
          at \in {"wait", "collect"} \cup Putting \/ Spawns
    BY AtMoves DEF Putting, Awaits, CollectsRequest, Polls, Expires
  <2> QED
    BY <1>0, <2>1 DEF Phases, Spawns
<1>2. at' \in {"runner", "watch"} => mode' = "live"
  BY <1>0, AtMoves DEF Phases, AsksDesktop
<1>3. at' = "wait" => want' # 0
  <2> SUFFICES ASSUME at' = "wait" PROVE want' # 0
    OBVIOUS
  <2>1. CASE Spawns
    BY <2>1 DEF Spawns, Moves, Concludes
  <2>2. CASE at = "wait" /\ ~Awaits
    <3>1. want' = want
      BY <2>2, Frames DEF Pipes, pipe, Responds, Notifies, Requests, Emits, Dies, Spawns,
         CollectsText, CollectsEnd, CollectsRequest
    <3> QED
      BY <1>0, <2>2, <3>1 DEF Phases
  <2>3. CASE at = "wait" /\ Awaits
    <3>1. want' \in {want, want + 1} /\ want \in Nat
      BY <1>0, <2>3, AwaitReads DEF PipeTypes
    <3> QED
      BY <1>0, <2>3, <3>1 DEF Phases
  <2> QED
    BY <2>1, <2>2, <2>3, AtMoves
<1>4. at' = "wait" => answers' = <<>> /\ reply' = <<>> /\ item' = Nothing
  <2> SUFFICES ASSUME at' = "wait" PROVE answers' = <<>> /\ reply' = <<>> /\ item' = Nothing
    OBVIOUS
  <2>1. at = "wait" \/ (at = "begin" /\ Spawns)
    BY AtMoves DEF Spawns
  <2>2. answers' = answers
    BY <2>1, Frames DEF Asks, CollectsRequest, Inserts, Sends, Marks, Polls, Expires, Presses, asking
  <2>3. reply' = reply /\ item' = item
    BY <2>1, Frames DEF Reads2, Notifies, CollectsText, Watches, text
  <2> QED
    BY <1>0, <2>1, <2>2, <2>3 DEF Phases
<1>5. at' = "begin" => /\ answers' = <<>> /\ reply' = <<>> /\ item' = Nothing
                       /\ out' = <<>> /\ said' = <<>> /\ script' = <<>> /\ ~half'
                       /\ offset' = 0 /\ latest' = Nothing
  BY <1>0, BeginStays, AtMoves DEF Phases, pipe, text, live
<1>6. at' \in {"runner", "watch"} => item' = Nothing
  <2> SUFFICES ASSUME at' \in {"runner", "watch"} PROVE item' = Nothing
    OBVIOUS
  <2>1. at \in {"runner", "watch"} \/ at = "begin"
    BY AtMoves DEF AsksDesktop
  <2>2. item' = item
    BY <2>1, Frames DEF Reads2, Notifies, CollectsText, Watches, text, Moves, Concludes
  <2> QED
    BY <1>0, <2>1, <2>2 DEF Phases
<1> QED
  BY <1>1, <1>2, <1>3, <1>4, <1>5, <1>6 DEF Phases

LEMMA PutBackStep ==
  ASSUME CodexInv, TurnNext
  PROVE  PutBack'
<1>0. PutBack /\ Stream
  BY DEF CodexInv
<1>1. CASE Awaits
  <2>1. at = "wait"
    BY <1>1 DEF Awaits
  <2>2. CASE UNCHANGED <<out, backlog, want, at, result>>
    BY <1>0, <2>2 DEF PutBack
  <2>3. CASE backlog' = <<>>
    BY <2>3 DEF PutBack
  <2>4. CASE /\ backlog' = <<Head(out)>> /\ at' = at /\ HasId(Head(out)) /\ Head(out) \in Wire
             /\ out # <<>> /\ ~(Head(out).kind = "response" /\ Head(out).id = want)
    <3>1. Head(out) = out[1] /\ 1 \in DOMAIN out
      BY <2>4 DEF CodexInv, PipeTypes
    <3>2. Head(out).kind # "response"
      BY <1>0, <2>1, <2>4, <3>1 DEF Stream
    <3>3. IsRequest(Head(out))
      BY <2>4, <3>2, MessagesAre
    <3>4. Len(backlog') = 1 /\ backlog'[1] = Head(out)
      BY <2>4
    <3> QED
      BY <2>1, <2>4, <3>3, <3>4 DEF PutBack, IsRequest
  <2> QED
    BY <1>1, <2>2, <2>3, <2>4, AwaitReads
<1>2. CASE CollectsText \/ CollectsEnd \/ CollectsRequest
  <2>1. backlog' = <<>>
    BY <1>2, CollectReads DEF CollectsText, CollectsEnd, CollectsRequest
  <2> QED
    BY <2>1 DEF PutBack
<1>3. CASE ~Awaits /\ ~(CollectsText \/ CollectsEnd \/ CollectsRequest)
  <2>1. backlog' = backlog
    BY <1>3, Frames DEF Pipes, pipe, Responds, Notifies, Requests, Emits, Dies, Spawns
  <2>2. at = "wait" /\ backlog # <<>> => at' = "wait"
    BY <1>3, WaitStays
  <2> QED
    BY <1>0, <2>1, <2>2 DEF PutBack
<1> QED
  BY <1>1, <1>2, <1>3

\* The places of a sequence with one more, and with the first taken off.
LEMMA AppendAt ==
  ASSUME NEW A, NEW s \in Seq(A), NEW x \in A
  PROVE  /\ Len(s) \in Nat /\ DOMAIN s = 1..Len(s) /\ DOMAIN Append(s, x) = 1..Len(s) + 1
         /\ Append(s, x)[Len(s) + 1] = x
         /\ \A i \in 1..Len(s) : Append(s, x)[i] = s[i]
OBVIOUS

LEMMA TailAt ==
  ASSUME NEW A, NEW s \in Seq(A), s # <<>>
  PROVE  /\ Len(s) \in Nat /\ Len(s) > 0 /\ DOMAIN s = 1..Len(s)
         /\ DOMAIN Tail(s) = 1..Len(s) - 1 /\ Head(s) = s[1]
         /\ \A i \in 1..Len(s) - 1 : Tail(s)[i] = s[i + 1]
OBVIOUS

\* What the server may add to what it wrote.
LEMMA EmitsAre ==
  ASSUME CodexInv, Notifies \/ Requests
  PROVE  \E m \in Wire :
           /\ Emits(m) /\ m.kind # "response"
           /\ IsText(m) => Running /\ m.data = sent + 1 /\ said' = Append(said, <<m.kind, m.data>>)
           /\ ~IsText(m) => said' = said
           /\ IsRequest(m) => m.id = 11 + sent
           /\ UNCHANGED <<reply, item>>
<1>1. sent < MaxMessages /\ sent \in 0..MaxMessages
  BY DEF Notifies, Requests, Emits, CodexInv, PipeTypes
<1> USE <1>1, SentIsWire DEF IsText, IsRequest, text
<1>2. CASE /\ Running
           /\ \E kind \in {"delta", "item"} :
                /\ Emits(Msg(kind, 0, TRUE, sent + 1))
                /\ said' = Append(said, <<kind, sent + 1>>) /\ UNCHANGED <<reply, item>>
  <2>1. PICK kind \in {"delta", "item"} :
                /\ Emits(Msg(kind, 0, TRUE, sent + 1))
                /\ said' = Append(said, <<kind, sent + 1>>) /\ UNCHANGED <<reply, item>>
    BY <1>2
  <2>2. /\ Msg(kind, 0, TRUE, sent + 1).kind = kind
        /\ Msg(kind, 0, TRUE, sent + 1).data = sent + 1
        /\ Msg(kind, 0, TRUE, sent + 1).ours /\ Msg(kind, 0, TRUE, sent + 1) \in Wire
    BY DEF Msg
  <2> QED
    BY <1>2, <2>1, <2>2
<1>3. CASE \E kind \in {"delta", "item", "done"} :
             Emits(Msg(kind, 0, FALSE, sent + 1)) /\ UNCHANGED text
  <2>1. PICK kind \in {"delta", "item", "done"} :
             Emits(Msg(kind, 0, FALSE, sent + 1)) /\ UNCHANGED text
    BY <1>3
  <2>2. /\ Msg(kind, 0, FALSE, sent + 1).kind = kind /\ ~Msg(kind, 0, FALSE, sent + 1).ours
        /\ Msg(kind, 0, FALSE, sent + 1) \in Wire
    BY DEF Msg
  <2> QED
    BY <2>1, <2>2
<1>4. CASE \E kind \in {"note", "done", "error"} :
             Emits(Msg(kind, 0, TRUE, 0)) /\ UNCHANGED text
  <2>1. PICK kind \in {"note", "done", "error"} :
             Emits(Msg(kind, 0, TRUE, 0)) /\ UNCHANGED text
    BY <1>4
  <2>2. Msg(kind, 0, TRUE, 0).kind = kind /\ Msg(kind, 0, TRUE, 0) \in Wire
    BY DEF Msg
  <2> QED
    BY <2>1, <2>2
<1>5. CASE Requests
  <2>1. PICK kind \in {"approval", "change"}, c \in Command :
             /\ Emits(Msg(kind, 11 + sent, TRUE, c)) /\ UNCHANGED text
             /\ Msg(kind, 11 + sent, TRUE, c) \in Wire
    BY <1>5 DEF Requests, Command
  <2>2. /\ Msg(kind, 11 + sent, TRUE, c).kind = kind /\ Msg(kind, 11 + sent, TRUE, c).id = 11 + sent
    BY DEF Msg
  <2> QED
    BY <2>1, <2>2
<1> QED
  BY <1>2, <1>3, <1>4, <1>5 DEF Notifies

LEMMA OutMoves ==
  ASSUME CodexInv, TurnNext
  PROVE  \/ /\ out' = out /\ sent' = sent
            /\ at' = "wait" => out = <<>> \/ (at = "wait" /\ want' = want)
         \/ Responds
         \/ Notifies \/ Requests
         \/ /\ Awaits \/ CollectsText \/ CollectsEnd \/ CollectsRequest
            /\ out # <<>> /\ Head(out) \in Wire /\ out' = Tail(out) /\ sent' = sent
<1>1. CASE Responds \/ Notifies \/ Requests
  BY <1>1
<1>2. CASE Awaits
  <2>1. sent' = sent /\ at = "wait"
    BY <1>2 DEF Awaits
  <2> QED
    BY <1>2, <2>1, AwaitReads
<1>3. CASE CollectsText \/ CollectsEnd \/ CollectsRequest
  <2>1. at = "collect" /\ Readable /\ Takes /\ sent' = sent
    BY <1>3 DEF CollectsText, CollectsEnd, CollectsRequest
  <2>2. out # <<>> /\ out' = Tail(out) /\ Head(out) \in Wire
    BY <2>1, CollectReads
  <2> QED
    BY <1>3, <2>1, <2>2
<1>4. CASE Spawns
  <2>1. out' = out /\ sent' = sent /\ at = "begin"
    BY <1>4 DEF Spawns
  <2>2. out = <<>>
    BY <2>1 DEF CodexInv, Phases
  <2> QED
    BY <2>1, <2>2
<1>5. CASE ~Spawns /\ (Dies \/ UNCHANGED pipe)
  <2>1. out' = out /\ sent' = sent /\ want' = want
    BY <1>5 DEF Dies, pipe
  <2>2. at' = "wait" => at = "wait"
    BY <1>5, AtMoves
  <2> QED
    BY <2>1, <2>2
<1> QED
  BY <1>1, <1>2, <1>3, <1>4, <1>5, Frames DEF Pipes

LEMMA StreamStep ==
  ASSUME CodexInv, TurnNext
  PROVE  Stream'
<1>0. Stream /\ out \in Seq(Wire)
  BY DEF CodexInv, PipeTypes
<1>1. CASE out' = out /\ (at' = "wait" => out = <<>> \/ (at = "wait" /\ want' = want))
  <2>1. out = <<>> => DOMAIN out = {}
    OBVIOUS
  <2> QED
    BY <1>0, <1>1, <2>1 DEF Stream, IsText
<1>2. CASE Responds
  <2>1. PICK ok \in BOOLEAN : out' = Append(out, Msg("response", want, TRUE, ok))
    BY <1>2 DEF Responds
  <2> DEFINE r == Msg("response", want, TRUE, ok)
  <2>2. /\ r \in Wire /\ r.kind = "response" /\ r.id = want /\ ~IsText(r)
        /\ at = "wait" /\ at' = at /\ want' = want
    <3>1. want \in 1..3 /\ at = "wait" /\ at' = at /\ want' = want
      BY <1>2 DEF Responds, CodexInv, Phases, PipeTypes
    <3> QED
      BY <3>1, AnswerIsWire DEF Msg, IsText
  <2> HIDE DEF r
  <2>3. \A i \in DOMAIN out : out[i].kind # "response" /\ ~IsText(out[i])
    <3>1. ~Written("response")
      BY <1>2 DEF Responds
    <3>2. \A i \in DOMAIN out : out[i] \in Wire
      BY <1>0
    <3>3. \A i \in DOMAIN out : out[i].kind # "response"
      BY <3>1, <3>2, MessagesAre DEF Written
    <3> QED
      BY <1>0, <2>2, <3>3 DEF Stream
  <2>4. out' = Append(out, r)
    BY <2>1 DEF r
  <2>5. /\ Len(out) \in Nat /\ DOMAIN out = 1..Len(out) /\ DOMAIN out' = 1..Len(out) + 1
        /\ out'[Len(out) + 1] = r /\ \A i \in 1..Len(out) : out'[i] = out[i]
    BY <1>0, <2>2, <2>4, AppendAt
  <2>6. \A i \in DOMAIN out' : out'[i].kind = "response" => i = Len(out) + 1
    BY <2>3, <2>5
  <2>7. \A i \in DOMAIN out' : ~IsText(out'[i])
    BY <2>2, <2>3, <2>5
  <2> QED
    BY <2>2, <2>5, <2>6, <2>7 DEF Stream, IsText
<1>3. CASE Notifies \/ Requests
  <2>1. PICK m \in Wire : /\ Emits(m) /\ m.kind # "response" /\ (IsText(m) => Running)
    BY <1>3, EmitsAre
  <2>2. out' = Append(out, m) /\ at' = at /\ want' = want
    BY <2>1 DEF Emits
  <2>3. /\ Len(out) \in Nat /\ DOMAIN out = 1..Len(out) /\ DOMAIN out' = 1..Len(out) + 1
        /\ out'[Len(out) + 1] = m /\ \A i \in 1..Len(out) : out'[i] = out[i]
    BY <1>0, <2>2, AppendAt
  <2>4. \A i \in DOMAIN out' : i \notin 1..Len(out) => i = Len(out) + 1
    BY <2>3
  <2>5. ASSUME at = "wait", NEW i \in DOMAIN out', out'[i].kind = "response"
        PROVE  out'[i].id = want /\ \A j \in DOMAIN out' : out'[j].kind = "response" => j = i
    BY <1>0, <2>1, <2>3, <2>4, <2>5 DEF Stream
  <2>6. ASSUME at = "wait", NEW i \in DOMAIN out', IsText(out'[i])
        PROVE  want = 3 /\ \E j \in DOMAIN out' : j < i /\ out'[j].kind = "response"
    <3>1. CASE i \in 1..Len(out)
      <4>1. IsText(out[i])
        BY <2>3, <2>6, <3>1 DEF IsText
      <4>2. want = 3 /\ \E j \in DOMAIN out : j < i /\ out[j].kind = "response"
        BY <1>0, <2>3, <2>6, <3>1, <4>1 DEF Stream
      <4> QED
        BY <2>3, <4>2
    <3>2. CASE i = Len(out) + 1
      <4>1. Running
        BY <2>1, <2>3, <2>6, <3>2 DEF IsText
      <4>2. want = 3 /\ \E j \in DOMAIN out : out[j].kind = "response"
        BY <2>6, <4>1 DEF Running, Written
      <4> QED
        BY <2>3, <3>2, <4>2
    <3> QED
      BY <2>4, <3>1, <3>2
  <2>7. ASSUME NEW i \in DOMAIN out', NEW j \in DOMAIN out', i < j,
               out'[i].kind = "done", out'[i].ours
        PROVE  ~IsText(out'[j])
    <3>1. i \in 1..Len(out) /\ out'[i] = out[i]
      BY <2>3, <2>7
    <3>2. CASE j \in 1..Len(out)
      BY <1>0, <2>3, <2>7, <3>1, <3>2 DEF Stream, IsText
    <3>3. CASE j = Len(out) + 1
      <4>1. Written("done")
        BY <2>3, <2>7, <3>1 DEF Written
      <4>2. ~IsText(m)
        BY <2>1, <4>1 DEF Running
      <4> QED
        BY <2>3, <3>3, <4>2 DEF IsText
    <3> QED
      BY <2>4, <3>2, <3>3
  <2> QED
    BY <2>2, <2>5, <2>6, <2>7 DEF Stream, IsText
<1>4. CASE /\ Awaits \/ CollectsText \/ CollectsEnd \/ CollectsRequest
           /\ out # <<>> /\ Head(out) \in Wire /\ out' = Tail(out)
  <2>1. /\ Len(out) \in Nat /\ Len(out) > 0 /\ DOMAIN out = 1..Len(out)
        /\ DOMAIN out' = 1..Len(out) - 1 /\ Head(out) = out[1]
        /\ \A i \in 1..Len(out) - 1 : out'[i] = out[i + 1] /\ i + 1 \in 1..Len(out)
    BY <1>0, <1>4, TailAt
  <2>2. ASSUME NEW i \in DOMAIN out', NEW j \in DOMAIN out', i < j,
               out'[i].kind = "done", out'[i].ours
        PROVE  ~IsText(out'[j])
    <3>1. out'[i] = out[i + 1] /\ out'[j] = out[j + 1] /\ i + 1 < j + 1
      BY <2>1, <2>2
    <3> QED
      BY <1>0, <2>1, <2>2, <3>1 DEF Stream, IsText
  <2>3. CASE at' = "wait"
    <3>1. Awaits /\ at = "wait"
      BY <1>4, <2>3 DEF CollectsText, CollectsEnd, CollectsRequest, Moves, Concludes, Awaits
    <3>2. \A i \in DOMAIN out : out[i].kind = "response" =>
            out[i].id = want /\ \A j \in DOMAIN out : out[j].kind = "response" => j = i
      BY <1>0, <3>1 DEF Stream
    <3>3. \A i \in DOMAIN out : IsText(out[i]) =>
            want = 3 /\ \E j \in DOMAIN out : j < i /\ out[j].kind = "response"
      BY <1>0, <3>1 DEF Stream
    <3>4. CASE out[1].kind = "response"
      <4>1. \A i \in DOMAIN out' : out'[i].kind # "response"
        BY <2>1, <3>2, <3>4
      <4>2. want < 3 \/ out' = out
        <5>1. 1 \in DOMAIN out /\ Head(out).kind = "response" /\ Head(out).id = want
          BY <2>1, <3>2, <3>4
        <5> QED
          BY <2>3, <3>1, <5>1, AwaitReads
      <4>3. CASE want < 3
        <5>1. ASSUME NEW i \in DOMAIN out', IsText(out'[i])
              PROVE  FALSE
          <6>1. i + 1 \in DOMAIN out /\ IsText(out[i + 1])
            BY <2>1, <5>1 DEF IsText
          <6> QED
            BY <3>3, <4>3, <6>1
        <5> QED
          BY <2>2, <4>1, <5>1 DEF Stream, IsText
      <4>4. CASE out' = out
        BY <2>1, <4>4
      <4> QED
        BY <4>2, <4>3, <4>4
    <3>5. CASE out[1].kind # "response"
      <4>1. want' = want
        BY <2>1, <3>1, <3>5, AwaitReads
      <4>2. ASSUME NEW i \in DOMAIN out', out'[i].kind = "response"
            PROVE  out'[i].id = want /\ \A j \in DOMAIN out' : out'[j].kind = "response" => j = i
        <5>1. \A j \in DOMAIN out' : out'[j].kind = "response" => j + 1 = i + 1
          BY <2>1, <3>2, <4>2
        <5> QED
          BY <2>1, <3>2, <4>2, <5>1
      <4>3. ASSUME NEW i \in DOMAIN out', IsText(out'[i])
            PROVE  want = 3 /\ \E j \in DOMAIN out' : j < i /\ out'[j].kind = "response"
        <5>1. i \in 1..Len(out) - 1 /\ IsText(out[i + 1]) /\ i + 1 \in DOMAIN out
          BY <2>1, <4>3 DEF IsText
        <5>2. PICK j \in DOMAIN out : j < i + 1 /\ out[j].kind = "response"
          BY <3>3, <5>1
        <5>3. j # 1 /\ j - 1 \in DOMAIN out' /\ j - 1 < i /\ out'[j - 1] = out[j]
          BY <2>1, <3>5, <5>1, <5>2
        <5> QED
          BY <3>3, <5>1, <5>2, <5>3
      <4> QED
        BY <2>2, <4>1, <4>2, <4>3 DEF Stream, IsText
    <3> QED
      BY <3>4, <3>5
  <2>4. CASE at' # "wait"
    BY <2>2, <2>4 DEF Stream, IsText
  <2> QED
    BY <2>3, <2>4
<1> QED
  BY <1>1, <1>2, <1>3, <1>4, OutMoves

-----------------------------------------------------------------------------
(* The text of the turn *)

LEMMA AppendToConcat ==
  ASSUME NEW A, NEW r \in Seq(A), NEW u \in Seq(A), NEW x \in A,
         NEW v, v = Append(u, x), NEW w, w = Append(r \o u, x)
  PROVE  w = r \o v
<1>1. v \in Seq(A) /\ Len(v) = Len(u) + 1 /\ v[Len(u) + 1] = x
      /\ \A k \in 1..Len(u) : v[k] = u[k]
  BY AppendAt
<1>2. PICK q : q = r \o u
  OBVIOUS
<1>3. /\ q \in Seq(A) /\ Len(q) = Len(r) + Len(u) /\ Len(r) \in Nat /\ Len(u) \in Nat
      /\ \A k \in 1..Len(q) : q[k] = IF k <= Len(r) THEN r[k] ELSE u[k - Len(r)]
  BY <1>2
<1>4. Len(w) = Len(q) + 1 /\ w[Len(q) + 1] = x /\ \A k \in 1..Len(q) : w[k] = q[k]
  BY <1>2, <1>3, AppendAt
<1>5. \A k \in 1..Len(r) + Len(v) : (r \o v)[k] = IF k <= Len(r) THEN r[k] ELSE v[k - Len(r)]
  BY <1>1
<1>6. \A k \in 1..Len(q) + 1 : k = Len(q) + 1 \/ k \in 1..Len(q)
  <2>1. PICK n \in Nat : n = Len(q)
    BY <1>3
  <2>2. \A k \in 1..n + 1 : k = n + 1 \/ k \in 1..n
    OBVIOUS
  <2> QED
    BY <2>1, <2>2
<1>7. w \in Seq(A) /\ r \o v \in Seq(A)
  BY <1>1
<1>8. Len(w) = Len(r \o v)
  BY <1>1
<1>9. \A k \in 1..Len(w) : w[k] = (r \o v)[k]
  <2>1. w[Len(q) + 1] = (r \o v)[Len(q) + 1]
    <3>1. Len(q) + 1 \in 1..Len(r) + Len(v) /\ ~(Len(q) + 1 <= Len(r))
          /\ Len(q) + 1 - Len(r) = Len(u) + 1
      BY <1>1, <1>3
    <3> QED
      BY <1>1, <1>4, <1>5, <3>1
  <2>2. ASSUME NEW k \in 1..Len(q) PROVE w[k] = (r \o v)[k]
    <3>1. k \in 1..Len(r) + Len(v) /\ (~(k <= Len(r)) => k - Len(r) \in 1..Len(u))
      BY <1>1, <1>3
    <3> QED
      BY <1>1, <1>3, <1>4, <1>5, <3>1
  <2> QED
    BY <1>4, <1>6, <2>1, <2>2
<1> QED
  BY <1>7, <1>8, <1>9, SameSeq

LEMMA FirstToConcat ==
  ASSUME NEW A, NEW r \in Seq(A), NEW u \in Seq(A), NEW x \in A, NEW w, w = <<x>>
  PROVE  r \o (w \o u) = Append(r, x) \o u
<1>0. w \in Seq(A) /\ Len(w) = 1 /\ w[1] = x
  OBVIOUS
<1>1. r \o (w \o u) \in Seq(A) /\ Append(r, x) \o u \in Seq(A)
  BY <1>0
<1>2. Len(r \o (w \o u)) = Len(Append(r, x) \o u)
  BY <1>0
<1>3. \A k \in 1..Len(r \o (w \o u)) : (r \o (w \o u))[k] = (Append(r, x) \o u)[k]
  BY <1>0
<1> QED
  BY <1>1, <1>2, <1>3, SameSeq

LEMMA DataOfIs ==
  ASSUME NEW kind \in {"delta", "item"}, NEW s \in Seq(OurText(kind)), NEW m \in OurText(kind)
  PROVE  /\ DataOf(s) \in Seq(1..MaxMessages) /\ m.data \in 1..MaxMessages
         /\ DataOf(Append(s, m)) = Append(DataOf(s), m.data)
<1>0. \A x \in OurText(kind) : x.data \in 1..MaxMessages
  BY DEF OurText
<1>1. /\ Len(s) \in Nat /\ DOMAIN s = 1..Len(s) /\ \A i \in 1..Len(s) : s[i] \in OurText(kind)
      /\ DOMAIN Append(s, m) = 1..Len(s) + 1 /\ Append(s, m)[Len(s) + 1] = m
      /\ \A i \in 1..Len(s) : Append(s, m)[i] = s[i]
  BY AppendAt
<1>2. DataOf(s) \in Seq(1..MaxMessages) /\ Len(DataOf(s)) = Len(s)
      /\ \A i \in 1..Len(s) : DataOf(s)[i] = s[i].data
  BY <1>0, <1>1 DEF DataOf
<1>3. m.data \in 1..MaxMessages
  BY <1>0
<1> DEFINE a == Append(DataOf(s), m.data)
           b == DataOf(Append(s, m))
<1>4. /\ a \in Seq(1..MaxMessages) /\ Len(a) = Len(s) + 1 /\ a[Len(s) + 1] = m.data
      /\ \A i \in 1..Len(s) : a[i] = s[i].data
  BY <1>2, <1>3
<1>5. /\ DOMAIN b = 1..Len(s) + 1
      /\ b = [i \in 1..Len(s) + 1 |-> Append(s, m)[i].data]
      /\ b[Len(s) + 1] = m.data /\ \A i \in 1..Len(s) : b[i] = s[i].data
  BY <1>1 DEF DataOf
<1>6. \A i \in 1..Len(s) + 1 : i = Len(s) + 1 \/ i \in 1..Len(s)
  BY <1>1
<1>7. \A i \in 1..Len(s) + 1 : b[i] \in 1..MaxMessages /\ a[i] = b[i]
  BY <1>0, <1>1, <1>3, <1>4, <1>5, <1>6
<1> HIDE DEF a, b
<1>8. b \in Seq(1..MaxMessages) /\ Len(b) = Len(s) + 1
  BY <1>1, <1>5, <1>7
<1>9. a = b
  BY <1>4, <1>7, <1>8, SameSeq
<1> QED
  BY <1>2, <1>3, <1>9 DEF a, b

LEMMA DataOfFirst ==
  ASSUME NEW kind \in {"delta", "item"}, NEW s \in Seq(OurText(kind)), NEW m \in OurText(kind),
         NEW w, w = <<m>>, NEW v, v = <<m.data>>
  PROVE  DataOf(w \o s) = v \o DataOf(s)
<1>0. \A x \in OurText(kind) : x.data \in 1..MaxMessages
  BY DEF OurText
<1>1. /\ Len(s) \in Nat /\ DOMAIN s = 1..Len(s) /\ \A i \in 1..Len(s) : s[i] \in OurText(kind)
  OBVIOUS
<1>2. w \in Seq(OurText(kind)) /\ Len(w) = 1 /\ w[1] = m
  OBVIOUS
<1>3. v \in Seq(1..MaxMessages) /\ Len(v) = 1 /\ v[1] = m.data
  BY <1>0
<1>4. DataOf(s) \in Seq(1..MaxMessages) /\ Len(DataOf(s)) = Len(s)
      /\ \A i \in 1..Len(s) : DataOf(s)[i] = s[i].data
  BY <1>0, <1>1 DEF DataOf
<1> DEFINE t == w \o s
           a == v \o DataOf(s)
           b == DataOf(t)
<1>5. /\ t \in Seq(OurText(kind)) /\ Len(t) = Len(s) + 1 /\ DOMAIN t = 1..Len(s) + 1
      /\ t[1] = m /\ \A i \in 1..Len(s) : t[i + 1] = s[i]
  BY <1>1, <1>2
<1>6. /\ a \in Seq(1..MaxMessages) /\ Len(a) = Len(s) + 1 /\ a[1] = m.data
      /\ \A i \in 1..Len(s) : a[i + 1] = s[i].data
  BY <1>1, <1>3, <1>4
<1> HIDE DEF t, a
<1>7. /\ b = [i \in 1..Len(s) + 1 |-> t[i].data] /\ DOMAIN b = 1..Len(s) + 1
      /\ b[1] = m.data /\ \A i \in 1..Len(s) : b[i + 1] = s[i].data
  BY <1>1, <1>5 DEF DataOf
<1>8. \A i \in 1..Len(s) + 1 : i = 1 \/ (i - 1 \in 1..Len(s) /\ i = (i - 1) + 1)
  BY <1>1
<1> HIDE DEF b
<1>9. \A i \in 1..Len(s) + 1 : a[i] = b[i]
  BY <1>6, <1>7, <1>8
<1>10. \A i \in 1..Len(s) + 1 : b[i] \in 1..MaxMessages
  BY <1>1, <1>6, <1>9
<1>11. b \in Seq(1..MaxMessages) /\ Len(b) = Len(s) + 1
  BY <1>1, <1>7, <1>10
<1>12. a = b
  BY <1>6, <1>9, <1>11, SameSeq
<1> QED
  BY <1>12 DEF a, b, t

\* What is not read grows with what the server writes, and shrinks as it is read.
LEMMA UnreadAppend ==
  ASSUME PipeTypes, NEW kind \in {"delta", "item"}, NEW m \in Wire, out' = Append(out, m)
  PROVE  /\ Unread(kind) \in Seq(1..MaxMessages)
         /\ m.kind = kind /\ m.ours => Unread(kind)' = Append(Unread(kind), m.data)
         /\ ~(m.kind = kind /\ m.ours) => Unread(kind)' = Unread(kind)
<1>1. out \in Seq(Wire) /\ (m \in OurText(kind) <=> m.kind = kind /\ m.ours)
  BY MessagesAre DEF PipeTypes
<1> DEFINE S == OurText(kind)
<1>2. Selected(out, S) \in Seq(S)
  <2>1. Selected(out, S) \in Seq(Wire \cap S)
    BY <1>1, SelectedType
  <2> QED
    BY <2>1
<1>3. Selected(Append(out, m), S) = IF m \in S THEN Append(Selected(out, S), m)
                                    ELSE Selected(out, S)
  BY <1>1, SelectedAppend
<1>4. Unread(kind) = DataOf(Selected(out, S)) /\ Unread(kind)' = DataOf(Selected(Append(out, m), S))
  BY DEF Unread
<1>5. CASE m \in S
  <2>1. /\ DataOf(Selected(out, S)) \in Seq(1..MaxMessages)
        /\ DataOf(Append(Selected(out, S), m)) = Append(DataOf(Selected(out, S)), m.data)
    BY <1>2, <1>5, DataOfIs
  <2> QED
    BY <1>1, <1>3, <1>4, <1>5, <2>1
<1>6. CASE m \notin S
  <2>1. \A x \in OurText(kind) : x.data \in 1..MaxMessages
    BY DEF OurText
  <2>2. DataOf(Selected(out, S)) \in Seq(1..MaxMessages)
    BY <1>2, <2>1 DEF DataOf
  <2> QED
    BY <1>1, <1>3, <1>4, <1>6, <2>2
<1> QED
  BY <1>5, <1>6

LEMMA UnreadType ==
  ASSUME PipeTypes, NEW kind \in {"delta", "item"}
  PROVE  Unread(kind) \in Seq(1..MaxMessages)
<1>1. Selected(out, OurText(kind)) \in Seq(OurText(kind))
  <2>1. Selected(out, OurText(kind)) \in Seq(Wire \cap OurText(kind))
    BY SelectedType DEF PipeTypes
  <2> QED
    BY <2>1
<1>2. \A x \in OurText(kind) : x.data \in 1..MaxMessages
  BY DEF OurText
<1> QED
  BY <1>1, <1>2 DEF Unread, DataOf

LEMMA UnreadTail ==
  ASSUME PipeTypes, NEW kind \in {"delta", "item"}, out # <<>>, out' = Tail(out),
         NEW m, m = Head(out), PipeTypes'
  PROVE  /\ ~(m.kind = kind /\ m.ours) => Unread(kind)' = Unread(kind)
         /\ m.kind = kind /\ m.ours =>
              m.data \in 1..MaxMessages
              /\ \A r \in Seq(1..MaxMessages) : r \o Unread(kind) = Append(r, m.data) \o Unread(kind)'
<1>1. /\ out \in Seq(Wire) /\ m \in Wire /\ Tail(out) \in Seq(Wire)
      /\ (m \in OurText(kind) <=> m.kind = kind /\ m.ours)
  <2>1. out \in Seq(Wire) /\ m \in Wire /\ Tail(out) \in Seq(Wire)
    BY TailIs DEF PipeTypes
  <2> QED
    BY <2>1, MessagesAre
<1> DEFINE S == OurText(kind)
           rest == Selected(Tail(out), S)
<1>2. rest \in Seq(S)
  <2>1. rest \in Seq(Wire \cap S)
    BY <1>1, SelectedType
  <2> QED
    BY <2>1
<1>3. Selected(out, S) = (IF m \in S THEN <<m>> ELSE <<>>) \o rest
  BY <1>1, SelectedTail
<1>4. Unread(kind) = DataOf(Selected(out, S)) /\ Unread(kind)' = DataOf(rest)
  BY DEF Unread
<1>5. Unread(kind)' \in Seq(1..MaxMessages)
  <2>1. \A x \in OurText(kind) : x.data \in 1..MaxMessages
    BY DEF OurText
  <2> QED
    BY <1>2, <1>4, <2>1 DEF DataOf
<1> HIDE DEF rest
<1>6. CASE m \in S
  <2>1. PICK w, v : w = <<m>> /\ v = <<m.data>>
    OBVIOUS
  <2>2. DataOf(w \o rest) = v \o DataOf(rest)
    BY <1>2, <1>6, <2>1, DataOfFirst
  <2>3. Unread(kind) = v \o Unread(kind)'
    BY <1>3, <1>4, <1>6, <2>1, <2>2
  <2>4. m.data \in 1..MaxMessages
    BY <1>6 DEF OurText
  <2>5. ASSUME NEW r \in Seq(1..MaxMessages)
        PROVE  r \o (v \o Unread(kind)') = Append(r, m.data) \o Unread(kind)'
    BY <1>5, <2>1, <2>4, FirstToConcat
  <2> QED
    BY <1>1, <1>6, <2>3, <2>4, <2>5
<1>7. CASE m \notin S
  <2>1. <<>> \o rest = rest
    BY <1>2
  <2> QED
    BY <1>1, <1>3, <1>4, <1>7, <2>1
<1> QED
  BY <1>6, <1>7

\* The texts of a kind among those of the turn.
LEMMA SaidIs ==
  ASSUME TextTypes, NEW kind \in {"delta", "item"}
  PROVE  /\ Said(kind) \in Seq(1..MaxMessages)
         /\ \A other \in {"delta", "item"}, n \in 1..MaxMessages :
              said' = Append(said, <<other, n>>) =>
                Said(kind)' = IF other = kind THEN Append(Said(kind), n) ELSE Said(kind)
<1> DEFINE P == {"delta", "item"} \X (1..MaxMessages)
           S == {kind} \X Nat
           of == Selected(said, S)
<1>1. said \in Seq(P)
  BY DEF TextTypes
<1>7. \A x \in P : x[2] \in 1..MaxMessages
  OBVIOUS
<1>8. \A other \in {"delta", "item"}, n \in 1..MaxMessages : \A x : x = <<other, n>> =>
        x \in P /\ (x \in S <=> other = kind) /\ x[2] = n
  OBVIOUS
<1> HIDE DEF P, S
<1>2. of \in Seq(P)
  BY <1>1, SelectedType
<1>4. Said(kind) = [i \in DOMAIN of |-> of[i][2]]
  BY DEF Said, S
<1> HIDE DEF of
<1>3. /\ Len(of) \in Nat /\ DOMAIN of = 1..Len(of)
      /\ \A i \in 1..Len(of) : of[i][2] \in 1..MaxMessages
  <2>1. Len(of) \in Nat /\ DOMAIN of = 1..Len(of) /\ \A i \in 1..Len(of) : of[i] \in P
    BY <1>2
  <2> QED
    BY <1>7, <2>1
<1>5. /\ Said(kind) \in Seq(1..MaxMessages) /\ Len(Said(kind)) = Len(of)
      /\ \A i \in 1..Len(of) : Said(kind)[i] = of[i][2]
  BY <1>3, <1>4
<1>6. ASSUME NEW other \in {"delta", "item"}, NEW n \in 1..MaxMessages,
             said' = Append(said, <<other, n>>)
      PROVE  Said(kind)' = IF other = kind THEN Append(Said(kind), n) ELSE Said(kind)
  <2>1. PICK x : x = <<other, n>>
    OBVIOUS
  <2>2. x \in P /\ (x \in S <=> other = kind) /\ x[2] = n
    BY <2>1, <1>8
  <2>3. Selected(said', S) = IF x \in S THEN Append(of, x) ELSE of
    <3>1. Selected(Append(said, x), S) = IF x \in S THEN Append(Selected(said, S), x)
                                         ELSE Selected(said, S)
      BY <1>1, <2>2, SelectedAppend
    <3> QED
      BY <1>6, <2>1, <3>1 DEF of
  <2>4. PICK q : q = Selected(said', S)
    OBVIOUS
  <2>5. Said(kind)' = [i \in DOMAIN q |-> q[i][2]]
    BY <2>4 DEF Said, S
  <2>6. CASE other = kind
    <3>1. q = Append(of, x)
      BY <2>2, <2>3, <2>4, <2>6
    <3>2. /\ DOMAIN q = 1..Len(of) + 1 /\ q[Len(of) + 1] = x
          /\ \A i \in 1..Len(of) : q[i] = of[i]
      BY <1>2, <2>2, <3>1, AppendAt
    <3> DEFINE a == Append(Said(kind), n)
               b == [i \in 1..Len(of) + 1 |-> q[i][2]]
    <3>3. /\ a \in Seq(1..MaxMessages) /\ Len(a) = Len(of) + 1 /\ a[Len(of) + 1] = n
          /\ \A i \in 1..Len(of) : a[i] = of[i][2]
      BY <1>3, <1>5
    <3>4. \A i \in 1..Len(of) + 1 : i = Len(of) + 1 \/ i \in 1..Len(of)
      BY <1>3
    <3>5. \A i \in 1..Len(of) + 1 : b[i] = a[i]
      BY <1>3, <2>2, <3>2, <3>3, <3>4
    <3>6. \A i \in 1..Len(of) + 1 : a[i] \in 1..MaxMessages
      BY <3>3
    <3> HIDE DEF a
    <3>7. b \in Seq(1..MaxMessages) /\ Len(b) = Len(of) + 1
      BY <1>3, <3>5, <3>6
    <3> HIDE DEF b
    <3>8. a = b
      BY <3>3, <3>5, <3>7, SameSeq
    <3> QED
      BY <2>5, <2>6, <3>2, <3>8 DEF a, b
  <2>7. CASE other # kind
    <3>1. q = of
      BY <2>2, <2>3, <2>4, <2>7
    <3> QED
      BY <1>4, <2>5, <2>7, <3>1
  <2> QED
    BY <2>6, <2>7
<1> QED
  BY <1>5, <1>6

\* A step after which no text was read or written keeps the account of it.
LEMMA TextsStay ==
  ASSUME CodexInv, UNCHANGED <<mode, reply, item, said>>, at # "end",
         \A kind \in {"delta", "item"} : Unread(kind)' = Unread(kind)
  PROVE  Texts'
<1>1. Said("delta")' = Said("delta") /\ Said("item")' = Said("item")
  BY DEF Said
<1>2. Unread("delta")' = Unread("delta") /\ Unread("item")' = Unread("item")
  OBVIOUS
<1>3. Texts
  BY DEF CodexInv
<1> QED
  BY <1>1, <1>2, <1>3 DEF Texts

LEMMA TextsStep ==
  ASSUME CodexInv, TurnNext
  PROVE  Texts'
<1>0. PipeTypes /\ PipeTypes' /\ TextTypes /\ Texts /\ mode' = mode
  BY Frames, PipeTypesStep DEF CodexInv, fixed
<1>1. SUFFICES ASSUME mode = "server", at' # "end" PROVE Texts'
  BY <1>0 DEF Texts
<1>2. at # "end"
  BY <1>1, AtMoves
<1>3. CASE Responds
  <2>1. UNCHANGED <<mode, reply, item, said>> /\ want \in 1..3
    BY <1>3 DEF Responds, text, fixed, CodexInv, Phases, PipeTypes
  <2>2. PICK ok \in BOOLEAN : out' = Append(out, Msg("response", want, TRUE, ok))
    BY <1>3 DEF Responds
  <2>3. Msg("response", want, TRUE, ok) \in Wire
    BY <2>1, AnswerIsWire
  <2>4. Msg("response", want, TRUE, ok).kind = "response"
    BY DEF Msg
  <2>5. \A kind \in {"delta", "item"} : Unread(kind)' = Unread(kind)
    BY <1>0, <2>2, <2>3, <2>4, UnreadAppend
  <2> QED
    BY <1>2, <2>1, <2>5, TextsStay
<1>4. CASE Notifies \/ Requests
  <2>1. PICK m \in Wire :
           /\ Emits(m)
           /\ IsText(m) => said' = Append(said, <<m.kind, m.data>>)
           /\ ~IsText(m) => said' = said
           /\ UNCHANGED <<reply, item>>
    BY <1>4, EmitsAre
  <2>2. out' = Append(out, m)
    BY <2>1 DEF Emits
  <2>3. \A kind \in {"delta", "item"} :
          /\ Unread(kind) \in Seq(1..MaxMessages)
          /\ m.kind = kind /\ m.ours => Unread(kind)' = Append(Unread(kind), m.data)
          /\ ~(m.kind = kind /\ m.ours) => Unread(kind)' = Unread(kind)
    BY <1>0, <2>2, UnreadAppend
  <2>4. CASE ~IsText(m)
    BY <1>0, <1>2, <2>1, <2>3, <2>4, TextsStay DEF IsText
  <2>5. CASE IsText(m)
    <3>1. /\ m.kind \in {"delta", "item"} /\ m.ours /\ m.data \in 1..MaxMessages
          /\ said' = Append(said, <<m.kind, m.data>>)
      BY <2>1, <2>5, MessagesAre DEF IsText
    <3>2. ASSUME NEW kind \in {"delta", "item"}
          PROVE  Said(kind)' = IF m.kind = kind THEN Append(Said(kind), m.data) ELSE Said(kind)
      BY <1>0, <3>1, SaidIs
    <3>3. ASSUME NEW kind \in {"delta", "item"}, NEW r \in Seq(1..MaxMessages),
                 Said(kind) = r \o Unread(kind)
          PROVE  Said(kind)' = r \o Unread(kind)'
      <4>1. Unread(kind) \in Seq(1..MaxMessages) /\ m.data \in 1..MaxMessages
        BY <2>3, <3>1
      <4>2. PICK v, w : v = Append(Unread(kind), m.data) /\ w = Append(r \o Unread(kind), m.data)
        OBVIOUS
      <4>3. w = r \o v
        BY <4>1, <4>2, AppendToConcat
      <4> QED
        BY <2>3, <3>1, <3>2, <3>3, <4>2, <4>3
    <3>4. Said("delta") = reply \o Unread("delta")
      BY <1>0, <1>1, <1>2 DEF Texts
    <3>5. PICK read \in Seq(1..MaxMessages) :
            Said("item") = read \o Unread("item") /\ item = Final(read)
      BY <1>0, <1>1, <1>2 DEF Texts
    <3>6. Said("delta")' = reply' \o Unread("delta")'
      BY <1>0, <2>1, <3>3, <3>4 DEF TextTypes
    <3>7. Said("item")' = read \o Unread("item")' /\ item' = Final(read)
      BY <2>1, <3>3, <3>5
    <3> QED
      BY <3>6, <3>7 DEF Texts
  <2> QED
    BY <2>4, <2>5
<1>5. CASE Awaits
  <2>1. UNCHANGED <<mode, reply, item, said>> /\ at = "wait"
    BY <1>5 DEF Awaits, fixed, text
  <2>2. CASE out' = out
    <3>1. \A kind \in {"delta", "item"} : Unread(kind)' = Unread(kind)
      BY <2>2 DEF Unread
    <3> QED
      BY <1>2, <2>1, <3>1, TextsStay
  <2>3. CASE out # <<>> /\ out' = Tail(out)
    <3>1. out \in Seq(Wire) /\ Stream
      BY DEF CodexInv, PipeTypes
    <3>2. PICK m : m = Head(out)
      OBVIOUS
    <3>3. m = out[1] /\ 1 \in DOMAIN out /\ \A j \in DOMAIN out : ~(j < 1)
      BY <2>3, <3>1, <3>2, TailAt
    <3>4. ~IsText(m)
      BY <2>1, <3>1, <3>3 DEF Stream
    <3>5. \A kind \in {"delta", "item"} : Unread(kind)' = Unread(kind)
      BY <1>0, <2>3, <3>2, <3>4, UnreadTail DEF IsText
    <3> QED
      BY <1>2, <2>1, <3>5, TextsStay
  <2> QED
    BY <1>5, <2>2, <2>3, AwaitReads
<1>6. CASE CollectsEnd
  BY <1>1, <1>6 DEF CollectsEnd, Concludes
<1>7. CASE CollectsRequest
  <2>1. UNCHANGED <<mode, reply, item, said>> /\ at = "collect" /\ Readable /\ Takes
    BY <1>7 DEF CollectsRequest, fixed, text
  <2>2. PICK m : m = NextMessage
    OBVIOUS
  <2>3. m = Head(out) /\ out # <<>> /\ out' = Tail(out)
    BY <2>1, <2>2, CollectReads
  <2>4. m.kind \in {"change", "approval"}
    BY <1>7, <2>2 DEF CollectsRequest
  <2>5. \A kind \in {"delta", "item"} : Unread(kind)' = Unread(kind)
    BY <1>0, <2>3, <2>4, UnreadTail
  <2> QED
    BY <1>2, <2>1, <2>5, TextsStay
<1>8. CASE CollectsText
  <2>1. said' = said /\ at = "collect" /\ Readable /\ Takes
    BY <1>8 DEF CollectsText
  <2>2. PICK m : m = NextMessage
    OBVIOUS
  <2>3. m = Head(out) /\ out # <<>> /\ out' = Tail(out)
    BY <2>1, <2>2, CollectReads
  <2>4. /\ reply' = IF m.kind = "delta" /\ m.ours THEN Append(reply, m.data) ELSE reply
        /\ item' = IF m.kind = "item" /\ m.ours THEN m.data ELSE item
    BY <1>8, <2>2 DEF CollectsText
  <2>5. \A kind \in {"delta", "item"} :
          /\ Said(kind)' = Said(kind)
          /\ ~(m.kind = kind /\ m.ours) => Unread(kind)' = Unread(kind)
          /\ m.kind = kind /\ m.ours =>
               m.data \in 1..MaxMessages
               /\ \A r \in Seq(1..MaxMessages) :
                    r \o Unread(kind) = Append(r, m.data) \o Unread(kind)'
    BY <1>0, <2>1, <2>3, UnreadTail DEF Said
  <2>6. Said("delta") = reply \o Unread("delta") /\ reply \in Seq(1..MaxMessages)
    BY <1>0, <1>1, <1>2 DEF Texts, TextTypes
  <2>7. PICK read \in Seq(1..MaxMessages) :
          Said("item") = read \o Unread("item") /\ item = Final(read)
    BY <1>0, <1>1, <1>2 DEF Texts
  <2>8. Said("delta")' = reply' \o Unread("delta")'
    BY <2>4, <2>5, <2>6
  <2>9. \E more \in Seq(1..MaxMessages) :
          Said("item")' = more \o Unread("item")' /\ item' = Final(more)
    <3>1. CASE m.kind = "item" /\ m.ours
      <4>1. m.data \in 1..MaxMessages /\ Said("item")' = Append(read, m.data) \o Unread("item")'
        BY <2>5, <2>7, <3>1
      <4>2. /\ Append(read, m.data) \in Seq(1..MaxMessages) /\ Append(read, m.data) # <<>>
            /\ Append(read, m.data)[Len(Append(read, m.data))] = m.data
        BY <4>1
      <4>3. Final(Append(read, m.data)) = m.data
        BY <4>2 DEF Final
      <4> QED
        BY <2>4, <3>1, <4>1, <4>2, <4>3
    <3>2. CASE ~(m.kind = "item" /\ m.ours)
      BY <2>4, <2>5, <2>7, <3>2
    <3> QED
      BY <3>1, <3>2
  <2> QED
    BY <2>8, <2>9 DEF Texts
<1>9. CASE ~Pipes /\ ~Watches
  <2>1. out' = out /\ UNCHANGED <<reply, item, said>>
    BY <1>9, Frames DEF pipe, text, Reads2, Pipes
  <2>2. \A kind \in {"delta", "item"} : Unread(kind)' = Unread(kind)
    BY <2>1 DEF Unread
  <2> QED
    BY <1>0, <1>2, <2>1, <2>2, TextsStay
<1>10. CASE Spawns \/ Dies
  <2>1. out' = out /\ UNCHANGED <<reply, item, said>>
    BY <1>10 DEF Spawns, Dies, text
  <2>2. \A kind \in {"delta", "item"} : Unread(kind)' = Unread(kind)
    BY <2>1 DEF Unread
  <2> QED
    BY <1>0, <1>2, <2>1, <2>2, TextsStay
<1>11. CASE Watches
  BY <1>1, <1>11 DEF Watches, CodexInv, Phases
<1> QED
  BY <1>3, <1>4, <1>5, <1>6, <1>7, <1>8, <1>9, <1>10, <1>11 DEF Pipes

-----------------------------------------------------------------------------
(* The transcript *)

\* What the watcher computes from the entries it had not read is what the whole
\* transcript says.
LEMMA ReadIs ==
  ASSUME LiveTypes, Watched, at = "watch", NEW k \in offset..Whole
  PROVE  LastUpTo(k, latest) = LastMessage(k)
<1> DEFINE ns == {i \in offset + 1..k : script[i].kind = "message"}
<1>1. /\ k \in Nat /\ offset \in Nat /\ offset <= k /\ k <= Len(script) /\ Len(script) \in Nat
  BY EntriesAre
<1>2. Before(k) = Before(offset) \cup ns /\ ns \in SUBSET (1..k) /\ Before(k) \in SUBSET (1..k)
  BY <1>1 DEF Before
<1>3. CASE ns = {}
  <2>1. Before(k) = Before(offset)
    BY <1>2, <1>3
  <2> QED
    BY <1>3, <2>1 DEF LastUpTo, LastMessage, Watched
<1>4. CASE ns # {}
  <2> DEFINE a == Newest(ns)
             b == Newest(Before(k))
  <2>1. a \in ns /\ \A j \in ns : j <= a
    BY <1>1, <1>2, <1>4, LastIs
  <2>2. b \in Before(k) /\ \A j \in Before(k) : j <= b
    BY <1>1, <1>2, <1>4, LastIs
  <2> HIDE DEF a, b
  <2>3. a <= b /\ (b \in ns => b <= a)
    BY <1>2, <2>1, <2>2
  <2>4. b \notin ns => b <= offset
    BY <1>1, <1>2, <2>2 DEF Before
  <2>5. a \in Int /\ b \in Int /\ offset < a
    BY <1>1, <1>2, <2>1, <2>2
  <2>6. a = b
    BY <1>1, <2>3, <2>4, <2>5
  <2> QED
    BY <1>2, <1>4, <2>6 DEF LastUpTo, LastMessage, a, b
<1> QED
  BY <1>3, <1>4

LEMMA EndsAre ==
  ASSUME LiveTypes, Watched, at = "watch", NEW k \in offset + 1..Whole
  PROVE  Reply(k) = EndText(k) /\ (SaysEnd(k) <=> IsEnd(k))
<1>1. k \in offset..Whole
  BY EntriesAre
<1>2. LastUpTo(k, latest) = LastMessage(k)
  BY <1>1, ReadIs
<1> QED
  BY <1>2 DEF Reply, EndText, SaysEnd, IsEnd

\* Entries that are added do not change what was read.
LEMMA EntriesStay ==
  ASSUME LiveTypes, NEW m \in Nat, m <= Len(script), \A i \in 1..m : script'[i] = script[i]
  PROVE  /\ LastMessage(m)' = LastMessage(m)
         /\ \A k \in 1..m : IsEnd(k)' = IsEnd(k) /\ EndText(k)' = EndText(k)
<1>1. ASSUME NEW k \in 0..m PROVE LastMessage(k)' = LastMessage(k)
  <2>0. k \in Nat
    OBVIOUS
  <2>1. Before(k)' = Before(k) /\ Before(k) \in SUBSET (1..k)
    BY DEF Before
  <2>2. CASE Before(k) = {}
    BY <2>1, <2>2 DEF LastMessage
  <2>3. CASE Before(k) # {}
    <3> DEFINE b == Newest(Before(k))
    <3>1. b \in Before(k)
      BY <2>0, <2>1, <2>3, LastIs
    <3> HIDE DEF b
    <3>2. script'[b] = script[b]
      BY <2>1, <3>1
    <3> QED
      BY <2>1, <2>3, <3>2 DEF LastMessage, b
  <2> QED
    BY <2>2, <2>3
<1>2. ASSUME NEW k \in 1..m PROVE IsEnd(k)' = IsEnd(k) /\ EndText(k)' = EndText(k)
  <2>1. LastMessage(k)' = LastMessage(k) /\ script'[k] = script[k]
    BY <1>1
  <2> QED
    BY <2>1 DEF IsEnd, EndText
<1> QED
  BY <1>1, <1>2

LEMMA WatchedStep ==
  ASSUME CodexInv, TurnNext
  PROVE  Watched'
<1>0. LiveTypes /\ LiveTypes' /\ Watched /\ offset \in Nat /\ Len(script) \in Nat
      /\ offset <= Len(script)
  <2>1. LiveTypes /\ LiveTypes' /\ Watched
    BY LiveTypesStep DEF CodexInv
  <2> QED
    BY <2>1, EntriesAre DEF LiveTypes
<1>1. SUFFICES ASSUME at' = "watch" PROVE Watched'
  BY DEF Watched
<1>2. CASE AsksDesktop
  <2>1. script' = <<>> /\ half' = FALSE /\ offset' = 0 /\ latest' = Nothing
    BY <1>2 DEF AsksDesktop, CodexInv, Phases
  <2>2. LastMessage(offset)' = Nothing
    BY <2>1 DEF LastMessage, Before
  <2>3. Whole' = 0
    BY <2>1 DEF Whole
  <2> QED
    BY <2>1, <2>2, <2>3 DEF Watched
<1>3. CASE DesktopWrites
  <2>1. at = "watch" /\ offset' = offset /\ latest' = latest
    BY <1>3 DEF DesktopWrites
  <2>2. \/ /\ ~half /\ \E e \in Entry : script' = Append(script, e)
        \/ half /\ half' = FALSE /\ script' = script
    <3>1. ASSUME ~half, Len(script) < MaxEntries
          PROVE  /\ \A kind \in {"message", "complete"} : [kind |-> kind, n |-> Len(script) + 1] \in Entry
                 /\ \A kind \in {"complete", "other"} : [kind |-> kind, n |-> 0] \in Entry
      BY <1>0, <3>1 DEF Entry
    <3> QED
      BY <1>3, <3>1 DEF DesktopWrites
  <2>3. script \in Seq(Entry) /\ half \in BOOLEAN /\ half' \in BOOLEAN
    BY <1>0 DEF LiveTypes
  <2>4. /\ \A i \in 1..offset : script'[i] = script[i]
        /\ offset <= Whole'
    <3>1. CASE ~half
      <4>1. PICK e \in Entry : script' = Append(script, e)
        BY <2>2, <3>1
      <4>2. Len(script') = Len(script) + 1 /\ \A i \in 1..Len(script) : script'[i] = script[i]
        BY <2>3, <4>1
      <4> QED
        BY <1>0, <2>3, <4>2 DEF Whole
    <3>2. CASE half
      BY <1>0, <2>2, <3>2 DEF Whole
    <3> QED
      BY <3>1, <3>2
  <2>5. /\ LastMessage(offset)' = LastMessage(offset)
        /\ \A k \in 1..offset : IsEnd(k)' = IsEnd(k)
    <3>1. PICK m : m = offset
      OBVIOUS
    <3>2. /\ LastMessage(m)' = LastMessage(m)
          /\ \A k \in 1..m : IsEnd(k)' = IsEnd(k)
      BY <1>0, <2>4, <3>1, EntriesStay
    <3>3. LastMessage(offset)' = LastMessage(m)'
      BY <2>1, <3>1 DEF LastMessage, Before
    <3> QED
      BY <3>1, <3>2, <3>3
  <2> QED
    BY <1>0, <2>1, <2>4, <2>5 DEF Watched
<1>4. CASE Watches
  <2>1. /\ at = "watch" /\ Whole > offset /\ {k \in offset + 1..Whole : SaysEnd(k)} = {}
        /\ offset' = Whole /\ latest' = LastUpTo(Whole, latest)
        /\ script' = script /\ half' = half
    BY <1>1, <1>4 DEF Watches, Concludes, Moves
  <2>2. Whole' = Whole /\ Whole \in Nat /\ Whole <= Len(script)
    BY <1>0, <2>1, EntriesAre DEF Whole
  <2>3. PICK m : m = Whole
    OBVIOUS
  <2>4. latest' = LastMessage(m)
    BY <1>0, <2>1, <2>2, <2>3, ReadIs
  <2>5. LastMessage(m) = LastMessage(offset)' /\ \A k : IsEnd(k)' = IsEnd(k)
    BY <2>1, <2>3 DEF LastMessage, Before, IsEnd, EndText
  <2>6. \A k \in 1..m : ~IsEnd(k)
    <3>1. ASSUME NEW k \in offset + 1..Whole PROVE ~IsEnd(k)
      BY <1>0, <2>1, EndsAre
    <3>2. \A k \in 1..offset : ~IsEnd(k)
      BY <1>0, <2>1 DEF Watched
    <3> QED
      BY <1>0, <2>2, <2>3, <3>1, <3>2
  <2> QED
    BY <2>1, <2>2, <2>3, <2>4, <2>5, <2>6 DEF Watched
<1>5. CASE ~AsksDesktop /\ ~DesktopWrites /\ ~Watches
  <2>1. at = "watch"
    BY <1>1, <1>5, AtMoves
  <2>2. UNCHANGED <<script, half, offset, latest>>
    BY <1>5, Frames DEF Watching, RunsOnRunner, live
  <2>3. \A k : LastMessage(k)' = LastMessage(k) /\ IsEnd(k)' = IsEnd(k)
    BY <2>2 DEF LastMessage, Before, IsEnd, EndText
  <2>4. LastMessage(offset)' = LastMessage(offset) /\ Whole' = Whole
    BY <2>2 DEF LastMessage, Before, Whole
  <2> QED
    BY <1>0, <2>1, <2>2, <2>3, <2>4 DEF Watched
<1> QED
  BY <1>2, <1>3, <1>4, <1>5

\* Only three steps end the handler with a reply.
LEMMA EndsWell ==
  ASSUME TurnNext, result' = "ok"
  PROVE  result = "ok" \/ CollectsEnd \/ RunsOnRunner \/ Watches
<1> USE DEF Moves, Concludes
<1>1. CASE \/ Responds \/ Notifies \/ Requests \/ Dies \/ DesktopWrites
           \/ \E v \in {"approved", "denied"} : Presses(v)
  BY <1>1 DEF Responds, Notifies, Requests, Emits, Dies, DesktopWrites, Presses
<1>2. CASE Spawns \/ Awaits \/ CollectsText \/ CollectsRequest \/ ReadsEnd
  BY <1>2 DEF Spawns, Awaits, CollectsText, CollectsRequest, ReadsEnd
<1>3. CASE Approves
  BY <1>3 DEF Approves, Inserts, Sends, Marks, Polls, Lapses, Expires, WriteFails
<1>4. CASE AsksDesktop \/ WatchEnds \/ RunsOut
  BY <1>4 DEF AsksDesktop, Falls, WatchEnds, RunsOut
<1> QED
  BY <1>1, <1>2, <1>3, <1>4 DEF TurnNext, Client, Collects, Desktop

LEMMA WholeStep ==
  ASSUME CodexInv, TurnNext
  PROVE  ReplyIsWhole'
<1>0. PhaseTypes /\ PipeTypes /\ TextTypes /\ Phases /\ Texts /\ Stream /\ ReplyIsWhole
      /\ mode' = mode
  BY Frames DEF CodexInv, RightReply, fixed
<1>1. SUFFICES ASSUME mode = "server", result' = "ok" PROVE ReplyIsWhole'
  BY <1>0 DEF ReplyIsWhole
<1>2. CASE result = "ok"
  <2>1. at = "end"
    BY <1>0, <1>2 DEF PhaseTypes
  <2>2. ~Reads2
    BY <2>1 DEF Reads2, Notifies, Emits, CollectsText, Watches
  <2>3. reply' = reply /\ item' = item /\ said' = said
    BY <2>2, Frames DEF text
  <2>4. Said("delta")' = Said("delta") /\ Said("item")' = Said("item")
    BY <2>3 DEF Said
  <2> QED
    BY <1>0, <1>1, <1>2, <2>3, <2>4 DEF ReplyIsWhole
<1>3. CASE RunsOnRunner \/ Watches
  BY <1>0, <1>1, <1>3 DEF RunsOnRunner, Watches, Phases
<1>4. CASE CollectsEnd
  <2>1. at = "collect" /\ Readable /\ Takes /\ reply' = reply /\ item' = item /\ said' = said
    BY <1>4 DEF CollectsEnd, text
  <2>2. out # <<>> /\ NextMessage = Head(out)
    BY <2>1, CollectReads
  <2>3. Head(out).kind = "done" /\ Head(out).ours
    BY <1>1, <1>4, <2>2 DEF CollectsEnd, Concludes
  <2>4. out \in Seq(Wire) /\ Len(out) \in Nat /\ DOMAIN out = 1..Len(out) /\ Head(out) = out[1]
        /\ 1 \in DOMAIN out
    BY <1>0, <2>2, TailAt DEF PipeTypes
  <2>5. \A i \in DOMAIN out : ~IsText(out[i])
    <3>1. ASSUME NEW i \in DOMAIN out PROVE ~IsText(out[i])
      <4>1. CASE i = 1
        BY <2>3, <2>4, <4>1 DEF IsText
      <4>2. CASE i # 1
        <5>1. 1 < i
          BY <2>4, <4>2
        <5> QED
          BY <1>0, <2>3, <2>4, <5>1 DEF Stream
      <4> QED
        BY <4>1, <4>2
    <3> QED
      BY <3>1
  <2>6. ASSUME NEW kind \in {"delta", "item"} PROVE Unread(kind) = <<>>
    <3>1. \A i \in DOMAIN out : out[i] \in Wire
      BY <2>4
    <3>2. \A i \in DOMAIN out : out[i] \notin OurText(kind)
      BY <2>5, <3>1, MessagesAre DEF IsText
    <3>3. Selected(out, OurText(kind)) = <<>>
      BY <2>4, <3>2, SelectedNone
    <3> QED
      BY <3>3 DEF Unread, DataOf
  <2>7. Said("delta") = reply \o <<>>
    BY <1>0, <1>1, <2>1, <2>6 DEF Texts
  <2>8. PICK read \in Seq(1..MaxMessages) : Said("item") = read \o <<>> /\ item = Final(read)
    BY <1>0, <1>1, <2>1, <2>6 DEF Texts
  <2>9. reply \o <<>> = reply /\ read \o <<>> = read
    BY <1>0 DEF TextTypes
  <2>10. Said("delta")' = Said("delta") /\ Said("item")' = Said("item")
    BY <2>1 DEF Said
  <2> QED
    BY <2>1, <2>7, <2>8, <2>9, <2>10 DEF ReplyIsWhole
<1> QED
  BY <1>1, <1>2, <1>3, <1>4, EndsWell

LEMMA TranscriptStep ==
  ASSUME CodexInv, TurnNext
  PROVE  ReplyOfTranscript'
<1>0. LiveTypes /\ Phases /\ Watched /\ ReplyOfTranscript /\ mode' = mode
  BY Frames DEF CodexInv, RightReply, fixed
<1>1. SUFFICES ASSUME mode = "live", item' # Nothing PROVE ReplyOfTranscript'
  BY <1>0 DEF ReplyOfTranscript
<1>2. CASE Watches
  <2> DEFINE ends == {k \in offset + 1..Whole : SaysEnd(k)}
             k0 == Oldest(ends)
  <2>1. at = "watch" /\ script' = script /\ item = Nothing
    BY <1>0, <1>2 DEF Watches, Phases
  <2>2. ends # {} /\ item' = Reply(k0)
    BY <1>1, <1>2, <2>1 DEF Watches
  <2>3. Whole <= Len(script) /\ Len(script) \in Nat /\ DOMAIN script = 1..Len(script)
        /\ offset \in Nat /\ Whole \in Int
    BY <1>0, EntriesAre
  <2>4. ends \in SUBSET (1..Len(script))
    BY <2>3
  <2>5. k0 \in ends /\ \A j \in ends : k0 <= j
    BY <2>2, <2>3, <2>4, FirstIs
  <2>6. \A k \in offset + 1..Whole : Reply(k) = EndText(k) /\ (SaysEnd(k) <=> IsEnd(k))
    BY <1>0, <2>1, EndsAre
  <2>7. \A k \in 1..offset : ~IsEnd(k)
    BY <1>0, <2>1 DEF Watched
  <2> HIDE DEF k0
  <2>8. k0 \in offset + 1..Whole /\ IsEnd(k0) /\ item' = EndText(k0)
    BY <2>2, <2>5, <2>6
  <2>9. ASSUME NEW j \in DOMAIN script, IsEnd(j) PROVE k0 <= j
    <3>1. CASE j \in 1..offset
      BY <2>7, <2>9, <3>1
    <3>2. CASE j \in offset + 1..Whole
      BY <2>5, <2>6, <2>9, <3>2
    <3>3. CASE j > Whole
      BY <2>3, <2>8, <3>3
    <3> QED
      BY <2>3, <3>1, <3>2, <3>3
  <2>10. \A k : IsEnd(k)' = IsEnd(k) /\ EndText(k)' = EndText(k)
    BY <2>1 DEF IsEnd, EndText, LastMessage, Before
  <2>11. k0 \in DOMAIN script
    BY <2>4, <2>5, <2>3
  <2> QED
    BY <2>1, <2>8, <2>9, <2>10, <2>11 DEF ReplyOfTranscript
<1>3. CASE ~Watches
  <2>1. item' = item
    <3>1. CASE Notifies
      BY <1>0, <1>1, <3>1 DEF Notifies, Emits
    <3>2. CASE CollectsText
      BY <1>0, <1>1, <3>2 DEF CollectsText, Phases
    <3>3. CASE UNCHANGED text
      BY <3>3 DEF text
    <3> QED
      BY <1>3, <3>1, <3>2, <3>3, Frames DEF Reads2
  <2>2. ~DesktopWrites
    BY <1>0, <1>1, <2>1 DEF DesktopWrites, Phases
  <2>3. script' = script
    BY <1>3, <2>2, Frames DEF Watching, AsksDesktop, RunsOnRunner, live
  <2>4. \A k : IsEnd(k)' = IsEnd(k) /\ EndText(k)' = EndText(k)
    BY <2>3 DEF IsEnd, EndText, LastMessage, Before
  <2> QED
    BY <1>0, <1>1, <2>1, <2>3, <2>4 DEF ReplyOfTranscript
<1> QED
  BY <1>2, <1>3

-----------------------------------------------------------------------------
(* The requests of the server and their answers *)

LEMMA RequestIsRead ==
  ASSUME CodexInv, CollectsRequest
  PROVE  /\ out # <<>> /\ out' = Tail(out) /\ sent' = sent /\ at = "collect"
         /\ Head(out) \in Wire /\ IsRequest(Head(out)) /\ UNCHANGED <<perm, verdict>>
         /\ \/ /\ at' = "collect"
               /\ answers' = Append(answers, [id |-> Head(out).id, command |-> "free",
                                              decision |-> "accept"])
            \/ answers' = answers /\ at' = "insert" /\ ask'.id = Head(out).id
            \/ answers' = answers /\ at' = "end"
<1>1. at = "collect" /\ Readable /\ Takes /\ sent' = sent /\ UNCHANGED <<perm, verdict>>
  BY DEF CollectsRequest
<1>2. PICK m : m = NextMessage
  OBVIOUS
<1>3. out # <<>> /\ m = Head(out) /\ m \in Wire /\ out' = Tail(out)
  BY <1>1, <1>2, CollectReads
<1>4. /\ m.kind \in {"change", "approval"}
      /\ \/ Answers(m.id, "free", "accept") /\ at' = "collect"
         \/ ask' = [id |-> m.id, command |-> m.data] /\ at' = "insert" /\ answers' = answers
         \/ at' = "end" /\ answers' = answers
  BY <1>2 DEF CollectsRequest, Moves, Concludes
<1> QED
  BY <1>1, <1>3, <1>4 DEF IsRequest, Answers

\* What the owner's card decides.
LEMMA CardAnswers ==
  ASSUME CodexInv, Polls \/ Expires
  PROVE  /\ at \in {"poll", "expire"} /\ UNCHANGED <<out, sent, ask, verdict>>
         /\ \/ answers' = answers /\ at' = "end"
            \/ /\ at' = "collect"
               /\ \E status : /\ status = "timedout" \/ status = perm.status
                              /\ Answers(ask.id, ask.command, Says(status))
BY DEF Polls, Expires, Moves, Concludes, pipe

LEMMA AnswersElse ==
  ASSUME CodexInv, TurnNext, ~CollectsRequest, ~Polls, ~Expires
  PROVE  answers' = answers /\ ask' = ask /\ (at' \in Putting => at \in Putting)
<1>1. answers' = answers /\ ask' = ask
  BY Frames DEF Asks, asking, Inserts, Sends, Marks, Presses
<1>2. at' \in Putting => at \in Putting
  BY AtMoves DEF Putting
<1> QED
  BY <1>1, <1>2

LEMMA NumberedStep ==
  ASSUME CodexInv, TurnNext
  PROVE  Numbered'
<1>0. /\ Numbered /\ out \in Seq(Wire) /\ answers \in Seq(Answered) /\ ask.id \in Nat
      /\ sent \in Nat /\ \A i \in DOMAIN out : out[i] \in Wire /\ out[i].id \in Nat
      /\ \A k \in DOMAIN answers : answers[k].id \in Nat
  <2>1. Numbered /\ out \in Seq(Wire) /\ answers \in Seq(Answered) /\ ask.id \in Nat
        /\ sent \in Nat
    BY DEF CodexInv, PipeTypes, AskTypes
  <2>2. \A i \in DOMAIN out : out[i] \in Wire
    BY <2>1
  <2>3. \A k \in DOMAIN answers : answers[k].id \in Nat
    <3>1. \A k \in DOMAIN answers : answers[k] \in Answered
      BY <2>1
    <3> QED
      BY <3>1 DEF Answered
  <2> QED
    BY <2>1, <2>2, <2>3, MessagesAre
<1>1. CASE CollectsRequest
  <2>1. PICK h : h = Head(out)
    OBVIOUS
  <2>2. /\ Len(out) \in Nat /\ DOMAIN out = 1..Len(out) /\ DOMAIN out' = 1..Len(out) - 1
        /\ h = out[1] /\ 1 \in DOMAIN out /\ IsRequest(h) /\ sent' = sent
        /\ \A i \in 1..Len(out) - 1 : out'[i] = out[i + 1] /\ i + 1 \in DOMAIN out
    <3>1. out # <<>> /\ out' = Tail(out) /\ sent' = sent /\ IsRequest(h)
      BY <1>1, <2>1, RequestIsRead
    <3> QED
      BY <1>0, <2>1, <3>1, TailAt
  <2>3. /\ h.id \in Nat /\ h.id <= 10 + sent /\ \A k \in DOMAIN answers : answers[k].id < h.id
        /\ \A i \in DOMAIN out' : IsRequest(out'[i]) =>
             /\ out'[i].id <= 10 + sent /\ h.id < out'[i].id
             /\ \A j \in DOMAIN out' : i < j /\ IsRequest(out'[j]) => out'[i].id < out'[j].id
             /\ \A k \in DOMAIN answers : answers[k].id < out'[i].id
    <3>1. h.id \in Nat /\ h.id <= 10 + sent /\ \A k \in DOMAIN answers : answers[k].id < h.id
      BY <1>0, <2>2 DEF Numbered
    <3>2. ASSUME NEW i \in DOMAIN out', IsRequest(out'[i])
          PROVE  /\ out'[i].id <= 10 + sent /\ h.id < out'[i].id
                 /\ \A k \in DOMAIN answers : answers[k].id < out'[i].id
      <4>1. i + 1 \in DOMAIN out /\ IsRequest(out[i + 1]) /\ 1 < i + 1 /\ out'[i] = out[i + 1]
        BY <2>2, <3>2
      <4> QED
        BY <1>0, <2>2, <4>1 DEF Numbered
    <3>3. ASSUME NEW i \in DOMAIN out', NEW j \in DOMAIN out', i < j, IsRequest(out'[i]),
                 IsRequest(out'[j])
          PROVE  out'[i].id < out'[j].id
      <4>1. i + 1 \in DOMAIN out /\ j + 1 \in DOMAIN out /\ i + 1 < j + 1
            /\ out'[i] = out[i + 1] /\ out'[j] = out[j + 1]
        BY <2>2, <3>3
      <4> QED
        BY <1>0, <3>3, <4>1 DEF Numbered
    <3> QED
      BY <3>1, <3>2, <3>3
  <2>4. CASE answers' = answers /\ at' = "insert" /\ ask'.id = h.id
    BY <1>0, <2>2, <2>3, <2>4 DEF Numbered, IsRequest
  <2>5. CASE answers' = answers /\ at' = "end"
    BY <1>0, <2>2, <2>3, <2>5 DEF Numbered, IsRequest, Putting
  <2>6. CASE /\ at' = "collect"
             /\ answers' = Append(answers, [id |-> h.id, command |-> "free", decision |-> "accept"])
    <3>1. PICK a : a = [id |-> h.id, command |-> "free", decision |-> "accept"]
      OBVIOUS
    <3>2. a \in Answered /\ a.id = h.id
      BY <2>3, <3>1 DEF Answered, Command
    <3>3. /\ DOMAIN answers' = 1..Len(answers) + 1 /\ answers'[Len(answers) + 1] = a
          /\ \A k \in 1..Len(answers) : answers'[k] = answers[k]
          /\ DOMAIN answers = 1..Len(answers) /\ Len(answers) \in Nat
      BY <1>0, <2>6, <3>1, <3>2, AppendAt
    <3>4. ASSUME NEW k \in DOMAIN answers'
          PROVE  answers'[k].id <= 10 + sent /\ answers'[k].id <= h.id /\ answers'[k].id \in Nat
      <4>1. CASE k = Len(answers) + 1
        BY <2>3, <3>2, <3>3, <4>1
      <4>2. CASE k \in DOMAIN answers
        BY <1>0, <2>3, <3>3, <4>2 DEF Numbered
      <4> QED
        BY <3>3, <4>1, <4>2
    <3>5. ASSUME NEW i \in DOMAIN out', IsRequest(out'[i])
          PROVE  out'[i].id \in Nat
      BY <1>0, <2>2
    <3>6. at' \notin Putting
      BY <2>6 DEF Putting
    <3>7. ASSUME NEW i \in DOMAIN out', IsRequest(out'[i]), NEW k \in DOMAIN answers'
          PROVE  answers'[k].id < out'[i].id
      BY <2>3, <3>4, <3>5, <3>7
    <3> QED
      BY <2>2, <2>3, <3>4, <3>6, <3>7 DEF Numbered, IsRequest
  <2> QED
    BY <1>1, <2>1, <2>4, <2>5, <2>6, RequestIsRead
<1>2. CASE Polls \/ Expires
  <2>1. at \in Putting /\ at' \notin Putting /\ UNCHANGED <<out, sent, ask>>
    BY <1>2, CardAnswers DEF Putting
  <2>2. CASE answers' = answers
    BY <1>0, <2>1, <2>2 DEF Numbered, IsRequest
  <2>3. CASE \E status : Answers(ask.id, ask.command, Says(status))
    <3>1. PICK a : answers' = Append(answers, a) /\ a.id = ask.id /\ a \in Answered
      <4>1. PICK status : Answers(ask.id, ask.command, Says(status))
        BY <2>3
      <4>2. PICK a : a = [id |-> ask.id, command |-> ask.command, decision |-> Says(status)]
        OBVIOUS
      <4>3. Says(status) \in {"accept", "decline"}
        BY DEF Says
      <4>4. a \in Answered /\ a.id = ask.id
        BY <4>2, <4>3 DEF Answered, CodexInv, AskTypes
      <4> QED
        BY <4>1, <4>2, <4>4 DEF Answers
    <3>2. /\ DOMAIN answers' = 1..Len(answers) + 1 /\ answers'[Len(answers) + 1] = a
          /\ \A k \in 1..Len(answers) : answers'[k] = answers[k]
          /\ DOMAIN answers = 1..Len(answers) /\ Len(answers) \in Nat
      BY <1>0, <3>1, AppendAt
    <3>3. ASSUME NEW k \in DOMAIN answers'
          PROVE  /\ answers'[k].id <= 10 + sent
                 /\ \A i \in DOMAIN out : IsRequest(out[i]) => answers'[k].id < out[i].id
      <4>1. CASE k = Len(answers) + 1
        BY <1>0, <2>1, <3>1, <3>2, <4>1 DEF Numbered
      <4>2. CASE k \in DOMAIN answers
        BY <1>0, <3>2, <4>2 DEF Numbered
      <4> QED
        BY <3>2, <4>1, <4>2
    <3> QED
      BY <1>0, <2>1, <3>3 DEF Numbered, IsRequest
  <2> QED
    BY <1>2, <2>2, <2>3, CardAnswers
<1>3. CASE ~CollectsRequest /\ ~Polls /\ ~Expires
  <2>1. answers' = answers /\ ask' = ask /\ (at' \in Putting => at \in Putting)
    BY <1>3, AnswersElse
  <2>2. CASE out' = out /\ sent' = sent
    BY <1>0, <2>1, <2>2 DEF Numbered, IsRequest
  <2>3. ASSUME NEW m \in Wire, out' = Append(out, m), sent' \in {sent, sent + 1},
               IsRequest(m) => m.id = 11 + sent /\ sent' = sent + 1
        PROVE  Numbered'
    <3>1. /\ DOMAIN out' = 1..Len(out) + 1 /\ out'[Len(out) + 1] = m
          /\ \A i \in 1..Len(out) : out'[i] = out[i]
          /\ DOMAIN out = 1..Len(out) /\ Len(out) \in Nat
      BY <1>0, <2>3, AppendAt
    <3>2. \A i \in DOMAIN out' : i = Len(out) + 1 \/ (i \in DOMAIN out /\ out'[i] = out[i])
      BY <3>1
    <3>3. ASSUME NEW i \in DOMAIN out', IsRequest(out'[i])
          PROVE  /\ out'[i].id <= 10 + sent'
                 /\ \A k \in DOMAIN answers : answers[k].id < out'[i].id
                 /\ at' \in Putting => ask.id < out'[i].id
      <4>1. CASE i = Len(out) + 1
        <5>1. out'[i].id = 11 + sent /\ sent' = sent + 1
          BY <2>3, <3>1, <3>3, <4>1
        <5>2. /\ \A k \in DOMAIN answers : answers[k].id <= 10 + sent /\ answers[k].id \in Nat
              /\ at \in Putting => ask.id <= 10 + sent
          BY <1>0 DEF Numbered
        <5> QED
          BY <1>0, <2>1, <5>1, <5>2
      <4>2. CASE i \in DOMAIN out /\ out'[i] = out[i]
        <5>1. /\ out[i].id <= 10 + sent /\ out[i].id \in Nat
              /\ \A k \in DOMAIN answers : answers[k].id < out[i].id
              /\ at \in Putting => ask.id < out[i].id
          BY <1>0, <3>3, <4>2 DEF Numbered
        <5> QED
          BY <1>0, <2>1, <2>3, <4>2, <5>1
      <4> QED
        BY <3>2, <4>1, <4>2
    <3>4. ASSUME NEW i \in DOMAIN out', NEW j \in DOMAIN out', i < j, IsRequest(out'[i]),
                 IsRequest(out'[j])
          PROVE  out'[i].id < out'[j].id
      <4>1. i \in DOMAIN out /\ out'[i] = out[i]
        BY <3>1, <3>2, <3>4
      <4>2. CASE j = Len(out) + 1
        <5>1. out'[j].id = 11 + sent
          BY <2>3, <3>1, <3>4, <4>2
        <5>2. out[i].id <= 10 + sent
          BY <1>0, <3>4, <4>1 DEF Numbered
        <5> QED
          BY <1>0, <4>1, <5>1, <5>2
      <4>3. CASE j \in DOMAIN out /\ out'[j] = out[j]
        BY <1>0, <3>4, <4>1, <4>3 DEF Numbered
      <4> QED
        BY <3>2, <4>2, <4>3
    <3>5. ASSUME NEW k \in DOMAIN answers
          PROVE  answers[k].id <= 10 + sent' /\ (at' \in Putting => answers[k].id < ask.id)
      BY <1>0, <2>1, <2>3 DEF Numbered
    <3>6. at' \in Putting => ask.id <= 10 + sent'
      BY <1>0, <2>1, <2>3 DEF Numbered
    <3> QED
      BY <2>1, <3>3, <3>4, <3>5, <3>6 DEF Numbered, IsRequest
  <2>4. CASE Responds
    <3>1. sent' = sent /\ want \in 1..3
      BY <2>4 DEF Responds, CodexInv, Phases, PipeTypes
    <3>2. PICK ok \in BOOLEAN : out' = Append(out, Msg("response", want, TRUE, ok))
      BY <2>4 DEF Responds
    <3>3. Msg("response", want, TRUE, ok) \in Wire /\ ~IsRequest(Msg("response", want, TRUE, ok))
      BY <3>1, AnswerIsWire DEF Msg, IsRequest
    <3> QED
      BY <2>3, <3>1, <3>2, <3>3
  <2>5. CASE Notifies \/ Requests
    <3>1. PICK m \in Wire : Emits(m) /\ (IsRequest(m) => m.id = 11 + sent)
      BY <2>5, EmitsAre
    <3>2. out' = Append(out, m) /\ sent' = sent + 1
      BY <3>1 DEF Emits
    <3> QED
      BY <2>3, <3>1, <3>2
  <2>6. CASE out # <<>> /\ out' = Tail(out) /\ sent' = sent
    <3>1. /\ Len(out) \in Nat /\ DOMAIN out = 1..Len(out) /\ DOMAIN out' = 1..Len(out) - 1
          /\ \A i \in 1..Len(out) - 1 : out'[i] = out[i + 1] /\ i + 1 \in DOMAIN out
      BY <1>0, <2>6, TailAt
    <3>2. ASSUME NEW i \in DOMAIN out', IsRequest(out'[i])
          PROVE  /\ out'[i].id <= 10 + sent
                 /\ \A k \in DOMAIN answers : answers[k].id < out'[i].id
                 /\ at' \in Putting => ask.id < out'[i].id
      BY <1>0, <2>1, <3>1, <3>2 DEF Numbered
    <3>3. ASSUME NEW i \in DOMAIN out', NEW j \in DOMAIN out', i < j, IsRequest(out'[i]),
                 IsRequest(out'[j])
          PROVE  out'[i].id < out'[j].id
      <4>1. i + 1 \in DOMAIN out /\ j + 1 \in DOMAIN out /\ i + 1 < j + 1
            /\ out'[i] = out[i + 1] /\ out'[j] = out[j + 1]
        BY <3>1, <3>3
      <4> QED
        BY <1>0, <3>3, <4>1 DEF Numbered
    <3> QED
      BY <1>0, <2>1, <2>6, <3>2, <3>3 DEF Numbered, IsRequest
  <2> QED
    BY <2>2, <2>4, <2>5, <2>6, OutMoves
<1> QED
  BY <1>1, <1>2, <1>3

\* What the owner said stays said.
LEMMA VerdictsStay ==
  ASSUME CodexInv, TurnNext, NEW x, \E j \in DOMAIN verdict : verdict[j] = x
  PROVE  \E j \in DOMAIN verdict' : verdict'[j] = x
<1>1. verdict \in Seq(Nat \X {"approved", "denied"}) /\ perm.id \in Nat
  BY DEF CodexInv, AskTypes, Perm
<1>2. CASE verdict' = verdict
  BY <1>2
<1>3. CASE \E v \in {"approved", "denied"} : Presses(v)
  <2>1. PICK v \in {"approved", "denied"} : Presses(v)
    BY <1>3
  <2>2. PICK w : w = <<perm.id, v>> /\ w \in Nat \X {"approved", "denied"}
    <3>1. <<perm.id, v>> \in Nat \X {"approved", "denied"}
      BY <1>1
    <3> QED
      BY <3>1, Zenon
  <2>3. verdict' = Append(verdict, w)
    BY <2>1, <2>2 DEF Presses
  <2>4. \A j \in DOMAIN verdict : j \in DOMAIN verdict' /\ verdict'[j] = verdict[j]
    BY <1>1, <2>2, <2>3, AppendAt
  <2> QED
    BY <2>4
<1> QED
  BY <1>2, <1>3, Frames
     DEF Asks, asking, CollectsRequest, Inserts, Sends, Marks, Polls, Expires

LEMMA InsertStays ==
  ASSUME CodexInv, TurnNext, at = "insert"
  PROVE  Inserts \/ at' \in {"insert", "end"}
<1> USE DEF Moves, Concludes
<1>1. CASE \/ Responds \/ Notifies \/ Requests \/ Dies \/ DesktopWrites
           \/ \E v \in {"approved", "denied"} : Presses(v)
  BY <1>1 DEF Responds, Notifies, Requests, Emits, Dies, DesktopWrites, Presses
<1>2. CASE Spawns \/ Awaits \/ Collects \/ Desktop \/ RunsOut
  BY <1>2 DEF Spawns, Awaits, Collects, CollectsText, CollectsEnd, CollectsRequest, ReadsEnd,
              Desktop, AsksDesktop, RunsOnRunner, Watches, WatchEnds, RunsOut
<1>3. CASE Approves
  BY <1>3 DEF Approves, Inserts, Sends, Marks, Polls, Lapses, Expires, WriteFails
<1> QED
  BY <1>1, <1>2, <1>3 DEF TurnNext, Client

LEMMA PutStep ==
  ASSUME CodexInv, TurnNext
  PROVE  Put'
<1>0. Put /\ perm \in Perm /\ ask.id \in Nat /\ verdict \in Seq(Nat \X {"approved", "denied"})
  BY DEF CodexInv, AskTypes
<1>1. ASSUME perm' = perm, ask' = ask,
             at' \in Putting \ {"insert"} => at \in Putting \ {"insert"}
      PROVE  Put'
  <2>1. perm.status = "approved" =>
          \E j \in DOMAIN verdict' : verdict'[j] = <<perm.id, "approved">>
    BY <1>0, VerdictsStay DEF Put
  <2> QED
    BY <1>0, <1>1, <2>1 DEF Put
<1>2. CASE CollectsRequest
  <2>1. perm' = perm /\ verdict' = verdict /\ at' \notin Putting \ {"insert"}
    BY <1>2, RequestIsRead DEF Putting
  <2> QED
    BY <1>0, <2>1 DEF Put
<1>3. CASE Inserts
  <2>1. /\ ask' = ask
        /\ \/ /\ perm' = [id |-> ask.id, status |-> "pending", card |-> FALSE]
           \/ perm' = perm /\ at' = "end" /\ verdict' = verdict
    BY <1>3 DEF Inserts, Concludes
  <2>2. CASE perm' = [id |-> ask.id, status |-> "pending", card |-> FALSE]
    BY <2>1, <2>2 DEF Put
  <2>3. CASE perm' = perm /\ at' = "end"
    BY <1>1, <2>1, <2>3 DEF Putting
  <2> QED
    BY <2>1, <2>2, <2>3
<1>4. CASE Sends \/ Marks \/ Polls \/ Expires
  <2>1. /\ at \in Putting \ {"insert"} /\ ask' = ask /\ verdict' = verdict
        /\ perm' \in {perm, [perm EXCEPT !.card = TRUE], [perm EXCEPT !.status = "sent"],
                      [perm EXCEPT !.status = "timedout"]}
    BY <1>4 DEF Sends, Marks, Polls, Expires, Expired, Putting
  <2>2. /\ perm'.id = perm.id /\ perm'.status \in {perm.status, "sent", "timedout"}
    BY <1>0, <2>1 DEF Perm
  <2> QED
    BY <1>0, <2>1, <2>2 DEF Put
<1>5. CASE \E v \in {"approved", "denied"} : Presses(v)
  <2>1. PICK v \in {"approved", "denied"} : Presses(v)
    BY <1>5
  <2>2. /\ at' = at /\ ask' = ask /\ perm'.id = perm.id /\ perm'.status = v
    BY <1>0, <2>1 DEF Presses, Perm
  <2>3. PICK w : w = <<perm.id, v>> /\ w \in Nat \X {"approved", "denied"}
    <3>1. <<perm.id, v>> \in Nat \X {"approved", "denied"}
      BY <1>0 DEF Perm
    <3> QED
      BY <3>1, Zenon
  <2>4. verdict' = Append(verdict, w)
    BY <2>1, <2>3 DEF Presses
  <2>5. Len(verdict) + 1 \in DOMAIN verdict' /\ verdict'[Len(verdict) + 1] = w
    BY <1>0, <2>3, <2>4, AppendAt
  <2>6. v = "approved" => \E j \in DOMAIN verdict' : verdict'[j] = <<perm.id, "approved">>
    BY <2>3, <2>5
  <2> QED
    BY <1>0, <2>2, <2>6 DEF Put
<1>6. CASE ~Asks
  <2>1. perm' = perm /\ ask' = ask
    BY <1>6, Frames DEF asking
  <2>2. at' \in Putting \ {"insert"} => at \in Putting \ {"insert"}
    <3>1. ~(Inserts \/ Sends \/ Marks \/ Polls \/ Expires)
      BY <1>6 DEF Asks
    <3>2. at = "insert" => at' \in {"insert", "end"}
      BY <3>1, InsertStays
    <3>3. at' \in Putting \ {"insert"} => at \in Putting
      BY AtMoves DEF Putting
    <3> QED
      BY <3>2, <3>3 DEF Putting
  <2> QED
    BY <1>1, <2>1, <2>2
<1> QED
  BY <1>2, <1>3, <1>4, <1>5, <1>6 DEF Asks

LEMMA OwnerStep ==
  ASSUME CodexInv, TurnNext
  PROVE  OwnerDecides'
<1>0. /\ DestructiveNeedsYes /\ AnsweredInOrder /\ Numbered /\ Put
      /\ answers \in Seq(Answered) /\ perm \in Perm /\ ask \in [id : Nat, command : Command]
      /\ out \in Seq(Wire)
  BY DEF CodexInv, OwnerDecides, AskTypes, PipeTypes
<1>1. ASSUME NEW k \in DOMAIN answers, answers[k].command = "destructive",
             answers[k].decision = "accept"
      PROVE  \E j \in DOMAIN verdict' : verdict'[j] = <<answers[k].id, "approved">>
  <2>1. \E j \in DOMAIN verdict : verdict[j] = <<answers[k].id, "approved">>
    BY <1>0, <1>1 DEF DestructiveNeedsYes
  <2> QED
    BY <2>1, VerdictsStay
<1>2. CASE answers' = answers
  BY <1>0, <1>1, <1>2 DEF OwnerDecides, DestructiveNeedsYes, AnsweredInOrder
<1>3. ASSUME NEW a \in Answered, answers' = Append(answers, a),
             \A k \in DOMAIN answers : answers[k].id < a.id,
             a.command = "destructive" /\ a.decision = "accept" =>
               \E j \in DOMAIN verdict' : verdict'[j] = <<a.id, "approved">>
      PROVE  OwnerDecides'
  <2>1. /\ DOMAIN answers' = 1..Len(answers) + 1 /\ answers'[Len(answers) + 1] = a
        /\ \A k \in 1..Len(answers) : answers'[k] = answers[k]
        /\ DOMAIN answers = 1..Len(answers) /\ Len(answers) \in Nat
    BY <1>0, <1>3, AppendAt
  <2>2. \A k \in DOMAIN answers' :
          \/ k = Len(answers) + 1 /\ answers'[k] = a
          \/ k \in DOMAIN answers /\ answers'[k] = answers[k]
    BY <2>1
  <2>3. DestructiveNeedsYes'
    BY <1>1, <1>3, <2>2 DEF DestructiveNeedsYes
  <2>4. ASSUME NEW k \in DOMAIN answers', NEW l \in DOMAIN answers', k < l
        PROVE  answers'[k].id < answers'[l].id
    <3>1. k \in DOMAIN answers /\ answers'[k] = answers[k]
      BY <2>1, <2>2, <2>4
    <3>2. CASE l \in DOMAIN answers /\ answers'[l] = answers[l]
      BY <1>0, <2>4, <3>1, <3>2 DEF AnsweredInOrder
    <3>3. CASE answers'[l] = a
      BY <1>3, <3>1, <3>3
    <3> QED
      BY <2>2, <3>2, <3>3
  <2> QED
    BY <2>3, <2>4 DEF OwnerDecides, AnsweredInOrder
<1>4. CASE CollectsRequest
  <2>1. PICK h : h = Head(out)
    OBVIOUS
  <2>2. h \in Wire /\ IsRequest(h) /\ out # <<>>
    BY <1>4, <2>1, RequestIsRead
  <2>3. h.id \in Nat /\ \A k \in DOMAIN answers : answers[k].id < h.id
    <3>1. h = out[1] /\ 1 \in DOMAIN out
      BY <1>0, <2>1, <2>2, TailAt
    <3> QED
      BY <1>0, <2>2, <3>1, MessagesAre DEF Numbered
  <2>4. CASE answers' = Append(answers, [id |-> h.id, command |-> "free", decision |-> "accept"])
    <3>1. PICK a : a = [id |-> h.id, command |-> "free", decision |-> "accept"]
      OBVIOUS
    <3>2. a \in Answered /\ a.id = h.id /\ a.command = "free"
      BY <2>3, <3>1 DEF Answered, Command
    <3> QED
      BY <1>3, <2>3, <2>4, <3>1, <3>2
  <2> QED
    BY <1>2, <1>4, <2>1, <2>4, RequestIsRead
<1>5. CASE Polls \/ Expires
  <2>1. at \in {"poll", "expire"} /\ verdict' = verdict
    BY <1>5, CardAnswers
  <2>2. \A k \in DOMAIN answers : answers[k].id < ask.id
    BY <1>0, <2>1 DEF Numbered, Putting
  <2>3. perm.id = ask.id
    BY <1>0, <2>1 DEF Put, Putting
  <2>4. ASSUME NEW status, Answers(ask.id, ask.command, Says(status)),
               status \in {"approved", "denied", "timedout"},
               status = "approved" => perm.status = "approved"
        PROVE  OwnerDecides'
    <3>1. PICK a : a = [id |-> ask.id, command |-> ask.command, decision |-> Says(status)]
      OBVIOUS
    <3>2. Says(status) \in {"accept", "decline"}
      BY DEF Says
    <3>3. /\ a \in Answered /\ a.id = ask.id /\ a.command = ask.command
          /\ a.decision = Says(status) /\ answers' = Append(answers, a)
      BY <1>0, <2>4, <3>1, <3>2 DEF Answered, Answers
    <3>4. a.command = "destructive" /\ a.decision = "accept" => perm.status = "approved"
      BY <2>4, <3>3 DEF Says
    <3>5. perm.status = "approved" =>
            \E j \in DOMAIN verdict' : verdict'[j] = <<a.id, "approved">>
      BY <1>0, <2>1, <2>3, <3>3 DEF Put
    <3> QED
      BY <1>3, <2>2, <3>3, <3>4, <3>5
  <2>5. CASE Polls
    <3>1. /\ at = "poll" /\ perm.status \notin Open
          /\ Answers(ask.id, ask.command, Says(perm.status))
      BY <2>5 DEF Polls
    <3>2. perm.status \in {"approved", "denied", "timedout"}
      BY <1>0, <3>1 DEF Put, Putting, Perm, Open
    <3> QED
      BY <2>4, <3>1, <3>2
  <2>6. CASE Expires
    <3>1. answers' = answers \/ Answers(ask.id, ask.command, Says("timedout"))
      BY <2>6 DEF Expires
    <3> QED
      BY <1>2, <2>4, <3>1
  <2> QED
    BY <1>5, <2>5, <2>6
<1> QED
  BY <1>2, <1>4, <1>5, AnswersElse

-----------------------------------------------------------------------------
(* The invariant, and what it says *)

LEMMA CodexInitially == TurnInit => CodexInv
<1> SUFFICES ASSUME TurnInit PROVE CodexInv
  OBVIOUS
<1> USE DEF TurnInit
<1>1. PhaseTypes /\ Phases /\ Runs /\ PutBack /\ Stream
  BY DEF PhaseTypes, Phases, Runs, PromptRunsOnce, PutBack, Stream, Putting
<1>2. PipeTypes /\ AskTypes /\ TextTypes /\ LiveTypes
  <2>1. \A S : <<>> \in Seq(S)
    OBVIOUS
  <2>2. NoAsk \in [id : Nat, command : Command] /\ NoPerm \in Perm
    BY DEF NoAsk, NoPerm, Perm, Open, Command
  <2>3. PipeTypes
    <3>1. out \in Seq(Wire) /\ backlog \in Seq(Wire)
      BY <2>1
    <3>2. closed \in BOOLEAN
      OBVIOUS
    <3>3. want \in 0..3 /\ sent \in 0..MaxMessages
      OBVIOUS
    <3> QED
      BY <3>1, <3>2, <3>3 DEF PipeTypes
  <2>4. AskTypes
    BY <2>1, <2>2 DEF AskTypes
  <2>5. TextTypes
    BY <2>1 DEF TextTypes, Nothing
  <2>6. LiveTypes
    <3>1. script \in Seq(Entry)
      BY <2>1
    <3>2. lost \in BOOLEAN /\ half \in BOOLEAN
      OBVIOUS
    <3>3. Len(script) = 0 /\ starts \in 0..2 /\ offset = 0 /\ latest \in Nat
      BY DEF Nothing
    <3> QED
      BY <3>1, <3>2, <3>3 DEF LiveTypes
  <2> QED
    BY <2>3, <2>4, <2>5, <2>6
<1>3. Texts
  <2>1. ASSUME NEW kind \in {"delta", "item"} PROVE Unread(kind) = <<>> /\ Said(kind) = <<>>
    <3>1. \A S : Selected(<<>>, S) = <<>>
      <4>1. PICK e : e = <<>>
        OBVIOUS
      <4>2. e \in Seq({}) /\ DOMAIN e = {}
        BY <4>1
      <4>3. \A S : Selected(e, S) = <<>>
        BY <4>2, SelectedNone
      <4> QED
        BY <4>1, <4>3
    <3>2. Unread(kind) = DataOf(<<>>)
      BY <3>1 DEF Unread
    <3>3. Said(kind) = [i \in DOMAIN <<>> |-> (<<>>)[i][2]]
      BY <3>1 DEF Said
    <3>4. DataOf(<<>>) = <<>>
      BY DEF DataOf
    <3>5. [i \in DOMAIN <<>> |-> (<<>>)[i][2]] = <<>>
      OBVIOUS
    <3> QED
      BY <3>2, <3>3, <3>4, <3>5
  <2>2. <<>> \o <<>> = <<>> /\ Final(<<>>) = Nothing /\ <<>> \in Seq(1..MaxMessages)
    BY DEF Final
  <2> QED
    BY <2>1, <2>2 DEF Texts
<1>4. Numbered /\ Put /\ Watched
  BY DEF Numbered, Put, Watched, NoPerm, Putting
<1>5. OwnerDecides /\ RightReply
  BY DEF OwnerDecides, DestructiveNeedsYes, AnsweredInOrder, RightReply, ReplyIsWhole,
         ReplyOfTranscript, Nothing
<1> QED
  BY <1>1, <1>2, <1>3, <1>4, <1>5 DEF CodexInv

LEMMA CodexStep == CodexInv /\ [TurnNext]_tvars => CodexInv'
<1>1. CodexInv /\ TurnNext => CodexInv'
  <2> SUFFICES ASSUME CodexInv, TurnNext PROVE CodexInv'
    OBVIOUS
  <2>1. PhaseTypes' /\ PipeTypes' /\ AskTypes' /\ TextTypes' /\ LiveTypes'
    BY PhaseTypesStep, PipeTypesStep, AskTypesStep, TextTypesStep, LiveTypesStep
  <2>2. Phases' /\ Runs' /\ PutBack' /\ Stream' /\ Texts' /\ Numbered' /\ Put' /\ Watched'
    BY PhasesStep, RunsStep, PutBackStep, StreamStep, TextsStep, NumberedStep, PutStep,
       WatchedStep
  <2>3. OwnerDecides' /\ RightReply'
    BY OwnerStep, WholeStep, TranscriptStep DEF RightReply
  <2> QED
    BY <2>1, <2>2, <2>3 DEF CodexInv
<1>2. CodexInv /\ UNCHANGED tvars => CodexInv'
  <2> SUFFICES ASSUME CodexInv, UNCHANGED tvars PROVE CodexInv'
    OBVIOUS
  <2> USE DEF tvars, fixed, pipe, asking, text, live
  <2>1. PhaseTypes' /\ PipeTypes' /\ AskTypes' /\ TextTypes' /\ LiveTypes'
    BY DEF CodexInv, PhaseTypes, PipeTypes, AskTypes, TextTypes, LiveTypes
  <2>2. Phases' /\ Runs' /\ PutBack' /\ Stream' /\ Numbered' /\ Put'
    BY DEF CodexInv, Phases, Runs, PromptRunsOnce, PutBack, Stream, IsText, IsRequest, Numbered,
           Put
  <2>3. \A kind : Unread(kind)' = Unread(kind) /\ Said(kind)' = Said(kind)
    BY DEF Unread, Said
  <2>4. Texts'
    BY <2>3 DEF CodexInv, Texts
  <2>5. \A k : LastMessage(k)' = LastMessage(k) /\ IsEnd(k)' = IsEnd(k) /\ EndText(k)' = EndText(k)
    BY DEF LastMessage, Before, IsEnd, EndText
  <2>6. LastMessage(offset)' = LastMessage(offset) /\ Whole' = Whole
    BY DEF LastMessage, Before, Whole
  <2>7. Watched'
    BY <2>5, <2>6 DEF CodexInv, Watched
  <2>8. OwnerDecides' /\ ReplyIsWhole'
    BY <2>3 DEF CodexInv, OwnerDecides, DestructiveNeedsYes, AnsweredInOrder, RightReply,
                ReplyIsWhole
  <2>9. ReplyOfTranscript'
    BY <2>5 DEF CodexInv, RightReply, ReplyOfTranscript
  <2> QED
    BY <2>1, <2>2, <2>4, <2>7, <2>8, <2>9 DEF CodexInv, RightReply
<1> QED
  BY <1>1, <1>2

\* What holds of a message to codex whatever the server, the desktop, the presses and
\* the deadlines do (handle_codex_bridge_msg and all it calls).
THEOREM TurnInvariance == TurnSpec => []CodexInv
<1> QED
  BY CodexInitially, CodexStep, PTL DEF TurnSpec

\* Every variable of the turn keeps its type: the handler's phases, the queue of the
\* server, the entry of the request and the transcript.
THEOREM TurnTypeCorrect == TurnSpec => []TurnTypeOK
<1>1. CodexInv => TurnTypeOK
  BY DEF CodexInv, PhaseTypes, PipeTypes, AskTypes, TextTypes, LiveTypes, Perm, TurnTypeOK,
         Putting
<1> QED
  BY <1>1, TurnInvariance, PTL

\* A destructive command is accepted only if the owner was told so of that very
\* request, and requests are answered once and in their order, with any number of
\* messages of the server (handle_command_approval, respond_to_server_request).
THEOREM OwnerHasTheSay == TurnSpec => []OwnerDecides
<1>1. CodexInv => OwnerDecides
  BY DEF CodexInv
<1> QED
  BY <1>1, TurnInvariance, PTL

\* The chat is given all of the turn's text and no other, with any number of messages
\* of the server; and the reply of the desktop's transcript is that of its first end,
\* however it is read (collect_turn_output, read_codex_reply_delta).
THEOREM ReplyIsRight == TurnSpec => []RightReply
<1>1. CodexInv => RightReply
  BY DEF CodexInv
<1> QED
  BY <1>1, TurnInvariance, PTL

\* The daemon runs a prompt twice only if the connection to the desktop is lost
\* (run_codex_bridge_via_desktop_ipc).
THEOREM PromptOnce == TurnSpec => []PromptRunsOnce
<1>1. CodexInv => PromptRunsOnce
  BY DEF CodexInv, Runs
<1> QED
  BY <1>1, TurnInvariance, PTL
=============================================================================
