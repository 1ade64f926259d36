-------------------------- MODULE PermissionProofs -------------------------
(***************************************************************************)
(* Proofs about PermCheck, for every set of checks, desktops and bounds,   *)
(* with or without distinct ids, failing flushes and crashes; and, in the  *)
(* second half, about HookGate, for every set of hooks, every number of    *)
(* attempts and every instance of PermCheck behind them.                   *)
(*                                                                         *)
(* The argument follows the decision through the system: the state actor   *)
(* accepts it (accepted), the resolver carries it (job), the registry      *)
(* hands it to a channel (waiters, rx), the check repeats it (reply).      *)
(* Each hand-over keeps the fact that the decision was accepted for the    *)
(* perm id at hand; Inv says so for every place a decision can be in.      *)
(***************************************************************************)
EXTENDS HookGate, TLAPS

\* A check between drawing its id and the end of its timeout branch.
Registered == {"insert", "send", "mark", "wait"}

\* The registry leads from an id to a check that drew this very id.
WaiterDrewId ==
  \A i \in PermId :
    waiters[i] # NoCheck => permId[waiters[i]] = i /\ pc[waiters[i]] \notin {"idle", "gate"}

\* A check draws its id once, on leaving the gate, and its channel is silent
\* until then.
DrawnOnce ==
  \A c \in Check :
    /\ pc[c] \in {"idle", "gate"} => permId[c] = NoId /\ rx[c] = "empty" /\ reply[c] = NoReply
    /\ pc[c] \in Live \ {"gate"} => permId[c] \in PermId /\ reply[c] = NoReply /\ Gated(c)
    /\ reply[c].reason \in {"user_approved", "user_denied"} => permId[c] \in PermId

\* A card, and the card a perm names, belong to a check that drew an id.
CardDrewId ==
  /\ \A c \in Check : card[c] # "none" => permId[c] \in PermId
  /\ \A i \in PermId :
       /\ perms[i].msg # NoCheck => permId[perms[i].msg] = i
       /\ disk[i].msg # NoCheck => permId[disk[i].msg] = i

\* A verdict in a channel, or in a resolver's hands, was accepted.
CarriedWasAccepted ==
  /\ \A c \in Check : rx[c] \in Verdict => permId[c] \in PermId /\ rx[c] \in accepted[permId[c]]
  /\ \A r \in Resolver : job[r].stage # "idle" =>
       job[r].id \in PermId /\ job[r].verdict \in accepted[job[r].id]

\* An approval has one of the three reasons the policy knows.
ApprovalHasReason ==
  \A c \in Check :
    reply[c].verdict = "approve" =>
      \/ reply[c].reason = "no_gate_match" /\ ~Gated(c)
      \/ reply[c].reason = "user_approved"
      \/ reply[c].reason = "timeout_fail_open" /\ ~Destructive(c)

\* From its registration on, a check with a silent channel is in the registry.
SilentIsRegistered ==
  \A c \in Check :
    pc[c] \in Registered /\ rx[c] = "empty" => waiters[permId[c]] = c

Inv ==
  /\ TypeOK
  /\ WaiterDrewId
  /\ DrawnOnce
  /\ CardDrewId
  /\ CarriedWasAccepted
  /\ UserVerdictWasGiven
  /\ ApprovalHasReason
  /\ SilentIsRegistered
  /\ CardTellsADecision

-----------------------------------------------------------------------------

\* The initial states satisfy the invariant.
LEMMA InitInv == Init => Inv
<1> SUFFICES ASSUME Init PROVE Inv
  OBVIOUS
<1> USE ConstAssumption DEF Init
<1>1. TypeOK
  BY DEF TypeOK, PermId, NoId, PC, Perm, NoPerm, Status, Open, Settled, Reply, NoReply,
         Reason, Job, NoJob, Stage, Verdict, Resolver
<1>2. WaiterDrewId /\ DrawnOnce /\ CardDrewId
  BY DEF WaiterDrewId, DrawnOnce, CardDrewId, NoPerm, Live, NoReply
<1>3. CarriedWasAccepted /\ UserVerdictWasGiven /\ ApprovalHasReason
  BY DEF CarriedWasAccepted, UserVerdictWasGiven, ApprovalHasReason, NoJob, NoReply, Verdict
<1>4. SilentIsRegistered /\ CardTellsADecision
  BY DEF SilentIsRegistered, CardTellsADecision, Registered
<1>5. QED
  BY <1>1, <1>2, <1>3, <1>4 DEF Inv

\* What Answer does to the two variables it changes.
LEMMA AnswerFacts ==
  ASSUME TypeOK, NEW c \in Check, NEW from \in PC, NEW v \in Verdict \cup {"none"},
         NEW why \in Reason, Answer(c, from, v, why)
  PROVE  /\ pc' \in [Check -> PC] /\ reply' \in [Check -> Reply]
         /\ pc[c] = from /\ pc'[c] = "done"
         /\ reply'[c].verdict = v /\ reply'[c].reason = why
         /\ \A b \in Check : b # c => pc'[b] = pc[b] /\ reply'[b] = reply[b]
<1> USE DEF TypeOK
<1>1. reply' = [reply EXCEPT ![c] = [verdict |-> v, reason |-> why]]
  BY DEF Answer
<1>2. [verdict |-> v, reason |-> why] \in Reply
  BY DEF Reply
<1>3. reply' \in [Check -> Reply] /\ reply'[c] = [verdict |-> v, reason |-> why]
  BY <1>1, <1>2
<1>4. pc' = [pc EXCEPT ![c] = "done"] /\ pc[c] = from
  BY DEF Answer, Goto
<1>5. pc' \in [Check -> PC] /\ pc'[c] = "done"
  BY <1>4 DEF PC
<1> QED
  BY <1>1, <1>3, <1>4, <1>5

\* What Publish does: the new value in memory; on disk the new one or the old.
LEMMA PublishFacts ==
  ASSUME TypeOK, NEW p \in [PermId -> Perm], NEW flushed \in BOOLEAN, Publish(p, flushed)
  PROVE  perms' = p /\ disk' \in {disk, p} /\ disk' \in [PermId -> Perm]
BY DEF TypeOK, Publish

\* The three new values the actions give to pending_perms.
LEMMA NewPerms ==
  ASSUME TypeOK, NEW i \in PermId, NEW c \in Check, NEW st \in Status
  PROVE  /\ [perms EXCEPT ![i] = [status |-> "Pending", msg |-> NoCheck]] \in [PermId -> Perm]
         /\ [perms EXCEPT ![i] = [status |-> "Sent", msg |-> c]] \in [PermId -> Perm]
         /\ [perms EXCEPT ![i].status = st] \in [PermId -> Perm]
<1>1. /\ [status |-> "Pending", msg |-> NoCheck] \in Perm
      /\ [status |-> "Sent", msg |-> c] \in Perm
  BY DEF Perm, Status, Open
<1>2. perms[i] \in Perm
  BY DEF TypeOK
<1>3. [perms[i] EXCEPT !.status = st] \in Perm
  BY <1>2 DEF Perm
<1> QED
  BY <1>1, <1>3 DEF TypeOK

\* The steps of Next, with Press and DesktopResolve told as one Resolve.
LEMMA ProceedCases ==
  ASSUME CardDrewId, Proceed
  PROVE  \/ \E c \in Check : Elapse(c) \/ CheckStep(c)
         \/ \E r \in Resolver, i \in PermId, v \in Verdict, shown \in Check \cup {NoCheck} :
              Resolve(r, i, v, shown)
         \/ \E r \in Resolver : Release(r) \/ EditCard(r)
         \/ Tick
<1>1. ASSUME NEW c \in Check, NEW v \in Verdict, Press(c, v)
      PROVE  \E i \in PermId : Resolve(Telegram, i, v, c)
  BY <1>1 DEF Press, CardDrewId
<1>2. ASSUME NEW d \in Desktop, NEW i \in PermId, NEW v \in Verdict, DesktopResolve(d, i, v)
      PROVE  Resolve(d, i, v, NoCheck)
  BY <1>2 DEF DesktopResolve
<1> QED
  BY <1>1, <1>2 DEF Proceed, ResolverStep, Resolver

LEMMA NextCases ==
  ASSUME CardDrewId, Next
  PROVE  \/ \E c \in Check : Arrive(c) \/ Elapse(c) \/ CheckStep(c)
         \/ \E r \in Resolver, i \in PermId, v \in Verdict, shown \in Check \cup {NoCheck} :
              Resolve(r, i, v, shown)
         \/ \E r \in Resolver : Release(r) \/ EditCard(r)
         \/ Tick \/ Crash \/ Restart
BY ProceedCases DEF Next

\* Every step keeps the types.
LEMMA TypeStep ==
  ASSUME TypeOK, DrawnOnce, CardDrewId, [Next]_vars
  PROVE  TypeOK'
<1> USE ConstAssumption DEF daemonVars, checkVars, chanVars, stateVars
<1>1. ASSUME NEW c \in Check, Arrive(c) PROVE TypeOK'
  BY <1>1 DEF TypeOK, Arrive, Goto, PC, Live
<1>2. ASSUME NEW c \in Check, Gate(c) PROVE TypeOK'
  <2>1. reply' \in [Check -> Reply] /\ pc' \in [Check -> PC]
    <3>1. CASE Answer(c, "gate", "deny", "approval_gate_tampered")
      BY <3>1, AnswerFacts DEF PC, Live, Reason, Verdict
    <3>2. CASE Answer(c, "gate", "none", "http_500")
      BY <3>2, AnswerFacts DEF PC, Live, Reason, Verdict
    <3>3. CASE Answer(c, "gate", "approve", "no_gate_match")
      BY <3>3, AnswerFacts DEF PC, Live, Reason, Verdict
    <3>4. CASE Goto(c, "gate", "register") /\ UNCHANGED reply
      BY <3>4 DEF Goto, TypeOK, PC, Live
    <3> QED
      BY <1>2, <3>1, <3>2, <3>3, <3>4 DEF Gate
  <2>2. permId' \in [Check -> PermId \cup {NoId}]
    BY <1>2 DEF Gate, TypeOK
  <2> QED
    BY <1>2, <2>1, <2>2 DEF Gate, TypeOK
<1>3. ASSUME NEW c \in Check, Register(c) PROVE TypeOK'
  BY <1>3 DEF TypeOK, Register, Goto, Drop, PC, Live
<1>4. ASSUME NEW c \in Check, InsertPending(c) PROVE TypeOK'
  <2>1. permId[c] \in PermId
    BY <1>4 DEF InsertPending, DrawnOnce, Live
  <2> DEFINE p == [perms EXCEPT ![permId[c]] = [status |-> "Pending", msg |-> NoCheck]]
  <2>2. p \in [PermId -> Perm]
    BY <2>1, NewPerms DEF Status, Open
  <2>3. perms' \in [PermId -> Perm] /\ disk' \in [PermId -> Perm]
    BY <1>4, <2>2, PublishFacts DEF InsertPending
  <2>4. reply' \in [Check -> Reply] /\ pc' \in [Check -> PC]
    <3>1. CASE Answer(c, "insert", "none", "http_500")
      BY <3>1, AnswerFacts DEF PC, Live, Reason, Verdict
    <3>2. CASE Goto(c, "insert", "send") /\ UNCHANGED reply
      BY <3>2 DEF Goto, TypeOK, PC, Live
    <3> QED
      BY <1>4, <3>1, <3>2 DEF InsertPending
  <2> QED
    BY <1>4, <2>3, <2>4 DEF InsertPending, TypeOK
<1>5. ASSUME NEW c \in Check, SendPrompt(c) PROVE TypeOK'
  <2>1. reply' \in [Check -> Reply] /\ pc' \in [Check -> PC]
    <3>1. CASE Answer(c, "send", "none", "http_500") \/ Answer(c, "send", "none", "eof")
      BY <3>1, AnswerFacts DEF PC, Live, Reason, Verdict
    <3>2. CASE (Goto(c, "send", "mark") \/ Goto(c, "send", "wait")) /\ UNCHANGED reply
      BY <3>2 DEF Goto, TypeOK, PC, Live
    <3> QED
      BY <1>5, <3>1, <3>2 DEF SendPrompt
  <2>2. card' \in [Check -> {"none", "prompt", "approved", "denied"}]
    BY <1>5 DEF SendPrompt, TypeOK
  <2> QED
    BY <1>5, <2>1, <2>2 DEF SendPrompt, TypeOK
<1>6. ASSUME NEW c \in Check, MarkSent(c) PROVE TypeOK'
  <2>1. permId[c] \in PermId
    BY <1>6 DEF MarkSent, DrawnOnce, Live
  <2> DEFINE p == [perms EXCEPT ![permId[c]] = [status |-> "Sent", msg |-> c]]
  <2>2. p \in [PermId -> Perm]
    BY <2>1, NewPerms DEF Status, Open
  <2>3. perms' \in [PermId -> Perm] /\ disk' \in [PermId -> Perm]
    BY <1>6, <2>2, PublishFacts DEF MarkSent
  <2>4. reply' \in [Check -> Reply] /\ pc' \in [Check -> PC]
    <3>1. CASE Answer(c, "mark", "none", "http_500")
      BY <3>1, AnswerFacts DEF PC, Live, Reason, Verdict
    <3>2. CASE Goto(c, "mark", "wait") /\ UNCHANGED reply
      BY <3>2 DEF Goto, TypeOK, PC, Live
    <3> QED
      BY <1>6, <3>1, <3>2 DEF MarkSent
  <2> QED
    BY <1>6, <2>3, <2>4 DEF MarkSent, TypeOK
<1>7. ASSUME NEW c \in Check, Elapse(c) PROVE TypeOK'
  BY <1>7 DEF TypeOK, Elapse
<1>8. ASSUME NEW c \in Check, Receive(c) PROVE TypeOK'
  <2>1. reply' \in [Check -> Reply] /\ pc' \in [Check -> PC]
    <3>1. CASE Answer(c, "wait", "approve", "user_approved")
      BY <3>1, AnswerFacts DEF PC, Live, Reason, Verdict
    <3>2. CASE Answer(c, "wait", "deny", "user_denied")
      BY <3>2, AnswerFacts DEF PC, Live, Reason, Verdict
    <3> QED
      BY <1>8, <3>1, <3>2 DEF Receive
  <2> QED
    BY <1>8, <2>1 DEF Receive, TypeOK
<1>9. ASSUME NEW c \in Check, GiveUp(c) PROVE TypeOK'
  BY <1>9 DEF TypeOK, GiveUp, Goto, PC, Live
<1>10. ASSUME NEW c \in Check, RemoveWaiter(c) PROVE TypeOK'
  BY <1>10 DEF TypeOK, RemoveWaiter, Goto, Drop, PC, Live
<1>11. ASSUME NEW c \in Check, Expire(c) PROVE TypeOK'
  <2>1. permId[c] \in PermId
    BY <1>11 DEF Expire, DrawnOnce, Live
  <2> DEFINE p == IF IsOpen(permId[c]) THEN [perms EXCEPT ![permId[c]].status = "TimedOut"] ELSE perms
  <2>2. p \in [PermId -> Perm]
    <3>1. "TimedOut" \in Status
      BY DEF Status
    <3>2. [perms EXCEPT ![permId[c]].status = "TimedOut"] \in [PermId -> Perm]
      BY <2>1, <3>1, NewPerms
    <3> QED
      BY <3>2 DEF TypeOK
  <2>3. \E f \in BOOLEAN : Publish(p, f)
    BY <1>11 DEF Expire
  <2> HIDE DEF p
  <2>4. perms' \in [PermId -> Perm] /\ disk' \in [PermId -> Perm]
    BY <2>2, <2>3, PublishFacts
  <2>5. reply' \in [Check -> Reply] /\ pc' \in [Check -> PC]
    <3>1. CASE Answer(c, "expire", "none", "http_500")
      BY <3>1, AnswerFacts DEF PC, Live, Reason, Verdict
    <3>2. CASE Answer(c, "expire", "deny", "timeout_fail_closed")
      BY <3>2, AnswerFacts DEF PC, Live, Reason, Verdict
    <3>3. CASE Answer(c, "expire", "approve", "timeout_fail_open")
      BY <3>3, AnswerFacts DEF PC, Live, Reason, Verdict
    <3> QED
      BY <1>11, <3>1, <3>2, <3>3 DEF Expire
  <2> QED
    BY <1>11, <2>4, <2>5 DEF Expire, TypeOK
<1>12. ASSUME NEW r \in Resolver, NEW i \in PermId, NEW v \in Verdict,
              NEW shown \in Check \cup {NoCheck}, Resolve(r, i, v, shown)
       PROVE  TypeOK'
  <2> DEFINE p == [perms EXCEPT ![i].status = SettledStatus(r, v)]
  <2>1. SettledStatus(r, v) \in Status
    BY DEF SettledStatus, Status, Settled
  <2>2. p \in [PermId -> Perm]
    <3>1. PICK st \in Status : st = SettledStatus(r, v)
      BY <2>1
    <3>2. [perms EXCEPT ![i].status = st] \in [PermId -> Perm]
      <4>1. perms[i] \in Perm
        BY DEF TypeOK
      <4>2. [perms[i] EXCEPT !.status = st] \in Perm
        BY <4>1 DEF Perm
      <4> QED
        BY <4>2 DEF TypeOK
    <3> QED
      BY <3>1, <3>2
  <2>3. perms' \in [PermId -> Perm] /\ disk' \in [PermId -> Perm]
    BY <1>12, <2>2, PublishFacts DEF Resolve
  <2>4. job' \in [Resolver -> Job]
    <3>1. [stage |-> "release", id |-> i, verdict |-> v, card |-> shown] \in Job
      BY DEF Job, Stage
    <3> QED
      BY <1>12, <3>1 DEF Resolve, TypeOK
  <2>5. accepted' \in [PermId -> SUBSET Verdict]
    <3>1. accepted[i] \cup {v} \in SUBSET Verdict
      BY DEF TypeOK
    <3>2. accepted' \in {accepted, [accepted EXCEPT ![i] = accepted[i] \cup {v}]}
      BY <1>12 DEF Resolve
    <3> QED
      BY <3>1, <3>2 DEF TypeOK
  <2> QED
    BY <1>12, <2>3, <2>4, <2>5 DEF Resolve, TypeOK
<1>13. ASSUME NEW r \in Resolver, Release(r) PROVE TypeOK'
  <2>1. job[r] \in Job
    BY DEF TypeOK
  <2>2. [job[r] EXCEPT !.stage = "edit"] \in Job
    BY <2>1 DEF Job, Stage
  <2>3. job' \in [Resolver -> Job]
    BY <1>13, <2>2 DEF Release, TypeOK
  <2>4. rx' \in [Check -> {"empty", "closed"} \cup Verdict]
    BY <1>13, <2>1 DEF Release, TypeOK, Job
  <2>5. waiters' \in [PermId -> Check \cup {NoCheck}]
    BY <1>13 DEF Release, TypeOK
  <2> QED
    BY <1>13, <2>3, <2>4, <2>5 DEF Release, TypeOK
<1>14. ASSUME NEW r \in Resolver, EditCard(r) PROVE TypeOK'
  BY <1>14 DEF EditCard, TypeOK, Job, NoJob, Stage, Verdict, NoId
<1>15. CASE Tick
  BY <1>15 DEF TypeOK, Tick, PermId
<1>16. CASE Crash
  <2>1. [verdict |-> "none", reason |-> "eof"] \in Reply /\ NoJob \in Job
    BY DEF Reply, Reason, Verdict, NoJob, Job, Stage, NoId
  <2>2. reply' \in [Check -> Reply] /\ job' \in [Resolver -> Job]
    BY <1>16, <2>1 DEF Crash, TypeOK
  <2>3. pc' \in [Check -> PC]
    BY <1>16 DEF Crash, TypeOK, PC
  <2>4. rx' \in [Check -> {"empty", "closed"} \cup Verdict]
    <3>1. rx' = [c \in Check |-> IF pc[c] \in Live THEN "closed" ELSE rx[c]]
      BY <1>16 DEF Crash
    <3>2. rx \in [Check -> {"empty", "closed"} \cup Verdict]
      BY DEF TypeOK
    <3> QED
      BY <3>1, <3>2
  <2>5. waiters' \in [PermId -> Check \cup {NoCheck}]
    BY <1>16 DEF Crash
  <2>6. up' \in BOOLEAN
    BY <1>16 DEF Crash
  <2>7. crashes' \in Nat
    BY <1>16 DEF Crash, TypeOK
  <2> QED
    BY <1>16, <2>2, <2>3, <2>4, <2>5, <2>6, <2>7 DEF Crash, TypeOK
<1>17. CASE Restart
  BY <1>17 DEF TypeOK, Restart, PermId
<1>18. CASE UNCHANGED vars
  BY <1>18 DEF TypeOK, vars
<1> QED
  BY <1>1, <1>2, <1>3, <1>4, <1>5, <1>6, <1>7, <1>8, <1>9, <1>10, <1>11, <1>12, <1>13, <1>14,
     <1>15, <1>16, <1>17, <1>18, NextCases
     DEF CheckStep

-----------------------------------------------------------------------------
(* Steps that many actions share *)

\* The conjuncts of Inv that speak of a check's place, channel and reply.
CheckSide ==
  WaiterDrewId /\ DrawnOnce /\ UserVerdictWasGiven /\ ApprovalHasReason /\ SilentIsRegistered

\* A check in flight answers for a reason that holds.
LEMMA AnswerKeeps ==
  ASSUME Inv, NEW c \in Check, NEW from \in Live, NEW v \in Verdict \cup {"none"},
         NEW why \in Reason, Answer(c, from, v, why),
         UNCHANGED <<cmd, permId, chanVars, accepted>>,
         why = "user_approved" =>
           v = "approve" /\ permId[c] \in PermId /\ "approve" \in accepted[permId[c]],
         why = "user_denied" =>
           v = "deny" /\ permId[c] \in PermId /\ "deny" \in accepted[permId[c]],
         v = "approve" =>
           \/ why = "no_gate_match" /\ ~Gated(c)
           \/ why = "user_approved"
           \/ why = "timeout_fail_open" /\ ~Destructive(c)
  PROVE  CheckSide'
<1> USE DEF chanVars
<1>1. /\ pc[c] = from /\ pc'[c] = "done"
      /\ reply'[c].verdict = v /\ reply'[c].reason = why
      /\ \A b \in Check : b # c => pc'[b] = pc[b] /\ reply'[b] = reply[b]
  BY AnswerFacts DEF Inv, PC
<1>2. WaiterDrewId'
  BY <1>1 DEF Inv, TypeOK, WaiterDrewId
<1>3. DrawnOnce'
  BY <1>1 DEF Inv, DrawnOnce, Live, Gated
<1>4. UserVerdictWasGiven'
  BY <1>1 DEF Inv, UserVerdictWasGiven
<1>5. ApprovalHasReason'
  BY <1>1 DEF Inv, ApprovalHasReason, Gated, Destructive
<1>6. SilentIsRegistered'
  BY <1>1 DEF Inv, SilentIsRegistered, Registered
<1> QED
  BY <1>2, <1>3, <1>4, <1>5, <1>6 DEF CheckSide

\* A check in flight moves on, its channel and reply untouched.
LEMMA GotoKeeps ==
  ASSUME Inv, NEW c \in Check, NEW from \in Live \ {"gate"}, NEW to \in Live \ {"gate"},
         Goto(c, from, to), to \in Registered => from \in Registered,
         UNCHANGED <<cmd, permId, reply, chanVars, accepted>>
  PROVE  CheckSide'
<1> USE DEF chanVars
<1>1. /\ pc[c] = from /\ pc'[c] = to
      /\ \A b \in Check : b # c => pc'[b] = pc[b]
  BY DEF Goto, Inv, TypeOK
<1>2. WaiterDrewId'
  BY <1>1 DEF Inv, TypeOK, WaiterDrewId, Live
<1>3. DrawnOnce'
  BY <1>1 DEF Inv, DrawnOnce, Live, Gated
<1>4. UserVerdictWasGiven' /\ ApprovalHasReason'
  BY DEF Inv, UserVerdictWasGiven, ApprovalHasReason, Gated, Destructive
<1>5. SilentIsRegistered'
  BY <1>1 DEF Inv, SilentIsRegistered
<1> QED
  BY <1>2, <1>3, <1>4, <1>5 DEF CheckSide

\* Publishing a perm that names no card, the same card, or its own check's.
LEMMA PublishKeeps ==
  ASSUME Inv, NEW p \in [PermId -> Perm], NEW flushed \in BOOLEAN, Publish(p, flushed),
         UNCHANGED <<permId, card, accepted>>,
         \A i \in PermId : p[i].msg # NoCheck => permId[p[i].msg] = i
  PROVE  CardDrewId' /\ CardTellsADecision'
<1>1. perms' = p /\ disk' \in {disk, p}
  BY PublishFacts DEF Inv
<1>2. CardDrewId'
  BY <1>1 DEF Inv, CardDrewId
<1>3. CardTellsADecision'
  BY DEF Inv, CardTellsADecision
<1> QED
  BY <1>2, <1>3

\* Nothing that the conjuncts about cards, or about decisions on their way,
\* speak of has changed.
LEMMA CardsKeep ==
  ASSUME Inv, UNCHANGED <<permId, card, stateVars, accepted>>
  PROVE  CardDrewId' /\ CardTellsADecision'
BY DEF Inv, CardDrewId, CardTellsADecision, stateVars

LEMMA CarriedKeeps ==
  ASSUME Inv, UNCHANGED <<permId, rx, job, accepted>>
  PROVE  CarriedWasAccepted'
BY DEF Inv, CarriedWasAccepted

LEMMA CheckSideKeeps ==
  ASSUME Inv, UNCHANGED <<cmd, pc, permId, reply, chanVars, accepted>>
  PROVE  CheckSide'
<1> USE DEF chanVars
<1>1. WaiterDrewId' /\ DrawnOnce'
  BY DEF Inv, WaiterDrewId, DrawnOnce, Gated
<1>2. UserVerdictWasGiven' /\ ApprovalHasReason'
  BY DEF Inv, UserVerdictWasGiven, ApprovalHasReason, Gated, Destructive
<1>3. SilentIsRegistered'
  BY DEF Inv, SilentIsRegistered
<1> QED
  BY <1>1, <1>2, <1>3 DEF CheckSide

-----------------------------------------------------------------------------
(* One lemma per action that moves a decision *)

Chain == CheckSide /\ CardDrewId /\ CardTellsADecision /\ CarriedWasAccepted

LEMMA GateKeeps ==
  ASSUME Inv, NEW c \in Check, Gate(c)
  PROVE  Chain'
<1> USE DEF chanVars, stateVars, daemonVars
<1>1. ASSUME NEW v \in Verdict \cup {"none"}, NEW why \in Reason, Answer(c, "gate", v, why),
             UNCHANGED permId, why \notin {"user_approved", "user_denied"},
             v = "approve" => why = "no_gate_match" /\ ~Gated(c)
      PROVE  Chain'
  <2>1. CheckSide'
    <3>1. UNCHANGED <<cmd, permId, chanVars, accepted>>
      BY <1>1, Gate(c) DEF Gate
    <3> QED
      BY <1>1, <3>1, AnswerKeeps DEF Live
  <2>2. CardDrewId' /\ CardTellsADecision' /\ CarriedWasAccepted'
    BY <1>1, CardsKeep, CarriedKeeps DEF Gate
  <2> QED
    BY <2>1, <2>2 DEF Chain
<1>2. CASE /\ Gated(c) /\ Goto(c, "gate", "register")
           /\ permId' = [permId EXCEPT ![c] = now] /\ UNCHANGED reply
  <2>1. /\ pc[c] = "gate" /\ pc'[c] = "register" /\ permId[c] = NoId /\ permId'[c] = now
        /\ \A b \in Check : b # c => pc'[b] = pc[b] /\ permId'[b] = permId[b]
        /\ now \in PermId
    BY <1>2 DEF Goto, Inv, TypeOK, DrawnOnce
  <2>2. /\ rx[c] = "empty" /\ reply[c] = NoReply
        /\ \A i \in PermId : waiters[i] # c
        /\ card[c] = "none"
        /\ \A i \in PermId : perms[i].msg # c /\ disk[i].msg # c
    BY <2>1, ConstAssumption DEF Inv, DrawnOnce, WaiterDrewId, CardDrewId, NoId, PermId
  <2>3. UNCHANGED <<cmd, reply, rx, waiters, perms, disk, card, job, accepted>>
    BY <1>2 DEF Gate
  <2>4. WaiterDrewId'
    BY <2>1, <2>2, <2>3 DEF Inv, TypeOK, WaiterDrewId
  <2>5. DrawnOnce'
    BY <1>2, <2>1, <2>2, <2>3 DEF Inv, DrawnOnce, Live, Gated, NoReply
  <2>6. UserVerdictWasGiven'
    BY <2>1, <2>2, <2>3 DEF Inv, UserVerdictWasGiven, NoReply
  <2>7. ApprovalHasReason' /\ CarriedWasAccepted'
    BY <2>1, <2>2, <2>3
       DEF Inv, ApprovalHasReason, CarriedWasAccepted, Gated, Destructive, Verdict
  <2>8. SilentIsRegistered'
    BY <2>1, <2>3 DEF Inv, SilentIsRegistered, Registered
  <2>9. CardDrewId' /\ CardTellsADecision'
    BY <2>1, <2>2, <2>3 DEF Inv, TypeOK, CardDrewId, CardTellsADecision, Perm
  <2> QED
    BY <2>4, <2>5, <2>6, <2>7, <2>8, <2>9 DEF Chain, CheckSide
<1>3. {"approval_gate_tampered", "http_500", "no_gate_match"} \subseteq Reason
  BY DEF Reason
<1>4. CASE Answer(c, "gate", "deny", "approval_gate_tampered") /\ UNCHANGED permId
  BY <1>1, <1>3, <1>4 DEF Verdict
<1>5. CASE Answer(c, "gate", "none", "http_500") /\ UNCHANGED permId
  BY <1>1, <1>3, <1>5
<1>6. CASE ~Gated(c) /\ Answer(c, "gate", "approve", "no_gate_match") /\ UNCHANGED permId
  BY <1>1, <1>3, <1>6 DEF Verdict
<1> QED
  BY <1>2, <1>4, <1>5, <1>6 DEF Gate

LEMMA RegisterKeeps ==
  ASSUME Inv, NEW c \in Check, Register(c)
  PROVE  Chain'
<1> USE DEF chanVars, stateVars, daemonVars
<1>1. /\ pc[c] = "register" /\ pc'[c] = "insert" /\ permId[c] \in PermId
      /\ \A b \in Check : b # c => pc'[b] = pc[b]
  BY DEF Register, Goto, Inv, TypeOK, DrawnOnce, Live
<1>2. /\ UNCHANGED <<cmd, permId, reply, perms, disk, card, job, accepted>>
      /\ waiters' = [waiters EXCEPT ![permId[c]] = c]
      /\ \A b \in Check : rx'[b] = IF b = waiters[permId[c]] THEN "closed" ELSE rx[b]
  BY <1>1, ConstAssumption DEF Register, Drop, Inv, TypeOK
<1>3. WaiterDrewId'
  BY <1>1, <1>2, ConstAssumption DEF Inv, TypeOK, WaiterDrewId
<1>4. DrawnOnce'
  <2>1. \A b \in Check : pc[b] \in {"idle", "gate"} => rx'[b] = rx[b]
    BY <1>1, <1>2, ConstAssumption DEF Inv, WaiterDrewId
  <2> QED
    BY <1>1, <1>2, <2>1 DEF Inv, DrawnOnce, Live, Gated
<1>5. UserVerdictWasGiven' /\ ApprovalHasReason'
  BY <1>2 DEF Inv, UserVerdictWasGiven, ApprovalHasReason, Gated, Destructive
<1>6. SilentIsRegistered'
  BY <1>1, <1>2 DEF Inv, TypeOK, SilentIsRegistered, Registered
<1>7. CarriedWasAccepted'
  BY <1>2 DEF Inv, CarriedWasAccepted, Verdict
<1>8. CardDrewId' /\ CardTellsADecision'
  BY <1>2, CardsKeep
<1> QED
  BY <1>3, <1>4, <1>5, <1>6, <1>7, <1>8 DEF Chain, CheckSide

LEMMA InsertPendingKeeps ==
  ASSUME Inv, NEW c \in Check, InsertPending(c)
  PROVE  Chain'
<1> DEFINE p == [perms EXCEPT ![permId[c]] = [status |-> "Pending", msg |-> NoCheck]]
<1>1. permId[c] \in PermId
  BY DEF InsertPending, Inv, DrawnOnce, Live
<1>2. p \in [PermId -> Perm]
  BY <1>1, NewPerms DEF Inv, Status, Open
<1>3. \A i \in PermId : p[i].msg # NoCheck => permId[p[i].msg] = i
  BY <1>1 DEF Inv, TypeOK, CardDrewId
<1>4. CheckSide'
  <2>1. UNCHANGED <<cmd, permId, chanVars, accepted>>
    BY DEF InsertPending
  <2>2. CASE Goto(c, "insert", "send") /\ UNCHANGED reply
    BY <2>1, <2>2, GotoKeeps DEF Live, Registered
  <2>3. CASE Answer(c, "insert", "none", "http_500")
    BY <2>1, <2>3, AnswerKeeps DEF Live, Reason
  <2> QED
    BY <2>2, <2>3 DEF InsertPending
<1>5. CardDrewId' /\ CardTellsADecision'
  BY <1>2, <1>3, PublishKeeps DEF InsertPending
<1>6. CarriedWasAccepted'
  BY CarriedKeeps DEF InsertPending, chanVars
<1> QED
  BY <1>4, <1>5, <1>6 DEF Chain

LEMMA SendPromptKeeps ==
  ASSUME Inv, NEW c \in Check, SendPrompt(c)
  PROVE  Chain'
<1>1. UNCHANGED <<cmd, permId, chanVars, stateVars, job, accepted>>
  BY DEF SendPrompt
<1>2. CheckSide'
  <2>1. CASE (Goto(c, "send", "mark") \/ Goto(c, "send", "wait")) /\ UNCHANGED reply
    BY <1>1, <2>1, GotoKeeps DEF Live, Registered
  <2>2. CASE Answer(c, "send", "none", "http_500") \/ Answer(c, "send", "none", "eof")
    BY <1>1, <2>2, AnswerKeeps DEF Live, Reason
  <2> QED
    BY <2>1, <2>2 DEF SendPrompt
<1>3. permId[c] \in PermId
  BY DEF SendPrompt, Goto, Answer, Inv, DrawnOnce, Live
<1>4. CardDrewId' /\ CardTellsADecision'
  <2>1. card' \in {card, [card EXCEPT ![c] = "prompt"]}
    BY DEF SendPrompt
  <2> QED
    BY <1>1, <1>3, <2>1 DEF Inv, TypeOK, CardDrewId, CardTellsADecision, stateVars
<1>5. CarriedWasAccepted'
  BY <1>1, CarriedKeeps DEF chanVars
<1> QED
  BY <1>2, <1>4, <1>5 DEF Chain

LEMMA MarkSentKeeps ==
  ASSUME Inv, NEW c \in Check, MarkSent(c)
  PROVE  Chain'
<1> DEFINE p == [perms EXCEPT ![permId[c]] = [status |-> "Sent", msg |-> c]]
<1>1. permId[c] \in PermId
  BY DEF MarkSent, Inv, DrawnOnce, Live
<1>2. p \in [PermId -> Perm]
  BY <1>1, NewPerms DEF Inv, Status, Open
<1>3. \A i \in PermId : p[i].msg # NoCheck => permId[p[i].msg] = i
  BY <1>1 DEF Inv, TypeOK, CardDrewId
<1>4. CheckSide'
  <2>1. UNCHANGED <<cmd, permId, chanVars, accepted>>
    BY DEF MarkSent
  <2>2. CASE Goto(c, "mark", "wait") /\ UNCHANGED reply
    BY <2>1, <2>2, GotoKeeps DEF Live, Registered
  <2>3. CASE Answer(c, "mark", "none", "http_500")
    BY <2>1, <2>3, AnswerKeeps DEF Live, Reason
  <2> QED
    BY <2>2, <2>3 DEF MarkSent
<1>5. CardDrewId' /\ CardTellsADecision'
  BY <1>2, <1>3, PublishKeeps DEF MarkSent
<1>6. CarriedWasAccepted'
  BY CarriedKeeps DEF MarkSent, chanVars
<1> QED
  BY <1>4, <1>5, <1>6 DEF Chain

\* The verdict that is received was accepted for the id the check drew.
LEMMA ReceiveKeeps ==
  ASSUME Inv, NEW c \in Check, Receive(c)
  PROVE  Chain'
<1>1. UNCHANGED <<cmd, permId, chanVars, stateVars, card, job, accepted>>
  BY DEF Receive
<1>2. CheckSide'
  <2>1. CASE rx[c] = "approve" /\ Answer(c, "wait", "approve", "user_approved")
    <3>1. permId[c] \in PermId /\ "approve" \in accepted[permId[c]]
      BY <2>1 DEF Inv, CarriedWasAccepted, Verdict
    <3> QED
      BY <1>1, <2>1, <3>1, AnswerKeeps DEF Live, Reason, Verdict
  <2>2. CASE rx[c] = "deny" /\ Answer(c, "wait", "deny", "user_denied")
    <3>1. permId[c] \in PermId /\ "deny" \in accepted[permId[c]]
      BY <2>2 DEF Inv, CarriedWasAccepted, Verdict
    <3> QED
      BY <1>1, <2>2, <3>1, AnswerKeeps DEF Live, Reason, Verdict
  <2> QED
    BY <2>1, <2>2 DEF Receive
<1>3. CardDrewId' /\ CardTellsADecision' /\ CarriedWasAccepted'
  BY <1>1, CardsKeep, CarriedKeeps DEF chanVars
<1> QED
  BY <1>2, <1>3 DEF Chain

LEMMA RemoveWaiterKeeps ==
  ASSUME Inv, NEW c \in Check, RemoveWaiter(c)
  PROVE  Chain'
<1> USE DEF chanVars, stateVars, daemonVars
<1>1. /\ pc[c] = "remove" /\ pc'[c] = "expire" /\ permId[c] \in PermId
      /\ \A b \in Check : b # c => pc'[b] = pc[b]
  BY DEF RemoveWaiter, Goto, Inv, TypeOK, DrawnOnce, Live
<1>2. /\ UNCHANGED <<cmd, permId, reply, perms, disk, card, job, accepted>>
      /\ waiters' = [waiters EXCEPT ![permId[c]] = NoCheck]
      /\ \A b \in Check : rx'[b] = IF b = waiters[permId[c]] THEN "closed" ELSE rx[b]
  BY <1>1, ConstAssumption DEF RemoveWaiter, Drop, Inv, TypeOK
<1>3. WaiterDrewId'
  BY <1>1, <1>2 DEF Inv, TypeOK, WaiterDrewId
<1>4. DrawnOnce'
  <2>1. \A b \in Check : pc[b] \in {"idle", "gate"} => rx'[b] = rx[b]
    BY <1>1, <1>2, ConstAssumption DEF Inv, WaiterDrewId
  <2> QED
    BY <1>1, <1>2, <2>1 DEF Inv, DrawnOnce, Live, Gated
<1>5. UserVerdictWasGiven' /\ ApprovalHasReason'
  BY <1>2 DEF Inv, UserVerdictWasGiven, ApprovalHasReason, Gated, Destructive
<1>6. SilentIsRegistered'
  BY <1>1, <1>2 DEF Inv, TypeOK, SilentIsRegistered, Registered
<1>7. CarriedWasAccepted'
  BY <1>2 DEF Inv, CarriedWasAccepted, Verdict
<1>8. CardDrewId' /\ CardTellsADecision'
  BY <1>2, CardsKeep
<1> QED
  BY <1>3, <1>4, <1>5, <1>6, <1>7, <1>8 DEF Chain, CheckSide

LEMMA ExpireKeeps ==
  ASSUME Inv, NEW c \in Check, Expire(c)
  PROVE  Chain'
<1> DEFINE p == IF IsOpen(permId[c]) THEN [perms EXCEPT ![permId[c]].status = "TimedOut"] ELSE perms
<1>1. permId[c] \in PermId
  BY DEF Expire, Inv, DrawnOnce, Live
<1>2. p \in [PermId -> Perm]
  <2>1. [perms EXCEPT ![permId[c]].status = "TimedOut"] \in [PermId -> Perm]
    BY <1>1, NewPerms DEF Inv, Status
  <2> QED
    BY <2>1 DEF Inv, TypeOK
<1>3. \A i \in PermId : p[i].msg # NoCheck => permId[p[i].msg] = i
  <2>1. \A i \in PermId : p[i].msg = perms[i].msg
    BY <1>1 DEF Inv, TypeOK, Perm
  <2> QED
    BY <2>1 DEF Inv, CardDrewId
<1>4. CheckSide'
  <2>1. UNCHANGED <<cmd, permId, chanVars, accepted>>
    BY DEF Expire
  <2>2. CASE Answer(c, "expire", "deny", "timeout_fail_closed")
    BY <2>1, <2>2, AnswerKeeps DEF Live, Reason, Verdict
  <2>3. CASE ~Destructive(c) /\ Answer(c, "expire", "approve", "timeout_fail_open")
    BY <2>1, <2>3, AnswerKeeps DEF Live, Reason, Verdict
  <2>4. CASE Answer(c, "expire", "none", "http_500")
    BY <2>1, <2>4, AnswerKeeps DEF Live, Reason
  <2> QED
    BY <2>2, <2>3, <2>4 DEF Expire
<1>5. CardDrewId' /\ CardTellsADecision'
  <2>1. \E f \in BOOLEAN : Publish(p, f)
    BY DEF Expire
  <2>2. UNCHANGED <<permId, card, accepted>>
    BY DEF Expire
  <2> HIDE DEF p
  <2> QED
    BY <1>2, <1>3, <2>1, <2>2, PublishKeeps
<1>6. CarriedWasAccepted'
  BY CarriedKeeps DEF Expire, chanVars
<1> QED
  BY <1>4, <1>5, <1>6 DEF Chain


\* A decision enters the system: it is accepted in the step that takes it up.
LEMMA ResolveKeeps ==
  ASSUME Inv, NEW r \in Resolver, NEW i \in PermId, NEW v \in Verdict,
         NEW shown \in Check \cup {NoCheck}, Resolve(r, i, v, shown)
  PROVE  Chain'
<1> DEFINE p == [perms EXCEPT ![i].status = SettledStatus(r, v)]
<1>1. UNCHANGED <<cmd, pc, permId, reply, rx, waiters, card>>
  BY DEF Resolve, checkVars, chanVars
<1>2. /\ \A j \in PermId : accepted[j] \subseteq accepted'[j]
      /\ \A q \in Resolver : job'[q] # job[q] =>
           job'[q].id = i /\ job'[q].verdict = v /\ v \in accepted'[i]
  <2>1. CASE UNCHANGED <<job, accepted>>
    BY <2>1
  <2>2. CASE /\ job' = [job EXCEPT ![r] =
                          [stage |-> "release", id |-> i, verdict |-> v, card |-> shown]]
             /\ accepted' = [accepted EXCEPT ![i] = @ \cup {v}]
    BY <2>2 DEF Inv, TypeOK
  <2> QED
    BY <2>1, <2>2 DEF Resolve
<1>3. CheckSide'
  <2>1. WaiterDrewId' /\ DrawnOnce'
    BY <1>1 DEF Inv, WaiterDrewId, DrawnOnce, Gated
  <2>2. UserVerdictWasGiven'
    BY <1>1, <1>2 DEF Inv, DrawnOnce, UserVerdictWasGiven
  <2>3. ApprovalHasReason' /\ SilentIsRegistered'
    BY <1>1 DEF Inv, ApprovalHasReason, SilentIsRegistered, Gated, Destructive
  <2> QED
    BY <2>1, <2>2, <2>3 DEF CheckSide
<1>4. CarriedWasAccepted'
  <2>1. \A c \in Check : rx'[c] \in Verdict =>
          permId'[c] \in PermId /\ rx'[c] \in accepted'[permId'[c]]
    BY <1>1, <1>2 DEF Inv, CarriedWasAccepted
  <2>2. ASSUME NEW q \in Resolver, job'[q].stage # "idle"
        PROVE  job'[q].id \in PermId /\ job'[q].verdict \in accepted'[job'[q].id]
    <3>1. CASE job'[q] = job[q]
      BY <1>2, <2>2, <3>1 DEF Inv, CarriedWasAccepted
    <3>2. CASE job'[q] # job[q]
      BY <1>2, <3>2
    <3> QED
      BY <3>1, <3>2
  <2> QED
    BY <2>1, <2>2 DEF CarriedWasAccepted
<1>5. CardDrewId'
  <2>1. SettledStatus(r, v) \in Status
    BY DEF SettledStatus, Status, Settled
  <2>2. p \in [PermId -> Perm] /\ \A j \in PermId : p[j].msg = perms[j].msg
    <3>1. perms \in [PermId -> Perm]
      BY DEF Inv, TypeOK
    <3> QED
      BY <2>1, <3>1 DEF Perm
  <2>3. PICK f \in BOOLEAN : Publish(p, f)
    BY DEF Resolve
  <2>4. perms' = p /\ disk' \in {disk, p}
    BY <2>2, <2>3, PublishFacts DEF Inv
  <2> HIDE DEF p
  <2> QED
    BY <1>1, <2>2, <2>4 DEF Inv, CardDrewId
<1>6. CardTellsADecision'
  BY <1>1, <1>2 DEF Inv, CardDrewId, CardTellsADecision
<1> QED
  BY <1>3, <1>4, <1>5, <1>6 DEF Chain

\* The registry hands the decision to a check that drew the decided id.
LEMMA ReleaseKeeps ==
  ASSUME Inv, NEW r \in Resolver, Release(r)
  PROVE  Chain'
<1> DEFINE i == job[r].id
           v == job[r].verdict
<1>1. i \in PermId /\ v \in Verdict /\ v \in accepted[i]
  BY DEF Release, Inv, TypeOK, CarriedWasAccepted, Job
<1>2. /\ UNCHANGED <<cmd, pc, permId, reply, perms, disk, card, accepted>>
      /\ waiters' = [waiters EXCEPT ![i] = NoCheck]
      /\ \A q \in Resolver : job'[q].id = job[q].id /\ job'[q].verdict = job[q].verdict
      /\ \A q \in Resolver : job'[q].stage # "idle" => job[q].stage # "idle"
  BY DEF Release, Inv, TypeOK, Job, checkVars, stateVars
<1>3. \A b \in Check : rx'[b] = IF b = waiters[i] THEN v ELSE rx[b]
  BY <1>1, ConstAssumption DEF Release, Inv, TypeOK
<1> HIDE DEF i, v
<1>4. WaiterDrewId'
  BY <1>1, <1>2 DEF Inv, TypeOK, WaiterDrewId
<1>5. DrawnOnce'
  <2>1. \A b \in Check : pc[b] \in {"idle", "gate"} => rx'[b] = rx[b]
    BY <1>1, <1>3, ConstAssumption DEF Inv, WaiterDrewId
  <2> QED
    BY <1>2, <2>1 DEF Inv, DrawnOnce, Gated
<1>6. UserVerdictWasGiven' /\ ApprovalHasReason'
  BY <1>2 DEF Inv, UserVerdictWasGiven, ApprovalHasReason, Gated, Destructive
<1>7. SilentIsRegistered'
  <2>1. SUFFICES ASSUME NEW b \in Check, pc[b] \in Registered, rx'[b] = "empty"
                 PROVE  waiters'[permId[b]] = b
    BY <1>2 DEF SilentIsRegistered
  <2>2. b # waiters[i] /\ rx[b] = "empty"
    BY <1>1, <1>3, <2>1 DEF Verdict
  <2>3. waiters[permId[b]] = b
    BY <2>1, <2>2 DEF Inv, SilentIsRegistered
  <2> QED
    BY <1>2, <2>2, <2>3 DEF Inv, TypeOK
<1>8. CarriedWasAccepted'
  <2>1. ASSUME NEW b \in Check, b = waiters[i]
        PROVE  permId[b] = i
    BY <1>1, <2>1, ConstAssumption DEF Inv, WaiterDrewId
  <2>2. \A b \in Check : rx'[b] \in Verdict =>
          permId'[b] \in PermId /\ rx'[b] \in accepted'[permId'[b]]
    BY <1>1, <1>2, <1>3, <2>1 DEF Inv, CarriedWasAccepted
  <2>3. \A q \in Resolver : job'[q].stage # "idle" =>
          job'[q].id \in PermId /\ job'[q].verdict \in accepted'[job'[q].id]
    BY <1>2 DEF Inv, CarriedWasAccepted
  <2> QED
    BY <2>2, <2>3 DEF CarriedWasAccepted
<1>9. CardDrewId' /\ CardTellsADecision'
  BY <1>2, CardsKeep DEF stateVars
<1> QED
  BY <1>4, <1>5, <1>6, <1>7, <1>8, <1>9 DEF Chain, CheckSide

\* The card is told a decision on the id of the perm that names it.
LEMMA EditCardKeeps ==
  ASSUME Inv, NEW r \in Resolver, EditCard(r)
  PROVE  Chain'
<1> DEFINE shown == perms[job[r].id].msg
           told  == IF job[r].verdict = "approve" THEN "approved" ELSE "denied"
<1>1. /\ UNCHANGED <<cmd, pc, permId, reply, rx, waiters, perms, disk, accepted>>
      /\ job' = [job EXCEPT ![r] = NoJob]
      /\ \/ shown # NoCheck /\ card' = [card EXCEPT ![shown] = told]
         \/ UNCHANGED card
  BY DEF EditCard, checkVars, chanVars, stateVars
<1>2. job[r].id \in PermId /\ job[r].verdict \in accepted[job[r].id]
      /\ job[r].verdict \in Verdict
  BY DEF EditCard, Inv, TypeOK, CarriedWasAccepted, Job
<1>3. CheckSide'
  BY <1>1, CheckSideKeeps DEF chanVars
<1>4. CarriedWasAccepted'
  BY <1>1 DEF Inv, TypeOK, CarriedWasAccepted, NoJob
<1>5. shown # NoCheck => shown \in Check /\ permId[shown] = job[r].id
  BY <1>2 DEF Inv, TypeOK, CardDrewId, Perm
<1>6. CardDrewId'
  BY <1>1, <1>2, <1>5 DEF Inv, TypeOK, CardDrewId
<1>7. CardTellsADecision'
  BY <1>1, <1>2, <1>5 DEF Inv, TypeOK, CardTellsADecision, Verdict
<1> QED
  BY <1>3, <1>4, <1>6, <1>7 DEF Chain

\* After a crash nothing is on its way any more.
LEMMA CrashKeeps ==
  ASSUME Inv, Crash
  PROVE  Chain'
<1>1. /\ UNCHANGED <<cmd, permId, perms, disk, card, accepted>>
      /\ waiters' = [i \in PermId |-> NoCheck]
      /\ job' = [r \in Resolver |-> NoJob]
      /\ \A c \in Check : pc[c] \notin Live =>
           pc'[c] = pc[c] /\ reply'[c] = reply[c] /\ rx'[c] = rx[c]
      /\ \A c \in Check : pc[c] \in Live =>
           /\ pc'[c] = "done" /\ rx'[c] = "closed"
           /\ reply'[c].verdict = "none" /\ reply'[c].reason = "eof"
  BY DEF Crash, stateVars
<1>2. WaiterDrewId'
  BY <1>1 DEF WaiterDrewId
<1>3. DrawnOnce'
  BY <1>1 DEF Inv, TypeOK, DrawnOnce, Live, PC, Gated
<1>4. UserVerdictWasGiven' /\ ApprovalHasReason'
  BY <1>1 DEF Inv, UserVerdictWasGiven, ApprovalHasReason, Gated, Destructive
<1>5. SilentIsRegistered'
  BY <1>1 DEF Inv, TypeOK, SilentIsRegistered, Registered, Live, PC
<1>6. CarriedWasAccepted'
  BY <1>1 DEF Inv, CarriedWasAccepted, NoJob, Verdict
<1>7. CardDrewId' /\ CardTellsADecision'
  BY <1>1, CardsKeep DEF stateVars
<1> QED
  BY <1>2, <1>3, <1>4, <1>5, <1>6, <1>7 DEF Chain, CheckSide

LEMMA RestartKeeps ==
  ASSUME Inv, Restart
  PROVE  Chain'
<1>1. CheckSide' /\ CarriedWasAccepted'
  BY CheckSideKeeps, CarriedKeeps DEF Restart, checkVars, chanVars
<1>2. CardDrewId' /\ CardTellsADecision'
  BY DEF Restart, checkVars, Inv, CardDrewId, CardTellsADecision
<1> QED
  BY <1>1, <1>2 DEF Chain
-----------------------------------------------------------------------------
(* The invariant holds of every reachable state *)

\* Every step keeps the invariant: one case per action.
LEMMA StepInv == Inv /\ [Next]_vars => Inv'
<1> SUFFICES ASSUME Inv, [Next]_vars PROVE Inv'
  OBVIOUS
<1>1. TypeOK'
  BY TypeStep DEF Inv
<1>2. ASSUME NEW c \in Check, Arrive(c) PROVE Chain'
  <2>1. /\ pc[c] = "idle" /\ pc'[c] = "gate"
        /\ \A b \in Check : b # c => pc'[b] = pc[b]
    BY <1>2 DEF Arrive, Goto, Inv, TypeOK
  <2>2. UNCHANGED <<cmd, permId, reply, chanVars, stateVars, card, job, accepted>>
    BY <1>2 DEF Arrive
  <2>3. WaiterDrewId' /\ DrawnOnce'
    BY <2>1, <2>2 DEF Inv, TypeOK, WaiterDrewId, DrawnOnce, Live, Gated, chanVars
  <2>4. UserVerdictWasGiven' /\ ApprovalHasReason'
    BY <2>2 DEF Inv, UserVerdictWasGiven, ApprovalHasReason, Gated, Destructive
  <2>5. SilentIsRegistered'
    BY <2>1, <2>2 DEF Inv, SilentIsRegistered, Registered, chanVars
  <2> QED
    BY <2>2, <2>3, <2>4, <2>5, CardsKeep, CarriedKeeps DEF Chain, CheckSide, chanVars
<1>3. ASSUME NEW c \in Check, Elapse(c) PROVE Chain'
  BY <1>3, CheckSideKeeps, CardsKeep, CarriedKeeps DEF Elapse, Chain, chanVars
<1>4. ASSUME NEW c \in Check, GiveUp(c) PROVE Chain'
  <2>1. UNCHANGED <<cmd, permId, reply, chanVars, stateVars, card, job, accepted>>
    BY <1>4 DEF GiveUp
  <2>2. CheckSide'
    BY <1>4, <2>1, GotoKeeps DEF GiveUp, Live, Registered
  <2> QED
    BY <2>1, <2>2, CardsKeep, CarriedKeeps DEF Chain, chanVars
<1>5. ASSUME NEW c \in Check, CheckStep(c) PROVE Chain'
  BY <1>4, <1>5, GateKeeps, RegisterKeeps, InsertPendingKeeps, SendPromptKeeps, MarkSentKeeps,
     ReceiveKeeps, RemoveWaiterKeeps, ExpireKeeps DEF CheckStep
<1>6. ASSUME Tick \/ UNCHANGED vars PROVE Chain'
  <2>1. UNCHANGED <<cmd, pc, permId, reply, rx, waiters, perms, disk, card, job, accepted>>
    BY <1>6 DEF Tick, vars, checkVars, chanVars, stateVars
  <2>2. CheckSide'
    BY <2>1, CheckSideKeeps DEF chanVars
  <2>3. CardDrewId' /\ CardTellsADecision' /\ CarriedWasAccepted'
    BY <2>1, CardsKeep, CarriedKeeps DEF stateVars
  <2> QED
    BY <2>2, <2>3 DEF Chain
<1>7. ASSUME NEW r \in Resolver, Release(r) \/ EditCard(r) PROVE Chain'
  BY <1>7, ReleaseKeeps, EditCardKeeps
<1>8. Chain'
  <2>1. CASE Next
    <3>1. CardDrewId
      BY DEF Inv
    <3>2. \/ \E c \in Check : Arrive(c) \/ Elapse(c) \/ CheckStep(c)
          \/ \E r \in Resolver, i \in PermId, v \in Verdict, shown \in Check \cup {NoCheck} :
               Resolve(r, i, v, shown)
          \/ \E r \in Resolver : Release(r) \/ EditCard(r)
          \/ Tick \/ Crash \/ Restart
      BY <2>1, <3>1, NextCases
    <3> QED
      BY <1>2, <1>3, <1>5, <1>6, <1>7, <3>2, ResolveKeeps, CrashKeeps, RestartKeeps
  <2> QED
    BY <1>6, <2>1
<1> QED
  BY <1>1, <1>8 DEF Inv, Chain, CheckSide

LEMMA Invariance == Safety => []Inv
BY InitInv, StepInv, PTL DEF Safety

\* A command that the gate matches and that is destructive is approved on
\* nobody's word but the owner's: of the three reasons for an approval only
\* the owner's is left, and that one was accepted for the check's id.
LEMMA InvClosesDestructive == Inv => DestructiveFailsClosed
BY DEF Inv, ApprovalHasReason, UserVerdictWasGiven, DestructiveFailsClosed

LEMMA InvReaches == Inv => WaitingIsReachable
BY DEF Inv, SilentIsRegistered, WaitingIsReachable, Registered

\* Every variable keeps its type, in every instance of the model.
THEOREM TypeCorrect == Safety => []TypeOK
<1>1. Inv => TypeOK
  BY DEF Inv
<1> QED
  BY <1>1, Invariance, PTL

\* The fail-closed promise of PermService::check, for any number of checks
\* (sharing ids or not), resolvers, failed flushes and crashes.
THEOREM FailsClosed == Safety => []DestructiveFailsClosed
BY InvClosesDestructive, Invariance, PTL

\* Whoever is told "the user approved" or "the user denied" is told a decision
\* that the state actor had accepted.
THEOREM VerdictsAreGiven == Safety => []UserVerdictWasGiven
<1>1. Inv => UserVerdictWasGiven
  BY DEF Inv
<1> QED
  BY <1>1, Invariance, PTL

\* No check waits on a silent channel that the registry does not know.
THEOREM NoLostWakeup == Safety => []WaitingIsReachable
BY InvReaches, Invariance, PTL

\* An edited card tells a decision that was accepted for its check's id.
THEOREM CardsTellDecisions == Safety => []CardTellsADecision
<1>1. Inv => CardTellsADecision
  BY DEF Inv
<1> QED
  BY <1>1, Invariance, PTL

-----------------------------------------------------------------------------
(* The registry holds no sender of a check that was answered *)

\* A check the registry knows has a silent channel, and waits for it or was
\* ended by an error.
RegisteredIsSilent ==
  \A i \in PermId : waiters[i] # NoCheck =>
    /\ rx[waiters[i]] = "empty"
    /\ pc[waiters[i]] \in {"insert", "send", "mark", "wait", "remove", "done"}
    /\ pc[waiters[i]] = "done" => reply[waiters[i]].verdict = "none"

\* A check that is about to register has a silent channel.
SilentBefore == \A c \in Check : pc[c] = "register" => rx[c] = "empty"

RegistryInv == RegisteredIsSilent /\ SilentBefore

\* A check ends without taking its sender out: its answer was an error, or the
\* sender was gone.
LEMMA AnswerKeepsRegistry ==
  ASSUME Inv, RegistryInv, NEW c \in Check, NEW from \in Live, NEW v \in Verdict \cup {"none"},
         NEW why \in Reason, Answer(c, from, v, why),
         from = "expire" \/ v = "none" \/ rx[c] # "empty" \/ from = "gate",
         UNCHANGED chanVars
  PROVE  RegistryInv'
<1>1. /\ pc[c] = from /\ pc'[c] = "done" /\ reply'[c].verdict = v
      /\ \A b \in Check : b # c => pc'[b] = pc[b] /\ reply'[b] = reply[b]
  BY AnswerFacts DEF Inv, PC
<1> QED
  BY <1>1 DEF RegistryInv, RegisteredIsSilent, SilentBefore, chanVars, Inv, TypeOK

\* A check goes on, the registry and its channel untouched.
LEMMA GotoKeepsRegistry ==
  ASSUME Inv, RegistryInv, NEW c \in Check, NEW from, NEW to, Goto(c, from, to),
         to \in {"gate", "insert", "send", "mark", "wait", "remove"}
           \/ (to = "register" /\ rx[c] = "empty"),
         from \in {"idle", "gate"} \/ to \notin {"gate", "register"},
         UNCHANGED <<reply, chanVars>>
  PROVE  RegistryInv'
<1>1. /\ pc[c] = from /\ pc'[c] = to
      /\ \A b \in Check : b # c => pc'[b] = pc[b]
  BY DEF Goto, Inv, TypeOK
<1> QED
  BY <1>1 DEF RegistryInv, RegisteredIsSilent, SilentBefore, chanVars, Inv, TypeOK, WaiterDrewId

\* Nothing the registry's invariant speaks of has changed.
LEMMA SameRegistry ==
  ASSUME RegistryInv, UNCHANGED <<pc, reply, chanVars>>
  PROVE  RegistryInv'
BY DEF RegistryInv, RegisteredIsSilent, SilentBefore, chanVars

\* One step of a check.
LEMMA CheckKeepsRegistry ==
  ASSUME Inv, RegistryInv, NEW c \in Check, CheckStep(c)
  PROVE  RegistryInv'
<1>1. CASE Gate(c)
  <2>1. UNCHANGED chanVars
    BY <1>1 DEF Gate
  <2>2. CASE \/ Answer(c, "gate", "deny", "approval_gate_tampered")
             \/ Answer(c, "gate", "none", "http_500")
             \/ Answer(c, "gate", "approve", "no_gate_match")
    BY <2>1, <2>2, AnswerKeepsRegistry DEF Live, Verdict, Reason
  <2>3. CASE Goto(c, "gate", "register") /\ UNCHANGED reply
    <3>1. rx[c] = "empty"
      BY <2>3 DEF Goto, Inv, DrawnOnce
    <3> QED
      BY <2>1, <2>3, <3>1, GotoKeepsRegistry
  <2> QED
    BY <1>1, <2>2, <2>3 DEF Gate
<1>2. CASE Register(c)
  <2>1. /\ pc[c] = "register" /\ pc'[c] = "insert" /\ permId[c] \in PermId /\ rx[c] = "empty"
        /\ \A b \in Check : b # c => pc'[b] = pc[b]
    BY <1>2 DEF Register, Goto, Inv, TypeOK, DrawnOnce, Live, RegistryInv, SilentBefore
  <2>2. \A i \in PermId : waiters[i] # c
    BY <2>1, ConstAssumption DEF RegistryInv, RegisteredIsSilent
  <2>3. /\ UNCHANGED <<permId, reply>>
        /\ waiters' = [waiters EXCEPT ![permId[c]] = c]
        /\ \A b \in Check : rx'[b] = IF b = waiters[permId[c]] THEN "closed" ELSE rx[b]
    BY <1>2, <2>1, ConstAssumption DEF Register, Drop, Inv, TypeOK
  <2>4. \A i \in PermId : i # permId[c] /\ waiters[i] # NoCheck => waiters[i] # waiters[permId[c]]
    BY <2>1 DEF Inv, WaiterDrewId
  <2>5. RegisteredIsSilent'
    BY <2>1, <2>2, <2>3, <2>4 DEF RegistryInv, RegisteredIsSilent, Inv, TypeOK
  <2>6. SilentBefore'
    BY <2>1, <2>3, ConstAssumption DEF RegistryInv, RegisteredIsSilent, SilentBefore, Inv, TypeOK
  <2> QED
    BY <2>5, <2>6 DEF RegistryInv
<1>3. CASE InsertPending(c)
  <2>1. CASE Goto(c, "insert", "send") /\ UNCHANGED reply
    BY <1>3, <2>1, GotoKeepsRegistry DEF InsertPending
  <2>2. CASE Answer(c, "insert", "none", "http_500")
    BY <1>3, <2>2, AnswerKeepsRegistry DEF InsertPending, Live, Reason
  <2> QED
    BY <1>3, <2>1, <2>2 DEF InsertPending
<1>4. CASE SendPrompt(c)
  <2>1. UNCHANGED chanVars
    BY <1>4 DEF SendPrompt
  <2>2. CASE (Goto(c, "send", "mark") \/ Goto(c, "send", "wait")) /\ UNCHANGED reply
    BY <2>1, <2>2, GotoKeepsRegistry
  <2>3. CASE Answer(c, "send", "none", "http_500") \/ Answer(c, "send", "none", "eof")
    BY <2>1, <2>3, AnswerKeepsRegistry DEF Live, Reason
  <2> QED
    BY <1>4, <2>2, <2>3 DEF SendPrompt
<1>5. CASE MarkSent(c)
  <2>1. CASE Goto(c, "mark", "wait") /\ UNCHANGED reply
    BY <1>5, <2>1, GotoKeepsRegistry DEF MarkSent
  <2>2. CASE Answer(c, "mark", "none", "http_500")
    BY <1>5, <2>2, AnswerKeepsRegistry DEF MarkSent, Live, Reason
  <2> QED
    BY <1>5, <2>1, <2>2 DEF MarkSent
<1>6. CASE Receive(c)
  <2>1. rx[c] # "empty" /\ UNCHANGED chanVars
    BY <1>6 DEF Receive
  <2> QED
    BY <1>6, <2>1, AnswerKeepsRegistry DEF Receive, Live, Reason, Verdict
<1>7. CASE GiveUp(c)
  BY <1>7, GotoKeepsRegistry DEF GiveUp
<1>8. CASE RemoveWaiter(c)
  <2>1. /\ pc[c] = "remove" /\ pc'[c] = "expire" /\ permId[c] \in PermId
        /\ \A b \in Check : b # c => pc'[b] = pc[b]
    BY <1>8 DEF RemoveWaiter, Goto, Inv, TypeOK, DrawnOnce, Live
  <2>2. /\ UNCHANGED <<permId, reply>>
        /\ waiters' = [waiters EXCEPT ![permId[c]] = NoCheck]
        /\ \A b \in Check : rx'[b] = IF b = waiters[permId[c]] THEN "closed" ELSE rx[b]
    BY <1>8, <2>1, ConstAssumption DEF RemoveWaiter, Drop, Inv, TypeOK
  <2>3. \A i \in PermId : waiters'[i] # NoCheck =>
          /\ waiters[i] = waiters'[i] /\ waiters[i] \in Check
          /\ waiters[i] # c /\ waiters[i] # waiters[permId[c]]
    BY <2>1, <2>2 DEF Inv, TypeOK, WaiterDrewId
  <2>4. RegisteredIsSilent'
    BY <2>1, <2>2, <2>3 DEF RegistryInv, RegisteredIsSilent
  <2>5. SilentBefore'
    BY <2>1, <2>2, ConstAssumption DEF RegistryInv, RegisteredIsSilent, SilentBefore
  <2> QED
    BY <2>4, <2>5 DEF RegistryInv
<1>9. CASE Expire(c)
  <2>1. UNCHANGED chanVars
    BY <1>9 DEF Expire
  <2> QED
    BY <1>9, <2>1, AnswerKeepsRegistry DEF Expire, Live, Verdict, Reason
<1> QED
  BY <1>1, <1>2, <1>3, <1>4, <1>5, <1>6, <1>7, <1>8, <1>9 DEF CheckStep

LEMMA RegistryStep == Inv /\ RegistryInv /\ [Next]_vars => RegistryInv'
<1> SUFFICES ASSUME Inv, RegistryInv, [Next]_vars PROVE RegistryInv'
  OBVIOUS
<1>1. ASSUME NEW c \in Check, Arrive(c) PROVE RegistryInv'
  BY <1>1, GotoKeepsRegistry DEF Arrive
<1>2. ASSUME NEW r \in Resolver, Release(r) PROVE RegistryInv'
  <2> DEFINE i == job[r].id
  <2>1. i \in PermId /\ UNCHANGED <<pc, permId, reply>> /\ waiters' = [waiters EXCEPT ![i] = NoCheck]
    BY <1>2 DEF Release, Inv, CarriedWasAccepted, checkVars
  <2>2. \A b \in Check : rx'[b] = IF b = waiters[i] THEN job[r].verdict ELSE rx[b]
    BY <1>2, <2>1, ConstAssumption DEF Release, Inv, TypeOK
  <2> HIDE DEF i
  <2>3. \A j \in PermId : waiters'[j] # NoCheck =>
          waiters[j] = waiters'[j] /\ waiters[j] \in Check /\ waiters[j] # waiters[i]
    BY <2>1 DEF Inv, TypeOK, WaiterDrewId
  <2>4. RegisteredIsSilent'
    BY <2>1, <2>2, <2>3 DEF RegistryInv, RegisteredIsSilent
  <2>5. SilentBefore'
    BY <2>1, <2>2, ConstAssumption DEF RegistryInv, RegisteredIsSilent, SilentBefore
  <2> QED
    BY <2>4, <2>5 DEF RegistryInv
<1>3. ASSUME Crash PROVE RegistryInv'
  BY <1>3 DEF Crash, RegistryInv, RegisteredIsSilent, SilentBefore, Live
<1>4. CASE UNCHANGED vars
  BY <1>4, SameRegistry DEF vars, checkVars, chanVars
<1>5. ASSUME NEW c \in Check, Elapse(c) PROVE RegistryInv'
  BY <1>5, SameRegistry DEF Elapse
<1>6. ASSUME NEW r \in Resolver, NEW i \in PermId, NEW v \in Verdict,
             NEW shown \in Check \cup {NoCheck}, Resolve(r, i, v, shown)
      PROVE  RegistryInv'
  BY <1>6, SameRegistry DEF Resolve, checkVars
<1>7. ASSUME NEW r \in Resolver, EditCard(r) PROVE RegistryInv'
  BY <1>7, SameRegistry DEF EditCard, checkVars
<1>8. ASSUME Tick \/ Restart PROVE RegistryInv'
  BY <1>8, SameRegistry DEF Tick, Restart, checkVars
<1>9. CASE Next
  <2>1. CardDrewId
    BY DEF Inv
  <2>2. \/ \E c \in Check : Arrive(c) \/ Elapse(c) \/ CheckStep(c)
        \/ \E r \in Resolver, i \in PermId, v \in Verdict, shown \in Check \cup {NoCheck} :
             Resolve(r, i, v, shown)
        \/ \E r \in Resolver : Release(r) \/ EditCard(r)
        \/ Tick \/ Crash \/ Restart
    BY <1>9, <2>1, NextCases
  <2> QED
    BY <1>1, <1>2, <1>3, <1>5, <1>6, <1>7, <1>8, <2>2, CheckKeepsRegistry
<1> QED
  BY <1>4, <1>9

\* A check that has its answer, or was given up on, has left the registry: no
\* sender is kept for it, for any number of checks that share an id or not.
THEOREM NoSenderStays == Safety => []NoOrphanWaiter
<1>1. Init => RegistryInv
  BY DEF Init, RegistryInv, RegisteredIsSilent, SilentBefore
<1>2. Inv /\ RegistryInv => NoOrphanWaiter
  <2> SUFFICES ASSUME Inv, RegistryInv, NEW i \in PermId, waiters[i] # NoCheck
               PROVE  reply[waiters[i]].verdict = "none"
    BY DEF NoOrphanWaiter
  <2>1. waiters[i] \in Check /\ pc[waiters[i]] # "done" =>
          reply[waiters[i]] = NoReply
    BY DEF Inv, TypeOK, DrawnOnce, PC
  <2> QED
    BY <2>1 DEF Inv, TypeOK, RegistryInv, RegisteredIsSilent, NoReply
<1> QED
  BY <1>1, <1>2, RegistryStep, Invariance, PTL DEF Safety

-----------------------------------------------------------------------------
(* What timed out is closed, in memory and on disk *)

\* Every check draws an id of its own.
OwnIds == \A b, c \in Check : b # c /\ permId[b] \in PermId => permId[b] # permId[c]

\* The perm of a check that answered for lack of a decision is closed wherever
\* it is kept: a restart cannot bring it back open.
TimedOutIsClosed ==
  \A c \in Check : reply[c].reason \in TimeoutReason =>
    /\ permId[c] \in PermId
    /\ perms[permId[c]].status \notin Open /\ disk[permId[c]].status \notin Open

ClosedInv == OwnIds /\ TimedOutIsClosed

\* A check that timed out is done and drew an id.
LEMMA TimedOutIsDone ==
  ASSUME Inv, NEW c \in Check, reply[c].reason \in TimeoutReason
  PROVE  pc[c] = "done"
<1>1. reply[c].reason # "none"
  BY DEF TimeoutReason
<1>2. pc[c] \in Live \ {"gate"} \/ pc[c] \in {"idle", "gate"} => reply[c] = NoReply
  BY DEF Inv, DrawnOnce
<1> QED
  BY <1>1, <1>2 DEF Inv, TypeOK, PC, NoReply

\* The perms change at one id only, which none that timed out drew, or stay closed.
LEMMA PublishKeepsClosed ==
  ASSUME Inv, ClosedInv, NEW p \in [PermId -> Perm], NEW flushed \in BOOLEAN,
         Publish(p, flushed), UNCHANGED permId,
         \A c \in Check : reply'[c].reason \in TimeoutReason =>
           reply[c].reason \in TimeoutReason /\ p[permId[c]].status \notin Open
  PROVE  ClosedInv'
<1>1. perms' = p /\ disk' \in {disk, p}
  BY PublishFacts DEF Inv
<1>2. TimedOutIsClosed'
  BY <1>1 DEF ClosedInv, TimedOutIsClosed
<1> QED
  BY <1>2 DEF ClosedInv, OwnIds

\* The perms stay, and no check times out.
LEMMA SameClosed ==
  ASSUME ClosedInv, UNCHANGED <<permId, stateVars>>,
         \A c \in Check : reply'[c].reason \in TimeoutReason => reply[c].reason \in TimeoutReason
  PROVE  ClosedInv'
BY DEF ClosedInv, OwnIds, TimedOutIsClosed, stateVars

\* A check answers for another reason, or moves on.
LEMMA NoNewTimeout ==
  ASSUME Inv, NEW c \in Check, NEW from \in Live,
         \/ UNCHANGED reply
         \/ \E v \in Verdict \cup {"none"}, why \in Reason \ TimeoutReason : Answer(c, from, v, why)
  PROVE  \A b \in Check : reply'[b].reason \in TimeoutReason =>
           reply[b].reason \in TimeoutReason /\ (pc[c] # "done" => b # c)
<1>1. CASE UNCHANGED reply
  BY <1>1, TimedOutIsDone
<1>2. ASSUME NEW v \in Verdict \cup {"none"}, NEW why \in Reason \ TimeoutReason,
             Answer(c, from, v, why)
      PROVE  \A b \in Check : reply'[b].reason \in TimeoutReason =>
               reply[b].reason \in TimeoutReason /\ b # c
  <2>1. TypeOK /\ from \in PC /\ why \in Reason /\ why \notin TimeoutReason
    BY <1>2 DEF Inv, PC
  <2>2. reply'[c].reason = why /\ \A b \in Check : b # c => reply'[b] = reply[b]
    BY <1>2, <2>1, AnswerFacts
  <2> QED
    BY <2>1, <2>2
<1> QED
  BY <1>1, <1>2

LEMMA CheckKeepsClosed ==
  ASSUME DistinctIds, Inv, ClosedInv, NEW c \in Check, CheckStep(c)
  PROVE  ClosedInv'
<1> DEFINE Quiet == \A b \in Check : reply'[b].reason \in TimeoutReason =>
                     reply[b].reason \in TimeoutReason /\ (pc[c] # "done" => b # c)
<1> USE DEF Live, Reason, TimeoutReason, Verdict
<1>1. CASE Gate(c)
  <2>1. Quiet /\ UNCHANGED stateVars
    BY <1>1, NoNewTimeout DEF Gate
  <2>2. CASE UNCHANGED permId
    BY <2>1, <2>2, SameClosed
  <2>3. CASE /\ \A b \in Check : permId[b] # now
             /\ pc[c] = "gate" /\ permId' = [permId EXCEPT ![c] = now]
    <3>1. /\ permId'[c] = now /\ permId[c] = NoId
          /\ \A b \in Check : b # c => permId'[b] = permId[b]
      BY <2>3 DEF Inv, TypeOK, DrawnOnce
    <3>2. OwnIds'
      BY <2>3, <3>1 DEF ClosedInv, OwnIds
    <3>3. TimedOutIsClosed'
      BY <2>1, <2>3, <3>1 DEF ClosedInv, TimedOutIsClosed, stateVars
    <3> QED
      BY <3>2, <3>3 DEF ClosedInv
  <2> QED
    BY <1>1, <2>2, <2>3 DEF Gate, Goto
<1>2. CASE Register(c) \/ GiveUp(c) \/ RemoveWaiter(c) \/ Receive(c) \/ SendPrompt(c)
  <2>1. Quiet
    BY <1>2, NoNewTimeout DEF Register, GiveUp, RemoveWaiter, Receive, SendPrompt
  <2> HIDE DEF Live, Reason, TimeoutReason, Verdict
  <2> QED
    BY <1>2, <2>1, SameClosed DEF Register, GiveUp, RemoveWaiter, Receive, SendPrompt
<1>3. ASSUME NEW st \in {"Pending", "Sent"}, NEW msg \in Check \cup {NoCheck},
             pc[c] \in Live, permId[c] \in PermId, UNCHANGED permId, Quiet,
             NEW f \in BOOLEAN, Publish([perms EXCEPT ![permId[c]] = [status |-> st, msg |-> msg]], f)
      PROVE  ClosedInv'
  <2> DEFINE p == [perms EXCEPT ![permId[c]] = [status |-> st, msg |-> msg]]
  <2>1. p \in [PermId -> Perm]
    BY <1>3 DEF Inv, TypeOK, Perm, Status, Open
  <2>2. \A b \in Check : reply'[b].reason \in TimeoutReason =>
          reply[b].reason \in TimeoutReason /\ permId[b] # permId[c]
    BY <1>3 DEF ClosedInv, OwnIds
  <2>3. \A b \in Check : reply[b].reason \in TimeoutReason /\ permId[b] # permId[c] =>
          p[permId[b]] = perms[permId[b]]
    BY DEF Inv, TypeOK
  <2>4. \A b \in Check : reply'[b].reason \in TimeoutReason =>
          reply[b].reason \in TimeoutReason /\ p[permId[b]].status \notin Open
    BY <2>2, <2>3 DEF ClosedInv, TimedOutIsClosed
  <2> HIDE DEF p
  <2> QED
    BY <1>3, <2>1, <2>4, PublishKeepsClosed DEF p
<1>4. CASE InsertPending(c)
  <2>1. permId[c] \in PermId /\ Quiet
    BY <1>4, NoNewTimeout DEF InsertPending, Inv, DrawnOnce
  <2> QED
    BY <1>3, <1>4, <2>1 DEF InsertPending
<1>5. CASE MarkSent(c)
  <2>1. permId[c] \in PermId /\ Quiet
    BY <1>5, NoNewTimeout DEF MarkSent, Inv, DrawnOnce
  <2> QED
    BY <1>3, <1>5, <2>1 DEF MarkSent
<1>6. CASE Expire(c)
  <2> DEFINE p == IF IsOpen(permId[c]) THEN [perms EXCEPT ![permId[c]].status = "TimedOut"] ELSE perms
  <2>1. permId[c] \in PermId /\ UNCHANGED permId
    BY <1>6 DEF Expire, Inv, DrawnOnce
  <2>2. perms[permId[c]] \in Perm /\ perms \in [PermId -> Perm]
    BY <2>1 DEF Inv, TypeOK
  <2>3. p \in [PermId -> Perm] /\ p[permId[c]].status \notin Open
        /\ \A i \in PermId : i # permId[c] => p[i] = perms[i]
    <3>1. [perms EXCEPT ![permId[c]].status = "TimedOut"] \in [PermId -> Perm]
      BY <2>1, NewPerms DEF Inv, Status
    <3>2. p[permId[c]].status \notin Open
      BY <2>1, <2>2 DEF Perm, Open, IsOpen
    <3> QED
      BY <2>1, <2>2, <3>1, <3>2
  <2>4. \A b \in Check : b # c /\ reply[b].reason \in TimeoutReason =>
          permId[b] \in PermId /\ permId[b] # permId[c] /\ p[permId[b]].status \notin Open
    BY <2>1, <2>3 DEF ClosedInv, OwnIds, TimedOutIsClosed
  <2>5. \A b \in Check : reply[b].reason \in TimeoutReason => b # c
    BY <1>6, TimedOutIsDone DEF Expire
  <2> HIDE DEF p
  <2>6. CASE Publish(p, TRUE) /\ \E v \in Verdict, why \in TimeoutReason : Answer(c, "expire", v, why)
    <3>1. perms' = p /\ disk' = p
      BY <2>6 DEF Publish
    <3>2. \A b \in Check : b # c => reply'[b] = reply[b]
      BY <2>6, AnswerFacts DEF Inv, PC
    <3> QED
      BY <2>1, <2>3, <2>4, <3>1, <3>2 DEF ClosedInv, OwnIds, TimedOutIsClosed
  <2>7. CASE Publish(p, FALSE) /\ Answer(c, "expire", "none", "http_500")
    <3>1. Quiet
      BY <2>7, NoNewTimeout
    <3> QED
      BY <2>1, <2>3, <2>4, <2>5, <2>7, <3>1, PublishKeepsClosed
  <2> QED
    BY <1>6, <2>6, <2>7 DEF Expire, p
<1> QED
  BY <1>1, <1>2, <1>4, <1>5, <1>6 DEF CheckStep

LEMMA ResolveKeepsClosed ==
  ASSUME Inv, ClosedInv, NEW r \in Resolver, NEW i \in PermId, NEW v \in Verdict,
         NEW shown \in Check \cup {NoCheck}, Resolve(r, i, v, shown)
  PROVE  ClosedInv'
<1> DEFINE p == [perms EXCEPT ![i].status = SettledStatus(r, v)]
<1>1. UNCHANGED <<permId, reply>> /\ \E f \in BOOLEAN : Publish(p, f)
  BY DEF Resolve, checkVars
<1>2. SettledStatus(r, v) \in Status \ Open
  BY DEF SettledStatus, Status, Settled, Open
<1>3. p \in [PermId -> Perm]
  <2>1. perms \in [PermId -> Perm]
    BY DEF Inv, TypeOK
  <2> QED
    BY <1>2, <2>1 DEF Perm
<1>4. \A j \in PermId : p[j].status = perms[j].status \/ p[j].status \notin Open
  BY <1>2 DEF Inv, TypeOK, Perm
<1>5. \A c \in Check : reply[c].reason \in TimeoutReason =>
        p[permId[c]].status \notin Open
  BY <1>4 DEF ClosedInv, TimedOutIsClosed
<1> HIDE DEF p
<1> QED
  BY <1>1, <1>3, <1>5, PublishKeepsClosed

LEMMA ClosedStep == DistinctIds /\ Inv /\ ClosedInv /\ [Next]_vars => ClosedInv'
<1> SUFFICES ASSUME DistinctIds, Inv, ClosedInv, [Next]_vars PROVE ClosedInv'
  OBVIOUS
<1>1. CASE UNCHANGED <<permId, reply, stateVars>>
  BY <1>1, SameClosed
<1>2. ASSUME Crash PROVE ClosedInv'
  <2>1. \A c \in Check : reply'[c].reason \in TimeoutReason => reply[c].reason \in TimeoutReason
    BY <1>2 DEF Crash, TimeoutReason
  <2> QED
    BY <1>2, <2>1, SameClosed DEF Crash
<1>3. ASSUME Restart PROVE ClosedInv'
  BY <1>3 DEF Restart, checkVars, ClosedInv, OwnIds, TimedOutIsClosed
<1>4. ASSUME \/ \E c \in Check : Arrive(c) \/ Elapse(c)
             \/ \E r \in Resolver : Release(r) \/ EditCard(r)
             \/ Tick \/ UNCHANGED vars
      PROVE  ClosedInv'
  BY <1>1, <1>4 DEF Arrive, Elapse, Release, EditCard, Tick, vars, checkVars
<1>5. CASE Next
  <2>1. CardDrewId
    BY DEF Inv
  <2>2. \/ \E c \in Check : Arrive(c) \/ Elapse(c) \/ CheckStep(c)
        \/ \E r \in Resolver, i \in PermId, v \in Verdict, shown \in Check \cup {NoCheck} :
             Resolve(r, i, v, shown)
        \/ \E r \in Resolver : Release(r) \/ EditCard(r)
        \/ Tick \/ Crash \/ Restart
    BY <1>5, <2>1, NextCases
  <2> QED
    BY <1>2, <1>3, <1>4, <2>2, CheckKeepsClosed, ResolveKeepsClosed
<1> QED
  BY <1>4, <1>5

\* If no two checks draw an id in one millisecond, a check that timed out leaves
\* its perm closed for good: by what others publish, by failed flushes, and when
\* a restart brings state.json back.
THEOREM TimeoutsStayClosed ==
  ASSUME DistinctIds PROVE Safety => []TimedOutIsNotOpen
<1>1. Init => ClosedInv
  BY DEF Init, ClosedInv, OwnIds, TimedOutIsClosed, TimeoutReason, NoReply, PermId, NoId
<1>2. Inv /\ ClosedInv /\ [Next]_vars => ClosedInv'
  BY ClosedStep
<1>3. ClosedInv => TimedOutIsNotOpen
  BY DEF ClosedInv, TimedOutIsClosed, TimedOutIsNotOpen, IsOpen
<1> QED
  BY <1>1, <1>2, <1>3, Invariance, PTL DEF Safety

-----------------------------------------------------------------------------
(* PermCheck implements ApprovalPolicy *)

\* The two refined variables that change; the third, kind, is cmd's.
Word  == [c \in Check |-> IF permId[c] = NoId THEN {} ELSE accepted[permId[c]]]
Kind  == [c \in Check |->
            IF ~Gated(c) THEN "free" ELSE IF Destructive(c) THEN "guard" ELSE "ask"]

\* The initial states of a check are a policy without a decision or an answer.
LEMMA RefinesInit == Init => Policy!Init
BY DEF Init, Policy!Init, Policy!Unanswered, NoReply, Gated, Destructive

\* While no check answers, what the owner has said can only grow.
LEMMA DecideStep ==
  ASSUME Inv, UNCHANGED <<cmd, reply>>,
         \A c \in Check : permId[c] # NoId => permId'[c] = permId[c],
         \A i \in PermId : accepted[i] \subseteq accepted'[i],
         TypeOK'
  PROVE  Policy!Decide
<1>1. Kind' = Kind
  BY DEF Kind, Gated, Destructive
<1>2. Word' \in [Check -> SUBSET Verdict]
  BY DEF Word, TypeOK
<1>3. \A c \in Check : Word[c] \subseteq Word'[c]
  BY DEF Word, Inv, TypeOK
<1> QED
  BY <1>1, <1>2, <1>3 DEF Policy!Decide, Word, Kind

\* A check in flight answers once, for a reason the policy allows.
LEMMA AnswerStep ==
  ASSUME Inv, NEW c \in Check, NEW from \in Live, NEW v \in Verdict \cup {"none"},
         NEW why \in Reason, Answer(c, from, v, why),
         UNCHANGED <<cmd, permId, accepted>>, Policy!Allowed(c, v, why)
  PROVE  Policy!Reply
<1>1. /\ pc[c] = from /\ reply'[c].verdict = v /\ reply'[c].reason = why
      /\ \A b \in Check : b # c => reply'[b] = reply[b]
  BY AnswerFacts DEF Inv, PC
<1>2. reply[c] = NoReply
  BY <1>1 DEF Inv, DrawnOnce, Live
<1>3. UNCHANGED <<Kind, Word>>
  BY DEF Kind, Word, Gated, Destructive
<1> QED
  BY <1>1, <1>2, <1>3 DEF Policy!Reply, Policy!Unanswered, NoReply, Kind, Word

\* Why each of the answers of the code is allowed.
LEMMA AllowedReasons ==
  ASSUME Inv, NEW c \in Check
  PROVE  /\ Policy!Allowed(c, "deny", "approval_gate_tampered")
         /\ Policy!Allowed(c, "none", "http_500")
         /\ Policy!Allowed(c, "none", "eof")
         /\ ~Gated(c) => Policy!Allowed(c, "approve", "no_gate_match")
         /\ ~Destructive(c) => Policy!Allowed(c, "approve", "timeout_fail_open")
         /\ Gated(c) /\ Destructive(c) => Policy!Allowed(c, "deny", "timeout_fail_closed")
         /\ rx[c] = "approve" => Policy!Allowed(c, "approve", "user_approved")
         /\ rx[c] = "deny" => Policy!Allowed(c, "deny", "user_denied")
<1>1. rx[c] \in Verdict => permId[c] \in PermId /\ permId[c] # NoId /\ rx[c] \in accepted[permId[c]]
  BY ConstAssumption DEF Inv, CarriedWasAccepted, PermId, NoId
<1> QED
  BY <1>1 DEF Policy!Allowed, Verdict

\* Every step is a step of the policy or leaves it alone.
LEMMA RefinesStep ==
  ASSUME Inv, Inv', [Next]_vars
  PROVE  [Policy!Next]_(Policy!policyVars)
<1> SUFFICES Policy!Decide \/ Policy!Reply
  BY DEF Policy!Next
<1>0. TypeOK' /\ CardDrewId
  BY DEF Inv
<1>1. ASSUME UNCHANGED <<cmd, permId, reply, accepted>> PROVE Policy!Decide
  BY <1>0, <1>1, DecideStep
<1>2. ASSUME NEW c \in Check, NEW from \in Live, NEW v \in Verdict \cup {"none"},
             NEW why \in Reason, Answer(c, from, v, why),
             UNCHANGED <<cmd, permId, accepted>>, Policy!Allowed(c, v, why)
      PROVE  Policy!Reply
  BY <1>2, AnswerStep
<1>3. Live = {"gate", "register", "insert", "send", "mark", "wait", "remove", "expire"}
  BY DEF Live
<1>4. /\ "approve" \in Verdict /\ "deny" \in Verdict
      /\ {"http_500", "eof", "no_gate_match", "approval_gate_tampered", "user_approved",
          "user_denied", "timeout_fail_closed", "timeout_fail_open"} \subseteq Reason
  BY DEF Verdict, Reason
<1>5. ASSUME NEW c \in Check, Gate(c) PROVE Policy!Decide \/ Policy!Reply
  <2>1. UNCHANGED <<cmd, accepted>>
    BY <1>5 DEF Gate
  <2>2. CASE /\ Goto(c, "gate", "register") /\ permId' = [permId EXCEPT ![c] = now]
             /\ UNCHANGED reply
    <3>1. permId[c] = NoId
      BY <2>2 DEF Goto, Inv, DrawnOnce
    <3>2. \A b \in Check : permId[b] # NoId => permId'[b] = permId[b]
      BY <2>2, <3>1 DEF Inv, TypeOK
    <3> QED
      BY <1>0, <2>1, <2>2, <3>2, DecideStep
  <2>3. CASE Answer(c, "gate", "deny", "approval_gate_tampered") /\ UNCHANGED permId
    BY <1>2, <1>3, <1>4, <2>1, <2>3, AllowedReasons
  <2>4. CASE Answer(c, "gate", "none", "http_500") /\ UNCHANGED permId
    BY <1>2, <1>3, <1>4, <2>1, <2>4, AllowedReasons
  <2>5. CASE ~Gated(c) /\ Answer(c, "gate", "approve", "no_gate_match") /\ UNCHANGED permId
    BY <1>2, <1>3, <1>4, <2>1, <2>5, AllowedReasons
  <2> QED
    BY <1>5, <2>2, <2>3, <2>4, <2>5 DEF Gate
<1>6. ASSUME NEW c \in Check, InsertPending(c) \/ SendPrompt(c) \/ MarkSent(c)
      PROVE  Policy!Decide \/ Policy!Reply
  <2>1. UNCHANGED <<cmd, permId, accepted>>
    BY <1>6 DEF InsertPending, SendPrompt, MarkSent
  <2>2. \/ UNCHANGED reply
        \/ Answer(c, "insert", "none", "http_500") \/ Answer(c, "send", "none", "http_500")
        \/ Answer(c, "send", "none", "eof") \/ Answer(c, "mark", "none", "http_500")
    BY <1>6 DEF InsertPending, SendPrompt, MarkSent
  <2> QED
    BY <1>1, <1>2, <1>3, <1>4, <2>1, <2>2, AllowedReasons
<1>7. ASSUME NEW c \in Check, Receive(c) PROVE Policy!Reply
  <2>1. UNCHANGED <<cmd, permId, accepted>>
    BY <1>7 DEF Receive
  <2>2. CASE rx[c] = "approve" /\ Answer(c, "wait", "approve", "user_approved")
    BY <1>2, <1>3, <1>4, <2>1, <2>2, AllowedReasons
  <2>3. CASE rx[c] = "deny" /\ Answer(c, "wait", "deny", "user_denied")
    BY <1>2, <1>3, <1>4, <2>1, <2>3, AllowedReasons
  <2> QED
    BY <1>7, <2>2, <2>3 DEF Receive
<1>8. ASSUME NEW c \in Check, Expire(c) PROVE Policy!Reply
  <2>1. UNCHANGED <<cmd, permId, accepted>> /\ pc[c] = "expire"
    BY <1>8 DEF Expire
  <2>2. Gated(c)
    BY <2>1 DEF Inv, DrawnOnce, Live
  <2>3. CASE Destructive(c) /\ Answer(c, "expire", "deny", "timeout_fail_closed")
    BY <1>2, <1>3, <1>4, <2>1, <2>2, <2>3, AllowedReasons
  <2>4. CASE ~Destructive(c) /\ Answer(c, "expire", "approve", "timeout_fail_open")
    BY <1>2, <1>3, <1>4, <2>1, <2>4, AllowedReasons
  <2>5. CASE Answer(c, "expire", "none", "http_500")
    BY <1>2, <1>3, <1>4, <2>1, <2>5, AllowedReasons
  <2> QED
    BY <1>8, <2>3, <2>4, <2>5 DEF Expire
<1>9. ASSUME NEW c \in Check, CheckStep(c) PROVE Policy!Decide \/ Policy!Reply
  <2>1. CASE Register(c) \/ GiveUp(c) \/ RemoveWaiter(c)
    BY <1>1, <2>1 DEF Register, GiveUp, RemoveWaiter
  <2> QED
    BY <1>5, <1>6, <1>7, <1>8, <1>9, <2>1 DEF CheckStep
<1>10. ASSUME NEW r \in Resolver, NEW i \in PermId, NEW v \in Verdict,
              NEW shown \in Check \cup {NoCheck}, Resolve(r, i, v, shown)
       PROVE  Policy!Decide
  <2>1. UNCHANGED <<cmd, permId, reply>>
    BY <1>10 DEF Resolve, checkVars
  <2>2. \A j \in PermId : accepted[j] \subseteq accepted'[j]
    <3>1. accepted' \in {accepted, [accepted EXCEPT ![i] = accepted[i] \cup {v}]}
      BY <1>10 DEF Resolve
    <3> QED
      BY <3>1 DEF Inv, TypeOK
  <2> QED
    BY <1>0, <2>1, <2>2, DecideStep
<1>11. ASSUME Crash PROVE Policy!Reply
  <2>1. UNCHANGED <<cmd, permId, accepted>>
    BY <1>11 DEF Crash
  <2>2. \A c \in Check :
          \/ reply'[c] = reply[c]
          \/ reply[c] = NoReply /\ reply'[c] = [verdict |-> "none", reason |-> "eof"]
    BY <1>11 DEF Crash, Inv, DrawnOnce, Live
  <2>3. \A c \in Check : Policy!Allowed(c, "none", "eof")
    BY AllowedReasons
  <2>4. UNCHANGED <<Kind, Word>>
    BY <2>1 DEF Kind, Word, Gated, Destructive
  <2> QED
    BY <2>2, <2>3, <2>4 DEF Policy!Reply, Policy!Unanswered, NoReply, Kind, Word
<1>12. ASSUME \/ \E c \in Check : Arrive(c) \/ Elapse(c)
              \/ \E r \in Resolver : Release(r) \/ EditCard(r)
              \/ Tick \/ Restart \/ UNCHANGED vars
       PROVE  Policy!Decide
  <2>1. UNCHANGED <<cmd, permId, reply, accepted>>
    BY <1>12 DEF Arrive, Elapse, Release, EditCard, Tick, Restart, vars, checkVars
  <2> QED
    BY <1>1, <2>1
<1>13. CASE Next
  <2>1. \/ \E c \in Check : Arrive(c) \/ Elapse(c) \/ CheckStep(c)
        \/ \E r \in Resolver, i \in PermId, v \in Verdict, shown \in Check \cup {NoCheck} :
             Resolve(r, i, v, shown)
        \/ \E r \in Resolver : Release(r) \/ EditCard(r)
        \/ Tick \/ Crash \/ Restart
    BY <1>0, <1>13, NextCases
  <2> QED
    BY <1>9, <1>10, <1>11, <1>12, <2>1
<1> QED
  BY <1>12, <1>13

\* PermCheck implements ApprovalPolicy: a check is answered at most once, and
\* only for a reason the policy allows, whatever fails in between.
THEOREM Refinement == Safety => KeepsThePolicy
<1>1. Inv /\ Inv' /\ [Next]_vars => [Policy!Next]_(Policy!policyVars)
  BY RefinesStep
<1> QED
  BY <1>1, RefinesInit, Invariance, PTL DEF KeepsThePolicy, Safety, Policy!Spec

USE HookAssumption

-----------------------------------------------------------------------------
(* What the daemon's steps leave alone *)

Quiet == {"idle", "done"}

\* The class of a command never changes.
LEMMA SameCommand == Inv /\ Next => cmd' = cmd
<1> SUFFICES ASSUME Inv, Next PROVE cmd' = cmd
  OBVIOUS
<1>1. \/ \E c \in Check : Arrive(c) \/ Elapse(c) \/ CheckStep(c)
      \/ \E r \in Resolver, i \in PermId, v \in Verdict, shown \in Check \cup {NoCheck} :
           Resolve(r, i, v, shown)
      \/ \E r \in Resolver : Release(r) \/ EditCard(r)
      \/ Tick \/ Crash \/ Restart
  BY NextCases DEF Inv
<1>2. ASSUME NEW c \in Check, CheckStep(c) PROVE cmd' = cmd
  BY <1>2 DEF CheckStep, Gate, Register, InsertPending, SendPrompt, MarkSent, Receive, GiveUp,
              RemoveWaiter, Expire, checkVars
<1> QED
  BY <1>1, <1>2 DEF Arrive, Elapse, Resolve, Release, EditCard, Tick, Crash, Restart, checkVars

\* A check that has not arrived, or is done, is touched by nobody.
LEMMA QuietStays ==
  ASSUME Inv, Proceed \/ Crash \/ Restart, NEW c \in Check, pc[c] \in Quiet
  PROVE  pc'[c] = pc[c] /\ reply'[c] = reply[c]
<1> USE DEF Quiet
<1>1. \/ \E b \in Check : Elapse(b) \/ CheckStep(b)
      \/ \E r \in Resolver, i \in PermId, v \in Verdict, shown \in Check \cup {NoCheck} :
           Resolve(r, i, v, shown)
      \/ \E r \in Resolver : Release(r) \/ EditCard(r)
      \/ Tick \/ Crash \/ Restart
  BY ProceedCases DEF Inv
<1>2. ASSUME NEW b \in Check, CheckStep(b)
      PROVE  pc'[c] = pc[c] /\ reply'[c] = reply[c]
  <2>1. pc[b] \in Live /\ b # c
    BY <1>2 DEF CheckStep, Gate, Register, InsertPending, SendPrompt, MarkSent, Receive, GiveUp,
                RemoveWaiter, Expire, Goto, Answer, Live
  <2>2. /\ \E to : pc' = [pc EXCEPT ![b] = to]
        /\ \/ reply' = reply
           \/ \E r : reply' = [reply EXCEPT ![b] = r]
    BY <1>2 DEF CheckStep, Gate, Register, InsertPending, SendPrompt, MarkSent, Receive, GiveUp,
                RemoveWaiter, Expire, Goto, Answer, checkVars
  <2> QED
    BY <2>1, <2>2 DEF Inv, TypeOK
<1>3. ASSUME Crash PROVE pc'[c] = pc[c] /\ reply'[c] = reply[c]
  BY <1>3 DEF Crash, Live
<1> QED
  BY <1>1, <1>2, <1>3 DEF Elapse, Resolve, Release, EditCard, Tick, Restart, checkVars

-----------------------------------------------------------------------------
(* The invariant *)

\* All attempts of a hook ask about the same command.
OneCommand == \A h \in Hook, n \in 1 .. Attempts : cmd[<<h, n>>] = cmd[<<h, 1>>]

\* Attempts before the present one are over and had no verdict; those after it,
\* and the present one before it connects, have not begun.
InTurn(h) ==
  \A n \in 1 .. Attempts :
    /\ n > hook[h].n => pc[<<h, n>>] = "idle"
    /\ n < hook[h].n => pc[<<h, n>>] \in Quiet /\ reply[<<h, n>>].verdict = "none"
    /\ hook[h].at \in {"start", "connect"} /\ n = hook[h].n => pc[<<h, n>>] = "idle"
    /\ hook[h].alone => /\ hook[h].at = "exit"
                        /\ pc[<<h, n>>] \in Quiet /\ reply[<<h, n>>].verdict = "none"
    /\ hook[h].at = "start" => hook[h].n = 1
    /\ hook[h].at # "exit" => hook[h].code = "none"

AttemptsInTurn == \A h \in Hook : InTurn(h)

\* The owner's word on an attempt, as the approval policy sees it.
Approved(h) == \E n \in 1 .. Attempts : "approve" \in Word[<<h, n>>]

NeedleApproved ==
  \A h \in Hook : hook[h].code = "approve" /\ ClassOf(h) = "needle" => Approved(h)

\* An error of the daemon carries no verdict.
ErrorsSayNothing ==
  \A c \in Check : reply[c].reason \in {"http_500", "eof"} => reply[c].verdict = "none"

HookInv ==
  Inv /\ HookTypeOK /\ OneCommand /\ AttemptsInTurn /\ NeedleApproved /\ ErrorsSayNothing

LEMMA Pairs == \A h \in Hook, n \in 1 .. Attempts : <<h, n>> \in Check
OBVIOUS

LEMMA HookInitInv == HookInit => HookInv
<1> SUFFICES ASSUME HookInit PROVE HookInv
  OBVIOUS
<1>1. Inv
  BY InitInv DEF HookInit
<1>2. HookTypeOK
  BY DEF HookInit, HookTypeOK, HookType, HookPC, Exit
<1>3. OneCommand /\ NeedleApproved
  BY DEF HookInit, OneCommand, NeedleApproved
<1>4. AttemptsInTurn
  <2>1. \A h \in Hook : /\ hook[h].at = "start" /\ hook[h].n = 1 /\ hook[h].code = "none"
                        /\ hook[h].alone = FALSE
    BY DEF HookInit
  <2>2. \A h \in Hook, n \in 1 .. Attempts : pc[<<h, n>>] = "idle"
    BY Pairs DEF HookInit, Init
  <2> SUFFICES ASSUME NEW h \in Hook PROVE InTurn(h)
    BY DEF AttemptsInTurn
  <2>3. \A n \in 1 .. Attempts : ~(n < 1)
    OBVIOUS
  <2> QED
    BY <2>1, <2>2, <2>3 DEF InTurn
<1>5. ErrorsSayNothing
  BY DEF HookInit, Init, ErrorsSayNothing, NoReply
<1> QED
  BY <1>1, <1>2, <1>3, <1>4, <1>5 DEF HookInv

\* The steps of PermCheck behind the hooks.
LEMMA IsStep == HookInv /\ [HookNext]_allVars => [Next]_vars
BY Pairs DEF HookNext, HookStep, Start, Connect, ConnectFails, ReadReply, Work, Die, ComeBack,
       Next, Asked, HookInv, HookTypeOK, HookType, allVars

LEMMA StepKeepsInv == HookInv /\ [HookNext]_allVars => Inv'
BY IsStep, StepInv DEF HookInv

\* What was said stays said, of the same command.
LEMMA WordStays ==
  ASSUME HookInv, [HookNext]_allVars
  PROVE  /\ cmd' = cmd
         /\ \A h \in Hook : Approved(h) => Approved(h)'
<1>1. Inv /\ Inv' /\ [Next]_vars
  BY IsStep, StepKeepsInv DEF HookInv
<1>2. [Policy!Next]_(Policy!policyVars)
  BY <1>1, RefinesStep
<1>3. \A c \in Check : Word[c] \subseteq Word'[c]
  BY <1>2 DEF Policy!Next, Policy!Decide, Policy!Reply, Policy!policyVars, Word, Kind
<1>4. cmd' = cmd
  BY <1>1, SameCommand DEF vars, checkVars
<1> QED
  BY <1>3, <1>4, Pairs DEF Approved

LEMMA ErrorsStep ==
  ASSUME HookInv, [HookNext]_allVars
  PROVE  ErrorsSayNothing'
<1>1. Inv /\ Inv' /\ [Next]_vars
  BY IsStep, StepKeepsInv DEF HookInv
<1>2. [Policy!Next]_(Policy!policyVars)
  BY <1>1, RefinesStep
<1>3. \A c \in Check :
        reply'[c] = reply[c] \/ Policy!Allowed(c, reply'[c].verdict, reply'[c].reason)
  BY <1>2 DEF Policy!Next, Policy!Decide, Policy!Reply, Policy!policyVars
<1>4. \A c \in Check : reply'[c].verdict \in Verdict \cup {"none"}
  BY <1>1 DEF Inv, TypeOK, Reply
<1> QED
  BY <1>3, <1>4 DEF ErrorsSayNothing, HookInv, Policy!Allowed, Verdict

-----------------------------------------------------------------------------
(* The steps of a hook *)

LEMMA QuitFacts ==
  ASSUME HookTypeOK, NEW h \in Hook, NEW code \in Exit, NEW alone \in BOOLEAN,
         Quit(h, code, alone)
  PROVE  /\ hook' \in [Hook -> HookType]
         /\ \A g \in Hook : g # h => hook'[g] = hook[g]
         /\ hook'[h].at = "exit" /\ hook'[h].n = hook[h].n
         /\ hook'[h].code = code /\ hook'[h].alone = alone
<1>1. hook[h] \in HookType
  BY DEF HookTypeOK
<1>2. hook' = [hook EXCEPT ![h] = [hook[h] EXCEPT !.at = "exit", !.code = code, !.alone = alone]]
  BY DEF Quit
<1>3. [hook[h] EXCEPT !.at = "exit", !.code = code, !.alone = alone] \in HookType
  BY <1>1 DEF HookType, HookPC
<1> QED
  BY <1>1, <1>2, <1>3 DEF HookTypeOK, HookType

LEMMA FallbackFacts ==
  ASSUME HookTypeOK, NEW h \in Hook, LocalFallback(h)
  PROVE  /\ hook' \in [Hook -> HookType]
         /\ \A g \in Hook : g # h => hook'[g] = hook[g]
         /\ hook'[h].at = "exit" /\ hook'[h].n = hook[h].n /\ hook'[h].alone
         /\ hook'[h].code = "approve" => ClassOf(h) # "needle"
<1>1. PICK code \in {"deny", "approve"} :
        Quit(h, code, TRUE) /\ (code = "approve" => ~HasNeedle(h))
  BY DEF LocalFallback
<1>2. code \in Exit
  BY DEF Exit
<1> QED
  BY <1>1, <1>2, QuitFacts DEF HasNeedle

LEMMA MoveFacts ==
  ASSUME HookTypeOK, NEW h \in Hook, NEW at \in HookPC, NEW n \in 1 .. Attempts,
         Move(h, at, n)
  PROVE  /\ hook' \in [Hook -> HookType]
         /\ \A g \in Hook : g # h => hook'[g] = hook[g]
         /\ hook'[h].at = at /\ hook'[h].n = n
         /\ hook'[h].code = hook[h].code /\ hook'[h].alone = hook[h].alone
<1>1. hook[h] \in HookType
  BY DEF HookTypeOK
<1>2. hook' = [hook EXCEPT ![h] = [hook[h] EXCEPT !.at = at, !.n = n]]
  BY DEF Move
<1>3. [hook[h] EXCEPT !.at = at, !.n = n] \in HookType
  BY <1>1 DEF HookType
<1> QED
  BY <1>1, <1>2, <1>3 DEF HookTypeOK, HookType

\* Both ways an attempt can end without an answer.
LEMMA RetryFacts ==
  ASSUME HookTypeOK, NEW h \in Hook, Retry(h)
  PROVE  /\ hook' \in [Hook -> HookType]
         /\ \A g \in Hook : g # h => hook'[g] = hook[g]
         /\ \/ /\ hook'[h].at = "connect" /\ hook'[h].n = hook[h].n + 1
               /\ hook'[h].code = hook[h].code /\ hook'[h].alone = hook[h].alone
            \/ /\ hook'[h].at = "exit" /\ hook'[h].n = hook[h].n /\ hook'[h].alone
               /\ hook'[h].code = "approve" => ClassOf(h) # "needle"
<1>1. hook[h] \in HookType /\ hook[h].n \in 1 .. Attempts
  BY DEF HookTypeOK, HookType
<1>2. CASE LocalFallback(h)
  BY <1>2, FallbackFacts
<1>3. CASE hook[h].n < Attempts /\ Move(h, "connect", hook[h].n + 1)
  <2>1. hook[h].n + 1 \in 1 .. Attempts /\ "connect" \in HookPC
    BY <1>1, <1>3 DEF HookPC
  <2> QED
    BY <1>3, <2>1, MoveFacts
<1> QED
  BY <1>2, <1>3 DEF Retry

-----------------------------------------------------------------------------
(* The invariant is kept *)

\* What remains to be shown of a step: the hooks are typed and in turn, and an
\* exit with "approve" that is new was approved.
LEMMA Assemble ==
  ASSUME HookInv, [HookNext]_allVars, HookTypeOK', AttemptsInTurn',
         \A h \in Hook : hook'[h].code = "approve" /\ ClassOf(h) = "needle"
                           => hook[h].code = "approve" \/ Approved(h)
  PROVE  HookInv'
<1>1. Inv' /\ ErrorsSayNothing'
  BY StepKeepsInv, ErrorsStep
<1>2. OneCommand'
  BY WordStays DEF HookInv, OneCommand
<1>3. NeedleApproved'
  BY WordStays DEF HookInv, NeedleApproved, ClassOf
<1> QED
  BY <1>1, <1>2, <1>3 DEF HookInv

\* A step of one hook that leaves every check of the others alone.
LEMMA OthersInTurn ==
  ASSUME HookInv, NEW h \in Hook, InTurn(h)',
         \A g \in Hook : g # h => hook'[g] = hook[g],
         \A g \in Hook, n \in 1 .. Attempts :
           g # h => pc'[<<g, n>>] = pc[<<g, n>>] /\ reply'[<<g, n>>] = reply[<<g, n>>]
  PROVE  AttemptsInTurn'
<1>1. ASSUME NEW g \in Hook, g # h PROVE InTurn(g)'
  <2>1. InTurn(g)
    BY DEF HookInv, AttemptsInTurn
  <2> QED
    BY <1>1, <2>1 DEF InTurn
<1> QED
  BY <1>1 DEF AttemptsInTurn

LEMMA StartStep ==
  ASSUME HookInv, NEW h \in Hook, Start(h)
  PROVE  HookInv'
<1>1. [HookNext]_allVars
  BY DEF HookNext, HookStep
<1>2. /\ HookTypeOK /\ UNCHANGED <<vars, socket>> /\ InTurn(h)
      /\ hook[h].at = "start" /\ hook[h].n = 1 /\ hook[h].alone \in BOOLEAN
  <2>1. HookTypeOK /\ UNCHANGED <<vars, socket>> /\ InTurn(h) /\ hook[h].at = "start"
    BY DEF HookInv, AttemptsInTurn, Start
  <2>2. 1 \in 1 .. Attempts /\ hook[h].alone \in BOOLEAN
    BY <2>1 DEF HookTypeOK, HookType
  <2> QED
    BY <2>1, <2>2 DEF InTurn
<1>3. \A n \in 1 .. Attempts : pc[<<h, n>>] = "idle" /\ reply[<<h, n>>].verdict = "none"
  BY <1>2, Pairs DEF InTurn, HookInv, Inv, DrawnOnce, NoReply
<1>4. /\ hook' \in [Hook -> HookType]
      /\ \A g \in Hook : g # h => hook'[g] = hook[g]
      /\ hook'[h].n = 1
      /\ \/ hook'[h].at = "exit" /\ (hook'[h].code = "approve" => ClassOf(h) # "needle")
         \/ hook'[h].at = "connect" /\ hook'[h].code = hook[h].code
            /\ hook'[h].alone = hook[h].alone
  <2>1. CASE Quit(h, "config", TRUE)
    BY <1>2, <2>1, QuitFacts DEF Exit
  <2>2. CASE LocalFallback(h)
    BY <1>2, <2>2, FallbackFacts
  <2>3. CASE Move(h, "connect", 1)
    <3>1. "connect" \in HookPC /\ 1 \in 1 .. Attempts
      BY DEF HookPC
    <3> QED
      BY <1>2, <2>3, <3>1, MoveFacts
  <2> QED
    BY <2>1, <2>2, <2>3 DEF Start
<1>5. UNCHANGED <<pc, reply>>
  BY <1>2 DEF vars, checkVars
<1>6. InTurn(h)'
  BY <1>2, <1>3, <1>4, <1>5 DEF InTurn, Quiet
<1>7. AttemptsInTurn'
  BY <1>4, <1>5, <1>6, OthersInTurn
<1>8. HookTypeOK'
  BY <1>2, <1>4 DEF HookTypeOK
<1>9. \A g \in Hook : hook'[g].code = "approve" /\ ClassOf(g) = "needle"
                        => hook[g].code = "approve"
  BY <1>2, <1>4 DEF InTurn
<1> QED
  BY <1>1, <1>7, <1>8, <1>9, Assemble

LEMMA ConnectStep ==
  ASSUME HookInv, NEW h \in Hook, Connect(h)
  PROVE  HookInv'
<1>1. [HookNext]_allVars
  BY DEF HookNext, HookStep
<1>2. /\ HookTypeOK /\ InTurn(h) /\ hook[h].at = "connect" /\ socket' = socket
      /\ hook[h].n \in 1 .. Attempts /\ <<h, hook[h].n>> \in Check
      /\ Move(h, "reply", hook[h].n)
  BY Pairs DEF HookInv, AttemptsInTurn, Connect, HookTypeOK, HookType
<1>3. /\ hook' \in [Hook -> HookType]
      /\ \A g \in Hook : g # h => hook'[g] = hook[g]
      /\ hook'[h].at = "reply" /\ hook'[h].n = hook[h].n
      /\ hook'[h].code = hook[h].code /\ hook'[h].alone = hook[h].alone
  BY <1>2, MoveFacts DEF HookPC
<1>4. /\ pc' = [pc EXCEPT ![<<h, hook[h].n>>] = "gate"] /\ reply' = reply
      /\ pc \in [Check -> PC]
  BY DEF Connect, Arrive, Asked, Goto, HookInv, Inv, TypeOK
<1>5. \A g \in Hook, n \in 1 .. Attempts :
        <<g, n>> # <<h, hook[h].n>> => pc'[<<g, n>>] = pc[<<g, n>>]
  BY <1>4, Pairs
<1>6. ~hook[h].alone
  BY <1>2 DEF InTurn
<1>7. InTurn(h)'
  BY <1>2, <1>3, <1>4, <1>5, <1>6 DEF InTurn
<1>8. AttemptsInTurn'
  BY <1>3, <1>4, <1>5, <1>7, OthersInTurn
<1>9. HookTypeOK'
  BY <1>2, <1>3 DEF HookTypeOK, HookInv
<1>10. \A g \in Hook : hook'[g].code = "approve" /\ ClassOf(g) = "needle"
                         => hook[g].code = "approve"
  BY <1>3
<1> QED
  BY <1>1, <1>8, <1>9, <1>10, Assemble

\* An attempt that ended without a verdict, from either of its two places.
LEMMA RetryStep ==
  ASSUME HookInv, NEW h \in Hook, Retry(h), [HookNext]_allVars, UNCHANGED <<vars, socket>>,
         hook[h].at \in {"connect", "reply"},
         pc[<<h, hook[h].n>>] \in Quiet, reply[<<h, hook[h].n>>].verdict = "none"
  PROVE  HookInv'
<1>1. HookTypeOK /\ InTurn(h) /\ hook[h].n \in 1 .. Attempts
  BY DEF HookInv, AttemptsInTurn, HookTypeOK, HookType
<1>2. UNCHANGED <<pc, reply>>
  BY DEF vars, checkVars
<1>3. /\ hook' \in [Hook -> HookType]
      /\ \A g \in Hook : g # h => hook'[g] = hook[g]
      /\ \/ /\ hook'[h].at = "connect" /\ hook'[h].n = hook[h].n + 1
            /\ hook'[h].code = hook[h].code /\ hook'[h].alone = hook[h].alone
         \/ /\ hook'[h].at = "exit" /\ hook'[h].n = hook[h].n /\ hook'[h].alone
            /\ hook'[h].code = "approve" => ClassOf(h) # "needle"
  BY <1>1, RetryFacts
<1>4. \A n \in 1 .. Attempts :
        n <= hook[h].n => pc[<<h, n>>] \in Quiet /\ reply[<<h, n>>].verdict = "none"
  BY <1>1 DEF InTurn
<1>5. \A n \in 1 .. Attempts :
        n > hook[h].n => pc[<<h, n>>] = "idle" /\ reply[<<h, n>>].verdict = "none"
  BY <1>1, Pairs DEF InTurn, HookInv, Inv, DrawnOnce, NoReply
<1>6. InTurn(h)'
  <2>1. CASE hook'[h].at = "connect"
    <3>1. /\ hook'[h].n = hook[h].n + 1 /\ ~hook'[h].alone /\ hook'[h].code = "none"
      BY <1>1, <1>3, <2>1 DEF InTurn
    <3> QED
      BY <1>1, <1>2, <1>4, <1>5, <2>1, <3>1 DEF InTurn
  <2>2. CASE hook'[h].at = "exit"
    BY <1>1, <1>2, <1>3, <1>4, <1>5, <2>2 DEF InTurn, Quiet
  <2> QED
    BY <1>3, <2>1, <2>2
<1>7. AttemptsInTurn'
  BY <1>2, <1>3, <1>6, OthersInTurn
<1>8. HookTypeOK'
  BY <1>3 DEF HookTypeOK, HookInv
<1>9. \A g \in Hook : hook'[g].code = "approve" /\ ClassOf(g) = "needle"
                        => hook[g].code = "approve"
  BY <1>3
<1> QED
  BY <1>7, <1>8, <1>9, Assemble

LEMMA ConnectFailsStep ==
  ASSUME HookInv, NEW h \in Hook, ConnectFails(h)
  PROVE  HookInv'
<1>1. [HookNext]_allVars
  BY DEF HookNext, HookStep
<1>2. hook[h].at = "connect" /\ Retry(h) /\ UNCHANGED <<vars, socket>>
  BY DEF ConnectFails
<1>3. hook[h].n \in 1 .. Attempts
  BY DEF HookInv, HookTypeOK, HookType
<1>4. pc[<<h, hook[h].n>>] = "idle" /\ reply[<<h, hook[h].n>>].verdict = "none"
  BY <1>2, <1>3, Pairs DEF HookInv, AttemptsInTurn, InTurn, Inv, DrawnOnce, NoReply
<1> QED
  BY <1>1, <1>2, <1>4, RetryStep DEF Quiet

\* An approval of a needle command is the owner's.
LEMMA ApprovalIsOwners ==
  ASSUME HookInv, NEW h \in Hook, NEW n \in 1 .. Attempts,
         reply[<<h, n>>].verdict = "approve", ClassOf(h) = "needle"
  PROVE  Approved(h)
<1> DEFINE c == <<h, n>>
<1>1. c \in Check /\ cmd[c] = "needle"
  BY Pairs DEF HookInv, OneCommand, ClassOf
<1> HIDE DEF c
<1>2. Gated(c) /\ Destructive(c) /\ reply[c].verdict = "approve"
  BY <1>1 DEF Gated, Destructive, c
<1>3. reply[c].reason = "user_approved"
  BY <1>1, <1>2 DEF HookInv, Inv, ApprovalHasReason
<1>4. permId[c] \in PermId /\ "approve" \in accepted[permId[c]]
  BY <1>1, <1>3 DEF HookInv, Inv, UserVerdictWasGiven, DrawnOnce
<1>5. "approve" \in Word[c]
  BY <1>1, <1>4 DEF Word, PermId, NoId
<1> QED
  BY <1>5 DEF Approved, c

LEMMA ReadReplyStep ==
  ASSUME HookInv, NEW h \in Hook, ReadReply(h)
  PROVE  HookInv'
<1> DEFINE r == reply[<<h, hook[h].n>>]
<1>1. [HookNext]_allVars
  BY DEF HookNext, HookStep
<1>2. /\ HookTypeOK /\ InTurn(h) /\ hook[h].at = "reply" /\ UNCHANGED <<vars, socket>>
      /\ hook[h].n \in 1 .. Attempts /\ <<h, hook[h].n>> \in Check
      /\ pc[<<h, hook[h].n>>] = "done"
  BY Pairs DEF HookInv, AttemptsInTurn, HookTypeOK, HookType, ReadReply, Asked
<1>3. CASE Retry(h) /\ r.reason \in {"http_500", "eof"}
  <2>1. r.verdict = "none"
    BY <1>2, <1>3 DEF HookInv, ErrorsSayNothing
  <2> QED
    BY <1>1, <1>2, <1>3, <2>1, RetryStep DEF Quiet
<1>4. ASSUME NEW code \in Exit, Quit(h, code, FALSE), code = "approve" => r.verdict = "approve"
      PROVE  HookInv'
  <2>1. /\ hook' \in [Hook -> HookType]
        /\ \A g \in Hook : g # h => hook'[g] = hook[g]
        /\ hook'[h].at = "exit" /\ hook'[h].n = hook[h].n
        /\ hook'[h].code = code /\ hook'[h].alone = FALSE
    BY <1>2, <1>4, QuitFacts
  <2>2. UNCHANGED <<pc, reply>>
    BY <1>2 DEF vars, checkVars
  <2>3. InTurn(h)'
    BY <1>2, <2>1, <2>2 DEF InTurn
  <2>4. AttemptsInTurn'
    BY <2>1, <2>2, <2>3, OthersInTurn
  <2>5. HookTypeOK'
    BY <1>2, <2>1 DEF HookTypeOK
  <2>6. code = "approve" /\ ClassOf(h) = "needle" => Approved(h)
    BY <1>2, <1>4, ApprovalIsOwners
  <2>7. \A g \in Hook : hook'[g].code = "approve" /\ ClassOf(g) = "needle"
                          => hook[g].code = "approve" \/ Approved(g)
    BY <2>1, <2>6
  <2> QED
    BY <1>1, <2>4, <2>5, <2>7, Assemble
<1>5. \/ Retry(h) /\ r.reason \in {"http_500", "eof"}
      \/ r.verdict \in Verdict /\ Quit(h, r.verdict, FALSE)
      \/ Quit(h, "protocol", FALSE)
  BY DEF ReadReply, Asked
<1>6. "protocol" \in Exit /\ Verdict \subseteq Exit
  BY DEF Exit, Verdict
<1> QED
  BY <1>3, <1>4, <1>5, <1>6

-----------------------------------------------------------------------------
(* The steps of the daemon *)

LEMMA DaemonStep ==
  ASSUME HookInv, Proceed \/ Crash \/ Restart, [HookNext]_allVars, HookTypeOK',
         \A h \in Hook :
           \/ hook'[h] = hook[h]
           \/ /\ hook[h].at = "reply" /\ hook'[h].at = "exit" /\ hook'[h].n = hook[h].n
              /\ hook'[h].code = "protocol" /\ hook'[h].alone = FALSE
  PROVE  HookInv'
<1>1. \A h \in Hook, n \in 1 .. Attempts :
        pc[<<h, n>>] \in Quiet =>
          pc'[<<h, n>>] = pc[<<h, n>>] /\ reply'[<<h, n>>] = reply[<<h, n>>]
  BY QuietStays, Pairs DEF HookInv
<1>2. ASSUME NEW h \in Hook PROVE InTurn(h)'
  <2>1. InTurn(h)
    BY DEF HookInv, AttemptsInTurn
  <2>2. CASE hook'[h] = hook[h]
    BY <1>1, <2>1, <2>2 DEF InTurn, Quiet
  <2>3. CASE /\ hook[h].at = "reply" /\ hook'[h].at = "exit" /\ hook'[h].n = hook[h].n
             /\ hook'[h].code = "protocol" /\ hook'[h].alone = FALSE
    BY <1>1, <2>1, <2>3 DEF InTurn, Quiet
  <2> QED
    BY <2>2, <2>3
<1>3. AttemptsInTurn'
  BY <1>2 DEF AttemptsInTurn
<1>4. \A h \in Hook : hook'[h].code = "approve" /\ ClassOf(h) = "needle"
                        => hook[h].code = "approve"
  OBVIOUS
<1> QED
  BY <1>3, <1>4, Assemble

LEMMA HookStepInv == HookInv /\ [HookNext]_allVars => HookInv'
<1> SUFFICES ASSUME HookInv, [HookNext]_allVars PROVE HookInv'
  OBVIOUS
<1>1. CASE Work
  <2>1. Proceed /\ hook' = hook /\ HookTypeOK'
    BY <1>1 DEF Work, hookVars, HookInv, HookTypeOK
  <2> QED
    BY <2>1, DaemonStep
<1>2. CASE ComeBack
  <2>1. Restart /\ hook' = hook /\ HookTypeOK'
    BY <1>2 DEF ComeBack, HookInv, HookTypeOK
  <2> QED
    BY <2>1, DaemonStep
<1>3. CASE Die
  <2>1. PICK lost \in SUBSET {h \in Hook : hook[h].at = "reply"} :
          hook' = [h \in Hook |->
                     IF h \in lost THEN [hook[h] EXCEPT !.at = "exit", !.code = "protocol"]
                     ELSE hook[h]]
    BY <1>3 DEF Die
  <2>2. ASSUME NEW h \in Hook
        PROVE  /\ hook'[h] \in HookType
               /\ \/ hook'[h] = hook[h]
                  \/ /\ hook[h].at = "reply" /\ hook'[h].at = "exit" /\ hook'[h].n = hook[h].n
                     /\ hook'[h].code = "protocol" /\ hook'[h].alone = FALSE
    <3>1. hook[h] \in HookType /\ InTurn(h) /\ hook[h].n \in 1 .. Attempts
      BY DEF HookInv, HookTypeOK, AttemptsInTurn, HookType
    <3>2. CASE h \notin lost
      BY <2>1, <3>1, <3>2
    <3>3. CASE h \in lost
      <4>1. hook'[h] = [hook[h] EXCEPT !.at = "exit", !.code = "protocol"] /\ hook[h].at = "reply"
        BY <2>1, <3>3
      <4>2. hook[h].alone = FALSE
        BY <3>1, <4>1 DEF InTurn, HookType
      <4> QED
        BY <3>1, <4>1, <4>2 DEF HookType, HookPC, Exit
    <3> QED
      BY <3>2, <3>3
  <2>3. HookTypeOK'
    BY <1>3, <2>1, <2>2 DEF Die, HookTypeOK, HookInv
  <2>4. Crash
    BY <1>3 DEF Die
  <2> QED
    BY <2>2, <2>3, <2>4, DaemonStep
<1>4. CASE UNCHANGED allVars
  <2>1. hook' = hook /\ socket' = socket /\ UNCHANGED <<pc, reply, cmd>>
    BY <1>4 DEF allVars, hookVars, vars, checkVars
  <2>2. HookTypeOK' /\ AttemptsInTurn'
    BY <2>1 DEF HookInv, HookTypeOK, AttemptsInTurn, InTurn
  <2> QED
    BY <2>1, <2>2, Assemble
<1> QED
  BY <1>1, <1>2, <1>3, <1>4, StartStep, ConnectStep, ConnectFailsStep, ReadReplyStep
     DEF HookNext, HookStep

THEOREM HookInvariance == HookSafety => []HookInv
  BY HookInitInv, HookStepInv, PTL DEF HookSafety

-----------------------------------------------------------------------------
(* The theorems *)

\* Every hook keeps its type: no attempt beyond the last, no other exit code.
THEOREM HookTypeCorrect == HookSafety => []HookTypeOK
<1>1. HookInv => HookTypeOK
  BY DEF HookInv
<1> QED
  BY <1>1, HookInvariance, PTL

\* No hook lets a gated command with a needle through unless the owner approved
\* that very tool call (main.rs and PermService::check together).
THEOREM NeedlesNeedApproval == HookSafety => []NeedleNeedsApproval
<1>1. HookInv => NeedleNeedsApproval
  <2> SUFFICES ASSUME HookInv, NEW h \in Hook, Approved(h)
               PROVE  \E n \in 1 .. Attempts :
                        permId[<<h, n>>] # NoId /\ "approve" \in accepted[permId[<<h, n>>]]
    BY DEF HookInv, NeedleApproved, NeedleNeedsApproval
  <2>1. PICK n \in 1 .. Attempts : "approve" \in Word[<<h, n>>]
    BY DEF Approved
  <2> QED
    BY <2>1, Pairs DEF Word
<1> QED
  BY <1>1, HookInvariance, PTL

\* The fallback never overrules a verdict of the daemon (main.rs, run).
THEOREM FallbacksAreUnanswered == HookSafety => []FallbackOnlyUnanswered
<1>1. HookInv => FallbackOnlyUnanswered
  BY DEF HookInv, AttemptsInTurn, InTurn, FallbackOnlyUnanswered
<1> QED
  BY <1>1, HookInvariance, PTL

\* A tool call never has two requests at the daemon at once (main.rs, run).
THEOREM AttemptsDoNotOverlap == HookSafety => []OneAttemptAtATime
<1>1. HookInv => OneAttemptAtATime
  <2> SUFFICES ASSUME HookInv, NEW h \in Hook, NEW n \in 1 .. Attempts,
                      pc[<<h, n>>] \in Live
               PROVE  n = hook[h].n
    BY DEF OneAttemptAtATime
  <2>1. InTurn(h) /\ hook[h].n \in 1 .. Attempts
    BY DEF HookInv, AttemptsInTurn, HookTypeOK, HookType
  <2> QED
    BY <2>1 DEF InTurn, Quiet, Live
<1> QED
  BY <1>1, HookInvariance, PTL

\* The service behind the hooks is the service: what is proved of PermCheck, for any
\* clients, holds with these in front of it (the hook, daemon/perm.rs).
THEOREM ServiceBehindHooks == HookSafety => Safety
<1>1. HookInit => Init
  BY DEF HookInit
<1>2. HookInv /\ [HookNext]_allVars => [Next]_vars
  BY IsStep
<1> QED
  BY <1>1, <1>2, HookInvariance, PTL DEF HookSafety, Safety

\* And so it keeps the approval policy: attempts, retries and deaths of the daemon
\* under a hook are requests that are answered once, for a reason that holds.
THEOREM HooksKeepThePolicy == HookSafety => KeepsThePolicy
  BY ServiceBehindHooks, Refinement, PTL
=============================================================================
