----------------------------- MODULE PermCheck -----------------------------
(***************************************************************************)
(* The daemon's permission service (daemon/perm.rs) together with the two  *)
(* parties that settle a held request: the Telegram callback handler       *)
(* (handle_callback_perm in daemon/telegram.rs) and the connections that   *)
(* POST /perm/resolve (PermService::resolve_external).                     *)
(*                                                                         *)
(* A check is one call of PermService::check, a task of its own.  Every    *)
(* await of the code separates two actions.  A command of the state actor  *)
(* (agent-bus-core/state.rs) is one atomic step here, the caller's reply   *)
(* included: the actor serves its queue serially and module StateActor     *)
(* is where the queue, the snapshot and the flush are taken apart.         *)
(***************************************************************************)
EXTENDS Naturals

CONSTANTS
  Check,         \* the calls of PermService::check
  NoCheck,       \* no check: an empty registry slot, a perm without a card
  Desktop,       \* concurrent POST /perm/resolve connections
  Telegram,      \* the (serial) Telegram callback handler of the owner's chat
  Class,         \* the classes of commands that may be asked about
  MaxMs,         \* bound: the millisecond clock runs from 1 to MaxMs
  MaxCrashes,    \* bound: how often the daemon may die
  FlushMayFail,  \* whether writing state.json may fail
  DistinctIds    \* whether two checks never draw an id in one millisecond

(***************************************************************************)
(* What the gate and the two needle lists make of a command:               *)
(*   free     no gate rule matches, no needle                              *)
(*   stray    no gate rule matches, a needle of the hook's list            *)
(*   plain    a rule without the destructive flag, no needle               *)
(*   flagged  a rule with the flag (or the suspicious heuristic), no needle*)
(*   needle   a rule, a needle of both lists                               *)
(*   wide     a rule without the flag, a needle of the hook's list only    *)
(***************************************************************************)
Classes == {"free", "stray", "plain", "flagged", "needle", "wide"}

ASSUME ConstAssumption ==
  /\ NoCheck \notin Check
  /\ Telegram \notin Desktop
  /\ Class \subseteq Classes
  /\ MaxMs \in Nat \ {0}
  /\ MaxCrashes \in Nat
  /\ FlushMayFail \in BOOLEAN
  /\ DistinctIds \in BOOLEAN

PermId   == 1 .. MaxMs        \* "perm-<millis>-<pid>": the millisecond decides
NoId     == 0
Verdict  == {"approve", "deny"}
Resolver == Desktop \cup {Telegram}

Open     == {"Pending", "Sent"}
Settled  == {"ApprovedByTelegram", "DeniedByTelegram",
             "ApprovedByDesktop", "DeniedByDesktop"}
Status   == {"Absent", "TimedOut"} \cup Open \cup Settled
Perm     == [status : Status, msg : Check \cup {NoCheck}]
NoPerm   == [status |-> "Absent", msg |-> NoCheck]

Reason   == {"none", "http_500", "eof", "no_gate_match", "approval_gate_tampered",
             "user_approved", "user_denied",
             "timeout_fail_closed", "timeout_fail_open"}
TimeoutReason == {"timeout_fail_closed", "timeout_fail_open"}
Reply    == [verdict : Verdict \cup {"none"}, reason : Reason]
NoReply  == [verdict |-> "none", reason |-> "none"]

Stage    == {"idle", "release", "edit"}
Job      == [stage : Stage, id : PermId \cup {NoId}, verdict : Verdict,
             card : Check \cup {NoCheck}]
NoJob    == [stage |-> "idle", id |-> NoId, verdict |-> "deny", card |-> NoCheck]

VARIABLES
  up,        \* the daemon runs
  now,       \* its millisecond clock
  crashes,   \* how often it died
  cmd,       \* the class of each check's command
  pc,        \* where each check is
  permId,    \* the id each check drew
  elapsed,   \* the check's tokio timeout has expired
  rx,        \* the receiving end of the check's oneshot channel
  reply,     \* what the check answered on its connection
  waiters,   \* PendingPermRegistry: id -> the check whose sender it holds
  perms,     \* pending_perms, in the actor and in the published snapshot
  disk,      \* pending_perms in state.json
  card,      \* the Telegram message of each check, as its reader sees it
  job,       \* where each resolver is
  accepted   \* history: the decisions answered ResolvePendingOutcome::Resolved

daemonVars == <<up, now, crashes>>
checkVars  == <<cmd, pc, permId, elapsed, reply>>
chanVars   == <<rx, waiters>>
stateVars  == <<perms, disk>>
vars == <<daemonVars, checkVars, chanVars, stateVars, card, job, accepted>>

IsOpen(i)      == perms[i].status \in Open
Gated(c)       == cmd[c] \notin {"free", "stray"}
\* rule.destructive || is_cached_destructive(&req.command)
Destructive(c) == cmd[c] \in {"flagged", "needle"}

Live == {"gate", "register", "insert", "send", "mark", "wait", "remove", "expire"}
PC   == {"idle", "done"} \cup Live

Init ==
  /\ up = TRUE /\ now = 1 /\ crashes = 0
  /\ cmd \in [Check -> Class]
  /\ pc = [c \in Check |-> "idle"]
  /\ permId = [c \in Check |-> NoId]
  /\ elapsed = [c \in Check |-> FALSE]
  /\ rx = [c \in Check |-> "empty"]
  /\ reply = [c \in Check |-> NoReply]
  /\ waiters = [i \in PermId |-> NoCheck]
  /\ perms = [i \in PermId |-> NoPerm]
  /\ disk = perms
  /\ card = [c \in Check |-> "none"]
  /\ job = [r \in Resolver |-> NoJob]
  /\ accepted = [i \in PermId |-> {}]

-----------------------------------------------------------------------------
(* Helpers *)

Goto(c, from, to) == pc[c] = from /\ pc' = [pc EXCEPT ![c] = to]

\* The check's future returns: the reply goes out on its connection.
Answer(c, from, v, why) ==
  /\ Goto(c, from, "done")
  /\ reply' = [reply EXCEPT ![c] = [verdict |-> v, reason |-> why]]

\* publish_and_flush: the actor's memory and the snapshot take the new value
\* first; then state.json is written, or the write fails before or after the
\* rename.
Publish(p, flushed) ==
  /\ perms' = p
  /\ \/ flushed /\ disk' = p
     \/ ~flushed /\ FlushMayFail /\ disk' \in {disk, p}

\* Mutant: a sender taken out of the registry lives on elsewhere.
DropNothing(i) == rx' = rx

\* Taking a sender out of the registry and dropping it closes its channel.
Drop(i) == rx' = IF waiters[i] = NoCheck THEN rx ELSE [rx EXCEPT ![waiters[i]] = "closed"]

-----------------------------------------------------------------------------
(* PermService::check, one call *)

\* The connection is accepted, read and routed; the protocol versions agree.
Arrive(c) ==
  /\ up
  /\ Goto(c, "idle", "gate")
  /\ UNCHANGED <<daemonVars, cmd, permId, elapsed, reply, chanVars, stateVars, card, job, accepted>>

\* The gate is loaded and consulted: integrity failure, a rule that does not
\* compile, no match, or a match, for which an id is drawn from the clock.
Gate(c) ==
  /\ \/ Answer(c, "gate", "deny", "approval_gate_tampered") /\ UNCHANGED permId
     \/ Answer(c, "gate", "none", "http_500") /\ UNCHANGED permId
     \/ ~Gated(c) /\ Answer(c, "gate", "approve", "no_gate_match") /\ UNCHANGED permId
     \/ /\ Gated(c)
        /\ DistinctIds => \A b \in Check : permId[b] # now
        /\ Goto(c, "gate", "register")
        /\ permId' = [permId EXCEPT ![c] = now]
        /\ UNCHANGED reply
  /\ UNCHANGED <<daemonVars, cmd, elapsed, chanVars, stateVars, card, job, accepted>>

\* registry.insert(id): a sender already there is overwritten, hence dropped.
Register(c) ==
  /\ Goto(c, "register", "insert")
  /\ Drop(permId[c])
  /\ waiters' = [waiters EXCEPT ![permId[c]] = c]
  /\ UNCHANGED <<daemonVars, cmd, permId, elapsed, reply, stateVars, card, job, accepted>>

\* state.insert_pending(Pending).await?
InsertPending(c) ==
  LET p == [perms EXCEPT ![permId[c]] = [status |-> "Pending", msg |-> NoCheck]]
  IN /\ pc[c] = "insert"
     /\ \/ Publish(p, TRUE) /\ Goto(c, "insert", "send") /\ UNCHANGED reply
        \/ Publish(p, FALSE) /\ Answer(c, "insert", "none", "http_500")
     /\ UNCHANGED <<daemonVars, cmd, permId, elapsed, chanVars, card, job, accepted>>

\* send_perm_prompt(..).await?: the card is shown; no chat is configured; the
\* call fails, delivered or not; slicing a long command inside a character
\* panics, which ends the connection without a response.
SendPrompt(c) ==
  /\ \/ Goto(c, "send", "mark") /\ card' = [card EXCEPT ![c] = "prompt"] /\ UNCHANGED reply
     \/ Goto(c, "send", "wait") /\ UNCHANGED <<card, reply>>
     \/ /\ Answer(c, "send", "none", "http_500")
        /\ card' \in {card, [card EXCEPT ![c] = "prompt"]}
     \/ Answer(c, "send", "none", "eof") /\ UNCHANGED card
  /\ UNCHANGED <<daemonVars, cmd, permId, elapsed, chanVars, stateVars, job, accepted>>

\* The perm is read from a snapshot and written back with status Sent and the
\* card's message id, whatever its status has become.
MarkSent(c) ==
  LET p == [perms EXCEPT ![permId[c]] = [status |-> "Sent", msg |-> c]]
  IN /\ pc[c] = "mark"
     /\ \/ Publish(p, TRUE) /\ Goto(c, "mark", "wait") /\ UNCHANGED reply
        \/ Publish(p, FALSE) /\ Answer(c, "mark", "none", "http_500")
     /\ UNCHANGED <<daemonVars, cmd, permId, elapsed, chanVars, card, job, accepted>>

\* The deadline of tokio::time::timeout(timeout, rx) passes.
Elapse(c) ==
  /\ pc[c] = "wait" /\ ~elapsed[c]
  /\ elapsed' = [elapsed EXCEPT ![c] = TRUE]
  /\ UNCHANGED <<daemonVars, cmd, pc, permId, reply, chanVars, stateVars, card, job, accepted>>

\* The timeout polls the receiver first: a verdict that is there wins.
Receive(c) ==
  /\ \/ rx[c] = "approve" /\ Answer(c, "wait", "approve", "user_approved")
     \/ rx[c] = "deny" /\ Answer(c, "wait", "deny", "user_denied")
  /\ UNCHANGED <<daemonVars, cmd, permId, elapsed, chanVars, stateVars, card, job, accepted>>

\* Mutant: the receiver is awaited without a deadline.
GiveUpNever(c) ==
  /\ rx[c] = "closed"
  /\ Goto(c, "wait", "remove")
  /\ UNCHANGED <<daemonVars, cmd, permId, elapsed, reply, chanVars, stateVars, card, job, accepted>>

\* The `_` branch: the deadline passed, or the sender was dropped.
GiveUp(c) ==
  /\ rx[c] = "closed" \/ (rx[c] = "empty" /\ elapsed[c])
  /\ Goto(c, "wait", "remove")
  /\ UNCHANGED <<daemonVars, cmd, permId, elapsed, reply, chanVars, stateVars, card, job, accepted>>

\* Mutant: the timeout branch forgets registry.remove.
RemoveNothing(c) ==
  /\ Goto(c, "remove", "expire")
  /\ UNCHANGED <<daemonVars, cmd, permId, elapsed, reply, chanVars, stateVars, card, job, accepted>>

\* registry.remove(&id)
RemoveWaiter(c) ==
  /\ Goto(c, "remove", "expire")
  /\ Drop(permId[c])
  /\ waiters' = [waiters EXCEPT ![permId[c]] = NoCheck]
  /\ UNCHANGED <<daemonVars, cmd, permId, elapsed, reply, stateVars, card, job, accepted>>

\* Mutant: the needle list is forgotten in the timeout branch.
ExpireFlagOnly(c) ==
  LET i == permId[c]
      p == IF IsOpen(i) THEN [perms EXCEPT ![i].status = "TimedOut"] ELSE perms
  IN /\ pc[c] = "expire"
     /\ Publish(p, TRUE)
     /\ \/ cmd[c] = "flagged" /\ Answer(c, "expire", "deny", "timeout_fail_closed")
        \/ cmd[c] # "flagged" /\ Answer(c, "expire", "approve", "timeout_fail_open")
     /\ UNCHANGED <<daemonVars, cmd, permId, elapsed, chanVars, card, job, accepted>>

\* Mutant: the check answers without expiring its perm.
ExpireUnrecorded(c) ==
  /\ \/ Destructive(c) /\ Answer(c, "expire", "deny", "timeout_fail_closed")
     \/ ~Destructive(c) /\ Answer(c, "expire", "approve", "timeout_fail_open")
  /\ UNCHANGED <<daemonVars, cmd, permId, elapsed, chanVars, stateVars, card, job, accepted>>

\* Mutant: a failed write of state.json is taken for a timeout that fails open.
ExpireErrorOpens(c) ==
  LET i == permId[c]
      p == IF IsOpen(i) THEN [perms EXCEPT ![i].status = "TimedOut"] ELSE perms
  IN /\ pc[c] = "expire"
     /\ \/ /\ Publish(p, TRUE)
           /\ \/ Destructive(c) /\ Answer(c, "expire", "deny", "timeout_fail_closed")
              \/ ~Destructive(c) /\ Answer(c, "expire", "approve", "timeout_fail_open")
        \/ Publish(p, FALSE) /\ Answer(c, "expire", "approve", "timeout_fail_open")
     /\ UNCHANGED <<daemonVars, cmd, permId, elapsed, chanVars, card, job, accepted>>

\* state.expire_pending(&id).await?, then the fail-closed / fail-open answer.
Expire(c) ==
  LET i == permId[c]
      p == IF IsOpen(i) THEN [perms EXCEPT ![i].status = "TimedOut"] ELSE perms
  IN /\ pc[c] = "expire"
     /\ \/ /\ Publish(p, TRUE)
           /\ \/ Destructive(c) /\ Answer(c, "expire", "deny", "timeout_fail_closed")
              \/ ~Destructive(c) /\ Answer(c, "expire", "approve", "timeout_fail_open")
        \/ Publish(p, FALSE) /\ Answer(c, "expire", "none", "http_500")
     /\ UNCHANGED <<daemonVars, cmd, permId, elapsed, chanVars, card, job, accepted>>

-----------------------------------------------------------------------------
(* The two ways to settle a request *)

SettledStatus(r, v) ==
  IF r = Telegram
    THEN IF v = "approve" THEN "ApprovedByTelegram" ELSE "DeniedByTelegram"
    ELSE IF v = "approve" THEN "ApprovedByDesktop" ELSE "DeniedByDesktop"

\* Mutant: AlreadyResolved is handled like Resolved.
ResolveAnyway(r, i, v, shown) ==
  LET p == [perms EXCEPT ![i].status = SettledStatus(r, v)]
      go == job' = [job EXCEPT ![r] =
                      [stage |-> "release", id |-> i, verdict |-> v, card |-> shown]]
  IN /\ up /\ job[r].stage = "idle"
     /\ \/ /\ IsOpen(i) /\ Publish(p, TRUE) /\ go
           /\ accepted' = [accepted EXCEPT ![i] = @ \cup {v}]
        \/ perms[i].status \in Settled /\ go /\ UNCHANGED <<stateVars, accepted>>
     /\ UNCHANGED <<daemonVars, checkVars, chanVars, card>>

\* resolve_pending_if_open(id, status).await?.  An AlreadyResolved or Missing
\* outcome changes nothing; a failed flush leaves the new status in memory and
\* ends the handler before it reaches the registry.
Resolve(r, i, v, shown) ==
  LET p == [perms EXCEPT ![i].status = SettledStatus(r, v)]
  IN /\ up /\ job[r].stage = "idle" /\ IsOpen(i)
     /\ \/ /\ Publish(p, TRUE)
           /\ job' = [job EXCEPT ![r] =
                        [stage |-> "release", id |-> i, verdict |-> v, card |-> shown]]
           /\ accepted' = [accepted EXCEPT ![i] = @ \cup {v}]
        \/ Publish(p, FALSE) /\ UNCHANGED <<job, accepted>>
     /\ UNCHANGED <<daemonVars, checkVars, chanVars, card>>

\* A button of a check's card is pressed.  A press may reach the handler after
\* the card was edited, so every card ever shown can be pressed.
Press(c, v) ==
  /\ card[c] # "none"
  /\ Resolve(Telegram, permId[c], v, c)

\* resolve_external on a connection of its own; ids are read from GET /state.
DesktopResolve(d, i, v) == Resolve(d, i, v, NoCheck)

\* registry.resolve(&id, verdict): the sender is taken out and used.
Release(r) ==
  LET i == job[r].id
  IN /\ job[r].stage = "release"
     /\ rx' = IF waiters[i] = NoCheck THEN rx ELSE [rx EXCEPT ![waiters[i]] = job[r].verdict]
     /\ waiters' = [waiters EXCEPT ![i] = NoCheck]
     /\ job' = [job EXCEPT ![r].stage = "edit"]
     /\ UNCHANGED <<daemonVars, checkVars, stateVars, card, accepted>>

\* The card named by the snapshot is edited to tell the outcome; the callback
\* handler only edits it when it is the card that was pressed.  The edit may
\* fail, which nobody retries.
EditCard(r) ==
  LET shown == perms[job[r].id].msg
      told  == IF job[r].verdict = "approve" THEN "approved" ELSE "denied"
  IN /\ job[r].stage = "edit"
     /\ job' = [job EXCEPT ![r] = NoJob]
     /\ \/ /\ shown # NoCheck /\ (r = Telegram => shown = job[r].card)
           /\ card' = [card EXCEPT ![shown] = told]
        \/ UNCHANGED card
     /\ UNCHANGED <<daemonVars, checkVars, chanVars, stateVars, accepted>>

-----------------------------------------------------------------------------
(* The clock and the daemon's life *)

Tick ==
  /\ now < MaxMs
  /\ now' = now + 1
  /\ UNCHANGED <<up, crashes, checkVars, chanVars, stateVars, card, job, accepted>>

\* The process dies: its tasks, channels and handlers with it.
Crash ==
  /\ up /\ crashes < MaxCrashes
  /\ up' = FALSE /\ crashes' = crashes + 1
  /\ pc' = [c \in Check |-> IF pc[c] \in Live THEN "done" ELSE pc[c]]
  /\ reply' = [c \in Check |->
                 IF pc[c] \in Live THEN [verdict |-> "none", reason |-> "eof"] ELSE reply[c]]
  /\ rx' = [c \in Check |-> IF pc[c] \in Live THEN "closed" ELSE rx[c]]
  /\ waiters' = [i \in PermId |-> NoCheck]
  /\ job' = [r \in Resolver |-> NoJob]
  /\ UNCHANGED <<now, cmd, permId, elapsed, stateVars, card, accepted>>

\* systemd starts it again (RestartSec=5: a later millisecond); load_state
\* reads state.json back.
Restart ==
  /\ ~up /\ now < MaxMs
  /\ up' = TRUE /\ now' = now + 1
  /\ perms' = disk
  /\ UNCHANGED <<crashes, checkVars, chanVars, disk, card, job, accepted>>

CheckStep(c) ==
  \/ Gate(c) \/ Register(c) \/ InsertPending(c) \/ SendPrompt(c) \/ MarkSent(c)
  \/ Receive(c) \/ GiveUp(c) \/ RemoveWaiter(c) \/ Expire(c)

ResolverStep(r) == Release(r) \/ EditCard(r)

\* What the daemon and the two resolvers do by themselves.
Proceed ==
  \/ \E c \in Check : Elapse(c) \/ CheckStep(c)
  \/ \E c \in Check, v \in Verdict : Press(c, v)
  \/ \E d \in Desktop, i \in PermId, v \in Verdict : DesktopResolve(d, i, v)
  \/ \E r \in Resolver : ResolverStep(r)
  \/ Tick

Next == (\E c \in Check : Arrive(c)) \/ Proceed \/ Crash \/ Restart

\* The runtime polls every task that is ready and every timer that is due,
\* and bounds its HTTP calls.  Nothing makes a user press a button, a hook
\* call, the clock stop or the daemon die.
Fairness ==
  /\ \A c \in Check : WF_vars(CheckStep(c)) /\ WF_vars(Elapse(c))
  /\ \A r \in Resolver : WF_vars(ResolverStep(r))

Safety == Init /\ [][Next]_vars
Spec == Safety /\ Fairness

-----------------------------------------------------------------------------
(* Properties *)

\* Every variable stays within its type.
TypeOK ==
  /\ up \in BOOLEAN /\ now \in PermId /\ crashes \in Nat
  /\ cmd \in [Check -> Classes]
  /\ pc \in [Check -> PC]
  /\ permId \in [Check -> PermId \cup {NoId}]
  /\ elapsed \in [Check -> BOOLEAN]
  /\ rx \in [Check -> {"empty", "closed"} \cup Verdict]
  /\ reply \in [Check -> Reply]
  /\ waiters \in [PermId -> Check \cup {NoCheck}]
  /\ perms \in [PermId -> Perm]
  /\ disk \in [PermId -> Perm]
  /\ card \in [Check -> {"none", "prompt", "approved", "denied"}]
  /\ job \in [Resolver -> Job]
  /\ accepted \in [PermId -> SUBSET Verdict]

\* A destructive command that the gate matches is approved only if an approval
\* of its perm id was accepted by the state actor: neither a timeout, a dropped
\* sender, a shared id, a failed flush nor a crash lets it through
\* (PermService::check, the timeout branch).
DestructiveFailsClosed ==
  \A c \in Check :
    reply[c].verdict = "approve" /\ Gated(c) /\ Destructive(c)
      => "approve" \in accepted[permId[c]]

\* A check that answers in the user's name was released by a decision the
\* state actor had accepted first (resolve_pending_if_open before
\* registry.resolve, in both resolvers).
UserVerdictWasGiven ==
  \A c \in Check :
    /\ reply[c].reason = "user_approved" => "approve" \in accepted[permId[c]]
    /\ reply[c].reason = "user_denied" => "deny" \in accepted[permId[c]]

\* No lost wake-up: a check that waits on a silent channel is the one its perm
\* id leads to in the registry, so a decision on that id reaches it
\* (PendingPermRegistry).
WaitingIsReachable ==
  \A c \in Check :
    pc[c] = "wait" /\ rx[c] = "empty" => waiters[permId[c]] = c

\* A check that answered (other than by an error) left no sender behind in the
\* registry (registry.remove in the timeout branch, the remove in resolve).
NoOrphanWaiter ==
  \A i \in PermId :
    waiters[i] # NoCheck => reply[waiters[i]].verdict = "none"

\* What a card tells its reader was decided: it is edited to "Approved" or
\* "Denied" only if that decision on its perm id was accepted.
CardTellsADecision ==
  \A c \in Check :
    /\ card[c] = "approved" => "approve" \in accepted[permId[c]]
    /\ card[c] = "denied" => "deny" \in accepted[permId[c]]

\* With distinct ids a check that answered for lack of a decision leaves no
\* open perm behind, in memory or after a restart: the button of its card can
\* settle nothing any more (expire_pending).
TimedOutIsNotOpen ==
  \A c \in Check :
    reply[c].reason \in TimeoutReason => ~IsOpen(permId[c])

\* A "timeout" answer is given only when the deadline has passed.
TimeoutMeansElapsed ==
  \A c \in Check : reply[c].reason \in TimeoutReason => elapsed[c]

\* A perm is decided once: after one decision was accepted, the opposite one
\* never is.
DecidedOnce == \A i \in PermId : accepted[i] # Verdict

\* The chat's record of a command agrees with what the command was told.
AuditTrailTrue ==
  \A c \in Check :
    /\ card[c] = "denied" => reply[c].verdict # "approve"
    /\ card[c] = "approved" => reply[c].verdict # "deny"

\* Every check that arrived is answered, or dies with the daemon.
EveryCheckEnds == \A c \in Check : pc[c] # "idle" ~> pc[c] = "done"

\* The check's part of the promise: the owner's word on a check is what was
\* accepted for the id it drew.
Policy == INSTANCE ApprovalPolicy WITH
  Request <- Check,
  kind <- [c \in Check |->
             IF ~Gated(c) THEN "free" ELSE IF Destructive(c) THEN "guard" ELSE "ask"],
  word <- [c \in Check |-> IF permId[c] = NoId THEN {} ELSE accepted[permId[c]]],
  answer <- reply

\* PermCheck implements ApprovalPolicy.
KeepsThePolicy == Policy!Spec
=============================================================================
