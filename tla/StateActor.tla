----------------------------- MODULE StateActor -----------------------------
(***************************************************************************)
(* The state actor (core/state.rs): callers send commands through a        *)
(* bounded queue; one task applies them to its private state, publishes    *)
(* the snapshot, writes state.json by way of a temporary file, and replies.*)
(* The process may end anywhere; a power loss may also undo what was not   *)
(* synced to the disk.                                                     *)
(***************************************************************************)
EXTENDS StateCommands, Naturals, Sequences

CONSTANTS
  Caller,        \* tasks of the daemon that use the StateHandle
  Commands,      \* the commands they send
  NoCaller,
  QueueMax,      \* mpsc::channel(1000)
  Torn,          \* a file content that is no snapshot
  MaxCalls,      \* bounds of the model: calls made, ends of the process
  MaxCrashes

ASSUME ActorAssumption ==
  /\ Commands \subseteq Command
  /\ NoCaller \notin Caller
  /\ QueueMax \in Nat \ {0} /\ MaxCalls \in Nat /\ MaxCrashes \in Nat
  /\ Torn \notin State

VARIABLES
  up,            \* the process runs
  mem,           \* the actor's private state
  snapshot,      \* what StateHandle::snapshot returns
  file,          \* state.json
  survives,      \* the contents of state.json a power loss may leave
  tmp,           \* state.json.tmp: absent, written, synced
  phase,         \* where the actor is
  cur,           \* the caller it serves
  result,        \* what it will reply
  queue,         \* the channel, a command standing for its caller
  call,          \* the last call of each caller
  calls, crashes

actorVars == <<mem, snapshot, phase, cur, result>>
diskVars  == <<file, survives, tmp>>
boundVars == <<calls, crashes>>
vars == <<up, actorVars, diskVars, queue, call, boundVars>>

Flushing == {"write", "sync", "rename"}
Phase    == Flushing \cup {"idle", "publish", "syncdir", "reply"}
Out      == {"none", "ok", "won", "refused", "error", "lost"}
At       == {"idle", "sending", "queued", "serving"}
CallType == [at : At, cmd : Commands \cup {<<>>}, out : Out]

\* StateSnapshot::default, and what an earlier run of the daemon left.
Empty == [s \in Slot |-> "none"]

Init ==
  /\ file \in State /\ survives = {file} /\ tmp = "absent"
  /\ mem = file /\ snapshot = file
  /\ up = TRUE /\ phase = "idle" /\ cur = NoCaller /\ result = "none"
  /\ queue = <<>>
  /\ call = [k \in Caller |-> [at |-> "idle", cmd |-> <<>>, out |-> "none"]]
  /\ calls = 0 /\ crashes = 0

-----------------------------------------------------------------------------
(* The callers *)

\* A method of the handle is called.
Call(k) ==
  /\ up /\ calls < MaxCalls
  /\ call[k].at = "idle"
  /\ \E c \in Commands :
       call' = [call EXCEPT ![k] = [at |-> "sending", cmd |-> c, out |-> "none"]]
  /\ calls' = calls + 1
  /\ UNCHANGED <<up, actorVars, diskVars, queue, crashes>>

\* tx.send(cmd).await waits for room in the channel.
Send(k) ==
  /\ call[k].at = "sending"
  /\ Len(queue) < QueueMax
  /\ queue' = Append(queue, k)
  /\ call' = [call EXCEPT ![k].at = "queued"]
  /\ UNCHANGED <<up, actorVars, diskVars, boundVars>>

-----------------------------------------------------------------------------
(* The actor *)

\* rx.recv(): the command is applied to the private state; a refused one is
\* answered at once.
Take ==
  /\ up /\ phase = "idle" /\ queue # <<>>
  /\ LET k == Head(queue)
         c == call[k].cmd
     IN /\ cur' = k
        /\ mem' = After(c, mem)
        /\ result' = Outcome(c, mem)
        /\ phase' = IF Outcome(c, mem) = "refused" THEN "reply" ELSE "publish"
        /\ call' = [call EXCEPT ![k].at = "serving"]
  /\ queue' = Tail(queue)
  /\ UNCHANGED <<up, snapshot, diskVars, boundVars>>

\* The snapshot first, the file afterwards.
Publish ==
  /\ phase = "publish"
  /\ snapshot' = mem
  /\ phase' = "write"
  /\ UNCHANGED <<up, mem, cur, result, diskVars, queue, call, boundVars>>

\* Mutant: a failed write ends the command without a reply.
FailSilent(from) ==
  /\ phase = from
  /\ phase' = "idle" /\ cur' = NoCaller
  /\ UNCHANGED <<mem, snapshot, result>>

\* An I/O error returns from atomic_write_state.
Fail(from) ==
  /\ phase = from
  /\ phase' = "reply" /\ result' = "error"
  /\ UNCHANGED <<mem, snapshot, cur>>

Advance(from, to) ==
  /\ phase = from
  /\ phase' = to
  /\ UNCHANGED <<mem, snapshot, cur, result>>

\* Mutant: the temporary file is not synced.
WriteUnsynced ==
  /\ Advance("write", "rename") /\ tmp' = "written"
  /\ UNCHANGED <<up, file, survives, queue, call, boundVars>>

\* create_dir_all, to_vec, File::create, write_all.
WriteTmp ==
  /\ \/ Advance("write", "sync") /\ tmp' = "written"
     \/ Fail("write") /\ tmp' \in {tmp, "written"}
  /\ UNCHANGED <<up, file, survives, queue, call, boundVars>>

SyncTmp ==
  /\ \/ Advance("sync", "rename") /\ tmp' = "synced"
     \/ Fail("sync") /\ UNCHANGED tmp
  /\ UNCHANGED <<up, file, survives, queue, call, boundVars>>

\* After a rename the disk may hold the old file or the new one; of a file that
\* was not synced it may hold the name and not the content.
Rename ==
  /\ \/ /\ Advance("rename", "syncdir")
        /\ file' = mem /\ tmp' = "absent"
        /\ survives' = survives \cup {mem} \cup (IF tmp = "synced" THEN {} ELSE {Torn})
     \/ Fail("rename") /\ UNCHANGED diskVars
  /\ UNCHANGED <<up, queue, call, boundVars>>

\* Mutant: the directory is not synced.
SyncNoDir ==
  /\ Advance("syncdir", "reply")
  /\ UNCHANGED <<up, diskVars, queue, call, boundVars>>

SyncDir ==
  /\ \/ Advance("syncdir", "reply") /\ survives' = {file}
     \/ Fail("syncdir") /\ UNCHANGED survives
  /\ UNCHANGED <<up, file, tmp, queue, call, boundVars>>

Reply ==
  /\ phase = "reply"
  /\ call' = [call EXCEPT ![cur].at = "idle", ![cur].out = result]
  /\ phase' = "idle" /\ cur' = NoCaller /\ result' = "none"
  /\ UNCHANGED <<up, mem, snapshot, diskVars, queue, boundVars>>

-----------------------------------------------------------------------------
(* The process *)

\* Memory, channel and callers are gone.
Gone ==
  /\ crashes < MaxCrashes /\ crashes' = crashes + 1
  /\ up' = FALSE
  /\ mem' = Empty /\ snapshot' = Empty
  /\ phase' = "idle" /\ cur' = NoCaller /\ result' = "none"
  /\ queue' = <<>>
  /\ call' = [k \in Caller |-> IF call[k].at = "idle" THEN call[k]
                               ELSE [call[k] EXCEPT !.at = "idle", !.out = "lost"]]
  /\ UNCHANGED calls

\* The process ends.
Crash == up /\ Gone /\ UNCHANGED diskVars

\* The machine ends.
PowerLoss == Gone /\ file' \in survives /\ survives' = {file'} /\ UNCHANGED tmp

\* load_state: a leftover temporary file is removed; a file that does not parse
\* keeps the daemon from starting.
Restart ==
  /\ ~up /\ file # Torn
  /\ up' = TRUE
  /\ tmp' = "absent"
  /\ mem' = file /\ snapshot' = file
  /\ UNCHANGED <<phase, cur, result, file, survives, queue, call, boundVars>>

-----------------------------------------------------------------------------

ActorStep == Take \/ Publish \/ WriteTmp \/ SyncTmp \/ Rename \/ SyncDir \/ Reply

Next ==
  \/ \E k \in Caller : Call(k) \/ Send(k)
  \/ ActorStep
  \/ Crash \/ PowerLoss \/ Restart

\* The actor's task and the senders are polled; room in the channel goes to the
\* senders in turn.  Nobody has to call, and nothing has to fail or to end.
Fairness == WF_vars(ActorStep) /\ \A k \in Caller : SF_vars(Send(k))

Safety == Init /\ [][Next]_vars
Spec == Safety /\ Fairness

-----------------------------------------------------------------------------
(* Properties *)

TypeOK ==
  /\ up \in BOOLEAN
  /\ mem \in State /\ snapshot \in State
  /\ file \in State \cup {Torn} /\ survives \subseteq State \cup {Torn}
  /\ tmp \in {"absent", "written", "synced"}
  /\ phase \in Phase /\ cur \in Caller \cup {NoCaller} /\ result \in Out
  /\ queue \in Seq(Caller) /\ Len(queue) <= QueueMax
  /\ call \in [Caller -> CallType]
  /\ calls \in Nat /\ crashes \in Nat

\* Whatever the machine brings back after a power loss is a snapshot the daemon
\* can load (atomic_write_state).
NoTornFile == Torn \notin survives /\ file # Torn

\* Of a slot that nothing opens again, at most one caller is ever told that it
\* decided it, and one that it inserted it, crashes included: "the check and the
\* insert are serialized through the state actor".
Won(k, s) == call[k].out = "won" /\ call[k].cmd.slot = s
OneWinner ==
  \A s \in Slot :
    (\A c \in Commands : c.slot = s => c.op \in {"resolve", "expire", "insert"}) =>
      \A j \in Caller, k \in Caller :
        Won(j, s) /\ Won(k, s) /\ call[j].cmd.op = call[k].cmd.op => j = k

\* Every call is answered, or lost with the process.
EveryCallEnds == \A k \in Caller : call[k].at # "idle" ~> call[k].at = "idle"

-----------------------------------------------------------------------------
(* The store the actor implements *)

Applied(k) == cur = k /\ phase \in Flushing \cup {"syncdir", "reply"}

Client == [k \in Caller |->
            [at  |-> IF Applied(k) THEN "applied"
                     ELSE IF call[k].at = "idle" THEN "idle" ELSE "asked",
             cmd |-> call[k].cmd,
             out |-> IF Applied(k) THEN result ELSE call[k].out]]

Store == INSTANCE DurableStore WITH
  value  <- IF up THEN snapshot ELSE file,
  may    <- survives \cup (IF phase \in Flushing THEN {mem} ELSE {}),
  client <- Client

\* The actor implements the durable store.
ImplementsStore == Store!Spec
=============================================================================
