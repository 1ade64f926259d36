----------------------------- MODULE GateFiles ------------------------------
(***************************************************************************)
(* The approval gates on disk: one gate for the machine, one per repository*)
(* (a conf and a signature file each), one key.  `agent-bus gate` commands *)
(* (cli/approval_gate.rs) write them step by step under a lock per gate;   *)
(* the daemon (perm.rs) reads them without a lock, the gate of the machine *)
(* and then the one of the repository, and keeps what it read.             *)
(*                                                                         *)
(* A gate is the set of its rules.  A save is known by its number, which is*)
(* also the mtime of the conf it wrote: a signature is of one save.        *)
(***************************************************************************)
EXTENDS Integers, FiniteSets

CONSTANTS
  Terminal,      \* where gate commands are run, one at a time in each
  Repo,          \* the repositories
  Machine,       \* the gate of the machine; the scope of a call without a repo
  Pattern,       \* regular expressions
  Ops,           \* the commands that are run
  Scopes,        \* where checks come from
  Nobody,
  MaxRuns        \* bound of the model: commands run

Gate == Repo \cup {Machine}
Rule == [pattern : Pattern, destructive : BOOLEAN]
Op   == [kind : {"add", "remove"}, gate : Gate, rule : Rule]
          \cup [kind : {"init", "rotate"}, gate : {Machine}]

ASSUME GateAssumption ==
  /\ Nobody \notin Terminal /\ Machine \notin Repo
  /\ Ops \subseteq Op /\ Scopes \subseteq Gate
  /\ MaxRuns \in Nat

Missing == 0     \* the key, or the save of a gate, when there is no file
Blank   == 1     \* a key file that has been truncated and not yet written

VARIABLES
  key,           \* the key file: Missing, Blank or the number of a key
  conf,          \* gate -> the rules in approval-gate.conf and their save
  sig,           \* gate -> the key and the save approval-gate.conf.hmac is of
  lock,          \* gate -> who holds .lock
  run,           \* terminal -> its command
  keys, saves,   \* the last key generated, the last save begun
  runs,
  load,          \* the load under way in the daemon (under the cache's mutex)
  cache,         \* scope -> what the daemon goes by
  torn,          \* history: gates on which a save ended half-way
  signed,        \* history: gate -> the sets of rules that were ever signed
  owed           \* history: gate -> rules added and not removed since

files   == <<key, conf, sig, lock>>
daemon  == <<load, cache>>
history == <<torn, signed, owed>>
vars == <<files, run, keys, saves, runs, daemon, history>>

Over    == {"idle", "done", "failed"}
Step    == Over \cup {"conf?", "lock", "load", "body", "sig",
                      "blank", "newkey", "sign", "conf", "hmac"}
NoRules == [rules |-> {}, save |-> Missing]
NoCache == [rules |-> {}, mtime |-> Missing, fresh |-> FALSE, asOf |-> 0]

NewRun(at, op) == [at |-> at, op |-> op, key |-> Missing, got |-> NoRules, save |-> Missing]
NewLoad(at, s, n) == [at |-> at, scope |-> s, gate |-> Machine, key |-> Missing,
                      got |-> NoRules, rules |-> {}, mtime |-> Missing, asOf |-> n]
NoLoad == NewLoad("idle", Machine, 0)

Init ==
  /\ key \in {Missing, Blank + 1}
  /\ conf = [g \in Gate |-> NoRules]
  /\ sig  = [g \in Gate |-> [key |-> Missing, save |-> Missing]]
  /\ lock = [g \in Gate |-> Nobody]
  /\ run = [t \in Terminal |-> NewRun("idle", <<>>)]
  /\ keys = Blank + 1 /\ saves = 0 /\ runs = 0
  /\ load = NoLoad
  /\ cache = [s \in Gate |-> NoCache]
  /\ torn = {} /\ signed = [g \in Gate |-> {{}}] /\ owed = [g \in Gate |-> {}]

-----------------------------------------------------------------------------
(* Gate commands *)

OpOf(t)   == run[t].op
GateOf(t) == OpOf(t).gate
Kind(t)   == OpOf(t).kind

Go(t, at) == run' = [run EXCEPT ![t].at = at]
End(t, at) == run' = [run EXCEPT ![t] = NewRun(at, <<>>)]

\* Where a command goes first: rotate_key_inner loads before it locks.
First(op) ==
  CASE op.kind = "rotate"            -> "load"
    [] op.kind \in {"add", "remove"} -> "lock"
    [] op.kind = "init"              -> IF key = Missing THEN "blank" ELSE "conf?"

Begin(t) ==
  /\ run[t].at \in Over /\ runs < MaxRuns
  /\ \E op \in Ops :
       run' = [run EXCEPT ![t] = NewRun(First(op), op)]
  /\ runs' = runs + 1
  /\ UNCHANGED <<files, keys, saves, daemon, history>>

\* Mutant: locks are left behind by a command that fails.
KeepsLock(t) == UNCHANGED lock

\* Lock::drop, or the end of the process.
Unlock(t) == lock' = [g \in Gate |-> IF lock[g] = t THEN Nobody ELSE lock[g]]

\* An error is returned from where the command is, or the process is killed.
Fail(t) ==
  /\ End(t, "failed")
  /\ Unlock(t)
  /\ torn' = IF run[t].at = "hmac" THEN torn \cup {GateOf(t)} ELSE torn
  /\ UNCHANGED <<key, conf, sig, keys, saves, runs, daemon, signed, owed>>

Stop(t) == run[t].at \notin Over /\ Fail(t)

\* init_inner: an empty gate is saved if there is none.
ConfExists(t) ==
  /\ run[t].at = "conf?"
  /\ \/ conf[Machine] = NoRules /\ Go(t, "lock")
     \/ conf[Machine] # NoRules /\ End(t, "done")
  /\ UNCHANGED <<files, keys, saves, runs, daemon, history>>

\* Mutant: the lock is not waited for.
TakeLockAnyway(t) ==
  /\ run[t].at = "lock"
  /\ lock' = [lock EXCEPT ![GateOf(t)] = t]
  /\ Go(t, IF Kind(t) = "rotate" THEN "blank" ELSE "load")
  /\ UNCHANGED <<key, conf, sig, keys, saves, runs, daemon, history>>

\* Lock::new.
TakeLock(t) ==
  /\ run[t].at = "lock"
  /\ lock[GateOf(t)] = Nobody
  /\ lock' = [lock EXCEPT ![GateOf(t)] = t]
  /\ Go(t, IF Kind(t) = "rotate" THEN "blank" ELSE "load")
  /\ UNCHANGED <<key, conf, sig, keys, saves, runs, daemon, history>>

\* What follows a load: the save, or for a rotation the lock.
Loaded(t) == Go(t, IF Kind(t) = "rotate" THEN "lock" ELSE "sign")

\* load_and_verify: the key is read first, unless there is no conf.
ReadKey(t) ==
  /\ run[t].at = "load"
  /\ \/ /\ conf[GateOf(t)] = NoRules
        /\ Loaded(t)
     \/ /\ conf[GateOf(t)] # NoRules /\ key # Missing
        /\ run' = [run EXCEPT ![t].key = key, ![t].at = "body"]
  /\ UNCHANGED <<files, keys, saves, runs, daemon, history>>

ReadBody(t) ==
  /\ run[t].at = "body"
  /\ run' = [run EXCEPT ![t].got = conf[GateOf(t)], ![t].at = "sig"]
  /\ UNCHANGED <<files, keys, saves, runs, daemon, history>>

\* Mutant: any signature will do.
VerifiesAnything(k, save, g) == TRUE

\* verify_hmac.
Verifies(k, save, g) == sig[g] = [key |-> k, save |-> save]

ReadSig(t) ==
  /\ run[t].at = "sig"
  /\ Verifies(run[t].key, run[t].got.save, GateOf(t))
  /\ Loaded(t)
  /\ UNCHANGED <<files, keys, saves, runs, daemon, history>>

\* The load fails: no key, no signature, another signature.
LoadFails(t) ==
  /\ \/ run[t].at = "load" /\ conf[GateOf(t)] # NoRules /\ key = Missing
     \/ run[t].at = "sig" /\ ~Verifies(run[t].key, run[t].got.save, GateOf(t))
  /\ Fail(t)

\* write_protected of a new key: truncated, then written.
TruncateKey(t) ==
  /\ run[t].at = "blank"
  /\ key' = Blank
  /\ Go(t, "newkey")
  /\ UNCHANGED <<conf, sig, lock, keys, saves, runs, daemon, history>>

WriteKey(t) ==
  /\ run[t].at = "newkey"
  /\ keys' = keys + 1 /\ key' = keys + 1
  /\ Go(t, IF Kind(t) = "rotate" THEN "sign" ELSE "conf?")
  /\ UNCHANGED <<conf, sig, lock, saves, runs, daemon, history>>

Others(rules, r) == {q \in rules : q.pattern # r.pattern}

\* What a command makes of the rules.
Edited(op, rules) ==
  CASE op.kind = "add"    -> Others(rules, op.rule) \cup {op.rule}
    [] op.kind = "remove" -> Others(rules, op.rule)
    [] op.kind = "init"   -> {}
    [] op.kind = "rotate" -> rules

NewRules(t) == Edited(OpOf(t), run[t].got.rules)

\* A pattern to remove that is not there is an error.
NotFound(t) == Kind(t) = "remove" /\ NewRules(t) = run[t].got.rules

\* save_gate: the key is read (again), the new conf written beside the old one.
Sign(t) ==
  /\ run[t].at = "sign"
  /\ key # Missing /\ ~NotFound(t)
  /\ saves' = saves + 1
  /\ run' = [run EXCEPT ![t].key = key, ![t].save = saves + 1, ![t].at = "conf"]
  /\ UNCHANGED <<files, keys, runs, daemon, history>>

SignFails(t) ==
  /\ run[t].at = "sign"
  /\ key = Missing \/ NotFound(t)
  /\ Fail(t)

RenameConf(t) ==
  LET g == GateOf(t)
  IN /\ run[t].at = "conf"
     /\ conf' = [conf EXCEPT ![g] = [rules |-> NewRules(t), save |-> run[t].save]]
     /\ owed' = IF Kind(t) \in {"add", "remove"}
                THEN [owed EXCEPT ![g] = Others(owed[g], OpOf(t).rule)] ELSE owed
     /\ Go(t, "hmac")
     /\ UNCHANGED <<key, sig, lock, keys, saves, runs, daemon, torn, signed>>

\* The command is done once the signature is in place.
RenameSig(t) ==
  LET g == GateOf(t)
  IN /\ run[t].at = "hmac"
     /\ sig' = [sig EXCEPT ![g] = [key |-> run[t].key, save |-> run[t].save]]
     /\ signed' = [signed EXCEPT ![g] = signed[g] \cup {NewRules(t)}]
     /\ owed' = IF Kind(t) = "add"
                THEN [owed EXCEPT ![g] = owed[g] \cup {OpOf(t).rule}] ELSE owed
     /\ End(t, "done")
     /\ Unlock(t)
     /\ UNCHANGED <<key, conf, keys, saves, runs, daemon, torn>>

Work(t) ==
  \/ ConfExists(t) \/ ReadKey(t) \/ ReadBody(t) \/ ReadSig(t) \/ LoadFails(t)
  \/ TruncateKey(t) \/ WriteKey(t)
  \/ Sign(t) \/ SignFails(t) \/ RenameConf(t) \/ RenameSig(t)

-----------------------------------------------------------------------------
(* The daemon: gate_lines_for, MergedGateLoader::load_for, FsGateLoader::load *)

Commanding == <<files, run, keys, saves, runs, history>>

\* A check of scope s, for which the cached rules are not enough: none are
\* cached, or five seconds have passed.
Poll(s) ==
  /\ load.at = "idle"
  /\ cache[s].rules = {} \/ ~cache[s].fresh
  /\ load' = NewLoad("load", s, IF \A t \in Terminal : run[t].at \in Over THEN saves ELSE 0)
  /\ UNCHANGED <<Commanding, cache>>

LoadKey ==
  /\ load.at = "load"
  /\ \/ /\ conf[load.gate] = NoRules
        /\ load' = [load EXCEPT !.got = NoRules, !.at = "mtime"]
     \/ /\ conf[load.gate] # NoRules /\ key # Missing
        /\ load' = [load EXCEPT !.key = key, !.at = "body"]
  /\ UNCHANGED <<Commanding, cache>>

LoadBody ==
  /\ load.at = "body"
  /\ load' = [load EXCEPT !.got = conf[load.gate], !.at = "sig"]
  /\ UNCHANGED <<Commanding, cache>>

LoadSig ==
  /\ load.at = "sig"
  /\ Verifies(load.key, load.got.save, load.gate)
  /\ load' = [load EXCEPT !.at = "mtime"]
  /\ UNCHANGED <<Commanding, cache>>

\* The check is denied; the cache stays as it was.
LoadDenies ==
  /\ \/ load.at = "load" /\ conf[load.gate] # NoRules /\ key = Missing
     \/ load.at = "sig" /\ ~Verifies(load.key, load.got.save, load.gate)
  /\ load' = NoLoad
  /\ UNCHANGED <<Commanding, cache>>

Later(a, b) == IF a < b THEN b ELSE a

\* The mtime of the conf is asked for after its rules were read.
ReadMtime ==
  LET rules == load.rules \cup load.got.rules
      mtime == Later(load.mtime, conf[load.gate].save)
  IN /\ load.at = "mtime"
     /\ load' = [load EXCEPT !.rules = rules, !.mtime = mtime, !.gate = load.scope, !.got = NoRules,
                             !.at = IF load.gate = load.scope THEN "store" ELSE "load"]
     /\ UNCHANGED <<Commanding, cache>>

\* The rules replace the cached ones if those are none or of another mtime.
Store ==
  LET c == cache[load.scope]
  IN /\ load.at = "store"
     /\ cache' = [cache EXCEPT ![load.scope] =
          [rules |-> IF c.rules = {} \/ load.mtime # c.mtime THEN load.rules ELSE c.rules,
           mtime |-> load.mtime, fresh |-> TRUE, asOf |-> load.asOf]]
     /\ load' = NoLoad
     /\ UNCHANGED Commanding

\* APPROVAL_GATE_POLL_INTERVAL is over.
Interval(s) ==
  /\ cache[s].fresh
  /\ cache' = [cache EXCEPT ![s].fresh = FALSE]
  /\ UNCHANGED <<Commanding, load>>

\* The daemon ends and starts anew with an empty cache.
DaemonRestart ==
  /\ load' = NoLoad
  /\ cache' = [s \in Gate |-> NoCache]
  /\ UNCHANGED Commanding

Daemon == \/ LoadKey \/ LoadBody \/ LoadSig \/ LoadDenies \/ ReadMtime \/ Store
          \/ \E s \in Scopes : Poll(s) \/ Interval(s)
          \/ DaemonRestart

Next == (\E t \in Terminal : Begin(t) \/ TakeLock(t) \/ Work(t) \/ Stop(t)) \/ Daemon

\* A command is a process; blocked flock calls are served in turn.
Fairness == \A t \in Terminal : WF_vars(Work(t)) /\ SF_vars(TakeLock(t))

Safety == Init /\ [][Next]_vars
Spec == Safety /\ Fairness

-----------------------------------------------------------------------------
(* Properties *)

Save     == 0 .. saves
Text     == [rules : SUBSET Rule, save : Save]
RunType  == [at : Step, op : Ops \cup {<<>>}, key : 0 .. keys, got : Text, save : Save]
LoadType == [at : {"idle", "load", "body", "sig", "mtime", "store"}, scope : Gate, gate : Gate,
             key : 0 .. keys, got : Text, rules : SUBSET Rule, mtime : Save, asOf : Save]

TypeOK ==
  /\ keys \in Nat \ {Missing, Blank} /\ saves \in Nat /\ runs \in 0 .. MaxRuns
  /\ key \in 0 .. keys
  /\ conf \in [Gate -> Text]
  /\ sig \in [Gate -> [key : 0 .. keys, save : Save]]
  /\ lock \in [Gate -> Terminal \cup {Nobody}]
  /\ run \in [Terminal -> RunType]
  /\ load \in LoadType
  /\ cache \in [Gate -> [rules : SUBSET Rule, mtime : Save, fresh : BOOLEAN, asOf : Save]]
  /\ torn \in SUBSET Gate
  /\ signed \in [Gate -> SUBSET SUBSET Rule] /\ owed \in [Gate -> SUBSET Rule]

\* A gate whose signature is of another save than its conf is being saved, or
\* was left so by a command that ended between the two renames: the lock keeps
\* two commands from mixing their files (mutate_gate, rotate_key_inner).
SignatureFollowsConf ==
  \A g \in Gate \ torn : lock[g] = Nobody => sig[g].save = conf[g].save

\* What the daemon goes by was signed, each gate's part by itself, even when it
\* reads between the steps of a command (FsGateLoader::load).
RulesWereSigned ==
  \A s \in Gate :
    \/ cache[s].rules = {}
    \/ \E a \in signed[Machine], b \in signed[s] : cache[s].rules = a \cup b

\* A rule whose addition was confirmed stays in its gate until a command with
\* its pattern takes it out, whatever else runs or ends: "We need to lock during
\* the whole process" (rotate_key_inner).
NoRuleIsLost ==
  \A g \in Gate : lock[g] = Nobody => owed[g] \subseteq conf[g].rules

\* The gate is only ever added to and removed from, like those of repositories.
OnlyEdited(g) == \A op \in Ops : op.gate = g => op.kind \in {"add", "remove"}

\* The same of the gates that are never initialised or rotated, whatever happens
\* to the key meanwhile (mutate_gate).
NoEditIsLost ==
  \A g \in Gate :
    OnlyEdited(g) /\ lock[g] = Nobody => owed[g] \subseteq conf[g].rules

\* Every gate command ends.
EveryCommandEnds ==
  \A t \in Terminal : run[t].at \notin Over ~> run[t].at \in Over

Patterns(rules) == {r.pattern : r \in rules}

\* "A command is blocked if it matches a pattern in either the global gate or
\* the per-repo gate": what a poll leaves in the cache, when no command ran
\* since it began, has the patterns of both.
UnionInForce ==
  \A s \in Gate :
    cache[s].fresh /\ saves > 0 /\ cache[s].asOf = saves
      => Patterns(conf[Machine].rules) \cup Patterns(conf[s].rules)
           \subseteq Patterns(cache[s].rules)
=============================================================================
