--------------------------- MODULE GateFilesProofs --------------------------
(***************************************************************************)
(* Proofs about GateFiles, for every set of terminals, repositories,       *)
(* patterns and commands.                                                  *)
(***************************************************************************)
EXTENDS GateFiles, TLAPS

USE GateAssumption

-----------------------------------------------------------------------------
(* Types *)

LEMMA GateTypes ==
  /\ Machine \in Gate
  /\ \A op \in Ops : op.gate \in Gate /\ op.kind \in {"add", "remove", "init", "rotate"}
  /\ \A op \in Ops : op.kind \in {"add", "remove"} => op.rule \in Rule
BY DEF Gate, Op

\* A command that runs is one of Ops.
RunsAnOp == \A t \in Terminal : run[t].at \notin Over => OpOf(t) \in Ops

\* An edit of rules gives rules.
LEMMA EditedType ==
  ASSUME NEW op \in Ops, NEW rules \in SUBSET Rule
  PROVE  Edited(op, rules) \in SUBSET Rule
BY GateTypes DEF Edited, Others

LEMMA InitType == Init => TypeOK /\ RunsAnOp
BY GateTypes DEF Init, TypeOK, RunsAnOp, Over, Step, Save, Text, RunType, LoadType, NewRun, NewLoad,
       NoLoad, NoRules, NoCache, Missing, Blank

\* The saves are more after a step than before it, and the keys too.
LEMMA WiderTypes ==
  ASSUME TypeOK, saves' \in Nat, saves <= saves', keys' \in Nat, keys <= keys'
  PROVE  /\ Save \subseteq Save'
         /\ Text \subseteq Text'
         /\ 0 .. keys \subseteq 0 .. keys'
         /\ RunType \subseteq RunType'
         /\ LoadType \subseteq LoadType'
<1>1. Save \subseteq Save' /\ 0 .. keys \subseteq 0 .. keys'
  BY DEF TypeOK, Save
<1>2. Text \subseteq Text'
  BY <1>1 DEF Text
<1>3. RunType \subseteq RunType' /\ LoadType \subseteq LoadType'
  BY <1>1, <1>2 DEF RunType, LoadType
<1> QED
  BY <1>1, <1>2, <1>3

\* A step that makes a key or begins a save.
LEMMA WiderState ==
  ASSUME TypeOK, Save \subseteq Save', Text \subseteq Text', 0 .. keys \subseteq 0 .. keys',
         LoadType \subseteq LoadType',
         saves' \in Nat, keys' \in Nat \ {Missing, Blank}, key' \in 0 .. keys', runs' = runs,
         run' \in [Terminal -> RunType'], UNCHANGED <<conf, sig, lock, daemon, history>>
  PROVE  TypeOK'
<1>1. conf \in [Gate -> Text'] /\ load \in LoadType'
  BY DEF TypeOK
<1>2. sig \in [Gate -> [key : 0 .. keys', save : Save']]
  BY DEF TypeOK
<1>3. cache \in [Gate -> [rules : SUBSET Rule, mtime : Save', fresh : BOOLEAN, asOf : Save']]
  BY DEF TypeOK
<1> QED
  BY <1>1, <1>2, <1>3 DEF TypeOK, daemon, history

\* A step of one command, by what becomes of its record.
LEMMA RunBecomes ==
  ASSUME TypeOK, RunsAnOp, NEW t \in Terminal, NEW r \in RunType,
         r.at \notin Over => r.op \in Ops, run' = [run EXCEPT ![t] = r]
  PROVE  run' \in [Terminal -> RunType] /\ RunsAnOp'
BY DEF TypeOK, RunsAnOp, OpOf

LEMMA RunFields ==
  ASSUME TypeOK, NEW t \in Terminal
  PROVE  /\ run[t] \in RunType
         /\ run[t] = [at |-> run[t].at, op |-> run[t].op, key |-> run[t].key,
                      got |-> run[t].got, save |-> run[t].save]
         /\ run[t].op \in Ops \cup {<<>>} /\ run[t].key \in 0 .. keys
         /\ run[t].got \in Text /\ run[t].save \in Save
BY DEF TypeOK, RunType

LEMMA GoType ==
  ASSUME TypeOK, RunsAnOp, NEW t \in Terminal, NEW at \in Step, Go(t, at),
         run[t].at \notin Over
  PROVE  run' \in [Terminal -> RunType] /\ RunsAnOp'
<1> DEFINE r == [run[t] EXCEPT !.at = at]
<1>1. r \in RunType /\ r.op = run[t].op
  BY RunFields DEF RunType
<1>2. run' = [run EXCEPT ![t] = r]
  BY DEF Go
<1>3. r.op \in Ops
  BY <1>1 DEF RunsAnOp, OpOf
<1> HIDE DEF r
<1> QED
  BY <1>1, <1>2, <1>3, RunBecomes

LEMMA NewRunType ==
  ASSUME TypeOK, RunsAnOp, NEW t \in Terminal, NEW at \in Step, NEW op \in Ops \cup {<<>>},
         at \notin Over => op \in Ops, run' = [run EXCEPT ![t] = NewRun(at, op)]
  PROVE  run' \in [Terminal -> RunType] /\ RunsAnOp'
<1>1. NewRun(at, op) \in RunType
  <2>1. NoRules \in Text /\ Missing \in Save /\ Missing \in 0 .. keys
    BY DEF TypeOK, Text, Save, NoRules, Missing
  <2> QED
    BY <2>1 DEF NewRun, RunType
<1>2. at \notin Over => NewRun(at, op).op \in Ops
  BY DEF NewRun
<1>3. NewRun(at, op).at = at
  BY DEF NewRun
<1> QED
  BY <1>1, <1>2, <1>3 DEF TypeOK, RunsAnOp, OpOf

\* A step in which, of the files, at most the locks change.
LEMMA OnlyRunType ==
  ASSUME TypeOK, run' \in [Terminal -> RunType],
         UNCHANGED <<key, conf, sig, keys, saves, daemon, signed, owed>>,
         runs' \in 0 .. MaxRuns, lock' \in [Gate -> Terminal \cup {Nobody}],
         torn' \in SUBSET Gate
  PROVE  TypeOK'
BY DEF TypeOK, daemon, Save, Text, RunType, LoadType

\* One command's step keeps the types.
LEMMA CommandType ==
  ASSUME TypeOK, RunsAnOp, NEW t \in Terminal, Begin(t) \/ TakeLock(t) \/ Work(t) \/ Stop(t)
  PROVE  TypeOK' /\ RunsAnOp'
<1> USE GateTypes
<1>0. /\ runs \in 0 .. MaxRuns /\ lock \in [Gate -> Terminal \cup {Nobody}]
      /\ torn \in SUBSET Gate
      /\ run[t].at \notin Over => OpOf(t) \in Ops /\ GateOf(t) \in Gate
  BY DEF TypeOK, RunsAnOp, OpOf, GateOf
<1>1. CASE Begin(t)
  <2>1. PICK op \in Ops : run' = [run EXCEPT ![t] = NewRun(First(op), op)]
    BY <1>1 DEF Begin
  <2>2. First(op) \in Step
    BY DEF First, Step, Over
  <2>3. run' \in [Terminal -> RunType] /\ RunsAnOp'
    BY <2>1, <2>2, NewRunType
  <2>4. runs' \in 0 .. MaxRuns
    BY <1>0, <1>1 DEF Begin
  <2> QED
    BY <1>0, <1>1, <2>3, <2>4, OnlyRunType DEF Begin, files, history, daemon
<1>2. CASE TakeLock(t)
  <2>1. \E at \in Step : Go(t, at)
    BY <1>2 DEF TakeLock, Step
  <2>2. run' \in [Terminal -> RunType] /\ RunsAnOp'
    BY <1>2, <2>1, GoType DEF TakeLock, Over
  <2>3. lock' \in [Gate -> Terminal \cup {Nobody}]
    BY <1>0, <1>2 DEF TakeLock
  <2> QED
    BY <1>0, <1>2, <2>2, <2>3, OnlyRunType DEF TakeLock, history, daemon
<1>3. ASSUME Fail(t), run[t].at \notin Over PROVE TypeOK' /\ RunsAnOp'
  <2>1. run' \in [Terminal -> RunType] /\ RunsAnOp'
    BY <1>3, NewRunType DEF Fail, End, Over, Step
  <2>2. lock' \in [Gate -> Terminal \cup {Nobody}] /\ torn' \in SUBSET Gate
    BY <1>0, <1>3 DEF Fail, Unlock
  <2> QED
    BY <1>0, <1>3, <2>1, <2>2, OnlyRunType DEF Fail, daemon
<1>4. CASE Stop(t)
  BY <1>3, <1>4 DEF Stop
<1>5. CASE LoadFails(t) \/ SignFails(t)
  BY <1>3, <1>5 DEF LoadFails, SignFails, Over
<1>6. CASE ConfExists(t)
  <2>1. run' \in [Terminal -> RunType] /\ RunsAnOp'
    BY <1>6, GoType, NewRunType DEF ConfExists, End, Over, Step
  <2> QED
    BY <1>0, <1>6, <2>1, OnlyRunType DEF ConfExists, files, history, daemon
<1>7. CASE ReadKey(t)
  <2>1. ASSUME Loaded(t) PROVE run' \in [Terminal -> RunType] /\ RunsAnOp'
    <3>1. PICK at \in Step : Go(t, at)
      BY <2>1 DEF Loaded, Step
    <3>2. run[t].at \notin Over
      BY <1>7 DEF ReadKey, Over
    <3> QED
      BY <3>1, <3>2, GoType
  <2>2. ASSUME run' = [run EXCEPT ![t].key = key, ![t].at = "body"]
        PROVE  run' \in [Terminal -> RunType] /\ RunsAnOp'
    <3> DEFINE r == [run[t] EXCEPT !.key = key, !.at = "body"]
    <3>1. r \in RunType /\ r.op = run[t].op
      BY RunFields DEF RunType, Step, TypeOK
    <3>2. run' = [run EXCEPT ![t] = r]
      BY <2>2
    <3>3. r.op \in Ops
      BY <1>0, <1>7, <3>1 DEF ReadKey, Over, OpOf
    <3> HIDE DEF r
    <3> QED
      BY <3>1, <3>2, <3>3, RunBecomes
  <2>3. run' \in [Terminal -> RunType] /\ RunsAnOp'
    BY <1>7, <2>1, <2>2 DEF ReadKey
  <2> QED
    BY <1>0, <1>7, <2>3, OnlyRunType DEF ReadKey, files, history, daemon
<1>8. CASE ReadBody(t)
  <2> DEFINE r == [run[t] EXCEPT !.got = conf[GateOf(t)], !.at = "sig"]
  <2>1. OpOf(t) \in Ops /\ conf[GateOf(t)] \in Text
    BY <1>0, <1>8 DEF ReadBody, Over, TypeOK
  <2>2. r \in RunType /\ r.op = run[t].op
    BY <2>1, RunFields DEF RunType, Step
  <2>3. run' = [run EXCEPT ![t] = r]
    BY <1>8 DEF ReadBody
  <2>4. r.op \in Ops
    BY <2>1, <2>2 DEF OpOf
  <2> HIDE DEF r
  <2>5. run' \in [Terminal -> RunType] /\ RunsAnOp'
    BY <2>2, <2>3, <2>4, RunBecomes
  <2> QED
    BY <1>0, <1>8, <2>5, OnlyRunType DEF ReadBody, files, history, daemon
<1>9. CASE ReadSig(t)
  <2>1. run' \in [Terminal -> RunType] /\ RunsAnOp'
    BY <1>9, GoType DEF ReadSig, Loaded, Over, Step
  <2> QED
    BY <1>0, <1>9, <2>1, OnlyRunType DEF ReadSig, files, history, daemon
<1>10. CASE TruncateKey(t)
  <2>1. run' \in [Terminal -> RunType] /\ RunsAnOp'
    BY <1>10, GoType DEF TruncateKey, Over, Step
  <2>2. key' \in 0 .. keys
    BY <1>10 DEF TruncateKey, TypeOK, Blank, Missing
  <2> QED
    BY <1>10, <2>1, <2>2 DEF TruncateKey, TypeOK, daemon, history, Save, Text, RunType, LoadType
<1>11. CASE WriteKey(t)
  <2>1. /\ keys' = keys + 1 /\ saves' = saves /\ runs' = runs
        /\ keys' \in Nat \ {Missing, Blank} /\ key' \in 0 .. keys'
    BY <1>11 DEF WriteKey, TypeOK, Missing, Blank
  <2>2. /\ Save \subseteq Save' /\ Text \subseteq Text' /\ 0 .. keys \subseteq 0 .. keys'
        /\ RunType \subseteq RunType' /\ LoadType \subseteq LoadType'
    BY <2>1, WiderTypes DEF TypeOK
  <2>3. run' \in [Terminal -> RunType] /\ RunsAnOp'
    BY <1>11, GoType DEF WriteKey, Over, Step
  <2> QED
    <3>1. run' \in [Terminal -> RunType']
      BY <2>2, <2>3
    <3> QED
      BY <1>11, <2>1, <2>2, <2>3, <3>1, WiderState DEF WriteKey, TypeOK
<1>12. CASE Sign(t)
  <2> DEFINE r == [run[t] EXCEPT !.key = key, !.save = saves + 1, !.at = "conf"]
  <2>1. keys' = keys /\ saves' = saves + 1 /\ runs' = runs /\ saves' \in Nat /\ key' = key
    BY <1>12 DEF Sign, TypeOK, files
  <2>2. /\ Save \subseteq Save' /\ Text \subseteq Text' /\ 0 .. keys \subseteq 0 .. keys'
        /\ RunType \subseteq RunType' /\ LoadType \subseteq LoadType'
    BY <2>1, WiderTypes DEF TypeOK
  <2>3. saves + 1 \in Save' /\ key \in 0 .. keys'
    BY <2>1 DEF TypeOK, Save
  <2>4. r \in RunType' /\ r.op = run[t].op
    BY <2>2, <2>3, RunFields DEF RunType, Step
  <2>5. run' = [run EXCEPT ![t] = r]
    BY <1>12 DEF Sign
  <2>6. run \in [Terminal -> RunType']
    BY <2>2 DEF TypeOK
  <2>7. r.op \in Ops
    BY <1>0, <1>12, <2>4 DEF Sign, Over, OpOf
  <2> HIDE DEF r
  <2>8. run' \in [Terminal -> RunType'] /\ RunsAnOp'
    BY <2>4, <2>5, <2>6, <2>7 DEF RunsAnOp, OpOf
  <2> QED
    BY <1>12, <2>1, <2>2, <2>3, <2>8, WiderState DEF Sign, files, TypeOK
<1>13. ASSUME run[t].at \notin Over PROVE GateOf(t) \in Gate /\ NewRules(t) \in SUBSET Rule
  BY <1>0, <1>13, EditedType, RunFields DEF NewRules, Text
<1>14. CASE RenameConf(t)
  <2>1. run' \in [Terminal -> RunType] /\ RunsAnOp'
    BY <1>14, GoType DEF RenameConf, Over, Step
  <2>2. conf' \in [Gate -> Text]
    <3>1. [rules |-> NewRules(t), save |-> run[t].save] \in Text
      BY <1>13, <1>14, RunFields DEF RenameConf, Over, Text
    <3> QED
      BY <1>14, <3>1 DEF RenameConf, TypeOK
  <2>3. owed' \in [Gate -> SUBSET Rule]
    BY <1>14 DEF RenameConf, TypeOK, Others
  <2> QED
    BY <1>14, <2>1, <2>2, <2>3 DEF RenameConf, TypeOK, daemon, Save, Text, RunType, LoadType
<1>15. CASE RenameSig(t)
  <2>1. run' \in [Terminal -> RunType] /\ RunsAnOp'
    BY <1>15, NewRunType DEF RenameSig, End, Over, Step
  <2>2. sig' \in [Gate -> [key : 0 .. keys, save : Save]]
    BY <1>15, RunFields DEF RenameSig, TypeOK
  <2>3. lock' \in [Gate -> Terminal \cup {Nobody}]
    BY <1>0, <1>15 DEF RenameSig, Unlock
  <2>4. signed' \in [Gate -> SUBSET SUBSET Rule]
    BY <1>13, <1>15 DEF RenameSig, TypeOK, Over
  <2>5. owed' \in [Gate -> SUBSET Rule]
    BY <1>0, <1>15 DEF RenameSig, TypeOK, Kind, Over
  <2> QED
    BY <1>15, <2>1, <2>2, <2>3, <2>4, <2>5
       DEF RenameSig, TypeOK, daemon, Save, Text, RunType, LoadType
<1> QED
  BY <1>1, <1>2, <1>4, <1>5, <1>6, <1>7, <1>8, <1>9, <1>10, <1>11, <1>12, <1>14, <1>15 DEF Work

\* The daemon's step keeps the types.
LEMMA DaemonType == TypeOK /\ RunsAnOp /\ Daemon => TypeOK' /\ RunsAnOp'
<1> SUFFICES ASSUME TypeOK, RunsAnOp, Daemon PROVE TypeOK' /\ RunsAnOp'
  OBVIOUS
<1> USE GateTypes DEF Commanding, files, history
<1>1. UNCHANGED Commanding
  BY DEF Daemon, LoadKey, LoadBody, LoadSig, LoadDenies, ReadMtime, Store, Poll, Interval,
         DaemonRestart
<1>2. load' \in LoadType
  <2>1. NoRules \in Text /\ Missing \in Save /\ Missing \in 0 .. keys /\ saves \in Save /\ 0 \in Save
    BY DEF TypeOK, Text, Save, NoRules, Missing
  <2>2. \A s \in Gate, n \in Save, at \in {"idle", "load"} : NewLoad(at, s, n) \in LoadType
    BY <2>1 DEF NewLoad, LoadType
  <2>3. load \in LoadType
    BY DEF TypeOK
  <2>4. \A s \in Scopes : Poll(s) => load' \in LoadType
    BY <2>1, <2>2 DEF Poll
  <2>5. LoadKey => load' \in LoadType
    <3>1. key \in 0 .. keys
      BY DEF TypeOK
    <3>2. LoadKey => load' = [load EXCEPT !.got = NoRules, !.at = "mtime"]
                       \/ load' = [load EXCEPT !.key = key, !.at = "body"]
      BY DEF LoadKey
    <3>3. LoadKey => UNCHANGED <<keys, saves>>
      BY DEF LoadKey, Commanding
    <3> QED
      BY <2>1, <2>3, <3>1, <3>2, <3>3 DEF LoadType, Save, Text
  <2>6. LoadBody => load' \in LoadType
    <3>1. conf[load.gate] \in Text
      BY <2>3 DEF TypeOK, LoadType
    <3> QED
      BY <2>3, <3>1 DEF LoadBody, LoadType
  <2>7. LoadSig => load' \in LoadType
    BY <2>3 DEF LoadSig, LoadType
  <2>8. ReadMtime => load' \in LoadType
    <3>1. conf[load.gate].save \in Save /\ load.got.rules \in SUBSET Rule
      BY <2>3 DEF TypeOK, LoadType, Text
    <3>2. Later(load.mtime, conf[load.gate].save) \in Save
      BY <2>3, <3>1 DEF Later, LoadType
    <3> DEFINE m == Later(load.mtime, conf[load.gate].save)
               u == load.rules \cup load.got.rules
    <3>3. u \in SUBSET Rule /\ m \in Save
      BY <2>3, <3>1, <3>2 DEF LoadType
    <3>4. ReadMtime => \E at \in {"store", "load"} :
            load' = [load EXCEPT !.rules = u, !.mtime = m, !.gate = load.scope,
                                 !.got = NoRules, !.at = at]
      BY DEF ReadMtime
    <3> HIDE DEF m, u
    <3> QED
      BY <2>1, <2>3, <3>3, <3>4 DEF LoadType
  <2>9. NoLoad \in LoadType
    BY <2>1, <2>2 DEF NoLoad
  <2> QED
    BY <2>3, <2>4, <2>5, <2>6, <2>7, <2>8, <2>9
       DEF Daemon, LoadDenies, Store, Interval, DaemonRestart
<1>3. cache' \in [Gate -> [rules : SUBSET Rule, mtime : Save, fresh : BOOLEAN, asOf : Save]]
  <2> DEFINE C == [rules : SUBSET Rule, mtime : Save, fresh : BOOLEAN, asOf : Save]
  <2>1. cache \in [Gate -> C] /\ load \in LoadType /\ NoCache \in C
    BY DEF TypeOK, NoCache, Save, Missing
  <2>2. Store => cache' \in [Gate -> C]
    <3>1. /\ cache[load.scope].rules \in SUBSET Rule /\ load.rules \in SUBSET Rule
          /\ load.mtime \in Save /\ load.asOf \in Save
      BY <2>1 DEF LoadType
    <3> DEFINE c == [rules |-> IF \/ cache[load.scope].rules = {}
                                  \/ load.mtime # cache[load.scope].mtime
                               THEN load.rules ELSE cache[load.scope].rules,
                     mtime |-> load.mtime, fresh |-> TRUE, asOf |-> load.asOf]
    <3>2. c \in C
      BY <3>1
    <3>3. Store => cache' = [cache EXCEPT ![load.scope] = c]
      BY DEF Store
    <3> HIDE DEF c, C
    <3> QED
      BY <2>1, <3>2, <3>3
  <2>3. ASSUME NEW s \in Scopes, Interval(s) PROVE cache' \in [Gate -> C]
    <3>1. s \in Gate /\ [cache[s] EXCEPT !.fresh = FALSE] \in C
      BY <2>1
    <3> HIDE DEF C
    <3> QED
      BY <2>1, <2>3, <3>1 DEF Interval
  <2>4. DaemonRestart => cache' \in [Gate -> C]
    BY <2>1 DEF DaemonRestart
  <2> QED
    BY <2>1, <2>2, <2>3, <2>4
       DEF Daemon, LoadKey, LoadBody, LoadSig, LoadDenies, ReadMtime, Poll
<1> QED
  BY <1>1, <1>2, <1>3 DEF TypeOK, RunsAnOp, OpOf, Save, Text, RunType, LoadType

-----------------------------------------------------------------------------
(* The lock, the files and what a command has read of them *)

\* The steps a command takes while it has the lock of its gate: a rotation
\* loads before it locks, the others after.
Locked(t) ==
  \/ run[t].at \in {"sign", "conf", "hmac"}
  \/ run[t].at \in {"load", "body", "sig"} /\ Kind(t) # "rotate"
  \/ run[t].at \in {"blank", "newkey"} /\ Kind(t) = "rotate"

HasLock == \A t \in Terminal : Locked(t) => lock[GateOf(t)] = t

\* Between the two renames the conf is the one the command wrote.
Written ==
  \A t \in Terminal :
    run[t].at = "hmac" => conf[GateOf(t)] = [rules |-> NewRules(t), save |-> run[t].save]

\* Otherwise conf and signature are of one save.
Half ==
  \A g \in Gate \ torn :
    \/ sig[g].save = conf[g].save
    \/ \E t \in Terminal : run[t].at = "hmac" /\ GateOf(t) = g

\* Where a command has read nothing yet.
Unread == {"conf?", "blank", "newkey", "lock", "load"}

\* What a command read under the lock is still what the conf says.
Current ==
  \A t \in Terminal :
    /\ run[t].at \in Unread /\ Kind(t) # "rotate" => run[t].got = NoRules
    /\ run[t].at \in {"sig", "sign", "conf"} /\ Kind(t) # "rotate"
         => run[t].got = conf[GateOf(t)]

\* What is owed is there.
Kept == \A g \in Gate : OnlyEdited(g) => owed[g] \subseteq conf[g].rules

FileInv == HasLock /\ Written /\ Half /\ Current /\ Kept

LEMMA InitFiles == Init => FileInv
BY GateTypes DEF Init, FileInv, HasLock, Written, Half, Current, Kept, Locked, NewRun, NoRules, Unread

\* The daemon's steps leave all this alone.
LEMMA DaemonFiles == FileInv /\ Daemon => FileInv'
<1> SUFFICES ASSUME FileInv, Daemon PROVE FileInv'
  OBVIOUS
<1>1. UNCHANGED Commanding
  BY DEF Daemon, LoadKey, LoadBody, LoadSig, LoadDenies, ReadMtime, Store, Poll, Interval,
         DaemonRestart
<1>2. HasLock' /\ Current'
  BY <1>1 DEF Commanding, files, FileInv, HasLock, Current, Locked, Kind, GateOf, OpOf
<1>3. Written' /\ Half' /\ Kept'
  BY <1>1 DEF Commanding, files, history, FileInv, Written, Half, Kept, OnlyEdited, GateOf, OpOf, NewRules
<1> QED
  BY <1>2, <1>3 DEF FileInv

\* The record of a command after a step of it; nobody else's changes.
LEMMA GoFields ==
  ASSUME TypeOK, NEW t \in Terminal, NEW at, Go(t, at)
  PROVE  /\ run'[t].at = at /\ run'[t].op = run[t].op
         /\ run'[t].got = run[t].got /\ run'[t].save = run[t].save /\ run'[t].key = run[t].key
         /\ \A u \in Terminal \ {t} : run'[u] = run[u]
BY RunFields DEF Go, TypeOK, RunType

LEMMA NewFields ==
  ASSUME TypeOK, NEW t \in Terminal, NEW at, NEW op, run' = [run EXCEPT ![t] = NewRun(at, op)]
  PROVE  /\ run'[t].at = at /\ run'[t].op = op /\ run'[t].got = NoRules
         /\ \A u \in Terminal \ {t} : run'[u] = run[u]
BY DEF TypeOK, NewRun

LEMMA ReadFields ==
  ASSUME TypeOK, NEW t \in Terminal, ReadKey(t) \/ ReadBody(t) \/ ReadSig(t)
  PROVE  /\ run'[t].op = run[t].op /\ run'[t].save = run[t].save
         /\ \A u \in Terminal \ {t} : run'[u] = run[u]
         /\ \/ /\ run[t].at = "load" /\ run'[t].at = "body"
               /\ conf[GateOf(t)] # NoRules
            \/ /\ run[t].at = "load" /\ conf[GateOf(t)] = NoRules
               /\ run'[t].got = run[t].got
               /\ run'[t].at = IF Kind(t) = "rotate" THEN "lock" ELSE "sign"
            \/ /\ run[t].at = "body" /\ run'[t].at = "sig"
               /\ run'[t].got = conf[GateOf(t)]
            \/ /\ run[t].at = "sig" /\ run'[t].got = run[t].got
               /\ run'[t].at = IF Kind(t) = "rotate" THEN "lock" ELSE "sign"
<1>1. CASE ReadBody(t)
  BY <1>1, RunFields DEF ReadBody, TypeOK, RunType
<1>2. CASE (ReadKey(t) /\ Loaded(t)) \/ ReadSig(t)
  <2>1. Go(t, IF Kind(t) = "rotate" THEN "lock" ELSE "sign")
    BY <1>2 DEF Loaded, ReadSig
  <2>2. \/ run[t].at = "load" /\ conf[GateOf(t)] = NoRules
        \/ run[t].at = "sig"
        \/ run[t].at = "load" /\ run'[t].at = "body"
    BY <1>2, RunFields DEF ReadKey, ReadSig, TypeOK, RunType
  <2>3. ~(run[t].at = "load" /\ run'[t].at = "body")
    BY <2>1, GoFields
  <2> QED
    BY <2>1, <2>2, <2>3, GoFields
<1>3. CASE ReadKey(t) /\ run' = [run EXCEPT ![t].key = key, ![t].at = "body"]
                      /\ conf[GateOf(t)] # NoRules
  BY <1>3, RunFields DEF ReadKey, TypeOK, RunType
<1> QED
  BY <1>1, <1>2, <1>3 DEF ReadKey

LEMMA SignFields ==
  ASSUME TypeOK, NEW t \in Terminal, Sign(t)
  PROVE  /\ run'[t].at = "conf" /\ run'[t].op = run[t].op /\ run'[t].got = run[t].got
         /\ run'[t].save = saves + 1 /\ run[t].at = "sign"
         /\ \A u \in Terminal \ {t} : run'[u] = run[u]
BY RunFields DEF Sign, TypeOK, RunType

LEMMA CommandLock ==
  ASSUME TypeOK, RunsAnOp, HasLock, NEW t \in Terminal,
         Begin(t) \/ TakeLock(t) \/ Work(t) \/ Stop(t)
  PROVE  HasLock'
<1> SUFFICES ASSUME NEW u \in Terminal, Locked(u)' PROVE lock'[GateOf(u)'] = u
  BY DEF HasLock
<1> USE DEF OpOf, GateOf, Kind
<1>0. /\ lock \in [Gate -> Terminal \cup {Nobody}]
      /\ \A v \in Terminal : run[v].at \notin Over => run[v].op \in Ops /\ run[v].op.gate \in Gate
      /\ Locked(u) => lock[GateOf(u)] = u
  BY GateTypes DEF TypeOK, RunsAnOp, HasLock
<1>10. ASSUME NEW at \in {"done", "failed"}, End(t, at), Unlock(t) PROVE lock'[GateOf(u)'] = u
  <2>1. run'[t].at \in {"done", "failed"} /\ \A v \in Terminal \ {t} : run'[v] = run[v]
    BY <1>10, NewFields DEF End
  <2>2. u # t /\ run'[u] = run[u]
    BY <2>1 DEF Locked
  <2>3. Locked(u) /\ run[u].op.gate \in Gate
    BY <1>0, <2>2 DEF Locked, Over
  <2> QED
    BY <1>0, <1>10, <2>2, <2>3 DEF Unlock
<1>1. CASE Begin(t)
  <2>1. PICK op \in Ops, at \in {"load", "lock", "blank", "conf?"} :
          /\ run' = [run EXCEPT ![t] = NewRun(at, op)]
          /\ at = "load" => op.kind = "rotate"
          /\ at = "blank" => op.kind = "init"
    <3>1. PICK op \in Ops : run' = [run EXCEPT ![t] = NewRun(First(op), op)]
      BY <1>1 DEF Begin
    <3>2. /\ First(op) \in {"load", "lock", "blank", "conf?"}
          /\ First(op) = "load" => op.kind = "rotate"
          /\ First(op) = "blank" => op.kind = "init"
      BY GateTypes DEF First
    <3> QED
      BY <3>1, <3>2
  <2>2. /\ run'[t].at = at /\ run'[t].op = op
        /\ \A v \in Terminal \ {t} : run'[v] = run[v]
    BY <2>1 DEF TypeOK, NewRun
  <2>3. lock' = lock
    BY <1>1 DEF Begin, files
  <2> QED
    BY <1>0, <2>1, <2>2, <2>3 DEF Locked
<1>2. CASE TakeLock(t)
  BY <1>0, <1>2, GoFields DEF TakeLock, Locked, Over
<1>3. CASE Fail(t)
  BY <1>3, <1>10 DEF Fail
<1>4. CASE ConfExists(t)
  <2>1. lock' = lock
    BY <1>4 DEF ConfExists, files
  <2>2. CASE Go(t, "lock")
    BY <1>0, <2>1, <2>2, GoFields DEF Locked
  <2>3. CASE End(t, "done")
    <3>1. run'[t].at = "done" /\ \A v \in Terminal \ {t} : run'[v] = run[v]
      BY <2>3, NewFields DEF End
    <3> QED
      BY <1>0, <2>1, <3>1 DEF Locked
  <2> QED
    BY <1>4, <2>2, <2>3 DEF ConfExists
<1>5. CASE ReadKey(t) \/ ReadBody(t) \/ ReadSig(t)
  <2>1. lock' = lock
    BY <1>5 DEF ReadKey, ReadBody, ReadSig, files
  <2> QED
    BY <1>0, <1>5, <2>1, ReadFields DEF Locked
<1>6. CASE TruncateKey(t) \/ WriteKey(t)
  BY <1>0, <1>6, GoFields DEF TruncateKey, WriteKey, Locked
<1>7. CASE Sign(t)
  BY <1>0, <1>7, SignFields DEF Sign, Locked, files
<1>8. CASE RenameConf(t)
  BY <1>0, <1>8, GoFields DEF RenameConf, Locked
<1>9. CASE RenameSig(t)
  BY <1>9, <1>10 DEF RenameSig
<1> QED
  BY <1>1, <1>2, <1>3, <1>4, <1>5, <1>6, <1>7, <1>8, <1>9 DEF Work, Stop, LoadFails, SignFails

LEMMA CommandFiles ==
  ASSUME TypeOK, RunsAnOp, FileInv, NEW t \in Terminal,
         Begin(t) \/ TakeLock(t) \/ Work(t) \/ Stop(t)
  PROVE  FileInv'
<1> USE DEF OpOf, GateOf, Kind, NewRules
<1>0. /\ conf \in [Gate -> Text] /\ sig \in [Gate -> [key : 0 .. keys, save : Save]]
      /\ owed \in [Gate -> SUBSET Rule] /\ torn \in SUBSET Gate
      /\ \A u \in Terminal : run[u].at \notin Over => run[u].op \in Ops /\ run[u].op.gate \in Gate
      /\ \A u \in Terminal : Locked(u) => lock[GateOf(u)] = u
  BY GateTypes DEF TypeOK, RunsAnOp, FileInv, HasLock
<1>l. HasLock'
  BY CommandLock DEF FileInv
\* Nobody has the lock of the gate of a command that has it.
<1>a. ASSUME NEW u \in Terminal \ {t}, Locked(u), Locked(t) PROVE GateOf(u) # GateOf(t)
  BY <1>0, <1>a
\* A step that changes neither conf nor signature and does not end a save.
<1>b. ASSUME conf' = conf, sig' = sig, torn \subseteq torn',
             \A u \in Terminal \ {t} : run'[u] = run[u],
             run[t].at = "hmac" => run'[t] = run[t] \/ GateOf(t) \in torn',
             run'[t].at = "hmac" => run'[t] = run[t]
      PROVE  Written' /\ Half'
  <2>1. Written'
    BY <1>b DEF FileInv, Written
  <2>2. ASSUME NEW g \in Gate \ torn'
        PROVE  \/ sig'[g].save = conf'[g].save
               \/ \E u \in Terminal : run'[u].at = "hmac" /\ run'[u].op.gate = g
    <3>1. CASE sig[g].save = conf[g].save
      BY <1>b, <3>1
    <3>2. CASE \E u \in Terminal : run[u].at = "hmac" /\ GateOf(u) = g
      BY <1>b, <2>2, <3>2
    <3> QED
      BY <1>b, <3>1, <3>2, <2>2 DEF FileInv, Half
  <2> QED
    BY <2>1, <2>2 DEF Half
\* What the others read stays current unless this command renames the conf.
<1>c. ASSUME \A u \in Terminal \ {t} : run'[u] = run[u],
             conf' = conf,
             run'[t].at \in Unread /\ run'[t].op.kind # "rotate" => run'[t].got = NoRules,
             run'[t].at \in {"sig", "sign", "conf"} /\ run'[t].op.kind # "rotate"
               => run'[t].got = conf[run'[t].op.gate]
      PROVE  Current'
  BY <1>c DEF FileInv, Current, Unread
<1>k. ASSUME conf' = conf, owed' = owed PROVE Kept'
  BY <1>k DEF FileInv, Kept
<1>e. ASSUME NEW at \in {"done", "failed"}, End(t, at)
      PROVE  run'[t].at = at /\ \A u \in Terminal \ {t} : run'[u] = run[u]
  BY <1>e, NewFields DEF End
<1>1. CASE Begin(t)
  <2>1. PICK op \in Ops, at \in {"load", "lock", "blank", "conf?"} :
          run' = [run EXCEPT ![t] = NewRun(at, op)]
    <3>1. PICK op \in Ops : run' = [run EXCEPT ![t] = NewRun(First(op), op)]
      BY <1>1 DEF Begin
    <3>2. First(op) \in {"load", "lock", "blank", "conf?"}
      BY GateTypes DEF First
    <3> QED
      BY <3>1, <3>2
  <2>2. /\ run'[t].at = at /\ run'[t].got = NoRules
        /\ \A u \in Terminal \ {t} : run'[u] = run[u]
    BY <2>1, NewFields
  <2>3. conf' = conf /\ sig' = sig /\ torn' = torn /\ owed' = owed /\ run[t].at # "hmac"
    BY <1>1 DEF Begin, files, history, Over
  <2>4. Written' /\ Half'
    BY <1>b, <2>2, <2>3
  <2>5. Current'
    BY <1>c, <2>2, <2>3 DEF Unread
  <2> QED
    BY <1>l, <1>k, <2>3, <2>4, <2>5 DEF FileInv
<1>2. CASE TakeLock(t)
  <2>1. PICK at \in {"blank", "load"} : Go(t, at) /\ (at = "load" => Kind(t) # "rotate")
    BY <1>2 DEF TakeLock
  <2>2. /\ run'[t].at = at /\ run'[t].got = run[t].got /\ run'[t].op = run[t].op
        /\ \A u \in Terminal \ {t} : run'[u] = run[u]
    BY <2>1, GoFields
  <2>3. conf' = conf /\ sig' = sig /\ torn' = torn /\ owed' = owed /\ run[t].at = "lock"
    BY <1>2 DEF TakeLock, history
  <2>4. Written' /\ Half'
    BY <1>b, <2>2, <2>3
  <2>5. Current'
    BY <1>c, <2>1, <2>2, <2>3 DEF FileInv, Current, Unread
  <2> QED
    BY <1>l, <1>k, <2>3, <2>4, <2>5 DEF FileInv
<1>3. ASSUME Fail(t), run[t].at \notin Over PROVE FileInv'
  <2>1. run'[t].at = "failed" /\ \A u \in Terminal \ {t} : run'[u] = run[u]
    BY <1>3, <1>e DEF Fail
  <2>2. /\ conf' = conf /\ sig' = sig /\ torn \subseteq torn' /\ owed' = owed
        /\ run[t].at = "hmac" => GateOf(t) \in torn'
    BY <1>3 DEF Fail
  <2>3. Written' /\ Half'
    BY <1>b, <2>1, <2>2
  <2>4. Current'
    BY <1>c, <2>1, <2>2 DEF Unread
  <2> QED
    BY <1>l, <1>k, <2>2, <2>3, <2>4 DEF FileInv
<1>4. CASE ConfExists(t)
  <2>1. /\ \/ run'[t].at = "lock" /\ run'[t].op = run[t].op /\ run'[t].got = run[t].got
           \/ run'[t].at = "done"
        /\ \A u \in Terminal \ {t} : run'[u] = run[u]
    BY <1>4, <1>e, GoFields DEF ConfExists
  <2>2. conf' = conf /\ sig' = sig /\ torn' = torn /\ owed' = owed /\ run[t].at = "conf?"
    BY <1>4 DEF ConfExists, files, history
  <2>3. Written' /\ Half'
    BY <1>b, <2>1, <2>2
  <2>4. Current'
    BY <1>c, <2>1, <2>2 DEF FileInv, Current, Unread
  <2> QED
    BY <1>l, <1>k, <2>2, <2>3, <2>4 DEF FileInv
<1>5. CASE ReadKey(t) \/ ReadBody(t) \/ ReadSig(t)
  <2>1. conf' = conf /\ sig' = sig /\ torn' = torn /\ owed' = owed
    BY <1>5 DEF ReadKey, ReadBody, ReadSig, files, history
  <2>2. /\ run[t].at # "hmac" /\ run'[t].at # "hmac"
        /\ \A u \in Terminal \ {t} : run'[u] = run[u]
    BY <1>5, ReadFields
  <2>3. Written' /\ Half'
    BY <1>b, <2>1, <2>2
  <2>4. Current'
    BY <1>5, <1>c, <2>1, <2>2, ReadFields DEF FileInv, Current, Unread
  <2> QED
    BY <1>l, <1>k, <2>1, <2>3, <2>4 DEF FileInv
<1>6. CASE TruncateKey(t) \/ WriteKey(t)
  <2>1. conf' = conf /\ sig' = sig /\ torn' = torn /\ owed' = owed
    BY <1>6 DEF TruncateKey, WriteKey, history
  <2>2. PICK at \in {"newkey", "sign", "conf?"} :
          Go(t, at) /\ (at = "sign" => Kind(t) = "rotate")
    BY <1>6 DEF TruncateKey, WriteKey
  <2>3. /\ run[t].at # "hmac" /\ run'[t].at = at /\ run'[t].op = run[t].op
        /\ run'[t].got = run[t].got /\ run[t].at \in {"blank", "newkey"}
        /\ \A u \in Terminal \ {t} : run'[u] = run[u]
    BY <1>6, <2>2, GoFields DEF TruncateKey, WriteKey
  <2>4. Written' /\ Half'
    BY <1>b, <2>1, <2>3
  <2>5. Current'
    BY <1>c, <2>1, <2>2, <2>3 DEF FileInv, Current, Unread
  <2> QED
    BY <1>l, <1>k, <2>1, <2>4, <2>5 DEF FileInv
<1>7. CASE Sign(t)
  <2>1. conf' = conf /\ sig' = sig /\ torn' = torn /\ owed' = owed
    BY <1>7 DEF Sign, files, history
  <2>2. Written' /\ Half'
    BY <1>7, <1>b, <2>1, SignFields
  <2>3. Current'
    BY <1>7, <1>c, <2>1, SignFields DEF FileInv, Current, Unread
  <2> QED
    BY <1>l, <1>k, <2>1, <2>2, <2>3 DEF FileInv
<1>8. CASE RenameConf(t)
  <2> DEFINE g == GateOf(t)
  <2>1. /\ run[t].at = "conf" /\ run'[t].at = "hmac" /\ run'[t].op = run[t].op
        /\ run'[t].got = run[t].got /\ run'[t].save = run[t].save
        /\ \A u \in Terminal \ {t} : run'[u] = run[u]
    BY <1>8, GoFields DEF RenameConf
  <2>2. /\ sig' = sig /\ torn' = torn /\ g \in Gate
        /\ conf' = [conf EXCEPT ![g] = [rules |-> NewRules(t), save |-> run[t].save]]
    BY <1>0, <1>8 DEF RenameConf, Over
  <2>3. \A u \in Terminal \ {t} : Locked(u) => GateOf(u) # g
    BY <1>a, <2>1 DEF Locked
  <2>4. conf'[g] = [rules |-> NewRules(t), save |-> run[t].save]
        /\ \A h \in Gate \ {g} : conf'[h] = conf[h]
    BY <1>0, <2>2
  <2> HIDE DEF g
  <2>5. Written'
    <3> SUFFICES ASSUME NEW u \in Terminal, run'[u].at = "hmac"
                 PROVE  conf'[run'[u].op.gate]
                          = [rules |-> Edited(run'[u].op, run'[u].got.rules), save |-> run'[u].save]
      BY DEF Written
    <3>1. CASE u = t
      BY <2>1, <2>4, <3>1 DEF g
    <3>2. CASE u # t
      <4>1. run'[u] = run[u] /\ GateOf(u) \in Gate \ {g}
        BY <1>0, <2>1, <2>3, <3>2 DEF Locked, Over
      <4> QED
        BY <2>4, <4>1 DEF FileInv, Written
    <3> QED
      BY <3>1, <3>2
  <2>6. Half'
    BY <2>1, <2>2, <2>4 DEF FileInv, Half, g
  <2>7. Current'
    <3> SUFFICES ASSUME NEW u \in Terminal, run'[u].op.kind # "rotate"
                 PROVE  /\ run'[u].at \in Unread => run'[u].got = NoRules
                        /\ run'[u].at \in {"sig", "sign", "conf"}
                             => run'[u].got = conf'[run'[u].op.gate]
      BY DEF Current
    <3>1. CASE u = t
      BY <2>1, <3>1 DEF Unread
    <3>2. CASE u # t
      <4>1. run'[u] = run[u]
        BY <2>1, <3>2
      <4>2. run[u].at \in {"sig", "sign", "conf"} => GateOf(u) \in Gate \ {g}
        BY <1>0, <2>3, <3>2, <4>1 DEF Locked, Over
      <4> QED
        BY <2>4, <4>1, <4>2 DEF FileInv, Current, Unread
    <3> QED
      BY <3>1, <3>2
  <2>8. Kept'
    <3> SUFFICES ASSUME NEW h \in Gate, OnlyEdited(h) PROVE owed'[h] \subseteq conf'[h].rules
      BY DEF Kept, OnlyEdited
    <3>1. owed[h] \subseteq conf[h].rules
      BY DEF FileInv, Kept
    <3>2. CASE h # g
      <4>1. owed'[h] = owed[h] /\ conf'[h] = conf[h]
        BY <1>0, <1>8, <2>2, <2>4, <3>2 DEF RenameConf, g
      <4> QED
        BY <3>1, <4>1
    <3>3. CASE h = g
      <4>1. /\ run[t].op \in Ops /\ Kind(t) \in {"add", "remove"}
            /\ run[t].got = conf[g]
        BY <1>0, <2>1, <3>3 DEF OnlyEdited, FileInv, Current, Over, g
      <4>2. owed' = [owed EXCEPT ![g] = Others(owed[g], run[t].op.rule)]
        BY <1>8, <4>1 DEF RenameConf, g
      <4>3. Others(owed[g], run[t].op.rule) \subseteq NewRules(t)
        BY <3>1, <3>3, <4>1 DEF Edited, Others
      <4> QED
        BY <1>0, <2>2, <2>4, <3>3, <4>2, <4>3
    <3> QED
      BY <3>2, <3>3
  <2> QED
    BY <1>l, <2>5, <2>6, <2>7, <2>8 DEF FileInv
<1>9. CASE RenameSig(t)
  <2> DEFINE g == GateOf(t)
  <2>1. /\ run[t].at = "hmac" /\ run'[t].at = "done"
        /\ \A u \in Terminal \ {t} : run'[u] = run[u]
    BY <1>9, <1>e DEF RenameSig
  <2>2. /\ conf' = conf /\ torn' = torn /\ g \in Gate
        /\ sig' = [sig EXCEPT ![g] = [key |-> run[t].key, save |-> run[t].save]]
    BY <1>0, <1>9 DEF RenameSig, Over
  <2>3. conf[g] = [rules |-> NewRules(t), save |-> run[t].save]
    BY <2>1 DEF FileInv, Written
  <2> HIDE DEF g
  <2>4. Written'
    BY <2>1, <2>2 DEF FileInv, Written
  <2>5. Half'
    <3> SUFFICES ASSUME NEW h \in Gate \ torn
                 PROVE  \/ sig'[h].save = conf'[h].save
                        \/ \E u \in Terminal : run'[u].at = "hmac" /\ run'[u].op.gate = h
      BY <2>2 DEF Half
    <3>1. CASE h = g
      BY <1>0, <2>2, <2>3, <3>1
    <3>2. CASE h # g
      <4>1. sig'[h] = sig[h]
        BY <1>0, <2>2, <3>2
      <4>2. \A u \in Terminal : run[u].at = "hmac" /\ GateOf(u) = h => run'[u] = run[u]
        BY <2>1, <3>2 DEF g
      <4> QED
        BY <2>2, <4>1, <4>2 DEF FileInv, Half
    <3> QED
      BY <3>1, <3>2
  <2>6. Current'
    BY <1>c, <2>1, <2>2 DEF Unread
  <2>7. Kept'
    <3> SUFFICES ASSUME NEW h \in Gate, OnlyEdited(h) PROVE owed'[h] \subseteq conf'[h].rules
      BY DEF Kept, OnlyEdited
    <3>1. owed[h] \subseteq conf[h].rules
      BY DEF FileInv, Kept
    <3>2. Kind(t) = "add" => run[t].op.rule \in conf[g].rules
      BY <2>3 DEF Edited
    <3> QED
      BY <1>0, <1>9, <2>2, <3>1, <3>2 DEF RenameSig, g
  <2> QED
    BY <1>l, <2>4, <2>5, <2>6, <2>7 DEF FileInv
<1> QED
  BY <1>1, <1>2, <1>3, <1>4, <1>5, <1>6, <1>7, <1>8, <1>9
     DEF Work, Stop, LoadFails, SignFails, Over

-----------------------------------------------------------------------------
(* What the daemon reads *)

\* A save that has begun and is not in place is nobody's yet; one whose conf is
\* in place is the set of rules its command made.
Numbered ==
  \A t \in Terminal :
    LET g == GateOf(t) n == run[t].save
    IN /\ run[t].at \in {"conf", "hmac"} => n > 0
       /\ run[t].at = "conf" => /\ conf[g].save # n /\ sig[g].save # n
                                /\ load.gate = g => load.got.save # n
       /\ run[t].at = "hmac" => (load.gate = g /\ load.got.save = n
                                   => load.got.rules = NewRules(t))

\* A text of the save that is signed was signed.
Book ==
  /\ \A g \in Gate : /\ {} \in signed[g]
                     /\ conf[g].save = sig[g].save => conf[g].rules \in signed[g]
  /\ load.got.save = sig[load.gate].save => load.got.rules \in signed[load.gate]

\* What a load has gathered was signed, part by part.
Gathered ==
  /\ load.at \in {"load", "body", "sig", "mtime"} =>
       /\ load.gate \in {Machine, load.scope}
       /\ load.gate = Machine => load.rules = {}
       /\ load.gate # Machine => load.rules \in signed[Machine]
  /\ load.at = "mtime" => load.got.rules \in signed[load.gate]
  /\ load.at = "store" => \E a \in signed[Machine], b \in signed[load.scope] : load.rules = a \cup b

LoadInv == Numbered /\ Book /\ Gathered /\ RulesWereSigned

LEMMA InitLoad == Init => LoadInv
BY GateTypes DEF Init, LoadInv, Numbered, Book, Gathered, RulesWereSigned, NewRun, NoLoad, NewLoad,
       NoRules, NoCache, Missing

\* The daemon's steps keep it.
LEMMA DaemonLoad == TypeOK /\ RunsAnOp /\ FileInv /\ LoadInv /\ Daemon => LoadInv'
<1> SUFFICES ASSUME TypeOK, RunsAnOp, FileInv, LoadInv, Daemon PROVE LoadInv'
  OBVIOUS
<1> USE DEF OpOf, GateOf, NewRules
<1>0. /\ UNCHANGED <<run, conf, sig, signed>>
      /\ \A t \in Terminal : run[t].at \in {"conf", "hmac"} => GateOf(t) \in Gate
      /\ load \in LoadType /\ conf \in [Gate -> Text] /\ cache \in [Gate -> [rules : SUBSET Rule,
           mtime : Save, fresh : BOOLEAN, asOf : Save]]
      /\ load.gate \in Gate /\ load.scope \in Gate
  BY GateTypes DEF Daemon, LoadKey, LoadBody, LoadSig, LoadDenies, ReadMtime, Store, Poll, Interval,
         DaemonRestart, Commanding, files, history, TypeOK, RunsAnOp, Over, LoadType
<1>n. NoRules.rules = {} /\ NoRules.save = 0
  BY DEF NoRules, Missing
\* What is kept when the load holds no text, the text it held, or a conf.
<1>a. ASSUME load'.gate \in Gate,
             \/ load'.got = NoRules
             \/ load'.gate = load.gate /\ load'.got \in {load.got, conf[load.gate]}
      PROVE  Numbered' /\ Book'
  <2>1. Numbered'
    <3>1. ASSUME NEW t \in Terminal, run[t].at = "hmac"
          PROVE  conf[GateOf(t)].rules = NewRules(t) /\ conf[GateOf(t)].save = run[t].save
      <4>1. conf[GateOf(t)] = [rules |-> NewRules(t), save |-> run[t].save]
        BY <3>1 DEF FileInv, Written
      <4> QED
        BY <4>1
    <3>2. CASE load'.got = NoRules
      BY <1>0, <1>n, <3>2 DEF LoadInv, Numbered
    <3>3. CASE load'.gate = load.gate /\ load'.got = load.got
      BY <1>0, <3>3 DEF LoadInv, Numbered
    <3>4. CASE load'.gate = load.gate /\ load'.got = conf[load.gate]
      BY <1>0, <3>1, <3>4 DEF LoadInv, Numbered
    <3> QED
      BY <1>a, <3>2, <3>3, <3>4
  <2>2. Book'
    BY <1>a, <1>0, <1>n DEF LoadInv, Book
  <2> QED
    BY <2>1, <2>2
<1>c. ASSUME cache' = cache PROVE RulesWereSigned'
  BY <1>c, <1>0 DEF LoadInv, RulesWereSigned
<1>1. ASSUME NEW s \in Scopes, Poll(s) PROVE LoadInv'
  <2>1. PICK n : load' = NewLoad("load", s, n)
    BY <1>1 DEF Poll
  <2>2. /\ load'.at = "load" /\ load'.gate = Machine /\ load'.got = NoRules /\ load'.rules = {}
        /\ load'.scope = s
    BY <2>1 DEF NewLoad
  <2>3. Gathered'
    BY <1>0, <2>2 DEF Gathered
  <2>4. cache' = cache
    BY <1>1 DEF Poll
  <2> QED
    BY <1>a, <1>c, <2>2, <2>3, <2>4, GateTypes DEF LoadInv
<1>2. CASE LoadKey \/ LoadBody
  <2>1. /\ load.at \in {"load", "body"} /\ load'.gate = load.gate /\ load'.scope = load.scope
        /\ load'.rules = load.rules /\ load'.at \in {"mtime", "body", "sig"}
        /\ load'.got \in {NoRules, load.got, conf[load.gate]}
        /\ load'.at = "mtime" => load'.got = NoRules
        /\ cache' = cache
    BY <1>0, <1>2 DEF LoadKey, LoadBody, LoadType
  <2>2. Gathered'
    BY <1>0, <1>n, <2>1 DEF LoadInv, Gathered, Book
  <2> QED
    BY <1>0, <1>a, <1>c, <2>1, <2>2 DEF LoadInv
<1>3. CASE LoadSig
  <2>1. /\ load.at = "sig" /\ load'.gate = load.gate /\ load'.scope = load.scope
        /\ load'.rules = load.rules /\ load'.at = "mtime" /\ load'.got = load.got
        /\ cache' = cache
    BY <1>0, <1>3 DEF LoadSig, LoadType
  <2>2. load.got.save = sig[load.gate].save
    BY <1>3 DEF LoadSig, Verifies
  <2>3. Gathered'
    BY <1>0, <2>1, <2>2 DEF LoadInv, Gathered, Book
  <2> QED
    BY <1>0, <1>a, <1>c, <2>1, <2>3 DEF LoadInv
<1>4. CASE ReadMtime
  <2>1. /\ load.at = "mtime" /\ load'.gate = load.scope /\ load'.scope = load.scope
        /\ load'.rules = load.rules \cup load.got.rules /\ load'.got = NoRules
        /\ load'.at = IF load.gate = load.scope THEN "store" ELSE "load"
        /\ cache' = cache
    BY <1>0, <1>4 DEF ReadMtime, LoadType
  <2>2. /\ load.gate \in {Machine, load.scope} /\ load.got.rules \in signed[load.gate]
        /\ load.gate = Machine => load.rules = {}
        /\ load.gate # Machine => load.rules \in signed[Machine]
    BY <2>1 DEF LoadInv, Gathered
  <2>3. ASSUME load.gate = load.scope
        PROVE  \E a \in signed[Machine], b \in signed[load.scope] : load'.rules = a \cup b
    <3>1. CASE load.gate = Machine
      <4>1. load'.rules = load.got.rules \cup load.got.rules
        BY <2>1, <2>2, <3>1
      <4> QED
        BY <2>2, <2>3, <3>1, <4>1
    <3>2. CASE load.gate # Machine
      BY <2>1, <2>2, <2>3, <3>2
    <3> QED
      BY <3>1, <3>2
  <2>4. ASSUME load.gate # load.scope
        PROVE  load.gate = Machine /\ load'.rules \in signed[Machine]
    <3>1. load.gate = Machine /\ load'.rules = load.got.rules
      BY <2>1, <2>2, <2>4
    <3> QED
      BY <2>2, <3>1
  <2>5. Gathered'
    BY <1>0, <2>1, <2>3, <2>4 DEF Gathered
  <2> QED
    BY <1>0, <1>a, <1>c, <2>1, <2>5 DEF LoadInv
<1>5. CASE Store
  <2>1. load' = NoLoad /\ load.at = "store"
    BY <1>5 DEF Store
  <2>2. load'.at = "idle" /\ load'.gate = Machine /\ load'.got = NoRules
    BY <2>1 DEF NoLoad, NewLoad
  <2>3. /\ \A s \in Gate \ {load.scope} : cache'[s] = cache[s]
        /\ cache'[load.scope].rules \in {load.rules, cache[load.scope].rules}
    BY <1>0, <1>5 DEF Store
  <2>4. RulesWereSigned'
    <3> SUFFICES ASSUME NEW s \in Gate
                 PROVE  \/ cache'[s].rules = {}
                        \/ \E a \in signed[Machine], b \in signed[s] : cache'[s].rules = a \cup b
      BY <1>0 DEF RulesWereSigned
    <3>1. cache'[s].rules = cache[s].rules \/ (s = load.scope /\ cache'[s].rules = load.rules)
      BY <2>3
    <3>2. CASE cache'[s].rules = cache[s].rules
      BY <3>2 DEF LoadInv, RulesWereSigned
    <3>3. CASE s = load.scope /\ cache'[s].rules = load.rules
      BY <2>1, <3>3 DEF LoadInv, Gathered
    <3> QED
      BY <3>1, <3>2, <3>3
  <2>5. Gathered'
    BY <2>2 DEF Gathered
  <2> QED
    BY <1>a, <2>2, <2>4, <2>5, GateTypes DEF LoadInv
<1>6. CASE LoadDenies \/ DaemonRestart
  <2>1. load'.at = "idle" /\ load'.gate = Machine /\ load'.got = NoRules
    BY <1>6 DEF LoadDenies, DaemonRestart, NoLoad, NewLoad
  <2>2. cache' = cache \/ \A s \in Gate : cache'[s].rules = {}
    BY <1>6 DEF LoadDenies, DaemonRestart, NoCache
  <2>3. RulesWereSigned'
    BY <1>c, <2>2 DEF RulesWereSigned
  <2>4. Gathered'
    BY <2>1 DEF Gathered
  <2> QED
    BY <1>a, <2>1, <2>3, <2>4, GateTypes DEF LoadInv
<1>7. ASSUME NEW s \in Scopes, Interval(s) PROVE LoadInv'
  <2>1. load' = load /\ \A u \in Gate : cache'[u].rules = cache[u].rules
    BY <1>0, <1>7 DEF Interval
  <2>2. RulesWereSigned'
    BY <1>0, <2>1 DEF LoadInv, RulesWereSigned
  <2>3. Gathered'
    BY <1>0, <2>1 DEF LoadInv, Gathered
  <2> QED
    BY <1>0, <1>a, <2>1, <2>2, <2>3 DEF LoadInv
<1> QED
  BY <1>1, <1>2, <1>3, <1>4, <1>5, <1>6, <1>7 DEF Daemon

\* So do the steps of the commands.
LEMMA CommandLoad ==
  ASSUME TypeOK, RunsAnOp, FileInv, LoadInv, NEW t \in Terminal,
         Begin(t) \/ TakeLock(t) \/ Work(t) \/ Stop(t)
  PROVE  LoadInv'
<1> USE DEF OpOf, GateOf, NewRules
<1>0. /\ conf \in [Gate -> Text] /\ sig \in [Gate -> [key : 0 .. keys, save : Save]]
      /\ signed \in [Gate -> SUBSET SUBSET Rule] /\ saves \in Nat
      /\ \A u \in Terminal : run[u].at \notin Over => run[u].op \in Ops /\ GateOf(u) \in Gate
      /\ \A u \in Terminal : Locked(u) => lock[GateOf(u)] = u
      /\ load.gate \in Gate /\ load.scope \in Gate /\ load.got \in Text
  BY GateTypes DEF TypeOK, RunsAnOp, FileInv, HasLock, LoadType
<1>l. load' = load /\ cache' = cache
  BY DEF Begin, TakeLock, Work, Stop, ConfExists, ReadKey, ReadBody, ReadSig, LoadFails, TruncateKey,
         WriteKey, Sign, SignFails, RenameConf, RenameSig, Fail, daemon
<1>a. ASSUME NEW u \in Terminal \ {t}, Locked(u), Locked(t) PROVE GateOf(u) # GateOf(t)
  BY <1>0, <1>a
\* What was signed stays signed.
<1>s. ASSUME \A g \in Gate : signed[g] \subseteq signed'[g] PROVE Gathered' /\ RulesWereSigned'
  <2>1. RulesWereSigned'
    BY <1>l, <1>s, GateTypes DEF LoadInv, RulesWereSigned
  <2>2. \A g \in Gate : \A r : r \in signed[g] => r \in signed'[g]
    BY <1>s
  <2>3. Machine \in Gate /\ Gathered
    BY GateTypes DEF LoadInv
  <2>4. Gathered'
    BY <1>0, <1>l, <2>2, <2>3 DEF Gathered
  <2> QED
    BY <2>1, <2>4
\* A step that changes no file and begins no save.
<1>b. ASSUME UNCHANGED <<conf, sig, signed>>,
             \A u \in Terminal \ {t} : run'[u] = run[u],
             run'[t].at \notin {"conf", "hmac"}
      PROVE  LoadInv'
  <2>1. Numbered' /\ Book'
    BY <1>b, <1>l DEF LoadInv, Numbered, Book
  <2> QED
    BY <1>b, <1>s, <2>1 DEF LoadInv
<1>e. ASSUME NEW at \in {"done", "failed"}, End(t, at)
      PROVE  run'[t].at = at /\ \A u \in Terminal \ {t} : run'[u] = run[u]
  BY <1>e, NewFields DEF End
<1>1. CASE Begin(t)
  <2>1. PICK op \in Ops, at \in {"load", "lock", "blank", "conf?"} :
          run' = [run EXCEPT ![t] = NewRun(at, op)]
    <3>1. PICK op \in Ops : run' = [run EXCEPT ![t] = NewRun(First(op), op)]
      BY <1>1 DEF Begin
    <3>2. First(op) \in {"load", "lock", "blank", "conf?"}
      BY GateTypes DEF First
    <3> QED
      BY <3>1, <3>2
  <2>2. /\ run'[t].at = at
        /\ \A u \in Terminal \ {t} : run'[u] = run[u]
    BY <2>1, NewFields
  <2> QED
    BY <1>1, <1>b, <2>2 DEF Begin, files, history
<1>2. CASE TakeLock(t)
  <2>1. PICK at \in {"blank", "load"} : Go(t, at)
    BY <1>2 DEF TakeLock
  <2>2. /\ run'[t].at = at
        /\ \A u \in Terminal \ {t} : run'[u] = run[u]
    BY <2>1, GoFields
  <2> QED
    BY <1>2, <1>b, <2>2 DEF TakeLock, history
<1>3. CASE Fail(t)
  BY <1>3, <1>b, <1>e DEF Fail
<1>4. CASE ConfExists(t)
  <2>1. /\ run'[t].at \in {"lock", "done"} /\ \A u \in Terminal \ {t} : run'[u] = run[u]
    BY <1>4, <1>e, GoFields DEF ConfExists
  <2> QED
    BY <1>4, <1>b, <2>1 DEF ConfExists, files, history
<1>5. CASE ReadKey(t) \/ ReadBody(t) \/ ReadSig(t)
  <2>1. UNCHANGED <<conf, sig, signed>>
    BY <1>5 DEF ReadKey, ReadBody, ReadSig, files, history
  <2>2. /\ run'[t].at \notin {"conf", "hmac"}
        /\ \A u \in Terminal \ {t} : run'[u] = run[u]
    BY <1>5, ReadFields
  <2> QED
    BY <1>b, <2>1, <2>2
<1>6. CASE TruncateKey(t) \/ WriteKey(t)
  <2>1. UNCHANGED <<conf, sig, signed>>
    BY <1>6 DEF TruncateKey, WriteKey, history
  <2>2. /\ run'[t].at \in {"newkey", "sign", "conf?"}
        /\ \A u \in Terminal \ {t} : run'[u] = run[u]
    BY <1>6, GoFields DEF TruncateKey, WriteKey
  <2> QED
    BY <1>b, <2>1, <2>2
<1>7. CASE Sign(t)
  <2>1. UNCHANGED <<conf, sig, signed>>
    BY <1>7 DEF Sign, files, history
  <2>2. /\ run'[t].at = "conf" /\ run'[t].op = run[t].op /\ run'[t].save = saves + 1
        /\ \A u \in Terminal \ {t} : run'[u] = run[u]
        /\ GateOf(t) \in Gate
    BY <1>0, <1>7, SignFields DEF Over
  <2>3. /\ conf[GateOf(t)].save \in 0 .. saves /\ sig[GateOf(t)].save \in 0 .. saves
        /\ load.got.save \in 0 .. saves
    BY <1>0, <2>2 DEF Text, Save
  <2>4. Numbered'
    BY <1>0, <1>l, <2>1, <2>2, <2>3 DEF LoadInv, Numbered
  <2>5. Book'
    BY <1>l, <2>1 DEF LoadInv, Book
  <2> QED
    BY <1>s, <2>1, <2>4, <2>5 DEF LoadInv
<1>8. CASE RenameConf(t)
  <2> DEFINE g == GateOf(t)
  <2>1. /\ run[t].at = "conf" /\ run'[t].at = "hmac" /\ run'[t].op = run[t].op
        /\ run'[t].got = run[t].got /\ run'[t].save = run[t].save
        /\ \A u \in Terminal \ {t} : run'[u] = run[u]
    BY <1>8, GoFields DEF RenameConf
  <2>2. /\ sig' = sig /\ signed' = signed /\ g \in Gate
        /\ conf' = [conf EXCEPT ![g] = [rules |-> NewRules(t), save |-> run[t].save]]
    BY <1>0, <1>8, <2>1 DEF RenameConf, Over
  <2>3. \A u \in Terminal \ {t} : Locked(u) => GateOf(u) # g
    BY <1>a, <2>1 DEF Locked
  <2>4. conf'[g].save = run[t].save /\ \A h \in Gate \ {g} : conf'[h] = conf[h]
    BY <1>0, <2>2
  <2>5. /\ run[t].save > 0 /\ sig[g].save # run[t].save
        /\ load.gate = g => load.got.save # run[t].save
    BY <2>1 DEF LoadInv, Numbered
  <2> HIDE DEF g
  <2>6. Book'
    BY <1>l, <2>2, <2>4, <2>5 DEF LoadInv, Book
  <2>7. Numbered'
    <3> SUFFICES ASSUME NEW u \in Terminal
                 PROVE  /\ run'[u].at \in {"conf", "hmac"} => run'[u].save > 0
                        /\ run'[u].at = "conf" =>
                             /\ conf'[run'[u].op.gate].save # run'[u].save
                             /\ sig'[run'[u].op.gate].save # run'[u].save
                             /\ load'.gate = run'[u].op.gate => load'.got.save # run'[u].save
                        /\ run'[u].at = "hmac" =>
                             (load'.gate = run'[u].op.gate /\ load'.got.save = run'[u].save
                                => load'.got.rules = Edited(run'[u].op, run'[u].got.rules))
      BY DEF Numbered
    <3>1. CASE u = t
      BY <1>l, <2>1, <2>5, <3>1 DEF g
    <3>2. CASE u # t
      <4>1. run'[u] = run[u]
        BY <2>1, <3>2
      <4>2. run[u].at = "conf" => GateOf(u) \in Gate \ {g}
        BY <1>0, <2>3, <3>2 DEF Locked, Over
      <4> QED
        BY <1>l, <2>2, <2>4, <4>1, <4>2 DEF LoadInv, Numbered
    <3> QED
      BY <3>1, <3>2
  <2> QED
    BY <1>s, <2>2, <2>6, <2>7 DEF LoadInv
<1>9. CASE RenameSig(t)
  <2> DEFINE g == GateOf(t)
  <2>1. /\ run[t].at = "hmac" /\ run'[t].at = "done"
        /\ \A u \in Terminal \ {t} : run'[u] = run[u]
    BY <1>9, <1>e DEF RenameSig
  <2>2. /\ conf' = conf /\ g \in Gate
        /\ sig' = [sig EXCEPT ![g] = [key |-> run[t].key, save |-> run[t].save]]
        /\ signed' = [signed EXCEPT ![g] = signed[g] \cup {NewRules(t)}]
    BY <1>0, <1>9, <2>1 DEF RenameSig, Over
  <2>3. /\ sig'[g].save = run[t].save /\ signed'[g] = signed[g] \cup {NewRules(t)}
        /\ \A h \in Gate \ {g} : sig'[h] = sig[h] /\ signed'[h] = signed[h]
    BY <1>0, <2>2
  <2>4. \A u \in Terminal \ {t} : Locked(u) => GateOf(u) # g
    BY <1>a, <2>1 DEF Locked
  <2>x. conf[g] = [rules |-> NewRules(t), save |-> run[t].save]
    BY <2>1 DEF FileInv, Written
  <2>5. /\ conf[g].rules = NewRules(t)
        /\ load.gate = g /\ load.got.save = run[t].save => load.got.rules = NewRules(t)
    BY <2>1, <2>x DEF LoadInv, Numbered
  <2> HIDE DEF g
  <2>6. Book'
    BY <1>0, <1>l, <2>2, <2>3, <2>5 DEF LoadInv, Book
  <2>7. Numbered'
    <3>1. \A u \in Terminal \ {t} : run[u].at = "conf" => GateOf(u) \in Gate \ {g}
      BY <1>0, <2>4 DEF Locked, Over
    <3> QED
      BY <1>l, <2>1, <2>2, <2>3, <3>1 DEF LoadInv, Numbered
  <2>8. \A h \in Gate : signed[h] \subseteq signed'[h]
    BY <2>3
  <2> QED
    BY <1>s, <2>6, <2>7, <2>8 DEF LoadInv
<1> QED
  BY <1>1, <1>2, <1>3, <1>4, <1>5, <1>6, <1>7, <1>8, <1>9 DEF Work, Stop, LoadFails, SignFails

-----------------------------------------------------------------------------
(* The theorems *)

GateInv == TypeOK /\ RunsAnOp /\ FileInv /\ LoadInv

LEMMA StepGateInv == GateInv /\ [Next]_vars => GateInv'
<1> SUFFICES ASSUME GateInv, [Next]_vars PROVE GateInv'
  OBVIOUS
<1>1. CASE UNCHANGED vars
  <2>1. TypeOK' /\ RunsAnOp'
    BY <1>1 DEF vars, files, daemon, history, GateInv, TypeOK, RunsAnOp, OpOf, Save, Text, RunType,
                LoadType
  <2>2. FileInv'
    BY <1>1 DEF vars, files, daemon, history, GateInv, FileInv, HasLock, Written, Half, Current, Kept,
                Locked, Kind, GateOf, OpOf, NewRules
  <2>3. LoadInv'
    BY <1>1 DEF vars, files, daemon, history, GateInv, LoadInv, Numbered, Book, Gathered,
                RulesWereSigned, GateOf, OpOf, NewRules
  <2> QED
    BY <2>1, <2>2, <2>3 DEF GateInv
<1>2. CASE Daemon
  BY <1>2, DaemonType, DaemonFiles, DaemonLoad DEF GateInv
<1>3. ASSUME NEW t \in Terminal, Begin(t) \/ TakeLock(t) \/ Work(t) \/ Stop(t) PROVE GateInv'
  BY <1>3, CommandType, CommandFiles, CommandLoad DEF GateInv
<1> QED
  BY <1>1, <1>2, <1>3 DEF Next

LEMMA AlwaysGateInv == Safety => []GateInv
<1>1. Init => GateInv
  BY InitType, InitFiles, InitLoad DEF GateInv
<1> QED
  BY <1>1, StepGateInv, PTL DEF Safety

\* The variables of GateFiles keep their types: a key or a save in use was made.
THEOREM TypeCorrect == Safety => []TypeOK
<1>1. GateInv => TypeOK
  BY DEF GateInv
<1> QED
  BY <1>1, AlwaysGateInv, PTL

\* A gate that nobody is saving has the signature of its conf, unless a save of
\* it was cut short, whatever commands run side by side.
THEOREM SignaturesFollow == Safety => []SignatureFollowsConf
<1>1. GateInv => SignatureFollowsConf
  BY DEF GateInv, FileInv, Half, HasLock, Locked, SignatureFollowsConf
<1> QED
  BY <1>1, AlwaysGateInv, PTL

\* The daemon goes by signed rules only, whichever steps of the commands fall
\* between its reads.
THEOREM OnlySignedRules == Safety => []RulesWereSigned
<1>1. GateInv => RulesWereSigned
  BY DEF GateInv, LoadInv
<1> QED
  BY <1>1, AlwaysGateInv, PTL

\* Of a gate that is only added to and removed from no confirmed rule is lost,
\* whatever happens to the key and to other gates.
THEOREM EditsStay == Safety => []NoEditIsLost
<1>1. GateInv => NoEditIsLost
  BY DEF GateInv, FileInv, Kept, NoEditIsLost
<1> QED
  BY <1>1, AlwaysGateInv, PTL
=============================================================================
