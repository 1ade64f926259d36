-------------------------------- MODULE Rules -------------------------------
(***************************************************************************)
(* What is computed from values alone, without waiting for anybody: which  *)
(* rule decides on a command, which models a turn of Antigravity tries,    *)
(* which sessions a list offers, and whether an account is to blame for a  *)
(* failed run.  Each is translated as an operator and compared with what   *)
(* it is for, on every input.                                              *)
(***************************************************************************)
EXTENDS Integers, Sequences, FiniteSets, Selection

CONSTANTS
  Question,     \* the inputs: records whose field "of" says what is asked
  GateRule,     \* the rules of gate files, each with the set of commands it matches
  Suspicious,   \* the commands the heuristic catches
  Listed,       \* the records of sessions
  Unset         \* the value of what is not there

Kinds == <<"quota", "rate", "auth">>            \* of failures, in the order of the rules
Fits  == <<"id", "label", "part">>              \* of models, the best first

Heuristic == [matches |-> Suspicious, destructive |-> TRUE]

\* The elements of a sequence, and its first one, if there is one.
Members(seq) == {seq[i] : i \in DOMAIN seq}
FirstOf(seq) == IF seq = <<>> THEN Unset ELSE seq[1]

ASSUME RulesAssumption ==
  /\ Unset \notin GateRule \cup {Heuristic} \cup Members(Kinds) \cup Members(Fits)
  /\ \A r \in Listed : r.id \in Int /\ r.time \in Int
  /\ \A q \in Question :
       /\ q.of \in {"gate", "models", "sessions", "run"}
       /\ q.of = "gate" =>
            q.machine \in Seq(GateRule \cup {Unset}) /\ q.repo \in Seq(GateRule \cup {Unset})
       /\ q.of = "models" =>
            /\ q.quota \in Seq(Nat)
            /\ q.wish # Unset =>
                 q.wish \in Seq(Members(Fits) \cup {"no"}) /\ Len(q.wish) = Len(q.quota)
       /\ q.of = "sessions" =>
            q.summaries \in Seq(Listed) /\ q.brains \in Seq(Listed) /\ q.limit \in Nat
       /\ q.of = "run" =>
            /\ q.ended \in {"ok", "failed", "timeout"}
            /\ q.stderr \subseteq Members(Kinds) /\ q.stdout \subseteq Members(Kinds)
            /\ q.transcript # Unset => q.transcript \subseteq Members(Kinds)

VARIABLE asked

RulesInit == asked = Unset
Ask       == asked = Unset /\ \E q \in Question : asked' = q
RulesSpec == RulesInit /\ [][Ask]_asked

Asked(what) == asked # Unset /\ asked.of = what

-----------------------------------------------------------------------------
(* The gate: [machine, repo: the lines of two files; command] *)

\* add_rule: a blank line or a comment is no rule.
Parsed(lines) == Selected(lines, GateRule)

\* A check looks for the first rule that matches.
Matching(lines, command) == Selected(Parsed(lines), {r \in GateRule : command \in r.matches})

\* Mutant: the repository's rules come first.
MergedRepoFirst(machine, repo) == repo \o machine

\* The rules of the machine, then those of the repository.
Merged(machine, repo) == machine \o repo

\* The rule that decides on the command, if any does.
Deciding(lines, command) ==
  IF command \in Suspicious THEN Heuristic ELSE FirstOf(Matching(lines, command))

\* A command needs approval if either gate asks for it, and what the machine's gate
\* says of a command is not changed by what a repository says: its rules are added,
\* and a check stops at the first that matches.
TheMachineHasTheSay ==
  Asked("gate") =>
    LET machine == Deciding(asked.machine, asked.command)
        repo    == Deciding(asked.repo, asked.command)
        merged  == Deciding(Merged(asked.machine, asked.repo), asked.command)
    IN  /\ (merged = Unset) <=> (machine = Unset /\ repo = Unset)
        /\ machine # Unset => merged = machine

-----------------------------------------------------------------------------
(* The models a turn tries: [quota: what is left of each, 0 for none; wish: how  *)
(* each model's name fits the one asked for, or Unset; fixed: one is set in the  *)
(* daemon's environment]                                                         *)

\* The first of the models that fit best.
Resolved(wish) ==
  LET best == FirstOf(Selected(Fits, Members(wish))) IN
  IF best = Unset THEN 0 ELSE Nth(Places(wish, {best}), 1)

FixedModel        == 0      \* not one of the list
HasQuota(quota)   == {i \in DOMAIN quota : quota[i] > 0}
InList(quota, wanted) == Selected([i \in DOMAIN quota |-> i], wanted)

\* sort_by keeps equals in order.
MoreLeft(quota) == {p \in (DOMAIN quota) \X (DOMAIN quota) :
                      \/ quota[p[1]] > quota[p[2]]
                      \/ quota[p[1]] = quota[p[2]] /\ p[1] < p[2]}
ByQuota(quota)  == Lineup(HasQuota(quota), MoreLeft(quota))

\* The one asked for, if there is such a model, and those that have something left.
Wished(quota, wish) ==
  LET model == Resolved(wish) IN
  IF model = 0 THEN <<>> ELSE <<model>> \o InList(quota, HasQuota(quota) \ {model})
Unwished(quota) ==
  IF HasQuota(quota) # {} THEN ByQuota(quota) ELSE InList(quota, DOMAIN quota)

\* Mutant: the model asked for is not taken out of the rest.
ModelsTwice(quota, wish, fixed) ==
  CASE wish # Unset /\ quota # <<>> /\ Resolved(wish) # 0 ->
         <<Resolved(wish)>> \o InList(quota, HasQuota(quota))
    [] wish = Unset /\ quota # <<>> -> IF fixed THEN <<FixedModel>> ELSE Unwished(quota)
    [] OTHER                        -> <<>>

\* None, with an error, if there is no model or none that is asked for.
Models(quota, wish, fixed) ==
  CASE wish # Unset /\ quota # <<>> -> Wished(quota, wish)
    [] wish = Unset /\ quota # <<>> -> IF fixed THEN <<FixedModel>> ELSE Unwished(quota)
    [] OTHER                        -> <<>>

\* A turn tries no model twice: each try sends the message again.  It tries the one
\* asked for first, and all that have something left; of the others only the one
\* asked for, unless none has anything left.  Without a wish it never tries a model
\* after one that has less left.
EachModelOnce ==
  Asked("models") =>
    LET quota == asked.quota
        tried == Models(quota, asked.wish, asked.fixed)
        all   == Members(tried)
        some  == {i \in DOMAIN quota : quota[i] > 0}
        wish  == IF asked.wish = Unset THEN {} ELSE {Resolved(asked.wish)}
    IN  tried \notin {<<>>, <<FixedModel>>} =>
          /\ \A i, j \in DOMAIN tried : tried[i] = tried[j] => i = j
          /\ some \subseteq all
          /\ some \cup wish # {} => all \subseteq some \cup wish
          /\ wish # {} => tried[1] \in wish
          /\ wish = {} => \A i, j \in DOMAIN tried :
                            i < j => quota[tried[i]] >= quota[tried[j]]

-----------------------------------------------------------------------------
(* A list of sessions: [summaries, brains: what the editor and the agent have    *)
(* recorded, each an id, a repository (Unset if none is found in it) and a time; *)
(* repo: the one asked for, or Unset; limit]                                     *)

Later(s, t) == s.time > t.time \/ (s.time = t.time /\ s.id > t.id)

\* sort_by keeps equals in order.
InOrder(records) == {p \in (DOMAIN records) \X (DOMAIN records) :
                       \/ Later(records[p[1]], records[p[2]])
                       \/ ~Later(records[p[2]], records[p[1]]) /\ p[1] < p[2]}
Sorted(records) ==
  LET places == Lineup(DOMAIN records, InOrder(records)) IN [n \in DOMAIN records |-> records[places[n]]]

\* Mutant: the last record of an id stands for it.
OncePerIdLast(records) ==
  LET lasts == {i \in DOMAIN records : \A j \in DOMAIN records : records[j].id = records[i].id => j <= i}
  IN  [n \in 1 .. Cardinality(lasts) |-> records[Nth(lasts, n)]]

\* dedupe_gemini_sessions: the first record of an id stands for it.
OncePerId(records) ==
  LET firsts == {i \in DOMAIN records : \A j \in DOMAIN records : records[j].id = records[i].id => i <= j}
  IN  [n \in 1 .. Cardinality(firsts) |-> records[Nth(firsts, n)]]

InRepo(records, repo) == Selected(records, {r \in Listed : repo = Unset \/ r.repo = repo})
Sessions(summaries, brains, repo, limit) ==
  LET all == OncePerId(Sorted(InRepo(summaries \o brains, repo)))
  IN  SubSeq(all, 1, IF limit < Len(all) THEN limit ELSE Len(all))

\* A list has each session once, by its latest record, the latest sessions first, as
\* many as there are up to the limit, and leaves out none that is later than one it has.
ListsTheLatest ==
  Asked("sessions") =>
    LET all  == Members(InRepo(asked.summaries \o asked.brains, asked.repo))
        list == Sessions(asked.summaries, asked.brains, asked.repo, asked.limit)
        LatestOf(id) == {r \in all : r.id = id /\ \A s \in all : s.id = id => s.time <= r.time}
        ids  == {r.id : r \in all}
        least == IF Cardinality(ids) < asked.limit THEN Cardinality(ids) ELSE asked.limit
    IN  /\ Len(list) = least
        /\ \A i \in DOMAIN list : list[i] \in LatestOf(list[i].id)
        /\ \A i, j \in DOMAIN list : i < j => Later(list[i], list[j])
        /\ \A id \in ids \ {list[i].id : i \in DOMAIN list} :
             \A r \in LatestOf(id) : \A i \in DOMAIN list : Later(list[i], r)

-----------------------------------------------------------------------------
(* A run of an agent: [ended: "ok", "failed" or "timeout"; stderr, stdout: the   *)
(* kinds of failure whose phrases are in them; transcript: those in the tail of  *)
(* the session's file, or Unset if it is not read]                               *)

FirstKind(text) == FirstOf(Selected(Kinds, text))

\* What stderr says, or else stdout.
Known(run) ==
  IF FirstKind(run.stderr) # Unset THEN FirstKind(run.stderr) ELSE FirstKind(run.stdout)

\* Mutant: a run that ends well is still searched for an expired login.
ClassifiedAuth(run) ==
  CASE run.ended = "timeout" -> "timeout"
    [] run.ended = "ok"      -> IF "auth" \in run.stderr THEN "auth" ELSE "success"
    [] run.ended = "failed"  -> IF Known(run) = Unset THEN "unknown" ELSE Known(run)

\* classify: all rules are of kinds that a good end rules out.
Classified(run) ==
  CASE run.ended = "timeout" -> "timeout"
    [] run.ended = "ok"      -> "success"
    [] run.ended = "failed"  -> IF Known(run) = Unset THEN "unknown" ELSE Known(run)

\* A failure nobody has explained is looked up in the transcript.
Explained(run) ==
  IF /\ Classified(run) = "unknown" /\ run.transcript # Unset
     /\ FirstKind(run.transcript) # Unset
  THEN FirstKind(run.transcript)
  ELSE Classified(run)

\* An account is blamed (and then left out of the rotation) only for a run that
\* failed, for something that is said in its output or, if that is silent, in its
\* transcript; and a failed run with a known phrase is never without a culprit.
BlamedOnEvidence ==
  Asked("run") =>
    LET said   == asked.stderr \cup asked.stdout
        tail   == IF asked.transcript = Unset THEN {} ELSE asked.transcript
        blamed == Explained(asked) \in Members(Kinds)
    IN  /\ blamed <=> (asked.ended = "failed" /\ said \cup tail # {})
        /\ blamed => Explained(asked) \in (IF said # {} THEN said ELSE tail)

-----------------------------------------------------------------------------
\* What is computed is what it is for, for every question (MergedGateLoader::load_for,
\* antigravity_model_candidates, detect_antigravity_sessions, classify).
AnswersAreRight ==
  TheMachineHasTheSay /\ EachModelOnce /\ ListsTheLatest /\ BlamedOnEvidence
=============================================================================
