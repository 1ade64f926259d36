------------------------- MODULE AgentRunnerProofs --------------------------
(***************************************************************************)
(* Proofs about AgentRunner, for every list of contexts, every number of   *)
(* requests and every cooldown.                                            *)
(***************************************************************************)
EXTENDS AgentRunner, SelectionProofs

USE RunnerAssumption

-----------------------------------------------------------------------------
(* The invariant *)

At   == Over \cup {"new", "running", "record", "decide", "activate"}
Busy == {"running", "record", "decide", "activate"}

Doing == [at : At, list : Seq(Ctx), idx : Nat, kind : Kind]
Asked == [from : Ctx \cup {NoCtx}, to : Ctx, status : {"pending", "approved", "denied"},
          card : BOOLEAN]

Types ==
  /\ {conf, cfg} \subseteq [on : SUBSET Ctx, active : Ctx \cup {NoCtx}]
  /\ token \in [Ctx -> Token] /\ status \in [Ctx -> Known]
  /\ active \in Ctx \cup {NoCtx}
  /\ req \in [Request -> Doing]
  /\ rotation \in Seq(Asked)
  /\ press \in [id : Nat, at : {"none", "activate"}]
  /\ now \in Nat /\ hot \in [Ctx -> Nat]

\* A request that is under way is at one of the contexts of its list, and the
\* list has no context twice.
Tries ==
  \A r \in Request :
    /\ req[r].at \in Busy => req[r].idx \in 1 .. Len(req[r].list)
    /\ req[r].at \in {"record", "decide", "activate"} => req[r].kind \notin {"timeout", "unknown"}
    /\ req[r].at = "decide" => req[r].kind # "success"

Pressed == press.at = "activate" => press.id \in DOMAIN rotation

\* The recorded state of a context knows of its last cooldown.
Cooled ==
  \A c \in Ctx : /\ status[c].state \in {"available", "soon"} => hot[c] = 0
                 /\ status[c].state = "limited" => hot[c] = status[c].until

Inv == Types /\ Tries /\ NoContextTwice /\ Pressed /\ Cooled

-----------------------------------------------------------------------------
(* Choosing *)

LEMMA OrderIs ==
  /\ Len(Order) \in Nat /\ DOMAIN Order = 1 .. Len(Order)
  /\ \A i \in 1 .. Len(Order) : Order[i] \in Ctx
  /\ \A c \in Ctx : \E i \in 1 .. Len(Order) : Order[i] = c
BY DEF Ctx

\* The candidates are contexts of S, each of them once.
LEMMA CandidatesAre ==
  ASSUME NEW S \in SUBSET Ctx
  PROVE  /\ Candidates(S) \in Seq(Ctx)
         /\ \A i \in 1 .. Len(Candidates(S)) : Candidates(S)[i] \in S
         /\ \A i \in 1 .. Len(Candidates(S)), j \in 1 .. Len(Candidates(S)) :
              i < j => Candidates(S)[i] # Candidates(S)[j]
<1> DEFINE T == S \ {active}
<1>1. \A i \in DOMAIN Order, j \in DOMAIN Order : Order[i] = Order[j] => i = j
  OBVIOUS
<1>2. Order \in Seq(Ctx)
  OBVIOUS
<1>3. \A k \in DOMAIN Selected(Order, T), l \in DOMAIN Selected(Order, T) :
        Selected(Order, T)[k] = Selected(Order, T)[l] => k = l
  BY <1>1, <1>2, SelectedDistinct
<1>4. Selected(Order, T) \in Seq(Ctx)
  BY <1>2, SelectedType
<1>5. \A k \in DOMAIN Selected(Order, T) : Selected(Order, T)[k] \in T
  BY <1>2, SelectedRange
<1> SUFFICES ASSUME NEW q \in Seq(Ctx), q = Selected(Order, T),
                    NEW w, w = Candidates(S)
             PROVE  /\ w \in Seq(Ctx)
                    /\ \A i \in 1 .. Len(w) : w[i] \in S
                    /\ \A i \in 1 .. Len(w), j \in 1 .. Len(w) : i < j => w[i] # w[j]
  BY <1>4
<1>6. w = Active(S) \o q
  BY DEF Candidates
<1>7. /\ \A k \in 1 .. Len(q), l \in 1 .. Len(q) : q[k] = q[l] => k = l
      /\ \A k \in 1 .. Len(q) : q[k] \in S /\ q[k] # active
      /\ Len(q) \in Nat
  <2>1. DOMAIN q = 1 .. Len(q) /\ Len(q) \in Nat
    OBVIOUS
  <2>2. \A k \in DOMAIN q, l \in DOMAIN q : q[k] = q[l] => k = l
    BY <1>3, Zenon
  <2>3. \A k \in DOMAIN q : q[k] \in T
    BY <1>5, Zenon
  <2> QED
    BY <2>1, <2>2, <2>3
<1> HIDE DEF T
<1>8. CASE active \in S
  <2>1. /\ w \in Seq(Ctx) /\ Len(w) = Len(q) + 1 /\ w[1] = active
        /\ \A k \in 1 .. Len(q) : w[k + 1] = q[k]
    BY <1>6, <1>8 DEF Active
  <2>2. \A k \in 1 .. Len(w) : k = 1 \/ (k - 1 \in 1 .. Len(q) /\ k = (k - 1) + 1)
    BY <1>7, <2>1
  <2>3. \A k \in 1 .. Len(w) : w[k] = IF k = 1 THEN active ELSE q[k - 1]
    BY <2>1, <2>2
  <2>4. \A k \in 1 .. Len(w) : w[k] \in S
    BY <1>7, <1>8, <2>2, <2>3
  <2>5. ASSUME NEW k \in 1 .. Len(w), NEW l \in 1 .. Len(w), k < l PROVE w[k] # w[l]
    <3>1. l # 1 /\ l - 1 \in 1 .. Len(q) /\ w[l] = q[l - 1]
      BY <2>2, <2>3, <2>5
    <3>2. CASE k = 1
      BY <1>7, <2>3, <3>1, <3>2
    <3>3. CASE k - 1 \in 1 .. Len(q) /\ k # 1
      BY <1>7, <2>3, <2>5, <3>1, <3>3
    <3> QED
      BY <2>2, <3>2, <3>3
  <2> QED
    BY <2>1, <2>4, <2>5
<1>9. CASE active \notin S
  <2>1. w = q
    BY <1>6, <1>9 DEF Active
  <2> QED
    BY <1>7, <2>1
<1> QED
  BY <1>8, <1>9

\* The context that /auth_rotate goes to is one that is on.
LEMMA AfterIsOn ==
  ASSUME cfg.on \in SUBSET Ctx, cfg.on # {}
  PROVE  After \in cfg.on
<1>1. Order \in Seq(Ctx)
  OBVIOUS
<1>2. Selected(Order, cfg.on) \in Seq(Ctx)
  BY <1>1, SelectedType
<1>3. \A k \in DOMAIN Selected(Order, cfg.on) : Selected(Order, cfg.on)[k] \in cfg.on
  BY <1>1, SelectedRange
<1>4. PICK i \in DOMAIN Order : Order[i] \in cfg.on
  BY OrderIs
<1>5. \E k \in DOMAIN Selected(Order, cfg.on) : Selected(Order, cfg.on)[k] = Order[i]
  BY <1>1, <1>4, SelectedFinds
<1> SUFFICES ASSUME NEW q \in Seq(Ctx), q = Selected(Order, cfg.on) PROVE After \in cfg.on
  BY <1>2
<1>6. Len(q) \in Nat \ {0} /\ \A k \in 1 .. Len(q) : q[k] \in cfg.on
  BY <1>3, <1>5
<1> DEFINE at == {k \in DOMAIN q : q[k] = active}
           m == CHOOSE k \in at : TRUE
<1>7. After = IF at = {} THEN q[1] ELSE q[(m % Len(q)) + 1]
  BY DEF After
<1>8. CASE at = {}
  BY <1>6, <1>7, <1>8
<1>9. CASE at # {}
  <2>1. m \in Nat
    BY <1>9
  <2> HIDE DEF m
  <2>2. (m % Len(q)) + 1 \in 1 .. Len(q)
    BY <1>6, <2>1
  <2> QED
    BY <1>6, <1>7, <1>9, <2>2
<1> QED
  BY <1>8, <1>9

-----------------------------------------------------------------------------
(* The requests *)

LEMMA ReadyIs ==
  ASSUME NEW a \in At
  PROVE  /\ [Ready EXCEPT !.at = a] \in Doing
         /\ [Ready EXCEPT !.at = a].at = a /\ [Ready EXCEPT !.at = a].idx = 0
         /\ [Ready EXCEPT !.at = a].list = <<>>
<1> DEFINE q == [Ready EXCEPT !.at = a]
<1>1. q = [at |-> a, list |-> <<>>, idx |-> 0, kind |-> "unknown"]
  BY DEF Ready
<1>2. "unknown" \in Kind /\ <<>> \in Seq(Ctx)
  BY DEF Kind
<1> HIDE DEF q
<1>3. q \in Doing /\ q.at = a /\ q.idx = 0 /\ q.list = <<>>
  BY <1>1, <1>2 DEF Doing
<1> QED
  BY <1>3 DEF q

LEMMA InitInv == RunnerInit => Inv
<1> SUFFICES ASSUME RunnerInit PROVE Inv
  OBVIOUS
<1>1. Ok \in Known /\ Ready \in Doing
  BY DEF Ok, Known, States, Ready, Doing, At, Kind
<1>2. Types
  <2>1. conf \in [on : SUBSET Ctx, active : Ctx \cup {NoCtx}]
    BY OrderIs DEF RunnerInit
  <2> QED
    BY <1>1, <2>1 DEF RunnerInit, Types, NoPress, Token
<1>3. Tries /\ NoContextTwice
  BY DEF RunnerInit, Tries, NoContextTwice, Ready, Busy
<1>4. Pressed /\ Cooled
  BY DEF RunnerInit, Pressed, Cooled, NoPress, Ok
<1> QED
  BY <1>2, <1>3, <1>4 DEF Inv

\* A step of one request that leaves what it tries in order.
LEMMA RequestMoves ==
  ASSUME Types, Tries, NoContextTwice, NEW r \in Request, NEW q \in Doing,
         req' = [req EXCEPT ![r] = q],
         q.at \in Busy => q.idx \in 1 .. Len(q.list),
         q.at \in {"record", "decide", "activate"} => q.kind \notin {"timeout", "unknown"},
         q.at = "decide" => q.kind # "success",
         q.idx <= MaxAttempts,
         \A i, j \in DOMAIN q.list : i < j => q.list[i] # q.list[j]
  PROVE  req' \in [Request -> Doing] /\ Tries' /\ NoContextTwice'
<1>1. req' \in [Request -> Doing] /\ \A x \in Request : req'[x] = IF x = r THEN q ELSE req[x]
  BY DEF Types
<1> QED
  BY <1>1 DEF Tries, NoContextTwice

\* A request that ends.
LEMMA RequestEnds ==
  ASSUME Types, Tries, NoContextTwice, NEW r \in Request, NEW a \in Over, End(r, a)
  PROVE  req' \in [Request -> Doing] /\ Tries' /\ NoContextTwice'
<1>1. a \in At /\ a \notin Busy /\ a \notin {"record", "decide", "activate"}
  BY DEF At, Busy, Over
<1> DEFINE q == [Ready EXCEPT !.at = a]
<1>2. q \in Doing /\ q.at = a /\ q.idx = 0 /\ q.list = <<>>
  BY <1>1, ReadyIs
<1>3. req' = [req EXCEPT ![r] = q]
  BY DEF End
<1> HIDE DEF q
<1>4. \A i, j \in DOMAIN q.list : i < j => q.list[i] # q.list[j]
  BY <1>2
<1>5. q.idx <= MaxAttempts /\ q.at \notin Busy /\ q.at \notin {"record", "decide", "activate"}
      /\ q.at # "decide"
  BY <1>1, <1>2
<1> QED
  BY <1>2, <1>3, <1>4, <1>5, RequestMoves

LEMMA SameRecord ==
  ASSUME UNCHANGED <<status, hot>>
  PROVE  Cooled <=> Cooled'
BY DEF Cooled

LEMMA StartInv ==
  ASSUME Inv, NEW r \in Request, Start(r)
  PROVE  Inv'
<1> DEFINE S == {c \in cfg.on : Usable(c)}
<1>1. UNCHANGED <<config, auth, rotation, press, counts, hot>>
  BY DEF Start
<1>2. req' = [req EXCEPT ![r] =
        IF Candidates(S) = <<>> THEN [Ready EXCEPT !.at = "failed"]
        ELSE [Ready EXCEPT !.at = "running", !.list = Candidates(S), !.idx = 1]]
  BY DEF Start
<1>3. S \in SUBSET Ctx
  BY DEF Inv, Types
<1> HIDE DEF S
<1>4. req' \in [Request -> Doing] /\ Tries' /\ NoContextTwice'
  <2>1. CASE Candidates(S) = <<>>
    BY <1>2, <2>1, RequestEnds DEF End, Over, Inv
  <2>2. CASE Candidates(S) # <<>>
    <3> SUFFICES ASSUME NEW w \in Seq(Ctx), w = Candidates(S), w # <<>>,
                        \A i \in 1 .. Len(w), j \in 1 .. Len(w) : i < j => w[i] # w[j]
                 PROVE  req' \in [Request -> Doing] /\ Tries' /\ NoContextTwice'
      BY <1>3, <2>2, CandidatesAre
    <3> DEFINE q == [Ready EXCEPT !.at = "running", !.list = w, !.idx = 1]
    <3>1. /\ q \in Doing /\ q.at = "running" /\ q.list = w /\ q.idx = 1
      BY DEF Ready, Doing, At, Kind
    <3>2. req' = [req EXCEPT ![r] = q]
      BY <1>2
    <3> HIDE DEF q
    <3>3. q.idx \in 1 .. Len(q.list) /\ q.idx <= MaxAttempts
      BY <3>1
    <3>4. \A i, j \in DOMAIN q.list : i < j => q.list[i] # q.list[j]
      BY <3>1
    <3> QED
      BY <3>1, <3>2, <3>3, <3>4, RequestMoves DEF Inv
  <2> QED
    BY <2>1, <2>2
<1>5. Types' /\ Pressed' /\ Cooled'
  BY <1>1, <1>4 DEF Inv, Types, Pressed, Cooled, config, auth, counts
<1> QED
  BY <1>4, <1>5 DEF Inv

LEMMA EndsInv ==
  ASSUME Inv, NEW r \in Request, Ends(r)
  PROVE  Inv'
<1>1. UNCHANGED <<config, auth, rotation, press, counts, hot>> /\ req[r].at = "running"
  BY DEF Ends
<1>2. PICK k \in Kind : req' = [req EXCEPT ![r].kind = k,
        ![r].at = IF k \in {"timeout", "unknown"} THEN "done" ELSE "record"]
  BY DEF Ends
<1> DEFINE a == IF k \in {"timeout", "unknown"} THEN "done" ELSE "record"
           q == [req[r] EXCEPT !.kind = k, !.at = a]
<1>3. a \in At
  BY DEF At, Over
<1>4. req[r] \in Doing
  BY DEF Inv, Types
<1>5. q \in Doing /\ q.at = a /\ q.list = req[r].list /\ q.idx = req[r].idx /\ q.kind = k
  BY <1>3, <1>4 DEF Doing
<1>6. req' = [req EXCEPT ![r] = q]
  BY <1>2 DEF Inv, Types
<1> HIDE DEF q
<1>7. /\ q.idx \in 1 .. Len(q.list) /\ q.idx <= MaxAttempts
      /\ \A i, j \in DOMAIN q.list : i < j => q.list[i] # q.list[j]
  BY <1>1, <1>5 DEF Inv, Tries, NoContextTwice, Busy
<1>8. req' \in [Request -> Doing] /\ Tries' /\ NoContextTwice'
  BY <1>5, <1>6, <1>7, RequestMoves DEF Inv
<1>9. Types' /\ Pressed' /\ Cooled'
  BY <1>1, <1>8 DEF Inv, Types, Pressed, Cooled, config, auth, counts
<1> QED
  BY <1>8, <1>9 DEF Inv

\* A request that only goes to another place.
LEMMA RequestGoes ==
  ASSUME Types, Tries, NoContextTwice, NEW r \in Request, NEW a \in At, NEW n \in Nat,
         req' = [req EXCEPT ![r].idx = n, ![r].at = a],
         n \in 1 .. Len(req[r].list), n <= MaxAttempts,
         a \in {"record", "decide", "activate"} => req[r].kind \notin {"timeout", "unknown"},
         a = "decide" => req[r].kind # "success"
  PROVE  req' \in [Request -> Doing] /\ Tries' /\ NoContextTwice'
<1> DEFINE q == [req[r] EXCEPT !.idx = n, !.at = a]
<1>1. req[r] \in Doing
  BY DEF Types
<1>2. q \in Doing /\ q.at = a /\ q.list = req[r].list /\ q.idx = n /\ q.kind = req[r].kind
  BY <1>1 DEF Doing
<1>3. req' = [req EXCEPT ![r] = q]
  BY DEF Types
<1> HIDE DEF q
<1>4. \A i, j \in DOMAIN q.list : i < j => q.list[i] # q.list[j]
  BY <1>2 DEF NoContextTwice
<1> QED
  BY <1>2, <1>3, <1>4, RequestMoves

LEMMA MineIs ==
  ASSUME Inv, NEW r \in Request, req[r].at \in Busy
  PROVE  Mine(r) \in Ctx /\ (HasNext(r) => Following(r) \in Ctx)
<1>1. req[r] \in Doing /\ req[r].idx \in 1 .. Len(req[r].list)
  BY DEF Inv, Types, Tries
<1>2. req[r].list \in Seq(Ctx) /\ Len(req[r].list) \in Nat /\ req[r].idx \in Nat
  BY <1>1 DEF Doing
<1>3. HasNext(r) => req[r].idx + 1 \in 1 .. Len(req[r].list)
  BY <1>1, <1>2 DEF HasNext
<1> QED
  BY <1>1, <1>2, <1>3 DEF Mine, Following

LEMMA RecordInv ==
  ASSUME Inv, NEW r \in Request, Record(r)
  PROVE  Inv'
<1> DEFINE k == req[r].kind
<1>1. /\ req[r].at = "record" /\ UNCHANGED <<config, active, rotation, press, counts>>
      /\ Go(r, IF k = "success" THEN "activate" ELSE "decide")
  BY DEF Record
<1>2. Mine(r) \in Ctx
  BY <1>1, MineIs DEF Busy
<1>3. k \in Limit \cup Broken \cup {"success"}
  BY <1>1 DEF Inv, Types, Doing, Tries, Kind
<1> SUFFICES ASSUME NEW c \in Ctx, c = Mine(r) PROVE Inv'
  BY <1>2
<1>4. \/ status' = [status EXCEPT ![c] = [state |-> "available", until |-> 0]]
         /\ hot' = [hot EXCEPT ![c] = 0]
      \/ k \in Limit /\ status' = [status EXCEPT ![c] = [state |-> "limited", until |-> Until(k)]]
         /\ hot' = [hot EXCEPT ![c] = Until(k)]
      \/ status' = [status EXCEPT ![c] = [state |-> "broken", until |-> 0]] /\ UNCHANGED hot
  <2>1. CASE k = "success"
    BY <2>1 DEF Record, Set, Limit, Broken
  <2>2. CASE k \in Limit
    BY <2>2 DEF Record, Set, Limit, Broken
  <2>3. CASE k \in Broken
    BY <2>3 DEF Record, Set, Limit, Broken
  <2> QED
    BY <1>3, <2>1, <2>2, <2>3
<1>5. k \in Limit => Until(k) \in Nat
  BY DEF Until, Inv, Types
<1>6. /\ [state |-> "available", until |-> 0] \in Known
      /\ [state |-> "broken", until |-> 0] \in Known
      /\ \A u \in Nat : [state |-> "limited", until |-> u] \in Known
  BY DEF Known, States
<1>7. status' \in [Ctx -> Known] /\ hot' \in [Ctx -> Nat]
  <2>1. status \in [Ctx -> Known] /\ hot \in [Ctx -> Nat]
    BY DEF Inv, Types
  <2>2. \E x \in Known : status' = [status EXCEPT ![c] = x]
    BY <1>4, <1>5, <1>6
  <2>3. \E n \in Nat : hot' = [hot EXCEPT ![c] = n] \/ hot' = hot
    BY <1>4, <1>5
  <2> QED
    BY <2>1, <2>2, <2>3
<1>8. Cooled'
  BY <1>4 DEF Inv, Types, Cooled
<1>9. req' \in [Request -> Doing] /\ Tries' /\ NoContextTwice'
  <2> DEFINE a == IF k = "success" THEN "activate" ELSE "decide"
  <2>1. a \in At /\ req[r].idx \in 1 .. Len(req[r].list) /\ req[r].idx \in Nat /\ req[r].idx <= MaxAttempts
    BY <1>1 DEF At, Over, Inv, Tries, Busy, NoContextTwice, Types, Doing
  <2>2. req' = [req EXCEPT ![r].idx = req[r].idx, ![r].at = a]
    BY <1>1 DEF Go, Inv, Types, Doing
  <2>3. k \notin {"timeout", "unknown"} /\ (a = "decide" => k # "success")
    BY <1>3 DEF Limit, Broken
  <2> HIDE DEF a
  <2> QED
    BY <2>1, <2>2, <2>3, RequestGoes DEF Inv
<1>10. Types' /\ Pressed'
  BY <1>1, <1>7, <1>9 DEF Inv, Types, Pressed, config, counts
<1> QED
  BY <1>8, <1>9, <1>10 DEF Inv

LEMMA ActivateInv ==
  ASSUME Inv, NEW r \in Request, Activate(r)
  PROVE  Inv'
<1>1. /\ active' = Mine(r) /\ End(r, "done")
      /\ UNCHANGED <<config, status, rotation, press, counts, hot>>
  BY DEF Activate
<1>2. Mine(r) \in Ctx
  BY MineIs DEF Activate, Busy
<1>3. req' \in [Request -> Doing] /\ Tries' /\ NoContextTwice'
  BY <1>1, RequestEnds DEF Inv, Over
<1> QED
  BY <1>1, <1>2, <1>3 DEF Inv, Types, Pressed, Cooled, config, counts

LEMMA FailsInv ==
  ASSUME Inv, NEW r \in Request, SpawnFails(r) \/ RecordFails(r)
  PROVE  Inv'
<1>1. End(r, "failed") /\ UNCHANGED <<config, auth, rotation, press, now, limit, hot>>
  BY DEF SpawnFails, RecordFails
<1>2. req' \in [Request -> Doing] /\ Tries' /\ NoContextTwice'
  BY <1>1, RequestEnds DEF Inv, Over
<1> QED
  BY <1>1, <1>2 DEF Inv, Types, Pressed, Cooled, config, auth

\* A rotation that is asked for keeps those asked for before.
LEMMA Asks ==
  ASSUME Types, Pressed, NEW from \in Ctx \cup {NoCtx}, NEW to \in Ctx, NEW card \in BOOLEAN,
         rotation' = Append(rotation, NewRotation(from, to, card)), UNCHANGED press
  PROVE  rotation' \in Seq(Asked) /\ Pressed'
<1>1. NewRotation(from, to, card) \in Asked
  BY DEF NewRotation, Asked
<1> QED
  BY <1>1 DEF Types, Pressed

LEMMA DecideInv ==
  ASSUME Inv, NEW r \in Request, Decide(r)
  PROVE  Inv'
<1>1. req[r].at = "decide" /\ UNCHANGED <<config, auth, press, counts, hot>>
  BY DEF Decide
<1>2. Mine(r) \in Ctx /\ (HasNext(r) => Following(r) \in Ctx)
  BY <1>1, MineIs DEF Busy
<1>3. /\ req' \in [Request -> Doing] /\ Tries' /\ NoContextTwice'
      /\ rotation' \in Seq(Asked) /\ Pressed'
  <2>1. CASE (\E a \in {"done", "failed"} : End(r, a)) /\ UNCHANGED rotation
    BY <1>1, <2>1, RequestEnds DEF Inv, Over, Types, Pressed
  <2>2. CASE HasNext(r) /\ End(r, "asked")
             /\ rotation' = Append(rotation, NewRotation(Mine(r), Following(r), FALSE))
    BY <1>1, <1>2, <2>2, RequestEnds, Asks DEF Inv, Over
  <2>3. CASE /\ ~LastTry(r) /\ HasNext(r) /\ UNCHANGED rotation
             /\ req' = [req EXCEPT ![r].idx = @ + 1, ![r].at = "running"]
    <3>1. req[r].idx \in Nat /\ req[r].list \in Seq(Ctx) /\ "running" \in At
      BY DEF Inv, Types, Doing, At
    <3>2. /\ req[r].idx + 1 \in 1 .. Len(req[r].list) /\ req[r].idx + 1 <= MaxAttempts
          /\ req[r].idx + 1 \in Nat
          /\ "running" \notin {"record", "decide", "activate"}
      BY <2>3, <3>1 DEF LastTry, HasNext
    <3>3. req' = [req EXCEPT ![r].idx = req[r].idx + 1, ![r].at = "running"]
      BY <2>3 DEF Inv, Types
    <3>4. req' \in [Request -> Doing] /\ Tries' /\ NoContextTwice'
      <4> DEFINE n == req[r].idx + 1
      <4> HIDE DEF n
      <4>1. n \in Nat /\ n \in 1 .. Len(req[r].list) /\ n <= MaxAttempts
            /\ req' = [req EXCEPT ![r].idx = n, ![r].at = "running"]
        BY <3>2, <3>3 DEF n
      <4> QED
        BY <3>1, <3>2, <4>1, RequestGoes DEF Inv
    <3> QED
      BY <1>1, <2>3, <3>4 DEF Inv, Types, Pressed
  <2> QED
    BY <2>1, <2>2, <2>3 DEF Decide
<1> QED
  BY <1>1, <1>3 DEF Inv, Types, Cooled, config, auth, counts

-----------------------------------------------------------------------------
(* The owner, the administrator, the daemon's start *)

LEMMA OwnerInv ==
  ASSUME Inv, AuthRotate \/ PressActivates \/ PressFails
              \/ \E i \in DOMAIN rotation : \E v \in {"approved", "denied"} : Press(i, v)
  PROVE  Inv'
<1>1. UNCHANGED <<config, status, req, now, limit, hot>>
  BY DEF AuthRotate, PressActivates, PressFails, Press, auth, counts
<1>2. Tries' /\ NoContextTwice' /\ Cooled'
  BY <1>1 DEF Inv, Tries, NoContextTwice, Cooled
<1>3. active' \in Ctx \cup {NoCtx} /\ rotation' \in Seq(Asked) /\ Pressed'
      /\ press' \in [id : Nat, at : {"none", "activate"}]
  <2>1. ASSUME AuthRotate
        PROVE  active' \in Ctx \cup {NoCtx} /\ rotation' \in Seq(Asked) /\ Pressed' /\ press' = press
    <3>1. cfg.on \in SUBSET Ctx /\ cfg.on # {} /\ active \in Ctx \cup {NoCtx} /\ UNCHANGED press
      BY <2>1 DEF AuthRotate, Inv, Types
    <3>2. After \in Ctx
      BY <3>1, AfterIsOn
    <3>3. CASE After \in Gated
      <4>1. PICK card \in BOOLEAN : rotation' = Append(rotation, NewRotation(active, After, card))
        BY <2>1, <3>3 DEF AuthRotate
      <4>2. active' = active
        BY <2>1, <3>3 DEF AuthRotate
      <4> QED
        BY <3>1, <3>2, <4>1, <4>2, Asks DEF Inv
    <3>4. CASE After \notin Gated
      <4>1. active' = After /\ UNCHANGED rotation
        BY <2>1, <3>4 DEF AuthRotate
      <4> QED
        BY <3>1, <3>2, <4>1 DEF Inv, Types, Pressed
    <3> QED
      BY <3>3, <3>4
  <2>2. ASSUME NEW i \in DOMAIN rotation, NEW v \in {"approved", "denied"}, Press(i, v)
        PROVE  /\ active' \in Ctx \cup {NoCtx} /\ rotation' \in Seq(Asked) /\ Pressed'
               /\ press' \in [id : Nat, at : {"none", "activate"}]
    <3>1. rotation' = [rotation EXCEPT ![i].status = v] /\ UNCHANGED active
      BY <2>2 DEF Press, auth
    <3>2. press' = [id |-> i, at |-> "activate"] \/ press' = press
      BY <2>2 DEF Press
    <3>3. rotation \in Seq(Asked) /\ rotation[i] \in Asked /\ i \in 1 .. Len(rotation)
      BY DEF Inv, Types
    <3>4. [rotation[i] EXCEPT !.status = v] \in Asked
      BY <3>3 DEF Asked
    <3>5. rotation' \in Seq(Asked) /\ DOMAIN rotation' = DOMAIN rotation
      BY <3>1, <3>3, <3>4
    <3> QED
      BY <3>1, <3>2, <3>3, <3>5 DEF Inv, Types, Pressed
  <2>3. ASSUME PressActivates
        PROVE  /\ active' \in Ctx \cup {NoCtx} /\ rotation' \in Seq(Asked) /\ Pressed'
               /\ press' \in [id : Nat, at : {"none", "activate"}]
    <3>1. press.id \in DOMAIN rotation /\ active' = rotation[press.id].to /\ UNCHANGED rotation
          /\ press' = NoPress
      BY <2>3 DEF PressActivates, Inv, Pressed
    <3>2. rotation[press.id] \in Asked
      BY <3>1 DEF Inv, Types
    <3> QED
      BY <3>1, <3>2 DEF Asked, Inv, Types, Pressed, NoPress
  <2>4. ASSUME PressFails
        PROVE  /\ active' \in Ctx \cup {NoCtx} /\ rotation' \in Seq(Asked) /\ Pressed'
               /\ press' \in [id : Nat, at : {"none", "activate"}]
    BY <2>4 DEF PressFails, Inv, Types, Pressed, NoPress, auth
  <2>5. press \in [id : Nat, at : {"none", "activate"}]
    BY DEF Inv, Types
  <2> QED
    BY <2>1, <2>2, <2>3, <2>4, <2>5
<1>4. Types'
  BY <1>1, <1>3 DEF Inv, Types, config
<1> QED
  BY <1>2, <1>3, <1>4 DEF Inv

LEMMA EditInv ==
  ASSUME Inv, EditConf \/ TokenChanges \/ Clock
  PROVE  Inv'
<1>1. UNCHANGED <<cfg, auth, req, rotation, press, limit, hot>>
  BY DEF EditConf, TokenChanges, Clock, config
<1>2. Tries' /\ NoContextTwice' /\ Cooled' /\ Pressed'
  BY <1>1 DEF Inv, Tries, NoContextTwice, Cooled, Pressed, auth
<1>3. conf' \in [on : SUBSET Ctx, active : Ctx \cup {NoCtx}]
  <2>1. conf \in [on : SUBSET Ctx, active : Ctx \cup {NoCtx}]
    BY DEF Inv, Types
  <2> QED
    BY <2>1 DEF EditConf, TokenChanges, Clock, config
<1>4. token' \in [Ctx -> Token] /\ now' \in Nat
  <2>1. token \in [Ctx -> Token] /\ now \in Nat
    BY DEF Inv, Types
  <2>2. CASE EditConf
    BY <2>1, <2>2 DEF EditConf
  <2>3. CASE TokenChanges
    BY <2>1, <2>3 DEF TokenChanges
  <2>4. CASE Clock
    BY <2>1, <2>4 DEF Clock, config
  <2> QED
    BY <2>2, <2>3, <2>4
<1> QED
  BY <1>1, <1>2, <1>3, <1>4 DEF Inv, Types, auth

LEMMA AtStartIs ==
  ASSUME Inv, NEW c \in Ctx
  PROVE  /\ AtStart(c) \in Known
         /\ token[c] = "none" => AtStart(c) = status[c]
         /\ token[c] # "none" => AtStart(c).state # "limited"
<1>1. token[c] \in Token /\ status[c] \in Known
  BY DEF Inv, Types
<1>2. /\ Ok \in Known /\ [state |-> "soon", until |-> 0] \in Known
      /\ [state |-> "broken", until |-> 0] \in Known
  BY DEF Ok, Known, States
<1>3. CASE token[c] = "healthy" \/ (token[c] = "expired" /\ SelfRefresh)
  <2>1. AtStart(c) = Ok
    BY <1>3 DEF AtStart
  <2> QED
    BY <1>2, <1>3, <2>1 DEF Ok
<1>4. CASE token[c] = "soon"
  <2>1. AtStart(c) = [state |-> "soon", until |-> 0]
    BY <1>4 DEF AtStart
  <2> QED
    BY <1>2, <1>4, <2>1
<1>5. CASE token[c] = "expired" /\ ~SelfRefresh
  <2>1. AtStart(c) = [state |-> "broken", until |-> 0]
    BY <1>5 DEF AtStart
  <2> QED
    BY <1>2, <1>5, <2>1
<1>6. CASE token[c] = "none"
  <2>1. AtStart(c) = status[c]
    BY <1>6 DEF AtStart
  <2> QED
    BY <1>1, <1>6, <2>1
<1> QED
  BY <1>1, <1>3, <1>4, <1>5, <1>6 DEF Token

LEMMA RestartInv ==
  ASSUME Inv, Restart
  PROVE  Inv'
<1>1. /\ cfg' = conf
      /\ active' = IF conf.active = NoCtx THEN active ELSE conf.active
      /\ status' = [c \in Ctx |-> AtStart(c)]
      /\ hot' = [c \in Ctx |-> IF token[c] = "none" THEN hot[c] ELSE 0]
      /\ press' = NoPress
      /\ UNCHANGED <<conf, token, rotation, now, limit>>
  BY DEF Restart
<1>2. req' = [r \in Request |-> IF req[r].at \in Over \cup {"new"} THEN req[r]
                                ELSE [Ready EXCEPT !.at = "failed"]]
  BY DEF Restart
<1> DEFINE q == [Ready EXCEPT !.at = "failed"]
<1>3. q \in Doing /\ q.at = "failed" /\ q.idx = 0 /\ q.list = <<>>
  BY ReadyIs DEF At, Over
<1> HIDE DEF q
<1>4. req' = [r \in Request |-> IF req[r].at \in Over \cup {"new"} THEN req[r] ELSE q]
  BY <1>2 DEF q
<1>5. req' \in [Request -> Doing] /\ Tries' /\ NoContextTwice'
  <2>1. req' \in [Request -> Doing] /\ \A r \in Request : req'[r] = req[r] \/ req'[r] = q
    BY <1>3, <1>4 DEF Inv, Types
  <2> QED
    BY <1>3, <2>1 DEF Inv, Tries, NoContextTwice, Busy
<1>6. status' \in [Ctx -> Known] /\ hot' \in [Ctx -> Nat]
  BY <1>1, AtStartIs DEF Inv, Types
<1>7. Cooled'
  BY <1>1, AtStartIs DEF Inv, Cooled, Types
<1>8. Pressed' /\ press' \in [id : Nat, at : {"none", "activate"}]
  BY <1>1 DEF Pressed, NoPress
<1>9. active' \in Ctx \cup {NoCtx}
  BY <1>1 DEF Inv, Types
<1> QED
  BY <1>1, <1>5, <1>6, <1>7, <1>8, <1>9 DEF Inv, Types

LEMMA StepInv == Inv /\ [RunnerNext]_rvars => Inv'
<1> SUFFICES ASSUME Inv, [RunnerNext]_rvars PROVE Inv'
  OBVIOUS
<1>1. CASE UNCHANGED rvars
  BY <1>1 DEF rvars, config, auth, counts, Inv, Types, Tries, NoContextTwice, Pressed, Cooled
<1>2. CASE RunnerNext
  BY <1>2, StartInv, EndsInv, RecordInv, ActivateInv, FailsInv, DecideInv, OwnerInv, EditInv,
     RestartInv DEF RunnerNext, Runs
<1> QED
  BY <1>1, <1>2

-----------------------------------------------------------------------------
(* Theorems *)

RunnerSafety == RunnerInit /\ [][RunnerNext]_rvars

\* The invariant holds of every run of the requests, the buttons and the commands,
\* with or without fairness.
THEOREM Invariance == RunnerSafety => []Inv
  BY InitInv, StepInv, PTL DEF RunnerSafety

\* Every variable keeps its type.
THEOREM TypeCorrect == RunnerSpec => []RunnerTypeOK
<1>1. Inv => RunnerTypeOK
  BY DEF Inv, Types, RunnerTypeOK, Doing
<1> QED
  BY <1>1, Invariance, PTL DEF RunnerSpec, RunnerSafety

\* One message spends at most MaxAttempts attempts, on as many contexts, however
\* requests, rotations, edits and restarts interleave.
THEOREM NoSecondAttempt == RunnerSpec => []NoContextTwice
<1>1. Inv => NoContextTwice
  BY DEF Inv
<1> QED
  BY <1>1, Invariance, PTL DEF RunnerSpec, RunnerSafety

\* The contexts a request starts with have no cooldown that is still running.
LEMMA StartsCool ==
  ASSUME Inv, [RunnerNext]_rvars, NEW r \in Request, req[r].at = "new", req'[r].at = "running",
         NEW i \in DOMAIN req'[r].list
  PROVE  hot[req'[r].list[i]] <= now
<1>1. Start(r)
  <2>1. \A x \in Request : x # r /\ (Runs(x) \/ SpawnFails(x) \/ RecordFails(x)) => req'[r] = req[r]
    BY DEF Runs, Start, Ends, Record, Go, Activate, Decide, SpawnFails, RecordFails, End, Inv, Types
  <2>2. ~(Ends(r) \/ Record(r) \/ Activate(r) \/ Decide(r) \/ SpawnFails(r) \/ RecordFails(r))
    BY DEF Ends, Record, Activate, Decide, SpawnFails, RecordFails
  <2>3. ~UNCHANGED req
    OBVIOUS
  <2>4. ~(AuthRotate \/ PressActivates \/ PressFails \/ EditConf \/ TokenChanges \/ Clock)
        /\ \A j, v : ~Press(j, v)
    BY <2>3 DEF AuthRotate, PressActivates, PressFails, EditConf, TokenChanges, Clock, Press
  <2>5. ~Restart
    <3>1. Restart => req'[r] = req[r]
      BY DEF Restart, Inv, Types
    <3> QED
      BY <3>1
  <2>6. ~UNCHANGED rvars
    BY <2>3 DEF rvars
  <2> QED
    BY <2>1, <2>2, <2>4, <2>5, <2>6 DEF RunnerNext, Runs
<1> DEFINE S == {c \in cfg.on : Usable(c)}
<1>2. S \in SUBSET Ctx /\ req \in [Request -> Doing]
  BY DEF Inv, Types
<1>3. req' = [req EXCEPT ![r] =
        IF Candidates(S) = <<>> THEN [Ready EXCEPT !.at = "failed"]
        ELSE [Ready EXCEPT !.at = "running", !.list = Candidates(S), !.idx = 1]]
  BY <1>1 DEF Start
<1>4. req'[r].list = Candidates(S)
  BY <1>2, <1>3 DEF Ready
<1>5. Candidates(S)[i] \in S
  BY <1>2, <1>4, CandidatesAre
<1>6. \A c \in S : hot[c] <= now
  BY <1>2 DEF Usable, Inv, Cooled, Types, Known
<1> QED
  BY <1>4, <1>5, <1>6

\* No request starts on a context whose last cooldown is not over, whatever the
\* requests that run side by side have recorded since.
THEOREM CooldownIsKept == RunnerSpec => CooldownKept
<1>1. Inv /\ [RunnerNext]_rvars =>
        [\A r \in Request : req[r].at = "new" /\ req'[r].at = "running" =>
           \A i \in DOMAIN req'[r].list : hot[req'[r].list[i]] <= now]_rvars
  BY StartsCool
<1> QED
  BY <1>1, Invariance, PTL DEF RunnerSpec, RunnerSafety, CooldownKept
=============================================================================
