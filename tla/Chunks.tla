-------------------------------- MODULE Chunks -------------------------------
(***************************************************************************)
(* How a reply is cut into messages that are short enough for Telegram     *)
(* (chunk_for_telegram).  A text is a sequence of bytes, as a String is:   *)
(* characters may have several, of which all but the first are marked, and *)
(* its length is that in bytes.  One step is one turn of a loop.           *)
(***************************************************************************)
EXTENDS Integers, Sequences, FiniteSets

CONSTANTS
  Byte, EOL,
  Cont,        \* the bytes that go on with a character
  Replies      \* the texts, each with the most bytes a message may have

ASSUME ChunkAssumption ==
  /\ EOL \in Byte \ Cont
  /\ \A r \in Replies :
       /\ r.text \in Seq(Byte) /\ r.max \in Nat \ {0}
       /\ \A i \in DOMAIN r.text : r.text[i] \in Cont => i > 1 /\ r.text[i - 1] # EOL

VARIABLES
  text, max,
  out,         \* the messages
  current,     \* the message that is filled
  line,        \* what is left of the line that is put into messages
  rest,        \* the lines after it
  cutting      \* "idle", "lines" or "done"

chunkVars == <<text, max, out, current, line, rest, cutting>>

ChunksInit ==
  /\ text = <<>> /\ max = 0 /\ out = <<>> /\ current = <<>> /\ line = <<>> /\ rest = <<>>
  /\ cutting = "idle"

\* Where lines and characters end, each line with its newline.
LineEnds(s) == {i \in DOMAIN s : i = Len(s) \/ s[i] = EOL}
CharEnds(s) == {i \in DOMAIN s : i = Len(s) \/ s[i + 1] \notin Cont}
NextIn(T, p) == CHOOSE i \in T : i > p /\ \A j \in T : j > p => i <= j

Taken(s, n)  == SubSeq(s, 1, n)
Left(s, n)  == SubSeq(s, n + 1, Len(s))

\* A text that is no longer than a message is one.
Begins ==
  /\ cutting = "idle"
  /\ \E r \in Replies :
       /\ text' = r.text /\ max' = r.max
       /\ IF Len(r.text) <= r.max
          THEN cutting' = "done" /\ out' = <<r.text>> /\ UNCHANGED rest
          ELSE cutting' = "lines" /\ rest' = r.text /\ UNCHANGED out
  /\ UNCHANGED <<current, line>>

\* Mutant: the message is closed even if nothing is in it.
TakesLineAnyway ==
  LET n == NextIn(LineEnds(rest), 0) IN
  /\ cutting = "lines" /\ line = <<>> /\ rest # <<>>
  /\ line' = Taken(rest, n) /\ rest' = Left(rest, n)
  /\ IF Len(current) + n > max
     THEN out' = Append(out, current) /\ current' = <<>> ELSE UNCHANGED <<out, current>>
  /\ UNCHANGED <<text, max, cutting>>

\* A line that does not go into the message closes it.
TakesLine ==
  LET n == NextIn(LineEnds(rest), 0) IN
  /\ cutting = "lines" /\ line = <<>> /\ rest # <<>>
  /\ line' = Taken(rest, n) /\ rest' = Left(rest, n)
  /\ IF current # <<>> /\ Len(current) + n > max
     THEN out' = Append(out, current) /\ current' = <<>> ELSE UNCHANGED <<out, current>>
  /\ UNCHANGED <<text, max, cutting>>

\* As many characters as go into a message.
Fitting == {n \in CharEnds(line) : n <= max}

\* A line longer than a message is cut between characters.
CutsLine ==
  /\ Len(line) > max /\ Fitting # {}
  /\ \E n \in Fitting : /\ \A m \in Fitting : m <= n
                        /\ out' = Append(out, Taken(line, n)) /\ line' = Left(line, n)
  /\ UNCHANGED <<text, max, current, rest, cutting>>

\* What is left of it, or all of a line, goes into the message; also if its first
\* character alone is too long.
PutsLine ==
  /\ line # <<>> /\ (Len(line) <= max \/ Fitting = {})
  /\ current' = current \o line /\ line' = <<>>
  /\ UNCHANGED <<text, max, out, rest, cutting>>

Ends ==
  /\ cutting = "lines" /\ line = <<>> /\ rest = <<>> /\ cutting' = "done"
  /\ out' = (IF current = <<>> THEN out ELSE Append(out, current)) /\ current' = <<>>
  /\ UNCHANGED <<text, max, line, rest>>

ChunksNext == Begins \/ TakesLine \/ CutsLine \/ PutsLine \/ Ends

ChunksSafety == ChunksInit /\ [][ChunksNext]_chunkVars
ChunksSpec   == ChunksSafety /\ WF_chunkVars(ChunksNext)

-----------------------------------------------------------------------------
(* Properties *)

\* Where in the text the i-th message ends.
EndOf(i) == Cardinality(UNION {{k} \X DOMAIN out[k] : k \in 1 .. i})

\* No character is longer than a message.
EachFits == \A p \in {0} \cup CharEnds(text) : p < Len(text) => NextIn(CharEnds(text), p) - p <= max

\* The messages, one after the other, are the text; none is empty, which Telegram
\* refuses, and none too long.
MakeUpTheText ==
  /\ EndOf(Len(out)) = Len(text)
  /\ \A i \in DOMAIN out :
       /\ out[i] = SubSeq(text, EndOf(i - 1) + 1, EndOf(i))
       /\ out[i] # <<>> /\ (EachFits => Len(out[i]) <= max)

\* The line with the byte p is longer than a message.
InLongLine(p) ==
  \E a \in {0} \cup LineEnds(text) : a < p /\ NextIn(LineEnds(text), a) > p
                                     /\ NextIn(LineEnds(text), a) - a > max

\* A message that begins after the byte q and ends with p is closed between characters,
\* after a line if the next one did not go into it, and within a line only if that is
\* longer than a message and the next character did not go into it.
FullAt(q, p) ==
  /\ p \in CharEnds(text)
  /\ p \in LineEnds(text) => NextIn(LineEnds(text), p) - q > max
  /\ p \notin LineEnds(text) => InLongLine(p) /\ NextIn(CharEnds(text), p) - q > max

ClosedOnlyWhenFull == \A i \in 1 .. Len(out) - 1 : FullAt(EndOf(i - 1), EndOf(i))

\* A long reply is cut as it should be (chunk_for_telegram).
CutWell ==
  cutting = "done" /\ Len(text) > max => MakeUpTheText /\ ClosedOnlyWhenFull

\* No text keeps the loops going for ever.
EveryReplyIsCut == cutting = "lines" ~> cutting = "done"
=============================================================================
