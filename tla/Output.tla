------------------------------- MODULE Output --------------------------------
(***************************************************************************)
(* What a program prints and what becomes of it: the two capped buffers    *)
(* sandbox.Run fills (internal/sandbox) and the comparison of the captured *)
(* stdout with the expected output (compareOutput in internal/executor).   *)
(*                                                                         *)
(* A text is a sequence of characters of four classes; a tab stands with   *)
(* the space.  Each stream is copied to its buffer in pieces whose sizes   *)
(* are the scheduler's choice, and the two streams interleave.             *)
(***************************************************************************)
EXTENDS Integers, Sequences, FiniteSets, FiniteSetsExt

CONSTANTS
  Limits,        \* what Cfg.MaxOutputBytes may be; zero or less is no limit
  MaxWritten,    \* bound on what a program prints, both streams together
  Pieces,        \* what one Write call may be given
  Expectations   \* expected outputs of test cases

Space == " "
LF == "LF"
CR == "CR"
Letter == "a"
Char == {Letter, Space, LF, CR}
Streams == {"stdout", "stderr"}

ASSUME OutputAssumption ==
  /\ Limits \subseteq Int
  /\ MaxWritten \in Nat
  /\ Pieces \subseteq Seq(Char) \ {<< >>}    \* io.Copy writes nothing when it has read nothing
  /\ Expectations \subseteq Seq(Char)

VARIABLES
  expected,   \* tc.ExpectedOutput
  printed,    \* printed[s]: all that was written to stream s (history)
  buffer,     \* buffer[s]: the cappedBuffer of s
  verdict     \* what compareOutput says of a clean run, "none" before it ends

vars == <<expected, printed, buffer, verdict>>

Init ==
  /\ expected \in Expectations
  /\ printed = [s \in Streams |-> << >>]
  /\ \E max \in Limits :
       buffer = [s \in Streams |-> [max |-> max, buf |-> << >>, capped |-> FALSE]]
  /\ verdict = "none"

----------------------------------------------------------------------------
(* cappedBuffer                                                            *)

Write_PerPiece(b, p) ==        \* mutant: the limit applies to a piece, not to the buffer
  IF b.max <= 0 \/ Len(p) <= b.max THEN [b EXCEPT !.buf = @ \o p]
  ELSE [b EXCEPT !.buf = @ \o SubSeq(p, 1, b.max), !.capped = TRUE]

Write_FullIsCapped(b, p) ==    \* mutant: len(p) >= remaining
  LET remaining == b.max - Len(b.buf)
  IN  IF b.max <= 0 \/ Len(p) < remaining THEN [b EXCEPT !.buf = @ \o p]
      ELSE [b EXCEPT !.buf = @ \o SubSeq(p, 1, remaining), !.capped = TRUE]

\* Write always reports the whole piece as written: the copying goes on and the
\* program is not stopped by a full buffer.
Write(b, p) ==
  LET remaining == b.max - Len(b.buf)
  IN  IF b.max <= 0 THEN [b EXCEPT !.buf = @ \o p]
      ELSE IF remaining <= 0 THEN [b EXCEPT !.capped = TRUE]
      ELSE IF Len(p) > remaining
           THEN [b EXCEPT !.buf = @ \o SubSeq(p, 1, remaining), !.capped = TRUE]
      ELSE [b EXCEPT !.buf = @ \o p]

Put(s) ==
  /\ verdict = "none"
  /\ \E p \in Pieces :
       /\ Len(printed["stdout"]) + Len(printed["stderr"]) + Len(p) <= MaxWritten
       /\ printed' = [printed EXCEPT ![s] = @ \o p]
       /\ buffer' = [buffer EXCEPT ![s] = Write(@, p)]
  /\ UNCHANGED <<expected, verdict>>

----------------------------------------------------------------------------
(* compareOutput                                                           *)

\* The elements of a set of numbers, in ascending order.
InOrder(K) ==
  CHOOSE o \in [1..Cardinality(K) -> K] : \A a, b \in DOMAIN o : a < b => o[a] < o[b]

\* What is left of s when only the places in K are kept.
Keep(s, K) ==
  LET o == InOrder(K)
  IN  [k \in DOMAIN o |-> s[o[k]]]

\* strings.ReplaceAll(s, "\r\n", "\n"): every CR right before a LF is gone.
ToLF(s) == Keep(s, {i \in DOMAIN s : ~(s[i] = CR /\ i < Len(s) /\ s[i + 1] = LF)})

\* strings.TrimRight(s, cut)
TrimRight(s, cut) ==
  LET kept == {i \in DOMAIN s : s[i] \notin cut}
  IN  IF kept = {} THEN << >> ELSE SubSeq(s, 1, Max(kept))

Trimmed == {Space, LF}

NormalizeStrict_NoCRLF(s) ==   \* mutant: line ends are not converted
  TrimRight(s, Trimmed)

NormalizeStrict(s) == TrimRight(ToLF(s), Trimmed)

White == {Space, LF, CR}

\* strings.Fields and strings.Join: one space for each run of white space between
\* two words, none before the first and after the last.
Joined(t) ==
  LET words == Keep(t, {i \in DOMAIN t : t[i] \in White => i > 1 /\ t[i - 1] \notin White})
  IN  [k \in DOMAIN words |-> IF words[k] \in White THEN Space ELSE words[k]]

NormalizeLoose(s) == TrimRight(Joined(ToLF(s)), {Space})

CompareOutput(actual, wanted) ==
  IF NormalizeStrict(actual) = NormalizeStrict(wanted) THEN "accepted"
  ELSE IF NormalizeLoose(actual) = NormalizeLoose(wanted) THEN "output_whitespace_mismatch"
  ELSE "wrong_output"

\* The program ends with code 0.  res.OutputCapped is set from both buffers and
\* read by nobody.
Judge ==
  /\ verdict = "none"
  /\ verdict' = CompareOutput(buffer["stdout"].buf, expected)
  /\ UNCHANGED <<expected, printed, buffer>>

----------------------------------------------------------------------------
Next == Judge \/ \E s \in Streams : Put(s)

SafeSpec == Init /\ [][Next]_vars

----------------------------------------------------------------------------
(* Properties                                                              *)

\* Every variable has its type, and no buffer outgrows its limit.
TypeOK ==
  /\ expected \in Expectations
  /\ printed \in [Streams -> Seq(Char)]
  /\ buffer \in [Streams -> [max : Limits, buf : Seq(Char), capped : BOOLEAN]]
  /\ \A s \in Streams : buffer[s].max > 0 => Len(buffer[s].buf) <= buffer[s].max
  /\ verdict \in {"none", "accepted", "output_whitespace_mismatch", "wrong_output"}

\* The part of a text that fits.
Fitting(t, max) == IF max <= 0 \/ Len(t) <= max THEN t ELSE SubSeq(t, 1, max)

\* However the output is cut into pieces and the streams interleave, a buffer holds
\* the first max characters of its stream, and is marked as capped exactly
\* when something is missing: not at the limit, but one character past it.
CaptureExact ==
  \A s \in Streams : /\ buffer[s].buf = Fitting(printed[s], buffer[s].max)
                     /\ buffer[s].capped <=> buffer[s].buf # printed[s]

\* Two texts are the same up to the blanks and line feeds at their ends.
Agree(a, b) ==
  \E n \in 0..Len(a) :
    /\ n <= Len(b) /\ SubSeq(a, 1, n) = SubSeq(b, 1, n)
    /\ \A i \in (n + 1)..Len(a) : a[i] \in Trimmed
    /\ \A i \in (n + 1)..Len(b) : b[i] \in Trimmed

\* The letters of a text, each with the question whether its word goes on.
Letters(t) == {i \in DOMAIN t : t[i] \notin White}

Spelling(t) ==
  LET o == InOrder(Letters(t))
  IN  [k \in DOMAIN o |-> <<t[o[k]], o[k] + 1 \in Letters(t)>>]

\* The verdict is about the stdout of the program and nothing else, neither the
\* pieces nor stderr nor the style of line ends: accepted means the same text up to
\* blanks at the end, wrong means other words.  The text is what fits the buffer.
VerdictMeans ==
  LET text == Fitting(printed["stdout"], buffer["stdout"].max)
      same == Agree(ToLF(text), ToLF(expected))
  IN  verdict # "none" =>
        /\ (verdict = "accepted") <=> same
        /\ (verdict = "wrong_output") <=> Spelling(text) # Spelling(expected)
==============================================================================
