----------------------------- MODULE LineScanner -----------------------------
(***************************************************************************)
(* The loop that both parsers of this program are: a bufio.Scanner hands   *)
(* over line after line, and each changes what has been parsed so far.     *)
(***************************************************************************)
EXTENDS Integers, Sequences

\* A fold: what has been parsed after the last line.  (Bound to p, what was parsed
\* before a line is evaluated once.)
Scanned(ParseLine(_, _), start, lines) ==
    LET after[i \in 0 .. Len(lines)] ==
            IF i = 0 THEN start
            ELSE CHOOSE q \in {ParseLine(p, lines[i]) : p \in {after[i - 1]}} : TRUE
    IN  after[Len(lines)]

\* The sequences of seqs at the numbers in at, one after the other.
Joined(seqs, at) ==
    LET upto[n \in 0 .. Len(seqs)] ==
            IF n = 0 THEN <<>>
            ELSE IF n \in at THEN upto[n - 1] \o seqs[n] ELSE upto[n - 1]
    IN  upto[Len(seqs)]
=============================================================================
