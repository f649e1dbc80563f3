------------------------------ MODULE BytePipe ------------------------------
(***************************************************************************)
(* What a StreamHub stream promises to the two nodes that share it: bytes  *)
(* come out in the order they went in, none twice and none skipped; the    *)
(* pipe is closed once, and what its reader is told at the end is the      *)
(* error the pipe was closed with, or that its own context ended.  It does *)
(* not promise that the reader is given the bytes still in the pipe when   *)
(* it is closed.                                                           *)
(***************************************************************************)
EXTENDS Integers, Sequences

VARIABLES sent, got, closed, result

vars == <<sent, got, closed, result>>

\* How a pipe can be closed: without an error, with the error of its writer, by
\* an end that gave up, or with the error of the run's context.
Closings == {"nil", "err", "pipe", "ctx"}

\* What a reader is told of a closing.
Told(e) == IF e = "nil" THEN "EOF" ELSE e

Init == sent = <<>> /\ got = <<>> /\ closed = "open" /\ result = "none"

\* The pipe accepts bytes, even while it is being closed.
Accept ==
  /\ sent' \in Seq(Nat)
  /\ Len(sent') > Len(sent)
  /\ SubSeq(sent', 1, Len(sent)) = sent
  /\ UNCHANGED <<got, closed, result>>

\* The reader takes the next bytes, until it has been told of the end.
Take ==
  /\ result = "none"
  /\ Len(got') > Len(got)
  /\ Len(got') =< Len(sent)
  /\ got' = SubSeq(sent, 1, Len(got'))
  /\ UNCHANGED <<sent, closed, result>>

\* Only the first closing counts.
Shut ==
  /\ closed = "open"
  /\ closed' \in Closings
  /\ UNCHANGED <<sent, got, result>>

\* The reader is told of the end, once.
Tell ==
  /\ result = "none"
  /\ \/ result' = "ctx"
     \/ closed # "open" /\ result' = Told(closed)
  /\ UNCHANGED <<sent, got, closed>>

Next == Accept \/ Take \/ Shut \/ Tell

Spec == Init /\ [][Next]_vars
=============================================================================
