---------------------------- MODULE SolveInOrder ----------------------------
(***************************************************************************)
(* What a user of Lab1's solver is promised: file names are typed until    *)
(* the end of input; the answers come out in the order of the puzzles,     *)
(* a batch at a time, and what is left when there is no more input.        *)
(***************************************************************************)
EXTENDS Naturals, Sequences, SequencesExt

CONSTANTS Files, \* a file: its puzzles (lines) and whether the last line ends in a newline
          Batch

VARIABLES typed, \* the files named so far
          closed, \* the end of input
          out     \* the answers printed

sVars == <<typed, closed, out>>

Answer(p) == [answer |-> p]

LinesOf(fs) == FlattenSeq([k \in DOMAIN fs |-> fs[k].lines])
Answers(fs) == LET ps == LinesOf(fs) IN [k \in DOMAIN ps |-> Answer(ps[k])]

SeqInit == typed = <<>> /\ closed = FALSE /\ out = <<>>

Type(f) == ~closed /\ typed' = Append(typed, f) /\ UNCHANGED <<closed, out>>

Close == ~closed /\ closed' = TRUE /\ UNCHANGED <<typed, out>>

PrintBatch ==
  LET left == Len(Answers(typed)) - Len(out)
  IN  /\ left > 0 /\ (left >= Batch \/ closed)
      /\ out' = SubSeq(Answers(typed), 1,
                       Len(out) + (IF left >= Batch THEN Batch ELSE left))
      /\ UNCHANGED <<typed, closed>>

SeqNext == Close \/ PrintBatch \/ \E f \in Files : Type(f)

SeqSafety == SeqInit /\ [][SeqNext]_sVars

SeqSpec == SeqSafety /\ WF_sVars(PrintBatch)
=============================================================================
