----------------------------- MODULE ResultStream -----------------------------
(***************************************************************************)
(* What MongoDB\Driver\Cursor objects promise their callers, with no       *)
(* batches, getMores, sessions or type maps: the results of an operation   *)
(* are taken in order, none twice and none skipped, and the result on show *)
(* is the last one taken.  Only the first result can come back into view.  *)
(***************************************************************************)
EXTENDS Naturals

CONSTANT Cursor

VARIABLES open,   \* [Cursor -> BOOLEAN]: the object exists
          taken,  \* [Cursor -> Nat]: results taken from its stream
          shown   \* [Cursor -> Nat]: the result current() returns, 0 for none

vars == <<open, taken, shown>>

Init == /\ open = [c \in Cursor |-> FALSE]
        /\ taken = [c \in Cursor |-> 0]
        /\ shown = [c \in Cursor |-> 0]

\* Only the stream of c changes: it becomes open or not, n results have been
\* taken from it and result d is shown.
Becomes(c, isOpen, n, d) == /\ open' = [open EXCEPT ![c] = isOpen]
                            /\ taken' = [taken EXCEPT ![c] = n]
                            /\ shown' = [shown EXCEPT ![c] = d]

\* An operation returns a Cursor; a query's first result is already taken,
\* but nothing is shown before rewind() or next().
Open(c) == ~open[c] /\ \E n \in {0, 1} : Becomes(c, TRUE, n, 0)

\* The next result is taken; it is shown unless it cannot be decoded.
Deliver(c) == /\ open[c]
              /\ \E d \in {0, taken[c] + 1} : Becomes(c, TRUE, taken[c] + 1, d)

\* Nothing is shown: the end, an error, a result that cannot be decoded.
Conceal(c) == open[c] /\ Becomes(c, TRUE, taken[c], 0)

\* rewind() brings the first result back as long as no other was taken.
Restore(c) == open[c] /\ taken[c] = 1 /\ Becomes(c, TRUE, 1, 1)

Close(c) == open[c] /\ Becomes(c, FALSE, 0, 0)

Next == \E c \in Cursor :
           Open(c) \/ Deliver(c) \/ Conceal(c) \/ Restore(c) \/ Close(c)

Spec == Init /\ [][Next]_vars
================================================================================
