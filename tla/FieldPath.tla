------------------------------- MODULE FieldPath -------------------------------
(***************************************************************************)
(* The path builder of bson.c: php_phongo_field_path, which the encoder and *)
(* the decoder keep up to date to name a field in messages and to find the *)
(* entries of a type map.  Level i of the C array is elements[i + 1] here.  *)
(* The key of a scalar is written at level size without raising size: that *)
(* level names the field visited last.  The type kept beside each key is   *)
(* never read, and is left out.                                            *)
(***************************************************************************)
EXTENDS Naturals, Sequences, SequencesExt

CONSTANTS
    Expansion,  \* PHONGO_FIELD_PATH_EXPANSION, 8 in bson.c
    Key,        \* names of fields
    NULL

ASSUME ExpansionAssumption == Expansion \in Nat \ {0}

\* The paths that the builder makes.
Path == [elements: Seq(Key \cup {NULL}), size: Nat]

ASSUME KeyAssumption == NULL \notin Key \cup Path

\* What a read outside of the allocated elements may return.
Garbage == "?"

Alloc == [elements |-> <<>>, size |-> 0]

\* erealloc keeps the elements; those from the level on are cleared.
EnsureAllocation(path, level) ==
    IF level < Len(path.elements)
      THEN path
      ELSE [path EXCEPT !.elements =
              [i \in 1..(path.size + Expansion) |->
                 IF i <= level THEN path.elements[i] ELSE NULL]]

WriteItem(path, key) ==
    [EnsureAllocation(path, path.size) EXCEPT !.elements[path.size + 1] = key]

Push(path, key) ==
    [WriteItem(path, key) EXCEPT !.size = path.size + 1]

\* A pop that only lowers the size.
PopKeepsKeys(path) == [path EXCEPT !.size = path.size - 1]

Pop(path) ==
    [EnsureAllocation(path, path.size) EXCEPT
       !.elements[path.size + 1] = NULL,
       !.elements[path.size] = NULL,
       !.size = path.size - 1]

\* What is read at level i - 1, whether it is allocated or not.
Read(path, i) == IF i <= Len(path.elements) THEN path.elements[i] ELSE Garbage

\* The keys a message names: those of the levels up to and including size
\* that are set.
AsString(path) ==
    LET keys[i \in 0..(path.size + 1)] ==
          IF i = 0 THEN <<>> ELSE
          IF Read(path, i) = NULL THEN keys[i - 1] ELSE Append(keys[i - 1], Read(path, i))
    IN IF path.elements = <<>> THEN <<>> ELSE keys[path.size + 1]

\* The levels that lead to the document being visited.
Parents(path) == SubSeq(path.elements, 1, path.size)

================================================================================
