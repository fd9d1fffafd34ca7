----------------------------- MODULE StringVars -----------------------------
(***************************************************************************)
(* What string.c promises of its builders: each is a variable that holds a *)
(* string. They can be extended by a string or by a part of any variable,  *)
(* assigned, moved, cut, cleared, and their string can be taken away.      *)
(***************************************************************************)
EXTENDS Integers, Sequences

CONSTANTS Builders, Literals

VARIABLES text,   \* the string of each builder
          taken   \* the string a caller took away last

\* The parts of string t.
Parts(t) == {SubSeq(t, i, j) : i \in 1..Len(t), j \in 0..Len(t)}

\* What can be written to a builder.
Sources == Literals \cup UNION {Parts(text[b]) : b \in Builders}

Init == text = [b \in Builders |-> <<>>] /\ taken = <<>>

Extend(b) == \E t \in Sources : text' = [text EXCEPT ![b] = @ \o t]
Assign(b) == \E t \in Sources \cup {<<>>} : text' = [text EXCEPT ![b] = t]
Move(b, c) == text' = [text EXCEPT ![b] = text[c], ![c] = <<>>]
Take(b) == taken' = text[b] /\ text' = [text EXCEPT ![b] = <<>>]

Next ==
  \/ \E b, c \in Builders : (Extend(b) \/ Assign(b) \/ Move(b, c)) /\ UNCHANGED taken
  \/ \E b \in Builders : Take(b)
  \/ UNCHANGED text /\ taken' = <<>>

Spec == Init /\ [][Next]_<<text, taken>>

=============================================================================
