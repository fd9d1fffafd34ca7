----------------------------- MODULE CommandArgs -----------------------------
(***************************************************************************)
(* The vectors of a Command in command.c: its arguments and environment    *)
(* assignments, each with a parallel array of lengths, and the working     *)
(* directory. Every string is a block that is later given back with the    *)
(* length remembered beside it.                                            *)
(*                                                                         *)
(* A string is told apart by its length only; a slot holds the size of the *)
(* block it points to, Null, or Garbage where nothing was stored yet.      *)
(***************************************************************************)
EXTENDS Integers, Sequences, FiniteSets, SequencesExt, FiniteSetsExt

CONSTANTS Grow,      \* slots command_vector_reserve adds: 16 in the source
          MaxLen,    \* longest string
          MaxItems,  \* items of a vector at most
          MaxText    \* longest text that is split

CommandArgsAssumption ==
  /\ Grow \in Nat \ {0} /\ MaxLen \in Nat
  /\ MaxItems \in Nat /\ MaxText \in Nat

VARIABLES
  vec,      \* the two vectors: items, their lengths, how many, capacity
  cwd,      \* block size of the working directory and the length beside it
  strings,  \* string blocks that were allocated and not freed
  wrong,    \* a block was given back with a size that is not its own
  pushed    \* what the callers pushed, per vector

vars == <<vec, cwd, strings, wrong, pushed>>

Vectors == {"argv", "env"}
Null == 0
Garbage == -1

\* The capacity is the length of the arrays that were allocated.
Empty == [items |-> <<>>, lens |-> <<>>, len |-> 0, cap |-> 0]

Init ==
  /\ vec = [v \in Vectors |-> Empty]
  /\ cwd = [block |-> Null, len |-> 0]
  /\ strings = 0
  /\ wrong = FALSE
  /\ pushed = [v \in Vectors |-> <<>>]

Padded(s, n) == [i \in 1..n |-> IF i <= Len(s) THEN s[i] ELSE Garbage]

\* command_vector_reserve: room for the items and the NULL after them. The
\* arrays grow in steps of Grow until the capacity exceeds what is needed.
Reserved(x, extra) ==
  LET needed == x.len + extra + 1
      steps == Min({k \in 0..(needed + 1) : x.cap + k * Grow > needed})
      cap == x.cap + steps * Grow IN
  [x EXCEPT !.cap = cap, !.items = Padded(@, cap), !.lens = Padded(@, cap)]

\* command_push_owned_length: the copy, its length, and a NULL after it.
PushedTo(x, n) ==
  LET y == Reserved(x, 1) IN
  [y EXCEPT !.items = [@ EXCEPT ![y.len + 1] = n + 1, ![y.len + 2] = Null],
            !.lens = [@ EXCEPT ![y.len + 1] = n, ![y.len + 2] = 0],
            !.len = @ + 1]

\* The vector after several pushes.
PushedAll(x, ns) == FoldLeft(PushedTo, x, ns)

\* Pushing strings one by one to either vector; callers meant to push "meant".
PushesOf(v, ns, meant) ==
  /\ vec[v].len + Len(ns) <= MaxItems
  /\ vec' = [vec EXCEPT ![v] = PushedAll(@, ns)]
  /\ strings' = strings + Len(ns)
  /\ pushed' = [pushed EXCEPT ![v] = @ \o meant]
  /\ UNCHANGED <<cwd, wrong>>

\* command_push_length, command_push_array, command_env_push_length, and the
\* formatted ones, which push what they formatted.
Push(v, ns) == PushesOf(v, ns, ns)

\* Mutant: the piece after the last delimiter is left out.
Pieces_Last(text) ==
  FoldLeft(LAMBDA a, c :
             IF c # "d" THEN [a EXCEPT !.run = @ + 1]
             ELSE IF a.run = 0 THEN a
             ELSE [done |-> Append(a.done, a.run), run |-> 0],
           [done |-> <<>>, run |-> 0], text).done

\* command_push_split: the lengths of the runs between delimiters ("d").
Pieces(text) ==
  LET end == FoldLeft(LAMBDA a, c :
                        IF c # "d" THEN [a EXCEPT !.run = @ + 1]
                        ELSE IF a.run = 0 THEN a
                        ELSE [done |-> Append(a.done, a.run), run |-> 0],
                      [done |-> <<>>, run |-> 0], text) IN
  IF end.run = 0 THEN end.done ELSE Append(end.done, end.run)

Texts == UNION {[1..n -> {"x", "d"}] : n \in 0..MaxText}

\* What a caller expects of it: the lengths of the maximal runs, in order.
Starts(text) ==
  {i \in DOMAIN text : text[i] = "x" /\ (i = 1 \/ text[i - 1] = "d")}
End(text, i) ==
  Min({j \in i..(Len(text) + 1) : j > Len(text) \/ text[j] = "d"})
Words(text) ==
  [k \in 1..Cardinality(Starts(text)) |->
     LET s == CHOOSE i \in Starts(text) :
                Cardinality({j \in Starts(text) : j <= i}) = k
     IN End(text, s) - s]

PushSplit(text) == PushesOf("argv", Pieces(text), Words(text))

\* command_argv0_set: the first argument is replaced.
Argv0Set(n) ==
  /\ vec["argv"].len > 0
  /\ wrong' = (wrong \/ vec["argv"].items[1] # vec["argv"].lens[1] + 1)
  /\ vec' = [vec EXCEPT !["argv"].items[1] = n + 1, !["argv"].lens[1] = n]
  /\ pushed' = [pushed EXCEPT !["argv"][1] = n]
  /\ UNCHANGED <<cwd, strings>>

\* What freeing the working directory does to the blocks.
CwdIsWrong == cwd.block # Null /\ cwd.block # cwd.len + 1
CwdBlocks == IF cwd.block = Null THEN 0 ELSE 1

\* command_cwd_set with a string; command_cwd_set(NULL) and command_cwd_clear.
CwdSet(n) ==
  /\ cwd' = [block |-> n + 1, len |-> n]
  /\ wrong' = (wrong \/ CwdIsWrong)
  /\ strings' = strings - CwdBlocks + 1
  /\ UNCHANGED <<vec, pushed>>

CwdClear ==
  /\ cwd' = [block |-> Null, len |-> 0]
  /\ wrong' = (wrong \/ CwdIsWrong)
  /\ strings' = strings - CwdBlocks
  /\ UNCHANGED <<vec, pushed>>

\* The loop of command_reset and command_env_clear: every string is freed,
\* and the arrays stay for the next use.
Cleared(x) ==
  [x EXCEPT !.items = [i \in 1..x.cap |-> IF i \in 1..Max({1, x.len}) THEN Null ELSE @[i]],
            !.lens = [i \in 1..x.cap |-> IF i \in 1..Max({1, x.len}) THEN 0 ELSE @[i]],
            !.len = 0]

\* Some string of the vector would be freed with the wrong size.
WrongIn(x) == \E i \in 1..x.len : x.items[i] # x.lens[i] + 1

\* command_reset, command_env_clear
Clear(v) ==
  /\ wrong' = (wrong \/ WrongIn(vec[v]))
  /\ strings' = strings - vec[v].len
  /\ vec' = [vec EXCEPT ![v] = Cleared(@)]
  /\ pushed' = [pushed EXCEPT ![v] = <<>>]
  /\ UNCHANGED cwd

\* command_free: all of them, and the arrays with their capacities.
Free ==
  /\ wrong' = (wrong \/ CwdIsWrong \/ \E v \in Vectors :
                 WrongIn(vec[v]) \/ Len(vec[v].items) # vec[v].cap)
  /\ strings' = strings - CwdBlocks - vec["argv"].len - vec["env"].len
  /\ vec' = [v \in Vectors |-> Empty]
  /\ cwd' = [block |-> Null, len |-> 0]
  /\ pushed' = [v \in Vectors |-> <<>>]

Next ==
  \/ \E v \in Vectors, n \in 0..MaxLen : Push(v, <<n>>) \/ Push(v, <<n, 1>>)
  \/ \E text \in Texts : PushSplit(text)
  \/ \E n \in 0..MaxLen : Argv0Set(n) \/ CwdSet(n)
  \/ CwdClear \/ \E v \in Vectors : Clear(v)
  \/ Free

Spec == Init /\ [][Next]_vars

-----------------------------------------------------------------------------
(* Properties *)

\* The arrays are as long as the capacity says, and hold every item and the
\* NULL after the last: no push writes outside of them.
TypeOK ==
  /\ \A v \in Vectors :
       /\ vec[v].len \in 0..MaxItems
       /\ Len(vec[v].items) = vec[v].cap /\ Len(vec[v].lens) = vec[v].cap
       /\ vec[v].cap = 0 \/ vec[v].cap > vec[v].len
  /\ wrong \in BOOLEAN

\* Whatever was pushed, split, replaced, cleared and pushed again: execvp and
\* putenv find exactly the strings that are in force, and argv ends with NULL.
ExecSeesArguments ==
  \A v \in Vectors :
    /\ vec[v].len = Len(pushed[v])
    /\ \A i \in 1..vec[v].len : vec[v].items[i] = pushed[v][i] + 1
    /\ vec[v].cap > 0 => vec[v].items[vec[v].len + 1] = Null

\* Every block is given back with the size it was allocated with: the length
\* kept beside a string is that of the string, after any calls.
SizesMatch == ~wrong

\* No string is lost: the live blocks are those the command can reach, so
\* nothing remains after command_free.
NoStringIsLost == strings = vec["argv"].len + vec["env"].len + CwdBlocks

=============================================================================
