------------------------------ MODULE PathNames ------------------------------
(***************************************************************************)
(* normalize, basename2, dirname2 and path_basename of fs.c. They work in  *)
(* the caller's buffer, so the model keeps the buffer: the path, the NUL   *)
(* after it and what earlier moves left behind. Offsets count from 0, as   *)
(* in the code. A path grows character by character; each one is examined. *)
(***************************************************************************)
EXTENDS Integers, Sequences, SequencesExt, FiniteSetsExt

CONSTANTS Names,    \* characters of names
          MaxLen    \* longest path

PathAssumption ==
  MaxLen \in Nat /\ {"/", ".", "NUL"} \cap Names = {}

Chars == Names \cup {"/", "."}

VARIABLES path

-----------------------------------------------------------------------------
(* Memory *)

\* The buffer of a path, and its length.
BufferOf(p) == [buf |-> p \o <<"NUL">>, len |-> Len(p), off |-> 0]

PathOf(b) == SubSeq(b.buf, 1, b.len)

\* memmove64(&buf[dst], &buf[src], n)
Moved(buf, dst, src, n) ==
  [i \in 1..Len(buf) |->
     IF i - 1 \in dst..dst + n - 1 THEN buf[src + (i - dst)] ELSE buf[i]]

\* memmem64 from the offset of b: where it finds pattern, or -1.
Find(b, pattern) ==
  LET at == {i \in b.off..b.len - Len(pattern) :
               SubSeq(b.buf, i + 1, i + Len(pattern)) = pattern}
  IN IF at = {} THEN -1 ELSE Min(at)

-----------------------------------------------------------------------------
(* normalize *)

\* "//" becomes "/".
WithoutDoubled(b) ==
  LET p == Find(b, <<"/", "/">>)
  IN IF p < 0 THEN b
     ELSE [buf |-> Moved(b.buf, p, p + 1, b.len - p), len |-> b.len - 1, off |-> p]

\* "./" goes from the front of what is longer.
WithoutFront(b) ==
  IF b.len > 2 /\ SubSeq(b.buf, 1, 2) = <<".", "/">>
  THEN [b EXCEPT !.buf = Moved(@, 0, 2, b.len - 1), !.len = @ - 2]
  ELSE b

\* "/." at the end becomes "/".
WithoutBack(b) ==
  IF b.len >= 2 /\ SubSeq(b.buf, b.len - 1, b.len) = <<"/", ".">>
  THEN [b EXCEPT !.buf[b.len] = "NUL", !.len = @ - 1]
  ELSE b

\* Mutant: the NUL is not moved along.
WithoutMiddle_MovesTooFew(b) ==
  LET p == Find(b, <<"/", ".", "/">>)
  IN IF p < 0 THEN b
     ELSE [buf |-> Moved(b.buf, p + 1, p + 3, b.len - p - 3),
           len |-> b.len - 2, off |-> p]

\* "/./" becomes "/".
WithoutMiddle(b) ==
  LET p == Find(b, <<"/", ".", "/">>)
  IN IF p < 0 THEN b
     ELSE [buf |-> Moved(b.buf, p + 1, p + 3, b.len - p - 2),
           len |-> b.len - 2, off |-> p]

Normalize(b) ==
  LET While(Turn(_), x) ==   \* at most as many turns as there are characters
        FoldLeft(LAMBDA y, i : Turn(y), x, [i \in 1..x.len |-> i])
      single == While(WithoutDoubled, b)
      front  == While(WithoutFront, single)
      back   == While(WithoutBack, front)
  IN While(WithoutMiddle, [back EXCEPT !.off = 0])

Normal(p) == PathOf(Normalize(BufferOf(p)))

-----------------------------------------------------------------------------
(* Parts of a path *)

\* basename2 of a path that is not empty: where the last component begins. A
\* slash at the end belongs to it. (On Windows '\' separates as well.)
BasenameStart(b) ==
  LET slashes == {i \in 0..b.len - 2 : b.buf[i + 1] = "/"}
  IN IF b.len = 1 \/ slashes = {} THEN 0 ELSE Max(slashes) + 1

Basename(p) ==
  LET b == Normalize(BufferOf(p)) IN SubSeq(PathOf(b), BasenameStart(b) + 1, b.len)

\* path_basename: what follows the last slash of a path as it is.
PathBasename(p) ==
  LET slash == Max({0} \cup {i \in 1..Len(p) : p[i] = "/"})
  IN SubSeq(p, slash + 1, Len(p))

\* dirname2: the buffer that it leaves, which may be the one of the path.
Dirname(p) ==
  LET b     == Normalize(BufferOf(p))
      slash == Max({-1} \cup {i \in 0..b.len - 2 : b.buf[i + 1] = "/"})
  IN IF b.len = 1 THEN IF PathOf(b) = <<"/">> THEN <<"/">> ELSE <<".">>
     ELSE IF slash < 0 THEN <<".">>
     ELSE SubSeq(b.buf, 1, Max({slash, 1}))

-----------------------------------------------------------------------------
Init == path = <<>>

Next == Len(path) < MaxLen /\ \E c \in Chars : path' = path \o <<c>>

Spec == Init /\ [][Next]_path

-----------------------------------------------------------------------------
(* What paths mean: where they lead from, through which names, and whether a *)
(* slash ends them.                                                          *)

Components(p) ==
  LET from[i \in 1..Len(p) + 1] ==
        IF i > Len(p) THEN <<>>
        ELSE LET ends == {j \in i..Len(p) : p[j] = "/"}
                 end  == IF ends = {} THEN Len(p) + 1 ELSE Min(ends)
                 name == SubSeq(p, i, end - 1)
             IN (IF name \in {<<>>, <<".">>} THEN <<>> ELSE <<name>>)
                  \o (IF end > Len(p) THEN <<>> ELSE from[end + 1])
  IN from[1]

IsAbsolute(p) == Len(p) > 0 /\ p[1] = "/"

Means(p) == <<IsAbsolute(p), Components(p)>>

\* A path names a directory if it ends in a slash or in the component ".".
Directory(p) ==
  Len(p) > 0 /\ (Last(p) = "/" \/ PathBasename(p) = <<".">>)

-----------------------------------------------------------------------------
(* Properties *)

\* normalize keeps inside of its buffer, ends the path with a NUL and puts no
\* NUL into it, whichever of its moves follow each other.
TypeOK ==
  /\ path \in Seq(Chars)
  /\ LET b == Normalize(BufferOf(path))
     IN /\ b.len \in 0..Len(path) /\ Len(b.buf) = Len(path) + 1
        /\ b.buf[b.len + 1] = "NUL" /\ PathOf(b) \in Seq(Chars)

\* What normalize returns leads where the path led, asks for a directory when
\* the path did, and cannot be made shorter by normalizing it again.
NormalMeansTheSame ==
  /\ Means(Normal(path)) = Means(path)
  /\ Directory(Normal(path)) = Directory(path)
  /\ Normal(Normal(path)) = Normal(path)

\* Two paths through the same names that both end in a slash, or both do not,
\* become the same text: a normalized path is its names with one slash between.
NormalIsCanonical ==
  LET Joined == FoldLeft(LAMBDA s, name : s \o (IF s = <<>> THEN <<>> ELSE <<"/">>) \o name,
                         <<>>, Components(path))
  IN Components(path) # <<>> =>
       Normal(path) = (IF IsAbsolute(path) THEN <<"/">> ELSE <<>>)
                        \o Joined
                        \o (IF Directory(path) THEN <<"/">> ELSE <<>>)

\* dirname2 and basename2 take a path apart: put together again, they mean
\* what the path meant, and the base is the last name.
PartsMakeThePath ==
  path # <<>> =>
    /\ Means(Dirname(path) \o <<"/">> \o Basename(path)) = Means(path)
    /\ Components(path) # <<>> =>
         /\ Components(Basename(path)) = <<Last(Components(path))>>
         /\ Directory(Basename(path)) = Directory(path)
         /\ Means(Dirname(path)) =
              <<IsAbsolute(path), Front(Components(path))>>
=============================================================================
