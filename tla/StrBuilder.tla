----------------------------- MODULE StrBuilder -----------------------------
(***************************************************************************)
(* The StrBuilder of string.c: a growing, NUL-terminated buffer. Callers   *)
(* append literals, parts of other builders and parts of the builder       *)
(* itself, whose block may move while it grows.                            *)
(*                                                                         *)
(* A heap block is the sequence of its bytes, as long as it was allocated; *)
(* a free block is empty.                                                  *)
(***************************************************************************)
EXTENDS Integers, Sequences, FiniteSets, FiniteSetsExt

CONSTANTS
  Builders, Ptrs,    \* the builders, and the addresses of blocks
  Literals,          \* strings that are not in a builder, never empty
  InitialCapacity,   \* STR_BUILDER_INITIAL_CAPACITY
  MaxLen             \* longest string

NULL == "NULL"
Nul == 0
Garbage == -1

StrBuilderAssumption ==
  /\ InitialCapacity \in Nat \ {0} /\ MaxLen \in Nat
  /\ \A t \in Literals : t \in Seq(Nat \ {0}) /\ Len(t) \in 1..MaxLen
  /\ NULL \notin Ptrs /\ "stolen" \notin Builders

VARIABLES
  heap,    \* the bytes of each block
  sb,      \* data, len and cap of each builder
  stolen,  \* a block that a caller took, with its length and size
  wrong    \* a block was given back with a size that is not its own

vars == <<heap, sb, stolen, wrong>>

NoData == [data |-> NULL, len |-> 0, cap |-> 0]

Init ==
  /\ heap = [p \in Ptrs |-> <<>>]
  /\ sb = [b \in Builders |-> NoData]
  /\ stolen = NoData
  /\ wrong = FALSE

\* The string of a builder.
Text(s, h) == IF s.data = NULL THEN <<>> ELSE SubSeq(h[s.data], 1, s.len)

\* A block of n bytes that begins like bytes.
Block(bytes, n) == [i \in 1..n |-> IF i <= Len(bytes) THEN bytes[i] ELSE Garbage]

\* realloc2 may leave a block where it is or move it; it frees the old one.
Places(p) == {q \in Ptrs : heap[q] = <<>>} \cup ({p} \ {NULL})

Realloc(h, p, q, n) ==
  [r \in Ptrs |-> IF r = q THEN Block(IF p = NULL THEN <<>> ELSE h[p], n)
                  ELSE IF r = p THEN <<>> ELSE h[r]]

SizeIsWrong(p, n) == p # NULL /\ Len(heap[p]) # n

FreeBlock(h, p) == [r \in Ptrs |-> IF r = p THEN <<>> ELSE h[r]]

\* The capacity sb_reserve chooses: doubled until it suffices.
NewCap(cap, needed) ==
  LET first == IF cap <= 0 THEN InitialCapacity ELSE cap
      k == Min({i \in 0..needed : first * 2^i >= needed}) IN first * 2^k

Enough(s, needed) == s.data # NULL /\ needed <= s.cap

\* sb_reserve: the builder and the heap after it, with the block at q.
Reserved(s, extra, q) ==
  LET needed == s.len + extra + 1 IN
  IF Enough(s, needed) THEN [s |-> s, h |-> heap]
  ELSE LET cap == NewCap(s.cap, needed) IN
       [s |-> [s EXCEPT !.data = q, !.cap = cap],
        h |-> Realloc(heap, s.data, q, cap)]

\* Bytes are written behind the string, and a NUL behind them.
Written(h, s, bytes) ==
  [h EXCEPT ![s.data] =
     [i \in DOMAIN @ |->
        IF i \in s.len + 1 .. s.len + Len(bytes) THEN bytes[i - s.len]
        ELSE IF i = s.len + Len(bytes) + 1 THEN Nul ELSE @[i]]]

\* A source: a literal, or n bytes at an offset of a block.
Bytes(src, h) ==
  IF src.ptr = NULL THEN src.lit
  ELSE IF h[src.ptr] = <<>> THEN [i \in 1..src.n |-> Garbage]
  ELSE SubSeq(h[src.ptr], src.off + 1, src.off + src.n)

Lit(t) == [ptr |-> NULL, lit |-> t, off |-> 0, n |-> Len(t)]

Part(b, off, n) == [ptr |-> sb[b].data, lit |-> <<>>, off |-> off, n |-> n]

\* Sources within the strings of the builders, and literals.
Sources ==
  {Lit(t) : t \in Literals} \cup
  {Part(b, i - 1, n) : b \in {c \in Builders : sb[c].data # NULL},
                       i \in 1..MaxLen, n \in 1..MaxLen}

Within(src) ==
  \A b \in Builders : src.ptr = sb[b].data /\ src.ptr # NULL =>
    src.off + src.n <= sb[b].len

\* Mutant: the source is read where it was before the block moved.
Appended_StaleSource(s, src, q) ==
  LET r == Reserved(s, src.n, q) IN
  [s |-> [r.s EXCEPT !.len = @ + src.n], h |-> Written(r.h, r.s, Bytes(src, r.h))]

\* sb_append: after the reservation the source of an aliased append is found
\* again at its offset in the block, wherever it is now.
Appended(s, src, q) ==
  LET r == Reserved(s, src.n, q)
      from == IF src.ptr = s.data /\ s.data # NULL
              THEN [src EXCEPT !.ptr = r.s.data] ELSE src IN
  [s |-> [r.s EXCEPT !.len = @ + src.n], h |-> Written(r.h, r.s, Bytes(from, r.h))]

\* The effect of a call on builder b that grows it for src.
Grows(b, s, src) ==
  /\ Within(src) /\ s.len + src.n <= MaxLen
  /\ \E q \in Places(s.data) :
       LET r == Appended(s, src, q) IN
       /\ sb' = [sb EXCEPT ![b] = r.s]
       /\ heap' = r.h
  /\ UNCHANGED <<stolen, wrong>>

\* sb_append and sb_append_byte
Extend(b, src) == Grows(b, sb[b], src)

\* sb_printf, which does not find an argument in its own block again after the
\* reservation: what it formats is a literal or in another builder's block.
Printf(b, src) ==
  /\ src.ptr = NULL \/ src.ptr # sb[b].data
  /\ Grows(b, sb[b], src)

\* sb_append_byte_if_not
AppendByteIfNot(b, t) ==
  /\ Len(t) = 1
  /\ sb[b].len > 0 => heap[sb[b].data][sb[b].len] # t[1]
  /\ Extend(b, Lit(t))

\* sb_clear
Clear(b) ==
  /\ sb' = [sb EXCEPT ![b].len = 0]
  /\ heap' = IF sb[b].data = NULL THEN heap ELSE [heap EXCEPT ![sb[b].data][1] = Nul]
  /\ UNCHANGED <<stolen, wrong>>

\* sb_set with the builder's own data: the string is cut.
Truncate(b, n) ==
  /\ sb[b].data # NULL /\ n <= sb[b].len
  /\ sb' = [sb EXCEPT ![b].len = n]
  /\ heap' = [heap EXCEPT ![sb[b].data][n + 1] = Nul]
  /\ UNCHANGED <<stolen, wrong>>

\* sb_set: cleared, then appended to; the source may be inside the builder.
Set(b, src) ==
  /\ ~(src.ptr # NULL /\ src.ptr = sb[b].data /\ src.off = 0)
  /\ Within(src)
  /\ LET s == [sb[b] EXCEPT !.len = 0] IN
     \E q \in Places(s.data) :
       LET r == Appended(s, src, q) IN
       /\ sb' = [sb EXCEPT ![b] = r.s]
       /\ heap' = r.h
  /\ UNCHANGED <<stolen, wrong>>

\* sb_copy: the string of c replaces that of b, in b's own block.
Copy(b, c) ==
  /\ b # c
  /\ IF sb[c].len = 0 THEN Clear(b) ELSE Set(b, Part(c, 0, sb[c].len))

\* sb_free
Free(b) ==
  /\ wrong' = (wrong \/ SizeIsWrong(sb[b].data, sb[b].cap))
  /\ heap' = FreeBlock(heap, sb[b].data)
  /\ sb' = [sb EXCEPT ![b] = NoData]
  /\ UNCHANGED stolen

\* Mutant: the source of a move keeps its block.
Move_KeepsSource(b, c) ==
  /\ b # c
  /\ wrong' = (wrong \/ SizeIsWrong(sb[b].data, sb[b].cap))
  /\ heap' = FreeBlock(heap, sb[b].data)
  /\ sb' = [sb EXCEPT ![b] = sb[c]]
  /\ UNCHANGED stolen

\* sb_move: b is freed and takes the block of c.
Move(b, c) ==
  /\ b # c
  /\ wrong' = (wrong \/ SizeIsWrong(sb[b].data, sb[b].cap))
  /\ heap' = FreeBlock(heap, sb[b].data)
  /\ sb' = [sb EXCEPT ![b] = sb[c], ![c] = NoData]
  /\ UNCHANGED stolen

\* sb_steal: the caller gets the block and its capacity.
Steal(b) ==
  /\ stolen = NoData
  /\ stolen' = sb[b]
  /\ sb' = [sb EXCEPT ![b] = NoData]
  /\ UNCHANGED <<heap, wrong>>

\* sb_steal_exact: the block is cut to the string and its NUL; an empty
\* builder gives a block with the NUL alone.
StealExact(b) ==
  LET s == sb[b] IN
  /\ stolen = NoData
  /\ \E q \in Places(s.data) :
       /\ s.cap = s.len + 1 => q = s.data
       /\ LET h == IF s.cap = s.len + 1 THEN heap
                   ELSE Realloc(heap, s.data, q, s.len + 1) IN
          heap' = [h EXCEPT ![q][s.len + 1] = Nul]
       /\ stolen' = [data |-> q, len |-> s.len, cap |-> s.len + 1]
  /\ wrong' = (wrong \/ SizeIsWrong(s.data, s.cap))
  /\ sb' = [sb EXCEPT ![b] = NoData]

\* The caller frees what it took, with the size it was told.
FreeStolen ==
  /\ stolen # NoData
  /\ wrong' = (wrong \/ SizeIsWrong(stolen.data, stolen.cap))
  /\ heap' = FreeBlock(heap, stolen.data)
  /\ stolen' = NoData
  /\ UNCHANGED sb

Next ==
  \/ \E b \in Builders :
       \/ \E src \in Sources : Extend(b, src) \/ Printf(b, src) \/ Set(b, src)
       \/ \E t \in Literals : AppendByteIfNot(b, t)
       \/ Clear(b) \/ Free(b) \/ Steal(b) \/ StealExact(b)
       \/ \E n \in 0..MaxLen : Truncate(b, n)
       \/ \E c \in Builders : Copy(b, c) \/ Move(b, c)
  \/ FreeStolen

Spec == Init /\ [][Next]_vars

-----------------------------------------------------------------------------
(* Properties *)

Owners == [x \in Builders \cup {"stolen"} |-> IF x = "stolen" THEN stolen ELSE sb[x]]

\* The types of the variables; a string always leaves room for its NUL.
TypeOK ==
  /\ DOMAIN heap = Ptrs
  /\ \A x \in DOMAIN Owners :
       /\ Owners[x].data \in Ptrs \cup {NULL}
       /\ Owners[x].len \in 0..MaxLen /\ Owners[x].cap \in Nat
       /\ Owners[x].data # NULL => Owners[x].len < Owners[x].cap
  /\ wrong \in BOOLEAN

\* Every block has one owner, which knows its size, and no block is lost:
\* after any moves, copies, thefts and growth.
BlocksHaveOneOwner ==
  /\ \A p \in Ptrs : heap[p] # <<>> =>
       Cardinality({x \in DOMAIN Owners : Owners[x].data = p}) = 1
  /\ \A x \in DOMAIN Owners : Owners[x].data # NULL =>
       Len(heap[Owners[x].data]) = Owners[x].cap
  /\ ~wrong

\* A builder with a block is NUL-terminated within it: its data is a string
\* of C at all times.
IsTerminated ==
  \A x \in DOMAIN Owners : Owners[x].data # NULL =>
    heap[Owners[x].data][Owners[x].len + 1] = Nul

Abstract == INSTANCE StringVars
  WITH text <- [b \in Builders |-> Text(sb[b], heap)],
       taken <- Text(stolen, heap)

\* The builders implement string variables: what is read back is what was
\* written, also when a builder is appended to or set from its own bytes and
\* its block moves meanwhile (the test appends builder.data + 1 to builder).
ImplementsStrings == Abstract!Spec

=============================================================================
