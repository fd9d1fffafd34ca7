------------------------------- MODULE Generate -------------------------------
(***************************************************************************)
(* meta_generate.c: C text written for values. What it writes is read with *)
(* the tokenizer of Tokenize and decoded as C says. The values are the     *)
(* texts of Tokenize; "CTL" stands for a byte that has no letter of its    *)
(* own, "n" is the letter of the newline.                                  *)
(***************************************************************************)
EXTENDS Tokenize

-----------------------------------------------------------------------------
(* c_string_literal *)

\* Mutant: an octal escape of as few digits as the number needs.
Escape_ShortOctal(c) ==
  CASE c = "LF" -> <<"BS", "n">>
    [] c \in {"BS", "DQ"} -> <<"BS", c>>
    [] c = "CTL" -> <<"BS", "0">>
    [] OTHER -> <<c>>

\* A letter, the character itself, or three octal digits.
Escape(c) ==
  CASE c = "LF" -> <<"BS", "n">>
    [] c \in {"BS", "DQ"} -> <<"BS", c>>
    [] c = "CTL" -> <<"BS", "0", "0", "0">>
    [] OTHER -> <<c>>

CStringLiteral(value) ==
  <<"DQ">> \o FlattenSeq([i \in DOMAIN value |-> Escape(value[i])]) \o <<"DQ">>

\* What a C compiler reads between the quotes: an octal escape takes up to
\* three octal digits.
Decoded(body) ==
  LET from[i \in 1..Len(body) + 1] ==
        CASE i > Len(body) -> <<>>
          [] i <= Len(body) /\ body[i] # "BS" -> <<body[i]>> \o from[i + 1]
          [] OTHER ->
               LET digits == Min({3} \cup {k \in 0..2 : i + 1 + k > Len(body) \/ body[i + 1 + k] # "0"})
               IN IF i = Len(body) THEN <<"unfinished">>
                  ELSE IF digits > 0 THEN <<"CTL">> \o from[i + 1 + digits]
                  ELSE <<IF body[i + 1] = "n" THEN "LF" ELSE body[i + 1]>> \o from[i + 2]
  IN from[1]

Inside(literal) == SubSeq(literal, 2, Len(literal) - 1)

-----------------------------------------------------------------------------
(* c_identifier *)

\* c_identifier_is_keyword: two words stand for its table.
Keywords == {<<"a">>, <<"a", "a">>}

\* What is neither a letter, a digit nor _ becomes _.
Cleaned(value) == [i \in DOMAIN value |-> IF value[i] \in Body THEN value[i] ELSE "_"]

NeedsPrefix(name) ==
  name = <<>> \/ name[1] \in Digits \cup {"_"} \/ name \in Keywords

CIdentifier(value) ==
  IF NeedsPrefix(Cleaned(value)) THEN <<"c", "_">> \o Cleaned(value) ELSE Cleaned(value)

-----------------------------------------------------------------------------
(* Arrays: of values, one of which may be NULL, and of their lengths *)

Null == <<"NULL">>

\* The name of a value that is NULL: the fallback prefix and its index.
Fallback(i) == <<"u", IF i = 1 THEN "0" ELSE "8">>

EmitStrings(values) ==
  [i \in DOMAIN values |-> CStringLiteral(IF values[i] = Null THEN Fallback(i) ELSE values[i])]

LengthOf(v) == IF v = Null THEN 0 ELSE Len(v)

EmitLens(values) ==
  [i \in DOMAIN values |-> IF values[i] = Null THEN Len(Fallback(i)) ELSE LengthOf(values[i])]

-----------------------------------------------------------------------------
(* c_emit_wrapped_expr *)

\* A new line after each parenthesis and comma, as far in as the prefix goes.
EmitWrapped(prefix, expr, suffix) ==
  LET Turn(c) == IF c \in {"(", ","}
                 THEN <<c, "LF">> \o [i \in 1..Len(prefix) |-> " "] ELSE <<c>>
  IN prefix \o FlattenSeq([i \in DOMAIN expr |-> Turn(expr[i])]) \o suffix \o <<"LF">>

-----------------------------------------------------------------------------
(* Properties *)

\* A literal is one token whatever stands in the value, quotes, backslashes
\* and newlines too, and C reads the value from it.
LiteralsMeanTheValue ==
  \A literal \in {CStringLiteral(text)} : \A tokens \in {Tokens(literal)} :
     /\ Len(tokens) = 1 /\ tokens[1].kind = "literal"
     /\ Decoded(Inside(literal)) = text

\* An identifier is one token, is no keyword and is not reserved, whatever the
\* value.
IdentifiersAreFree ==
  \A name \in {CIdentifier(text)} : \A tokens \in {Tokens(name)} :
     /\ Len(tokens) = 1 /\ tokens[1].kind = "ident"
     /\ name \notin Keywords /\ name[1] # "_"

\* The two arrays are of one mind: each length is the one of the string that
\* stands at its index.
LengthsAreOfTheStrings ==
  \A values \in {<<text, Null>>, <<Null, text>>, <<Null, Null>>} :
    LET strings == EmitStrings(values)
        lens == EmitLens(values)
    IN \A i \in DOMAIN values : lens[i] = Len(Decoded(Inside(strings[i])))

\* Lines break between tokens: the wrapped expression has the tokens of the
\* expression. A comment of an expression, or a literal that has a parenthesis
\* or a comma in it, would be broken.
WrappingKeepsTokens ==
  LET Texts(t) == [k \in DOMAIN t |-> t[k].text]
      Meant(s) == Texts(SelectSeq(Tokens(s), LAMBDA x : x.kind \notin Trivia))
      Breakable(t) == /\ t.kind # "comment"
                      /\ t.kind = "literal" => Range(t.text) \cap {"(", ",", "LF"} = {}
  IN (\A t \in Range(Tokens(text)) : Breakable(t)) =>
       Meant(EmitWrapped(<<"a", " ", "=">>, text, <<";">>)) =
         Meant(<<"a", " ", "=">> \o text \o <<";">>)

=============================================================================
