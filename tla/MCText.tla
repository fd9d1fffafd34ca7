------------------------------- MODULE MCText -------------------------------
(***************************************************************************)
(* The algorithms on text for TLC: UTF-8, the tokenizer and the code       *)
(* generator. A behaviour is the input of one of them growing, or the      *)
(* steps of one call; the others rest. The alphabets are small ones with   *)
(* the characters each property is about.                                  *)
(***************************************************************************)
EXTENDS Integers, Sequences

CONSTANTS RawBytes, MaxRaw,     \* bytes of texts that may not be valid
          WideBytes,            \* bytes of characters of every width:
          MaxAny, MaxWide,      \* any texts, and longer ones made of characters
          Drawn, MaxRandom,
          CodeChars, SymbolChars, LineChars, MaxCode, MaxOperators,
          ValueChars, CallChars, MaxValue, Initial

VARIABLES
  part,   \* what is checked
  text,   \* the text of all parts that read one
  capacity, minLen, target, randomPc

randomVars == <<capacity, minLen, target, randomPc>>
vars == <<part, text, randomVars>>

\* What the texts of a part are made of, and how long they grow.
Alphabet == [raw |-> RawBytes, wide |-> WideBytes, code |-> CodeChars,
             operators |-> SymbolChars, line |-> LineChars,
             value |-> ValueChars, expression |-> CallChars]
Longest == [raw |-> MaxRaw, wide |-> MaxWide, code |-> MaxCode,
            operators |-> MaxOperators, line |-> MaxCode, value |-> MaxValue,
            expression |-> MaxValue]
Texts == DOMAIN Alphabet
Parts == Texts \cup {"random"}

\* Utf8Random extends Utf8, and Generate extends Tokenize.
Utf == INSTANCE Utf8Random
         WITH Bytes <- RawBytes \cup WideBytes, MaxLen <- MaxRandom,
              pc <- randomPc
Meta == INSTANCE Generate
          WITH Chars <- CodeChars \cup SymbolChars \cup LineChars
                          \cup ValueChars \cup CallChars,
               MaxLen <- MaxCode

ASSUME Instances ==
  /\ Utf!Utf8Assumption /\ Utf!RandomAssumption
  /\ Meta!TokenizeAssumption
  /\ \A p \in Texts : Longest[p] <= IF p \in {"raw", "wide"} THEN MaxRandom ELSE MaxCode

\* Where a part rests while another runs.
RandomRest == Utf!RandomInit /\ capacity = 0 /\ minLen = 0

Init ==
  /\ part \in Parts /\ text = <<>>
  /\ IF part = "random" THEN Utf!RandomInit ELSE RandomRest

\* Whole characters, and perhaps the beginning of one more.
IsMadeOfCharacters(s) ==
  \E b \in Utf!Boundaries(s), row \in Utf!WellFormed :
    /\ Len(s) - b < Len(row)
    /\ \A i \in 1..Len(s) - b : s[b + i] \in row[i]

TextGrows ==
  /\ part \in Texts /\ Len(text) < Longest[part]
  /\ IF part \in {"raw", "wide"} THEN Utf!Next ELSE Meta!Next
  /\ text'[Len(text')] \in Alphabet[part]
  /\ part = "wide" /\ Len(text) >= MaxAny => IsMadeOfCharacters(text')
  /\ UNCHANGED <<part, randomVars>>

RandomRuns == part = "random" /\ Utf!RandomNext /\ UNCHANGED part

Next == TextGrows \/ RandomRuns

\* The loop of utf8_random is one thread's.
Fairness == WF_<<text, randomVars>>(part = "random" /\ Utf!RandomNext)

Spec == Init /\ [][Next]_vars /\ Fairness

-----------------------------------------------------------------------------
(* Properties *)

\* Decoding takes bytes that are there and gives runes that have an encoding;
\* utf8_valid accepts what Unicode calls well formed and nothing else, and
\* counting characters and looking for the n-th agree, in any bytes.
DecodingIsExact ==
  part = "raw" => Utf!TypeOK /\ Utf!ValidIsWellFormed /\ Utf!PositionsAgree

\* No cut goes through a character or leaves more than fits, and none that
\* fits was left out: of the width, of the suffix, of the capitalized text.
CutsFit ==
  part = "wide" => Utf!CutFits /\ Utf!SuffixFits /\ Utf!CapitalsAreWhole

\* utf8_random writes valid text into its buffer, no less than was asked for.
RandomIsValid == part = "random" =>
  Utf!RandomTypeOK /\ Utf!RandomIsValid /\ Utf!RandomReachesMinimum

\* UTF-8 text is decoded as Unicode has it, and stays whole wherever it is cut
\* or made up; the loop that draws random characters until enough fit ends.
Utf8StaysWhole ==
  /\ [](DecodingIsExact /\ CutsFit /\ RandomIsValid)
  /\ part = "random" => Utf!RandomReturns


\* The code that is generated reads back as what it was made from: literals
\* and their lengths, identifiers, and expressions broken into lines.
GeneratedCodeReadsBack ==
  /\ part = "value" => /\ Meta!LiteralsMeanTheValue /\ Meta!IdentifiersAreFree
                       /\ Meta!LengthsAreOfTheStrings
  /\ part = "expression" => Meta!WrappingKeepsTokens

=============================================================================
