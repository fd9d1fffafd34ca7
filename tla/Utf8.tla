-------------------------------- MODULE Utf8 --------------------------------
(***************************************************************************)
(* utf8.c: decoding, validation, character positions, widths and           *)
(* capitalization. A text grows byte by byte from bytes that bound the     *)
(* cases of the decoder, so that every prefix of every text is examined.   *)
(* Positions are those of the code: the byte at position b is s[b + 1].    *)
(***************************************************************************)
EXTENDS Integers, Sequences, SequencesExt, FiniteSetsExt

CONSTANTS Bytes,    \* the bytes that texts are made of
          MaxLen    \* longest text

Utf8Assumption == Bytes \subseteq 0..255 /\ MaxLen \in Nat

VARIABLES text

UTF_INVALID == 65533
MaxRune == 1114111

\* utf8_byte and the number of values under utf8_mask, from index 0.
LeadByte == <<128, 0, 192, 224, 240>>
Payloads == <<64, 128, 32, 16, 8>>
Least    == <<0, 0, 128, 2048, 65536>>
Greatest == <<MaxRune, 127, 2047, 65535, MaxRune>>

Surrogates == 55296..57343

-----------------------------------------------------------------------------
(* Characters *)

\* utf8_decode_byte: 0 for a continuation byte, the length that a first byte
\* announces, 5 for a byte that cannot occur.
Kind ==
  [c \in 0..255 |->
     Min({i \in 0..4 : (c \div Payloads[i + 1]) * Payloads[i + 1] = LeadByte[i + 1]}
           \cup {5})]

Payload(c) == IF Kind[c] = 5 THEN 0 ELSE c % Payloads[Kind[c] + 1]

EncodedByte(u, i) == LeadByte[i + 1] + (u % Payloads[i + 1])

\* Mutant: four bytes may be more than U+10FFFF.
Validated_NoMost(u, i) ==
  IF u >= Least[i + 1] /\ (i = 4 \/ u <= Greatest[i + 1]) /\ u \notin Surrogates
  THEN u ELSE UTF_INVALID

\* utf8_validate: too long an encoding, a surrogate or too large a number
\* becomes U+FFFD.
Validated(u, i) ==
  IF u \in Least[i + 1]..Greatest[i + 1] /\ u \notin Surrogates
  THEN u ELSE UTF_INVALID

EncodedLength(u) == Min({i \in 1..4 : u <= Greatest[i + 1]})

\* utf8_decode_raw at position b: a length of 0 says that the text ends
\* inside of a character.
DecodeRaw(s, b) ==
  LET left == Len(s) - b
      kind == Kind[s[b + 1]]
      bad  == {j \in 1..Min({kind, left}) - 1 : Kind[s[b + 1 + j]] # 0}
      rune == FoldLeft(LAMBDA u, c : 64 * u + Payload(c), 0,
                       SubSeq(s, b + 1, b + kind))
  IN IF left <= 0 THEN [rune |-> UTF_INVALID, len |-> 0]
     ELSE IF kind \notin 1..4 THEN [rune |-> UTF_INVALID, len |-> 1]
     ELSE IF bad # {} THEN [rune |-> UTF_INVALID, len |-> Min(bad)]
     ELSE IF left < kind THEN [rune |-> UTF_INVALID, len |-> 0]
     ELSE [rune |-> Validated(rune, kind), len |-> kind]

\* utf8_encode_raw: always one to four bytes.
Encode(u) ==
  LET rune == Validated(u, 0)
      len  == EncodedLength(rune)
  IN <<EncodedByte(rune \div 64^(len - 1), len)>>
       \o [i \in 1..len - 1 |-> EncodedByte(rune \div 64^(len - 1 - i), 0)]

\* utf8_valid: where the first character is that is not the shortest encoding
\* of a character, or the length.
BadOffset(s) ==
  LET from[b \in 0..Len(s)] ==
        LET d == DecodeRaw(s, b)
        IN IF \/ b = Len(s)
              \/ d.len <= 0
              \/ Encode(d.rune) # SubSeq(s, b + 1, b + d.len)
           THEN b
           ELSE from[b + d.len]
  IN from[0]

Valid(s) == BadOffset(s) = Len(s)

\* utf8_decode: what the text does not end is shown as '.', a byte at a time.
Decode(s, b) ==
  LET d == DecodeRaw(s, b) IN IF d.len <= 0 THEN [rune |-> 46, len |-> 1] ELSE d

-----------------------------------------------------------------------------
(* Positions *)

\* utf8_next_position
NextPosition(s, b) ==
  IF b >= Len(s) THEN Len(s) ELSE Min({b + Decode(s, b).len, Len(s)})

\* utf8_characters
Characters(s) ==
  LET from[b \in 0..Len(s)] ==
        IF b >= Len(s) THEN 0 ELSE 1 + from[NextPosition(s, b)]
  IN from[0]

\* utf8_byte_position
BytePosition(s, character) ==
  LET after[i \in 0..character] ==
        IF i = 0 THEN 0 ELSE NextPosition(s, after[i - 1])
  IN IF character <= 0 THEN 0 ELSE after[character]

-----------------------------------------------------------------------------
(* Widths *)

\* wcwidth of the C library: -1 for what is not printed, 0 for what combines
\* with the character before, 2 for wide characters.
Wcwidth(u) ==
  CASE u \in 1..31 \/ u \in 127..159 -> -1
    [] u = 0 \/ u \in 768..879 -> 0
    [] u \in 4352..4447 \/ u \in 63744..64255 \/ u \in 127744..129535 -> 2
    [] OTHER -> 1

\* utf8_char_width
CharWidth(u) == IF Wcwidth(u) < 0 THEN 1 ELSE Wcwidth(u)

\* utf8_width, of what stands at position b and after it.
WidthFrom(s, start) ==
  LET from[b \in 0..Len(s)] ==
        IF b >= Len(s) THEN 0
        ELSE LET d == Decode(s, b) IN CharWidth(d.rune) + from[b + d.len]
  IN from[start]

Width(s) == WidthFrom(s, 0)

\* utf8_suffix_width_position: the widths before position b are taken off the
\* width of the whole.
SuffixWidthPosition(s, maxWidth) ==
  LET from[b \in 0..Len(s)] ==
        IF b = Len(s) \/ WidthFrom(s, b) <= maxWidth THEN b
        ELSE from[b + Decode(s, b).len]
  IN IF maxWidth <= 0 THEN Len(s) ELSE from[0]

\* utf8_cut_width: the width before position b is what is not after it.
CutWidth(s, maxWidth) ==
  LET whole == Width(s)
      from[b \in 0..Len(s)] ==
        IF \/ b = Len(s)
           \/ whole - WidthFrom(s, NextPosition(s, b)) > maxWidth
        THEN b
        ELSE from[NextPosition(s, b)]
  IN from[0]

-----------------------------------------------------------------------------
(* Capitalization *)

\* iswalpha and towupper of the C library, of the ASCII letters and of those
\* of U+00E0 to U+00F6, whose capitals come 32 before.
Lower == 97..122 \cup 224..246
IsAlpha(u) == u \in Lower \cup {l - 32 : l \in Lower}
ToUpper(u) == IF u \in Lower THEN u - 32 ELSE u

\* The characters of s as the loops of this file meet them.
Runes(s) ==
  LET from[b \in 0..Len(s)] ==
        IF b >= Len(s) THEN <<>>
        ELSE <<Decode(s, b).rune>> \o from[b + Decode(s, b).len]
  IN from[0]

\* utf8_capitalize_first_letters: the length it returns, and what it writes
\* of it: characters that fit whole into the capacity.
Capitalized(s, capacity) ==
  LET Step(acc, rune) ==
        LET wc  == IF ~IsAlpha(acc.previous) /\ acc.previous # 39 THEN ToUpper(rune) ELSE rune
            out == Encode(wc)
        IN [previous |-> wc, len |-> acc.len + Len(out),
            data |-> IF acc.len + Len(out) <= capacity
                     THEN acc.data \o out ELSE acc.data]
  IN FoldLeft(Step, [previous |-> 0, len |-> 0, data |-> <<>>], Runes(s))

-----------------------------------------------------------------------------
Init == text = <<>>

Next == Len(text) < MaxLen /\ \E c \in Bytes : text' = text \o <<c>>

Spec == Init /\ [][Next]_text

-----------------------------------------------------------------------------
(* The encodings of Unicode, table 3-7 of the standard *)

Trail == 128..191

WellFormed ==
  {<<0..127>>, <<194..223, Trail>>,
   <<{224}, 160..191, Trail>>, <<225..236, Trail, Trail>>,
   <<{237}, 128..159, Trail>>, <<238..239, Trail, Trail>>,
   <<{240}, 144..191, Trail, Trail>>, <<241..243, Trail, Trail, Trail>>,
   <<{244}, 128..143, Trail, Trail>>}

IsCharacter(s) ==
  \E row \in WellFormed : Len(s) = Len(row) /\ \A i \in 1..Len(s) : s[i] \in row[i]

\* The ends of the characters of the longest well-formed prefix of s.
Boundaries(s) ==
  LET to[b \in 0..Len(s)] ==
        \/ b = 0
        \/ \E n \in 1..Min({4, b}) :
             to[b - n] /\ IsCharacter(SubSeq(s, b - n + 1, b))
  IN {b \in 0..Len(s) : to[b]}

-----------------------------------------------------------------------------
(* Properties *)

\* Texts are bytes, and decoding, wherever it begins in a text, takes bytes
\* that are there and gives a rune that has an encoding (utf8_decode).
TypeOK ==
  /\ text \in Seq(Bytes) /\ Len(text) <= MaxLen
  /\ \A b \in 0..Len(text) - 1 :
       /\ Decode(text, b).len \in 1..Min({4, Len(text) - b})
       /\ Decode(text, b).rune \in 0..MaxRune /\ Decode(text, b).rune \notin Surrogates

\* utf8_valid accepts the texts that Unicode calls well formed, and no others,
\* although it knows neither of the table of the standard nor of its
\* exceptions; the offset it reports is that of the first bad character.
ValidIsWellFormed ==
  /\ Valid(text) <=> Len(text) \in Boundaries(text)
  /\ BadOffset(text) = Max(Boundaries(text))

\* utf8_next_position always moves on, and utf8_byte_position counts as
\* utf8_characters does, also in texts that are not valid; in valid texts it
\* names the boundaries of characters.
PositionsAgree ==
  /\ \A b \in 0..Len(text) - 1 : NextPosition(text, b) \in b + 1..Len(text)
  /\ BytePosition(text, Characters(text)) = Len(text)
  /\ \A n \in 0..Characters(text) :
       BytePosition(text, n) = Len(text) => n = Characters(text)
  /\ Valid(text) => {BytePosition(text, n) : n \in -1..Len(text)} = Boundaries(text)

\* What utf8_cut_width keeps of a valid text fits into the width, one more
\* character would not, and no character is cut in two. In a text that is not
\* valid the bytes before a cut can be wider alone than they were in the text.
CutFits ==
  Valid(text) =>
    \A w \in -1..Width(text) + 1 :
      LET cut == CutWidth(text, w)
      IN /\ cut \in Boundaries(text)
         /\ Width(SubSeq(text, 1, cut)) <= Max({w, 0})
         /\ cut < Len(text) =>
              Width(SubSeq(text, 1, NextPosition(text, cut))) > w

\* What utf8_suffix_width_position keeps fits into the width, also of a text
\* that is not valid, and nothing longer that begins at a character does.
SuffixFits ==
  \A w \in 1..Width(text) + 1 :
    LET start == SuffixWidthPosition(text, w)
    IN /\ Width(SubSeq(text, start + 1, Len(text))) <= w
       /\ \A n \in 0..Characters(text) :
            LET b == BytePosition(text, n)
            IN Width(SubSeq(text, b + 1, Len(text))) <= w => start <= b

\* utf8_capitalize_first_letters never writes past its buffer nor a part of a
\* character: what it writes is the beginning of the whole result, and the
\* whole result, when the length it returned first is the capacity.
\* The result is valid, has the characters of the text and stays as it is when
\* it is capitalized again.
CapitalsAreWhole ==
  LET whole == Capitalized(text, 3 * MaxLen)
  IN /\ Len(whole.data) = whole.len /\ Valid(whole.data)
     /\ Capitalized(whole.data, 3 * MaxLen) = whole
     /\ Characters(whole.data) = Characters(text)
     /\ \A capacity \in 0..whole.len :
          LET c == Capitalized(text, capacity)
          IN /\ c.len = whole.len /\ Len(c.data) <= capacity
             /\ IsPrefix(c.data, whole.data) /\ Valid(c.data)
             /\ capacity = whole.len => c.data = whole.data
=============================================================================
