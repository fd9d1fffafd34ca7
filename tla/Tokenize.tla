------------------------------ MODULE Tokenize ------------------------------
(***************************************************************************)
(* meta_tokenize.c: C text cut into tokens, and the questions asked of the *)
(* tokens. A text grows character by character; each one is examined.      *)
(* Offsets count from 0: the character at offset i is s[i + 1].            *)
(***************************************************************************)
EXTENDS Integers, FiniteSets, Sequences, SequencesExt

CONSTANTS Chars,     \* the characters that texts are made of
          MaxLen,    \* longest text
          Initial    \* TOKENIZE_INITIAL_TOKEN_CAPACITY

TokenizeAssumption == MaxLen \in Nat /\ Initial \in Nat \ {0}

VARIABLES text

\* "D" stands for the identifier define, BS for a backslash, DQ for a double
\* quote, LF and CR for the ends of lines.
Alpha == {"a", "c", "e", "u", "L", "D", "_"}
Digits == {"0", "8"}
HorizontalSpace == {" ", "CR"}
Quotes == {"'", "DQ"}
Body == Alpha \cup Digits
NumberBody == Body \cup {".", "'"}

\* The character at offset i, or NUL past the end.
At(s, i) == IF i < Len(s) THEN s[i + 1] ELSE "NUL"

\* The length of the run of characters of a set that begins at offset i.
Run(s, i, set) ==
  Min({j \in i..Len(s) : j = Len(s) \/ At(s, j) \notin set}) - i

-----------------------------------------------------------------------------
(* Literals and comments *)

\* scan_number_literal
ScanNumber(s, start) ==
  LET first == IF At(s, start) = "." /\ At(s, start + 1) \in Digits THEN 2 ELSE 1
      Goes(j) == \/ At(s, j) \in NumberBody
                 \/ At(s, j) \in {"+", "-"} /\ At(s, j - 1) = "e"
  IN Min({j \in start + first..Len(s) : j = Len(s) \/ ~Goes(j)}) - start

\* literal_quote_index, or -1.
QuoteIndex(s, start) ==
  LET Quoted(j) == At(s, j) \in Quotes
  IN CASE Quoted(start) -> start
       [] At(s, start) \in {"L", "u"} /\ Quoted(start + 1) -> start + 1
       [] At(s, start) = "u" /\ At(s, start + 1) = "8" /\ Quoted(start + 2) -> start + 2
       [] OTHER -> -1

\* scan_literal_token: to the quote, or up to the end of the line; a backslash
\* takes the next character with it, a newline too.
ScanLiteral(s, start) ==
  LET q == QuoteIndex(s, start)
      end[i \in 0..Len(s)] ==
        CASE i = Len(s) -> i
          [] At(s, i) = "BS" -> end[Min({i + 2, Len(s)})]
          [] At(s, i) = At(s, q) -> i + 1
          [] At(s, i) = "LF" -> i
          [] OTHER -> end[i + 1]
  IN IF q < 0 THEN 0 ELSE end[q + 1] - start

\* scan_line_comment
ScanLineComment(s, start) == Run(s, start, Chars \ {"LF"})

\* scan_block_comment: its length on this line, and whether it goes on.
ScanBlockComment(s, start, inBlock) ==
  LET end[i \in 0..Len(s)] ==
        CASE i >= Len(s) -> [len |-> Len(s) - start, inBlock |-> TRUE]
          [] At(s, i) = "*" /\ At(s, i + 1) = "/" -> [len |-> i + 2 - start, inBlock |-> FALSE]
          [] At(s, i) = "LF" -> [len |-> i - start, inBlock |-> TRUE]
          [] OTHER -> end[i + 1]
  IN end[IF inBlock THEN start ELSE start + 2]

-----------------------------------------------------------------------------
(* Operators *)

\* operator_or_punct_category: the operators of more than one character, and
\* what is punctuation.
Compound ==
  {<<"%", ":", "%", ":">>, <<"%", "=">>, <<"%", ":">>, <<"%", ">">>,
   <<"<", "<", "=">>, <<"<", "=">>, <<"<", "<">>, <<"<", ":">>, <<"<", "%">>,
   <<">", ">", "=">>, <<">", "=">>, <<">", ">">>, <<".", ".", ".">>,
   <<"+", "+">>, <<"+", "=">>, <<"-", "-">>, <<"-", "=">>, <<"-", ">">>,
   <<"&", "&">>, <<"&", "=">>, <<"|", "|">>, <<"|", "=">>,
   <<":", ":">>, <<":", ">">>, <<"#", "#">>}
  \cup {<<c, "=">> : c \in {"*", "/", "=", "!", "^"}}

Punctuation ==
  {<<"%", ">">>, <<"<", ":">>, <<"<", "%">>, <<".", ".", ".">>, <<":", ">">>}
  \cup {<<c>> : c \in {".", ":", ",", ";", "(", ")", "[", "]", "{", "}"}}

OperatorChars ==
  {"+", "-", "*", "/", "%", "=", "!", "<", ">", "&", "|", "^", "~", "?", ":",
   ".", ",", ";", "(", ")", "[", "]", "{", "}", "#"}

OperatorLength(s, i) ==
  Max({1} \cup {k \in 2..Min({4, Len(s) - i}) : SubSeq(s, i + 1, i + k) \in Compound})

-----------------------------------------------------------------------------
(* Tokens *)

\* line_starts_preprocessor
StartsPreprocessor(s) == At(s, Run(s, 0, HorizontalSpace)) = "#"

\* The token at offset i of the loop of tokenize_line_with_flags, and whether
\* a block comment is open after it.
TokenAt(s, i, inBlock) ==
  LET c == At(s, i)
      Token(kind, len) == [kind |-> kind, offset |-> i, inBlock |-> FALSE,
                           text |-> SubSeq(s, i + 1, i + len)]
      Comment(block) == [Token("comment", block.len) EXCEPT !.inBlock = block.inBlock]
      Sign(op) == Token(IF SubSeq(s, i + 1, i + op) \in Punctuation THEN "punct"
                        ELSE "operator", op)
  IN CASE c = "LF" -> [Token("newline", 1) EXCEPT !.inBlock = inBlock]
       [] inBlock \/ (c = "/" /\ At(s, i + 1) = "*") ->
            Comment(ScanBlockComment(s, i, inBlock))
       [] c \in HorizontalSpace -> Token("space", Run(s, i, HorizontalSpace))
       [] c = "/" /\ At(s, i + 1) = "/" -> Token("comment", ScanLineComment(s, i))
       [] QuoteIndex(s, i) >= 0 -> Token("literal", ScanLiteral(s, i))
       [] c \in Alpha -> Token("ident", Run(s, i, Body))
       [] c \in Digits \/ (c = "." /\ At(s, i + 1) \in Digits) ->
            Token("literal", ScanNumber(s, i))
       [] c \in OperatorChars -> Sign(OperatorLength(s, i))
       [] OTHER -> Token("unknown", 1)

\* line_add_token, unless the flags skip tokens of this kind.
Added(t, rest, skip) ==
  IF skip /\ t.kind \in {"space", "newline"} THEN rest
  ELSE [rest EXCEPT !.tokens = <<t>> \o @]


\* tokenize_line_with_flags: the tokens that it adds to the line, and the
\* state of *in_block_comment for the next one.
TokenizeLine(s, inBlock, skip, preproc) ==
  LET from[i \in 0..Len(s), block \in BOOLEAN] ==
        LET From(t) == Added(t, from[i + Len(t.text), t.inBlock], skip)
        IN IF i >= Len(s) THEN [tokens |-> <<>>, inBlock |-> block]
           ELSE From(TokenAt(s, i, block))
  IN IF ~inBlock /\ preproc /\ StartsPreprocessor(s)
     THEN [tokens |-> <<[kind |-> "preproc", offset |-> 0, inBlock |-> FALSE,
                         text |-> s]>>, inBlock |-> FALSE]
     ELSE from[0, inBlock]

\* tokenize, with the default flags.
Tokens(s) == TokenizeLine(s, FALSE, FALSE, FALSE).tokens

\* line_reserve_tokens: doubled until need fits.
Grown(capacity, need) ==
  IF need <= capacity THEN capacity
  ELSE LET base == IF capacity > 0 THEN capacity ELSE Initial
       IN Min({c \in {base * 2^k : k \in 0..need} : c >= need})

\* The capacity that the calls of line_add_token leave.
Capacity(count) == FoldLeft(Grown, 0, [k \in 1..count |-> k])

-----------------------------------------------------------------------------
(* Documents, of meta_parse.c *)

\* parse_text_with_flags: a line ends with its newline; the last one may have
\* none.
LinesOf(s) ==
  LET lines[i \in 1..Len(s) + 1] ==
        IF i > Len(s) THEN <<>>
        ELSE LET end == Min({j \in i..Len(s) : j = Len(s) \/ s[j] = "LF"})
             IN <<SubSeq(s, i, end)>> \o lines[end + 1]
  IN lines[1]

\* document_add_line, and the loop over the lines: the tokens of the next one,
\* and the comment that is open after it. parse_c_text gives no flag and
\* parse_text preproc.
ParseText(s, skip, preproc) ==
  LET AddLine(document, line) ==
        LET r == TokenizeLine(line, document.inBlock, skip, preproc)
        IN [inBlock |-> r.inBlock, lines |-> Append(document.lines, r.tokens)]
  IN FoldLeft(AddLine, [inBlock |-> FALSE, lines |-> <<>>], LinesOf(s))

-----------------------------------------------------------------------------
(* Questions *)

Trivia == {"space", "newline", "comment"}

\* tokenization_next_significant and tokenization_previous_significant, from
\* the index of a token in 0..Len(tokens) - 1.
NextSignificant(tokens, index) ==
  Min({k \in index + 1..Max({index + 1, Len(tokens)}) :
         k >= Len(tokens) \/ tokens[k + 1].kind \notin Trivia})

PreviousSignificant(tokens, index) ==
  Max({k \in -1..index - 1 : k = -1 \/ tokens[k + 1].kind \notin Trivia})

\* tokenization_logical_line_start_offset: back over the newlines that have a
\* backslash before them, or a backslash and a carriage return.
LineStart(s, offset) ==
  LET start[i \in 0..Len(s)] ==
        LET newline  == Max({j \in -1..i - 1 : j = -1 \/ At(s, j) = "LF"})
            previous == IF newline >= 1 /\ At(s, newline - 1) = "CR"
                        THEN newline - 2 ELSE newline - 1
        IN IF newline < 0 \/ previous < 0 \/ At(s, previous) # "BS" THEN newline + 1
           ELSE IF previous = 0 THEN 0 ELSE start[previous]
  IN start[offset]

\* tokenization_is_in_preprocessor_define
InDefine(s, tokens, index) ==
  LET n == Len(tokens)
      Skipped(k) == Min({j \in k..Max({k, n}) :
                           j >= n \/ tokens[j + 1].kind \notin {"space", "comment"}})
      Is(k, t) == k < n /\ tokens[k + 1].text = t
      begin == LineStart(s, tokens[index + 1].offset)
      first == Min({n} \cup {k \in 0..n - 1 :
                      begin < tokens[k + 1].offset + Len(tokens[k + 1].text)})
      hash == Skipped(first)
  IN Is(hash, <<"#">>) /\ Is(Skipped(hash + 1), <<"D">>)

Closing(open) == CASE open = <<"(">> -> <<")">> [] open = <<"[">> -> <<"]">>
                   [] open = <<"{">> -> <<"}">> [] OTHER -> <<>>

\* tokenization_find_matching: where the depth comes back to zero, or -1.
FindMatching(tokens, open) ==
  LET close == Closing(tokens[open + 1].text)
      walk[i \in 0..Len(tokens), depth \in 0..Len(tokens)] ==
        CASE i = Len(tokens) -> -1
          [] tokens[i + 1].text = tokens[open + 1].text -> walk[i + 1, depth + 1]
          [] tokens[i + 1].text = close ->
               IF depth = 1 THEN i ELSE walk[i + 1, depth - 1]
          [] OTHER -> walk[i + 1, depth]
  IN IF close = <<>> THEN -1 ELSE walk[open, 0]

-----------------------------------------------------------------------------
Init == text = <<>>

Next == Len(text) < MaxLen /\ \E c \in Chars : text' = text \o <<c>>

Spec == Init /\ [][Next]_text

-----------------------------------------------------------------------------
(* Properties *)

\* The capacity holds the tokens and was not doubled for nothing; the size
\* free_line_tokens gives back is the one that was reserved.
TypeOK ==
  /\ text \in Seq(Chars)
  /\ \A count \in {Len(Tokens(text))} :
        /\ Capacity(count) >= count
        /\ Capacity(count) \in {0} \cup {Initial * 2^k : k \in 0..count}
        /\ Capacity(count) > Initial => Capacity(count) < 2 * count

\* What C makes of each character of a text, read one at a time with every
\* backslash-newline taken out first: its class, and the state it is read in.
\* A mark of two characters is seen across the lines that are joined.
ReadAsC(s) ==
  LET Joined(i) == At(s, i) = "BS" /\ At(s, i + 1) = "LF"
      after[i \in 1..Len(s)] == IF Joined(i) THEN after[i + 2] ELSE At(s, i)
      Within(state) ==
        CASE state[1] \in {"quote", "escape"} -> "literal"
          [] state[1] \in {"open", "block", "close", "line", "mark"} -> "comment"
          [] OTHER -> "code"
      Read(acc, i) ==
        LET c == At(s, i)
            next == IF i + 1 < Len(s) THEN after[i + 1] ELSE "NUL"
            To(class, state) == [class |-> Append(acc.class, class), state |-> state,
                                 states |-> Append(acc.states, acc.state)]
        IN CASE Joined(i) -> To(Within(acc.state), acc.state)
             [] i > 0 /\ Joined(i - 1) ->
                  To(IF Within(acc.state) = "literal" THEN "literal" ELSE "newline", acc.state)
             [] acc.state[1] = "escape" -> To("literal", <<"quote", acc.state[2]>>)
             [] acc.state[1] = "quote" /\ c = "BS" -> To("literal", <<"escape", acc.state[2]>>)
             [] acc.state[1] = "quote" /\ c = acc.state[2] -> To("literal", <<"code">>)
             [] acc.state[1] = "quote" /\ c # "LF" -> To("literal", acc.state)
             [] acc.state[1] = "open" -> To("comment", <<"block">>)
             [] acc.state[1] = "close" -> To("comment", <<"code">>)
             [] acc.state[1] = "mark" -> To("comment", <<"line">>)
             [] c = "LF" ->
                  To("newline", IF acc.state[1] = "block" THEN acc.state ELSE <<"code">>)
             [] acc.state[1] = "line" -> To("comment", acc.state)
             [] acc.state[1] = "block" ->
                  To("comment", IF c = "*" /\ next = "/" THEN <<"close">> ELSE acc.state)
             [] c = "/" /\ next = "/" -> To("comment", <<"mark">>)
             [] c = "/" /\ next = "*" -> To("comment", <<"open">>)
             [] c \in Quotes -> To("literal", <<"quote", c>>)
             [] OTHER -> To("code", <<"code">>)
      read == FoldLeft(Read, [class |-> <<>>, state |-> <<"code">>, states |-> <<>>],
                       [i \in 1..Len(s) |-> i - 1])
  IN [class |-> read.class,
      joined |-> {read.states[i + 1][1] : i \in {j \in 0..Len(s) - 1 : Joined(j)}}]

\* Every character is in a comment, in a literal or in neither as C has it, and
\* every newline that no literal took is a token: neither quotes in comments nor
\* comment marks in literals mislead the scanners. The scanners do not join
\* lines, so this is not claimed where C reads on over a backslash-newline that
\* they stop at: in a // comment, after another backslash in a literal, and
\* between the two characters of a comment mark.
CommentsAndLiterals ==
  LET OfToken(t) ==
        [k \in 1..Len(t.text) |->
           IF t.kind \in {"comment", "literal", "newline"} THEN t.kind ELSE "code"]
      Flat(tokens) == FlattenSeq([k \in 1..Len(tokens) |-> OfToken(tokens[k])])
  IN \A c \in {ReadAsC(text)} :
       c.joined \subseteq {"code", "quote", "block"} => Flat(Tokens(text)) = c.class

Seen(tokens) == [k \in 1..Len(tokens) |-> <<tokens[k].kind, tokens[k].text>>]

\* The lines of a document, with the flag carried from each to the next, have
\* the tokens of the whole text, or those that are not skipped, unless a
\* literal takes a newline with a backslash.
LinesAddUp ==
  LET Crosses(t) == t.kind = "literal" /\ \E j \in 1..Len(t.text) : t.text[j] = "LF"
      Kept(t) == t.kind \notin {"space", "newline"}
  IN \A whole \in {Tokens(text)} :
       (\A k \in 1..Len(whole) : ~Crosses(whole[k])) =>
         /\ Seen(FlattenSeq(ParseText(text, FALSE, FALSE).lines)) = Seen(whole)
         /\ Seen(FlattenSeq(ParseText(text, TRUE, FALSE).lines))
              = Seen(SelectSeq(whole, Kept))

\* parse_text takes each directive as one token and the other lines as
\* parse_c_text does, comments that go on for several lines included, up to the
\* first directive that leaves a comment open: its state is lost there, and
\* nothing is claimed of what follows.
DirectivesAreLines ==
  LET lines == LinesOf(text)
      c     == ParseText(text, FALSE, FALSE).lines
      pre   == ParseText(text, FALSE, TRUE).lines
      InBlock(k) == ParseText(FlattenSeq(SubSeq(lines, 1, k)), FALSE, FALSE).inBlock
      Directive(k) == StartsPreprocessor(lines[k]) /\ ~InBlock(k - 1)
      Opens(k) == Directive(k) /\ InBlock(k)
  IN /\ Len(pre) = Len(lines)
     /\ \A k \in 1..Len(lines) : (\A j \in 1..k - 1 : ~Opens(j)) =>
          IF Directive(k) THEN Seen(pre[k]) = <<<<"preproc", lines[k]>>>>
          ELSE Seen(pre[k]) = Seen(c[k])

\* A token means the same alone: whatever stands around it, each token that is
\* not the rest of a comment is cut out of the text as a whole.
TokensStandAlone ==
  \A tokens \in {Tokens(text)} :
    \A k \in 1..Len(tokens) :
       (k = 1 \/ ~tokens[k - 1].inBlock) =>
         \A alone \in {Tokens(tokens[k].text)} :
           Len(alone) = 1 /\ alone[1].kind = tokens[k].kind

\* A closing token that is found has as many closing as opening ones before it
\* and no token before has; none is found only where there is none.
MatchIsBalanced ==
  \A tokens \in {Tokens(text)} :
  LET Count(from, to, t) == Cardinality({k \in from..to : tokens[k + 1].text = t})
      Balanced(open, k) ==
        LET t == tokens[open + 1].text
        IN Count(open, k, t) = Count(open, k, Closing(t))
  IN \A open \in {k \in 0..Len(tokens) - 1 : Closing(tokens[k + 1].text) # <<>>} :
       \A found \in {FindMatching(tokens, open)} :
          /\ found >= 0 => Balanced(open, found)
          /\ \A k \in open..Len(tokens) - 1 :
               Balanced(open, k) => found >= 0 /\ found <= k

\* A token is in a #define if the logical line it stands on, the backslashes
\* with their newlines taken out, begins with # and define, after spaces and
\* comments; every line that a backslash joins gives the same answer.
DefineIsOfTheLine ==
  LET Joins(i) == \/ At(text, i) = "LF" /\ i > 0 /\ At(text, i - 1) = "BS"
                  \/ /\ At(text, i) = "LF" /\ i > 1 /\ At(text, i - 1) = "CR"
                     /\ At(text, i - 2) = "BS"
      SameLine(i, j) ==
        \A k \in Min({i, j})..Max({i, j}) - 1 : At(text, k) = "LF" => Joins(k)
      Begins(i) == Min({j \in 0..i : SameLine(j, i)})
  IN \A tokens \in {Tokens(text)} :
     \A a \in 0..Len(tokens) - 1 :
       /\ LineStart(text, tokens[a + 1].offset) = Begins(tokens[a + 1].offset)
       /\ \A b \in a..Len(tokens) - 1 :
            SameLine(tokens[a + 1].offset, tokens[b + 1].offset) =>
              InDefine(text, tokens, a) = InDefine(text, tokens, b)

\* From any token the next and the previous significant tokens are found, with
\* only trivia between, and back from the next comes no later than here.
SignificantAreNeighbours ==
  \A tokens \in {Tokens(text)} :
     \A k \in 0..Len(tokens) - 1 :
       LET next == NextSignificant(tokens, k)
           back == PreviousSignificant(tokens, next)
       IN /\ \A j \in k + 1..next - 1 : tokens[j + 1].kind \in Trivia
          /\ back <= k /\ (tokens[k + 1].kind \notin Trivia => back = k)
=============================================================================
