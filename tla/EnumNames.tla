------------------------------ MODULE EnumNames ------------------------------
(***************************************************************************)
(* The names of enumerations that xenums.c generates: str, str_free and    *)
(* parse, for bit flags and for plain enumerations. An enumeration is      *)
(* declared field by field; each prefix of the declaration is examined.    *)
(*                                                                         *)
(* A name is an identifier with or without ENUM_PREFIX_; a flag's value is *)
(* the set of its bits, so that & is \cap, | is \cup and & ~ is \.         *)
(***************************************************************************)
EXTENDS Naturals, Sequences, SequencesExt, FiniteSetsExt

CONSTANTS Ids,         \* the names after the prefix
          NameLengths, \* the length of each
          MaxFields,   \* longest declaration
          PrefixLen    \* length of ENUM_PREFIX_

\* QUOTE(ENUM_PREFIX_) "NONE" and "LAST": names that every enumeration has.
NoneName == 101
LastName == 102

EnumAssumption ==
  /\ Ids \subseteq Nat \ {0, NoneName, LastName}
  /\ NameLengths \in [Ids -> Nat]
  /\ MaxFields \in Nat /\ PrefixLen \in Nat

\* A token of a text: with the prefix, or without it.
Tokens == [full : BOOLEAN, id : Ids \cup {NoneName, LastName}]

NoAlias == [full |-> FALSE, id |-> 0]

VARIABLES bitflags,   \* ENUM_BITFLAGS
          fields      \* ENUM_FIELDS: identifiers, values and parse aliases

vars == <<bitflags, fields>>

BitCount == Cardinality({i \in DOMAIN fields : fields[i].single})

AllBits == 0..BitCount - 1

NameLength(id) == IF id \in {NoneName, LastName} THEN 4 ELSE NameLengths[id]

-----------------------------------------------------------------------------
(* Declarations *)

Init == bitflags \in BOOLEAN /\ fields = <<>>

Fresh(id) == \A i \in DOMAIN fields : fields[i].id # id

Declared(id, value, alias, single) ==
  fields' = Append(fields, [id |-> id, value |-> value, alias |-> alias, single |-> single])

\* X(e) with ENUM_BITFLAGS: the next bit.
AddBit(id) ==
  bitflags /\ Fresh(id) /\ Declared(id, {BitCount}, NoAlias, TRUE)

\* X(e, v): "Only use compositions of previous enum values there", and no two
\* names have one value.
AddComposition(id, S) ==
  LET v == UNION {fields[i].value : i \in S}
  IN /\ bitflags /\ Fresh(id)
     /\ v # {} /\ \A i \in DOMAIN fields : fields[i].value # v
     /\ Declared(id, v, NoAlias, FALSE)

\* X(e) and X(e, alias) without ENUM_BITFLAGS: the next number; an alias is
\* a word of its own.
AddNumber(id, alias) ==
  /\ ~bitflags /\ Fresh(id)
  /\ alias.id # 0 => \A i \in DOMAIN fields : fields[i].alias # alias /\ fields[i].id # alias.id
  /\ \A i \in DOMAIN fields : fields[i].alias.id # id
  /\ alias.id # id
  /\ Declared(id, {Len(fields)}, alias, FALSE)

Next ==
  /\ Len(fields) < MaxFields
  /\ UNCHANGED bitflags
  /\ \E id \in Ids :
       \/ AddBit(id)
       \/ \E S \in SUBSET DOMAIN fields : AddComposition(id, S)
       \/ AddNumber(id, NoAlias)
       \/ \E a \in Ids : AddNumber(id, [full |-> FALSE, id |-> a])

Spec == Init /\ [][Next]_vars

-----------------------------------------------------------------------------
(* str *)

FullName(id) == [full |-> TRUE, id |-> id]

\* xstrdup: a block of the length and one.
Duplicate(token, length) == [left |-> {}, names |-> <<token>>, len |-> length, cap |-> length + 1]

\* XENUM(e): the block grows for the name, a separator and the NUL.
Spelled(acc, f) ==
  IF acc.left # {} /\ acc.left \cap f.value = f.value
  THEN LET separator == IF acc.names = <<>> THEN 0 ELSE 1
           length == acc.len + separator + PrefixLen + NameLength(f.id)
       IN [left  |-> acc.left \ f.value,
           names |-> Append(acc.names, FullName(f.id)),
           len   |-> length,
           cap   |-> length + 1]
  ELSE acc

\* str of bit flags; bits are left where the code stops with TRAP().
Str(v) ==
  LET exact == {i \in DOMAIN fields : fields[i].value = v}
      id    == fields[Min(exact)].id
  IN CASE v = {} -> Duplicate([full |-> FALSE, id |-> NoneName], NameLength(NoneName))
       [] v # {} /\ exact # {} -> Duplicate(FullName(id), PrefixLen + NameLength(id))
       [] OTHER -> FoldLeft(Spelled, [left |-> v, names |-> <<>>, len |-> 0, cap |-> 0], fields)

\* str of a number: a literal of the program, or "Invalid enum value".
StrNumber(n) ==
  CASE n < Len(fields) -> FullName(fields[n + 1].id)
    [] n = Len(fields) -> FullName(LastName)
    [] OTHER -> NoAlias

\* The bytes that str_free gives back.
StrFreed(s) == s.len + 1

-----------------------------------------------------------------------------
(* parse *)

TokenEquals(token, name) == token = name

TokenEqualsEnumName(token, id) ==
  TokenEquals(token, FullName(id)) \/ TokenEquals(token, [full |-> FALSE, id |-> id])

\* The fields a token names; the first one counts. A number may have an alias.
Matches(token) ==
  {i \in DOMAIN fields : \/ TokenEqualsEnumName(token, fields[i].id)
                         \/ ~bitflags /\ TokenEquals(token, fields[i].alias)}

\* Mutant: a flag replaces those before it.
ParseToken_Assigns(result, token) ==
  CASE result.trap -> result
    [] ~result.trap /\ TokenEqualsEnumName(token, NoneName) /\ bitflags -> result
    [] ~result.trap /\ TokenEqualsEnumName(token, LastName) /\ ~bitflags -> [trap |-> FALSE, value |-> {Len(fields)}]
    [] OTHER -> IF Matches(token) = {} THEN [trap |-> TRUE, value |-> {}]
                ELSE [trap |-> FALSE, value |-> fields[Min(Matches(token))].value]

\* One turn of parse: flags add up, the last number stays.
ParseToken(result, token) ==
  CASE result.trap -> result
    [] ~result.trap /\ bitflags /\ TokenEqualsEnumName(token, NoneName) -> result
    [] ~result.trap /\ ~bitflags /\ TokenEqualsEnumName(token, LastName) ->
         [trap |-> FALSE, value |-> {Len(fields)}]
    [] OTHER ->
         IF Matches(token) = {} THEN [trap |-> TRUE, value |-> {}]
         ELSE [trap  |-> FALSE,
               value |-> fields[Min(Matches(token))].value \cup (IF bitflags THEN result.value ELSE {})]

Parse(text) == FoldLeft(ParseToken, [trap |-> FALSE, value |-> {}], text)

\* The text of another writer: each name in the short form.
Shortened(text) == [i \in DOMAIN text |-> [text[i] EXCEPT !.full = FALSE]]

-----------------------------------------------------------------------------
(* Properties *)

TypeOK ==
  /\ bitflags \in BOOLEAN
  /\ \A i \in DOMAIN fields :
       /\ fields[i].id \in Ids
       /\ fields[i].value \subseteq IF bitflags THEN AllBits ELSE Nat
       /\ fields[i].alias \in Tokens \cup {NoAlias}
       /\ fields[i].single \in BOOLEAN

\* What str writes of any flags, parse reads as those flags, with or without
\* the prefix.
FlagsComeBack ==
  bitflags => \A v \in SUBSET AllBits :
    LET s == Str(v)
    IN /\ s.left = {}
       /\ Parse(s.names) = [trap |-> FALSE, value |-> v]
       /\ Parse(Shortened(s.names)) = [trap |-> FALSE, value |-> v]

\* No bit is named twice, and a name is written only of flags that are set;
\* TRAP() is for bits that no field has.
NamesAreOfTheFlags ==
  bitflags => \A v \in SUBSET (AllBits \cup {BitCount}) :
    LET s == Str(v)
        named == {f \in Range(fields) : \E i \in DOMAIN s.names : s.names[i] = FullName(f.id)}
    IN /\ \A f \in named : f.value \subseteq v
       /\ \A f, g \in named : f # g => f.value \cap g.value = {}
       /\ (s.left # {}) = (BitCount \in v)

\* The text fits its block with the NUL, and str_free gives back the size
\* that the block has: free2 of the debug build compares it.
TextFitsItsBlock ==
  bitflags => \A v \in SUBSET AllBits : Str(v).len < Str(v).cap /\ StrFreed(Str(v)) = Str(v).cap

\* A number is read back from its name, from the short name and from its
\* alias; the name of no other field takes them.
NumbersComeBack ==
  ~bitflags => \A n \in 0..Len(fields) :
    LET name == StrNumber(n)
        read == [trap |-> FALSE, value |-> {n}]
    IN /\ Parse(<<name>>) = read
       /\ Parse(Shortened(<<name>>)) = read
       /\ n < Len(fields) /\ fields[n + 1].alias # NoAlias => Parse(<<fields[n + 1].alias>>) = read
       /\ \A m \in 0..Len(fields) : Parse(<<StrNumber(m), name>>) = read

=============================================================================
