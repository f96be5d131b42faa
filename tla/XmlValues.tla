------------------------------- MODULE XmlValues -------------------------------
(***************************************************************************)
(* What the XML parser makes of the text inside a token: names, character  *)
(* numbers, attributes, the values of entities and attributes, and the     *)
(* XML declaration (xmltok_impl.c, xmltok.c and xmlparse.c).               *)
(*                                                                         *)
(* entities is the table of general entities: from a name to its kind,     *)
(* "internal", "external" or "unparsed", and its text.                     *)
(***************************************************************************)
EXTENDS Integers, SequencesExt, XmlTokens

From(s, i) == SubSeq(s, i, Len(s))

-----------------------------------------------------------------------------
(* Names and numbers *)

NameAtom(text, i) == text[i] \in NameChars \/ (i > 1 /\ text[i - 1] = Lead)

\* The name that starts at i: nameLength atoms of it.
NameAt(text, i) ==
  LET last == CHOOSE j \in i .. Len(text) : /\ \A k \in i .. j : NameAtom(text, k)
                                            /\ j = Len(text) \/ ~NameAtom(text, j + 1)
  IN SubSeq(text, i, last)

\* The only word of a name, if that is all there is to it.
WordOf(name) == IF Len(name) = 1 THEN name[1] ELSE "other"

Predefined == [name \in {"lt", "gt", "amp", "quot", "apos"} |->
                 CASE name = "lt" -> "<" [] name = "gt" -> ">" [] name = "amp" -> "&"
                   [] name = "quot" -> "\"" [] name = "apos" -> "'"]

IsPredefined(name) == WordOf(name) \in DOMAIN Predefined

DigitValue == [c \in Digits \cup HexLetters |->
  CASE c = "0" -> 0 [] c = "1" -> 1 [] c = "2" -> 2 [] c = "3" -> 3 [] c = "4" -> 4
    [] c = "5" -> 5 [] c = "6" -> 6 [] c = "7" -> 7 [] c = "8" -> 8 [] c = "9" -> 9
    [] c \in {"a", "A"} -> 10 [] c \in {"b", "B"} -> 11 [] c = "d" -> 13 [] c = "e" -> 14]

TooLarge == 1114112

\* The number written in a character reference; it stops growing when it is too
\* large, so that it cannot overflow.
CharRefNumber(ref) ==
  LET first == IF ref[3] = "x" THEN 4 ELSE 3
      base == IF ref[3] = "x" THEN 16 ELSE 10
      value[i \in (first - 1) .. Len(ref)] ==
        IF i = first - 1 THEN 0
        ELSE IF value[i - 1] >= TooLarge THEN TooLarge
        ELSE value[i - 1] * base + DigitValue[ref[i]]
  IN value[Len(ref) - 1]

\* checkCharRefNumber: control characters, halves of pairs and 0xFFFE, 0xFFFF are
\* no characters.
IsCharacter(n) == /\ n < TooLarge
                  /\ n >= 32 \/ n \in {9, 10, 13}
                  /\ n \notin 55296 .. 57343 \cup {65534, 65535}

\* XmlUtf8Encode, for the characters of the alphabet.
Encoded(n) ==
  CASE n = 9 -> <<"\t">> [] n = 10 -> <<"\n">> [] n = 13 -> <<"\r">> [] n = 32 -> <<" ">>
    [] n = 34 -> <<"\"">> [] n = 38 -> <<"&">> [] n = 39 -> <<"'">> [] n = 60 -> <<"<">>
    [] n = 62 -> <<">">> [] n = 97 -> <<"a">> [] n = 98 -> <<"b">> [] n = 233 -> <<Lead, Trail>>

SkipS(text) ==
  LET words == {i \in 1 .. Len(text) : text[i] \notin Space}
  IN IF words = {} THEN <<>> ELSE From(text, CHOOSE i \in words : \A j \in words : i <= j)

IsPublicId(literal) ==
  \A i \in 2 .. Len(literal) - 1 :
    literal[i] \in Letters \cup Digits
                     \cup {" ", "\n", "\r", "-", "'", "(", ")", "+", ",", "/", "=", "?", ";", "!", "*", "%", "#"}

-----------------------------------------------------------------------------
(* The attributes of a start tag, as they are written *)

NoTagRead == [st |-> "name", lead |-> FALSE, open |-> "", name |-> 0, value |-> 0,
              normalized |-> TRUE, atts |-> <<>>]

Attribute(tag, m, i) ==
  [name |-> NameAt(tag, m.name), value |-> SubSeq(tag, m.value, i - 1), normalized |-> m.normalized]

\* A blank that has to be looked at again: all but one of a run, one at either end,
\* and every one that is not a space.
Disturbs(tag, m, i) ==
  i = m.value \/ tag[i] # " " \/ tag[i + 1] = " " \/ tag[i + 1] = m.open

TagCharacter(tag, m, i, c) ==
  CASE c \in NameStart /\ m.st = "other" ->
         [m EXCEPT !.st = "name", !.name = i, !.normalized = TRUE, !.lead = (c = Lead)]
    [] c \in NameStart /\ m.st # "other" -> [m EXCEPT !.lead = (c = Lead)]
    [] c \in Quotes /\ m.st # "value" -> [m EXCEPT !.st = "value", !.open = c, !.value = i + 1]
    [] c \in Quotes /\ m.st = "value" /\ c = m.open ->
         [m EXCEPT !.st = "other", !.atts = Append(@, Attribute(tag, m, i))]
    [] c = "&" -> [m EXCEPT !.normalized = FALSE]
    [] c \in Space /\ m.st = "name" -> [m EXCEPT !.st = "other"]
    [] c \in {" ", "\t"} /\ m.st = "value" -> [m EXCEPT !.normalized = @ /\ ~Disturbs(tag, m, i)]
    [] c \in {"\n", "\r"} /\ m.st = "value" -> [m EXCEPT !.normalized = FALSE]
    [] OTHER -> m

TagAtom(tag, m, i) ==
  IF m.lead THEN [m EXCEPT !.lead = FALSE] ELSE TagCharacter(tag, m, i, tag[i])

GetAtts(tag) ==
  LET read[i \in 1 .. Len(tag)] == IF i = 1 THEN NoTagRead ELSE TagAtom(tag, read[i - 1], i)
  IN read[Len(tag)].atts

-----------------------------------------------------------------------------
(* Values *)

\* A value being put together: its text up to now, the texts still to be read, the
\* innermost last, each with the entity it belongs to (<<>> for the value itself).
Value(text) == [out |-> <<>>, texts |-> <<[of |-> <<>>, text |-> text]>>, error |-> ""]

\* A value that needs no more than copying.
Given(text) == [out |-> text, texts |-> <<>>, error |-> ""]

Rest(v, n) == [v EXCEPT !.texts[Len(v.texts)].text = From(@, n + 1)]
Adds(v, n, atoms) == [Rest(v, n) EXCEPT !.out = @ \o atoms]
Refuses(v, error) == [v EXCEPT !.error = error]
OpenIn(v) == {v.texts[i].of : i \in 1 .. Len(v.texts)}

\* A blank in a value that is no character data adds nothing after another blank.
AddsBlank(v, n, isCdata) ==
  IF ~isCdata /\ (v.out = <<>> \/ Last(v.out) = " ") THEN Rest(v, n) ELSE Adds(v, n, <<" ">>)

AddsNumber(v, n, number, isCdata) ==
  CASE ~IsCharacter(number) -> Refuses(v, "BAD_CHAR_REF")
    [] number = 32          -> AddsBlank(v, n, isCdata)
    [] OTHER                -> Adds(v, n, Encoded(number))

\* A reference to an entity in a value of an attribute.  In text whose declarations
\* were not all read an unknown one stands for nothing.
Refers(v, n, name, entities, complete, open) ==
  CASE IsPredefined(name) -> Adds(v, n, <<Predefined[WordOf(name)]>>)
    [] ~IsPredefined(name) /\ name \notin DOMAIN entities ->
         IF complete THEN Refuses(v, "UNDEFINED_ENTITY") ELSE Rest(v, n)
    [] /\ ~IsPredefined(name) /\ name \in DOMAIN entities
       /\ name \in open \cup OpenIn(v) -> Refuses(v, "RECURSIVE_ENTITY_REF")
    [] OTHER ->
         CASE entities[name].kind = "unparsed" -> Refuses(v, "BINARY_ENTITY_REF")
           [] entities[name].kind = "external" -> Refuses(v, "ATTRIBUTE_EXTERNAL_ENTITY_REF")
           [] entities[name].kind = "internal" ->
                [Rest(v, n) EXCEPT !.texts = Append(@, [of |-> name, text |-> entities[name].text])]

AttributeToken(v, t, text, isCdata, entities, complete, open) ==
  CASE t.tok = "NONE" -> [v EXCEPT !.texts = Front(@)]
    [] t.tok \in {"INVALID", "PARTIAL"} -> Refuses(v, "INVALID_TOKEN")
    [] t.tok = "CHAR_REF" -> AddsNumber(v, t.n, CharRefNumber(SubSeq(text, 1, t.n)), isCdata)
    [] t.tok = "DATA_CHARS" -> Adds(v, t.n, SubSeq(text, 1, t.n))
    [] t.tok = "TRAILING_CR" -> AddsBlank(v, 1, isCdata)
    [] t.tok \in {"ATTRIBUTE_VALUE_S", "DATA_NEWLINE"} -> AddsBlank(v, t.n, isCdata)
    [] t.tok = "ENTITY_REF" -> Refers(v, t.n, SubSeq(text, 2, t.n - 1), entities, complete, open)

Values == [out : Seq(STRING), texts : Seq([of : Seq(STRING), text : Seq(STRING)]), error : STRING]

\* appendAttributeValue: with the entities in open, which is where the tag is.
AppendAttributeValue(text, isCdata, entities, complete, open) ==
  LET add[v \in Values] ==
        IF v.texts = <<>> \/ v.error # "" THEN v
        ELSE add[AttributeToken(v, Token("att value", Last(v.texts).text), Last(v.texts).text,
                                isCdata, entities, complete, open)]
  IN add[Value(text)]

\* storeAttributeValue: a blank at the end goes, too.
Trimmed(v, isCdata) ==
  IF v.error = "" /\ ~isCdata /\ v.out # <<>> /\ Last(v.out) = " " THEN [v EXCEPT !.out = Front(@)] ELSE v

StoreAttributeValue(text, isCdata, entities, complete, open) ==
  Trimmed(AppendAttributeValue(text, isCdata, entities, complete, open), isCdata)

\* Parameter entities are not looked into in the internal subset.
EntityToken(v, t, text) ==
  CASE t.tok = "NONE" -> [v EXCEPT !.texts = <<>>]
    [] t.tok = "PARAM_ENTITY_REF" -> Refuses(v, "SYNTAX")
    [] t.tok \in {"INVALID", "PARTIAL"} -> Refuses(v, "INVALID_TOKEN")
    [] t.tok \in {"ENTITY_REF", "DATA_CHARS"} -> Adds(v, t.n, SubSeq(text, 1, t.n))
    [] t.tok = "TRAILING_CR" -> Adds(v, 1, <<"\n">>)
    [] t.tok = "DATA_NEWLINE" -> Adds(v, t.n, <<"\n">>)
    [] t.tok = "CHAR_REF" -> AddsNumber(v, t.n, CharRefNumber(SubSeq(text, 1, t.n)), TRUE)

StoreEntityValue(text) ==
  LET add[v \in Values] ==
        IF v.texts = <<>> \/ v.error # "" THEN v
        ELSE add[EntityToken(v, Token("entity value", Last(v.texts).text), Last(v.texts).text)]
  IN add[Value(text)]

-----------------------------------------------------------------------------
(* The XML declaration *)

Nothing == [ok |-> TRUE, name |-> "", value |-> "", rest |-> <<>>]
Malformed == [ok |-> FALSE, name |-> "", value |-> "", rest |-> <<>>]

\* name = "value", each one word or the value none, after a blank; or nothing but blanks.
ValueRead(name, quoted) ==
  CASE Len(quoted) >= 2 /\ quoted[1] \in Quotes /\ quoted[2] = quoted[1] ->
         [ok |-> TRUE, name |-> name, value |-> "", rest |-> From(quoted, 3)]
    [] /\ Len(quoted) >= 3 /\ quoted[1] \in Quotes /\ quoted[3] = quoted[1]
       /\ quoted[2] \in NameChars \ {Lead} ->
         [ok |-> TRUE, name |-> name, value |-> quoted[2], rest |-> From(quoted, 4)]
    [] OTHER -> Malformed

AfterName(name, equals) ==
  IF name # "=" /\ equals # <<>> /\ equals[1] = "=" THEN ValueRead(name, SkipS(From(equals, 2)))
  ELSE Malformed

ParsePseudoAttribute(text) ==
  LET words == SkipS(text)
  IN CASE words = <<>> -> Nothing
       [] words # <<>> /\ text[1] \notin Space -> Malformed
       [] OTHER -> AfterName(words[1], SkipS(From(words, 2)))

\* encoding: "" when none is named.
Declares(encoding, standalone) == [ok |-> TRUE, encoding |-> encoding, standalone |-> standalone]
Undeclared == [ok |-> FALSE, encoding |-> "", standalone |-> FALSE]

Standalone(att, encoding) ==
  IF /\ att.ok /\ att.name = "standalone" /\ att.value \in {"yes", "no"}
     /\ SkipS(att.rest) = <<>>
  THEN Declares(encoding, att.value = "yes")
  ELSE Undeclared

\* An encoding starts with a letter.
AfterVersion(att) ==
  IF att.name = "encoding"
  THEN LET next == ParsePseudoAttribute(att.rest)
       IN IF att.value \in Digits \cup {"-", "1.0", ""} \/ ~next.ok THEN Undeclared
          ELSE IF next = Nothing THEN Declares(att.value, FALSE)
          ELSE Standalone(next, att.value)
  ELSE Standalone(att, "")

\* doParseXmlDecl, of the text between <?xml and ?>.
ParseXmlDecl(text) ==
  LET version == ParsePseudoAttribute(text)
      next == ParsePseudoAttribute(version.rest)
  IN CASE ~version.ok \/ version.name # "version" \/ ~next.ok -> Undeclared
       [] version.ok /\ version.name = "version" /\ next = Nothing -> Declares("", FALSE)
       [] OTHER -> AfterVersion(next)
=============================================================================
