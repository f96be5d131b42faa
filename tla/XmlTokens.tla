-------------------------------- MODULE XmlTokens --------------------------------
(***************************************************************************)
(* The scanners of the bundled XML parser (src/lib/expat/xmltok), as one   *)
(* machine that reads a text atom by atom: every state is a place in one   *)
(* of the functions of xmltok_impl.c.  An atom is a byte, or a word of     *)
(* letters that is read as a whole; "c3" leads a character of two bytes,   *)
(* "a9" ends one.  Encodings are UTF-8 or read as it.                      *)
(*                                                                         *)
(* A scanner returns a token and its length.  When the text ends first,    *)
(* what it returns is the business of AtEnd; a token with a "-" before it  *)
(* would be that token if nothing followed.                                *)
(***************************************************************************)
EXTENDS Naturals, Sequences

Space == {" ", "\t", "\n", "\r"}
Digits == {"0", "1", "2", "3", "4", "5", "6", "7", "8", "9"}
Trail == "a9"
Lead == "c3"
Upper == {"CDATA", "DOCTYPE", "ENTITY", "ATTLIST", "ELEMENT", "NOTATION", "SYSTEM",
          "PUBLIC", "NDATA", "IMPLIED", "REQUIRED", "FIXED", "PCDATA", "EMPTY", "ANY",
          "NMTOKEN", "XML", "A", "B"}
Letters == Upper \cup {"a", "b", "d", "e", "k", "p", "x", "y", "lt", "gt", "amp", "quot", "apos", "xml",
                       "version", "encoding", "standalone", "yes", "no"}
HexLetters == {"a", "A", "b", "B", "d", "e"}
NameStart == Letters \cup {Lead}
NameChars == NameStart \cup Digits \cup {"-", "1.0", "UTF-8", "UTF-16", "UTF-16BE"}
Quotes == {"\"", "'"}

\* The machine: its state, the quote that opened a value or literal, the word of a
\* processing instruction, the token found, and the atoms read up to now.
Machine(st) == [st |-> st, quote |-> "", word |-> "", tok |-> "", n |-> 0, lead |-> FALSE]

\* The atom read belongs to the token, which goes on.
To(m, st) == [m EXCEPT !.st = st, !.n = @ + 1]
\* It is the last one of the token, or the token ended back atoms before it.
Got(m, tok) == [m EXCEPT !.tok = tok, !.n = @ + 1]
Before(m, tok, back) == [m EXCEPT !.tok = tok, !.n = @ - back]
Invalid(m) == Before(m, "INVALID", 0)

-----------------------------------------------------------------------------
(* References *)

\* A reference is a token of its own, or part of a value.
Referred(m, tok) == IF m.quote = "" THEN Got(m, tok) ELSE To(m, "value")

ScanHexCharRef(m, c) ==
  CASE c \in Digits \cup HexLetters       -> To(m, "&#x9")
    [] c = ";" /\ m.st = "&#x9"           -> Referred(m, "CHAR_REF")
    [] OTHER                              -> Invalid(m)

ScanCharRef(m, c) ==
  CASE c = "x" /\ m.st = "&#"             -> To(m, "&#x")
    [] c \in Digits                       -> To(m, "&#9")
    [] c = ";" /\ m.st = "&#9"            -> Referred(m, "CHAR_REF")
    [] OTHER                              -> Invalid(m)

ScanRef(m, c) ==
  CASE m.st = "&" /\ c \in NameStart      -> To(m, "&name")
    [] m.st = "&" /\ c = "#"              -> To(m, "&#")
    [] m.st = "&name" /\ c \in NameChars  -> To(m, "&name")
    [] m.st = "&name" /\ c = ";"          -> Referred(m, "ENTITY_REF")
    [] m.st \in {"&#", "&#9"}             -> ScanCharRef(m, c)
    [] m.st \in {"&#x", "&#x9"}           -> ScanHexCharRef(m, c)
    [] OTHER                              -> Invalid(m)

-----------------------------------------------------------------------------
(* Comments, processing instructions and declarations *)

ScanComment(m, c) ==
  CASE m.st = "<!-" /\ c = "-"            -> To(m, "comment")
    [] m.st = "comment" /\ c = "-"        -> To(m, "comment-")
    [] m.st = "comment-" /\ c = "-"       -> To(m, "comment--")
    [] m.st = "comment--" /\ c = ">"      -> Got(m, "COMMENT")
    [] m.st \in {"comment", "comment-"} /\ c \notin {"-", Trail} -> To(m, "comment")
    [] OTHER                              -> Invalid(m)

\* checkPiTarget: xml alone is the target of a declaration, in capitals of nothing.
CheckPiTarget(m, st) == IF m.word = "XML" THEN Invalid(m) ELSE To(m, st)
PiToken(m) == IF m.word = "xml" THEN "XML_DECL" ELSE "PI"

ScanPi(m, c) ==
  CASE m.st = "<?" /\ c \in NameStart     -> [To(m, "target") EXCEPT !.word = c]
    [] m.st = "target" /\ c \in NameChars -> [To(m, "target") EXCEPT !.word = "other"]
    [] m.st = "target" /\ c \in Space     -> CheckPiTarget(m, "pi")
    [] m.st = "target" /\ c = "?"         -> CheckPiTarget(m, "target?")
    [] m.st \in {"target?", "pi?"} /\ c = ">" -> Got(m, PiToken(m))
    [] m.st \in {"pi", "pi?"} /\ c = "?"  -> To(m, "pi?")
    [] m.st \in {"pi", "pi?"} /\ c \notin {"?", ">", Trail} -> To(m, "pi")
    [] m.st = "pi" /\ c = ">"             -> To(m, "pi")
    [] OTHER                              -> Invalid(m)

ScanDecl(m, c) ==
  CASE m.st = "decl!" /\ c = "-"          -> To(m, "<!-")
    [] m.st = "decl!" /\ c = "["          -> Got(m, "COND_SECT_OPEN")
    [] m.st \in {"decl!", "decl"} /\ c \in Letters -> To(m, "decl")
    [] m.st = "decl" /\ c \in Space       -> Before(m, "DECL_OPEN", 0)
    [] m.st = "decl" /\ c = "%"           -> To(m, "decl%")
    [] m.st = "decl%" /\ c \notin Space \cup {"%"} -> Before(m, "DECL_OPEN", 1)
    [] OTHER                              -> Invalid(m)

-----------------------------------------------------------------------------
(* Content *)

\* Six bytes are waited for, and then compared.
ScanCdataSection(m, c) ==
  CASE m.st = "<![" -> To(m, IF c = "CDATA" THEN "<![CDATA" ELSE "<![no")
    [] m.st = "<![CDATA" /\ c = "["       -> Got(m, "CDATA_SECT_OPEN")
    [] OTHER                              -> Invalid(m)

ScanEndTag(m, c) ==
  CASE m.st = "</" /\ c \in NameStart     -> To(m, "</name")
    [] m.st = "</name" /\ c \in NameChars -> To(m, "</name")
    [] m.st \in {"</name", "</name_"} /\ c \in Space -> To(m, "</name_")
    [] m.st \in {"</name", "</name_"} /\ c = ">" -> Got(m, "END_TAG")
    [] OTHER                              -> Invalid(m)

\* From the first letter of an attribute name on.
ScanAtts(m, c) ==
  CASE m.st = "att" /\ c \in NameChars    -> To(m, "att")
    [] m.st \in {"att", "att_"} /\ c \in Space -> To(m, "att_")
    [] m.st \in {"att", "att_"} /\ c = "=" -> To(m, "att=")
    [] m.st = "att=" /\ c \in Space       -> To(m, "att=")
    [] m.st = "att=" /\ c \in Quotes      -> [To(m, "value") EXCEPT !.quote = c]
    [] m.st = "value" /\ c = m.quote      -> [To(m, "value.") EXCEPT !.quote = ""]
    [] m.st = "value" /\ c = "&"          -> To(m, "&")
    [] m.st = "value" /\ c \notin {"<", "&", m.quote, Trail} -> To(m, "value")
    [] m.st \in {"value.", "value._"} /\ c \in Space -> To(m, "value._")
    [] m.st \in {"value.", "value._"} /\ c = "/" -> To(m, "value./")
    [] m.st \in {"value.", "value._"} /\ c = ">" -> Got(m, "START_TAG_WITH_ATTS")
    [] m.st = "value._" /\ c \in NameStart -> To(m, "att")
    [] m.st = "value./" /\ c = ">"        -> Got(m, "EMPTY_ELEMENT_WITH_ATTS")
    [] OTHER                              -> Invalid(m)

AfterLt == [x \in {"!", "?", "/"} |-> CASE x = "!" -> "<!" [] x = "?" -> "<?" [] x = "/" -> "</"]

ScanLt(m, c) ==
  CASE m.st = "<" /\ c \in NameStart      -> To(m, "tag")
    [] m.st = "<" /\ c \in DOMAIN AfterLt -> To(m, AfterLt[c])
    [] m.st = "<!" /\ c = "-"             -> To(m, "<!-")
    [] m.st = "<!" /\ c = "["             -> To(m, "<![")
    [] m.st = "tag" /\ c \in NameChars    -> To(m, "tag")
    [] m.st \in {"tag", "tag_"} /\ c \in Space -> To(m, "tag_")
    [] m.st \in {"tag", "tag_"} /\ c = ">" -> Got(m, "START_TAG_NO_ATTS")
    [] m.st \in {"tag", "tag_"} /\ c = "/" -> To(m, "tag/")
    [] m.st = "tag_" /\ c \in NameStart   -> To(m, "att")
    [] m.st = "tag/" /\ c = ">"           -> Got(m, "EMPTY_ELEMENT_NO_ATTS")
    [] OTHER                              -> Invalid(m)

\* The rest of some character data, up to what cannot be part of it.
MoreData(m, c) ==
  CASE c \in {"&", "<", "\n", "\r", Trail} -> Before(m, "DATA_CHARS", 0)
    [] c = "]"                             -> To(m, "data]")
    [] OTHER                               -> To(m, "data")

\* Mutant: a carriage return at the end of the buffer is a line end already.
ContentTokEager(m, c) ==
  CASE m.st = "content" /\ c \in {"<", "&"} -> To(m, c)
    [] m.st = "content" /\ c \in {"\r", "\n"} -> Got(m, "DATA_NEWLINE")
    [] m.st = "content" /\ c = "]"        -> To(m, "]")
    [] m.st = "content" /\ c = Trail      -> Invalid(m)
    [] m.st = "content" /\ c \notin {"<", "&", "\r", "\n", "]", Trail} -> To(m, "data")
    [] m.st \in {"]]", "data]]"} /\ c = ">" -> Invalid(m)
    [] m.st = "]" /\ c = "]"              -> To(m, "]]")
    [] m.st \in {"data]", "data]]", "]]"} /\ c = "]" -> To(m, "data]]")
    [] OTHER                              -> MoreData(m, c)

\* contentTok: "]]>" is not allowed in data, a CR and LF are one line end, and
\* neither may be missed because the text stops within it.
ContentTok(m, c) ==
  CASE m.st = "content" /\ c \in {"<", "&"} -> To(m, c)
    [] m.st = "content" /\ c = "\r"       -> To(m, "CR")
    [] m.st = "content" /\ c = "\n"       -> Got(m, "DATA_NEWLINE")
    [] m.st = "content" /\ c = "]"        -> To(m, "]")
    [] m.st = "content" /\ c = Trail      -> Invalid(m)
    [] m.st = "content" /\ c \notin {"<", "&", "\r", "\n", "]", Trail} -> To(m, "data")
    [] m.st \in {"]]", "data]]"} /\ c = ">" -> Invalid(m)
    [] m.st = "]" /\ c = "]"              -> To(m, "]]")
    [] m.st \in {"data]", "data]]", "]]"} /\ c = "]" -> To(m, "data]]")
    [] OTHER                              -> MoreData(m, c)

\* The second character of a line end, if there is one.
AfterCR(m, c) == IF c = "\n" THEN Got(m, "DATA_NEWLINE") ELSE Before(m, "DATA_NEWLINE", 0)

CdataSectionTok(m, c) ==
  CASE m.st = "cdata" /\ c = "\r"         -> To(m, "cdata CR")
    [] m.st = "cdata" /\ c = "\n"         -> Got(m, "DATA_NEWLINE")
    [] m.st = "cdata" /\ c = "]"          -> To(m, "cdata]")
    [] m.st = "cdata" /\ c = Trail        -> Invalid(m)
    [] m.st = "cdata]" /\ c = "]"         -> To(m, "cdata]]")
    [] m.st = "cdata]]" /\ c = ">"        -> Got(m, "CDATA_SECT_CLOSE")
    [] m.st = "cdata]]" /\ c # ">"        -> Before(m, "DATA_CHARS", 1)
    [] m.st \in {"cdata]", "cdata data"} /\ c \in {"\r", "\n", Trail} -> Before(m, "DATA_CHARS", 0)
    [] m.st = "cdata data" /\ c = "]"     -> Before(m, "DATA_CHARS", 0)
    [] OTHER                              -> To(m, "cdata data")

-----------------------------------------------------------------------------
(* Values *)

AttributeValueTok(m, c) ==
  CASE c = "<"                            -> Invalid(m)
    [] m.st = "att value" /\ c = "&"      -> To(m, "&")
    [] m.st = "att value" /\ c = "\n"     -> Got(m, "DATA_NEWLINE")
    [] m.st = "att value" /\ c = "\r"     -> To(m, "CR")
    [] m.st = "att value" /\ c \in {" ", "\t"} -> Got(m, "ATTRIBUTE_VALUE_S")
    [] m.st = "att data" /\ c \in Space \cup {"&"} -> Before(m, "DATA_CHARS", 0)
    [] OTHER                              -> To(m, "att data")

ScanPercent(m, c) ==
  CASE m.st = "%" /\ c \in NameStart      -> To(m, "%name")
    [] m.st = "%" /\ c \in Space \cup {"%"} -> Before(m, "PERCENT", 0)
    [] m.st = "%name" /\ c \in NameChars  -> To(m, "%name")
    [] m.st = "%name" /\ c = ";"          -> Got(m, "PARAM_ENTITY_REF")
    [] OTHER                              -> Invalid(m)

EntityValueTok(m, c) ==
  CASE m.st = "entity value" /\ c \in {"&", "%"} -> To(m, c)
    [] m.st = "entity value" /\ c = "\n"  -> Got(m, "DATA_NEWLINE")
    [] m.st = "entity value" /\ c = "\r"  -> To(m, "CR")
    [] m.st = "entity data" /\ c \in {"&", "%", "\n", "\r"} -> Before(m, "DATA_CHARS", 0)
    [] OTHER                              -> To(m, "entity data")

-----------------------------------------------------------------------------
(* The prolog *)

ScanPoundName(m, c) ==
  CASE m.st = "#" /\ c \in NameStart      -> To(m, "#name")
    [] m.st = "#name" /\ c \in NameChars  -> To(m, "#name")
    [] m.st = "#name" /\ c \in Space \cup {")", ">", "%", "|"} -> Before(m, "POUND_NAME", 0)
    [] OTHER                              -> Invalid(m)

ScanLit(m, c) ==
  CASE m.st = "lit" /\ c = m.quote        -> To(m, "lit.")
    [] m.st = "lit" /\ c \notin {m.quote, Trail} -> To(m, "lit")
    [] m.st = "lit." /\ c \in Space \cup {">", "%", "["} -> Before(m, "LITERAL", 0)
    [] OTHER                              -> Invalid(m)

\* A CR at the end is not counted: it may be half of a line end.
PrologSpace(m, c) ==
  CASE c = "\r"                           -> To(m, "space CR")
    [] c \in {" ", "\t", "\n"}            -> To(m, "space")
    [] OTHER                              -> Before(m, "PROLOG_S", 0)

CloseBracket(m, c) ==
  CASE m.st = "prolog]" /\ c = "]"        -> To(m, "prolog]]")
    [] m.st = "prolog]]" /\ c = ">"       -> Got(m, "COND_SECT_CLOSE")
    [] OTHER -> Before(m, "CLOSE_BRACKET", IF m.st = "prolog]]" THEN 1 ELSE 0)

\* A name or a group that may be repeated.
Repeats == {"*", "?", "+"}
RepeatedName(c) == CASE c = "*" -> "NAME_ASTERISK" [] c = "?" -> "NAME_QUESTION" [] c = "+" -> "NAME_PLUS"
RepeatedGroup(c) ==
  CASE c = "*" -> "CLOSE_PAREN_ASTERISK" [] c = "?" -> "CLOSE_PAREN_QUESTION" [] c = "+" -> "CLOSE_PAREN_PLUS"

CloseParen(m, c) ==
  CASE c \in Repeats                      -> Got(m, RepeatedGroup(c))
    [] c \in Space \cup {">", ",", "|", ")"} -> Before(m, "CLOSE_PAREN", 0)
    [] OTHER                              -> Invalid(m)

PrologName(m, c) ==
  CASE c \in NameChars                    -> To(m, m.st)
    [] c \in Space \cup {">", ")", ",", "|", "[", "%"} -> Before(m, m.st, 0)
    [] c \in Repeats /\ m.st = "NAME"     -> Got(m, RepeatedName(c))
    [] OTHER                              -> Invalid(m)

OneCharacter == [x \in {",", "[", "(", "|", ">"} |->
                   CASE x = "," -> "COMMA" [] x = "[" -> "OPEN_BRACKET" [] x = "(" -> "OPEN_PAREN"
                     [] x = "|" -> "OR" [] x = ">" -> "DECL_CLOSE"]

\* prologTok, at the first character of a token.
PrologTok(m, c) ==
  CASE c \in Quotes                       -> [To(m, "lit") EXCEPT !.quote = c]
    [] c = "<"                            -> To(m, "prolog<")
    [] c = "\r"                           -> To(m, "first CR")
    [] c \in {" ", "\t", "\n"}            -> To(m, "space")
    [] c \in {"%", "#"}                   -> To(m, c)
    [] c \in DOMAIN OneCharacter          -> Got(m, OneCharacter[c])
    [] c = "]"                            -> To(m, "prolog]")
    [] c = ")"                            -> To(m, "prolog)")
    [] c \in NameStart                    -> To(m, "NAME")
    [] c \in NameChars \ NameStart        -> To(m, "NMTOKEN")
    [] OTHER                              -> Invalid(m)

PrologLt(m, c) ==
  CASE c = "!"                            -> To(m, "decl!")
    [] c = "?"                            -> To(m, "<?")
    [] c \in NameStart                    -> Before(m, "INSTANCE_START", 1)
    [] OTHER                              -> Invalid(m)

-----------------------------------------------------------------------------
(* The scanners at work *)

Scan(m, c) ==
  CASE m.st \in {"&", "&name", "&#", "&#9", "&#x", "&#x9"} -> ScanRef(m, c)
    [] m.st \in {"<!-", "comment", "comment-", "comment--"} -> ScanComment(m, c)
    [] m.st \in {"<?", "target", "target?", "pi", "pi?"} -> ScanPi(m, c)
    [] m.st \in {"decl!", "decl", "decl%"} -> ScanDecl(m, c)
    [] m.st \in {"<![", "<![CDATA", "<![no"} -> ScanCdataSection(m, c)
    [] m.st \in {"</", "</name", "</name_"} -> ScanEndTag(m, c)
    [] m.st \in {"att", "att_", "att=", "value", "value.", "value._", "value./"} -> ScanAtts(m, c)
    [] m.st \in {"<", "<!", "tag", "tag_", "tag/"} -> ScanLt(m, c)
    [] m.st \in {"content", "]", "]]", "data", "data]", "data]]"} -> ContentTok(m, c)
    [] m.st \in {"CR", "cdata CR"} -> AfterCR(m, c)
    [] m.st \in {"cdata", "cdata]", "cdata]]", "cdata data"} -> CdataSectionTok(m, c)
    [] m.st \in {"att value", "att data"} -> AttributeValueTok(m, c)
    [] m.st \in {"%", "%name"} -> ScanPercent(m, c)
    [] m.st \in {"entity value", "entity data"} -> EntityValueTok(m, c)
    [] m.st \in {"#", "#name"} -> ScanPoundName(m, c)
    [] m.st \in {"lit", "lit."} -> ScanLit(m, c)
    [] m.st \in {"first CR", "space", "space CR"} -> PrologSpace(m, c)
    [] m.st \in {"prolog]", "prolog]]"} -> CloseBracket(m, c)
    [] m.st = "prolog)" -> CloseParen(m, c)
    [] m.st \in {"NAME", "NMTOKEN"} -> PrologName(m, c)
    [] m.st = "prolog" -> PrologTok(m, c)
    [] m.st = "prolog<" -> PrologLt(m, c)

\* One atom, unless the token has been found.  The one after a leading byte belongs
\* to the same character, whatever it is.
ReadAtom(m, c) ==
  CASE m.tok # "" -> m
    [] m.tok = "" /\ m.lead -> [m EXCEPT !.lead = FALSE, !.n = @ + 1]
    [] OTHER -> [Scan(m, c) EXCEPT !.lead = (c = Lead)]

\* Tokens that have only to be followed by something.
Endable == {"PROLOG_S", "CLOSE_BRACKET", "CLOSE_PAREN", "LITERAL", "POUND_NAME", "NAME", "NMTOKEN"}

\* What stands when the text ends before the token does, between two characters or
\* within one.
Ends(m) ==
  CASE m.st \in {"data", "cdata data", "att data", "entity data"} -> [m EXCEPT !.tok = "DATA_CHARS"]
    [] m.st = "data]"                              -> Before(m, "DATA_CHARS", 1)
    [] m.st = "data]]"                             -> Before(m, "DATA_CHARS", 2)
    [] m.st \in {"]", "]]"}                        -> [m EXCEPT !.tok = "TRAILING_RSQB"]
    [] m.st = "CR"                                 -> [m EXCEPT !.tok = "TRAILING_CR"]
    [] m.st = "space"                              -> [m EXCEPT !.tok = "PROLOG_S"]
    [] m.st = "space CR"                           -> Before(m, "PROLOG_S", 1)
    [] m.st = "first CR"                           -> [m EXCEPT !.tok = "-PROLOG_S"]
    [] m.st = "prolog]"                            -> [m EXCEPT !.tok = "-CLOSE_BRACKET"]
    [] m.st = "prolog)"                            -> [m EXCEPT !.tok = "-CLOSE_PAREN"]
    [] m.st = "lit."                               -> [m EXCEPT !.tok = "-LITERAL"]
    [] m.st = "#name"                              -> [m EXCEPT !.tok = "-POUND_NAME"]
    [] m.st = "NAME"                               -> [m EXCEPT !.tok = "-NAME"]
    [] m.st = "NMTOKEN"                            -> [m EXCEPT !.tok = "-NMTOKEN"]
    [] OTHER                                       -> [m EXCEPT !.tok = "PARTIAL"]

EndsWithin(m) ==
  IF m.st \in {"data", "cdata data"} /\ m.n > 1 THEN [m EXCEPT !.tok = "DATA_CHARS", !.n = @ - 1]
  ELSE [m EXCEPT !.tok = "PARTIAL_CHAR"]

AtEnd(m) ==
  CASE m.tok # ""                           -> m
    [] m.tok = "" /\ m.n = 0                -> [m EXCEPT !.tok = "NONE"]
    [] m.tok = "" /\ m.n # 0 /\ m.lead      -> EndsWithin(m)
    [] m.tok = "" /\ m.n # 0 /\ ~m.lead     -> Ends(m)

\* The token at the start of text and its length.
Token(st, text) ==
  LET run[i \in 0 .. Len(text)] ==
        IF i = 0 THEN Machine(st) ELSE ReadAtom(run[i - 1], text[i])
  IN AtEnd(run[Len(text)])
=============================================================================
