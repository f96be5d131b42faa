--------------------------------- MODULE MCXml ---------------------------------
(***************************************************************************)
(* The XML parser on small documents: every piece of content alone and     *)
(* after the pieces whose ends matter, every kind of declaration, and a    *)
(* document that breaks off anywhere.  A piece is a text, the events it    *)
(* stands for and whether it is well formed; of one that is not, the       *)
(* events are those before what is wrong.                                  *)
(***************************************************************************)
EXTENDS XmlReader

Piece(text, evs) == [text |-> text, events |-> evs, good |-> TRUE]
Wrong(text, evs) == [text |-> text, events |-> evs, good |-> FALSE]
Inert(text) == Piece(text, <<>>)
T(text) == <<[kind |-> "text", name |-> <<>>, what |-> text]>>
S(name) == <<StartEvent(<<name>>, <<>>)>>
E(name) == <<EndEvent(<<name>>)>>
B(atts) == <<StartEvent(<<"b">>, atts), EndEvent(<<"b">>)>>
Att(name, value) == [name |-> <<name>>, value |-> value]

\* Events one after the other: texts that meet are one.
Join(before, after) ==
  IF before # <<>> /\ after # <<>> /\ Last(before).kind = "text" /\ Head(after).kind = "text"
  THEN Front(before) \o T(Last(before).what \o Head(after).what) \o Tail(after)
  ELSE before \o after

Then(p, q) == [text |-> p.text \o q.text,
               events |-> IF p.good THEN Join(p.events, q.events) ELSE p.events,
               good |-> p.good /\ q.good]

Element(content) == Then(Piece(<<"<", "e", ">">>, S("e")), Then(content, Piece(<<"<", "/", "e", ">">>, E("e"))))
Small == Piece(<<"<", "e", "/", ">">>, S("e") \o E("e"))

-----------------------------------------------------------------------------
(* Content *)

\* What may be joined to what follows it.
Joining == {Piece(<<"a">>, T(<<"a">>)), Piece(<<"\r">>, T(<<"\n">>)), Piece(<<"]", "]">>, T(<<"]", "]">>)),
            Piece(<<"c3", "a9">>, T(<<"c3", "a9">>)), Piece(<<"<", "b", "/", ">">>, B(<<>>))}

Texts ==
  {Piece(<<"\r", "\n", "a">>, T(<<"\n", "a">>)),
   Wrong(<<"]", "]", ">">>, <<>>), Wrong(<<"a9">>, <<>>), Wrong(<<"&", "a", "<">>, <<>>),
   Wrong(<<"<", " ", "b", "/", ">">>, <<>>), Wrong(<<"<", "1.0", "/", ">">>, <<>>)}

References ==
  {Piece(<<"&", "lt", ";">>, T(<<"<">>)), Piece(<<"&", "amp", ";", "a", ";">>, T(<<"&", "a", ";">>)),
   Piece(<<"&", "#", "9", "7", ";">>, T(<<"a">>)), Piece(<<"&", "#", "x", "e", "9", ";">>, T(<<"c3", "a9">>)),
   Piece(<<"&", "#", "1", "3", ";">>, T(<<"\r">>)),
   Wrong(<<"&", "#", "5", ";">>, <<>>), Wrong(<<"&", "#", "x", "d", "8", "0", "0", ";">>, <<>>),
   Wrong(<<"&", "#", "1", "1", "1", "4", "1", "1", "2", ";">>, <<>>), Wrong(<<"&", "#", ";">>, <<>>),
   Wrong(<<"&", "#", "x", ";">>, <<>>), Wrong(<<"&", "y", ";">>, <<>>), Wrong(<<"&", ";">>, <<>>)}

TagsAndSuch ==
  {Piece(<<"<", "b", " ", ">", "<", "/", "b", " ", ">">>, B(<<>>)),
   Piece(<<"<", "b", " ", "x", "=", "'", "y", "'", "/", ">">>, B(<<Att("x", <<"y">>)>>)),
   Piece(<<"<", "b", " ", "x", " ", "=", " ", "'", "'", " ", "/", ">">>, B(<<Att("x", <<>>)>>)),
   Piece(<<"<", "b", " ", "x", "=", "\"", "a", " ", " ", "'", "\"", " ", "y", "=", "'", "&", "gt", ";", "'", ">", "<", "/", "b", ">">>,
         B(<<Att("x", <<"a", " ", " ", "'">>), Att("y", <<">">>)>>)),
   Piece(<<"<", "b", " ", "x", "=", "'", "\r", "\n", "\t", "&", "#", "9", ";", "'", "/", ">">>,
         B(<<Att("x", <<" ", " ", "\t">>)>>)),
   Wrong(<<"<", "b", " ", "x", "=", "'", "a", "'", " ", "x", "=", "'", "b", "'", "/", ">">>, <<>>),
   Wrong(<<"<", "b", " ", "x", "=", "'", "a", "'", "y", "=", "'", "b", "'", "/", ">">>, <<>>),
   Wrong(<<"<", "b", " ", "x", "=", "'", "a", "'", " ", "x", "=", "'", "a", "'", ">", "<", "/", "b", ">">>, <<>>),
   Wrong(<<"<", "b", " ", "x", "=", "'", "<", "'", "/", ">">>, <<>>),
   Wrong(<<"<", "b", " ", "x", "=", "'", "&", "y", ";", "'", "/", ">">>, <<>>),
   Wrong(<<"<", "b", " ", "x", "=", "'", "&", "#", "5", ";", "'", "/", ">">>, <<>>),
   Wrong(<<"<", "b", " ", "x", "/", ">">>, <<>>), Wrong(<<"<", "b", "/", "e">>, <<>>),
   Wrong(<<"<", "b", ">">>, S("b")), Wrong(<<"<", "/", "b", ">">>, <<>>), Wrong(<<"<", "/", " ", "e", ">">>, <<>>)}

Others ==
  {Inert(<<"<", "!", "-", "-", "a", "-", "-", ">">>), Inert(<<"<", "?", "p", " ", "?", "a", "?", ">">>),
   Inert(<<"<", "?", "p", "?", ">">>),
   Piece(<<"<", "!", "[", "CDATA", "[", "a", "]", "]", "]", "]", ">">>, T(<<"a", "]", "]">>)),
   Piece(<<"<", "!", "[", "CDATA", "[", "<", "&", "\r", "\n", "c3", "a9", "]", "]", ">">>, T(<<"<", "&", "\n", "c3", "a9">>)),
   Wrong(<<"<", "!", "[", "CDATA", "[", "a", "]", ">">>, T(<<"a", "]", ">", "<", "/", "e", ">">>)),
   Wrong(<<"<", "!", "[", "CDATA", "[", "a9">>, <<>>),
   Wrong(<<"<", "!", "[", "A", "[">>, <<>>), Wrong(<<"<", "!", "-", "-", "a", "-", "-", "a", "-", "-", ">">>, <<>>),
   Wrong(<<"<", "!", "-", "-", "a9", "-", "-", ">">>, <<>>),
   Wrong(<<"<", "?", "XML", "?", ">">>, <<>>), Wrong(<<"<", "?", "xml", " ", "?", ">">>, <<>>),
   Wrong(<<"<", "?", "?", ">">>, <<>>), Wrong(<<"<", "!", "ENTITY">>, <<>>)}

Pieces == Joining \cup Texts \cup References \cup TagsAndSuch \cup Others

Contents == {Inert(<<>>)} \cup Pieces \cup {Then(p, q) : p \in Joining, q \in Pieces}
              \cup {Then(q, Piece(<<"]">>, T(<<"]">>))) : q \in {o \in Others : o.good}}

Epilogues ==
  {Inert(<<"\r">>), Inert(<<" ", "\n">>), Inert(<<"<", "!", "-", "-", "-", "a", "-", "-", ">">>),
   Inert(<<"\r", "\n", "<", "?", "p", " ", "?", ">">>),
   Wrong(<<"a">>, <<>>), Wrong(<<"<", "b", "/", ">">>, <<>>), Wrong(<<"<", "!", "-">>, <<>>), Wrong(<<"c3">>, <<>>),
   Wrong(<<"&">>, <<>>), Wrong(<<"<", "!", "DOCTYPE", " ", "e", ">">>, <<>>), Wrong(<<"\"">>, <<>>)}

\* A document that breaks off: most of it is right.
Whole1 == Element(Then(Piece(<<"\r", "\n", "]">>, T(<<"\n", "]">>)),
                  Then(Piece(<<"<", "b", " ", "x", "=", "'", "&", "#", "9", "7", ";", "'", "/", ">">>, B(<<Att("x", <<"a">>)>>)),
                       Piece(<<"<", "!", "[", "CDATA", "[", "c3", "a9", "]", "]", ">">>, T(<<"c3", "a9">>)))))
BrokenOff == {[Whole1 EXCEPT !.text = SubSeq(@, 1, n), !.good = FALSE] : n \in 0 .. Len(Whole1.text) - 1}
               \cup {Wrong(<<"<", "e", ">", "\r">>, S("e") \o T(<<"\n">>)), Wrong(<<"<", "e", ">", "]">>, S("e") \o T(<<"]">>)),
                    Wrong(<<"<", "e", ">", "c3">>, S("e")), Wrong(<<"c3">>, <<>>)}

-----------------------------------------------------------------------------
(* Declarations *)

Doctype1(inside) == <<"<", "!", "DOCTYPE", " ", "e", "[">> \o inside \o <<"]", ">">>
Entity1(name, value) == <<"<", "!", "ENTITY", " ", name, " ", "'">> \o value \o <<"'", ">">>
Attlist1(rest) == <<"<", "!", "ATTLIST", " ", "b", " ">> \o rest \o <<">">>
Element1(rest) == <<"<", "!", "ELEMENT", " ", "b", " ">> \o rest \o <<">">>
Notation1(rest) == <<"<", "!", "NOTATION", " ", "p", " ">> \o rest \o <<">">>
Ref(name) == <<"&", name, ";">>

\* Declarations that change nothing, in the subset.
GoodSubsets ==
  {<<>>, <<" ", "\r", "\n", "%", "p", ";">>, <<"<", "!", "-", "-", "a", "-", "-", ">", "<", "?", "p", "?", ">">>,
   <<"<", "!", "ENTITY", " ", "%", " ", "p", " ", "'", "a", "'", ">">>,
   <<"<", "!", "ENTITY", " ", "%", " ", "p", " ", "SYSTEM", " ", "'", "a", "'", ">">>,
   <<"<", "!", "ENTITY", " ", "%", " ", "p", " ", "PUBLIC", " ", "'", "a", "'", " ", "'", "b", "'", ">">>,
   <<"<", "!", "ENTITY", " ", "x", " ", "PUBLIC", " ", "'", "a", "'", " ", "'", "b", "'", " ", "NDATA", " ", "p", ">">>}
  \cup {Element1(c) : c \in {<<"EMPTY">>, <<"ANY">>, <<"(", "#", "PCDATA", ")">>, <<"(", "#", "PCDATA", ")", "*">>,
          <<"(", "#", "PCDATA", "|", "a", "|", "b", ")", "*">>, <<"(", "a", "*", ",", "b", "?", ")", "+">>,
          <<"(", "(", "a", "|", "b", ")", ",", "(", "d", ")", "?", ")">>, <<"(", "a", "|", "(", "(", "b", "+", ")", ")", "*", ")">>}}
  \cup {Notation1(c) : c \in {<<"SYSTEM", " ", "'", "a", "'">>, <<"PUBLIC", " ", "'", "a", "'">>, <<"PUBLIC", " ", "'", "a", "'", " ", "'", "b", "'">>}}

BadSubsets ==
  {<<"a">>, <<"<", "!", "DOCTYPE", " ">>, <<"<", "!", "ENTITY", ">">>, <<"]", "]", ">">>, <<"<", "!", "[">>, <<"'", "a", "'">>,
   <<"<", "!", "ENTITY", " ", "x", " ", "PUBLIC", " ", "'", "<", "'", " ", "'", "b", "'", ">">>,
   <<"<", "!", "ENTITY", " ", "x", " ", "SYSTEM", " ", "'", "b", "'", " ", "a", ">">>,
   <<"<", "!", "ENTITY", "%", "p", ";", "x">>, <<"<", "!", "ENTITY", " ", "%", "p", " ">>, <<"<", "!", "ENTITY", "+">>,
   <<"<", "?", "xml", " ", "version", "=", "'", "1.0", "'", "?", ">">>, <<"<", "!", "ATTLIST", " ", "%", "p", ";">>}
  \cup {Entity1("x", v) : v \in {<<"%", "p", ";">>, <<"&">>, <<"&", "#", "5", ";">>, <<"%">>}}
  \cup {Element1(c) : c \in {<<"(", "a", ",", "b", "|", "d", ")">>, <<"(", "a", "|", "b", ",", "d", ")">>, <<"(", ")">>, <<"a">>,
          <<"(", "#", "EMPTY", ")">>, <<"(", "#", "PCDATA", "|", "a", ")">>, <<"(", "a", ")", ")">>,
          <<"(", "(", "a", ",", "b", ")", "|", "d", ",", "a", ")">>, <<"(", "a", ")", "a">>, <<"a", "'">>}}
  \cup {Notation1(c) : c \in {<<"a">>, <<"SYSTEM", ">">>}}
  \cup {Attlist1(c) : c \in {<<"x", " ", "a">>, <<"x", " ", "CDATA", " ", "#", "a">>, <<"x", " ", "CDATA", ">">>,
          <<"x", " ", "(", "a", ",", "b", ")">>, <<"x", " ", "CDATA", " ", "'", "<", "'">>, <<"x", " ", "CDATA", " ", "'", "&", "y", ";", "'">>}}

\* Declarations with the content that uses them.
Uses(subset, content) ==
  Then(Inert(Doctype1(subset)), Element(content))

WithEntities ==
  {Uses(Entity1("x", <<"a">>), Piece(Ref("x") \o <<"b">>, T(<<"a", "b">>))),
   Uses(Entity1("x", <<"<", "b", "/", ">">>), Piece(Ref("x"), B(<<>>))),
   Uses(Entity1("x", <<"&", "#", "6", "0", ";", "b", "/", ">">>), Piece(Ref("x"), B(<<>>))),
   Uses(Entity1("x", <<"&", "lt", ";", "\r">>), Piece(Ref("x") \o <<"\n">>, T(<<"<", "\n", "\n">>))),
   Uses(Entity1("x", <<"&", "#", "1", "3", ";">>), Piece(Ref("x") \o <<"\n">>, T(<<"\n", "\n">>))),
   Uses(Entity1("x", <<"a", "]">>), Piece(Ref("x") \o <<"]", ">">>, T(<<"a", "]", "]", ">">>))),
   Uses(Entity1("x", <<"<", "!", "[", "CDATA", "[", "<", "]", "]", ">">>), Piece(Ref("x"), T(<<"<">>))),
   Uses(Entity1("x", <<"<", "b", ">">>), Wrong(Ref("x") \o <<"<", "/", "b", ">">>, S("b"))),
   Uses(Entity1("x", <<"<", "b", ">", "]">>), Wrong(Ref("x"), S("b") \o T(<<"]">>))),
   Uses(Entity1("x", <<"<", "b", ">", "&", "#", "1", "3", ";">>), Wrong(Ref("x"), S("b") \o T(<<"\n">>))),
   Uses(Entity1("x", <<"<", "/", "e", ">">>), Wrong(Ref("x"), <<>>)),
   Uses(Entity1("x", <<"<", "/", "b">>), Wrong(Ref("x"), <<>>)),
   Uses(Entity1("x", <<"<", "!", "[", "CDATA", "[", "a">>), Wrong(Ref("x"), T(<<"a">>))),
   Uses(Entity1("x", Ref("x")), Wrong(Ref("x"), <<>>)),
   Uses(Entity1("x", <<"a">>) \o Entity1("x", <<"b">>), Piece(Ref("x"), T(<<"a">>))),
   Uses(Entity1("x", <<"a">>) \o <<"<", "!", "ENTITY", " ", "x", " ", "SYSTEM", " ", "'", "a", "'", " ", "NDATA", " ", "p", ">">>,
        Piece(Ref("x"), T(<<"a">>))),
   Uses(Entity1("lt", <<"b">>), Piece(Ref("lt"), T(<<"<">>))),
   Uses(Entity1("x", Ref("y")) \o Entity1("y", <<"<", "b", "/", ">">>), Piece(Ref("x") \o Ref("y"), B(<<>>) \o B(<<>>))),
   Uses(Entity1("x", Ref("y")) \o Entity1("y", <<"a">> \o Ref("x")), Wrong(Ref("x"), T(<<"a">>))),
   Uses(<<"<", "!", "ENTITY", " ", "x", " ", "SYSTEM", " ", "'", "a", "'", ">">>, Inert(Ref("x"))),
   Uses(<<"<", "!", "ENTITY", " ", "x", " ", "SYSTEM", " ", "'", "a", "'", " ", "NDATA", " ", "p", ">">>, Wrong(Ref("x"), <<>>)),
   Uses(<<"%", "p", ";">> \o Entity1("x", <<"a">>), Piece(Ref("x") \o <<"b">>, T(<<"b">>)))}

WithValues ==
  {Uses(Entity1("x", <<"a", "\r", "'">>), Wrong(Ref("x"), <<>>)),
   Uses(Entity1("x", <<"a", "\n">>), Piece(<<"<", "b", " ", "x", "=", "'">> \o Ref("x") \o <<"'", "/", ">">>, B(<<Att("x", <<"a", " ">>)>>))),
   Uses(Entity1("x", <<"&", "#", "6", "0", ";">>), Wrong(<<"<", "b", " ", "x", "=", "'">> \o Ref("x") \o <<"'", "/", ">">>, <<>>)),
   Uses(Entity1("x", Ref("x")), Wrong(<<"<", "b", " ", "x", "=", "'">> \o Ref("x") \o <<"'", "/", ">">>, <<>>)),
   Uses(Entity1("x", <<"<", "b", " ", "y", "=", "'", "a", "'", "/", ">">>), Wrong(<<>>, <<>>)),
   Uses(Entity1("x", <<"<", "b", " ", "y", "=", "\"">> \o Ref("x") \o <<"\"", "/", ">">>), Wrong(Ref("x"), <<>>)),
   Uses(<<"<", "!", "ENTITY", " ", "x", " ", "SYSTEM", " ", "'", "a", "'", ">">>,
        Wrong(<<"<", "b", " ", "x", "=", "'">> \o Ref("x") \o <<"'", "/", ">">>, <<>>)),
   Uses(<<"<", "!", "ENTITY", " ", "x", " ", "SYSTEM", " ", "'", "a", "'", " ", "NDATA", " ", "p", ">">>,
        Wrong(<<"<", "b", " ", "x", "=", "'">> \o Ref("x") \o <<"'", "/", ">">>, <<>>)),
   Uses(Attlist1(<<"x", " ", "CDATA", " ", "'", "a", " ", " ", "'">>), Piece(<<"<", "b", "/", ">">>, B(<<Att("x", <<"a", " ", " ">>)>>))),
   Uses(Attlist1(<<"x", " ", "CDATA", " ", "'", "a", "'">>), Piece(<<"<", "b", " ", "x", "=", "'", "b", "'", "/", ">">>, B(<<Att("x", <<"b">>)>>))),
   Uses(Attlist1(<<"x", " ", "NMTOKEN", " ", "#", "FIXED", " ", "'", " ", "a", "'">>), Piece(<<"<", "b", "/", ">">>, B(<<Att("x", <<"a">>)>>))),
   Uses(Attlist1(<<"x", " ", "NMTOKEN", " ", "#", "IMPLIED">>),
        Piece(<<"<", "b", " ", "x", "=", "'", " ", "a", " ", " ", "b", " ", "'", "/", ">">>, B(<<Att("x", <<"a", " ", "b">>)>>))),
   Uses(Attlist1(<<"x", " ", "(", "a", "|", "1.0", ")", " ", "#", "REQUIRED">>), Piece(<<"<", "b", "/", ">">>, B(<<>>))),
   Uses(Attlist1(<<"x", " ", "NOTATION", " ", "(", "a", "|", "p", ")", " ", "'", "a", "'">>), Piece(<<"<", "b", "/", ">">>, B(<<Att("x", <<"a">>)>>))),
   Uses(Attlist1(<<"x", " ", "CDATA", " ", "'", "a", "'", " ", "x", " ", "CDATA", " ", "'", "b", "'">>), Piece(<<"<", "b", "/", ">">>, B(<<Att("x", <<"a">>)>>))),
   Uses(<<"%", "p", ";">> \o Attlist1(<<"x", " ", "NMTOKEN", " ", "#", "IMPLIED">>),
        Piece(<<"<", "b", " ", "x", "=", "'", "a", " ", " ", "'", "/", ">">>, B(<<Att("x", <<"a", " ", " ">>)>>))),
   Uses(<<"%", "p", ";">> \o Attlist1(<<"x", " ", "CDATA", " ", "'", "a", "'">>), Piece(<<"<", "b", " ", "y", "=", "'">> \o Ref("y") \o <<"'", "/", ">">>, B(<<Att("y", <<>>)>>)))}

\* Everything up to the document element.
GoodProlog ==
  {<<>>, <<" ", "\r">>, <<"<", "!", "-", "-", "-", "a", "-", "-", ">">>, <<"<", "?", "p", "?", ">", "\n">>,
   <<"<", "?", "xml", " ", "version", "=", "'", "1.0", "'", "?", ">">>,
   <<"<", "?", "xml", " ", "version", " ", "=", "\"", "1.0", "\"", " ", "encoding", "=", "'", "UTF-8", "'", " ", "?", ">">>,
   <<"<", "?", "xml", " ", "version", "=", "'", "1.0", "'", " ", "standalone", "=", "'", "no", "'", "?", ">">>,
   <<"<", "!", "DOCTYPE", " ", "e", ">", "<", "?", "p", "?", ">">>, <<"<", "!", "DOCTYPE", " ", "e", " ", "SYSTEM", " ", "'", "a", "'", ">">>,
   <<"<", "!", "DOCTYPE", " ", "e", " ", "PUBLIC", " ", "'", "a", "'", " ", "'", "a", "'", "[", "]", " ", ">">>}
  \cup {Doctype1(s) : s \in GoodSubsets}

BadProlog ==
  {<<"a">>, <<"&">>, <<"<", "/">>, <<"c3">>, <<"<", "!", "ENTITY", " ">>, <<" ", "<", "?", "xml", " ", "version", "=", "'", "1.0", "'", "?", ">">>,
   <<"<", "?", "xml", "?", ">">>, <<"<", "?", "xml", " ", "version", "=", "'", "1.0", "'", " ", "a", "?", ">">>,
   <<"<", "?", "xml", " ", "version", "=", "'", "1.0", "'", " ", "standalone", "=", "'", "a", "'", "?", ">">>,
   <<"<", "?", "xml", " ", "standalone", "=", "'", "no", "'", "?", ">">>,
   <<"<", "?", "xml", " ", "version", "=", "'", "1.0", "'", " ", "encoding", "=", "'", "UTF-16", "'", "?", ">">>,
   <<"<", "?", "xml", " ", "version", "=", "'", "1.0", "'", " ", "encoding", "=", "'", "UTF-16BE", "'", "?", ">">>,
   <<"<", "?", "xml", " ", "version", "=", "'", "1.0", "'", " ", "encoding", "=", "'", "1.0", "'", "?", ">">>,
   <<"<", "!", "DOCTYPE", " ", "e", " ", "PUBLIC", " ", "'", "&", "'", " ", "'", "a", "'", ">">>, <<"<", "!", "DOCTYPE", " ", "e", " ", "e", ">">>,
   <<"<", "!", "DOCTYPE", " ", "e", ">", "<", "!", "DOCTYPE", " ", "e", ">">>, <<"<", "!", "DOCTYPE", " ", "%", "p", ";">>}
  \cup {Doctype1(s) : s \in BadSubsets}

\* A DTD elsewhere, or a parameter entity, may declare what is used, unless the
\* document stands alone.
Elsewhere ==
  {Then(Inert(<<"<", "!", "DOCTYPE", " ", "e", " ", "SYSTEM", " ", "'", "a", "'", ">">>), Element(Inert(Ref("y")))),
   Then(Inert(<<"<", "?", "xml", " ", "version", "=", "'", "1.0", "'", " ", "encoding", "=", "'", "UTF-8", "'", " ", "standalone", "=", "'", "yes", "'", "?", ">",
                "<", "!", "DOCTYPE", " ", "e", "[", "%", "p", ";", "]", ">">>), Element(Wrong(Ref("y"), <<>>)))}

MCDocuments ==
  {Element(c) : c \in Contents} \cup {Then(Small, p) : p \in Epilogues} \cup BrokenOff
    \cup WithEntities \cup WithValues \cup Elsewhere
    \cup {Then(Inert(p), Small) : p \in GoodProlog} \cup {Then(Wrong(p, <<>>), Small) : p \in BadProlog}
=============================================================================
