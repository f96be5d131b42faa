------------------------------- MODULE XmlReader -------------------------------
(***************************************************************************)
(* The bundled XML parser (src/lib/expat/xmlparse/xmlparse.c) as the HTTP  *)
(* library feeds it: a response arrives in blocks cut anywhere, each block *)
(* is given to XML_Parse, and a last empty one says that there is no more. *)
(* The parser reads token by token and calls back for start tags, end tags *)
(* and character data; whatever it cannot be sure of yet it leaves for the *)
(* next block.  The caller stops after the first error.                    *)
(*                                                                         *)
(* A document is what the server sends: its text in atoms, the events it   *)
(* stands for and whether it is well formed.  A byte order mark, encodings *)
(* other than UTF-8, namespaces and external entities are not modelled.    *)
(***************************************************************************)
EXTENDS XmlValues, XmlRoles

CONSTANT Documents    \* records [text, events, good]

VARIABLES
  doc,        \* the document being received
  fed,        \* how much of it has been given to XML_Parse
  final,      \* and whether the end has been
  running,    \* whether the parser is reading
  processor,  \* "prolog", "content", "cdata", "epilog" or "error"
  error,      \* errorCode, "" for none
  at,         \* how much has been read (s, and bufferPtr between two blocks)
  frames,     \* openInternalEntities, the innermost last: [of, text, level]
  tags,       \* tagStack: the names of the open elements
  events,     \* the callbacks made
  prolog,     \* prologState
  groups,     \* groupConnector, by level
  decl,       \* declEntity and so on: the declaration being read
  dtd         \* what has been declared

xmlVars == <<doc, fed, final, running, processor, error, at, frames, tags, events, prolog,
          groups, decl, dtd>>
input == <<doc, fed, final>>
body == <<frames, tags, events>>
declared == <<prolog, groups, decl, dtd>>

NoDecl == [entity |-> <<>>, element |-> <<>>, attribute |-> <<>>, isCdata |-> FALSE]
NoDtd == [entities |-> [name \in {} |-> <<>>], atts |-> [element \in {} |-> <<>>], tokenized |-> {},
          complete |-> TRUE, standalone |-> FALSE, external |-> FALSE]

\* XML_ParserCreate
XmlInit ==
  /\ doc \in Documents
  /\ fed = 0 /\ final = FALSE /\ running = FALSE
  /\ processor = "prolog" /\ error = "" /\ at = 0
  /\ frames = <<>> /\ tags = <<>> /\ events = <<>>
  /\ prolog = XmlPrologStateInit /\ groups = <<>> /\ decl = NoDecl /\ dtd = NoDtd

\* XML_Parse with the next block.
Parse ==
  /\ ~running /\ ~final /\ error = ""
  /\ \E upto \in fed + 1 .. Len(doc.text) : fed' = upto
  /\ running' = TRUE
  /\ UNCHANGED <<doc, final, processor, error, at, body, declared>>

\* XML_Parse with nothing, for the last time.
Finish ==
  /\ ~running /\ ~final /\ error = "" /\ fed = Len(doc.text)
  /\ final' = TRUE /\ running' = TRUE
  /\ UNCHANGED <<doc, fed, processor, error, at, body, declared>>

-----------------------------------------------------------------------------
(* Reading *)

\* What is left of the text being read: of the innermost entity, or of the document.
Text == IF frames = <<>> THEN SubSeq(doc.text, at + 1, fed) ELSE Last(frames).text

\* Nothing will follow it (nextPtr is null).
Complete == final \/ frames # <<>>

Consume(n) ==
  IF frames = <<>> THEN at' = at + n /\ UNCHANGED frames
  ELSE frames' = [frames EXCEPT ![Len(frames)].text = From(@, n + 1)] /\ UNCHANGED at

\* Back to the caller, with an error or to be called again.
Return(code) ==
  /\ error' = code
  /\ running' = FALSE
  /\ IF code = "" THEN UNCHANGED processor ELSE processor' = "error"

GoOn == UNCHANGED <<running, error>>

\* The level of tags the text being read began at.
StartLevel == IF frames = <<>> THEN 0 ELSE Last(frames).level
OpenEntities == {frames[i].of : i \in 1 .. Len(frames)}

\* Characters next to each other are one event.
WithText(text) ==
  IF events # <<>> /\ Last(events).kind = "text"
  THEN [events EXCEPT ![Len(events)].what = @ \o text]
  ELSE Append(events, [kind |-> "text", name |-> <<>>, what |-> text])
StartEvent(name, atts) == [kind |-> "start", name |-> name, what |-> atts]
EndEvent(name) == [kind |-> "end", name |-> name, what |-> <<>>]

-----------------------------------------------------------------------------
(* Start tags *)

DefaultAtts(element) == IF element \in DOMAIN dtd.atts THEN dtd.atts[element] ELSE <<>>

\* Character data, unless the first declaration of the attribute says otherwise.
IsCdata(element, name) ==
  LET defaults == DefaultAtts(element)
      its == {j \in 1 .. Len(defaults) : defaults[j].name = name}
  IN IF name \in dtd.tokenized /\ its # {}
     THEN defaults[CHOOSE j \in its : \A k \in its : j <= k].isCdata
     ELSE TRUE

SpecifiedValue(element, att) ==
  IF att.normalized THEN Given(att.value)
  ELSE StoreAttributeValue(att.value, IsCdata(element, att.name), dtd.entities, dtd.complete, OpenEntities)

Valued(name, v, again) ==
  [name |-> name, value |-> v.out, error |-> IF again THEN "DUPLICATE_ATTRIBUTE" ELSE v.error]

Specified(element, atts) ==
  [i \in 1 .. Len(atts) |->
     Valued(atts[i].name, SpecifiedValue(element, atts[i]), \E j \in 1 .. i - 1 : atts[j].name = atts[i].name)]

Named(atts, name) == \E i \in 1 .. Len(atts) : atts[i].name = name

\* The defaults, each unless the attribute is there already.
WithDefaults(atts, defaults) ==
  LET with[j \in 0 .. Len(defaults)] ==
        IF j = 0 THEN atts
        ELSE IF defaults[j].given /\ ~Named(with[j - 1], defaults[j].name)
             THEN Append(with[j - 1], [name |-> defaults[j].name, value |-> defaults[j].value])
             ELSE with[j - 1]
  IN with[Len(defaults)]

FirstError(found) ==
  LET wrong == {i \in 1 .. Len(found) : found[i].error # ""}
  IN IF wrong = {} THEN "" ELSE found[CHOOSE i \in wrong : \A j \in wrong : i <= j].error

\* storeAtts: the attributes of a tag, or the first error in them.
Stored(found, defaults) ==
  [error |-> FirstError(found),
   atts |-> WithDefaults([i \in 1 .. Len(found) |-> [name |-> found[i].name, value |-> found[i].value]], defaults)]

StoreAtts(element, tag) == Stored(Specified(element, GetAtts(tag)), DefaultAtts(element))

StartTag(t) ==
  /\ t.tok \in {"START_TAG_NO_ATTS", "START_TAG_WITH_ATTS"}
  /\ \E name \in {NameAt(Text, 2)} :
       /\ tags' = Append(tags, name)
       /\ \E atts \in {StoreAtts(name, SubSeq(Text, 1, t.n))} :
            \/ /\ atts.error = ""
               /\ events' = Append(events, StartEvent(name, atts.atts))
               /\ Consume(t.n) /\ GoOn /\ UNCHANGED processor
            \/ /\ atts.error # ""
               /\ Return(atts.error) /\ UNCHANGED <<at, frames, events>>

\* After the end of the document element comes the epilogue.
Closed(level) == IF level = 0 THEN processor' = "epilog" ELSE UNCHANGED processor

EmptyElement(t) ==
  /\ t.tok \in {"EMPTY_ELEMENT_NO_ATTS", "EMPTY_ELEMENT_WITH_ATTS"}
  /\ \E name \in {NameAt(Text, 2)} :
       \E atts \in {StoreAtts(name, SubSeq(Text, 1, t.n))} :
         \/ /\ atts.error = ""
            /\ events' = events \o <<StartEvent(name, atts.atts), EndEvent(name)>>
            /\ Consume(t.n) /\ Closed(Len(tags)) /\ GoOn
         \/ /\ atts.error # ""
            /\ Return(atts.error) /\ UNCHANGED <<at, frames, events>>
  /\ UNCHANGED tags

\* Mutant: an entity may close the element it is used in.
EndTagAnywhere(t) ==
  /\ t.tok = "END_TAG"
  /\ tags' = Front(tags)
  /\ IF NameAt(Text, 3) # Last(tags)
     THEN Return("TAG_MISMATCH") /\ UNCHANGED <<at, frames, events>>
     ELSE /\ events' = Append(events, EndEvent(Last(tags)))
          /\ Consume(t.n) /\ Closed(Len(tags) - 1) /\ GoOn

EndTag(t) ==
  /\ t.tok = "END_TAG"
  /\ \/ /\ Len(tags) = StartLevel
        /\ Return("ASYNC_ENTITY") /\ UNCHANGED <<at, body>>
     \/ /\ Len(tags) > StartLevel
        /\ tags' = Front(tags)
        /\ IF NameAt(Text, 3) # Last(tags)
           THEN Return("TAG_MISMATCH") /\ UNCHANGED <<at, frames, events>>
           ELSE /\ events' = Append(events, EndEvent(Last(tags)))
                /\ Consume(t.n) /\ Closed(Len(tags) - 1) /\ GoOn

-----------------------------------------------------------------------------
(* References *)

CharRef(t) ==
  /\ t.tok = "CHAR_REF"
  /\ \E n \in {CharRefNumber(SubSeq(Text, 1, t.n))} :
       \/ IsCharacter(n) /\ events' = WithText(Encoded(n)) /\ Consume(t.n) /\ GoOn /\ UNCHANGED processor
       \/ ~IsCharacter(n) /\ Return("BAD_CHAR_REF") /\ UNCHANGED <<at, frames, events>>
  /\ UNCHANGED tags

\* Why a reference cannot be followed.
RefusedEntity(name) ==
  CASE name \notin DOMAIN dtd.entities ->
         IF dtd.complete \/ dtd.standalone THEN "UNDEFINED_ENTITY" ELSE ""
    [] name \in DOMAIN dtd.entities /\ name \in OpenEntities -> "RECURSIVE_ENTITY_REF"
    [] OTHER -> IF dtd.entities[name].kind = "unparsed" THEN "BINARY_ENTITY_REF" ELSE ""

IsInternal(name) == name \in DOMAIN dtd.entities /\ dtd.entities[name].kind = "internal"

\* The text of an entity is read next, from the level of tags the reference stands at.
OpenEntity(t, name) ==
  /\ frames' = Append(IF frames = <<>> THEN frames
                      ELSE [frames EXCEPT ![Len(frames)].text = From(@, t.n + 1)],
                      [of |-> name, text |-> dtd.entities[name].text, level |-> Len(tags)])
  /\ at' = IF frames = <<>> THEN at + t.n ELSE at

EntityRef(t) ==
  /\ t.tok = "ENTITY_REF"
  /\ \E name \in {SubSeq(Text, 2, t.n - 1)} :
       \/ /\ IsPredefined(name)
          /\ events' = WithText(<<Predefined[WordOf(name)]>>) /\ Consume(t.n)
          /\ GoOn /\ UNCHANGED processor
       \/ /\ ~IsPredefined(name) /\ RefusedEntity(name) # ""
          /\ Return(RefusedEntity(name)) /\ UNCHANGED <<at, frames, events>>
       \/ /\ ~IsPredefined(name) /\ RefusedEntity(name) = ""
          /\ IF IsInternal(name) THEN OpenEntity(t, name) ELSE Consume(t.n)
          /\ GoOn /\ UNCHANGED <<processor, events>>
  /\ UNCHANGED tags

-----------------------------------------------------------------------------
(* Content *)

\* The end of an entity's text has to be at the level it began at.
EndsText ==
  \/ /\ frames = <<>>
     /\ Return("NO_ELEMENTS") /\ UNCHANGED <<at, frames>>
  \/ /\ frames # <<>> /\ Len(tags) # StartLevel
     /\ Return("ASYNC_ENTITY") /\ UNCHANGED <<at, frames>>
  \/ /\ frames # <<>> /\ Len(tags) = StartLevel
     /\ frames' = Front(frames) /\ GoOn /\ UNCHANGED <<at, processor>>

\* Nothing yet, or nothing that can be known before more arrives.
ContentWaits(t) ==
  /\ t.tok \in {"NONE", "PARTIAL", "PARTIAL_CHAR", "TRAILING_CR", "TRAILING_RSQB"}
  /\ ~Complete
  /\ Return("") /\ UNCHANGED <<at, body>>

ContentEnds(t) ==
  /\ Complete
  /\ \/ t.tok = "NONE" /\ EndsText /\ UNCHANGED events
     \/ t.tok = "TRAILING_CR" /\ events' = WithText(<<"\n">>) /\ EndsText
     \/ t.tok = "TRAILING_RSQB" /\ events' = WithText(Text) /\ EndsText
     \/ t.tok = "PARTIAL" /\ Return("UNCLOSED_TOKEN") /\ UNCHANGED <<at, frames, events>>
     \/ t.tok = "PARTIAL_CHAR" /\ Return("PARTIAL_CHAR") /\ UNCHANGED <<at, frames, events>>
  /\ UNCHANGED tags

Data(t) ==
  /\ \/ t.tok = "DATA_CHARS" /\ events' = WithText(SubSeq(Text, 1, t.n))
     \/ t.tok = "DATA_NEWLINE" /\ events' = WithText(<<"\n">>)
  /\ Consume(t.n) /\ GoOn /\ UNCHANGED <<processor, tags>>

Passes(t) ==
  /\ \/ t.tok \in {"PI", "COMMENT"} /\ UNCHANGED processor
     \/ t.tok = "CDATA_SECT_OPEN" /\ processor' = "cdata"
  /\ Consume(t.n) /\ GoOn /\ UNCHANGED <<tags, events>>

ContentRefuses(t) ==
  /\ \/ t.tok = "INVALID" /\ Return("INVALID_TOKEN")
     \/ t.tok = "XML_DECL" /\ Return("MISPLACED_XML_PI")
  /\ UNCHANGED <<at, body>>

\* doContent, one turn of its loop.
DoContent ==
  /\ running /\ processor = "content"
  /\ \E t \in {Token("content", Text)} :
       \/ ContentWaits(t) \/ ContentEnds(t) \/ ContentRefuses(t)
       \/ StartTag(t) \/ EmptyElement(t) \/ EndTag(t)
       \/ CharRef(t) \/ EntityRef(t) \/ Data(t) \/ Passes(t)
  /\ UNCHANGED <<input, declared>>

\* doCdataSection, one turn: in the document, or in an entity, where the section has
\* to end.
DoCdataSection ==
  /\ running /\ processor = "cdata"
  /\ \E t \in {Token("cdata", Text)} :
       \/ Data(t)
       \/ /\ t.tok = "CDATA_SECT_CLOSE"
          /\ Consume(t.n) /\ processor' = "content" /\ GoOn /\ UNCHANGED <<tags, events>>
       \/ /\ t.tok \in {"NONE", "PARTIAL", "PARTIAL_CHAR"} /\ ~Complete
          /\ Return("") /\ UNCHANGED <<at, body>>
       \/ /\ t.tok \in {"NONE", "PARTIAL"} /\ Complete
          /\ Return("UNCLOSED_CDATA_SECTION") /\ UNCHANGED <<at, body>>
       \/ /\ t.tok = "PARTIAL_CHAR" /\ Complete
          /\ Return("PARTIAL_CHAR") /\ UNCHANGED <<at, body>>
       \/ /\ t.tok = "INVALID"
          /\ Return("INVALID_TOKEN") /\ UNCHANGED <<at, body>>
  /\ UNCHANGED <<input, declared>>

\* epilogProcessor, one turn: a CR at the end is white space whatever follows it.
EpilogProcessor ==
  /\ running /\ processor = "epilog"
  /\ \E t \in {Token("prolog", Text)} :
       \/ /\ t.tok = "NONE" /\ Return("") /\ UNCHANGED at
       \/ /\ t.tok = "-PROLOG_S" /\ Return("") /\ at' = fed
       \/ /\ t.tok \in {"PROLOG_S", "PI", "COMMENT"}
          /\ at' = at + t.n /\ GoOn /\ UNCHANGED processor
       \/ /\ t.tok \in {"PARTIAL", "PARTIAL_CHAR"} /\ ~final
          /\ Return("") /\ UNCHANGED at
       \/ /\ t.tok = "PARTIAL" /\ final /\ Return("UNCLOSED_TOKEN") /\ UNCHANGED at
       \/ /\ t.tok = "PARTIAL_CHAR" /\ final /\ Return("PARTIAL_CHAR") /\ UNCHANGED at
       \/ /\ t.tok = "INVALID" /\ Return("INVALID_TOKEN") /\ UNCHANGED at
       \/ /\ t.tok \notin {"NONE", "-PROLOG_S", "PROLOG_S", "PI", "COMMENT", "PARTIAL", "PARTIAL_CHAR", "INVALID"}
          /\ Return("JUNK_AFTER_DOC_ELEMENT") /\ UNCHANGED at
  /\ UNCHANGED <<input, body, declared>>

-----------------------------------------------------------------------------
(* The prolog *)

\* A keyword, where the token is one: the word after <! or #, or a name.
Keyword(t) ==
  CASE t.tok = "DECL_OPEN"  -> WordOf(SubSeq(Text, 3, t.n))
    [] t.tok = "POUND_NAME" -> WordOf(SubSeq(Text, 2, t.n))
    [] t.tok = "NAME"       -> WordOf(SubSeq(Text, 1, t.n))
    [] OTHER                -> ""

Literal(t) == SubSeq(Text, 2, t.n - 1)
With(f, x, v) == [y \in DOMAIN f \cup {x} |-> IF y = x THEN v ELSE f[y]]

Read(t) == at' = at + t.n /\ GoOn /\ UNCHANGED processor
Refuse(code) == Return(code) /\ UNCHANGED at

\* getEncodingIndex and findEncoding: no comma stands between the last two of the
\* names known, so that neither is one.
EncodingError(name) ==
  CASE name \in {"", "UTF-8"} -> "" [] name = "UTF-16" -> "INCORRECT_ENCODING" [] OTHER -> "UNKNOWN_ENCODING"

ProcessXmlDecl(t, role) ==
  /\ role = "XML_DECL"
  /\ \E d \in {ParseXmlDecl(SubSeq(Text, 4, t.n - 2))} :
       \/ ~d.ok /\ Refuse("SYNTAX") /\ UNCHANGED dtd
       \/ /\ d.ok
          /\ dtd' = [dtd EXCEPT !.standalone = d.standalone]
          /\ IF EncodingError(d.encoding) = "" THEN Read(t) ELSE Refuse(EncodingError(d.encoding))
  /\ UNCHANGED <<groups, decl>>

PublicId(t, role) ==
  /\ role \in {"DOCTYPE_PUBLIC_ID", "ENTITY_PUBLIC_ID", "NOTATION_PUBLIC_ID"}
  /\ IF IsPublicId(SubSeq(Text, 1, t.n)) THEN Read(t) ELSE Refuse("SYNTAX")
  /\ UNCHANGED <<groups, decl, dtd>>

\* A document with a DTD elsewhere may use what is declared there.
Doctype(t, role) ==
  /\ \/ role = "DOCTYPE_SYSTEM_ID" /\ dtd' = [dtd EXCEPT !.external = TRUE]
     \/ role = "DOCTYPE_CLOSE" /\ dtd' = [dtd EXCEPT !.complete = @ /\ ~dtd.external]
  /\ Read(t) /\ UNCHANGED <<groups, decl>>

InstanceStart(t, role) ==
  /\ role = "INSTANCE_START"
  /\ processor' = "content"
  /\ GoOn /\ UNCHANGED <<at, groups, decl, dtd>>

\* The first declaration of an entity counts, and none of a predefined one, of a
\* parameter entity, or of one that comes after something not read.
EntityName(t, role) ==
  /\ role \in {"GENERAL_ENTITY_NAME", "PARAM_ENTITY_NAME"}
  /\ \E name \in {SubSeq(Text, 1, t.n)} :
       IF /\ role = "GENERAL_ENTITY_NAME"
          /\ ~IsPredefined(name) /\ dtd.complete /\ name \notin DOMAIN dtd.entities
       THEN /\ decl' = [decl EXCEPT !.entity = name]
            /\ dtd' = [dtd EXCEPT !.entities = With(@, name, [kind |-> "external", text |-> <<>>])]
       ELSE decl' = [decl EXCEPT !.entity = <<>>] /\ UNCHANGED dtd
  /\ Read(t) /\ UNCHANGED groups

\* What is declared of the entity, if it counts.
Becomes(entity) ==
  IF decl.entity = <<>> THEN UNCHANGED dtd
  ELSE dtd' = [dtd EXCEPT !.entities = With(@, decl.entity, entity)]

EntityDeclared(t, role) ==
  /\ \/ /\ role = "ENTITY_VALUE"
        /\ \E v \in {StoreEntityValue(Literal(t))} :
             \/ v.error = "" /\ Becomes([kind |-> "internal", text |-> v.out]) /\ Read(t)
             \/ v.error # "" /\ Refuse(v.error) /\ UNCHANGED dtd
     \/ role = "ENTITY_SYSTEM_ID" /\ Becomes([kind |-> "external", text |-> <<>>]) /\ Read(t)
     \/ role = "ENTITY_NOTATION_NAME" /\ Becomes([kind |-> "unparsed", text |-> <<>>]) /\ Read(t)
  /\ UNCHANGED <<groups, decl>>

AttributeName(t, role) ==
  /\ \/ role = "ATTLIST_ELEMENT_NAME" /\ decl' = [decl EXCEPT !.element = SubSeq(Text, 1, t.n)]
     \/ role = "ATTRIBUTE_NAME" /\ decl' = [decl EXCEPT !.attribute = SubSeq(Text, 1, t.n), !.isCdata = FALSE]
     \/ role = "ATTRIBUTE_TYPE_CDATA" /\ decl' = [decl EXCEPT !.isCdata = TRUE]
  /\ Read(t) /\ UNCHANGED <<groups, dtd>>

\* defineAttribute: a default of an attribute declared before is passed over.
DefineAttribute(given, value) ==
  IF ~dtd.complete \/ (given /\ Named(DefaultAtts(decl.element), decl.attribute)) THEN UNCHANGED dtd
  ELSE dtd' = [dtd EXCEPT
         !.atts = With(@, decl.element,
                       Append(DefaultAtts(decl.element),
                              [name |-> decl.attribute, isCdata |-> decl.isCdata,
                               given |-> given, value |-> value])),
         !.tokenized = IF decl.isCdata THEN @ ELSE @ \cup {decl.attribute}]

AttributeDefault(t, role) ==
  /\ \/ /\ role \in {"IMPLIED_ATTRIBUTE_VALUE", "REQUIRED_ATTRIBUTE_VALUE"}
        /\ DefineAttribute(FALSE, <<>>) /\ Read(t)
     \/ /\ role \in {"DEFAULT_ATTRIBUTE_VALUE", "FIXED_ATTRIBUTE_VALUE"}
        /\ \E v \in {StoreAttributeValue(Literal(t), decl.isCdata, dtd.entities, dtd.complete, {})} :
             \/ v.error = "" /\ DefineAttribute(TRUE, v.out) /\ Read(t)
             \/ v.error # "" /\ Refuse(v.error) /\ UNCHANGED dtd
  /\ UNCHANGED <<groups, decl>>

\* Within one group of a content model either commas or bars.
Group(t, role, level) ==
  /\ \/ role = "GROUP_OPEN" /\ groups' = With(groups, level, "") /\ Read(t)
     \/ \E sign \in {",", "|"} :
          /\ role = IF sign = "," THEN "GROUP_SEQUENCE" ELSE "GROUP_CHOICE"
          /\ IF groups[level] \in {"", sign} THEN groups' = With(groups, level, sign) /\ Read(t)
             ELSE Refuse("SYNTAX") /\ UNCHANGED groups
  /\ UNCHANGED <<decl, dtd>>

\* Parameter entities are not read: from here on declarations do not count.
ParamEntityRef(t, role) ==
  /\ role = "PARAM_ENTITY_REF"
  /\ dtd' = [dtd EXCEPT !.complete = FALSE]
  /\ Read(t) /\ UNCHANGED <<groups, decl>>

PrologRefuses(t, role) ==
  /\ role = "ERROR"
  /\ Refuse(CASE t.tok = "PARAM_ENTITY_REF" -> "PARAM_ENTITY_REF"
              [] t.tok = "XML_DECL" -> "MISPLACED_XML_PI"
              [] OTHER -> "SYNTAX")
  /\ UNCHANGED <<groups, decl, dtd>>

\* Nobody has asked for notations, element types, comments or instructions.
Plain(t, role) ==
  /\ role \in {"NONE", "DOCTYPE_NAME", "NOTATION_NAME", "NOTATION_SYSTEM_ID", "NOTATION_NO_SYSTEM_ID",
               "ATTRIBUTE_TYPE_TOKENS", "ATTRIBUTE_ENUM_VALUE", "ATTRIBUTE_NOTATION_VALUE",
               "ELEMENT_NAME", "CONTENT_EMPTY", "CONTENT_ANY", "CONTENT_PCDATA", "CONTENT_ELEMENT",
               "GROUP_CLOSE"}
  /\ Read(t) /\ UNCHANGED <<groups, decl, dtd>>

Means(t) ==
  \E a \in {XmlTokenRole(prolog, t.tok, Keyword(t))} :
    /\ prolog' = a.state
    /\ \/ ProcessXmlDecl(t, a.role) \/ PublicId(t, a.role) \/ Doctype(t, a.role)
       \/ InstanceStart(t, a.role) \/ EntityName(t, a.role) \/ EntityDeclared(t, a.role)
       \/ AttributeName(t, a.role) \/ AttributeDefault(t, a.role)
       \/ Group(t, a.role, a.state.level) \/ ParamEntityRef(t, a.role)
       \/ PrologRefuses(t, a.role) \/ Plain(t, a.role)

\* Tokens that end where the text does, and would be whole if nothing followed.
Unfinished == {"-" \o tok : tok \in Endable}
Whole(t) ==
  IF final /\ t.tok \in Unfinished THEN [tok |-> CHOOSE tok \in Endable : t.tok = "-" \o tok, n |-> Len(Text)]
  ELSE t

Endings == {"NONE", "PARTIAL", "PARTIAL_CHAR"} \cup Unfinished

\* doProlog, one turn of its loop.
DoProlog ==
  /\ running /\ processor = "prolog"
  /\ \E t \in {Whole(Token("prolog", Text))} :
       \/ t.tok \in Endings /\ ~final /\ Refuse("") /\ UNCHANGED declared
       \/ t.tok = "INVALID" /\ Refuse("INVALID_TOKEN") /\ UNCHANGED declared
       \/ t.tok = "NONE" /\ final /\ Refuse("NO_ELEMENTS") /\ UNCHANGED declared
       \/ t.tok = "PARTIAL" /\ final /\ Refuse("UNCLOSED_TOKEN") /\ UNCHANGED declared
       \/ t.tok = "PARTIAL_CHAR" /\ final /\ Refuse("PARTIAL_CHAR") /\ UNCHANGED declared
       \/ t.tok \notin Endings \cup {"INVALID"} /\ Means(t)
  /\ UNCHANGED <<input, body>>

\* The caller has the whole document, or the first error.
Stopped == ~running /\ (final \/ error # "") /\ UNCHANGED xmlVars

XmlNext == Parse \/ Finish \/ DoContent \/ DoCdataSection \/ EpilogProcessor \/ DoProlog \/ Stopped

XmlSpec == XmlInit /\ [][XmlNext]_xmlVars

-----------------------------------------------------------------------------
(* Properties *)

\* A part of the events a document stands for: the last text may go on.
IsPart(part, whole) ==
  \/ part = <<>>
  \/ /\ Len(part) <= Len(whole)
     /\ Front(part) = SubSeq(whole, 1, Len(part) - 1)
     /\ LET last == Last(part)  its == whole[Len(part)]
        IN \/ last = its
           \/ /\ last.kind = "text" /\ its.kind = "text"
              /\ Len(last.what) <= Len(its.what)
              /\ last.what = SubSeq(its.what, 1, Len(last.what))

\* Wherever the blocks are cut, the document is accepted if and only if it is well
\* formed, the callbacks made up to now are the beginning of the ones it stands for,
\* and in the end of a good one they are all of them (XML_Parse, doContent, doProlog).
ReadsDocument ==
  /\ IsPart(events, doc.events)
  /\ ~running /\ error # "" => ~doc.good
  /\ ~running /\ final /\ error = "" => doc.good /\ events = doc.events

\* The names of the elements started and not ended.
After(open, event) ==
  CASE event.kind = "start" -> Append(open, event.name)
    [] event.kind = "end" -> IF open # <<>> /\ Last(open) = event.name THEN Front(open)
                             ELSE <<"not nested">>
    [] OTHER -> open

OpenElements(evs) ==
  LET open[i \in 0 .. Len(evs)] == IF i = 0 THEN <<>> ELSE After(open[i - 1], evs[i])
  IN open[Len(evs)]

\* The callbacks are those of nested elements, and the stack of tags is the elements
\* that are open; every entity ends in the element it was used in, and none is open
\* inside itself (tagStack, tagLevel and entity->open in doContent).
Nested ==
  /\ error = "" => OpenElements(events) = tags
  /\ \A i, j \in 1 .. Len(frames) :
       i < j => frames[i].of # frames[j].of /\ frames[i].level <= frames[j].level
  /\ error = "" /\ frames # <<>> => StartLevel <= Len(tags)
  /\ processor = "epilog" => tags = <<>> /\ frames = <<>>

=============================================================================
