-------------------------------- MODULE XmlRoles --------------------------------
(***************************************************************************)
(* What a token of the prolog means where it stands (xmlrole.c of the      *)
(* bundled XML parser): a machine whose handlers are the functions of that *)
(* file.  A row <<handler, token, word, role, next>> is one case of one    *)
(* handler; the word is the keyword the token has to be, "" for any.       *)
(* White space is passed over by every handler, so it has no rows.         *)
(***************************************************************************)
EXTENDS Naturals

PrologRows ==
  {<<"prolog0", "XML_DECL", "", "XML_DECL", "prolog1">>,
   <<"prolog0", "PI", "", "NONE", "prolog1">>,
   <<"prolog0", "COMMENT", "", "NONE", "prolog1">>,
   <<"prolog0", "DECL_OPEN", "DOCTYPE", "NONE", "doctype0">>,
   <<"prolog0", "INSTANCE_START", "", "INSTANCE_START", "error">>,
   <<"prolog1", "PI", "", "NONE", "prolog1">>,
   <<"prolog1", "COMMENT", "", "NONE", "prolog1">>,
   <<"prolog1", "DECL_OPEN", "DOCTYPE", "NONE", "doctype0">>,
   <<"prolog1", "INSTANCE_START", "", "INSTANCE_START", "error">>,
   <<"prolog2", "PI", "", "NONE", "prolog2">>,
   <<"prolog2", "COMMENT", "", "NONE", "prolog2">>,
   <<"prolog2", "INSTANCE_START", "", "INSTANCE_START", "error">>}

DoctypeRows ==
  {<<"doctype0", "NAME", "", "DOCTYPE_NAME", "doctype1">>,
   <<"doctype1", "OPEN_BRACKET", "", "NONE", "internalSubset">>,
   <<"doctype1", "DECL_CLOSE", "", "DOCTYPE_CLOSE", "prolog2">>,
   <<"doctype1", "NAME", "SYSTEM", "NONE", "doctype3">>,
   <<"doctype1", "NAME", "PUBLIC", "NONE", "doctype2">>,
   <<"doctype2", "LITERAL", "", "DOCTYPE_PUBLIC_ID", "doctype3">>,
   <<"doctype3", "LITERAL", "", "DOCTYPE_SYSTEM_ID", "doctype4">>,
   <<"doctype4", "OPEN_BRACKET", "", "NONE", "internalSubset">>,
   <<"doctype4", "DECL_CLOSE", "", "DOCTYPE_CLOSE", "prolog2">>,
   <<"doctype5", "DECL_CLOSE", "", "DOCTYPE_CLOSE", "prolog2">>}

\* internalSubset
SubsetRows ==
  {<<"internalSubset", "DECL_OPEN", "ENTITY", "NONE", "entity0">>,
   <<"internalSubset", "DECL_OPEN", "ATTLIST", "NONE", "attlist0">>,
   <<"internalSubset", "DECL_OPEN", "ELEMENT", "NONE", "element0">>,
   <<"internalSubset", "DECL_OPEN", "NOTATION", "NONE", "notation0">>,
   <<"internalSubset", "PI", "", "NONE", "internalSubset">>,
   <<"internalSubset", "COMMENT", "", "NONE", "internalSubset">>,
   <<"internalSubset", "PARAM_ENTITY_REF", "", "PARAM_ENTITY_REF", "internalSubset">>,
   <<"internalSubset", "CLOSE_BRACKET", "", "NONE", "doctype5">>}

\* entity0 to entity4: the name of an entity, general or parameter.
EntityNameRows ==
  {<<"entity0", "PERCENT", "", "NONE", "entity1">>,
   <<"entity0", "NAME", "", "GENERAL_ENTITY_NAME", "entity2">>,
   <<"entity1", "NAME", "", "PARAM_ENTITY_NAME", "entity7">>,
   <<"entity2", "NAME", "SYSTEM", "NONE", "entity4">>,
   <<"entity2", "NAME", "PUBLIC", "NONE", "entity3">>,
   <<"entity2", "LITERAL", "", "ENTITY_VALUE", "declClose">>,
   <<"entity3", "LITERAL", "", "ENTITY_PUBLIC_ID", "entity4">>,
   <<"entity4", "LITERAL", "", "ENTITY_SYSTEM_ID", "entity5">>}

\* entity5 to entity9: the rest of an external one, and parameter entities.
EntityRestRows ==
  {<<"entity5", "DECL_CLOSE", "", "NONE", "internalSubset">>,
   <<"entity5", "NAME", "NDATA", "NONE", "entity6">>,
   <<"entity6", "NAME", "", "ENTITY_NOTATION_NAME", "declClose">>,
   <<"entity7", "NAME", "SYSTEM", "NONE", "entity9">>,
   <<"entity7", "NAME", "PUBLIC", "NONE", "entity8">>,
   <<"entity7", "LITERAL", "", "ENTITY_VALUE", "declClose">>,
   <<"entity8", "LITERAL", "", "ENTITY_PUBLIC_ID", "entity9">>,
   <<"entity9", "LITERAL", "", "ENTITY_SYSTEM_ID", "declClose">>}

NotationRows ==
  {<<"notation0", "NAME", "", "NOTATION_NAME", "notation1">>,
   <<"notation1", "NAME", "SYSTEM", "NONE", "notation3">>,
   <<"notation1", "NAME", "PUBLIC", "NONE", "notation2">>,
   <<"notation2", "LITERAL", "", "NOTATION_PUBLIC_ID", "notation4">>,
   <<"notation3", "LITERAL", "", "NOTATION_SYSTEM_ID", "declClose">>,
   <<"notation4", "LITERAL", "", "NOTATION_SYSTEM_ID", "declClose">>,
   <<"notation4", "DECL_CLOSE", "", "NOTATION_NO_SYSTEM_ID", "internalSubset">>}

\* The types of an attribute other than CDATA are all the same to the parser.
TokenTypes == {"ID", "IDREF", "IDREFS", "ENTITY", "ENTITIES", "NMTOKEN", "NMTOKENS"}

\* attlist0 to attlist4: the attribute and its type.
AttlistTypeRows ==
  {<<"attlist0", "NAME", "", "ATTLIST_ELEMENT_NAME", "attlist1">>,
   <<"attlist1", "DECL_CLOSE", "", "NONE", "internalSubset">>,
   <<"attlist1", "NAME", "", "ATTRIBUTE_NAME", "attlist2">>,
   <<"attlist2", "NAME", "CDATA", "ATTRIBUTE_TYPE_CDATA", "attlist8">>,
   <<"attlist2", "NAME", "NOTATION", "NONE", "attlist5">>,
   <<"attlist2", "OPEN_PAREN", "", "NONE", "attlist3">>,
   <<"attlist3", "NMTOKEN", "", "ATTRIBUTE_ENUM_VALUE", "attlist4">>,
   <<"attlist3", "NAME", "", "ATTRIBUTE_ENUM_VALUE", "attlist4">>,
   <<"attlist4", "CLOSE_PAREN", "", "NONE", "attlist8">>,
   <<"attlist4", "OR", "", "NONE", "attlist3">>}
  \cup {<<"attlist2", "NAME", type, "ATTRIBUTE_TYPE_TOKENS", "attlist8">> : type \in TokenTypes}

\* attlist5 to attlist9: a choice of notations, and the default.
AttlistDefaultRows ==
  {<<"attlist5", "OPEN_PAREN", "", "NONE", "attlist6">>,
   <<"attlist6", "NAME", "", "ATTRIBUTE_NOTATION_VALUE", "attlist7">>,
   <<"attlist7", "CLOSE_PAREN", "", "NONE", "attlist8">>,
   <<"attlist7", "OR", "", "NONE", "attlist6">>,
   <<"attlist8", "POUND_NAME", "IMPLIED", "IMPLIED_ATTRIBUTE_VALUE", "attlist1">>,
   <<"attlist8", "POUND_NAME", "REQUIRED", "REQUIRED_ATTRIBUTE_VALUE", "attlist1">>,
   <<"attlist8", "POUND_NAME", "FIXED", "NONE", "attlist9">>,
   <<"attlist8", "LITERAL", "", "DEFAULT_ATTRIBUTE_VALUE", "attlist1">>,
   <<"attlist9", "LITERAL", "", "FIXED_ATTRIBUTE_VALUE", "attlist1">>}

Repeated == {"NAME", "NAME_QUESTION", "NAME_ASTERISK", "NAME_PLUS"}

\* element0 to element3: the element, and content of text or nothing.
ElementRows ==
  {<<"element0", "NAME", "", "ELEMENT_NAME", "element1">>,
   <<"element1", "NAME", "EMPTY", "CONTENT_EMPTY", "declClose">>,
   <<"element1", "NAME", "ANY", "CONTENT_ANY", "declClose">>,
   <<"element1", "OPEN_PAREN", "", "GROUP_OPEN", "element2">>,
   <<"element2", "POUND_NAME", "PCDATA", "CONTENT_PCDATA", "element3">>,
   <<"element2", "OPEN_PAREN", "", "GROUP_OPEN", "element6">>,
   <<"element3", "CLOSE_PAREN", "", "GROUP_CLOSE", "declClose">>,
   <<"element3", "CLOSE_PAREN_ASTERISK", "", "GROUP_CLOSE", "declClose">>,
   <<"element3", "OR", "", "NONE", "element4">>}
  \cup {<<"element2", name, "", "CONTENT_ELEMENT", "element7">> : name \in Repeated}

Closing == {"CLOSE_PAREN", "CLOSE_PAREN_QUESTION", "CLOSE_PAREN_ASTERISK", "CLOSE_PAREN_PLUS"}

\* element4 to element7: text among elements, and groups within groups.
GroupRows ==
  {<<"element4", "NAME", "", "CONTENT_ELEMENT", "element5">>,
   <<"element5", "CLOSE_PAREN_ASTERISK", "", "GROUP_CLOSE", "declClose">>,
   <<"element5", "OR", "", "NONE", "element4">>,
   <<"element6", "OPEN_PAREN", "", "GROUP_OPEN", "element6">>,
   <<"element7", "COMMA", "", "GROUP_SEQUENCE", "element6">>,
   <<"element7", "OR", "", "GROUP_CHOICE", "element6">>}
  \cup {<<"element6", name, "", "CONTENT_ELEMENT", "element7">> : name \in Repeated}
  \cup {<<"element7", close, "", "GROUP_CLOSE", "element7">> : close \in Closing}

\* declClose
CloseRows == {<<"declClose", "DECL_CLOSE", "", "NONE", "internalSubset">>}

Rows == UNION {PrologRows, DoctypeRows, SubsetRows, EntityNameRows, EntityRestRows, NotationRows,
               AttlistTypeRows, AttlistDefaultRows, ElementRows, GroupRows, CloseRows}

\* The machine: its handler and how deep the group of a content model is.
XmlPrologStateInit == [handler |-> "prolog0", level |-> 0]

\* How deep: element1 and element2 say it outright, the others count.
LevelAfter(state, tok) ==
  CASE state.handler = "element1" /\ tok = "OPEN_PAREN" -> 1
    [] state.handler = "element2" /\ tok = "OPEN_PAREN" -> 2
    [] state.handler = "element6" /\ tok = "OPEN_PAREN" -> state.level + 1
    [] state.handler = "element7" /\ tok \in Closing    -> state.level - 1
    [] OTHER                                            -> state.level

\* The last group of a content model closes it.
Handler(next, level) == IF next = "element7" /\ level = 0 THEN "declClose" ELSE next

Answer(role, handler, level) ==
  [role |-> role, state |-> [handler |-> Handler(handler, level), level |-> level]]

Cases(handler, tok, word) == {row \in Rows : row[1] = handler /\ row[2] = tok /\ row[3] \in {"", word}}

\* A token no case stands for is an error for good (common, error).
Choose(cases, level) ==
  IF cases = {} THEN Answer("ERROR", "error", level)
  ELSE LET row == CHOOSE row \in cases : TRUE IN Answer(row[4], row[5], level)

XmlTokenRole(state, tok, word) ==
  CASE state.handler = "error" -> Answer("NONE", "error", state.level)
    [] state.handler # "error" /\ tok = "PROLOG_S" ->
         Answer("NONE", IF state.handler = "prolog0" THEN "prolog1" ELSE state.handler, state.level)
    [] OTHER -> Choose(Cases(state.handler, tok, word), LevelAfter(state, tok))
=============================================================================
