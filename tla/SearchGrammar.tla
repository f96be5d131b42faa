------------------------------ MODULE SearchGrammar ------------------------------
(***************************************************************************)
(* The BNF of search conditions in the comments of src/src/search.c, as    *)
(* the set of renderings of a text: what each derivation of the text means *)
(* in the body of a SEARCH request.  A text is a sequence of atoms as in   *)
(* SearchQuery; blanks between the parts of a phrase are left out.         *)
(*                                                                         *)
(* <condition> ::= <term> | <condition> or <term>                          *)
(* <term>      ::= <factor> | <term> and <factor>                          *)
(* <factor>    ::= [not] <primary>                                         *)
(* <primary>   ::= <predicate> | ( <condition> )                           *)
(* <predicate> ::= <column> <op> <value> | <column> like <string>          *)
(*               | contains <string>                                       *)
(***************************************************************************)
EXTENDS Naturals, SequencesExt

LOCAL Letters == {"a", "b", "or", "OR", "and", "not", "like", "LIKE", "contains", "CONTAINS"}

Keyword(w) == CASE w \in {"or", "OR"}             -> "or"
                [] w \in {"like", "LIKE"}         -> "like"
                [] w \in {"contains", "CONTAINS"} -> "contains"
                [] OTHER                          -> w

Operators == (<<"=">> :> "eq") @@ (<<"<">> :> "lt") @@ (<<">">> :> "gt")
             @@ (<<"<", "=">> :> "lte") @@ (<<">", "=">> :> "gte")
             @@ (<<"<", ">">> :> "not") @@ (<<"!", "=">> :> "not")

LOCAL Enclosed(x, inside) == <<"<" \o x \o ">">> \o inside \o <<"</" \o x \o ">">>

\* s without the blanks around it.
Trim(s) ==
  LET solid == {i \in 1 .. Len(s) : s[i] # "_"}
      lo == CHOOSE i \in solid : \A j \in solid : i <= j
      hi == CHOOSE i \in solid : \A j \in solid : j <= i
  IN IF solid = {} THEN <<>> ELSE SubSeq(s, lo, hi)

Before(s, k) == Trim(SubSeq(s, 1, k - 1))
After(s, k) == Trim(SubSeq(s, k + 1, Len(s)))

\* What a sequence of renderings joined by op means.
Joined(op, parts) == IF Len(parts) = 1 THEN parts[1] ELSE Enclosed(op, FlattenSeq(parts))

\* Texts between quotes, where \' does not end the string.
Quote(s) ==
  IF /\ Len(s) >= 2 /\ s[1] = "'" /\ s[Len(s)] = "'"
     /\ \A i \in 2 .. Len(s) - 1 : s[i] = "'" => i > 2 /\ s[i - 1] = "\\"
     /\ (Len(s) > 2 => s[Len(s) - 1] # "\\")
  THEN {SubSeq(s, 2, Len(s) - 1)} ELSE {}

Words(s) == IF s = <<>> \/ s[1] = "'" \/ \E i \in 1 .. Len(s) : s[i] \in {"_", ")"}
            THEN {} ELSE {s}

\* A number is a word string too.
Strings(s) == Quote(s) \cup Words(s)

Predicates(s) ==
  IF s = <<>> THEN {}
  ELSE {Enclosed("contains", v) : v \in IF Keyword(s[1]) = "contains" THEN Strings(After(s, 1)) ELSE {}}
       \cup
       (IF s[1] \notin Letters THEN {}
        ELSE LET rest == After(s, 1)
             IN UNION {{Enclosed(Operators[op], <<s[1]>> \o v) :
                          v \in Strings(After(rest, Len(op)))} :
                         op \in {o \in DOMAIN Operators :
                                   /\ IsPrefix(o, rest)
                                   /\ \A longer \in DOMAIN Operators :
                                        IsPrefix(longer, rest) => Len(longer) <= Len(o)}}
                \cup
                (IF rest # <<>> /\ Keyword(rest[1]) = "like"
                 THEN {Enclosed("like", <<s[1]>> \o v) : v \in Strings(After(rest, 1))}
                 ELSE {}))

RECURSIVE Conditions(_), TermLists(_)

Primaries(s) ==
  Predicates(s) \cup (IF Len(s) > 2 /\ s[1] = "(" /\ s[Len(s)] = ")"
                      THEN Conditions(Trim(SubSeq(s, 2, Len(s) - 1))) ELSE {})

FactorRenderings(s) ==
  Primaries(s) \cup (IF s # <<>> /\ s[1] = "not"
                     THEN {Enclosed("not", p) : p \in Primaries(After(s, 1))} ELSE {})

\* The ways to split s at the keyword op, each part rendered.
RECURSIVE FactorLists(_)
FactorLists(s) ==
  {<<f>> : f \in FactorRenderings(s)} \cup
  UNION {{l \o <<f>> : l \in FactorLists(Before(s, k)), f \in FactorRenderings(After(s, k))} :
           k \in {k \in 1 .. Len(s) : s[k] = "and"}}

TermRenderings(s) == {Joined("and", l) : l \in FactorLists(s)}

TermLists(s) ==
  {<<t>> : t \in TermRenderings(s)} \cup
  UNION {{l \o <<t>> : l \in TermLists(Before(s, k)), t \in TermRenderings(After(s, k))} :
           k \in {k \in 1 .. Len(s) : Keyword(s[k]) = "or"}}

Conditions(s) == {Joined("or", l) : l \in TermLists(s)}
=============================================================================
