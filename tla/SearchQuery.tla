------------------------------- MODULE SearchQuery -------------------------------
(***************************************************************************)
(* How the search command turns its arguments into the body of a SEARCH    *)
(* request (execute_search, run_search and the parser of search conditions *)
(* in src/src/search.c).                                                   *)
(*                                                                         *)
(* The query is a sequence of atoms: a word, a number or a character that  *)
(* is neither, "_" being a blank.  No query has two atoms of letters or    *)
(* digits side by side, so an atom is read as a whole or not at all.  The  *)
(* request is a sequence of tags and atoms, an element <D:x> being the tag *)
(* "<x>" or "</x>".                                                        *)
(***************************************************************************)
EXTENDS Naturals, SequencesExt

CONSTANTS Args,     \* arguments a user may give, sequences of atoms
          MaxArgs,  \* bound: arguments of one command
          Asc, Des  \* the searchorder and searchdorder options, as the names in them

ASSUME QueryAssumption == MaxArgs \in Nat /\ <<>> \notin Args

VARIABLES args,    \* the arguments typed
          query,   \* the condition put together from them
          outcome, \* "typing", "sent" or "error"
          body     \* the request body, from <D:where> on

vars == <<args, query, outcome, body>>

Letters == {"a", "b", "or", "OR", "and", "not", "like", "LIKE", "contains",
            "CONTAINS"}
Digits == {"5"}

\* strcasecmp
Lower(w) == CASE w = "OR"       -> "or"
              [] w = "LIKE"     -> "like"
              [] w = "CONTAINS" -> "contains"
              [] OTHER          -> w

Tag(x) == "<" \o x \o ">"
EndTag(x) == "</" \o x \o ">"

-----------------------------------------------------------------------------
(* Words *)

At(q, p) == IF p <= Len(q) THEN q[p] ELSE "END"

\* The first place from p on that is not blank.
LeftBound(q, p) ==
  CHOOSE k \in p .. Len(q) + 1 :
    At(q, k) # "_" /\ \A j \in p .. k - 1 : At(q, j) = "_"

\* The word that begins at k, its type, and where reading goes on.
WordAt(q, k) ==
  CASE At(q, k) \in Letters -> [type |-> "IDEN", word |-> q[k], at |-> k + 1]
    [] At(q, k) \in Digits  -> [type |-> "INTEGER", word |-> q[k], at |-> k + 1]
    [] At(q, k) \o At(q, k + 1) \in {"<=", ">=", "<>"} ->
         [type |-> "SIGN", word |-> q[k] \o q[k + 1], at |-> k + 2]
    [] OTHER                -> [type |-> "SIGN", word |-> q[k], at |-> k + 1]

\* read_aword.  At the end of the buffer the position stays.
ReadWord(q, p) ==
  IF \A k \in p .. Len(q) : q[k] = "_"
  THEN [type |-> "ENDBUF", word |-> "", at |-> p]
  ELSE WordAt(q, LeftBound(q, p))

\* Mutant: strcmp.
FirstWordEqualExact(q, p, w) == ReadWord(q, p).word = w

FirstWordEqual(q, p, w) == Lower(ReadWord(q, p).word) = w

FirstWordInteger(q, p) == ReadWord(q, p).type = "INTEGER"

-----------------------------------------------------------------------------
(* The parser.  A result is whether the text parsed, where reading goes on *)
(* and what is written.                                                    *)

Fail == [ok |-> FALSE, at |-> 0, out |-> <<>>]
Parsed(at, out) == [ok |-> TRUE, at |-> at, out |-> out]

\* A quote ends a quoted string unless a backslash comes right before it in the
\* string.
QuotedString(q, begin) ==
  LET Ends(k) == At(q, k) = "'" /\ (k > begin => At(q, k - 1) # "\\")
      ends == {k \in begin .. Len(q) : Ends(k)}
  IN IF ends = {} THEN Fail ELSE Parsed(Min(ends) + 1, SubSeq(q, begin, Min(ends) - 1))

WordString(q, begin) ==
  LET end == Min({k \in begin .. Len(q) + 1 : At(q, k) \in {"_", ")", "END"}})
  IN IF At(q, begin) \in {"END", ")"} THEN Fail ELSE Parsed(end, SubSeq(q, begin, end - 1))

\* A quoted string or a word string.
StringValue(q, p) ==
  IF FirstWordEqual(q, p, "'") THEN QuotedString(q, ReadWord(q, p).at)
                               ELSE WordString(q, LeftBound(q, p))

ComparisonValue(q, p) ==
  IF ~FirstWordEqual(q, p, "'") /\ FirstWordInteger(q, p)
  THEN Parsed(ReadWord(q, p).at, <<ReadWord(q, p).word>>)
  ELSE StringValue(q, p)

\* The element of each operator; != cannot be one word of the query.
OperatorNames == ("=" :> "eq") @@ (">=" :> "gte") @@ ("<=" :> "lte") @@ (">" :> "gt")
                 @@ ("<" :> "lt") @@ ("!=" :> "not") @@ ("<>" :> "not") @@ ("like" :> "like")

Element(x, inside) == <<Tag(x)>> \o inside \o <<EndTag(x)>>

\* What was parsed as the content of an element x.
Within(x, result) == IF result.ok THEN Parsed(result.at, Element(x, result.out)) ELSE Fail

\* The keyword is found in any case, but fetched (match_fetch) in lower case only.
ContainsPredicate(q, keyword) ==
  IF keyword.word = "contains" THEN Within("contains", StringValue(q, keyword.at)) ELSE Fail

\* A column, an operator and a value.
Comparison(q, column, operator) ==
  IF column.type # "IDEN" \/ operator.word \notin DOMAIN OperatorNames THEN Fail
  ELSE LET Compared(value) == [value EXCEPT !.out = <<column.word>> \o @]
       IN Within(OperatorNames[operator.word],
                 Compared(IF operator.word = "like" THEN StringValue(q, operator.at)
                                                    ELSE ComparisonValue(q, operator.at)))

Predicate(q, p) ==
  IF FirstWordEqual(q, p, "contains") THEN ContainsPredicate(q, ReadWord(q, p))
  ELSE Comparison(q, ReadWord(q, p), ReadWord(q, ReadWord(q, p).at))

RECURSIVE SearchCondition(_, _), Terms(_, _), Factors(_, _)

\* The parenthesis that must follow a condition.
Closed(q, inner) ==
  IF inner.ok /\ FirstWordEqual(q, inner.at, ")")
  THEN [inner EXCEPT !.at = ReadWord(q, inner.at).at] ELSE Fail

BooleanPrimary(q, p) ==
  IF FirstWordEqual(q, p, "(") THEN Closed(q, SearchCondition(q, ReadWord(q, p).at))
                               ELSE Predicate(q, p)

BooleanFactor(q, p) ==
  IF FirstWordEqual(q, p, "not") THEN Within("not", BooleanPrimary(q, ReadWord(q, p).at))
                                 ELSE BooleanPrimary(q, p)

\* What follows what was parsed before, after the keyword between them.
Following(before, next) == IF next.ok THEN [next EXCEPT !.out = before \o @] ELSE Fail

\* Mutant: "or" binds as tightly as "and".
FactorsOr(q, first) ==
  IF ~first.ok \/ ~(FirstWordEqual(q, first.at, "and") \/ FirstWordEqual(q, first.at, "or"))
  THEN first
  ELSE Factors(q, Following(first.out, BooleanFactor(q, ReadWord(q, first.at).at)))

\* The factors after the first, each after its "and".
Factors(q, first) ==
  IF ~first.ok \/ ~FirstWordEqual(q, first.at, "and") THEN first
  ELSE Factors(q, Following(first.out, BooleanFactor(q, ReadWord(q, first.at).at)))

\* One factor alone is not put in an element.
TermOf(q, first) ==
  IF first.ok /\ FirstWordEqual(q, first.at, "and") THEN Within("and", Factors(q, first))
                                                   ELSE first

BooleanTerm(q, p) == TermOf(q, BooleanFactor(q, p))

Terms(q, first) ==
  IF ~first.ok \/ ~FirstWordEqual(q, first.at, "or") THEN first
  ELSE Terms(q, Following(first.out, BooleanTerm(q, ReadWord(q, first.at).at)))

ConditionOf(q, first) ==
  IF first.ok /\ FirstWordEqual(q, first.at, "or") THEN Within("or", Terms(q, first))
                                                  ELSE first

SearchCondition(q, p) == ConditionOf(q, BooleanTerm(q, p))

\* Nothing may follow the condition.
WholeQuery(q, condition) ==
  IF condition.ok /\ ReadWord(q, condition.at).type = "ENDBUF"
  THEN Within("where", condition) ELSE Fail

SearchWhere(q) == WholeQuery(q, SearchCondition(q, 1))

\* search_orderby_gen: the ascending properties, then the descending ones.
OrderBy ==
  LET Order(name, dir) == Element("order", <<name, dir>>)
      all == [i \in 1 .. Len(Asc) |-> Order(Asc[i], "ascending")]
             \o [i \in 1 .. Len(Des) |-> Order(Des[i], "descending")]
  IN IF all = <<>> THEN <<>> ELSE Element("orderby", FlattenSeq(all))

-----------------------------------------------------------------------------
(* The command *)

Init ==
  /\ args = <<>> /\ query = <<>> /\ outcome = "typing" /\ body = <<>>

\* Mutant: arguments are put together as they are.
QuotedNever(arg) == arg \o <<"_">>

\* One turn of the loop of execute_search.
Quoted(arg) ==
  IF Contains(arg, "_") THEN <<"'">> \o arg \o <<"'", "_">> ELSE arg \o <<"_">>

AddArgument(arg) ==
  /\ outcome = "typing" /\ Len(args) < MaxArgs
  /\ args' = Append(args, arg)
  /\ query' = query \o Quoted(arg)
  /\ UNCHANGED <<outcome, body>>

\* Mutant: the request goes out when the condition does not parse.
RunUnchecked ==
  /\ outcome = "typing" /\ args # <<>>
  /\ \E where \in {SearchWhere(query)} :
       /\ outcome' = IF where.ok THEN "sent" ELSE "error"
       /\ body' = where.out \o OrderBy
  /\ UNCHANGED <<args, query>>

\* run_search up to the dispatch.
Run ==
  /\ outcome = "typing" /\ args # <<>>
  /\ \E where \in {SearchWhere(query)} :
       /\ outcome' = IF where.ok THEN "sent" ELSE "error"
       /\ body' = IF where.ok THEN where.out \o OrderBy ELSE <<>>
  /\ UNCHANGED <<args, query>>

Next == Run \/ \E arg \in Args : AddArgument(arg)

Spec == Init /\ [][Next]_vars

-----------------------------------------------------------------------------
(* Properties *)

Grammar == INSTANCE SearchGrammar

TypeOK ==
  /\ args \in Seq(Args) /\ Len(args) <= MaxArgs
  /\ outcome \in {"typing", "sent", "error"}
  /\ (outcome = "sent") <=> body # <<>>

\* The request says what the grammar says the query means: precedence,
\* parentheses, negation and the limits of every value are those of the BNF.
SaysWhatIsMeant ==
  outcome = "sent" =>
    \E meaning \in Grammar!Conditions(Grammar!Trim(query)) :
      body = Element("where", meaning) \o OrderBy

\* What the parser is stricter about than the grammar: the capitals of LIKE and
\* CONTAINS, the operator !=, columns named like keywords, and word strings that
\* begin like a number.
Strict(q) ==
  \E i \in 1 .. Len(q) :
    \/ q[i] \in {"LIKE", "CONTAINS", "!"}
    \/ q[i] \in {"not", "contains"} /\ i < Len(q) /\ At(q, LeftBound(q, i + 1)) \in {"=", "<", ">", "like"}
    \/ q[i] \in Digits /\ At(q, i + 1) \notin {"_", ")"}

\* An argument with blanks reaches the server in one piece, or not at all, unless
\* it holds a quote of its own.
BlanksSurvive ==
  outcome = "sent" =>
    \A i \in 1 .. Len(args) :
      Contains(args[i], "_") /\ ~Contains(args[i], "'") =>
        \E k \in 1 .. Len(body) : IsPrefix(args[i], SubSeq(body, k, Len(body)))

\* Every other query the grammar derives is accepted, and what is accepted is
\* sent with a body.
AcceptsGrammar ==
  /\ TypeOK
  /\ outcome = "error" /\ ~Strict(query) => Grammar!Conditions(Grammar!Trim(query)) = {}

=============================================================================
