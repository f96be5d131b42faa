------------------------------ MODULE CommandLine ------------------------------
(***************************************************************************)
(* From a line to a handler: gettoken and parse_command of                 *)
(* src/src/cmdline.c, execute_command of src/src/cadaver.c, with a user    *)
(* who may interrupt the expansion of a wildcard.                          *)
(*                                                                         *)
(* A line is a sequence of characters; blank stands for a space or a tab,  *)
(* star for the characters of a pattern.  What the handlers do is the      *)
(* subject of the other modules.                                           *)
(***************************************************************************)
EXTENDS Naturals, SequencesExt

CONSTANTS Lines,    \* what may be typed: [text, args], where args is FREE, or the
                    \* arguments the user quoted to get that text; then open has the
                    \* places of the quotes that open them and place[i] those of the
                    \* characters of the i-th
          FREE,
          Commands, \* commands[]: from names to [min, max, needs, scope]
          Matches,  \* what a pattern may match, sequences of names
          QUIT,     \* the name of the quit command
          BufSize   \* BUFSIZ

blank == "_"
star == "*"
Quotes == {"'", "\""}

\* A line of a name and arguments in quotes, a blank before each.  In the quotes
\* a backslash is before each quote of that kind and each backslash, and nowhere
\* else.  A pattern would be expanded, and a token that fills the buffer or is
\* empty would end the line.
IsQuoted(l) ==
  LET close(i) == l.place[i][Len(l.args[i])] + 1
      special(i) == {l.text[l.open[i]], "\\"}
  IN /\ l.args \in Seq(Seq(STRING)) /\ l.args # <<>>
     /\ l.open \in Seq(DOMAIN l.text) /\ l.place \in Seq(Seq(DOMAIN l.text))
     /\ Len(l.open) = Len(l.args) /\ Len(l.place) = Len(l.args)
     /\ l.open[1] \in 3 .. BufSize + 1 /\ l.text[l.open[1] - 1] = blank
     /\ \A k \in 1 .. l.open[1] - 2 : l.text[k] \notin Quotes \cup {blank, "#", "\\"}
     /\ \A i \in 1 .. Len(l.args) :
          /\ l.text[l.open[i]] \in Quotes /\ l.text[close(i)] = l.text[l.open[i]]
          /\ Len(l.args[i]) \in 1 .. BufSize - 1 /\ ~Contains(l.args[i], star)
          /\ Len(l.place[i]) = Len(l.args[i])
          /\ IF i = Len(l.args) THEN Len(l.text) = close(i)
             ELSE l.text[close(i) + 1] = blank /\ l.open[i + 1] = close(i) + 2
          /\ \A j \in 1 .. Len(l.args[i]) :
               LET before == IF j = 1 THEN l.open[i] ELSE l.place[i][j - 1]
               IN /\ l.text[l.place[i][j]] = l.args[i][j]
                  /\ IF l.args[i][j] \in special(i)
                     THEN l.place[i][j] = before + 2 /\ l.text[before + 1] = "\\"
                     ELSE l.place[i][j] = before + 1

ASSUME LineAssumption ==
  /\ BufSize \in Nat \ {0}
  /\ QUIT \in DOMAIN Commands
  /\ \A c \in DOMAIN Commands : Commands[c].min <= Commands[c].max
  /\ Matches \subseteq Seq(Seq(STRING) \ {<<>>})
  /\ \A l \in Lines : l.text \in Seq(STRING) /\ (l.args = FREE \/ IsQuoted(l))

VARIABLES phase,       \* "chew", "glob", "execute", "prompt" (the line was
                       \* dealt with) or "quit"
          line,        \* the line typed
          rest,        \* the text from pnt on
          state,       \* state of gettoken
          quote,       \* the quote that opened the token
          buf,         \* the token so far
          tokens,      \* the tokens
          connected,   \* session.connected
          interrupted, \* interrupt_state
          aborted,     \* history: the last expansion was given up
          pressed,     \* history: the user interrupted the last expansion
          from,        \* history: the places in the text of the characters of buf
          raw,         \* history: the tokens as they were read, [token, from]
          ended,       \* history: why the tokens ended
          called       \* the handler called and its arguments, or none

chewing == <<rest, state, quote, buf, from>>
expansion == <<interrupted, aborted, pressed>>
history == <<raw, ended>>

lineVars == <<phase, line, chewing, tokens, connected, expansion, history, called>>

\* Where the text before pnt ends.
at == Len(line.text) - Len(rest)

None == [cmd |-> <<>>, args |-> <<>>]

LineTypeOK ==
  /\ phase \in {"chew", "glob", "execute", "prompt", "quit"}
  /\ Len(rest) <= Len(line.text) /\ rest = SubSeq(line.text, at + 1, Len(line.text))
  /\ state \in {0, 1, 2, 3, 4, 8, 9} /\ quote \in Quotes
  /\ Len(buf) <= BufSize /\ (phase # "chew" => Len(buf) < BufSize \/ ended = "overlong")
  /\ {connected, interrupted, aborted, pressed} \subseteq BOOLEAN
  /\ ended \in {"not", "line", "empty", "overlong", "comment"}
  /\ Len(raw) <= Len(line.text) /\ \A i \in 1 .. Len(tokens) : tokens[i] # <<>>
  /\ called.cmd \in DOMAIN Commands \cup {<<>>}

\* A line was typed; interrupt_state is what an earlier line left.
LineInit ==
  /\ phase = "chew" /\ line \in Lines
  /\ rest = line.text /\ state = 0 /\ quote = "'" /\ buf = <<>> /\ from = <<>>
  /\ tokens = <<>> /\ connected \in BOOLEAN
  /\ interrupted \in BOOLEAN /\ aborted = FALSE /\ pressed = FALSE
  /\ raw = <<>> /\ ended = "not" /\ called = None

-----------------------------------------------------------------------------
(* gettoken *)

Keep(c) == buf' = Append(buf, c) /\ from' = Append(from, at + 1)
Drop == UNCHANGED <<buf, from>>

\* Mutant: an opening quote ends the token.
LeadingEndsAtQuote(c) ==
  /\ state = 0
  /\ \/ c \in Quotes /\ state' = 9 /\ quote' = c /\ Drop
     \/ c = "#" /\ state' = 8 /\ quote' = quote /\ Drop
     \/ c = blank /\ UNCHANGED <<state, quote>> /\ Drop
     \/ c \notin Quotes \cup {"#", blank} /\ state' = 1 /\ Keep(c) /\ quote' = quote

Leading(c) ==
  /\ state = 0
  /\ \/ c \in Quotes /\ state' = 2 /\ quote' = c /\ Drop
     \/ c = "#" /\ state' = 8 /\ quote' = quote /\ Drop
     \/ c = blank /\ UNCHANGED <<state, quote>> /\ Drop
     \/ c \notin Quotes \cup {"#", blank} /\ state' = 1 /\ Keep(c) /\ quote' = quote

Normal(c) ==
  /\ state = 1
  /\ \/ c = blank /\ state' = 9 /\ Drop
     \/ c = "#" /\ state' = 8 /\ Drop
     \/ c = "\\" /\ state' = 3 /\ Drop
     \/ c \notin {blank, "#", "\\"} /\ state' = 1 /\ Keep(c)
  /\ UNCHANGED quote

\* Mutant: a comment starts in a quoted token too.
InQuoteComment(c) ==
  /\ state = 2
  /\ \/ c = quote /\ state' = 9 /\ Drop
     \/ c = "#" /\ state' = 8 /\ Drop
     \/ c # quote /\ c = "\\" /\ state' = 4 /\ Drop
     \/ c \notin {quote, "\\", "#"} /\ state' = 2 /\ Keep(c)
  /\ UNCHANGED quote

InQuote(c) ==
  /\ state = 2
  /\ \/ c = quote /\ state' = 9 /\ Drop
     \/ c # quote /\ c = "\\" /\ state' = 4 /\ Drop
     \/ c \notin {quote, "\\"} /\ state' = 2 /\ Keep(c)
  /\ UNCHANGED quote

Escaped(c) ==
  /\ state \in {3, 4}
  /\ state' = IF state = 3 THEN 1 ELSE 2
  /\ Keep(c)
  /\ UNCHANGED quote

Comment == state = 8 /\ UNCHANGED <<state, quote>> /\ Drop

\* The loop goes on.
Chews == rest # <<>> /\ state # 9 /\ Len(buf) < BufSize

Chew ==
  /\ phase = "chew" /\ Chews
  /\ LET c == Head(rest)
     IN Leading(c) \/ Normal(c) \/ InQuote(c) \/ Escaped(c) \/ Comment
  /\ rest' = Tail(rest)
  /\ UNCHANGED <<phase, line, tokens, connected, expansion, history, called>>

\* Mutant: a token that fills the buffer is used.
NoTokenFull ==
  /\ phase = "chew" /\ ~Chews
  /\ buf = <<>> \/ Len(buf) = BufSize
  /\ ended' = IF state = 9 THEN "empty" ELSE "line"
  /\ phase' = "execute"
  /\ UNCHANGED <<line, chewing, tokens, connected, expansion, raw, called>>

\* gettoken returns NULL: the tokens end here.
NoToken ==
  /\ phase = "chew" /\ ~Chews
  /\ buf = <<>> \/ Len(buf) = BufSize
  /\ ended' = IF Len(buf) = BufSize THEN "overlong"
              ELSE CASE state = 8 -> "comment"
                     [] state = 9 -> "empty"
                     [] OTHER     -> "line"
  /\ phase' = "execute"
  /\ UNCHANGED <<line, chewing, tokens, connected, expansion, raw, called>>

-----------------------------------------------------------------------------
(* parse_command *)

Name == IF tokens = <<>> THEN <<>> ELSE tokens[1]

\* get_command
Known(name) == name \in DOMAIN Commands

\* Patterns are expanded after the first token, quoted or not, unless the
\* command takes neither local nor remote names.
Expands(token) ==
  /\ tokens # <<>> /\ Known(Name)
  /\ Contains(token, star)
  /\ \/ Commands[Name].scope = "remote" /\ connected
     \/ Commands[Name].scope = "local"

\* Mutant: interrupt_state keeps the interrupt of the expansion before.
TokenKeepsInterrupt ==
  /\ phase = "chew" /\ ~Chews /\ buf # <<>> /\ Len(buf) < BufSize
  /\ raw' = Append(raw, [token |-> buf, from |-> from]) /\ from' = <<>>
  /\ state' = 0
  /\ IF Expands(buf)
     THEN /\ phase' = "glob" /\ pressed' = FALSE /\ aborted' = FALSE
          /\ UNCHANGED <<buf, tokens, interrupted>>
     ELSE /\ tokens' = Append(tokens, buf) /\ buf' = <<>>
          /\ UNCHANGED <<phase, expansion>>
  /\ UNCHANGED <<line, rest, quote, connected, ended, called>>

\* Mutant: the character after a token is skipped.
TokenSkips ==
  /\ phase = "chew" /\ ~Chews /\ buf # <<>> /\ Len(buf) < BufSize
  /\ raw' = Append(raw, [token |-> buf, from |-> from]) /\ from' = <<>>
  /\ rest' = IF rest = <<>> THEN rest ELSE Tail(rest)
  /\ state' = 0 /\ tokens' = Append(tokens, buf) /\ buf' = <<>>
  /\ UNCHANGED <<phase, line, quote, connected, expansion, ended, called>>

\* A token is added, or SIGINT is caught and its expansion starts.
Token ==
  /\ phase = "chew" /\ ~Chews /\ buf # <<>> /\ Len(buf) < BufSize
  /\ raw' = Append(raw, [token |-> buf, from |-> from]) /\ from' = <<>>
  /\ state' = 0
  /\ IF Expands(buf)
     THEN /\ phase' = "glob" /\ interrupted' = FALSE
          /\ pressed' = FALSE /\ aborted' = FALSE
          /\ UNCHANGED <<buf, tokens>>
     ELSE /\ tokens' = Append(tokens, buf) /\ buf' = <<>>
          /\ UNCHANGED <<phase, expansion>>
  /\ UNCHANGED <<line, rest, quote, connected, ended, called>>

\* davglob_interrupt
Interrupt ==
  /\ phase = "glob"
  /\ interrupted' = TRUE /\ pressed' = TRUE
  /\ UNCHANGED <<phase, line, chewing, tokens, connected, aborted, history, called>>

\* glob returns: with names, or with an error, and then the pattern stands for
\* itself.  The bundled glob gives up once it sees interrupt_state; that of the
\* C library never looks.
GlobEnds(names, fails) ==
  /\ phase = "glob"
  /\ fails = "aborted" => interrupted
  /\ tokens' = tokens \o (IF fails = "no" THEN names ELSE <<buf>>)
  /\ aborted' = (fails = "aborted")
  /\ buf' = <<>> /\ phase' = "chew"
  /\ UNCHANGED <<line, rest, state, quote, from, connected, interrupted, pressed,
                 history, called>>

-----------------------------------------------------------------------------
(* execute_command *)

\* The checks of execute_command, in their order.
Runs(name, args) ==
  /\ Known(name)
  /\ Len(args) \in Commands[name].min .. Commands[name].max
  /\ Commands[name].needs => connected

Execute ==
  /\ phase = "execute"
  /\ LET args == IF tokens = <<>> THEN <<>> ELSE Tail(tokens)
     IN /\ called' = IF Runs(Name, args) THEN [cmd |-> Name, args |-> args] ELSE None
        /\ phase' = IF Runs(Name, args) /\ Name = QUIT THEN "quit" ELSE "prompt"
  /\ UNCHANGED <<line, chewing, tokens, connected, expansion, history>>

LineNext ==
  \/ Chew \/ NoToken \/ Token \/ Interrupt \/ Execute
  \/ \E names \in Matches : GlobEnds(names, "no")
  \/ \E fails \in {"no match", "aborted"} : GlobEnds(<<>>, fails)

LineSpec == LineInit /\ [][LineNext]_lineVars

-----------------------------------------------------------------------------
(* Properties *)

\* Arguments the user put in quotes, with a backslash before each quote and
\* backslash in them, reach the handler as they were, whatever they hold but
\* patterns.
QuotedArrive ==
  called # None /\ line.args # FREE => called.args = line.args

Letter(c) == c \notin Quotes \cup {blank, "#", "\\"}

\* The places of the line that went into tokens.
KeptPlaces == UNION {{raw[i].from[j] : j \in 1 .. Len(raw[i].from)} : i \in 1 .. Len(raw)}

\* Each token is made of characters of the line, in their order and none twice,
\* and so are the tokens together.
TokensInOrder ==
  \A i \in 1 .. Len(raw) :
    /\ Len(raw[i].token) = Len(raw[i].from)
    /\ \A j \in 1 .. Len(raw[i].from) :
         /\ raw[i].token[j] = line.text[raw[i].from[j]]
         /\ \A k \in 1 .. j - 1 : raw[i].from[k] < raw[i].from[j]
         /\ \A h \in 1 .. i - 1 : \A k \in 1 .. Len(raw[h].from) :
              raw[h].from[k] < raw[i].from[j]

\* No letter of the line is lost between the first token and the end of the
\* tokens; none at all unless a comment, an empty quoted token or a token as long
\* as the buffer ended the line early.  A line without patterns is these tokens.
LettersKept ==
  phase \in {"execute", "prompt", "quit"} =>
    /\ TokensInOrder
    /\ \A p \in 1 .. Len(line.text) :
         /\ Letter(line.text[p])
         /\ \/ \E q \in KeptPlaces : p < q
            \/ ended = "line" /\ ~Contains(line.text, "#")
         => p \in KeptPlaces
    /\ ~Contains(line.text, star) => tokens = [i \in 1 .. Len(raw) |-> raw[i].token]

\* A line without a comment ends early only at quotes with nothing between them
\* or at a token the buffer cannot hold.
EndsEarly ==
  ended = "empty" =>
    \E i \in 1 .. Len(line.text) - 1 :
      line.text[i] \in Quotes /\ line.text[i + 1] = line.text[i]

\* A line means what was typed: its arguments, its letters and its end.
LineMeant == LineTypeOK /\ QuotedArrive /\ LettersKept /\ EndsEarly

\* An expansion is given up only when the user interrupts that expansion.
AbortedByUser == aborted => pressed
=============================================================================
