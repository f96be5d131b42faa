----------------------------- MODULE MCCommandLine -----------------------------
(* CommandLine with three commands of one letter and every line of up to five
   characters after the command. *)
EXTENDS CommandLine, TLC

CONSTANTS MaxTail  \* bound: characters after the command and its blank

c == <<"c">>
MCQuit == <<"q">>
MCCommands ==
  (c :> [min |-> 1, max |-> 2, needs |-> TRUE, scope |-> "remote"]) @@
  (<<"d">> :> [min |-> 0, max |-> 9, needs |-> FALSE, scope |-> "local"]) @@
  (MCQuit :> [min |-> 0, max |-> 1, needs |-> FALSE, scope |-> "none"])

Typed == {"x", blank, "'", "\"", "\\", "#", star}

\* Quoted arguments of up to two characters, in quotes of either kind.
Given == SeqOf({"x", blank, "\"", "\\", "#"}, 2) \ {<<>>}
ShieldChar(q, ch) == IF ch \in {q, "\\"} THEN <<"\\", ch>> ELSE <<ch>>
Shield(q, word) ==
  <<q>> \o FlattenSeq([i \in 1 .. Len(word) |-> ShieldChar(q, word[i])]) \o <<q>>

\* Where the characters of a word are whose opening quote is at o.
Places(o, q, word) ==
  [j \in 1 .. Len(word) |-> o - 1 + Len(Shield(q, SubSeq(word, 1, j))) - 1]

QuotedLine(q, v, w) ==
  LET first == Shield(q, v)
      second == 4 + Len(first)
  IN [text |-> <<"c", blank>> \o first \o <<blank>> \o Shield(q, w), args |-> <<v, w>>,
      open |-> <<3, second>>, place |-> <<Places(3, q, v), Places(second, q, w)>>]

MCLines ==
  {[text |-> <<name, blank>> \o tail, args |-> FREE] :
     name \in {"c", "d", "q", "z"}, tail \in SeqOf(Typed, MaxTail)} \cup
  {QuotedLine(q, v, w) : q \in Quotes, v \in Given, w \in Given}

MCMatches == {<<<<"x">>>>, <<<<"x">>, <<"c">>>>}
================================================================================
