----------------------------- MODULE TerminalProofs -----------------------------
(***************************************************************************)
(* Theorems about Terminal, for bodies of any size and any number of       *)
(* replacements by other clients.                                          *)
(***************************************************************************)
EXTENDS Terminal, TLAPS

---------------------------------------------------------------------------
(* The programs of the commands. *)

Openings == {"start", "download", "upload"}
Judges == {"close", "verdict", "blame", "stopBlame"}
Unfinished == {"propget", "discover", "history", "unlock"}
Ops == Openings \cup Judges \cup
       {"request", "lookup", "argument", "local", "unlessColl", "unlessPlain",
        "unlessSlash", "token", "capable", "match"}

\* The line of command c has been started before its k-th operation.
Started(c, k) == \E j \in 1 .. k - 1 : Program[c][j] \in Openings

\* What the programs have in common: a verdict ends them, a request is judged
\* next, an argument is checked before the line is started, and a line that a
\* success leaves unfinished is one of four commands' or that of a glob.
Shape(c, p) ==
  /\ Len(p) \in 1 .. 7 /\ p[1] # "match"
  /\ \A k \in 1 .. Len(p) :
       /\ p[k] \in Ops
       /\ p[k] \in {"verdict", "match"} => k = Len(p)
       /\ k = Len(p) => p[k] \in {"verdict", "match", "blame"} \/ c = "head"
       /\ p[k] = "request" /\ c # "head" => k < Len(p) /\ p[k + 1] \in Judges
       /\ p[k] = "close" => k < Len(p) /\ p[k + 1] = "verdict"
       /\ p[k] = "argument" => k = 1
       /\ p[k] = "token" => c = "unlock"
       /\ p[k] = "blame" => \/ c \in Unfinished /\ k = Len(p)
                            \/ c = "glob" /\ k < Len(p) /\ p[k + 1] = "match"
                            \/ \A j \in 1 .. k : p[j] \notin Openings
       /\ c = "head" => p[k] = "request"
       /\ p[k] \in {"download", "upload"} => c \in {"get", "put"}

\* Every program has that shape.
LEMMA Shapes == \A c \in Commands : Shape(c, Program[c])
  <1>1. Commands = {"mkcol", "propset", "checkin", "label", "ls", "lock", "unlock",
                    "rename", "delete", "rmcol", "chexec", "propget", "discover",
                    "history", "propnames", "cat", "less", "head", "search", "get",
                    "put", "glob"}
    BY DEF Commands, Program
  <1>2. Shape("mkcol", Program["mkcol"])
    BY DEF Program, Shape, Ops, Openings, Judges, Unfinished
  <1>3. Shape("propset", Program["propset"])
    BY DEF Program, Shape, Ops, Openings, Judges, Unfinished
  <1>4. Shape("checkin", Program["checkin"])
    BY DEF Program, Shape, Ops, Openings, Judges, Unfinished
  <1>5. Shape("label", Program["label"])
    BY DEF Program, Shape, Ops, Openings, Judges, Unfinished
  <1>6. Shape("ls", Program["ls"])
    BY DEF Program, Shape, Ops, Openings, Judges, Unfinished
  <1>7. Shape("lock", Program["lock"])
    BY DEF Program, Shape, Ops, Openings, Judges, Unfinished
  <1>8. Shape("unlock", Program["unlock"])
    BY DEF Program, Shape, Ops, Openings, Judges, Unfinished
  <1>9. Shape("rename", Program["rename"])
    BY DEF Program, Shape, Ops, Openings, Judges, Unfinished
  <1>10. Shape("delete", Program["delete"])
    BY DEF Program, Shape, Ops, Openings, Judges, Unfinished
  <1>11. Shape("rmcol", Program["rmcol"])
    BY DEF Program, Shape, Ops, Openings, Judges, Unfinished
  <1>12. Shape("chexec", Program["chexec"])
    BY DEF Program, Shape, Ops, Openings, Judges, Unfinished
  <1>13. Shape("propget", Program["propget"])
    BY DEF Program, Shape, Ops, Openings, Judges, Unfinished
  <1>14. Shape("discover", Program["discover"])
    BY DEF Program, Shape, Ops, Openings, Judges, Unfinished
  <1>15. Shape("history", Program["history"])
    BY DEF Program, Shape, Ops, Openings, Judges, Unfinished
  <1>16. Shape("propnames", Program["propnames"])
    BY DEF Program, Shape, Ops, Openings, Judges, Unfinished
  <1>17. Shape("cat", Program["cat"])
    BY DEF Program, Shape, Ops, Openings, Judges, Unfinished
  <1>18. Shape("less", Program["less"])
    BY DEF Program, Shape, Ops, Openings, Judges, Unfinished
  <1>19. Shape("head", Program["head"])
    BY DEF Program, Shape, Ops, Openings, Judges, Unfinished
  <1>20. Shape("search", Program["search"])
    BY DEF Program, Shape, Ops, Openings, Judges, Unfinished
  <1>21. Shape("get", Program["get"])
    BY DEF Program, Shape, Ops, Openings, Judges, Unfinished
  <1>22. Shape("put", Program["put"])
    BY DEF Program, Shape, Ops, Openings, Judges, Unfinished
  <1>23. Shape("glob", Program["glob"])
    BY DEF Program, Shape, Ops, Openings, Judges, Unfinished
  <1> QED BY <1>1, <1>2, <1>3, <1>4, <1>5, <1>6, <1>7, <1>8, <1>9, <1>10, <1>11, <1>12,
             <1>13, <1>14, <1>15, <1>16, <1>17, <1>18, <1>19, <1>20, <1>21, <1>22, <1>23

\* What a program says of the operation a command is at.
LEMMA AtOp ==
  ASSUME cmd \in Commands, step \in 1 .. Len(Program[cmd])
  PROVE  /\ Len(Program[cmd]) \in 1 .. 7
         /\ Op \in Ops
         /\ Op \in {"verdict", "match"} => step = Len(Program[cmd])
         /\ step = Len(Program[cmd]) => Op \in {"verdict", "match", "blame"} \/ cmd = "head"
         /\ Op = "request" /\ cmd # "head" =>
              step < Len(Program[cmd]) /\ Program[cmd][step + 1] \in Judges
         /\ Op = "close" => step < Len(Program[cmd]) /\ Program[cmd][step + 1] = "verdict"
         /\ Op = "argument" => step = 1
         /\ Op = "token" => cmd = "unlock"
         /\ Op = "blame" => \/ cmd \in Unfinished /\ step = Len(Program[cmd])
                            \/ cmd = "glob" /\ step < Len(Program[cmd])
                               /\ Program[cmd][step + 1] = "match"
                            \/ ~Started(cmd, step + 1)
         /\ cmd = "head" => Op = "request"
         /\ Op \in {"download", "upload"} => cmd \in {"get", "put"}
  <1>1. Shape(cmd, Program[cmd])
    BY Shapes
  <1>2. /\ Len(Program[cmd]) \in 1 .. 7
        /\ \A k \in 1 .. Len(Program[cmd]) :
             Program[cmd][k] = "blame" =>
               \/ cmd \in Unfinished /\ k = Len(Program[cmd])
               \/ cmd = "glob" /\ k < Len(Program[cmd]) /\ Program[cmd][k + 1] = "match"
               \/ \A j \in 1 .. k : Program[cmd][j] \notin Openings
    BY <1>1 DEF Shape
  <1>3. step + 1 - 1 = step
    BY <1>2
  <1>4. Op = "blame" => \/ cmd \in Unfinished /\ step = Len(Program[cmd])
                        \/ cmd = "glob" /\ step < Len(Program[cmd])
                           /\ Program[cmd][step + 1] = "match"
                        \/ ~Started(cmd, step + 1)
    BY <1>2, <1>3 DEF Op, Started
  <1> QED BY <1>1, <1>4 DEF Shape, Op

\* Where the line is started.
LEMMA StartedNext ==
  ASSUME NEW c, NEW k \in Nat \ {0}
  PROVE  /\ ~Started(c, 1)
         /\ Started(c, k + 1) <=> Started(c, k) \/ Program[c][k] \in Openings
  BY DEF Started

---------------------------------------------------------------------------
(* Types. *)

\* Where a command is in its program.
ControlInv ==
  /\ pc \in {"prompt", "command", "wire"}
  /\ cmd \in Commands \cup {"none"}
  /\ pc = "prompt" => step = 1
  /\ pc # "prompt" => cmd \in Commands /\ step \in 1 .. Len(Program[cmd]) + 1
  /\ pc = "wire" => step \in 1 .. Len(Program[cmd]) /\ Op \in {"request", "lookup"}

FlagTypes ==
  /\ out_state \in {"none", "incommand", "upload", "download", "plain", "pretty",
                    "done"}
  /\ ret \in {"none", "ok", "failed"}
  /\ tty \in BOOLEAN /\ isColl \in BOOLEAN /\ redirected \in BOOLEAN
  /\ challenged \in BOOLEAN /\ lookupLost \in BOOLEAN
  /\ wire \in Wire
  /\ said \in {"nothing", "success", "failure"}
  /\ real \in {"coll", "plain"} /\ changes \in 0 .. MaxChanges
  /\ deleted \in {"nothing", "coll", "plain"}
  /\ begun \in Commands \cup {"none"}

\* A command stays within its program.
LEMMA ControlStep ==
  ASSUME ControlInv, [Next]_vars
  PROVE  ControlInv'
  <1> USE DEF ControlInv, Op
  <1>0. \A c \in Commands : Len(Program[c]) \in 1 .. 7
    BY Shapes DEF Shape
  <1>1. CASE Command
    BY <1>0, <1>1 DEF Command
  <1>2. CASE Local
    <2>1. pc = "command" /\ step <= Len(Program[cmd]) /\ cmd' = cmd
      BY <1>2 DEF Local
    <2>2. Goes \/ Returns
      BY <1>2 DEF Local, StopsLine, StopsApart, NoFile, Blame
    <2> QED BY <1>0, <2>1, <2>2 DEF Goes, Returns
  <1>3. CASE Close
    BY <1>0, <1>3 DEF Close, Goes
  <1>4. CASE End
    BY <1>4 DEF End, Returns
  <1>5. CASE Send
    BY <1>0, <1>5 DEF Send, wireOnly
  <1>6. CASE Part \/ AnswerBegins \/ Again
    BY <1>6 DEF Part, AnswerBegins, Again, wireOnly
  <1>7. CASE Redirect
    BY <1>7 DEF Redirect
  <1>8. CASE Answer \/ Lost
    BY <1>0, <1>8 DEF Answer, Lost
  <1>9. CASE OtherClient \/ UNCHANGED vars
    BY <1>9 DEF OtherClient, vars
  <1> QED BY <1>1, <1>2, <1>3, <1>4, <1>5, <1>6, <1>7, <1>8, <1>9 DEF Next

\* What the notifier makes of the state of the output.
LEMMA NotifiedState ==
  ASSUME FlagTypes, NEW dir, NEW progress, NEW total, Notified(dir, progress, total)
  PROVE  /\ out_state' \in {"none", "incommand", "upload", "download", "plain",
                           "pretty", "done"}
         /\ out_state \in {"none", "incommand"} => UNCHANGED <<out_state, drawn>>
  BY DEF Notified, FlagTypes, Bar

\* What is on the wire after a notification.
LEMMA OnWireTypes ==
  ASSUME FlagTypes, NEW dir \in {"sending", "recving"}, NEW progress \in 0 .. MaxSize,
         NEW total \in -1 .. MaxSize, OnWire(dir, progress, total)
  PROVE  /\ wire' = [dir |-> dir, progress |-> progress, total |-> total,
                     body |-> wire.body]
         /\ wire' \in Wire
         /\ out_state' \in {"none", "incommand", "upload", "download", "plain",
                           "pretty", "done"}
         /\ out_state \in {"none", "incommand"} => UNCHANGED <<out_state, drawn>>
         /\ UNCHANGED <<said, begun>>
  <1>1. wire' = [wire EXCEPT !.dir = dir, !.progress = progress, !.total = total]
    BY DEF OnWire
  <1>2. /\ wire' = [dir |-> dir, progress |-> progress, total |-> total,
                    body |-> wire.body]
        /\ wire' \in Wire
    BY <1>1 DEF FlagTypes, Wire
  <1>3. /\ out_state' \in {"none", "incommand", "upload", "download", "plain",
                           "pretty", "done"}
        /\ out_state \in {"none", "incommand"} => UNCHANGED <<out_state, drawn>>
    BY NotifiedState DEF OnWire, FlagTypes
  <1> QED BY <1>2, <1>3 DEF OnWire

\* The flags and the wire keep their types.
LEMMA FlagTypesStep ==
  ASSUME ControlInv, FlagTypes, [Next]_vars
  PROVE  FlagTypes'
  <1>0. /\ MaxSize \in Nat \ {0} /\ MaxChanges \in Nat
        /\ NoWire \in Wire /\ 0 \in 0 .. MaxChanges /\ 0 \in 0 .. MaxSize
        /\ 0 \in -1 .. MaxSize /\ -1 \in -1 .. MaxSize
    BY TerminalAssumption DEF NoWire, Wire
  <1>1. CASE Command
    BY <1>0, <1>1 DEF Command, FlagTypes
  <1>2. CASE Local
    <2>1. UNCHANGED <<cmd, tty, ret, lookup, wire, server, challenged, deleted>>
      BY <1>2 DEF Local
    <2>2. \/ UNCHANGED line
          \/ UNCHANGED <<out_state, begun>> /\ said' = "failure"
          \/ Finish("failure") \/ Finish("success")
          \/ Starts("incommand") \/ Starts("upload") \/ Starts("download")
      BY <1>2 DEF Local, NoFile, StopsLine, StopsApart, Blame
    <2>3. cmd \in Commands
      BY <1>2 DEF Local, ControlInv
    <2> QED BY <2>1, <2>2, <2>3
            DEF FlagTypes, lookup, server, line, Finish, Starts
  <1>3. CASE Close \/ End
    BY <1>3 DEF Close, End, FlagTypes, line, lookup, server
  <1>4. CASE Send
    <2>1. PICK body \in 0 .. MaxSize :
            /\ wire' = [dir |-> "sending", progress |-> 0, total |-> body, body |-> body]
            /\ UNCHANGED <<out_state, drawn>> \/ Notified("sending", 0, body)
      BY <1>0, <1>4 DEF Send
    <2>2. wire' \in Wire
      BY <1>0, <2>1 DEF Wire
    <2> QED BY <1>4, <2>1, <2>2, NotifiedState DEF Send, FlagTypes, wireOnly, lookup, server
  <1>5. CASE Part
    <2>1. /\ wire.progress + 1 \in 0 .. MaxSize /\ wire.total \in -1 .. MaxSize
          /\ wire.dir \in {"sending", "recving"}
          /\ OnWire(wire.dir, wire.progress + 1, wire.total)
      BY <1>0, <1>5 DEF Part, FlagTypes, Wire
    <2> QED BY <1>5, <2>1, OnWireTypes DEF Part, FlagTypes, wireOnly, lookup, server
  <1>6. CASE AnswerBegins
    <2>1. PICK total \in -1 .. MaxSize : OnWire("recving", 0, total)
      BY <1>0, <1>6 DEF AnswerBegins
    <2> QED BY <1>0, <1>6, <2>1, OnWireTypes
            DEF AnswerBegins, FlagTypes, wireOnly, lookup, server
  <1>7. CASE Again
    <2>1. wire.body \in -1 .. MaxSize
      BY <1>0 DEF FlagTypes, Wire
    <2> QED BY <1>0, <1>7, <2>1, OnWireTypes DEF Again, FlagTypes, wireOnly, lookup, server
  <1>8. CASE Redirect
    BY <1>0, <1>8, OnWireTypes DEF Redirect, FlagTypes, server
  <1>9. CASE Answer \/ Lost
    BY <1>9 DEF Answer, Lost, Unanswered, FlagTypes, line, lookup, server
  <1>10. CASE OtherClient
    BY <1>0, <1>10 DEF OtherClient, FlagTypes, line, lookup
  <1>11. CASE UNCHANGED vars
    BY <1>11 DEF vars, FlagTypes, line, lookup, server
  <1> QED BY <1>1, <1>2, <1>3, <1>4, <1>5, <1>6, <1>7, <1>8, <1>9, <1>10, <1>11 DEF Next

\* Both hold throughout.
LEMMA TypesInvariant == Spec => [](ControlInv /\ FlagTypes)
  <1>1. Init => ControlInv
    BY DEF Init, ControlInv
  <1>2. Init => FlagTypes
    <2>1. 0 \in 0 .. MaxChanges /\ NoWire \in Wire
      BY TerminalAssumption DEF NoWire, Wire
    <2> QED BY <2>1 DEF Init, FlagTypes
  <1>3. ControlInv /\ FlagTypes /\ [Next]_vars => ControlInv' /\ FlagTypes'
    BY ControlStep, FlagTypesStep
  <1> QED BY <1>1, <1>2, <1>3, PTL DEF Spec

\* Requests leave the lines that are not of a transfer alone, and no request
\* starts one.
LEMMA WireKeepsLine ==
  ASSUME ControlInv, FlagTypes,
         Send \/ Part \/ AnswerBegins \/ Again \/ Redirect
  PROVE  /\ UNCHANGED <<cmd, step, ret, said, begun>> /\ pc' = "wire"
         /\ out_state \in {"none", "incommand"} => UNCHANGED <<out_state, drawn>>
  <1>0. MaxSize \in Nat \ {0} /\ 0 \in 0 .. MaxSize /\ 0 \in -1 .. MaxSize
        /\ -1 \in -1 .. MaxSize
    BY TerminalAssumption
  <1>1. CASE Send
    BY <1>0, <1>1, NotifiedState DEF Send, wireOnly
  <1>2. CASE Part
    <2>1. /\ wire.progress + 1 \in 0 .. MaxSize /\ wire.total \in -1 .. MaxSize
          /\ wire.dir \in {"sending", "recving"}
          /\ OnWire(wire.dir, wire.progress + 1, wire.total)
      BY <1>0, <1>2 DEF Part, FlagTypes, Wire
    <2> QED BY <1>2, <2>1, OnWireTypes DEF Part, wireOnly
  <1>3. CASE AnswerBegins
    <2>1. PICK total \in -1 .. MaxSize : OnWire("recving", 0, total)
      BY <1>0, <1>3 DEF AnswerBegins
    <2> QED BY <1>0, <1>3, <2>1, OnWireTypes DEF AnswerBegins, wireOnly
  <1>4. CASE Again
    <2>1. wire.body \in -1 .. MaxSize
      BY <1>0 DEF FlagTypes, Wire
    <2> QED BY <1>0, <1>4, <2>1, OnWireTypes DEF Again, ControlInv, wireOnly
  <1>5. CASE Redirect
    BY <1>0, <1>5, OnWireTypes DEF Redirect
  <1> QED BY <1>1, <1>2, <1>3, <1>4, <1>5

---------------------------------------------------------------------------
(* The line of a command. *)

\* No line, or one that an earlier command never finished.
Leftover == out_state = "none" \/ (out_state = "incommand" /\ begun \in Unfinished)

\* A line started by this command is its own until it is finished, and nothing
\* else is on the way when a command ends or has not started its line.
LineInv ==
  /\ pc = "prompt" => Leftover
  /\ pc # "prompt" /\ step > Len(Program[cmd]) => Leftover
  /\ pc # "prompt" /\ ~Started(cmd, step) => Leftover
  /\ pc # "prompt" /\ cmd \notin {"get", "put"} => out_state \in {"none", "incommand"}
  /\ pc # "prompt" /\ Started(cmd, step) => out_state = "none" \/ begun = cmd

\* Every step keeps it.
LEMMA LineStep ==
  ASSUME ControlInv, FlagTypes, LineInv, [Next]_vars
  PROVE  LineInv'
  <1> USE DEF LineInv, Leftover
  <1>0. \A c \in Commands : Len(Program[c]) \in 1 .. 7
    BY Shapes DEF Shape
  <1>1. CASE Command
    <2>1. cmd' \in Commands /\ step' = 1 /\ pc' = "command" /\ Leftover
      BY <1>1 DEF Command
    <2>2. ~Started(cmd', step') /\ Len(Program[cmd']) >= 1
      BY <1>0, <2>1, StartedNext
    <2> QED BY <1>1, <2>1, <2>2 DEF Command
  <1>2. CASE Local
    <2>1. /\ cmd \in Commands /\ step \in 1 .. Len(Program[cmd]) /\ cmd' = cmd
          /\ pc = "command"
      BY <1>0, <1>2 DEF Local, ControlInv
    <2>2. Started(cmd, step + 1) <=> Started(cmd, step) \/ Op \in Openings
      BY <1>0, <2>1, StartedNext DEF Op
    <2>3. Op \in Ops /\ (cmd = "head" => Op = "request")
          /\ (step = Len(Program[cmd]) => Op \in {"verdict", "match", "blame"} \/ cmd = "head")
      BY <2>1, AtOp
    <2>4. /\ Len(Program[cmd]) \in 1 .. 7 /\ step \in Nat
          /\ step # Len(Program[cmd]) => step < Len(Program[cmd])
      BY <1>0, <2>1
    <2>5. Started(cmd, step) => ~(step = 1)
      BY StartedNext
    <2>6. CASE Op \in Openings
      <3>1. Goes /\ \/ Op = "start" /\ Starts("incommand")
                    \/ Op = "download" /\ Starts("download")
                    \/ Op = "upload" /\ Starts("upload")
        BY <1>2, <2>6 DEF Local, Openings
      <3>2. step < Len(Program[cmd])
        BY <2>3, <2>4, <2>6 DEF Openings
      <3>3. Op \in {"download", "upload"} => cmd \in {"get", "put"}
        BY <2>1, AtOp
      <3>4. pc' = "command" /\ step' = step + 1 /\ begun' = cmd /\ Started(cmd', step')
            /\ (cmd \notin {"get", "put"} => out_state' = "incommand")
        BY <2>1, <2>2, <2>6, <3>1, <3>3 DEF Goes, Starts
      <3> QED BY <2>1, <2>4, <3>2, <3>4
    <2>7. CASE Op \notin Openings /\ Goes /\ UNCHANGED line
      <3>1. pc' = "command" /\ step' = step + 1
            /\ out_state' = out_state /\ begun' = begun
        BY <2>1, <2>7 DEF Goes, line
      <3>2. CASE step < Len(Program[cmd])
        BY <2>1, <2>2, <2>4, <2>7, <3>1, <3>2
      <3>3. CASE step = Len(Program[cmd])
        <4>1. Op = "blame" \/ out_state' = "none"
          BY <1>2, <2>3, <2>7, <3>3 DEF Local, Finish
        <4>2. CASE Op = "blame"
          <5>1. cmd \in Unfinished \/ ~Started(cmd, step + 1)
            BY <2>1, <2>4, <3>3, <4>2, AtOp
          <5>2. cmd \in Unfinished => cmd \notin {"get", "put"}
            BY DEF Unfinished
          <5>3. Leftover
            BY <2>1, <2>2, <5>1, <5>2
          <5> QED BY <2>1, <2>2, <2>7, <3>1, <5>3
        <4>3. CASE out_state' = "none"
          BY <2>1, <3>1, <4>3
        <4> QED BY <4>1, <4>2, <4>3
      <3> QED BY <2>4, <3>2, <3>3
    <2>8. CASE Op = "token" /\ Returns /\ UNCHANGED line
      <3>1. cmd = "unlock" /\ cmd \in Unfinished /\ cmd \notin {"get", "put"}
        BY <2>1, <2>8, AtOp DEF Unfinished
      <3>2. Leftover
        BY <2>1, <3>1
      <3> QED BY <2>8, <3>2 DEF Returns, line
    <2>9. CASE Op = "argument" /\ StopsApart
      <3>1. step = 1
        BY <2>1, <2>9, AtOp
      <3>2. Leftover
        BY <2>1, <2>5, <3>1
      <3> QED BY <2>9, <3>2 DEF StopsApart, Returns
    <2>10. CASE (Goes \/ Returns) /\ out_state' = "none"
      BY <2>1, <2>10 DEF Goes, Returns
    <2> QED BY <1>2, <2>6, <2>7, <2>8, <2>9, <2>10
            DEF Local, Blame, StopsLine, NoFile, Finish, Openings
  <1>3. CASE Close
    <2>1. /\ cmd \in Commands /\ step \in 1 .. Len(Program[cmd]) /\ cmd' = cmd
          /\ pc = "command" /\ pc' = "command" /\ step' = step + 1 /\ Op = "close"
          /\ out_state' = out_state /\ begun' = begun
      BY <1>0, <1>3 DEF Close, ControlInv, Goes, line
    <2>2. Started(cmd, step + 1) <=> Started(cmd, step)
      BY <1>0, <2>1, StartedNext DEF Op, Openings
    <2>3. step < Len(Program[cmd]) /\ Len(Program[cmd]) \in 1 .. 7
      BY <2>1, AtOp
    <2> QED BY <2>1, <2>2, <2>3
  <1>4. CASE End
    BY <1>4 DEF End, Returns, line
  <1>5. CASE Send \/ Part \/ AnswerBegins \/ Again \/ Redirect
    <2>1. /\ UNCHANGED <<cmd, step, begun>> /\ pc' = "wire"
          /\ out_state \in {"none", "incommand"} => UNCHANGED out_state
      BY <1>5, WireKeepsLine
    <2>2. pc # "prompt" /\ step \in 1 .. Len(Program[cmd]) /\ cmd \in Commands
      BY <1>0, <1>5 DEF Send, Part, AnswerBegins, Again, Redirect, ControlInv
    <2>3. Len(Program[cmd]) \in 1 .. 7
      BY <1>0, <2>2
    <2>4. ~Started(cmd, step) => Leftover'
      BY <2>1, <2>2
    <2>5. Started(cmd, step) => (out_state = "none" \/ begun = cmd)'
      BY <2>1, <2>2
    <2> QED BY <2>1, <2>2, <2>3, <2>4, <2>5
  <1>6. CASE Answer \/ Lost
    <2>1. /\ cmd \in Commands /\ step \in 1 .. Len(Program[cmd]) /\ cmd' = cmd
          /\ pc = "wire" /\ pc' = "command" /\ step' = step + 1
          /\ Op \in {"request", "lookup"}
          /\ out_state' = out_state /\ begun' = begun
      BY <1>0, <1>6 DEF Answer, Lost, ControlInv, line
    <2>2. Started(cmd, step + 1) <=> Started(cmd, step)
      BY <1>0, <2>1, StartedNext DEF Op, Openings
    <2>3. /\ Len(Program[cmd]) \in 1 .. 7
          /\ step < Len(Program[cmd]) \/ cmd = "head"
      BY <1>0, <2>1, AtOp
    <2>4. cmd = "head" => ~Started(cmd, step + 1)
      <3>1. cmd = "head" => Program[cmd] = <<"request">>
        BY DEF Program
      <3> QED BY <2>1, <2>3, <3>1, <1>0 DEF Started, Openings
    <2> QED BY <2>1, <2>2, <2>3, <2>4
  <1>7. CASE OtherClient \/ UNCHANGED vars
    BY <1>7 DEF OtherClient, vars, line
  <1> QED BY <1>1, <1>2, <1>3, <1>4, <1>5, <1>6, <1>7 DEF Next

\* The line is kept throughout.
LEMMA LineInvariant == Spec => []LineInv
  <1>1. Init => LineInv
    BY DEF Init, LineInv, Leftover
  <1>2. ControlInv /\ FlagTypes /\ LineInv /\ [Next]_vars => LineInv'
    BY LineStep
  <1> QED BY <1>1, <1>2, TypesInvariant, PTL DEF Spec

---------------------------------------------------------------------------
(* The verdict of a command. *)

\* A failure that was not told is about to be judged by the operation that the
\* command has come to, and a success was told at the end.
ToldInv ==
  /\ /\ pc # "prompt" /\ ret = "failed" /\ said # "failure" /\ cmd # "head"
     => step <= Len(Program[cmd]) /\ Op \in Judges
  /\ pc = "prompt" /\ ret = "failed" => said = "failure" \/ cmd = "head"
  /\ said = "success" => ret = "ok" /\ (pc = "prompt" \/ step > Len(Program[cmd]))

\* Every step keeps it.
LEMMA ToldStep ==
  ASSUME ControlInv, FlagTypes, ToldInv, [Next]_vars
  PROVE  ToldInv'
  <1>0. \A c \in Commands : Len(Program[c]) \in 1 .. 7
    BY Shapes DEF Shape
  <1>1. CASE Command
    BY <1>1 DEF Command, ToldInv
  <1>2. CASE Local
    <2>1. /\ cmd \in Commands /\ step \in 1 .. Len(Program[cmd]) /\ cmd' = cmd
          /\ pc = "command" /\ ret' = ret /\ Len(Program[cmd]) \in 1 .. 7
          /\ step <= Len(Program[cmd]) /\ ~(step > Len(Program[cmd]))
      BY <1>0, <1>2 DEF Local, ControlInv
    <2>2. said # "success"
      BY <2>1 DEF ToldInv
    <2>3. CASE Op = "verdict" \/ Op = "match"
      <3>1. /\ pc' = "command" /\ step' = step + 1
            /\ said' \in {"success", "failure"}
            /\ said' = "success" => ret = "ok"
        BY <1>2, <2>1, <2>3 DEF Local, Goes, Finish
      <3>2. step = Len(Program[cmd])
        BY <2>1, <2>3, AtOp
      <3>3. step' > Len(Program[cmd]')
        BY <2>1, <3>1, <3>2
      <3> QED BY <2>1, <3>1, <3>3 DEF ToldInv, FlagTypes
    <2>4. CASE Op = "blame" \/ Op = "stopBlame"
      <3>1. \/ ret = "failed" /\ said' = "failure"
            \/ ret # "failed" /\ said' = said
        BY <1>2, <2>4 DEF Local, Blame, Finish, StopsLine, line
      <3> QED BY <2>1, <2>2, <3>1 DEF ToldInv
    <2>5. CASE Op \notin {"verdict", "match", "blame", "stopBlame", "close"}
      <3>1. said' = "failure" \/ said' = said
        BY <1>2, <2>5 DEF Local, StopsLine, StopsApart, NoFile, Finish, Starts, line
      <3>2. ret = "failed" => said = "failure" \/ cmd = "head"
        BY <2>1, <2>5 DEF ToldInv, Judges
      <3> QED BY <2>1, <2>2, <3>1, <3>2 DEF ToldInv
    <2>6. Op # "close"
      BY <1>2 DEF Local
    <2> QED BY <2>3, <2>4, <2>5, <2>6
  <1>3. CASE Close
    <2>1. /\ cmd \in Commands /\ step \in 1 .. Len(Program[cmd]) /\ cmd' = cmd
          /\ pc = "command" /\ pc' = "command" /\ step' = step + 1 /\ Op = "close"
          /\ said' = said
      BY <1>0, <1>3 DEF Close, ControlInv, Goes, line
    <2>2. /\ Len(Program[cmd]) \in 1 .. 7 /\ step < Len(Program[cmd])
          /\ Program[cmd][step + 1] = "verdict"
      BY <2>1, AtOp
    <2>3. step' <= Len(Program[cmd']) /\ Op' = "verdict" /\ ~(step > Len(Program[cmd]))
      BY <2>1, <2>2 DEF Op
    <2> QED BY <2>1, <2>3 DEF ToldInv, Judges
  <1>4. CASE End
    <2>1. ~(step <= Len(Program[cmd])) /\ pc = "command"
      BY <1>0, <1>4 DEF End, ControlInv
    <2> QED BY <1>4, <2>1 DEF ToldInv, End, Returns, line
  <1>5. CASE Send \/ Part \/ AnswerBegins \/ Again \/ Redirect
    <2>1. UNCHANGED <<cmd, step, ret, said>> /\ pc' = "wire"
      BY <1>5, WireKeepsLine
    <2>2. pc # "prompt"
      BY <1>5 DEF Send, Part, AnswerBegins, Again, Redirect
    <2> QED BY <2>1, <2>2 DEF ToldInv, Op
  <1>6. CASE Answer \/ Lost
    <2>1. /\ cmd \in Commands /\ step \in 1 .. Len(Program[cmd]) /\ cmd' = cmd
          /\ pc = "wire" /\ pc' = "command" /\ step' = step + 1
          /\ Op \in {"request", "lookup"} /\ Op \notin Judges
          /\ said' = said /\ Len(Program[cmd]) \in 1 .. 7
      BY <1>0, <1>6 DEF Answer, Lost, ControlInv, line, Judges
    <2>2. said # "success"
      BY <2>1 DEF ToldInv
    <2>3. CASE Op = "request"
      <3>1. cmd # "head" => step' <= Len(Program[cmd']) /\ Op' \in Judges
        BY <2>1, <2>3, AtOp DEF Op
      <3> QED BY <2>1, <2>2, <3>1 DEF ToldInv
    <2>4. CASE Op = "lookup"
      <3>1. ret' = ret
        BY <1>6, <2>4 DEF Answer, Lost
      <3> QED BY <2>1, <2>2, <3>1 DEF ToldInv
    <2> QED BY <2>1, <2>3, <2>4
  <1>7. CASE OtherClient \/ UNCHANGED vars
    BY <1>7 DEF OtherClient, vars, line, ToldInv, Op
  <1> QED BY <1>1, <1>2, <1>3, <1>4, <1>5, <1>6, <1>7 DEF Next

\* A verdict is the truth throughout.
LEMMA ToldInvariant == Spec => []ToldInv
  <1>1. Init => ToldInv
    BY DEF Init, ToldInv
  <1>2. ControlInv /\ FlagTypes /\ ToldInv /\ [Next]_vars => ToldInv'
    BY ToldStep
  <1> QED BY <1>1, <1>2, TypesInvariant, PTL DEF Spec

---------------------------------------------------------------------------
(* The progress bar. *)

Bars == {<<>>} \cup ((0 .. MaxSize) \X (1 .. MaxSize))

\* The bar of a get on the wire: it follows the body of the answer, and a bar
\* that is complete is that of this answer or of a challenge before it.
GetBar ==
  /\ out_state \in {"download", "plain", "pretty", "done"}
  /\ out_state \in {"download", "plain"} => drawn = <<>>
  /\ wire.body = 0 /\ (wire.dir = "sending" => wire.total = 0)
  /\ out_state = "download" => wire.dir = "sending"
  /\ out_state = "pretty" => /\ wire.dir = "recving" /\ wire.progress < wire.total
                             /\ drawn = <<>> \/ drawn[2] = wire.total
  /\ out_state = "done" /\ drawn # <<>> =>
       /\ drawn[1] = drawn[2]
       /\ challenged \/ (wire.dir = "recving" /\ drawn[2] = wire.total)

\* That of a put follows the body it sends, each time it is sent.
PutBar ==
  /\ out_state \in {"upload", "plain", "pretty", "done"}
  /\ out_state \in {"upload", "plain"} => drawn = <<>>
  /\ out_state = "upload" => wire.body = 0
  /\ wire.dir = "sending" => wire.total = wire.body
  /\ out_state = "pretty" => /\ wire.dir = "sending" /\ wire.progress < wire.total
                             /\ drawn = <<>> \/ drawn[2] = wire.body
  /\ out_state = "done" /\ drawn # <<>> => drawn[1] = drawn[2] /\ drawn[2] = wire.body

\* A bar that a transfer may leave on the screen.
BarDone ==
  drawn # <<>> => /\ drawn[1] = drawn[2]
                  /\ ~challenged => drawn[2] = IF cmd = "put" THEN wire.body ELSE wire.total

\* The operation of a transfer that is its request.
Transfer(c) == IF c = "get" THEN 4 ELSE 3

BarInv ==
  /\ drawn \in Bars
  /\ pc # "prompt" /\ cmd \notin {"get", "put"} => drawn = <<>>
  /\ pc = "command" /\ cmd \in {"get", "put"} /\ step <= Transfer(cmd) =>
       /\ drawn = <<>> /\ ret = "none"
       /\ cmd = "get" /\ step > 2 => out_state = "download"
       /\ cmd = "put" /\ step > 1 => out_state = "upload"
  /\ pc = "wire" /\ cmd = "get" => GetBar
  /\ pc = "wire" /\ cmd = "put" => PutBar
  /\ pc = "command" /\ cmd \in {"get", "put"} /\ ret = "ok" => BarDone
  /\ pc = "prompt" /\ said = "success" => BarDone

\* What the programs of the transfers are.
LEMMA TransferPrograms ==
  /\ Program["get"] = <<"argument", "download", "local", "request", "close", "verdict">>
  /\ Program["put"] = <<"upload", "local", "request", "verdict">>
  /\ "get" \in Commands /\ "put" \in Commands
  BY DEF Program, Commands

\* A bar is drawn while it is shown, and is left at the parts of its body.
LEMMA NotifiedBar ==
  ASSUME FlagTypes, drawn \in Bars, NEW dir, NEW progress \in 0 .. MaxSize,
         NEW total \in -1 .. MaxSize,
         out_state \in {"download", "upload", "plain"} => drawn = <<>>,
         out_state = "pretty" => total > 0,
         progress <= total \/ total = -1,
         Notified(dir, progress, total)
  PROVE  /\ drawn' \in Bars
         /\ out_state = "download" =>
              IF dir = "recving" THEN \/ out_state' = "plain" /\ drawn' = <<>>
                                      \/ /\ out_state' = "pretty" /\ total > 0
                                         /\ drawn' \in {<<>>, <<progress, total>>}
              ELSE UNCHANGED <<out_state, drawn>>
         /\ out_state = "upload" =>
              IF dir = "sending" THEN \/ out_state' = "plain" /\ drawn' = <<>>
                                      \/ /\ out_state' = "pretty" /\ total > 0
                                         /\ drawn' \in {<<>>, <<progress, total>>}
              ELSE UNCHANGED <<out_state, drawn>>
         /\ out_state = "plain" => out_state' \in {"plain", "done"} /\ drawn' = <<>>
         /\ out_state = "pretty" =>
              \/ /\ out_state' = "pretty" /\ progress < total
                 /\ drawn' \in {drawn, <<progress, total>>}
              \/ /\ out_state' = "done" /\ progress = total
                 /\ drawn' = <<progress, total>>
         /\ out_state = "done" => UNCHANGED <<out_state, drawn>>
  <1>0. MaxSize \in Nat \ {0}
    BY TerminalAssumption
  <1>1. total > 0 => <<progress, total>> \in Bars
    BY <1>0 DEF Bars
  <1>2. CASE out_state = "download"
    BY <1>0, <1>1, <1>2 DEF Notified, Pretty, Bar
  <1>3. CASE out_state = "upload"
    BY <1>0, <1>1, <1>3 DEF Notified, Pretty, Bar
  <1>4. CASE out_state = "plain"
    BY <1>0, <1>4 DEF Notified
  <1>5. CASE out_state = "pretty"
    BY <1>0, <1>1, <1>5 DEF Notified, Bar
  <1>6. CASE out_state \in {"none", "incommand", "done"}
    BY <1>6 DEF Notified
  <1> QED BY <1>2, <1>3, <1>4, <1>5, <1>6 DEF FlagTypes

\* The steps of the request of a get.
LEMMA GetWire ==
  ASSUME FlagTypes, drawn \in Bars, cmd = "get", GetBar, Part \/ AnswerBegins \/ Again
  PROVE  GetBar' /\ drawn' \in Bars
  <1>0. MaxSize \in Nat \ {0} /\ 0 \in 0 .. MaxSize /\ 0 \in -1 .. MaxSize
        /\ -1 \in -1 .. MaxSize
    BY TerminalAssumption
  <1>a. /\ wire.progress \in 0 .. MaxSize /\ wire.total \in -1 .. MaxSize
        /\ wire.dir \in {"sending", "recving"} /\ wire.body = 0
    BY DEF FlagTypes, Wire, GetBar
  <1>1. CASE Part
    <2>1. /\ wire.progress + 1 \in 0 .. MaxSize
          /\ wire.progress < wire.total \/ wire.total = -1
          /\ OnWire(wire.dir, wire.progress + 1, wire.total) /\ challenged' = challenged
      BY <1>0, <1>a, <1>1 DEF Part
    <2>2. wire.dir = "recving"
      BY <1>a, <2>1 DEF GetBar
    <2>3. /\ wire' = [dir |-> "recving", progress |-> wire.progress + 1,
                      total |-> wire.total, body |-> wire.body]
          /\ Notified("recving", wire.progress + 1, wire.total)
      <3>1. OnWire("recving", wire.progress + 1, wire.total)
        BY <2>1, <2>2
      <3> QED BY <1>a, <2>1, <3>1, OnWireTypes DEF OnWire
    <2>4. /\ wire'.dir = "recving" /\ wire'.progress = wire.progress + 1
          /\ wire'.total = wire.total /\ wire'.body = 0
      BY <1>a, <2>3
    <2>5. out_state # "upload" /\ out_state # "download" /\ out_state # "none"
          /\ out_state # "incommand"
      BY <2>2 DEF GetBar
    <2>6. /\ drawn' \in Bars
          /\ out_state = "plain" => out_state' \in {"plain", "done"} /\ drawn' = <<>>
          /\ out_state = "pretty" =>
               \/ /\ out_state' = "pretty" /\ wire.progress + 1 < wire.total
                  /\ drawn' \in {drawn, <<wire.progress + 1, wire.total>>}
               \/ /\ out_state' = "done" /\ wire.progress + 1 = wire.total
                  /\ drawn' = <<wire.progress + 1, wire.total>>
          /\ out_state = "done" => UNCHANGED <<out_state, drawn>>
      BY <1>0, <1>a, <2>1, <2>3, NotifiedBar DEF GetBar
    <2> QED BY <1>a, <2>1, <2>2, <2>4, <2>5, <2>6 DEF GetBar
  <1>2. CASE AnswerBegins
    <2>1. PICK total \in -1 .. MaxSize : OnWire("recving", 0, total)
      BY <1>0, <1>2 DEF AnswerBegins
    <2>2. wire.dir = "sending" /\ wire.progress = wire.total /\ challenged' = challenged
      BY <1>2 DEF AnswerBegins, Sent
    <2>3. /\ wire' = [dir |-> "recving", progress |-> 0, total |-> total,
                      body |-> wire.body]
          /\ Notified("recving", 0, total)
      BY <1>0, <1>a, <2>1, OnWireTypes DEF OnWire
    <2>4. wire'.dir = "recving" /\ wire'.progress = 0 /\ wire'.total = total /\ wire'.body = 0
      BY <1>a, <2>3
    <2>5. out_state \in {"download", "plain", "done"}
      BY <2>2 DEF GetBar
    <2>6. /\ drawn' \in Bars
          /\ out_state = "download" =>
               \/ out_state' = "plain" /\ drawn' = <<>>
               \/ /\ out_state' = "pretty" /\ total > 0
                  /\ drawn' \in {<<>>, <<0, total>>}
          /\ out_state = "plain" => out_state' \in {"plain", "done"} /\ drawn' = <<>>
          /\ out_state = "done" => UNCHANGED <<out_state, drawn>>
      BY <1>0, <2>1, <2>3, <2>5, NotifiedBar DEF GetBar
    <2>7. out_state = "done" /\ drawn # <<>> => challenged
      BY <2>2 DEF GetBar
    <2> QED BY <2>1, <2>2, <2>4, <2>5, <2>6, <2>7 DEF GetBar
  <1>3. CASE Again
    <2>1. /\ OnWire("sending", 0, 0) /\ challenged \in BOOLEAN
          /\ \/ wire.dir = "sending" /\ challenged' = challenged
             \/ Received /\ challenged' = TRUE
      BY <1>a, <1>3 DEF Again, FlagTypes
    <2>2. /\ wire' = [dir |-> "sending", progress |-> 0, total |-> 0, body |-> wire.body]
          /\ out_state' = out_state /\ drawn' = drawn
      BY <1>0, <1>a, <2>1, OnWireTypes DEF OnWire
    <2>3. wire'.dir = "sending" /\ wire'.progress = 0 /\ wire'.total = 0 /\ wire'.body = 0
      BY <1>a, <2>2
    <2>4. out_state # "pretty"
      BY <1>a, <2>1 DEF GetBar, Received, Sent
    <2> QED BY <2>1, <2>2, <2>3, <2>4 DEF GetBar
  <1> QED BY <1>1, <1>2, <1>3

\* Those of a put.
LEMMA PutWire ==
  ASSUME FlagTypes, drawn \in Bars, cmd = "put", PutBar, Part \/ AnswerBegins \/ Again
  PROVE  PutBar' /\ drawn' \in Bars
  <1>0. MaxSize \in Nat \ {0} /\ 0 \in 0 .. MaxSize /\ 0 \in -1 .. MaxSize
        /\ -1 \in -1 .. MaxSize
    BY TerminalAssumption
  <1>a. /\ wire.progress \in 0 .. MaxSize /\ wire.total \in -1 .. MaxSize
        /\ wire.dir \in {"sending", "recving"} /\ wire.body \in 0 .. MaxSize
        /\ wire.body \in -1 .. MaxSize
    BY <1>0 DEF FlagTypes, Wire
  <1>1. CASE Part
    <2>1. /\ wire.progress + 1 \in 0 .. MaxSize
          /\ wire.progress < wire.total \/ wire.total = -1
          /\ OnWire(wire.dir, wire.progress + 1, wire.total)
      BY <1>0, <1>a, <1>1 DEF Part
    <2>2. wire.dir = "sending" => wire.total = wire.body /\ wire.total # 0
      BY <1>a, <2>1 DEF PutBar
    <2>3. /\ wire' = [dir |-> wire.dir, progress |-> wire.progress + 1,
                      total |-> wire.total, body |-> wire.body]
          /\ Notified(wire.dir, wire.progress + 1, wire.total)
      BY <1>a, <2>1, <2>2, OnWireTypes DEF OnWire
    <2>4. /\ wire'.dir = wire.dir /\ wire'.progress = wire.progress + 1
          /\ wire'.total = wire.total /\ wire'.body = wire.body
      BY <2>3
    <2>5. /\ out_state \in {"upload", "plain", "pretty", "done"}
          /\ out_state = "upload" => wire.dir = "recving"
      BY <1>a, <2>2 DEF PutBar
    <2>6. /\ drawn' \in Bars
          /\ out_state = "upload" => UNCHANGED <<out_state, drawn>>
          /\ out_state = "plain" => out_state' \in {"plain", "done"} /\ drawn' = <<>>
          /\ out_state = "pretty" =>
               \/ /\ out_state' = "pretty" /\ wire.progress + 1 < wire.total
                  /\ drawn' \in {drawn, <<wire.progress + 1, wire.total>>}
               \/ /\ out_state' = "done" /\ wire.progress + 1 = wire.total
                  /\ drawn' = <<wire.progress + 1, wire.total>>
          /\ out_state = "done" => UNCHANGED <<out_state, drawn>>
      BY <1>0, <1>a, <2>1, <2>3, <2>5, NotifiedBar DEF PutBar
    <2> QED BY <1>a, <2>1, <2>2, <2>4, <2>5, <2>6 DEF PutBar
  <1>2. CASE AnswerBegins
    <2>1. PICK total \in -1 .. MaxSize : OnWire("recving", 0, total)
      BY <1>0, <1>2 DEF AnswerBegins
    <2>2. wire.dir = "sending" /\ wire.progress = wire.total
      BY <1>2 DEF AnswerBegins, Sent
    <2>3. /\ wire' = [dir |-> "recving", progress |-> 0, total |-> total,
                      body |-> wire.body]
          /\ Notified("recving", 0, total)
      BY <1>0, <1>a, <2>1, OnWireTypes DEF OnWire
    <2>4. wire'.dir = "recving" /\ wire'.body = wire.body
      BY <2>3
    <2>5. out_state \in {"upload", "plain", "done"}
      BY <1>a, <2>2 DEF PutBar
    <2>6. /\ drawn' \in Bars
          /\ out_state = "upload" => UNCHANGED <<out_state, drawn>>
          /\ out_state = "plain" => out_state' \in {"plain", "done"} /\ drawn' = <<>>
          /\ out_state = "done" => UNCHANGED <<out_state, drawn>>
      BY <1>0, <2>1, <2>3, <2>5, NotifiedBar DEF PutBar
    <2> QED BY <2>4, <2>5, <2>6 DEF PutBar
  <1>3. CASE Again
    <2>1. OnWire("sending", 0, wire.body)
      BY <1>3 DEF Again
    <2>2. /\ wire' = [dir |-> "sending", progress |-> 0, total |-> wire.body,
                      body |-> wire.body]
          /\ IF wire.body = 0 THEN UNCHANGED <<out_state, drawn>>
                              ELSE Notified("sending", 0, wire.body)
      BY <1>0, <1>a, <2>1, OnWireTypes DEF OnWire
    <2>3. /\ wire'.dir = "sending" /\ wire'.progress = 0
          /\ wire'.total = wire.body /\ wire'.body = wire.body
      BY <2>2
    <2>4. CASE wire.body = 0
      <3>1. out_state # "pretty"
        BY <1>a, <2>4 DEF PutBar
      <3> QED BY <2>2, <2>3, <2>4, <3>1 DEF PutBar
    <2>5. CASE wire.body # 0
      <3>1. wire.body > 0 /\ out_state \in {"plain", "pretty", "done"}
        BY <1>a, <2>5 DEF PutBar
      <3>2. /\ drawn' \in Bars
            /\ out_state = "plain" => out_state' \in {"plain", "done"} /\ drawn' = <<>>
            /\ out_state = "pretty" =>
                 \/ /\ out_state' = "pretty"
                    /\ drawn' \in {drawn, <<0, wire.body>>}
                 \/ out_state' = "done" /\ 0 = wire.body
            /\ out_state = "done" => UNCHANGED <<out_state, drawn>>
        BY <1>0, <1>a, <2>2, <2>5, <3>1, NotifiedBar DEF PutBar
      <3> QED BY <1>a, <2>3, <2>5, <3>1, <3>2 DEF PutBar
    <2> QED BY <2>4, <2>5
  <1> QED BY <1>1, <1>2, <1>3

\* Where the operations of a transfer stand.
LEMMA TransferOps ==
  ASSUME cmd \in {"get", "put"}, step \in 1 .. Len(Program[cmd])
  PROVE  /\ Op \in {"request", "lookup"} <=> step = Transfer(cmd)
         /\ step < Transfer(cmd) => Op \in {"argument", "download", "upload", "local"}
         /\ cmd = "get" /\ step = 2 => Op = "download"
         /\ cmd = "put" /\ step = 1 => Op = "upload"
         /\ cmd = "get" /\ step = 3 => Op = "local"
         /\ cmd = "put" /\ step = 2 => Op = "local"
         /\ cmd = "get" /\ step = 1 => Op = "argument"
         /\ Op = "close" => step > Transfer(cmd)
  <1>1. CASE cmd = "get"
    <2>1. step \in 1 .. 6
      BY <1>1, TransferPrograms
    <2> QED BY <1>1, <2>1, TransferPrograms DEF Op, Transfer
  <1>2. CASE cmd = "put"
    <2>1. step \in 1 .. 4
      BY <1>2, TransferPrograms
    <2> QED BY <1>2, <2>1, TransferPrograms DEF Op, Transfer
  <1> QED BY <1>1, <1>2

\* Every step keeps what is drawn.
LEMMA BarStep ==
  ASSUME ControlInv, FlagTypes, LineInv, ToldInv, BarInv, [Next]_vars
  PROVE  BarInv'
  <1>0. /\ MaxSize \in Nat \ {0} /\ 0 \in 0 .. MaxSize
        /\ \A c \in Commands : Len(Program[c]) \in 1 .. 7
    BY TerminalAssumption, Shapes DEF Shape
  <1>1. CASE Command
    BY <1>1 DEF Command, BarInv, Bars, Transfer
  <1>2. CASE Local
    <2>1. /\ cmd \in Commands /\ step \in 1 .. Len(Program[cmd]) /\ cmd' = cmd
          /\ pc = "command" /\ ret' = ret /\ wire' = wire /\ challenged' = challenged
      BY <1>0, <1>2 DEF Local, ControlInv
    <2>2. drawn' = drawn
      BY <1>2 DEF Local, StopsLine, StopsApart, NoFile, Blame, Finish, Starts, line
    <2>3. CASE cmd \notin {"get", "put"}
      <3>1. pc' # "wire"
        BY <1>2, <2>1 DEF Local, Goes, Returns, StopsLine, StopsApart, NoFile, Blame
      <3> QED BY <2>1, <2>2, <2>3, <3>1 DEF BarInv, BarDone
    <2>4. CASE cmd \in {"get", "put"} /\ step < Transfer(cmd)
      <3>1. \/ pc' = "prompt" /\ said' = "failure"
            \/ /\ pc' = "command" /\ step' = step + 1
               /\ \/ Op = "download" /\ out_state' = "download"
                  \/ Op = "upload" /\ out_state' = "upload"
                  \/ Op \in {"argument", "local"} /\ out_state' = out_state
        <4>1. Op \in {"argument", "download", "upload", "local"}
          BY <2>1, <2>4, TransferOps
        <4> QED BY <1>2, <2>1, <4>1
                DEF Local, Goes, Returns, StopsLine, StopsApart, NoFile, Finish, Starts, line
      <3>2. drawn = <<>> /\ ret = "none"
        BY <2>1, <2>4, <1>0 DEF BarInv, Transfer
      <3>3. CASE pc' = "prompt"
        BY <2>1, <2>2, <3>1, <3>2, <3>3 DEF BarInv
      <3>4. CASE pc' = "command" /\ cmd = "get"
        <4>1. step \in {1, 2, 3}
          BY <1>0, <2>1, <2>4, <3>4 DEF Transfer
        <4>2. step' > 2 => out_state' = "download"
          BY <2>1, <3>1, <3>4, <4>1, TransferOps DEF BarInv, Transfer
        <4> QED BY <2>1, <2>2, <3>2, <3>4, <4>2 DEF BarInv
      <3>5. CASE pc' = "command" /\ cmd = "put"
        <4>1. step \in {1, 2}
          BY <1>0, <2>1, <2>4, <3>5 DEF Transfer
        <4>2. out_state' = "upload"
          BY <2>1, <3>1, <3>5, <4>1, TransferOps DEF BarInv, Transfer
        <4> QED BY <2>1, <2>2, <3>2, <3>5, <4>2 DEF BarInv
      <3> QED BY <2>4, <3>1, <3>3, <3>4, <3>5
    <2>5. CASE cmd \in {"get", "put"} /\ step > Transfer(cmd)
      <3>1. ret = "ok" => BarDone
        BY <2>1, <2>5 DEF BarInv
      <3>2. \/ pc' = "prompt" /\ said' = "failure"
            \/ pc' = "command" /\ step' = step + 1
            \/ Op = "token"
        BY <1>2, <2>1 DEF Local, Goes, Returns, StopsLine, StopsApart, NoFile, Blame, Finish
      <3>3. Op # "token"
        BY <2>1, <2>5, AtOp
      <3>4. step \in Nat /\ Transfer(cmd) \in Nat /\ ~(step + 1 <= Transfer(cmd))
        BY <1>0, <2>1, <2>5 DEF Transfer
      <3> QED BY <2>1, <2>2, <2>5, <3>1, <3>2, <3>3, <3>4 DEF BarInv, BarDone, Transfer
    <2>6. CASE cmd \in {"get", "put"} /\ step = Transfer(cmd)
      <3>1. Op \in {"request", "lookup"}
        BY <2>1, <2>6, TransferOps
      <3> QED BY <1>2, <3>1 DEF Local
    <2>7. cmd \in {"get", "put"} =>
            step < Transfer(cmd) \/ step > Transfer(cmd) \/ step = Transfer(cmd)
      BY <1>0, <2>1 DEF Transfer
    <2> QED BY <2>3, <2>4, <2>5, <2>6, <2>7
  <1>3. CASE Close
    <2>1. /\ cmd \in Commands /\ step \in 1 .. Len(Program[cmd]) /\ cmd' = cmd
          /\ pc = "command" /\ pc' = "command" /\ step' = step + 1 /\ Op = "close"
          /\ ret' \in {ret, "failed"} /\ wire' = wire /\ challenged' = challenged
          /\ drawn' = drawn /\ said' = said
      BY <1>0, <1>3 DEF Close, ControlInv, Goes, line
    <2>2. cmd \in {"get", "put"} => step \in Nat /\ ~(step + 1 <= Transfer(cmd))
      BY <1>0, <2>1, TransferOps DEF Transfer
    <2> QED BY <2>1, <2>2 DEF BarInv, BarDone, Transfer
  <1>4. CASE End
    <2>1. /\ pc = "command" /\ pc' = "prompt" /\ cmd' = cmd /\ drawn' = drawn /\ said' = said
          /\ wire' = wire /\ challenged' = challenged
      BY <1>4 DEF End, Returns, line
    <2>2. said = "success" => BarDone
      BY <2>1 DEF ToldInv, BarInv, BarDone
    <2> QED BY <2>1, <2>2 DEF BarInv, BarDone
  <1>5. CASE Send
    <2>1. /\ cmd \in Commands /\ step \in 1 .. Len(Program[cmd]) /\ cmd' = cmd
          /\ Op \in {"request", "lookup"} /\ pc = "command" /\ pc' = "wire"
      BY <1>0, <1>5 DEF Send, ControlInv, wireOnly
    <2>2. PICK body \in IF cmd = "put" THEN 0 .. MaxSize ELSE {0} :
            /\ wire' = [dir |-> "sending", progress |-> 0, total |-> body, body |-> body]
            /\ IF body = 0 THEN UNCHANGED <<out_state, drawn>>
                           ELSE Notified("sending", 0, body)
      BY <1>5 DEF Send
    <2>3. /\ wire'.dir = "sending" /\ wire'.progress = 0
          /\ wire'.total = body /\ wire'.body = body
      BY <2>2
    <2>4. CASE cmd \notin {"get", "put"}
      BY <2>1, <2>2, <2>4 DEF BarInv
    <2>5. CASE cmd = "get"
      <3>1. drawn = <<>> /\ out_state = "download"
        BY <2>1, <2>5, TransferOps DEF BarInv, Transfer
      <3> QED BY <2>1, <2>2, <2>3, <2>5, <3>1 DEF BarInv, GetBar
    <2>6. CASE cmd = "put"
      <3>1. drawn = <<>> /\ out_state = "upload" /\ drawn \in Bars
        BY <2>1, <2>6, TransferOps DEF BarInv, Transfer
      <3>2. CASE body = 0
        BY <2>1, <2>2, <2>3, <2>6, <3>1, <3>2 DEF BarInv, PutBar
      <3>3. CASE body # 0
        <4>1. body \in 1 .. MaxSize /\ body \in -1 .. MaxSize /\ 0 <= body /\ 0 < body
          BY <1>0, <2>2, <2>6, <3>3
        <4>2. /\ drawn' \in Bars
              /\ \/ out_state' = "plain" /\ drawn' = <<>>
                 \/ out_state' = "pretty" /\ drawn' \in {<<>>, <<0, body>>}
          BY <1>0, <2>2, <3>1, <3>3, <4>1, NotifiedBar
        <4> QED BY <2>1, <2>3, <2>6, <4>1, <4>2 DEF BarInv, PutBar
      <3> QED BY <3>2, <3>3
    <2> QED BY <2>4, <2>5, <2>6
  <1>6. CASE Part \/ AnswerBegins \/ Again
    <2>1. pc = "wire" /\ pc' = "wire" /\ cmd' = cmd
      BY <1>6 DEF Part, AnswerBegins, Again, wireOnly
    <2>2. CASE cmd = "get"
      BY <1>6, <2>1, <2>2, GetWire DEF BarInv
    <2>3. CASE cmd = "put"
      BY <1>6, <2>1, <2>3, PutWire DEF BarInv
    <2>4. CASE cmd \notin {"get", "put"}
      <3>1. drawn' = drawn
        BY <1>6, <2>1, <2>4, WireKeepsLine DEF LineInv
      <3> QED BY <2>1, <2>4, <3>1 DEF BarInv
    <2> QED BY <2>2, <2>3, <2>4
  <1>7. CASE Redirect
    <2>1. /\ cmd \in Commands /\ step \in 1 .. Len(Program[cmd]) /\ cmd' = cmd
          /\ pc = "wire" /\ pc' = "wire" /\ Op = "lookup"
      BY <1>0, <1>7 DEF Redirect, ControlInv
    <2>2. cmd \notin {"get", "put"}
      BY <2>1, TransferOps, TransferPrograms DEF Op, Transfer
    <2>3. drawn' = drawn
      BY <1>7, <2>1, <2>2, WireKeepsLine DEF LineInv
    <2> QED BY <2>1, <2>2, <2>3 DEF BarInv
  <1>8. CASE Answer \/ Lost
    <2>1. /\ cmd \in Commands /\ step \in 1 .. Len(Program[cmd]) /\ cmd' = cmd
          /\ pc = "wire" /\ pc' = "command" /\ step' = step + 1
          /\ Op \in {"request", "lookup"}
          /\ drawn' = drawn /\ wire' = wire /\ challenged' = challenged
      BY <1>0, <1>8 DEF Answer, Lost, ControlInv, line
    <2>2. CASE cmd \notin {"get", "put"}
      BY <2>1, <2>2 DEF BarInv
    <2>3. CASE cmd \in {"get", "put"}
      <3>1. step = Transfer(cmd) /\ step \in Nat /\ ~(step + 1 <= Transfer(cmd))
        BY <1>0, <2>1, <2>3, TransferOps DEF Transfer
      <3>2. Op = "request"
        BY <2>1, <2>3, <3>1, TransferPrograms DEF Op, Transfer
      <3>3. ret' = "ok" => Received
        BY <1>8, <2>3, <3>2 DEF Answer, Lost, Unanswered
      <3>4. /\ wire.progress \in 0 .. MaxSize /\ wire.total \in -1 .. MaxSize
            /\ wire.dir \in {"sending", "recving"}
        BY DEF FlagTypes, Wire
      <3>5. Received => out_state # "pretty"
        BY <1>0, <2>1, <2>3, <3>4 DEF BarInv, GetBar, PutBar, Received, Sent
      <3>6. Received => BarDone
        BY <2>1, <2>3, <3>5 DEF BarInv, GetBar, PutBar, Received, BarDone
      <3> QED BY <2>1, <2>3, <3>1, <3>3, <3>6 DEF BarInv, BarDone, Transfer
    <2> QED BY <2>2, <2>3
  <1>9. CASE OtherClient \/ UNCHANGED vars
    BY <1>9 DEF OtherClient, vars, line, BarInv, BarDone, GetBar, PutBar
  <1> QED BY <1>1, <1>2, <1>3, <1>4, <1>5, <1>6, <1>7, <1>8, <1>9 DEF Next

\* The bar is kept throughout.
LEMMA BarInvariant == Spec => []BarInv
  <1>1. Init => BarInv
    BY DEF Init, BarInv, Bars
  <1>2. /\ ControlInv /\ FlagTypes /\ LineInv /\ ToldInv /\ BarInv /\ [Next]_vars
        => BarInv'
    BY BarStep
  <1> QED BY <1>1, <1>2, TypesInvariant, LineInvariant, ToldInvariant, PTL DEF Spec

---------------------------------------------------------------------------
(* The kind of what rm and rmcol delete. *)

\* Between the lookup and the request what was found is what there is, unless
\* another client or a failure of the lookup came between them, and the request
\* is for the kind that was found.
KindInv ==
  /\ pc # "prompt" /\ cmd \in {"delete", "rmcol"} /\ step = 1 => ~lookupLost
  /\ pc # "prompt" /\ cmd \in {"delete", "rmcol"} /\ step > 1 =>
       /\ changes = 0 /\ ~lookupLost => (isColl <=> real = "coll")
       /\ lookupLost => ~isColl
       /\ step = 4 => (isColl <=> cmd = "rmcol")
  /\ RightKind

\* Where the operations of rm and rmcol stand.
LEMMA DeleteOps ==
  ASSUME cmd \in {"delete", "rmcol"}, step \in 1 .. Len(Program[cmd])
  PROVE  /\ step \in 1 .. 5
         /\ Op \in {"lookup", "start", "unlessColl", "unlessPlain", "request", "verdict"}
         /\ Op = "lookup" <=> step = 1
         /\ Op = "request" <=> step = 4
         /\ step = 3 => Op = IF cmd = "delete" THEN "unlessColl" ELSE "unlessPlain"
         /\ Op \in {"unlessColl", "unlessPlain"} => step = 3
  <1>1. /\ Program["delete"] = <<"lookup", "start", "unlessColl", "request", "verdict">>
        /\ Program["rmcol"] = <<"lookup", "start", "unlessPlain", "request", "verdict">>
    BY DEF Program
  <1>2. Len(Program[cmd]) = 5
    <2>1. CASE cmd = "delete"
      BY <1>1, <2>1
    <2>2. CASE cmd = "rmcol"
      BY <1>1, <2>2
    <2> QED BY <2>1, <2>2
  <1>3. step \in 1 .. 5
    BY <1>2
  <1> QED BY <1>1, <1>3 DEF Op

\* Every step keeps it.
LEMMA KindStep ==
  ASSUME ControlInv, FlagTypes, KindInv, [Next]_vars
  PROVE  KindInv'
  <1>0. MaxChanges \in Nat /\ \A c \in Commands : Len(Program[c]) \in 1 .. 7
    BY TerminalAssumption, Shapes DEF Shape
  <1>1. CASE Command
    BY <1>1 DEF Command, KindInv, RightKind
  <1>2. CASE Local
    <2>1. /\ cmd \in Commands /\ step \in 1 .. Len(Program[cmd]) /\ cmd' = cmd
          /\ pc = "command" /\ isColl' = isColl /\ lookupLost' = lookupLost
          /\ real' = real /\ changes' = changes /\ deleted' = deleted
      BY <1>0, <1>2 DEF Local, ControlInv, lookup, server
    <2>2. CASE cmd \notin {"delete", "rmcol"}
      BY <2>1, <2>2 DEF KindInv, RightKind
    <2>3. CASE cmd \in {"delete", "rmcol"}
      <3>1. step > 1
        BY <1>2, <2>1, <2>3, DeleteOps DEF Local
      <3>2. \/ pc' = "prompt"
            \/ /\ pc' = "command" /\ step' = step + 1
               /\ Op = "unlessColl" => ~isColl
               /\ Op = "unlessPlain" => isColl
        BY <1>2, <2>1
           DEF Local, Goes, Returns, StopsLine, StopsApart, NoFile, Blame, Spared
      <3>3. pc' = "command" /\ step' = 4 => (isColl <=> cmd = "rmcol")
        BY <2>1, <2>3, <3>2, DeleteOps DEF FlagTypes
      <3> QED BY <2>1, <2>3, <3>1, <3>2, <3>3 DEF KindInv, RightKind
    <2> QED BY <2>2, <2>3
  <1>3. CASE Close
    <2>1. /\ cmd \in Commands /\ step \in 1 .. Len(Program[cmd]) /\ Op = "close"
      BY <1>0, <1>3 DEF Close, ControlInv
    <2>2. cmd \notin {"delete", "rmcol"}
      BY <2>1, DeleteOps
    <2> QED BY <1>3, <2>2 DEF Close, KindInv, RightKind, server, lookup
  <1>4. CASE End
    BY <1>4 DEF End, Returns, KindInv, RightKind, lookup, server
  <1>5. CASE Send \/ Part \/ AnswerBegins \/ Again \/ Redirect
    <2>1. UNCHANGED <<cmd, step, isColl, lookupLost, real, changes, deleted>>
      BY <1>5 DEF Send, Part, AnswerBegins, Again, Redirect, wireOnly, lookup, server
    <2>2. pc # "prompt"
      BY <1>5 DEF Send, Part, AnswerBegins, Again, Redirect
    <2> QED BY <2>1, <2>2 DEF KindInv, RightKind
  <1>6. CASE Answer \/ Lost
    <2>1. /\ cmd \in Commands /\ step \in 1 .. Len(Program[cmd]) /\ cmd' = cmd
          /\ pc = "wire" /\ pc' = "command" /\ step' = step + 1
          /\ Op \in {"request", "lookup"} /\ UNCHANGED <<real, changes>>
      BY <1>0, <1>6 DEF Answer, Lost, ControlInv, server
    <2>2. CASE cmd \notin {"delete", "rmcol"}
      BY <1>6, <2>1, <2>2 DEF Answer, Lost, KindInv, RightKind
    <2>3. CASE cmd \in {"delete", "rmcol"} /\ Op = "lookup"
      <3>1. step = 1 /\ step' = 2
        BY <2>1, <2>3, DeleteOps
      <3>2. deleted' = deleted
        BY <1>6, <2>3 DEF Answer, Lost
      <3>3. ~lookupLost
        BY <2>1, <2>3, <3>1 DEF KindInv
      <3>4. \/ isColl' = (real = "coll") /\ lookupLost' = lookupLost
            \/ isColl' = FALSE /\ lookupLost' = TRUE
        BY <1>6, <2>3 DEF Answer, Lost
      <3>5. \/ (isColl' <=> real = "coll") /\ ~lookupLost'
            \/ ~isColl' /\ lookupLost'
        BY <3>3, <3>4
      <3>6. RightKind'
        BY <2>1, <2>3, <3>2, <3>3, <3>5 DEF KindInv, RightKind
      <3> QED BY <2>1, <2>3, <3>1, <3>5, <3>6 DEF KindInv
    <2>4. CASE cmd \in {"delete", "rmcol"} /\ Op = "request"
      <3>1. step = 4 /\ step' = 5
        BY <2>1, <2>4, DeleteOps
      <3>2. UNCHANGED <<isColl, lookupLost>> /\ deleted' \in {deleted, real}
        BY <1>6, <2>4 DEF Answer, Lost, lookup
      <3>3. deleted' # deleted => deleted' = real /\ (isColl <=> cmd = "rmcol")
        BY <2>1, <2>4, <3>1, <3>2 DEF KindInv
      <3>4. /\ changes = 0 /\ ~lookupLost => (isColl <=> real = "coll")
            /\ lookupLost => ~isColl
            /\ changes \in Nat /\ (changes # 0 => changes > 0)
        BY <1>0, <2>1, <2>4, <3>1 DEF KindInv, FlagTypes
      <3>5. RightKind'
        <4>1. CASE deleted' = deleted
          BY <2>1, <3>2, <4>1 DEF KindInv, RightKind
        <4>2. CASE deleted' # deleted
          BY <2>1, <2>4, <3>2, <3>3, <3>4, <4>2 DEF RightKind
        <4> QED BY <4>1, <4>2
      <3> QED BY <2>1, <3>1, <3>2, <3>4, <3>5 DEF KindInv
    <2> QED BY <2>1, <2>2, <2>3, <2>4
  <1>7. CASE OtherClient
    <2>1. changes' # 0 /\ changes' > 0
      BY <1>0, <1>7 DEF OtherClient, FlagTypes
    <2> QED BY <1>7, <2>1 DEF OtherClient, KindInv, RightKind, lookup
  <1>8. CASE UNCHANGED vars
    BY <1>8 DEF vars, KindInv, RightKind, lookup, server
  <1> QED BY <1>1, <1>2, <1>3, <1>4, <1>5, <1>6, <1>7, <1>8 DEF Next

---------------------------------------------------------------------------
(* What the terminal shows. *)

\* What is printed at the end of a command is the truth, and finishes its line
\* (output, out_result and the early returns of the commands).
THEOREM WhatIsReported == Spec => []Reported
  <1>1. ControlInv /\ FlagTypes /\ BarInv => TypeOK
    <2>1. \A c \in Commands : Len(Program[c]) \in 1 .. 7
      BY Shapes DEF Shape
    <2>2. ControlInv => step \in 1 .. 8
      <3>1. CASE pc = "prompt"
        BY <3>1 DEF ControlInv
      <3>2. CASE pc # "prompt"
        <4>1. HAVE ControlInv
        <4>2. cmd \in Commands /\ step \in 1 .. Len(Program[cmd]) + 1
          BY <3>2, <4>1 DEF ControlInv
        <4>3. PICK n \in 1 .. 7 : Len(Program[cmd]) = n
          BY <2>1, <4>2
        <4> QED BY <4>2, <4>3
      <3> QED BY <3>1, <3>2
    <2>3. BarInv => drawn = <<>> \/ drawn \in (0 .. MaxSize) \X (1 .. MaxSize)
      BY DEF BarInv, Bars
    <2>4. FlagTypes =>
            {tty, isColl, redirected, challenged, lookupLost} \subseteq BOOLEAN
      BY DEF FlagTypes
    <2> QED BY <2>2, <2>3, <2>4 DEF ControlInv, FlagTypes, TypeOK
  <1>2. LineInv => LineFinished
    BY DEF LineInv, Leftover, Unfinished, LineFinished
  <1>3. ToldInv => Told
    BY DEF ToldInv, Told
  <1>4. ControlInv /\ FlagTypes /\ LineInv /\ ToldInv /\ BarInv => Reported
    BY <1>1, <1>2, <1>3 DEF Reported
  <1> QED BY <1>4, TypesInvariant, LineInvariant, ToldInvariant, BarInvariant, PTL

\* The bar that a successful transfer leaves is complete and its own, whatever
\* the sizes, the challenges and the retries (notifier, pretty_progress_bar).
THEOREM BarOfTheBody == Spec => []BarComplete
  <1>1. BarInv => BarComplete
    BY DEF BarInv, BarDone, BarComplete
  <1> QED BY <1>1, BarInvariant, PTL

\* rm and rmcol delete the kind they looked up (execute_delete, execute_rmcol).
THEOREM KindLookedUp == Spec => []RightKind
  <1>1. Init => KindInv
    BY DEF Init, KindInv, RightKind
  <1>2. ControlInv /\ FlagTypes /\ KindInv /\ [Next]_vars => KindInv'
    BY KindStep
  <1>3. KindInv => RightKind
    BY DEF KindInv
  <1> QED BY <1>1, <1>2, <1>3, TypesInvariant, PTL DEF Spec

================================================================================
