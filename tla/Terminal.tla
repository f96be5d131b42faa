-------------------------------- MODULE Terminal --------------------------------
(***************************************************************************)
(* What the user is told (src/src/cadaver.c: output, notifier and          *)
(* pretty_progress_bar) by the commands that work on one resource          *)
(* (src/src/commands.c, src/src/version.c, src/src/ls.c), while neon calls *)
(* the notifier for what happens on the wire.                              *)
(*                                                                         *)
(* A command is a program of a few operations; the operation of a request  *)
(* is many steps, in which the connection may be made anew, the server may *)
(* ask for credentials, and another client may replace the resource.       *)
(***************************************************************************)
EXTENDS Integers, SequencesExt

CONSTANTS MaxSize,  \* bound: parts in which a body is sent or received
          MaxChanges \* bound: times another client replaces the resource

ASSUME TerminalAssumption == MaxSize \in Nat \ {0} /\ MaxChanges \in Nat

VARIABLES pc,        \* "prompt", "command" or "wire"
          cmd,       \* the command that runs
          step,      \* the next operation of its program
          out_state, \* as in cadaver.c, without its out_ prefix
          tty,       \* isatty(STDOUT_FILENO)
          ret,       \* what the last request gave
          isColl,    \* what the lookups of the command found
          redirected,\* the lookup follows a redirect
          wire,      \* neon: the request on the wire
          drawn,     \* progress and total on the progress bar, if there is one
          said,      \* the verdict printed for this command
          real,      \* what the resource is on the server
          changes,   \* how often it was replaced during this command
          challenged,\* history: a request of this command was challenged
          lookupLost,\* history: a lookup of this command failed
          deleted,   \* history: what the command deleted
          begun      \* history: the command whose line is not finished

server == <<real, changes>>
lookup == <<isColl, redirected, lookupLost>>
line == <<out_state, drawn, said, begun>>
vars == <<pc, cmd, step, line, tty, ret, lookup, wire, server, challenged, deleted>>

\* What each command does, in order.  "verdict" is out_result of the last
\* request, "blame" the same only after a failure, "argument" a check that ends
\* the command with a message of its own, and "token" the prompt of unlock.  A
\* glob comes before the command whose argument it is.
Program ==
  [mkcol   |-> <<"start", "request", "verdict">>,
   propset |-> <<"start", "request", "verdict">>,
   checkin |-> <<"start", "request", "verdict">>,
   label   |-> <<"argument", "start", "request", "verdict">>,
   ls      |-> <<"start", "request", "verdict">>,
   lock    |-> <<"lookup", "start", "request", "verdict">>,
   unlock  |-> <<"lookup", "start", "token", "request", "verdict">>,
   rename  |-> <<"lookup", "start", "unlessSlash", "request", "verdict">>,
   delete  |-> <<"lookup", "start", "unlessColl", "request", "verdict">>,
   rmcol   |-> <<"lookup", "start", "unlessPlain", "request", "verdict">>,
   chexec  |-> <<"argument", "start", "request", "stopBlame", "capable", "request",
                 "verdict">>,
   propget   |-> <<"start", "request", "blame">>,
   discover  |-> <<"start", "request", "blame">>,
   history   |-> <<"start", "request", "blame">>,
   propnames |-> <<"request", "blame">>,
   cat     |-> <<"request", "blame">>,
   less    |-> <<"argument", "request", "blame">>,
   head    |-> <<"request">>,
   search  |-> <<"request", "verdict">>,
   get     |-> <<"argument", "download", "local", "request", "close", "verdict">>,
   put     |-> <<"upload", "local", "request", "verdict">>,
   glob    |-> <<"start", "request", "blame", "match">>]

Commands == DOMAIN Program

Wire == [dir : {"sending", "recving"}, progress : 0 .. MaxSize,
         total : -1 .. MaxSize, body : 0 .. MaxSize]
NoWire == [dir |-> "sending", progress |-> 0, total |-> 0, body |-> 0]

TypeOK ==
  /\ pc \in {"prompt", "command", "wire"}
  /\ cmd \in Commands \cup {"none"} /\ step \in 1 .. 8
  /\ out_state \in {"none", "incommand", "upload", "download", "plain", "pretty",
                    "done"}
  /\ ret \in {"none", "ok", "failed"}
  /\ {tty, isColl, redirected, challenged, lookupLost} \subseteq BOOLEAN
  /\ wire \in Wire
  /\ drawn = <<>> \/ drawn \in (0 .. MaxSize) \X (1 .. MaxSize)
  /\ said \in {"nothing", "success", "failure"}
  /\ real \in {"coll", "plain"} /\ changes \in 0 .. MaxChanges
  /\ deleted \in {"nothing", "coll", "plain"}
  /\ begun \in Commands \cup {"none"}

Init ==
  /\ pc = "prompt" /\ cmd = "none" /\ step = 1
  /\ out_state = "none" /\ tty \in BOOLEAN /\ drawn = <<>> /\ said = "nothing"
  /\ ret = "none" /\ isColl = FALSE /\ redirected = FALSE /\ lookupLost = FALSE
  /\ wire = NoWire /\ real \in {"coll", "plain"} /\ changes = 0
  /\ challenged = FALSE /\ deleted = "nothing" /\ begun = "none"

Op == Program[cmd][step]

---------------------------------------------------------------------------
(* Output. *)

\* output(o_finish, ...): the verdict, and the end of the line.
Finish(verdict) ==
  out_state' = "none" /\ said' = verdict /\ begun' = "none" /\ UNCHANGED drawn

Starts(state) ==
  out_state' = state /\ begun' = cmd /\ UNCHANGED <<drawn, said>>

\* Mutant: the bar is not drawn again within 100 ms, complete or not.
BarLazy(progress, total) ==
  drawn' = drawn \/ (total >= 0 /\ drawn' = <<progress, total>>)

\* pretty_progress_bar: not drawn again within 100 ms, except when complete.
Bar(progress, total) ==
  \/ total >= 0 /\ drawn' = <<progress, total>>
  \/ (total < 0 \/ progress < total) /\ drawn' = drawn

\* Mutant: a bar for an empty body.
PrettyEmpty(total) == tty /\ total >= 0

\* Whether a transfer that starts gets a bar.
Pretty(total) == tty /\ total > 0

\* notifier, for ne_status_sending and ne_status_recving.
Notified(dir, progress, total) ==
  CASE \/ out_state = "download" /\ dir = "recving"
       \/ out_state = "upload" /\ dir = "sending" ->
         IF Pretty(total) THEN out_state' = "pretty" /\ Bar(progress, total)
         ELSE out_state' = "plain" /\ UNCHANGED drawn
    [] out_state = "plain" ->
         out_state' = (IF progress = total THEN "done" ELSE "plain") /\ UNCHANGED drawn
    [] out_state = "pretty" ->
         out_state' = (IF progress = total THEN "done" ELSE "pretty")
           /\ Bar(progress, total)
    [] OTHER -> UNCHANGED <<out_state, drawn>>

---------------------------------------------------------------------------
(* Commands. *)

Command ==
  /\ pc = "prompt" /\ pc' = "command"
  /\ cmd' \in Commands /\ step' = 1
  /\ said' = "nothing" /\ ret' = "none" /\ isColl' = FALSE /\ redirected' = FALSE
  /\ lookupLost' = FALSE /\ challenged' = FALSE /\ deleted' = "nothing"
  /\ changes' = 0 /\ drawn' = <<>> /\ wire' = NoWire
  /\ UNCHANGED <<out_state, begun, tty, real>>

Goes == step' = step + 1 /\ UNCHANGED pc
\* The command returns, whatever is left of its program.
Returns == pc' = "prompt" /\ step' = 1

\* An early return with a message that is part of the line, or one of its own.
StopsLine == Returns /\ Finish("failure")
StopsApart == Returns /\ said' = "failure" /\ UNCHANGED <<out_state, drawn, begun>>

\* Mutant: the message for a file that cannot be opened does not end the line.
NoFileApart == StopsApart

\* do_get and simple_put without their local file.
NoFile == StopsLine

\* Mutant: only a success is reported.
BlameNot == Goes /\ UNCHANGED line

Blame == Goes /\ IF ret = "failed" THEN Finish("failure") ELSE UNCHANGED line

\* Mutant: rm takes a resource it could not look up for a collection, and a
\* collection for none.
SparedSwapped == ~isColl

\* What rm refuses to delete.
Spared == isColl

Local ==
  /\ pc = "command" /\ step <= Len(Program[cmd])
  /\ \/ Op = "start"    /\ Goes /\ Starts("incommand")
     \/ Op = "download" /\ Goes /\ Starts("download")
     \/ Op = "upload"   /\ Goes /\ Starts("upload")
     \/ Op = "argument" /\ (StopsApart \/ (Goes /\ UNCHANGED line))
     \/ Op = "local"    /\ (NoFile \/ (Goes /\ UNCHANGED line))
     \/ Op = "unlessColl"  /\ IF Spared THEN StopsLine ELSE Goes /\ UNCHANGED line
     \/ Op = "unlessPlain" /\ IF isColl THEN Goes /\ UNCHANGED line ELSE StopsLine
     \/ Op = "unlessSlash" /\ Goes /\ UNCHANGED line
     \/ Op = "unlessSlash" /\ ~isColl /\ StopsLine
     \/ Op = "stopBlame"   /\ IF ret = "failed" THEN StopsLine ELSE Goes /\ UNCHANGED line
     \/ Op = "token"    /\ (Returns \/ Goes) /\ UNCHANGED line
     \/ Op = "capable"  /\ (StopsLine \/ (Goes /\ UNCHANGED line))
     \/ Op = "verdict"  /\ Goes /\ Finish(IF ret = "ok" THEN "success" ELSE "failure")
     \/ Op = "blame"    /\ Blame
     \/ Op = "match"    /\ Goes /\ Finish("failure")
     \/ Op = "match"    /\ ret = "ok" /\ Goes /\ Finish("success")
  /\ UNCHANGED <<cmd, tty, ret, lookup, wire, server, challenged, deleted>>

\* The local file of a get is closed, which may report that a write failed.
Close ==
  /\ pc = "command" /\ step <= Len(Program[cmd]) /\ Op = "close"
  /\ ret' \in {ret, "failed"}
  /\ Goes /\ UNCHANGED <<cmd, tty, line, lookup, wire, server, challenged, deleted>>

End ==
  /\ pc = "command" /\ step > Len(Program[cmd])
  /\ Returns
  /\ UNCHANGED <<cmd, tty, ret, line, lookup, wire, server, challenged, deleted>>

---------------------------------------------------------------------------
(* The wire.  Only the bodies that put sends, and those of the answers to get
   and put, are followed: the notifier ignores the others.  Nothing is notified
   about a request without a body. *)

OnWire(dir, progress, total) ==
  /\ wire' = [wire EXCEPT !.dir = dir, !.progress = progress, !.total = total]
  /\ IF dir = "sending" /\ total = 0 THEN UNCHANGED <<out_state, drawn>>
                                   ELSE Notified(dir, progress, total)
  /\ UNCHANGED <<said, begun>>

wireOnly == <<cmd, step, tty, ret, lookup, server, deleted>>

Send ==
  /\ pc = "command" /\ step <= Len(Program[cmd]) /\ Op \in {"request", "lookup"}
  /\ pc' = "wire"
  /\ \E body \in IF cmd = "put" THEN 0 .. MaxSize ELSE {0} :
       /\ wire' = [dir |-> "sending", progress |-> 0, total |-> body, body |-> body]
       /\ IF body = 0 THEN UNCHANGED <<out_state, drawn>> ELSE Notified("sending", 0, body)
  /\ UNCHANGED <<wireOnly, said, begun, challenged>>

Sent == wire.progress = wire.total
Received == wire.dir = "recving" /\ (wire.total = -1 \/ Sent)

Part ==
  /\ pc = "wire" /\ wire.progress < MaxSize
  /\ wire.progress < wire.total \/ wire.total = -1
  /\ OnWire(wire.dir, wire.progress + 1, wire.total)
  /\ UNCHANGED <<pc, wireOnly, challenged>>

AnswerBegins ==
  /\ pc = "wire" /\ wire.dir = "sending" /\ Sent
  /\ \E total \in IF cmd \in {"get", "put"} THEN -1 .. MaxSize ELSE {0} :
       OnWire("recving", 0, total)
  /\ UNCHANGED <<pc, wireOnly, challenged>>

\* The request is sent again: on a new connection when the old one had timed
\* out, or with credentials when its answer was a challenge.
Again ==
  /\ pc = "wire"
  /\ \/ wire.dir = "sending" /\ UNCHANGED challenged
     \/ Received /\ challenged' = TRUE
  /\ OnWire("sending", 0, wire.body)
  /\ UNCHANGED <<pc, wireOnly>>

\* The type of a resource is looked up once more where its first answer
\* redirects to.
Redirect ==
  /\ pc = "wire" /\ Op = "lookup" /\ Received /\ ~redirected
  /\ redirected' = TRUE
  /\ OnWire("sending", 0, 0)
  /\ UNCHANGED <<pc, cmd, step, tty, ret, isColl, lookupLost, server, challenged, deleted>>

\* An answer: a refusal, or what was asked for.
Answer ==
  /\ pc = "wire" /\ Received
  /\ \/ Op = "request" /\ ret' = "failed" /\ UNCHANGED <<lookup, server, deleted>>
     \/ /\ Op = "request" /\ ret' = "ok"
        /\ deleted' = IF cmd \in {"delete", "rmcol"} THEN real ELSE deleted
        /\ UNCHANGED <<lookup, server>>
     \/ /\ Op = "lookup" /\ isColl' = (real = "coll")
        /\ UNCHANGED <<ret, redirected, lookupLost, server, deleted>>
  /\ pc' = "command" /\ step' = step + 1
  /\ UNCHANGED <<cmd, tty, line, wire, challenged>>

\* do_report takes the status of a request that was never answered for its
\* result, and this status for none of an error.
Unanswered == IF cmd = "history" /\ wire.dir = "sending" THEN "ok" ELSE "failed"

\* No answer, or none that can be used, whether or not the server did what was
\* asked.  A lookup that fails says nothing, and its resource counts as no
\* collection.
Lost ==
  /\ pc = "wire"
  /\ \/ /\ Op = "request" /\ ret' = Unanswered
        /\ deleted' \in {deleted, IF cmd \in {"delete", "rmcol"} THEN real ELSE deleted}
        /\ UNCHANGED lookup
     \/ /\ Op = "lookup" /\ lookupLost' = TRUE /\ isColl' = FALSE
        /\ UNCHANGED <<ret, redirected, deleted>>
  /\ pc' = "command" /\ step' = step + 1
  /\ UNCHANGED <<cmd, tty, line, wire, server, challenged>>

\* Another client replaces a collection by a plain resource, or the reverse.
OtherClient ==
  /\ pc # "prompt" /\ changes < MaxChanges
  /\ real' = IF real = "coll" THEN "plain" ELSE "coll"
  /\ changes' = changes + 1
  /\ UNCHANGED <<pc, cmd, step, line, tty, ret, lookup, wire, challenged, deleted>>

Next == Command \/ Local \/ Close \/ End \/ Send \/ Part \/ AnswerBegins \/ Again
        \/ Redirect \/ Answer \/ Lost \/ OtherClient

Spec == Init /\ [][Next]_vars

---------------------------------------------------------------------------
(* Properties. *)

\* When a command returns, its line is finished and no transfer is under way,
\* except that a propget, a discover or a history that succeeds, and an unlock
\* given no token, never finish theirs, so that what the next commands do on the
\* wire is reported as a part of it (execute_propget, do_discover,
\* execute_history, execute_unlock, output).
LineFinished ==
  pc = "prompt" =>
    \/ out_state = "none"
    \/ out_state = "incommand" /\ begun \in {"propget", "discover", "history", "unlock"}

\* A command whose last request failed says so, on the way to every early
\* return, and none calls itself a success unless its last request was one;
\* head alone is silent about a failure (out_result, execute_head).
Told ==
  pc = "prompt" =>
    /\ ret = "failed" => said = "failure" \/ cmd = "head"
    /\ said = "success" => ret = "ok"

\* What is printed at the end of a command is the truth, and finishes its line.
Reported == TypeOK /\ LineFinished /\ Told

\* The progress bar that a successful transfer leaves on the screen is
\* complete, and is that of the body transferred unless an answer before it was
\* a challenge, whose body the bar then counts (notifier, pretty_progress_bar).
BarComplete ==
  pc = "prompt" /\ said = "success" /\ drawn # <<>> =>
    /\ drawn[1] = drawn[2]
    /\ ~challenged => drawn[2] = IF cmd = "put" THEN wire.body ELSE wire.total

\* rm deletes a collection, and rmcol a plain resource, only when another client
\* put it there after the lookup, or, for rm, when the lookup failed: it then
\* takes any resource for a plain one (execute_delete, execute_rmcol).
RightKind ==
  /\ cmd = "delete" /\ deleted = "coll" => changes > 0 \/ lookupLost
  /\ cmd = "rmcol" /\ deleted = "plain" => changes > 0

================================================================================
