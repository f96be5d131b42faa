-------------------------------- MODULE Transfers --------------------------------
(***************************************************************************)
(* The get, resumeget, mget, put and mput commands (do_get and simple_put  *)
(* of src/src/commands.c): one resource, the files of the local directory, *)
(* other programs that use the directory, other clients of the server, and *)
(* transfers that break off.                                               *)
(*                                                                         *)
(* A content is a sequence of blocks, and a block is told apart only by    *)
(* the writer it comes from: a version of the resource, or (0) some local  *)
(* program.  mget and mput are runs of get and put without a prompt in     *)
(* between: here as there, each command starts where the last one ended.   *)
(***************************************************************************)
EXTENDS Naturals, SequencesExt

CONSTANTS Names,       \* local file names
          ABSENT, DIR, \* what a name may stand for besides a file
          TOUCHED,     \* origin of a file other programs wrote to
          MIXED,       \* origin of a file pieced together from two contents
          Size,        \* blocks in each version other clients write
          MaxVersion,  \* bound: versions of the resource
          MaxLength,   \* bound: blocks in a file
          MaxTouches   \* bound: what other programs do to the directory

ASSUME TransferAssumption ==
  /\ {Size, MaxVersion, MaxLength} \subseteq Nat \ {0}
  /\ MaxTouches \in Nat
  /\ Size <= MaxLength

Contents == SeqOf(0 .. MaxVersion, MaxLength)

ASSUME NamesAssumption ==
  /\ ABSENT # DIR /\ TOUCHED # MIXED
  /\ {ABSENT, DIR, TOUCHED, MIXED} \cap Contents = {}

VARIABLES pc,       \* "prompt", "ask", "open", "receive" or "close"
          local,    \* the local directory
          res,      \* server: the resource
          version,  \* server: versions other clients have written
          name,     \* filename
          flags,    \* how it is opened: "excl", "trunc" or "append"
          start,    \* range.start
          linked,   \* the open file is still the one the name stands for
          got,      \* the request succeeded
          said,     \* what the last command reported: "nothing",
                    \* "downloaded", "uploaded" or "failed"
          typed,    \* history: the user typed the file name when asked
          origin,   \* history: the content each file was downloaded from
          touches   \* bound: what other programs have done to the directory

open == <<flags, start, linked, got, typed>>

vars == <<pc, local, res, version, name, open, said, origin, touches>>

TypeOK ==
  /\ pc \in {"prompt", "ask", "open", "receive", "close"}
  /\ local \in [Names -> Contents \cup {ABSENT, DIR}]
  /\ res \in Contents
  /\ version \in 1 .. MaxVersion
  /\ name \in Names
  /\ flags \in {"excl", "trunc", "append"}
  /\ start \in 0 .. MaxLength
  /\ {linked, got, typed} \subseteq BOOLEAN
  /\ said \in {"nothing", "downloaded", "uploaded", "failed"}
  /\ origin \in [Names -> Contents \cup {TOUCHED, MIXED}]
  /\ touches \in 0 .. MaxTouches

Written(v) == [i \in 1 .. Size |-> v]

\* A program's files are there before the first command.
Init ==
  /\ pc = "prompt" /\ name \in Names /\ flags = "excl" /\ start = 0
  /\ local \in [Names -> {ABSENT, DIR, <<0>>}]
  /\ res = Written(1) /\ version = 1
  /\ linked = TRUE /\ got = FALSE /\ typed = FALSE /\ said = "nothing"
  /\ origin = [n \in Names |-> TOUCHED] /\ touches = 0

Regular(n) == local[n] \in Contents

\* The locals of do_get are gone.
Closed ==
  /\ flags' = "excl" /\ start' = 0
  /\ linked' = TRUE /\ got' = FALSE /\ typed' = FALSE

---------------------------------------------------------------------------
(* get and resumeget. *)

\* Mutant: a name that was free is not created exclusively.
GetCommandTruncates(n) ==
  /\ pc = "prompt"
  /\ name' = n /\ typed' = FALSE /\ said' = "nothing"
  /\ \/ local[n] # ABSENT /\ pc' = "ask" /\ UNCHANGED flags
     \/ local[n] = ABSENT /\ pc' = "open" /\ flags' = "trunc"
  /\ UNCHANGED <<local, res, version, start, linked, got, origin, touches>>

\* A name that is taken is not used: the user is asked for another.
GetCommand(n) ==
  /\ pc = "prompt"
  /\ name' = n /\ typed' = FALSE /\ said' = "nothing"
  /\ \/ local[n] # ABSENT /\ pc' = "ask" /\ UNCHANGED flags
     \/ local[n] = ABSENT /\ pc' = "open" /\ flags' = "excl"
  /\ UNCHANGED <<local, res, version, start, linked, got, origin, touches>>

\* The name is used whatever it stands for; none at all cancels.
TypeName(n) ==
  /\ pc = "ask"
  /\ name' = n /\ typed' = TRUE /\ flags' = "trunc" /\ pc' = "open"
  /\ UNCHANGED <<local, res, version, start, linked, got, said, origin, touches>>

Cancel ==
  /\ pc = "ask" /\ pc' = "prompt" /\ Closed
  /\ UNCHANGED <<local, res, version, name, said, origin, touches>>

\* Mutant: whatever the name stands for is resumed, from its st_size on.
ResumeCommandAny(n) ==
  /\ pc = "prompt"
  /\ name' = n /\ typed' = FALSE /\ said' = "nothing"
  /\ \/ local[n] # ABSENT /\ pc' = "open" /\ flags' = "append"
        /\ start' = IF Regular(n) THEN Len(local[n]) ELSE MaxLength + 1
     \/ local[n] = ABSENT /\ UNCHANGED <<pc, flags, start>>
  /\ UNCHANGED <<local, res, version, linked, got, origin, touches>>

\* Only a regular file is resumed, from its present length on.
ResumeCommand(n) ==
  /\ pc = "prompt"
  /\ name' = n /\ typed' = FALSE /\ said' = "nothing"
  /\ \/ Regular(n) /\ pc' = "open" /\ flags' = "append" /\ start' = Len(local[n])
     \/ ~Regular(n) /\ UNCHANGED <<pc, flags, start>>
  /\ UNCHANGED <<local, res, version, linked, got, origin, touches>>

\* open(2): O_CREAT|O_EXCL, O_CREAT|O_TRUNC or O_APPEND.
Openable == CASE flags = "excl"   -> local[name] = ABSENT
              [] flags = "trunc"  -> local[name] # DIR
              [] flags = "append" -> Regular(name)

Open ==
  /\ pc = "open"
  /\ \/ /\ Openable
        /\ pc' = "receive" /\ linked' = TRUE
        /\ IF flags = "append" THEN UNCHANGED <<local, origin>>
           ELSE /\ local' = [local EXCEPT ![name] = <<>>]
                /\ origin' = [origin EXCEPT ![name] = res]
        /\ UNCHANGED <<flags, start, got, typed, said>>
     \/ /\ pc' = "prompt" /\ said' = "failed" /\ Closed
        /\ UNCHANGED <<local, origin>>
  /\ UNCHANGED <<res, version, name, touches>>

\* write(2): at the end with O_APPEND, else from the beginning, which other
\* programs may have written to meanwhile.
Overwritten(old, data) ==
  IF flags = "append" THEN old \o data
  ELSE data \o SubSeq(old, Len(data) + 1, Len(old))

\* Mutant: a resumed download asks for the whole resource again.
BodyWhole == res

\* The part of the resource that is asked for.
Body == IF flags = "append" THEN SubSeq(res, start + 1, Len(res)) ELSE res

\* Where the blocks of the open file come from once data has been added.
Origin(data) ==
  IF origin[name] = TOUCHED THEN TOUCHED
  ELSE IF flags # "append" \/ local[name] = <<>> \/ origin[name] = res THEN res
  ELSE IF data = <<>> THEN origin[name] ELSE MIXED

\* The bound on lengths stops other programs' blocks, not these.
Store(data) ==
  IF linked
  THEN /\ Len(Overwritten(local[name], data)) <= MaxLength
       /\ local' = [local EXCEPT ![name] = Overwritten(@, data)]
       /\ origin' = [origin EXCEPT ![name] = Origin(data)]
  ELSE UNCHANGED <<local, origin>>

\* ne_get, ne_get_range: all of it arrives, or a part, or nothing.  Nothing
\* is left to ask for when the file is as long as the resource (416).
Receive ==
  /\ pc = "receive" /\ pc' = "close"
  /\ \/ got' = TRUE /\ (flags = "append" => Body # <<>>) /\ Store(Body)
     \/ got' = FALSE /\ \E k \in 0 .. Len(Body) : Store(SubSeq(Body, 1, k))
  /\ UNCHANGED <<res, version, name, flags, start, linked, said, typed, touches>>

\* Mutant: what close returns is not looked at.
CloseUnchecked ==
  /\ pc = "close" /\ pc' = "prompt" /\ Closed
  /\ said' = IF got THEN "downloaded" ELSE "failed"
  /\ \/ UNCHANGED local
     \/ linked /\ \E k \in 0 .. Len(local[name]) :
          local' = [local EXCEPT ![name] = SubSeq(@, 1, k)]
  /\ UNCHANGED <<res, version, name, origin, touches>>

\* close(2) may report that blocks could not be written.
Close ==
  /\ pc = "close" /\ pc' = "prompt" /\ Closed
  /\ \/ said' = (IF got THEN "downloaded" ELSE "failed") /\ UNCHANGED local
     \/ said' = "failed" /\ UNCHANGED local
     \/ said' = "failed" /\ linked /\ \E k \in 0 .. Len(local[name]) :
          local' = [local EXCEPT ![name] = SubSeq(@, 1, k)]
  /\ UNCHANGED <<res, version, name, origin, touches>>

---------------------------------------------------------------------------
(* put, and what goes on around the program. *)

\* The PUT is unconditional; its reply may be lost.
PutCommand(n) ==
  /\ pc = "prompt"
  /\ name' = n
  /\ \/ Regular(n) /\ res' = local[n] /\ said' \in {"uploaded", "failed"}
     \/ said' = "failed" /\ UNCHANGED res
  /\ UNCHANGED <<pc, local, version, open, origin, touches>>

\* SIGINT, or a crash; the user starts the program again.
Interrupted ==
  /\ pc # "prompt" /\ pc' = "prompt" /\ said' = "nothing" /\ Closed
  /\ IF pc = "receive" THEN \E k \in 0 .. Len(Body) : Store(SubSeq(Body, 1, k))
                       ELSE UNCHANGED <<local, origin>>
  /\ UNCHANGED <<res, version, name, touches>>

\* Another program creates, extends or removes a file.
OtherProgram(n) ==
  /\ touches < MaxTouches /\ touches' = touches + 1
  /\ \/ local[n] = ABSENT /\ local' = [local EXCEPT ![n] = <<0>>] /\ UNCHANGED linked
     \/ /\ Regular(n) /\ Len(local[n]) < Size
        /\ local' = [local EXCEPT ![n] = Append(@, 0)] /\ UNCHANGED linked
     \/ /\ Regular(n)
        /\ local' = [local EXCEPT ![n] = ABSENT] /\ linked' = (linked /\ n # name)
  /\ origin' = [origin EXCEPT ![n] = TOUCHED]
  /\ UNCHANGED <<pc, res, version, name, flags, start, got, said, typed>>

OtherClient ==
  /\ version < MaxVersion
  /\ version' = version + 1 /\ res' = Written(version + 1)
  /\ UNCHANGED <<pc, local, name, open, said, origin, touches>>

Program ==
  \/ \E n \in Names : GetCommand(n) \/ ResumeCommand(n) \/ TypeName(n) \/ PutCommand(n)
  \/ Cancel \/ Open \/ Receive \/ Close

Next == Program \/ Interrupted \/ OtherClient \/ \E n \in Names : OtherProgram(n)

Spec == Init /\ [][Next]_vars

---------------------------------------------------------------------------
(* Properties. *)

\* A download that is reported as successful is the whole resource, in how
\* many pieces ever it came and whatever broke off in between, unless the
\* resource changed between two pieces or another program wrote to the file.
Complete ==
  pc = "prompt" /\ said = "downloaded" /\ origin[name] \in Contents
    => local[name] = origin[name]

\* The files and the resource keep their types, and what is called a success is
\* complete.
Downloaded == TypeOK /\ Complete

\* get and resumeget only ever empty a file whose name the user typed, also
\* when another program creates it after get has looked; and a resumed
\* download keeps every block the file had when it is opened and written.
KeepsFiles ==
  [][/\ pc = "open" /\ pc' = "receive" =>
          \A n \in Names : \/ local'[n] = local[n]
                           \/ n = name /\ (typed \/ local[n] = ABSENT)
     /\ pc = "receive" /\ pc' = "close" =>
          \A n \in Names : \/ local'[n] = local[n]
                           \/ n = name /\ flags # "append"
                           \/ n = name /\ IsPrefix(local[n], local'[n])]_vars

================================================================================
