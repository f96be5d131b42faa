-------------------------------- MODULE CopyMove --------------------------------
(***************************************************************************)
(* The copy, move and rename commands of src/src/commands.c: do_copymove   *)
(* first looks up the destination and every source, one PROPFIND each,     *)
(* and builds the list of (source, destination) pairs; only then it sends  *)
(* the COPY or MOVE requests, one after the other.                         *)
(*                                                                         *)
(* The server's hierarchy is a function from paths (sequences of names) to *)
(* what is there.  Between any two requests another client may create      *)
(* collections.  Locks on the way are the subject of LockCommands.         *)
(***************************************************************************)
EXTENDS Naturals, SequencesExt

CONSTANTS Names,         \* path segments
          Files,         \* the contents of ordinary resources
          ABSENT, COLL,  \* what a path may hold besides a file
          MaxDepth,      \* bound: segments in a path
          MaxTyped,      \* bound: segments in a path the user types
          MaxSources,    \* bound: sources of one command
          MaxCommands,   \* bound: commands given
          MaxMade,       \* bound: collections other clients create
          RequestFaults  \* COPY and MOVE are refused, or never arrive

ASSUME CopyMoveAssumption ==
  /\ {MaxDepth, MaxTyped, MaxSources, MaxCommands, MaxMade} \subseteq Nat
  /\ MaxTyped <= MaxDepth
  /\ ABSENT # COLL /\ {ABSENT, COLL} \cap Files = {}
  /\ RequestFaults \in BOOLEAN

Paths == SeqOf(Names, MaxDepth)
Typed == SeqOf(Names, MaxTyped)
Root == <<>>

VARIABLES tree,      \* server: what each path holds
          pc,        \* "prompt", "source" (looking up), "run" or "rename"
          verb,      \* "copy", "move" or "rename"
          sources,   \* argv without its last element
          slash,     \* the user typed a slash after each (a bound: or none)
          dest,      \* the path of the last argument
          destcoll,  \* dest_is_coll
          overwrite, \* the overwrite option
          ops,       \* the pairs built so far
          sent,      \* how many of them were sent: n of the second loop
          before,    \* history: tree when the command was given
          given,     \* history: how many commands were given
          made,      \* history: how many collections other clients made
          misread    \* history: the collections of this command whose lookup
                     \* failed

vars == <<tree, pc, verb, sources, slash, dest, destcoll, overwrite, ops, sent,
          before, given, made, misread>>

Pair == [src : Paths, dest : Seq(Names)]

TypeOK ==
  /\ tree \in [Paths -> {ABSENT, COLL} \cup Files]
  /\ pc \in {"prompt", "source", "run", "rename"}
  /\ verb \in {"copy", "move", "rename"}
  /\ sources \in Seq(Paths) /\ dest \in Paths
  /\ {slash, destcoll, overwrite} \subseteq BOOLEAN
  /\ ops \in Seq(Pair) /\ Len(ops) <= Len(sources)
  /\ sent \in 0 .. Len(sources)
  /\ before \in [Paths -> {ABSENT, COLL} \cup Files]
  /\ given \in 0 .. MaxCommands /\ made \in 0 .. MaxMade
  /\ misread \subseteq Paths

---------------------------------------------------------------------------
(* The server. *)

Exists(p) == p \in Paths /\ tree[p] # ABSENT
IsColl(p) == p \in Paths /\ tree[p] = COLL

\* Every resource is in a collection, and every content in one place.
WellFormed(t) ==
  /\ t[Root] = COLL
  /\ \A p \in DOMAIN t \ {Root} : t[p] # ABSENT => t[Front(p)] = COLL
  /\ \A p, q \in DOMAIN t : t[p] \in Files /\ t[p] = t[q] => p = q

\* Path q of the tree at p, when that tree is at r.
Rebased(q, p, r) == r \o SubSeq(q, Len(p) + 1, Len(q))

\* A source that exists, no overlap, a collection to put it in, nothing in
\* the way unless the request says Overwrite: T, and no path beyond the bound.
Acceptable(p, r, over) ==
  /\ Exists(p) /\ r \in Paths
  /\ ~IsPrefix(p, r) /\ ~IsPrefix(r, p)
  /\ IsColl(Front(r))
  /\ Exists(r) => over
  /\ \A q \in Paths : IsPrefix(p, q) /\ Exists(q) => Rebased(q, p, r) \in Paths

\* What was at r is replaced as a whole.
Transferred(p, r, keep) ==
  [q \in Paths |->
     IF IsPrefix(r, q)
     THEN IF Rebased(q, r, p) \in Paths THEN tree[Rebased(q, r, p)] ELSE ABSENT
     ELSE IF IsPrefix(p, q) /\ ~keep THEN ABSENT ELSE tree[q]]

Request(p, r, over, keep) ==
  \/ Acceptable(p, r, over) /\ tree' = Transferred(p, r, keep)
  \/ (~Acceptable(p, r, over) \/ RequestFaults) /\ UNCHANGED tree

\* Another client's MKCOL, while a command runs.
OtherMakes(p) ==
  /\ pc # "prompt" /\ made < MaxMade
  /\ p # Root /\ ~Exists(p) /\ IsColl(Front(p))
  /\ tree' = [tree EXCEPT ![p] = COLL]
  /\ made' = made + 1
  /\ UNCHANGED <<pc, verb, sources, slash, dest, destcoll, overwrite, ops, sent,
                 before, given, misread>>

---------------------------------------------------------------------------
(* The commands. *)

\* Any hierarchy, in which every content is in one place.
Init ==
  /\ \E t \in [Typed -> {ABSENT, COLL} \cup Files] :
       /\ WellFormed(t)
       /\ tree = [p \in Paths |-> IF p \in Typed THEN t[p] ELSE ABSENT]
  /\ pc = "prompt" /\ verb = "copy" /\ sources = <<>> /\ slash = FALSE
  /\ dest = Root
  /\ destcoll = FALSE /\ overwrite = TRUE /\ ops = <<>> /\ sent = 0
  /\ before = tree /\ given = 0 /\ made = 0
  /\ misread = {}

\* What uri_resolve_native_true takes for a collection: a redirect to the path
\* with a slash is followed; a PROPFIND that fails reads as "no".
Lookup(p, coll) ==
  \/ coll = IsColl(p) /\ UNCHANGED misread
  \/ IsColl(p) /\ ~coll /\ misread' = misread \cup {p}

\* The first lookup of a command.
FirstLookup(p, coll) ==
  \/ coll = IsColl(p) /\ misread' = {}
  \/ IsColl(p) /\ ~coll /\ misread' = {p}

\* The overwrite option has been set or unset before.
Start(v, srcs, d) ==
  /\ verb' = v /\ sources' = srcs /\ dest' = d
  /\ overwrite' \in BOOLEAN /\ slash' \in BOOLEAN
  /\ ops' = <<>> /\ sent' = 0 /\ before' = tree /\ given' = given + 1
  /\ UNCHANGED <<tree, made>>

\* The destination is looked up first.
CopyMoveCommand(v, srcs, d) ==
  /\ Start(v, srcs, d)
  /\ pc' = "source"
  /\ destcoll' \in BOOLEAN /\ FirstLookup(d, destcoll')

\* base_name of a path that ends in a slash is empty.
Into(src, slashed) == IF slashed THEN dest ELSE Append(dest, Last(src))

\* Mutant: a collection takes the place of the destination collection.
PairForOver(src, coll) ==
  [src |-> src,
   dest |-> IF destcoll THEN Into(src, slash \/ coll) ELSE dest]

\* Mutant: the name typed is sent instead of the path it stands for.
PairForName(src, coll) ==
  [src |-> Last(src),
   dest |-> IF destcoll THEN Into(src, slash /\ ~coll) ELSE dest]

\* Cases 1 and 2, into the destination: the slash of a collection is taken
\* off first.  Case 3, onto the destination.
PairFor(src, coll) ==
  [src |-> src,
   dest |-> IF destcoll THEN Into(src, slash /\ ~coll) ELSE dest]

Refused(src, coll) == src = Root \/ (coll /\ ~destcoll)

\* Mutant: the requests of the pairs built before the error are sent.
LookupSourceSendsSome ==
  /\ pc = "source"
  /\ LET src == sources[Len(ops) + 1] IN \E coll \in BOOLEAN :
       /\ Lookup(src, coll)
       /\ \/ /\ Refused(src, coll)
             /\ pc' = IF ops = <<>> THEN "prompt" ELSE "run"
             /\ UNCHANGED ops
          \/ /\ ~Refused(src, coll)
             /\ ops' = Append(ops, PairFor(src, coll))
             /\ pc' = IF Len(ops') = Len(sources) THEN "run" ELSE "source"
  /\ UNCHANGED <<tree, verb, sources, slash, dest, destcoll, overwrite, sent,
                 before, given, made>>

\* One source; an error ends the command.
LookupSource ==
  /\ pc = "source"
  /\ LET src == sources[Len(ops) + 1] IN \E coll \in BOOLEAN :
       /\ Lookup(src, coll)
       /\ \/ Refused(src, coll) /\ pc' = "prompt" /\ UNCHANGED ops
          \/ /\ ~Refused(src, coll)
             /\ ops' = Append(ops, PairFor(src, coll))
             /\ pc' = IF Len(ops') = Len(sources) THEN "run" ELSE "source"
  /\ UNCHANGED <<tree, verb, sources, slash, dest, destcoll, overwrite, sent,
                 before, given, made>>

\* Mutant: every pair is sent with the destination of the first.
SendPairFirstDest ==
  /\ pc = "run"
  /\ Request(ops[sent + 1].src, ops[1].dest, overwrite, verb = "copy")
  /\ sent' = sent + 1
  /\ pc' = IF sent' = Len(ops) THEN "prompt" ELSE "run"
  /\ UNCHANGED <<verb, sources, slash, dest, destcoll, overwrite, ops, before,
                 given, made, misread>>

\* simple_copy, simple_move: the result is printed, the batch goes on.
SendPair ==
  /\ pc = "run"
  /\ Request(ops[sent + 1].src, ops[sent + 1].dest, overwrite, verb = "copy")
  /\ sent' = sent + 1
  /\ pc' = IF sent' = Len(ops) THEN "prompt" ELSE "run"
  /\ UNCHANGED <<verb, sources, slash, dest, destcoll, overwrite, ops, before,
                 given, made, misread>>

\* rename: only the source is looked up; a file is not renamed to a path
\* typed with a slash.
RenameCommand(src, d) ==
  /\ Start("rename", <<src>>, d)
  /\ destcoll' = FALSE
  /\ \E coll, slashed \in BOOLEAN :
       /\ FirstLookup(src, coll)
       /\ pc' = IF ~coll /\ slashed THEN "prompt" ELSE "rename"

\* Mutant: rename heeds the overwrite option.
SendRenameOverwrites ==
  /\ pc = "rename"
  /\ Request(sources[1], dest, overwrite, FALSE)
  /\ sent' = 1
  /\ pc' = "prompt"
  /\ UNCHANGED <<verb, sources, slash, dest, destcoll, overwrite, ops, before,
                 given, made, misread>>

\* Overwrite: F, whatever the option says.
SendRename ==
  /\ pc = "rename"
  /\ Request(sources[1], dest, FALSE, FALSE)
  /\ sent' = 1
  /\ pc' = "prompt"
  /\ UNCHANGED <<verb, sources, slash, dest, destcoll, overwrite, ops, before,
                 given, made, misread>>

\* A line with one of the three commands.
Command ==
  /\ pc = "prompt" /\ given < MaxCommands
  /\ \/ \E v \in {"copy", "move"}, n \in 1 .. MaxSources, d \in Typed :
          \E srcs \in [1 .. n -> Typed] : CopyMoveCommand(v, srcs, d)
     \/ \E src, d \in Typed : RenameCommand(src, d)

Done == pc = "prompt" /\ given = MaxCommands /\ UNCHANGED vars

Next ==
  \/ Command \/ LookupSource \/ SendPair \/ SendRename
  \/ \E p \in Typed : OtherMakes(p)
  \/ Done

Spec == Init /\ [][Next]_vars

---------------------------------------------------------------------------
(* Properties. *)

Kept(t) == {f \in Files : \E p \in Paths : t[p] = f}

\* Where each source should end.
Target(i) == IF before[dest] = COLL THEN Append(dest, Last(sources[i])) ELSE dest

\* No source was typed with a slash that is not a collection, or not known as
\* one: such a pair's destination is the destination collection itself, as
\* base_name is empty.
Plain == slash => \A i \in DOMAIN sources :
                    before[sources[i]] = COLL /\ sources[i] \notin misread

\* When every source has a place of its own and nothing was there before,
\* no content is lost, whichever requests fail and whatever sources overlap,
\* and also when lookups fail, but for that of a destination collection; with
\* the overwrite option off, and by rename, none ever is.
NothingLost ==
  pc = "prompt" /\ given > 0 /\ Root \notin Range(sources) /\ Plain =>
    \/ Kept(before) \subseteq Kept(tree)
    \/ verb # "rename" /\ overwrite
       /\ \E i, j \in DOMAIN sources :
            \/ i # j /\ Target(i) = Target(j)
            \/ Target(i) \in Paths /\ before[Target(i)] # ABSENT
            \/ dest \in misread

\* NEWS:33: sources go inside a destination collection rather than over it:
\* no request of the batch makes it something else or removes a member that
\* is not itself a source or a target, unless the destination's lookup failed
\* and a source may take its place.
DestinationSurvives ==
  /\ given > 0 /\ verb # "rename" /\ before[dest] = COLL /\ Plain
  /\ overwrite => dest \notin misread
  =>
    /\ tree[dest] = COLL
    /\ \A n \in Names :
         LET p == Append(dest, n) IN
         p \in Paths /\ before[p] # ABSENT /\ tree[p] = ABSENT =>
           \E i \in DOMAIN sources : IsPrefix(sources[i], p) \/ Target(i) = p

\* A command with one pair that is refused sends nothing at all.
AllOrNothing ==
  sent > 0 /\ verb # "rename" => Len(ops) = Len(sources)

\* A batch is well formed: typed sources, pairs and hierarchy, and no request of
\* it before each source has its pair (do_copymove).
BatchSound == TypeOK /\ AllOrNothing

================================================================================
