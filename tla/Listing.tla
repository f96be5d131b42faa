-------------------------------- MODULE Listing --------------------------------
(***************************************************************************)
(* The listing of a collection (src/src/ls.c) and what is done with it:    *)
(* the ls command, the directory functions handed to glob                  *)
(* (src/src/cmdline.c), the type of a resource (src/src/utils.c) and the   *)
(* completion of remote names with its cache (src/src/cadaver.c).          *)
(*                                                                         *)
(* A URI path is the sequence of its segments, and a segment is a number   *)
(* that gives its place in the order of strcmp.  The server answers a      *)
(* PROPFIND with any resources, in any order, and may fail half way.       *)
(***************************************************************************)
EXTENDS Naturals, SequencesExt

CONSTANTS Colls,    \* URI paths of the collections the user visits
          Segments, \* segments
          Stems,    \* for each beginning of a name, the names that have it
          Kinds,    \* what the server may say of a resource
          Servers,  \* servers the user connects to
          Expire,   \* COMPLETION_CACHE_EXPIRE
          MaxTime,  \* bound: the last instant
          MaxCached,\* bound: resources of an answer that is cached
          MaxHeld   \* bound: resources of an answer, less MaxCached when a
                    \* listing is in the cache

\* Where the server puts a DAV: collection element, and whether it gives the
\* two properties that show a resource is there, reports their failure, or
\* leaves them out.
Kind == [collection : {"resourcetype", "elsewhere", "nowhere"},
         getcontentlength : {"value", "failed", "absent"},
         getlastmodified : {"value", "failed", "absent"}]

ASSUME ListingAssumption ==
  /\ Segments \subseteq Nat /\ Stems \subseteq SUBSET Segments
  /\ Colls \subseteq Seq(Segments) /\ <<>> \in Colls
  /\ Kinds \subseteq Kind
  /\ {Expire, MaxTime, MaxHeld, MaxCached} \subseteq Nat /\ MaxTime > 0
  /\ 0 \notin Servers

VARIABLES phase,   \* "prompt", "fetching", "matching", "reading" or "done"
          now,     \* time(NULL)
          server,  \* the server of the connection, 0 when there is none
          cwd,     \* session.uri.path
          job,     \* who asked for the listing
          target,  \* its URI path
          list,    \* *reslist
          current, \* what is left of the list: remote_completion, dg_ctx
          stem,    \* the names that begin as the text to complete does
          cache,   \* struct completion_cache
          out,     \* what the job gives: lines, names, completions or a type
          verdict, \* how the job ends
          misuse,  \* the path or the list of the cache was used after free
          arrived, \* history: the resources of the answer, in order
          stamp    \* history: where and when the cached list was fetched

conn == <<server, cwd>>
listingVars ==
  <<phase, now, conn, job, target, list, current, stem, cache, out, verdict, misuse,
    arrived, stamp>>

Uris == Colls \cup {Append(c, n) : c \in Colls, n \in Segments}
Types == {"normal", "collection", "error"}
Resource == [uri : Uris, type : Types]

EmptyCache == [state |-> "null", path |-> <<>>, list |-> <<>>, expiry |-> 0]

NoStamp == [server |-> 0, path |-> <<>>, at |-> 0, opened |-> FALSE]

ListingTypeOK ==
  /\ phase \in {"prompt", "fetching", "matching", "reading", "done"}
  /\ now \in 1 .. MaxTime
  /\ server \in Servers \cup {0} /\ cwd \in Colls
  /\ job \in {"none", "ls", "glob", "type", "tab"} /\ target \in Colls
  /\ {list, current} \subseteq Seq(Resource)
  /\ stem \subseteq Segments
  /\ cache \in [state : {"null", "full", "freed"}, path : Colls,
               list : Seq(Resource), expiry : 0 .. MaxTime + Expire]
  /\ out \in Seq([uri : Seq(Segments), form : Types \cup {"relative", "absolute"}])
  /\ verdict \in {"none", "success", "empty", "failed", "unknown", "crashed"}
  /\ misuse \in BOOLEAN
  /\ arrived \in Seq([uri : Uris, kind : Kinds])
  /\ stamp \in [server : Servers \cup {0}, path : Colls, at : 0 .. MaxTime,
               opened : BOOLEAN]

ListingInit ==
  /\ phase = "prompt" /\ now = 1 /\ server \in Servers /\ cwd = <<>>
  /\ job = "none" /\ target = <<>> /\ list = <<>> /\ current = <<>>
  /\ stem = {} /\ cache = EmptyCache /\ out = <<>> /\ verdict = "none"
  /\ misuse = FALSE /\ arrived = <<>>
  /\ stamp = NoStamp

---------------------------------------------------------------------------
(* The list. *)

\* strcmp of two paths that a listing of one collection can hold: its members,
\* and paths above it, which are shorter.
Precedes(u, v) ==
  Len(u) < Len(v) \/ (Len(u) = Len(v) /\ u # v /\ Last(u) < Last(v))

\* Mutant: collections and plain resources are not told apart.
NotBeforeMixed(r1, r2) ==
  r1.type # "error" /\ (r2.type = "error" \/ ~Precedes(r1.uri, r2.uri))

\* compare_resource(r1, r2) >= 0.
NotBefore(r1, r2) ==
  /\ r1.type # "error"
  /\ \/ r2.type = "error"
     \/ r1.type = "normal" /\ r2.type = "collection"
     \/ r1.type = r2.type /\ ~Precedes(r1.uri, r2.uri)

Insert(l, r) ==
  LET later == {i \in DOMAIN l : NotBefore(l[i], r)}
  IN  InsertAt(l, IF later = {} THEN Len(l) + 1 ELSE Min(later), r)

\* A missing date decides alone, even when it has no status.
TypeOf(kind) ==
  CASE kind.collection = "resourcetype" -> "collection"
    [] kind.collection # "resourcetype"
         /\ (IF kind.getlastmodified # "value" THEN kind.getlastmodified
             ELSE kind.getcontentlength) = "failed" -> "error"
    [] OTHER -> "normal"

Begin(who, coll) ==
  /\ phase' = "fetching" /\ job' = who /\ target' = coll
  /\ list' = <<>> /\ arrived' = <<>>
  /\ UNCHANGED <<now, conn, current, out, verdict, stamp>>

\* The ls command, a directory opened by glob, the type of a resource.
Ask ==
  /\ phase = "prompt" /\ server # 0
  /\ \E who \in {"ls", "glob", "type"}, coll \in Colls : Begin(who, coll)
  /\ UNCHANGED <<stem, cache, misuse>>

\* Mutant: the target is listed whoever asks.
ResultsAll(uri, kind) ==
  list' = Insert(list, [uri |-> uri, type |-> TypeOf(kind)])

\* Mutant: the target is skipped whoever asks.
ResultsNever(uri, kind) ==
  list' = IF uri = target THEN list
          ELSE Insert(list, [uri |-> uri, type |-> TypeOf(kind)])

\* results: include_target is set only by getrestype.
Results(uri, kind) ==
  list' = IF uri = target /\ job # "type" THEN list
          ELSE Insert(list, [uri |-> uri, type |-> TypeOf(kind)])

Arrives ==
  /\ phase = "fetching"
  /\ Len(arrived) < CASE job = "tab" -> MaxCached
                      [] job # "tab" /\ cache.state = "full" -> MaxHeld - MaxCached
                      [] OTHER -> MaxHeld
  /\ \E uri \in {u \in Uris : u = target \/ IsPrefix(u, target)
                                \/ Front(u) = target},
        kind \in Kinds :
       /\ Results(uri, kind)
       /\ arrived' = Append(arrived, [uri |-> uri, kind |-> kind])
  /\ UNCHANGED <<phase, now, conn, job, target, current, stem, cache, out, verdict,
                 misuse, stamp>>

---------------------------------------------------------------------------
(* What is done with it. *)

\* What is shown of a resource, and whether it is: one whose path is no longer
\* than that of the collection is skipped.
Line(r) == [uri |-> r.uri, form |-> r.type]
Longer(r) == Len(r.uri) > Len(target)

\* execute_ls without anything to show.
LsEmpty ==
  /\ job = "ls" /\ list = <<>> /\ phase' = "done" /\ verdict' = "empty"
  /\ UNCHANGED <<list, current, cache, out, misuse, stamp>>

\* The loop of execute_ls begins, or davglob_opendir returns.
Opened ==
  /\ (job = "ls" /\ list # <<>>) \/ job = "glob"
  /\ phase' = "reading" /\ current' = list
  /\ UNCHANGED <<list, cache, out, verdict, misuse, stamp>>

\* getrestype, which looks only at the first resource of the list, and reads
\* the path of a resource that is not there to say that there is none.
TypeEnds ==
  /\ job = "type" /\ phase' = "done" /\ list' = <<>>
  /\ verdict' = IF list = <<>> THEN "crashed"
                ELSE IF list[1].uri = target THEN "success" ELSE "unknown"
  /\ out' = IF verdict' = "success" THEN <<Line(list[1])>> ELSE <<>>
  /\ UNCHANGED <<current, cache, misuse, stamp>>

\* Mutant: the instant after the last one is allowed for.
CachedLong ==
  /\ job = "tab" /\ phase' = "matching" /\ current' = list /\ list' = <<>>
  /\ cache' = [state |-> "full", path |-> target, list |-> list,
               expiry |-> now + Expire + 1]
  /\ stamp' = [server |-> server, path |-> target, at |-> now, opened |-> FALSE]
  /\ UNCHANGED <<out, verdict, misuse>>

\* refresh_completion_cache succeeds.
Cached ==
  /\ job = "tab" /\ phase' = "matching" /\ current' = list /\ list' = <<>>
  /\ cache' = [state |-> "full", path |-> target, list |-> list,
               expiry |-> now + Expire]
  /\ stamp' = [server |-> server, path |-> target, at |-> now, opened |-> FALSE]
  /\ UNCHANGED <<out, verdict, misuse>>

Answered ==
  /\ phase = "fetching"
  /\ LsEmpty \/ Opened \/ TypeEnds \/ Cached
  /\ UNCHANGED <<now, conn, job, target, stem, arrived>>

\* Mutant: a failed refresh leaves what it freed in the cache.
FailedCache == cache

\* The memset of refresh_completion_cache, when its listing fails.
ClearedCache == EmptyCache

\* What was listed before the failure is not freed, except by getrestype.
Fails ==
  /\ phase = "fetching"
  /\ IF job = "tab"
       THEN phase' = "matching" /\ cache' = ClearedCache /\ stamp' = NoStamp
       ELSE phase' = "done" /\ UNCHANGED <<cache, stamp>>
  /\ verdict' = "failed" /\ current' = <<>> /\ list' = <<>> /\ out' = <<>>
  /\ UNCHANGED <<now, conn, job, target, stem, misuse, arrived>>

\* One resource of the loop of execute_ls, or of davglob_readdir.
Readdir ==
  /\ phase = "reading" /\ current # <<>>
  /\ current' = Tail(current)
  /\ out' = IF Longer(Head(current)) THEN Append(out, Line(Head(current))) ELSE out
  /\ UNCHANGED <<phase, now, conn, job, target, list, stem, cache, verdict, misuse,
                 arrived, stamp>>

\* The loop is over, or the directory is closed.
Closedir ==
  /\ phase = "reading" /\ current = <<>>
  /\ phase' = "done" /\ verdict' = "success" /\ list' = <<>>
  /\ UNCHANGED <<now, conn, job, target, current, stem, cache, out, misuse,
                 arrived, stamp>>

---------------------------------------------------------------------------
(* Completion. *)

Stale(coll) == cache.expiry < now \/ coll # cache.path

\* Mutant: the cache is not checked for the collection asked for.
TabSamePath ==
  /\ phase = "prompt" /\ server # 0
  /\ \E coll \in Colls, names \in Stems :
       /\ stem' = names
       /\ IF cache.expiry < now
            THEN /\ Begin("tab", coll)
                 /\ misuse' = (misuse \/ (cache.expiry > 0 /\ cache.state # "full"))
                 /\ cache' = [cache EXCEPT !.state = "freed", !.list = <<>>]
            ELSE /\ phase' = "matching" /\ job' = "tab" /\ target' = coll
                 /\ current' = cache.list
                 /\ UNCHANGED <<now, conn, list, cache, out, verdict, misuse,
                                arrived, stamp>>

\* The first call of remote_completion: coll is the collection that the text
\* names, and names are those that begin with the rest of it.
Tab ==
  /\ phase = "prompt" /\ server # 0
  /\ \E coll \in Colls, names \in Stems :
       /\ stem' = names
       /\ misuse' = (misuse \/ (cache.expiry > 0 /\ cache.state # "full"))
       /\ IF Stale(coll)
            THEN /\ Begin("tab", coll)
                 /\ cache' = [cache EXCEPT !.state = IF cache.expiry > 0 THEN "freed" ELSE @,
                                           !.list = <<>>]
            ELSE /\ phase' = "matching" /\ job' = "tab" /\ target' = coll
                 /\ current' = cache.list
                 /\ UNCHANGED <<now, conn, list, cache, out, verdict, arrived,
                                stamp>>

\* Mutant: any path longer than that of the session is cut.
OfferLonger(uri) ==
  IF Len(uri) > Len(cwd)
    THEN [uri |-> SubSeq(uri, Len(cwd) + 1, Len(uri)), form |-> "relative"]
    ELSE [uri |-> uri, form |-> "absolute"]

\* A path below that of the session is offered without it.
Offer(uri) ==
  IF IsStrictPrefix(cwd, uri)
    THEN [uri |-> SubSeq(uri, Len(cwd) + 1, Len(uri)), form |-> "relative"]
    ELSE [uri |-> uri, form |-> "absolute"]

Matches(uri) ==
  \E n \in stem : IsPrefix(Append(target, n), uri)

\* One resource looked at by remote_completion.
Match ==
  /\ phase = "matching" /\ current # <<>>
  /\ current' = Tail(current)
  /\ LET uri == Head(current).uri
     IN  out' = IF Matches(uri) THEN Append(out, Offer(uri)) ELSE out
  /\ UNCHANGED <<phase, now, conn, job, target, list, stem, cache, verdict, misuse,
                 arrived, stamp>>

\* remote_completion returns NULL.
NoMore ==
  /\ phase = "matching" /\ current = <<>>
  /\ phase' = "done" /\ verdict' = IF verdict = "none" THEN "success" ELSE verdict
  /\ UNCHANGED <<now, conn, job, target, list, current, stem, cache, out, misuse,
                 arrived, stamp>>

---------------------------------------------------------------------------
(* The rest of the program. *)

\* The job returns to its caller.
Return ==
  /\ phase = "done"
  /\ phase' = "prompt" /\ job' = "none" /\ target' = <<>> /\ stem' = {}
  /\ out' = <<>> /\ verdict' = "none" /\ arrived' = <<>>
  /\ UNCHANGED <<now, conn, list, current, cache, misuse, stamp>>

\* The cd, open and close commands: the cache outlives them.
Move ==
  /\ phase = "prompt"
  /\ \/ server # 0 /\ cwd' \in Colls /\ UNCHANGED <<server, stamp>>
     \/ /\ server' \in Servers /\ cwd' = <<>>
        /\ stamp' = [stamp EXCEPT !.opened = (cache.state = "full")]
     \/ server # 0 /\ server' = 0 /\ UNCHANGED <<cwd, stamp>>
  /\ UNCHANGED <<phase, now, job, target, list, current, stem, cache, out, verdict,
                 misuse, arrived>>

\* Time passes at the prompt and while the server answers.
Tick ==
  /\ phase \in {"prompt", "fetching"} /\ now < MaxTime
  /\ now' = now + 1
  /\ UNCHANGED <<phase, conn, job, target, list, current, stem, cache, out, verdict,
                 misuse, arrived, stamp>>

ListingNext ==
  Ask \/ Arrives \/ Answered \/ Fails \/ Readdir \/ Closedir \/ Tab \/ Match
  \/ NoMore \/ Return \/ Move \/ Tick

ListingSpec == ListingInit /\ [][ListingNext]_listingVars

---------------------------------------------------------------------------
(* Properties. *)

Rank(type) == CASE type = "error" -> 1 [] type = "collection" -> 2 [] OTHER -> 3

\* The resources of the answer that a listing holds, and what it says of each.
Reported == {i \in DOMAIN arrived : arrived[i].uri # target \/ job = "type"}
Got(i) == [uri |-> arrived[i].uri, type |-> TypeOf(arrived[i].kind)]

Times(e, s) == Cardinality({i \in DOMAIN s : s[i] = e})

\* Whatever order the resources of an answer arrive in, the list holds each of
\* them once, failed ones first, then collections, then the others, both by
\* name (the insertion of results in ls.c, under a comparison that is not
\* antisymmetric).
Sorted ==
  phase = "fetching" =>
    /\ \A r \in ToSet(list) \cup {Got(i) : i \in Reported} :
         Times(r, list) = Cardinality({i \in Reported : Got(i) = r})
    /\ \A i, j \in DOMAIN list : i < j =>
         \/ Rank(list[i].type) < Rank(list[j].type)
         \/ list[i].type = list[j].type
              /\ (list[i].type = "error" \/ ~Precedes(list[j].uri, list[i].uri))

\* An ls or a glob that succeeds gives every member the server reported as
\* often as it was reported, and neither the collection itself nor anything
\* above it; ls calls a collection empty exactly when the answer held nothing
\* but the collection (execute_ls, davglob_readdir).
EveryMember ==
  phase = "done" /\ job \in {"ls", "glob"} /\ verdict # "failed" =>
    /\ \A l \in ToSet(out) \cup {Line(Got(i)) : i \in Reported} :
         Times(l, out) = Cardinality({i \in Reported : Longer(Got(i)) /\ Line(Got(i)) = l})
    /\ job = "ls" => (verdict = "empty"
                        <=> \A i \in DOMAIN arrived : arrived[i].uri = target)

\* A type is that of the resource asked for, as the server reported it, and it
\* is found whenever the answer is about that resource alone; only an answer
\* without any resource crashes the program, on the way to an error message
\* (getrestype, utils.c).
TypeReported ==
  phase = "done" /\ job = "type" =>
    LET reports == {TypeOf(arrived[i].kind) : i \in {k \in DOMAIN arrived :
                                                      arrived[k].uri = target}}
    IN  CASE verdict = "success" -> out[1].uri = target /\ out[1].form \in reports
          [] verdict = "crashed" -> arrived = <<>>
          [] verdict = "unknown" -> reports = {} \/ Len(arrived) > 1
          [] OTHER               -> TRUE

\* The names offered for completion come from a listing of the collection
\* asked for that is no older than the cache may be, and from the server that
\* is connected unless a connection was opened since (refresh_completion_cache
\* compares only the path and the time).
Fresh ==
  phase = "matching" /\ verdict # "failed" =>
    /\ stamp.path = target
    /\ now <= stamp.at + Expire
    /\ stamp.server = server \/ stamp.opened

\* What is offered, typed as it is, names a member of the cached listing that
\* begins as the text does, and each such member is offered, in order
\* (remote_completion).
OfferedResolve ==
  phase = "done" /\ job = "tab" =>
    LET meant(o) == IF o.form = "relative" THEN cwd \o o.uri ELSE o.uri
        members == {k \in DOMAIN cache.list :
                      \E n \in stem : cache.list[k].uri = Append(target, n)}
    IN  /\ Len(out) = Cardinality(members)
        /\ \A k \in members :
             meant(out[Cardinality({m \in members : m <= k})]) = cache.list[k].uri

\* The path and the list of the completion cache are not used once freed, even
\* when the listing that should have replaced them fails
\* (refresh_completion_cache).
NoMisuse == ~misuse

\* What is listed is complete and in order, whatever order it arrived in.
Listed == Sorted /\ EveryMember

\* The answer, the list and the cache keep their types, nothing freed is used,
\* and every list is sound.
ListingWellFormed == ListingTypeOK /\ NoMisuse /\ Listed

================================================================================
