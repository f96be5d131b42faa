----------------------------- MODULE LockCommands -----------------------------
(***************************************************************************)
(* The lock, unlock, steal, rm, rmcol, mv and rename commands of           *)
(* src/src/commands.c and the lock store (session.locks) they share,       *)
(* against a WebDAV server that also has other clients.                    *)
(*                                                                         *)
(* A command sends one request and acts on its reply.  Between the two the *)
(* server, lock timeouts and other clients act; the request may be refused *)
(* and the reply to an applied request may be lost.  The server and the    *)
(* list structure of neon's lock store are external: the store is a set of *)
(* cells, and a search for a URI may return any cell that holds it.        *)
(***************************************************************************)
EXTENDS Naturals, FiniteSets

CONSTANTS Files,      \* URIs of ordinary resources
          Colls,      \* URIs of collections
          Within,     \* the collection a file is in, or NONE
          Tokens,     \* lock tokens the server can issue (a bound)
          Cells,      \* places in the lock store (a bound)
          NONE,       \* no lock, no entry, no request
          Faults,     \* requests are refused for no reason and replies lost
          Others      \* locks expire and other clients lock and delete

Resources == Files \cup Colls

Lock == [uri : Resources, deep : BOOLEAN, shared : BOOLEAN, own : BOOLEAN]
Entry == [uri : Resources, token : Tokens]
Ops == {"lock", "unlock", "steal", "delete", "rmcol", "move"}
Request == [op : Ops, uri : Resources, dest : Resources, deep : BOOLEAN,
            shared : BOOLEAN, token : Tokens \cup {NONE}]

ASSUME LockAssumption ==
  /\ Within \in [Files -> Colls \cup {NONE}]
  /\ NONE \notin Resources \cup Tokens
  /\ NONE \notin Lock \cup Entry \cup Request
  /\ Files \cap Colls = {}
  /\ Faults \in BOOLEAN /\ Others \in BOOLEAN

VARIABLES exists,   \* server: the resources that exist
          held,     \* server: the lock each token stands for
          issued,   \* server: the tokens issued so far
          store,    \* session.locks
          pc,       \* "prompt", "sent", or the reply: "ok", "failed"
          req,      \* the request of the command in progress
          found,    \* steal: the tokens still to be reported
          mine,     \* history: tokens whose LOCK was answered with success
          tried,    \* history: tokens an UNLOCK was sent for
          unseen,   \* history: tokens the server dropped, or issued, out of
                    \* the program's sight: a lock that expired, moved, went
                    \* with its collection, or whose reply was lost
          handled   \* history: tokens steal stored, or the user typed

server == <<exists, held, issued>>
history == <<mine, tried, unseen, handled>>
vars == <<server, store, pc, req, found, history>>

TypeOK ==
  /\ exists \subseteq Resources
  /\ held \in [Tokens -> Lock \cup {NONE}]
  /\ issued \subseteq Tokens
  /\ store \in [Cells -> Entry \cup {NONE}]
  /\ pc \in {"prompt", "sent", "ok", "failed"}
  /\ req \in Request \cup {NONE}
  /\ found \subseteq Tokens
  /\ mine \subseteq Tokens
  /\ tried \subseteq Tokens
  /\ unseen \subseteq Tokens
  /\ handled \subseteq Tokens

\* main registers an empty store; the server may have any content.
Init ==
  /\ exists \in SUBSET Resources
  /\ \A f \in Files : f \in exists /\ Within[f] # NONE => Within[f] \in exists
  /\ held = [t \in Tokens |-> NONE]
  /\ issued = {}
  /\ store = [c \in Cells |-> NONE]
  /\ pc = "prompt"
  /\ req = NONE
  /\ found = {}
  /\ mine = {} /\ tried = {} /\ unseen = {} /\ handled = {}

---------------------------------------------------------------------------
(* The server. *)

\* The members of r, r included.
Tree(r) == {r} \cup {f \in Files : Within[f] = r}

Live == {t \in Tokens : held[t] # NONE}

\* The locks that protect r.
Covering(r) == {t \in Live : r = held[t].uri
                             \/ (held[t].deep /\ r \in Tree(held[t].uri))}

\* neon sends the stored tokens of the resources a request changes, and of
\* the collections they are in, in an If header.
Submitted(rs) == {t \in Tokens : \E c \in Cells :
                    /\ store[c] # NONE /\ store[c].token = t
                    /\ Tree(store[c].uri) \cap rs # {}}

\* A change is refused unless every lock in its way is submitted, and
\* unless every submitted token is still a lock.
Permitted(rs) ==
  /\ \A r \in rs : Covering(r) \subseteq Submitted(rs)
  /\ Submitted(rs) \subseteq Live

Conflicts(r, deep, shared) ==
  \E t \in Live : /\ held[t].uri \in (IF deep THEN Tree(r) ELSE {r})
                     \/ t \in Covering(r)
                  /\ ~(shared /\ held[t].shared)

Rooted(rs) == {t \in Live : held[t].uri \in rs}

\* Every lock rooted in rs disappears with its resource.
Drop(rs) ==
  held' = [t \in Tokens |-> IF t \in Rooted(rs) THEN NONE ELSE held[t]]

\* The reply to an applied request arrives, telling all but the fate of
\* the tokens ts, or is lost, hiding that of the tokens in all.
Answer(ts, all) ==
  \/ pc' = "ok" /\ unseen' = unseen \cup ts
  \/ Faults /\ pc' = "failed" /\ unseen' = unseen \cup all

ServeLock ==
  /\ pc = "sent" /\ req.op = "lock"
  /\ ~Conflicts(req.uri, req.deep, req.shared)
  /\ \E t \in Tokens \ issued :
       /\ held' = [held EXCEPT ![t] = [uri |-> req.uri, deep |-> req.deep,
                                       shared |-> req.shared, own |-> TRUE]]
       /\ issued' = issued \cup {t}
       /\ req' = [req EXCEPT !.token = t]
       /\ Answer({}, {t})
  /\ exists' = exists \cup {req.uri}
  /\ UNCHANGED <<store, found, mine, tried, handled>>

ServeUnlock ==
  /\ pc = "sent" /\ req.op = "unlock"
  /\ req.token \in Covering(req.uri)
  /\ held' = [held EXCEPT ![req.token] = NONE]
  /\ Answer({}, {req.token})
  /\ UNCHANGED <<exists, issued, store, req, found, mine, tried, handled>>

ServeDelete ==
  /\ pc = "sent" /\ req.op \in {"delete", "rmcol"}
  /\ req.uri \in exists
  /\ Permitted(Tree(req.uri))
  /\ exists' = exists \ Tree(req.uri)
  /\ Drop(Tree(req.uri))
  /\ Answer(Rooted(Tree(req.uri) \ {req.uri}), Rooted(Tree(req.uri)))
  /\ UNCHANGED <<issued, store, req, found, mine, tried, handled>>

\* A 207 reply: some members are gone, the collection is not.  neon reports
\* it as an error.
ServePartialDelete ==
  /\ pc = "sent" /\ req.op = "rmcol"
  /\ \E rs \in SUBSET (Tree(req.uri) \ {req.uri}) :
       /\ rs # {} /\ rs \subseteq exists
       /\ Permitted(rs)
       /\ exists' = exists \ rs
       /\ Drop(rs)
       /\ unseen' = unseen \cup Rooted(rs)
  /\ pc' = "failed"
  /\ UNCHANGED <<issued, store, req, found, mine, tried, handled>>

\* MOVE, with or without Overwrite (deep stands for the flag here).  A lock
\* stays at the URI it was taken on, so the source's locks are gone.
ServeMove ==
  /\ pc = "sent" /\ req.op = "move"
  /\ req.uri \in exists /\ req.uri # req.dest
  /\ req.dest \in exists => req.deep
  /\ Permitted({req.uri, req.dest})
  /\ exists' = (exists \ {req.uri}) \cup {req.dest}
  /\ Drop({req.uri})
  /\ Answer(Rooted({req.uri}), Rooted({req.uri}))
  /\ UNCHANGED <<issued, store, req, found, mine, tried, handled>>

\* lockdiscovery lists every lock that covers the resource.
ServeDiscover ==
  /\ pc = "sent" /\ req.op = "steal"
  /\ found' = Covering(req.uri)
  /\ pc' = "ok"
  /\ UNCHANGED <<server, store, req, history>>

\* The request is refused, or never reaches the server.
Refuse ==
  /\ pc = "sent"
  /\ \/ Faults
     \/ req.op = "lock" /\ (Conflicts(req.uri, req.deep, req.shared)
                            \/ issued = Tokens)
     \/ req.op = "unlock" /\ req.token \notin Covering(req.uri)
     \/ req.op \in {"delete", "rmcol"}
          /\ (req.uri \notin exists \/ ~Permitted(Tree(req.uri)))
     \/ req.op = "move"
          /\ (req.uri \notin exists \/ ~Permitted({req.uri, req.dest})
              \/ req.uri = req.dest \/ (req.dest \in exists /\ ~req.deep))
  /\ pc' = "failed"
  /\ UNCHANGED <<server, store, req, found, history>>

Serve == ServeLock \/ ServeUnlock \/ ServeDelete \/ ServePartialDelete
         \/ ServeMove \/ ServeDiscover \/ Refuse

---------------------------------------------------------------------------
(* Timeouts and other clients. *)

Expire(t) ==
  /\ Others
  /\ t \in Live
  /\ held' = [held EXCEPT ![t] = NONE]
  /\ unseen' = unseen \cup {t}
  /\ UNCHANGED <<exists, issued, store, pc, req, found, mine, tried, handled>>

OtherLocks(r, t) ==
  /\ Others
  /\ t \notin issued
  /\ ~Conflicts(r, FALSE, FALSE)
  /\ held' = [held EXCEPT ![t] = [uri |-> r, deep |-> FALSE, shared |-> FALSE,
                                  own |-> FALSE]]
  /\ issued' = issued \cup {t}
  /\ exists' = exists \cup {r}
  /\ UNCHANGED <<store, pc, req, found, history>>

OtherDeletes(f) ==
  /\ Others
  /\ f \in exists /\ Covering(f) = {}
  /\ exists' = exists \ {f}
  /\ UNCHANGED <<held, issued, store, pc, req, found, history>>

Environment == \/ \E t \in Tokens : Expire(t)
               \/ \E r \in Resources, t \in Tokens : OtherLocks(r, t)
               \/ \E f \in Files : OtherDeletes(f)

---------------------------------------------------------------------------
(* The commands. *)

\* uri_resolve_native_true: a PROPFIND tells collections apart.
IsColl(r) == r \in Colls \cap exists

Send(op, r, d, deep, shared, t) ==
  /\ pc' = "sent"
  /\ req' = [op |-> op, uri |-> r, dest |-> d, deep |-> deep,
             shared |-> shared, token |-> t]

Finish == pc' = "prompt" /\ req' = NONE

\* The bound on the store: commands that add entries run while n are free.
Room(n) == Cardinality({c \in Cells : store[c] = NONE}) >= n

Add(r, t) ==
  \E c \in Cells : /\ store[c] = NONE
                   /\ store' = [store EXCEPT ![c] = [uri |-> r, token |-> t]]

\* The depth option only applies to collections.
LockCommand(r) ==
  /\ pc = "prompt" /\ Room(1)
  /\ \E lockdepth, shared \in BOOLEAN :
       Send("lock", r, r, IsColl(r) /\ lockdepth, shared, NONE)
  /\ UNCHANGED <<server, store, found, history>>

\* Mutant: the URI of a refused lock is remembered with the lock.
LockDoneAlways ==
  /\ req # NONE /\ req.op = "lock"
  /\ pc \in {"ok", "failed"}
  /\ \E c \in Cells :
       store' = [store EXCEPT ![c] = [uri |-> req.uri, token |-> req.token]]
  /\ mine' = mine \cup ({req.token} \ {NONE})
  /\ Finish
  /\ UNCHANGED <<server, found, tried, unseen, handled>>

LockDone ==
  /\ req # NONE /\ req.op = "lock"
  /\ \/ pc = "ok" /\ Add(req.uri, req.token) /\ mine' = mine \cup {req.token}
     \/ pc = "failed" /\ UNCHANGED <<store, mine>>
  /\ Finish
  /\ UNCHANGED <<server, found, tried, unseen, handled>>

\* The cells a search of the store for r may return.
FindByUri(r) == {c \in Cells : store[c] # NONE /\ store[c].uri = r}

\* Mutant: the entry stays in the store.
UnlockKeepsEntry(r) ==
  /\ pc = "prompt"
  /\ \E c \in FindByUri(r) :
       /\ Send("unlock", r, r, FALSE, FALSE, store[c].token)
       /\ tried' = tried \cup {store[c].token}
  /\ UNCHANGED <<server, store, found, mine, unseen, handled>>

\* The entry is removed before the request is sent.
UnlockStored(r) ==
  /\ pc = "prompt"
  /\ \E c \in FindByUri(r) :
       /\ store' = [store EXCEPT ![c] = NONE]
       /\ Send("unlock", r, r, FALSE, FALSE, store[c].token)
       /\ tried' = tried \cup {store[c].token}
  /\ UNCHANGED <<server, found, mine, unseen, handled>>

\* No entry: the user types a token.
UnlockTyped(r) ==
  /\ pc = "prompt"
  /\ FindByUri(r) = {}
  /\ \E t \in issued : /\ Send("unlock", r, r, FALSE, FALSE, t)
                       /\ tried' = tried \cup {t}
                       /\ handled' = handled \cup {t}
  /\ UNCHANGED <<server, store, found, mine, unseen>>

\* The result is only printed.
UnlockDone ==
  /\ pc \in {"ok", "failed"} /\ req.op = "unlock"
  /\ Finish
  /\ UNCHANGED <<server, store, found, history>>

StealCommand(r) ==
  /\ pc = "prompt" /\ Room(Cardinality(Tokens))
  /\ Send("steal", r, r, FALSE, FALSE, NONE)
  /\ UNCHANGED <<server, store, found, history>>

\* steal_result, once per lock: the copy is stored under the URI asked for.
StealOne ==
  /\ pc = "ok" /\ req.op = "steal"
  /\ \E t \in found : /\ Add(req.uri, t)
                      /\ found' = found \ {t}
                      /\ handled' = handled \cup {t}
  /\ UNCHANGED <<server, pc, req, mine, tried, unseen>>

StealDone ==
  /\ pc \in {"ok", "failed"} /\ req.op = "steal"
  /\ found = {}
  /\ Finish
  /\ UNCHANGED <<server, store, found, history>>

\* rm refuses collections, rmcol everything else.
DeleteCommand(r) ==
  /\ pc = "prompt"
  /\ Send(IF IsColl(r) THEN "rmcol" ELSE "delete", r, r, FALSE, FALSE, NONE)
  /\ UNCHANGED <<server, store, found, history>>

\* remove_locks: every entry stored under exactly this URI.
RemoveLocks(r) ==
  store' = [c \in Cells |-> IF c \in FindByUri(r) THEN NONE ELSE store[c]]

\* Mutant: a failed delete forgets the locks as well.
DeleteForgetsAlways ==
  /\ req # NONE /\ req.op \in {"delete", "rmcol"}
  /\ pc \in {"ok", "failed"}
  /\ RemoveLocks(req.uri)
  /\ Finish
  /\ UNCHANGED <<server, found, history>>

DeleteDone ==
  /\ req # NONE /\ req.op \in {"delete", "rmcol"}
  /\ \/ pc = "ok" /\ RemoveLocks(req.uri)
     \/ pc = "failed" /\ UNCHANGED store
  /\ Finish
  /\ UNCHANGED <<server, found, history>>

\* mv (Overwrite as the option says) and rename (Overwrite: F).
MoveCommand(src, dest) ==
  /\ pc = "prompt"
  /\ \E overwrite \in BOOLEAN :
       Send("move", src, dest, overwrite, FALSE, NONE)
  /\ UNCHANGED <<server, store, found, history>>

MoveDone ==
  /\ pc \in {"ok", "failed"} /\ req.op = "move"
  /\ Finish
  /\ UNCHANGED <<server, store, found, history>>

Commands ==
  \/ \E r \in Resources : \/ LockCommand(r) \/ UnlockStored(r) \/ UnlockTyped(r)
                          \/ StealCommand(r) \/ DeleteCommand(r)
  \/ \E s, d \in Files : MoveCommand(s, d)
  \/ LockDone \/ UnlockDone \/ StealOne \/ StealDone \/ DeleteDone \/ MoveDone

Next == Serve \/ Environment \/ Commands

Spec == Init /\ [][Next]_vars

---------------------------------------------------------------------------
(* Properties. *)

Stored == {store[c].token : c \in {d \in Cells : store[d] # NONE}}

\* A lock the user was told she has stays in the store while the server
\* holds it, until an UNLOCK for it is sent: failed deletes (NEWS:252),
\* partial deletes, moves and other commands never forget it.
NeverForgets ==
  \A t \in mine : held[t] # NONE => t \in Stored \cup tried

\* At the prompt a stored token can be dead only for a reason the program
\* could not see or does not follow: the lock expired, its resource moved or
\* was removed with its collection, the reply was lost, or the user had
\* stolen it or typed it at the unlock prompt of another resource.
StaleReasons ==
  pc = "prompt" =>
    \A t \in Stored : held[t] # NONE \/ t \in unseen \cup handled

================================================================================
