---------------------------- MODULE CadaverSession ----------------------------
(***************************************************************************)
(* The connection state of cadaver (src/src/cadaver.c: struct session,     *)
(* close_connection, set_path, open_connection, quit_handler, the tail of  *)
(* main; src/src/commands.c: execute_cd and execute_less).                 *)
(*                                                                         *)
(* The program is single-threaded, but a signal may run quit_handler       *)
(* between any two statements and every network request may fail, so the   *)
(* statements of close_connection are separate steps, and each request is  *)
(* a step of its own.  URI paths are blocks of the C heap: session.uri.path*)
(* and session.lastwp are pointers to them, and cd swaps pointers.         *)
(***************************************************************************)
EXTENDS Naturals

CONSTANTS Paths,      \* the URI paths of collections
          Blocks,     \* addresses malloc can return for a path (a bound)
          NULL,       \* the null pointer
          FREE,       \* content of an unallocated block
          Tolerant,   \* the -t flag
          Signals,    \* whether SIGINT, SIGTERM, SIGQUIT or SIGABRT arrive
          MaxOpens    \* bound: open_connection calls in one run

ASSUME SessionAssumption ==
  /\ NULL \notin Blocks \cup Paths
  /\ FREE \notin Paths
  /\ Tolerant \in BOOLEAN
  /\ Signals \in BOOLEAN

ASSUME BoundAssumption == MaxOpens \in Nat

VARIABLES pc,         \* the statement about to run
          after,      \* where close_connection returns to
          sess,       \* session.sess: "null", "live" or "dangling"
          connected,  \* session.connected
          path,       \* session.uri.path; the other URI fields go with it
          lastwp,     \* session.lastwp
          dest,       \* execute_cd's dest_uri_path
          dash,       \* execute_cd was given "-"
          child,      \* child_running
          heap,       \* what each block holds
          opens,      \* open_connection calls so far
          stale,      \* history: a close freed lastwp and left it set
          doubly,     \* history: a destroyed ne_session was destroyed again
          interrupted \* history: the statement a fatal signal interrupted

ptrs == <<path, lastwp, dest, dash, heap>>
conn == <<sess, connected>>
hist == <<stale, doubly, interrupted>>
vars == <<pc, after, conn, ptrs, child, opens, hist>>

Pcs == {"ready", "destroy", "reset", "disconnect", "freeuri", "freelast",
        "parse", "options", "setpath", "cdcheck", "less", "exited", "aborted"}

FieldsOK ==
  /\ pc \in Pcs
  /\ after \in {"ready", "parse", "exited"}
  /\ sess \in {"null", "live", "dangling"}
  /\ path \in Blocks \cup {NULL}
  /\ lastwp \in Blocks \cup {NULL}
  /\ dest \in Blocks \cup {NULL}
  /\ interrupted \in Pcs \cup {"none"}

FlagsOK ==
  /\ connected \in BOOLEAN
  /\ dash \in BOOLEAN
  /\ child \in BOOLEAN
  /\ stale \in BOOLEAN
  /\ doubly \in BOOLEAN

HeapOK == heap \in [Blocks -> Paths \cup {FREE}]

TypeOK == FieldsOK /\ FlagsOK /\ HeapOK /\ opens \in 0 .. MaxOpens

\* main: memset of the session structure, then init_signals.
Init ==
  /\ pc = "ready"
  /\ after = "ready"
  /\ sess = "null"
  /\ connected = FALSE
  /\ path = NULL
  /\ lastwp = NULL
  /\ dest = NULL
  /\ dash = FALSE
  /\ child = FALSE
  /\ heap = [b \in Blocks |-> FREE]
  /\ opens = 0
  /\ stale = FALSE
  /\ doubly = FALSE
  /\ interrupted = "none"

---------------------------------------------------------------------------
(* The C heap. *)

\* ne_free(p): freeing a null pointer does nothing.
Freed(h, p) == IF p = NULL THEN h ELSE [h EXCEPT ![p] = FREE]

\* free of a block that is not allocated: undefined.
BadFree(h, p) == p # NULL /\ h[p] = FREE

\* free(3) ends in abort() when it detects a block that is not allocated;
\* it need not detect it.
FreeOutcome(p, next) ==
  \/ pc' = next
  \/ BadFree(heap, p) /\ pc' = "aborted"

---------------------------------------------------------------------------
(* close_connection, one action per statement. *)

Destroy ==
  /\ pc = "destroy"
  /\ sess' = IF sess = "null" THEN "null" ELSE "dangling"
  /\ doubly' = (doubly \/ sess = "dangling")
  /\ pc' = "reset"
  /\ UNCHANGED <<after, connected, ptrs, child, opens, stale, interrupted>>

\* Mutant: close_connection forgets to clear session.sess.
ResetSessKept ==
  /\ pc = "reset"
  /\ pc' = "disconnect"
  /\ UNCHANGED <<after, conn, ptrs, child, opens, hist>>

ResetSess ==
  /\ pc = "reset"
  /\ sess' = "null"
  /\ pc' = "disconnect"
  /\ UNCHANGED <<after, connected, ptrs, child, opens, hist>>

Disconnect ==
  /\ pc = "disconnect"
  /\ connected' = FALSE
  /\ pc' = "freeuri"
  /\ UNCHANGED <<after, sess, ptrs, child, opens, hist>>

\* ne_uri_free also clears every field of session.uri.
FreeUri ==
  /\ pc = "freeuri"
  /\ heap' = Freed(heap, path)
  /\ path' = NULL
  /\ FreeOutcome(path, "freelast")
  /\ UNCHANGED <<after, conn, lastwp, dest, dash, child, opens, hist>>

\* The pointer is not reset.
FreeLast ==
  /\ pc = "freelast"
  /\ heap' = Freed(heap, lastwp)
  /\ stale' = (stale \/ lastwp # NULL)
  /\ FreeOutcome(lastwp, after)
  /\ UNCHANGED <<after, conn, path, lastwp, dest, dash, child, opens, doubly,
                 interrupted>>

CloseSteps == Destroy \/ ResetSess \/ Disconnect \/ FreeUri \/ FreeLast

---------------------------------------------------------------------------
(* open_connection. *)

\* From the command line, the rcfile or the prompt; needs no connection.
OpenCommand ==
  /\ pc = "ready"
  /\ opens < MaxOpens
  /\ opens' = opens + 1
  /\ pc' = "destroy"
  /\ after' = "parse"
  /\ UNCHANGED <<conn, ptrs, child, hist>>

\* Mutant: an error path of open_connection returns without closing.
FailWithoutClose == pc' = "ready" /\ UNCHANGED after

\* goto fail: the second call of close_connection.
Fail == pc' = "destroy" /\ after' = "ready"

\* The URL does not parse: neon leaves the path unset or, when the URL has
\* a path and another part is missing or refused (userinfo), set.
ParseFails ==
  /\ pc = "parse"
  /\ Fail
  /\ \/ UNCHANGED <<heap, path>>
     \/ \E b \in Blocks, p \in Paths :
          heap[b] = FREE /\ heap' = [heap EXCEPT ![b] = p] /\ path' = b
  /\ UNCHANGED <<conn, lastwp, dest, dash, child, opens, hist>>

\* The URL parses and a session is created; the scheme may still be refused
\* (no TLS support, neither http nor https).
ParseSucceeds ==
  /\ pc = "parse"
  /\ \E b \in Blocks, p \in Paths :
       heap[b] = FREE /\ heap' = [heap EXCEPT ![b] = p] /\ path' = b
  /\ sess' = "live"
  /\ connected' = FALSE
  /\ \/ pc' = "options" /\ UNCHANGED after
     \/ Fail
  /\ UNCHANGED <<lastwp, dest, dash, child, opens, hist>>

\* ne_options2: any failure, or a server without class 1 when not tolerant,
\* goes to the close; otherwise set_path is called.
OptionsReply ==
  /\ pc = "options"
  /\ \/ pc' = "setpath" /\ UNCHANGED after
     \/ Fail
  /\ UNCHANGED <<conn, ptrs, child, opens, hist>>

\* set_path accepts a collection, and anything at all when tolerant.
SetPathAccepts(isColl) == isColl \/ Tolerant

SetPathReply ==
  /\ pc = "setpath"
  /\ \E isColl \in BOOLEAN :
       IF SetPathAccepts(isColl)
       THEN connected' = TRUE /\ pc' = "ready" /\ UNCHANGED after
       ELSE Fail /\ UNCHANGED connected
  /\ UNCHANGED <<sess, ptrs, child, opens, hist>>

\* getrestype reads through a null pointer when the reply lists no resource.
EmptyReply ==
  /\ pc \in {"setpath", "cdcheck"}
  /\ pc' = "aborted"
  /\ UNCHANGED <<after, conn, ptrs, child, opens, hist>>

OpenSteps == OpenCommand \/ ParseFails \/ ParseSucceeds \/ OptionsReply
             \/ SetPathReply \/ EmptyReply

---------------------------------------------------------------------------
(* The commands that need a connection. *)

CloseCommand ==
  /\ pc = "ready" /\ connected
  /\ pc' = "destroy"
  /\ after' = "ready"
  /\ UNCHANGED <<conn, ptrs, child, opens, hist>>

\* Mutant: cd stores the path it was given instead of a resolved copy.
CdPathBorrowed ==
  /\ pc = "ready" /\ connected
  /\ dest' \in Paths
  /\ dash' = FALSE
  /\ pc' = "cdcheck"
  /\ UNCHANGED <<after, conn, path, lastwp, heap, child, opens, hist>>

\* Mutant: the command table lists cd as needing no connection.
CdPathAnytime ==
  /\ pc = "ready"
  /\ \E b \in Blocks, p \in Paths :
       heap[b] = FREE /\ heap' = [heap EXCEPT ![b] = p] /\ dest' = b
  /\ dash' = FALSE
  /\ pc' = "cdcheck"
  /\ UNCHANGED <<after, conn, path, lastwp, child, opens, hist>>

\* cd path: the resolved path is a fresh block.
CdPath ==
  /\ pc = "ready" /\ connected
  /\ \E b \in Blocks, p \in Paths :
       heap[b] = FREE /\ heap' = [heap EXCEPT ![b] = p] /\ dest' = b
  /\ dash' = FALSE
  /\ pc' = "cdcheck"
  /\ UNCHANGED <<after, conn, path, lastwp, child, opens, hist>>

\* cd -: returns at once ("No previous collection") when lastwp is null.
CdDash ==
  /\ pc = "ready" /\ connected
  /\ lastwp # NULL
  /\ dest' = lastwp
  /\ dash' = TRUE
  /\ pc' = "cdcheck"
  /\ UNCHANGED <<after, conn, path, lastwp, heap, child, opens, hist>>

\* Mutant: cd frees the collection it leaves and keeps the older one.
CdForgetsLeft ==
  /\ pc = "cdcheck"
  /\ \E isColl \in BOOLEAN : SetPathAccepts(isColl)
  /\ heap' = Freed(heap, path)
  /\ FreeOutcome(path, "ready")
  /\ path' = dest
  /\ dest' = NULL
  /\ dash' = FALSE
  /\ UNCHANGED <<after, conn, lastwp, child, opens, hist>>

\* set_path succeeded: cd path frees the old lastwp, both swap the pointers.
CdSucceeds ==
  /\ pc = "cdcheck"
  /\ \E isColl \in BOOLEAN : SetPathAccepts(isColl)
  /\ IF dash THEN UNCHANGED heap /\ pc' = "ready"
             ELSE heap' = Freed(heap, lastwp) /\ FreeOutcome(lastwp, "ready")
  /\ lastwp' = path
  /\ path' = dest
  /\ dest' = NULL
  /\ dash' = FALSE
  /\ UNCHANGED <<after, conn, child, opens, hist>>

\* Mutant: a failed cd - frees its destination as cd path does.
CdFailsFreesAlways ==
  /\ pc = "cdcheck"
  /\ \E isColl \in BOOLEAN : ~SetPathAccepts(isColl)
  /\ heap' = Freed(heap, dest)
  /\ FreeOutcome(dest, "ready")
  /\ dest' = NULL
  /\ dash' = FALSE
  /\ UNCHANGED <<after, conn, path, lastwp, child, opens, hist>>

\* set_path failed: only cd path owns its destination.
CdFails ==
  /\ pc = "cdcheck"
  /\ \E isColl \in BOOLEAN : ~SetPathAccepts(isColl)
  /\ IF dash THEN UNCHANGED heap /\ pc' = "ready"
             ELSE heap' = Freed(heap, dest) /\ FreeOutcome(dest, "ready")
  /\ dest' = NULL
  /\ dash' = FALSE
  /\ UNCHANGED <<after, conn, path, lastwp, child, opens, hist>>

\* less: the pager runs and child_running is set until it has been reaped.
LessStart ==
  /\ pc = "ready" /\ connected
  /\ child' = TRUE
  /\ pc' = "less"
  /\ UNCHANGED <<after, conn, ptrs, opens, hist>>

LessEnd ==
  /\ pc = "less"
  /\ child' = FALSE
  /\ pc' = "ready"
  /\ UNCHANGED <<after, conn, ptrs, opens, hist>>

Commands == CloseCommand \/ CdPath \/ CdDash \/ CdSucceeds \/ CdFails
            \/ LessStart \/ LessEnd

---------------------------------------------------------------------------
(* Leaving the program. *)

\* Mutant: main returns without closing the session.
QuitOpen ==
  /\ pc = "ready"
  /\ pc' = "exited"
  /\ UNCHANGED <<after, conn, ptrs, child, opens, hist>>

\* The quit command or end of input: main closes what is still connected.
Quit ==
  /\ pc = "ready"
  /\ IF connected THEN pc' = "destroy" /\ after' = "exited"
                  ELSE pc' = "exited" /\ UNCHANGED after
  /\ UNCHANGED <<conn, ptrs, child, opens, hist>>

\* quit_handler, on top of whatever was running.  It closes a connected
\* session from the beginning, even if close_connection was interrupted.
\* While a child runs it only returns.
FatalSignal ==
  /\ Signals
  /\ pc \notin {"exited", "aborted"}
  /\ interrupted = "none"
  /\ ~child
  /\ interrupted' = pc
  /\ IF connected THEN pc' = "destroy" /\ after' = "exited"
                  ELSE pc' = "exited" /\ UNCHANGED after
  /\ UNCHANGED <<conn, ptrs, child, opens, stale, doubly>>

Stopped == pc \in {"exited", "aborted"} /\ UNCHANGED vars

Next == CloseSteps \/ OpenSteps \/ Commands \/ Quit \/ FatalSignal \/ Stopped

Spec == Init /\ [][Next]_vars

---------------------------------------------------------------------------
(* Properties. *)

\* At the prompt the four fields agree: connected exactly when there is a
\* live ne_session and a current path, with no pager flag and no temporary
\* left over.  Every failing path of open_connection must restore this.
ReadyConsistent ==
  pc = "ready" =>
    /\ connected <=> (sess = "live")
    /\ connected <=> (path # NULL)
    /\ sess # "dangling"
    /\ ~child
    /\ dest = NULL

\* Every request (OPTIONS, the PROPFINDs of set_path, the GET of less) goes
\* out on a live session with a current path.
RequestsLive ==
  pc \in {"options", "setpath", "cdcheck", "less"} =>
    sess = "live" /\ path # NULL

\* The owners of a path block: session.uri.path, session.lastwp, and
\* execute_cd's own copy of a path that was typed.
Owned(b) == b = path \/ b = lastwp \/ (b = dest /\ ~dash)

\* Until a close has run with lastwp set, every allocated path has exactly
\* one owner and every owner holds an allocated path: no leak, no alias, no
\* use after free, whatever sequence of cd, cd -, failures and signals.
OwnedOnce ==
  ~stale =>
    /\ \A b \in Blocks : heap[b] # FREE <=> Owned(b)
    /\ path # NULL => path # lastwp
    /\ dest # NULL => dest # path /\ (dash <=> dest = lastwp)

\* close_connection destroys a session once, except when a signal lands
\* between the destroy and the assignment after it.
DestroyedOnce == doubly => interrupted = "reset"

\* quit and end of input leave nothing open, from the prompt or the rcfile.
ExitClosed ==
  pc = "exited" /\ interrupted = "none" =>
    ~connected /\ sess = "null" /\ path = NULL

\* The session over its whole life: what the fields say at the prompt, that no
\* request leaves without a session, that close_connection destroys it once,
\* and that an orderly exit leaves nothing open.
SessionSound == ReadyConsistent /\ RequestsLive /\ DestroyedOnce /\ ExitClosed

\* What the user sees as the current and the previous collection, until a
\* close has run with lastwp set.
Here == IF connected /\ ~stale THEN heap[path] ELSE NULL
Previous == IF connected /\ ~stale /\ lastwp # NULL THEN heap[lastwp] ELSE NULL

Nav == INSTANCE Navigation WITH Collections <- Paths, NoCollection <- NULL,
                                here <- Here, previous <- Previous

\* Until then the session implements Navigation, over any number of opens.
ImplementsNavigation == Nav!Spec
================================================================================
