-------------------------------- MODULE Startup --------------------------------
(***************************************************************************)
(* Starting the program, the proxy options, and who is given which name    *)
(* and password: parse_netrc and search_netrc (src/lib/netrc.c),           *)
(* parse_args, set_proxy, open_connection and the callbacks                *)
(* supply_creds_server and supply_creds_proxy (src/src/cadaver.c), and the *)
(* set and unset commands for a string option (src/src/options.c).         *)
(*                                                                         *)
(* ~/.netrc is any sequence of tokens; what a token stands for is its      *)
(* stanza, the number of machine and default keywords read so far.  Option *)
(* strings are blocks of the C heap.                                       *)
(***************************************************************************)
EXTENDS Naturals, SequencesExt

CONSTANTS Hosts,      \* servers
          Proxies,    \* names of proxies
          Blocks,     \* addresses malloc can return for a name (a bound)
          NULL,       \* no pointer, no host, nothing
          MaxStanzas, \* bound: machine and default keywords in ~/.netrc
          MaxAttempts \* bound: the attempts of one request are counted to here

Keywords == {"machine", "default", "login", "password", "account", "macdef"}

ASSUME StartupAssumption ==
  /\ NULL \notin Hosts \cup Proxies \cup Blocks
  /\ MaxStanzas \in Nat /\ MaxAttempts \in Nat /\ MaxAttempts > 3
  /\ Hosts \cap (Keywords \cup {"word", "#", "newline", "blank"}) = {}

VARIABLES pc,            \* "netrc", "args", "url", "opening", "commands", "request",
                         \* or who asks for credentials
          last,          \* parse_netrc: last_token
          comment,       \* the rest of the line is a comment
          stanza,        \* how many entries were started
          entry,         \* the entry being read, or NULL
          list,          \* netrc_list
          heap,          \* what each block holds
          opt_proxy,     \* the value of the proxy option, a pointer
          systemproxy,   \* the systemproxy option
          proxy_hostname,\* the global of that name, a pointer
          conn,          \* the connection: its host and proxy, or NULL
          connected,     \* session.connected
          creds,         \* server_username and server_password, or NULL
          attempt,       \* neon: attempt of the server and of the proxy
          tried,         \* history: what the server was given in this request
          asked,         \* history: prompts of this request, for either
          ended          \* how the last request ended

options == <<opt_proxy, systemproxy>>
netrc == <<last, comment, stanza, entry, list>>
session == <<conn, connected, creds, proxy_hostname>>
request == <<attempt, tried, asked>>
vars == <<pc, netrc, heap, options, session, request, ended>>

Entry == [stanza : 1 .. MaxStanzas, host : Hosts \cup {NULL},
          account : 0 .. MaxStanzas, password : 0 .. MaxStanzas]
Pointer == Blocks \cup {NULL}
Parties == {"server", "proxy"}
System == "the proxy of the system"

Connection == [host : Hosts, proxy : Proxies \cup {NULL, System}]

\* The system's proxy is none of those the options name, and a null pointer is
\* no structure.
ASSUME DistinctAssumption == System \notin Proxies /\ NULL \notin Entry \cup Connection

TypeOK ==
  /\ pc \in {"netrc", "args", "url", "opening", "commands", "request"} \cup Parties
  /\ last \in Keywords \cup {"nothing"} /\ comment \in BOOLEAN
  /\ stanza \in 0 .. MaxStanzas /\ entry \in Entry \cup {NULL}
  /\ list \in Seq(Entry)
  /\ heap \in [Blocks -> Proxies \cup {NULL}]
  /\ {opt_proxy, proxy_hostname} \subseteq Pointer /\ systemproxy \in BOOLEAN
  /\ conn \in Connection \cup {NULL}
  /\ connected \in BOOLEAN /\ creds \in {e \in Entry : e.password # 0} \cup {NULL}
  /\ attempt \in [Parties -> 0 .. MaxAttempts]
  /\ asked \in [Parties -> 0 .. MaxAttempts]
  /\ tried \in {"nothing", "entry", "typed", "both"}
  /\ ended \in {"none", "answered", "lost", "unconnected", "refused", "aborted"}

Zero == [p \in Parties |-> 0]

\* main: memset of the session, init_options, init_netrc.
Init ==
  /\ pc = "netrc"
  /\ last = "nothing" /\ comment = FALSE /\ stanza = 0
  /\ entry = NULL /\ list = <<>>
  /\ heap = [b \in Blocks |-> NULL]
  /\ opt_proxy = NULL /\ systemproxy = FALSE /\ proxy_hostname = NULL
  /\ conn = NULL /\ connected = FALSE /\ creds = NULL
  /\ attempt = Zero /\ tried = "nothing" /\ asked = Zero
  /\ ended = "none"

---------------------------------------------------------------------------
(* ~/.netrc.  The list is in reverse until the file ends. *)

\* Mutant: the entry that is dropped is not zeroed.
NewEntryKept(host) ==
  IF entry # NULL /\ entry.account = 0
    THEN [entry EXCEPT !.stanza = stanza + 1, !.host = host]
    ELSE [stanza |-> stanza + 1, host |-> host, account |-> 0, password |-> 0]

NewEntry(host) ==
  [stanza |-> stanza + 1, host |-> host, account |-> 0, password |-> 0]

\* maybe_add_to_list: an entry without a login is dropped.
Added == IF entry # NULL /\ entry.account # 0 THEN <<entry>> \o list ELSE list

StartEntry(host) ==
  /\ stanza < MaxStanzas
  /\ list' = Added /\ entry' = NewEntry(host) /\ stanza' = stanza + 1

\* A token after a keyword that takes a value, whatever the token is.
Value(t) ==
  /\ last' = "nothing"
  /\ CASE last = "machine" /\ t \in Hosts -> StartEntry(t)
       [] last = "login" /\ entry # NULL ->
            entry' = [entry EXCEPT !.account = stanza] /\ UNCHANGED <<list, stanza>>
       [] last = "password" /\ entry # NULL ->
            entry' = [entry EXCEPT !.password = stanza] /\ UNCHANGED <<list, stanza>>
       [] last = "machine" /\ t \notin Hosts -> FALSE \* hosts are what machines are called
       [] OTHER -> UNCHANGED <<entry, list, stanza>>

Keyword(t) ==
  \/ t = "default" /\ StartEntry(NULL) /\ UNCHANGED last
  \/ t \in Keywords \ {"default"} /\ last' = t /\ UNCHANGED <<entry, list, stanza>>

\* A comment may stand where a value is expected: the value is then the first
\* token of a later line.
Token ==
  /\ pc = "netrc" /\ last # "macdef" /\ ~comment
  /\ \/ \E t \in Keywords \cup Hosts \cup {"word"} :
          /\ IF last = "nothing" THEN Keyword(t) ELSE Value(t)
          /\ UNCHANGED comment
     \/ comment' = TRUE /\ UNCHANGED <<last, entry, list, stanza>>
  /\ UNCHANGED <<pc, heap, options, session, request, ended>>

\* The line ends; an empty line ends a macro.
EndOfLine ==
  /\ pc = "netrc"
  /\ comment' = FALSE
  /\ \/ last = "macdef" /\ last' = "nothing"
     \/ comment /\ UNCHANGED last
  /\ UNCHANGED <<pc, entry, list, stanza, heap, options, session, request, ended>>

\* Mutant: the list stays in reverse.
EndOfNetrcReversed ==
  /\ pc = "netrc" /\ pc' = "args"
  /\ list' = Added /\ entry' = NULL /\ last' = "nothing" /\ comment' = FALSE
  /\ stanza' = 0
  /\ UNCHANGED <<heap, options, session, request, ended>>

EndOfNetrc ==
  /\ pc = "netrc" /\ pc' = "args"
  /\ list' = Reverse(Added) /\ entry' = NULL /\ last' = "nothing"
  /\ comment' = FALSE /\ stanza' = 0
  /\ UNCHANGED <<heap, options, session, request, ended>>

\* search_netrc: the first entry for the host or for any.
Matching(host) == {i \in DOMAIN list : list[i].host \in {host, NULL}}
Found(host) == IF Matching(host) = {} THEN NULL ELSE list[Min(Matching(host))]
\* Mutant: the password is not checked.
CompleteLogin(e) == e # NULL

Complete(e) == e # NULL /\ e.password # 0

---------------------------------------------------------------------------
(* Options and connections. *)

Free(h, p) == IF p = NULL THEN h ELSE [h EXCEPT ![p] = NULL]

\* A block where a copy of a string is put.
Copy(h, name, p) == p \in Blocks /\ h[p] = NULL /\ heap' = [h EXCEPT ![p] = name]

\* The name a pointer leads to: nothing when it was freed.
NameAt(p) == IF p = NULL THEN NULL ELSE heap[p]

\* Mutant: the name of the proxy is not copied.
OpenShares(host) ==
  /\ creds' = IF Complete(Found(host)) THEN Found(host) ELSE creds
  /\ conn' = [host |-> host,
              proxy |-> IF systemproxy THEN System ELSE NameAt(opt_proxy)]
  /\ proxy_hostname' = IF ~systemproxy /\ opt_proxy # NULL THEN opt_proxy
                       ELSE proxy_hostname
  /\ UNCHANGED heap

\* open_connection up to its request.  An entry found without a password leaves
\* what an earlier host was given, and so does no entry.
Open(host) ==
  /\ creds' = IF Complete(Found(host)) THEN Found(host) ELSE creds
  /\ conn' = [host |-> host,
              proxy |-> IF systemproxy THEN System ELSE NameAt(opt_proxy)]
  /\ IF systemproxy \/ opt_proxy = NULL
       THEN UNCHANGED <<proxy_hostname, heap>>
       ELSE \E p \in Blocks : /\ Copy(Free(heap, proxy_hostname), NameAt(opt_proxy), p)
                              /\ proxy_hostname' = p

OpenCommand ==
  /\ pc = "commands" /\ \E host \in Hosts : Open(host)
  /\ pc' = "opening" /\ connected' = FALSE
  /\ UNCHANGED <<netrc, options, request, ended>>

\* parse_args: -p, then the URL, which is opened before the rcfile is read.
Args ==
  /\ pc = "args"
  /\ \/ UNCHANGED <<opt_proxy, heap>>
     \/ \E name \in Proxies, p \in Blocks : Copy(heap, name, p) /\ opt_proxy' = p
  /\ pc' = "url"
  /\ UNCHANGED <<netrc, systemproxy, session, request, ended>>

Url ==
  /\ pc = "url"
  /\ \/ pc' = "opening" /\ \E host \in Hosts : Open(host)
     \/ pc' = "commands" /\ UNCHANGED <<conn, creds, proxy_hostname, heap>>
  /\ UNCHANGED <<netrc, options, connected, request, ended>>

\* The lines of the rcfile and of the prompt: set proxy, unset proxy, and set
\* and unset systemproxy.
SetProxy ==
  /\ pc = "commands"
  /\ \E name \in Proxies, p \in Blocks :
       Copy(Free(heap, opt_proxy), name, p) /\ opt_proxy' = p
  /\ UNCHANGED <<pc, netrc, systemproxy, session, request, ended>>

UnsetProxy ==
  /\ pc = "commands"
  /\ heap' = Free(heap, opt_proxy) /\ opt_proxy' = NULL
  /\ UNCHANGED <<pc, netrc, systemproxy, session, request, ended>>

SetSystemProxy ==
  /\ pc = "commands" /\ systemproxy' \in BOOLEAN
  /\ UNCHANGED <<pc, netrc, heap, opt_proxy, session, request, ended>>

\* The close command, or an open that fails.
Close ==
  /\ pc = "commands" /\ connected
  /\ conn' = NULL /\ connected' = FALSE
  /\ UNCHANGED <<pc, netrc, heap, options, creds, proxy_hostname, request, ended>>

---------------------------------------------------------------------------
(* Requests. *)

\* The OPTIONS request of open_connection, or that of a command.
Send ==
  /\ \/ pc = "opening"
     \/ pc = "commands" /\ connected
  /\ pc' = "request"
  /\ attempt' = Zero /\ asked' = Zero /\ tried' = "nothing"
  /\ ended' = "none"
  /\ UNCHANGED <<netrc, heap, options, session>>

\* The request is over; it may have been the one that makes the connection.
Ends(how) ==
  /\ pc' = "commands" /\ ended' = how
  /\ connected' = (connected \/ how = "answered")
  /\ conn' = IF connected' THEN conn ELSE NULL
  /\ UNCHANGED <<netrc, heap, options, creds, proxy_hostname>>

\* An answer, an error, or a challenge of the server or of the proxy.
Respond ==
  /\ pc = "request"
  /\ \/ \E how \in {"answered", "lost", "unconnected"} : Ends(how)
        /\ UNCHANGED request
     \/ /\ \/ pc' = "server"
           \/ pc' = "proxy" /\ conn.proxy # NULL
        /\ UNCHANGED <<netrc, heap, options, session, request, ended>>

\* Mutant: a supply callback that never gives up.
AllowedAlways(n) == TRUE

\* The test that the supply callbacks make before they ask the user.
Allowed(n) == n <= 1

\* supply_creds: the user types a name and a password, or aborts either.
Ask(party) ==
  /\ asked' = [asked EXCEPT ![party] = IF @ < MaxAttempts THEN @ + 1 ELSE @]
  /\ \/ /\ pc' = "request"
        /\ attempt' = [attempt EXCEPT ![party] = IF @ < MaxAttempts THEN @ + 1 ELSE @]
        /\ tried' = CASE party = "proxy" -> tried
                     [] party = "server" /\ tried \in {"nothing", "typed"} -> "typed"
                     [] OTHER -> "both"
        /\ UNCHANGED <<netrc, heap, options, session, ended>>
     \/ Ends("aborted") /\ UNCHANGED <<attempt, tried>>

\* Mutant: the entry of ~/.netrc counts as an attempt of the user.
CountedAll(n) == n

\* The attempts that count for the user: attempt-- is evaluated only when there
\* is an entry.
Counted(n) == IF creds # NULL THEN n - 1 ELSE n

SupplyServer ==
  /\ pc = "server"
  /\ LET n == attempt["server"]
     IN  CASE creds # NULL /\ n = 0 ->
                 /\ pc' = "request" /\ tried' = "entry"
                 /\ attempt' = [attempt EXCEPT !["server"] = 1]
                 /\ UNCHANGED <<netrc, heap, options, session, asked, ended>>
           [] ~(creds # NULL /\ n = 0) /\ Allowed(Counted(n)) -> Ask("server")
           [] OTHER -> Ends("refused") /\ UNCHANGED request

SupplyProxy ==
  /\ pc = "proxy"
  /\ IF Allowed(attempt["proxy"]) THEN Ask("proxy")
     ELSE Ends("refused") /\ UNCHANGED request

Supply == SupplyServer \/ SupplyProxy

---------------------------------------------------------------------------
Next == Token \/ EndOfLine \/ EndOfNetrc \/ Args \/ Url \/ OpenCommand \/ SetProxy
        \/ UnsetProxy \/ SetSystemProxy \/ Close \/ Send \/ Respond \/ Supply

\* The server answers in some way, or neon's timer does; the user answers each
\* prompt.
Spec == Init /\ [][Next]_vars /\ WF_vars(Respond) /\ WF_vars(Supply)

---------------------------------------------------------------------------
(* Properties. *)

\* An account and a password that stand in one entry were read in one stanza of
\* ~/.netrc, and the entries are in the order of the file, whatever the file
\* holds: keywords as values, comments between a keyword and its value, entries
\* without a login, macros (parse_netrc, maybe_add_to_list).
OwnPassword ==
  /\ \A i \in DOMAIN list : /\ list[i].account = list[i].stanza
                            /\ list[i].password \in {0, list[i].stanza}
  /\ pc # "netrc" =>
       \A i, j \in DOMAIN list : i < j => list[i].stanza < list[j].stanza

\* What parse_netrc leaves in memory is well formed and of one stanza each.
EntriesSound == TypeOK /\ OwnPassword

\* A server that has a complete entry in ~/.netrc is first tried with the
\* earliest entry that is for it or for any, on every connection; only a server
\* without one may be given what an earlier server had (open_connection,
\* supply_creds_server).
EntryOfServer ==
  pc \in {"request", "server", "proxy"} =>
    LET own == {i \in DOMAIN list : list[i].host \in {conn.host, NULL}}
    IN  own # {} =>
          LET first == list[CHOOSE i \in own : \A j \in own :
                              list[i].stanza <= list[j].stanza]
          IN  Complete(first) => creds = first /\ tried # "typed"

\* The user is asked for the credentials of a request at most twice for the
\* server and twice for the proxy, and a request is refused without the user
\* giving up only after two answers to one of them, whether or not ~/.netrc was
\* tried before (supply_creds_server, supply_creds_proxy).
AskedTwice ==
  /\ \A party \in Parties : asked[party] <= 2
  /\ ended = "refused" => \E party \in Parties : asked[party] = 2

\* While a request goes through the proxy of the options, the name that a
\* prompt or a failure would show is that of the proxy that the connection uses,
\* however the option was changed since; with systemproxy it is of an earlier
\* connection or of none (open_connection, supply_creds_proxy).
NamedProxy ==
  conn # NULL /\ conn.proxy \in Proxies => NameAt(proxy_hostname) = conn.proxy

\* A request that is challenged again and again is over in the end, since the
\* callbacks give up (supply_creds_server, supply_creds_proxy).
RequestEnds == pc = "request" ~> pc = "commands"

================================================================================
