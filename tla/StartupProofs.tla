----------------------------- MODULE StartupProofs -----------------------------
(***************************************************************************)
(* Theorems about Startup, for any servers, proxies, heap blocks and       *)
(* length of ~/.netrc.                                                     *)
(***************************************************************************)
EXTENDS Startup, SequenceTheorems, WellFoundedInduction, TLAPS

\* What the bounds are.
LEMMA Bounds == MaxStanzas \in Nat /\ MaxAttempts \in Nat /\ MaxAttempts > 3
  BY StartupAssumption

---------------------------------------------------------------------------
(* What the actions leave alone. *)

Reading == Token \/ EndOfLine \/ EndOfNetrc
Opening == Url \/ OpenCommand
Setting == Args \/ SetProxy \/ UnsetProxy \/ SetSystemProxy \/ Close
Requesting == Send \/ Respond \/ Supply

NetrcTypes ==
  /\ last \in Keywords \cup {"nothing"} /\ comment \in BOOLEAN
  /\ stanza \in 0 .. MaxStanzas /\ entry \in Entry \cup {NULL}
  /\ list \in Seq(Entry)

\* Once the file is read, nothing changes the list, and the file is not read
\* again.
LEMMA ListIsFixed ==
  ASSUME [Next]_vars, ~Reading
  PROVE  /\ UNCHANGED netrc
         /\ pc = "netrc" => UNCHANGED vars
         /\ pc # "netrc" => pc' # "netrc"
  <1>1. CASE Opening
    BY <1>1 DEF Opening, Url, OpenCommand
  <1>2. CASE Setting
    BY <1>2 DEF Setting, Args, SetProxy, UnsetProxy, SetSystemProxy, Close
  <1>3. CASE Requesting
    BY <1>3 DEF Requesting, Send, Respond, Supply, SupplyServer, SupplyProxy, Ask, Ends
  <1>4. CASE UNCHANGED vars
    BY <1>4 DEF vars
  <1> QED BY <1>1, <1>2, <1>3, <1>4 DEF Next, Reading, Opening, Setting, Requesting

---------------------------------------------------------------------------
(* ~/.netrc. *)

Own(s) == \A i \in DOMAIN s : /\ s[i].account = s[i].stanza
                              /\ s[i].password \in {0, s[i].stanza}
Rising(s) == \A i, j \in DOMAIN s : i < j => s[i].stanza < s[j].stanza
Falling(s) == \A i, j \in DOMAIN s : i < j => s[j].stanza < s[i].stanza
Below(s, n) == \A i \in DOMAIN s : s[i].stanza < n

\* While the file is read the list is in reverse, older than the entry being
\* read, and that entry has taken values of its own stanza only.
NetrcInv ==
  /\ Own(list)
  /\ pc # "netrc" => Rising(list)
  /\ pc = "netrc" /\ entry = NULL => list = <<>>
  /\ pc = "netrc" /\ entry # NULL =>
       /\ entry.stanza = stanza
       /\ {entry.account, entry.password} \subseteq {0, stanza}
       /\ Falling(list) /\ Below(list, stanza)

\* maybe_add_to_list keeps the list in reverse and each entry of its stanza.
LEMMA AddedFalls ==
  ASSUME NetrcTypes, NetrcInv, pc = "netrc"
  PROVE  /\ Added \in Seq(Entry)
         /\ Own(Added) /\ Falling(Added) /\ Below(Added, stanza + 1)
  <1>1. CASE entry = NULL \/ entry.account = 0
    <2>1. Added = list
      BY <1>1 DEF Added
    <2>2. list \in Seq(Entry) /\ Own(list) /\ stanza \in Nat
      BY StartupAssumption DEF NetrcTypes, NetrcInv
    <2>3. CASE list = <<>>
      BY <2>1, <2>2, <2>3 DEF Falling, Below
    <2>4. CASE list # <<>>
      <3>1. Falling(list) /\ Below(list, stanza)
        BY <2>4 DEF NetrcInv
      <3>2. Below(list, stanza + 1)
        <4>1. \A i \in DOMAIN list : list[i] \in Entry
          BY <2>2
        <4>2. \A e \in Entry : e.stanza \in Nat
          BY StartupAssumption DEF Entry
        <4> QED BY <2>2, <3>1, <4>1, <4>2 DEF Below
      <3> QED BY <2>1, <2>2, <3>1, <3>2
    <2> QED BY <2>3, <2>4
  <1>2. CASE entry # NULL /\ entry.account # 0
    <2>1. Added = <<entry>> \o list /\ entry \in Entry /\ entry.stanza = stanza
      BY <1>2 DEF Added, NetrcTypes, NetrcInv
    <2>2. /\ Added \in Seq(Entry) /\ Len(Added) = Len(list) + 1
          /\ Added[1] = entry /\ DOMAIN Added = 1 .. Len(Added)
          /\ Len(list) \in Nat
          /\ \A i \in 2 .. Len(Added) : Added[i] = list[i - 1] /\ i - 1 \in DOMAIN list
      BY <2>1 DEF NetrcTypes
    <2>3. \A i \in DOMAIN Added : i = 1 \/ (i \in 2 .. Len(Added) /\ i - 1 \in DOMAIN list)
      BY <2>2
    <2>4. entry.account = stanza /\ entry.password \in {0, stanza}
      BY <1>2 DEF NetrcInv
    <2>5. Own(Added)
      BY <2>1, <2>2, <2>3, <2>4 DEF Own, NetrcInv
    <2>6. Below(list, stanza) /\ Falling(list)
      BY <1>2 DEF NetrcInv
    <2>7. Falling(Added)
      <3> SUFFICES ASSUME NEW i \in DOMAIN Added, NEW j \in DOMAIN Added, i < j
                   PROVE  Added[j].stanza < Added[i].stanza
        BY DEF Falling
      <3>1. j \in 2 .. Len(Added) /\ j - 1 \in DOMAIN list /\ Added[j] = list[j - 1]
        BY <2>2, <2>3
      <3>2. CASE i = 1
        BY <2>1, <2>2, <2>6, <3>1, <3>2 DEF Below
      <3>3. CASE i # 1
        <4>1. i - 1 \in DOMAIN list /\ Added[i] = list[i - 1] /\ i - 1 < j - 1
          BY <2>2, <2>3, <3>1, <3>3
        <4> QED BY <2>6, <3>1, <4>1 DEF Falling
      <3> QED BY <3>2, <3>3
    <2>8. Below(Added, stanza + 1)
      <3> SUFFICES ASSUME NEW i \in DOMAIN Added PROVE Added[i].stanza < stanza + 1
        BY DEF Below
      <3>1. stanza \in Nat
        BY StartupAssumption DEF NetrcTypes
      <3>2. CASE i = 1
        BY <2>1, <2>2, <3>1, <3>2
      <3>3. CASE i # 1
        <4>1. i - 1 \in DOMAIN list /\ Added[i] = list[i - 1]
          BY <2>2, <2>3, <3>3
        <4>2. list[i - 1].stanza < stanza /\ list[i - 1] \in Entry
          BY <2>6, <4>1 DEF Below, NetrcTypes
        <4> QED BY <3>1, <4>1, <4>2 DEF Entry
      <3> QED BY <3>2, <3>3
    <2> QED BY <2>2, <2>5, <2>7, <2>8
  <1> QED BY <1>1, <1>2

\* What an entry starts with.
LEMMA NewEntryIsClean ==
  ASSUME NetrcTypes, stanza < MaxStanzas, NEW host \in Hosts \cup {NULL}
  PROVE  /\ NewEntry(host) \in Entry /\ NewEntry(host) # NULL
         /\ NewEntry(host).stanza = stanza + 1
         /\ NewEntry(host).account = 0 /\ NewEntry(host).password = 0
  BY StartupAssumption, DistinctAssumption DEF NewEntry, Entry, NetrcTypes

\* Reading ~/.netrc keeps the types of its variables.
LEMMA NetrcTypesStep ==
  ASSUME NetrcTypes, NetrcInv, [Next]_vars
  PROVE  NetrcTypes'
  <1> USE Bounds, DistinctAssumption
  <1>1. CASE Token
    <2>0. /\ pc = "netrc" /\ Added \in Seq(Entry)
          /\ stanza < MaxStanzas => \A h \in Hosts \cup {NULL} : NewEntry(h) \in Entry
      BY <1>1, AddedFalls, NewEntryIsClean DEF Token
    <2>1. ASSUME NEW h \in Hosts \cup {NULL}, StartEntry(h)
          PROVE  stanza' \in 0 .. MaxStanzas /\ entry' \in Entry /\ list' \in Seq(Entry)
      BY <2>0, <2>1 DEF StartEntry, NetrcTypes
    <2>2. ASSUME NEW t \in Keywords \cup Hosts \cup {"word"}, Keyword(t)
          PROVE  /\ stanza' \in 0 .. MaxStanzas /\ entry' \in Entry \cup {NULL}
                 /\ list' \in Seq(Entry) /\ last' \in Keywords \cup {"nothing"}
      BY <2>1, <2>2 DEF Keyword, NetrcTypes
    <2>3. ASSUME NEW t \in Keywords \cup Hosts \cup {"word"}, Value(t)
          PROVE  /\ stanza' \in 0 .. MaxStanzas /\ entry' \in Entry \cup {NULL}
                 /\ list' \in Seq(Entry) /\ last' \in Keywords \cup {"nothing"}
      <3>1. CASE last = "machine"
        BY <2>1, <2>3, <3>1 DEF Value
      <3>2. CASE last # "machine"
        BY <2>3, <3>2 DEF Value, NetrcTypes, Entry
      <3> QED BY <3>1, <3>2
    <2> QED BY <1>1, <2>2, <2>3 DEF Token, NetrcTypes
  <1>2. CASE EndOfLine
    BY <1>2 DEF EndOfLine, NetrcTypes, Keywords
  <1>3. CASE EndOfNetrc
    <2>1. Added \in Seq(Entry)
      BY <1>3, AddedFalls DEF EndOfNetrc
    <2>2. Reverse(Added) \in Seq(Entry)
      <3>1. /\ Len(Added) \in Nat
            /\ \A i \in 1 .. Len(Added) : Added[Len(Added) - i + 1] \in Entry
        BY <2>1
      <3>2. Reverse(Added) \in [1 .. Len(Added) -> Entry]
        BY <3>1 DEF Reverse
      <3>3. Reverse(Added) \in UNION {[1 .. n -> Entry] : n \in Nat}
        BY <3>1, <3>2, Zenon
      <3> QED BY <3>3, SeqDef, Zenon
    <2>3. 0 \in 0 .. MaxStanzas /\ FALSE \in BOOLEAN
      OBVIOUS
    <2> QED BY <1>3, <2>2, <2>3 DEF EndOfNetrc, NetrcTypes
  <1>4. CASE ~Reading
    BY <1>4, ListIsFixed DEF netrc, NetrcTypes
  <1> QED BY <1>1, <1>2, <1>3, <1>4 DEF Reading

\* And each entry takes its name and password from one stanza, in order.
LEMMA NetrcStep ==
  ASSUME NetrcTypes, NetrcInv, [Next]_vars
  PROVE  NetrcInv'
  <1> USE Bounds, DistinctAssumption
  <1>1. CASE Token
    <2>0. /\ pc = "netrc" /\ pc' = pc
          /\ Own(Added) /\ Falling(Added) /\ Below(Added, stanza + 1)
      BY <1>1, AddedFalls DEF Token
    <2>1. ASSUME NEW h \in Hosts \cup {NULL}, StartEntry(h)
          PROVE  NetrcInv'
      <3>1. /\ entry' = NewEntry(h) /\ NewEntry(h) # NULL /\ list' = Added
            /\ stanza' = stanza + 1 /\ stanza < MaxStanzas
        BY <2>1, NewEntryIsClean DEF StartEntry
      <3>2. /\ entry'.stanza = stanza' /\ entry'.account = 0 /\ entry'.password = 0
            /\ entry' # NULL
        BY <3>1, NewEntryIsClean
      <3>3. Own(list') /\ Falling(list') /\ Below(list', stanza')
        BY <2>0, <3>1
      <3> QED BY <2>0, <3>2, <3>3 DEF NetrcInv, Own, Falling, Below
    <2>2. CASE UNCHANGED <<entry, list, stanza>>
      BY <2>0, <2>2 DEF NetrcInv, Own, Falling, Below
    <2>3. ASSUME entry # NULL, UNCHANGED <<list, stanza>>,
                 \/ entry' = [entry EXCEPT !.account = stanza]
                 \/ entry' = [entry EXCEPT !.password = stanza]
          PROVE  NetrcInv'
      <3>1. entry \in Entry /\ stanza \in 0 .. MaxStanzas
        BY <2>3 DEF NetrcTypes
      <3>2. /\ entry' \in Entry /\ entry'.stanza = entry.stanza
            /\ {entry'.account, entry'.password}
                 \subseteq {entry.account, entry.password, stanza}
        BY <2>3, <3>1 DEF Entry
      <3>3. entry' # NULL
        BY <3>2
      <3> QED BY <2>0, <2>3, <3>2, <3>3 DEF NetrcInv, Own, Falling, Below
    <2>4. ASSUME NEW t \in Keywords \cup Hosts \cup {"word"}, Keyword(t)
          PROVE  NetrcInv'
      BY <2>1, <2>2, <2>4 DEF Keyword
    <2>5. ASSUME NEW t \in Keywords \cup Hosts \cup {"word"}, Value(t)
          PROVE  NetrcInv'
      BY <2>1, <2>2, <2>3, <2>5 DEF Value
    <2> QED BY <1>1, <2>2, <2>4, <2>5 DEF Token
  <1>2. CASE EndOfLine
    BY <1>2 DEF EndOfLine, NetrcInv, Own, Falling, Below
  <1>3. CASE EndOfNetrc
    <2>1. /\ Added \in Seq(Entry) /\ Own(Added) /\ Falling(Added)
          /\ list' = Reverse(Added) /\ pc' = "args"
      BY <1>3, AddedFalls DEF EndOfNetrc
    <2>2. /\ DOMAIN list' = DOMAIN Added /\ Len(Added) \in Nat
          /\ DOMAIN Added = 1 .. Len(Added)
          /\ \A i \in DOMAIN Added : /\ list'[i] = Added[Len(Added) - i + 1]
                                     /\ Len(Added) - i + 1 \in DOMAIN Added
      BY <2>1 DEF Reverse
    <2>3. Own(list')
      BY <2>1, <2>2 DEF Own
    <2>4. Rising(list')
      <3> SUFFICES ASSUME NEW i \in DOMAIN list', NEW j \in DOMAIN list', i < j
                   PROVE  list'[i].stanza < list'[j].stanza
        BY DEF Rising
      <3> QED BY <2>1, <2>2 DEF Falling
    <2> QED BY <2>1, <2>3, <2>4 DEF NetrcInv, Own, Rising
  <1>4. CASE ~Reading
    BY <1>4, ListIsFixed DEF netrc, vars, NetrcInv, Own, Rising, Falling, Below
  <1> QED BY <1>1, <1>2, <1>3, <1>4 DEF Reading

\* The invariant of ~/.netrc holds throughout.
LEMMA NetrcInvariant == Spec => [](NetrcTypes /\ NetrcInv)
  <1>1. Init => NetrcTypes /\ NetrcInv
    <2>1. Init => Own(list)
      BY DEF Init, Own
    <2>2. Init => NetrcTypes
      <3>0. 0 \in 0 .. MaxStanzas
        BY Bounds
      <3>1. Init => stanza \in 0 .. MaxStanzas /\ comment \in BOOLEAN
        BY <3>0 DEF Init
      <3>2. Init => last \in Keywords \cup {"nothing"} /\ entry \in Entry \cup {NULL}
        BY DEF Init
      <3>3. Init => list \in Seq(Entry)
        BY EmptySeq DEF Init
      <3> QED BY <3>1, <3>2, <3>3 DEF NetrcTypes
    <2> QED BY <2>1, <2>2 DEF Init, NetrcInv
  <1>2. NetrcTypes /\ NetrcInv /\ [Next]_vars => NetrcTypes' /\ NetrcInv'
    BY NetrcTypesStep, NetrcStep
  <1> QED BY <1>1, <1>2, PTL DEF Spec

\* EntriesSound, the part about the entries: a name and a password that stand in
\* one entry come from one stanza, and the list is in the order of the file.
THEOREM EntriesOfOneStanza == Spec => []OwnPassword
  <1>1. NetrcInv => OwnPassword
    BY DEF NetrcInv, OwnPassword, Own, Rising
  <1> QED BY <1>1, NetrcInvariant, PTL

---------------------------------------------------------------------------
(* search_netrc. *)

\* A set of natural numbers that is not empty has a least one.
LEMMA Least ==
  ASSUME NEW S \in SUBSET Nat, S # {}
  PROVE  Min(S) \in S /\ \A n \in S : Min(S) <= n
  <1>1. PICK m \in S : \A n \in S : ~(<<n, m>> \in OpToRel(<, Nat))
    BY WFMin, NatLessThanWellFounded, Zenon
  <1>2. \A n \in S : ~(n < m)
    BY <1>1, Zenon DEF OpToRel
  <1>3. \E x \in S : \A n \in S : x <= n
    BY <1>2
  <1> QED BY <1>3, Zenon DEF Min

\* What search_netrc finds is an entry for the host or for any, the first one.
LEMMA FoundIsFirst ==
  ASSUME NetrcTypes, NEW host, Matching(host) # {}
  PROVE  /\ Min(Matching(host)) \in Matching(host)
         /\ \A i \in Matching(host) : Min(Matching(host)) <= i
         /\ Found(host) = list[Min(Matching(host))]
         /\ Found(host) \in Entry
  <1>1. Matching(host) \in SUBSET Nat
    BY DEF Matching, NetrcTypes
  <1>2. /\ Min(Matching(host)) \in Matching(host)
        /\ \A i \in Matching(host) : Min(Matching(host)) <= i
    BY <1>1, Least
  <1>3. Found(host) = list[Min(Matching(host))]
    BY DEF Found
  <1>4. Found(host) \in Entry
    BY <1>2, <1>3 DEF Matching, NetrcTypes
  <1> QED BY <1>2, <1>3, <1>4

\* A login is only used when it has a password.
LEMMA CompleteIsEntry ==
  ASSUME NetrcTypes, NEW host, Complete(Found(host))
  PROVE  Found(host) \in {e \in Entry : e.password # 0}
  <1>1. Matching(host) # {}
    BY DEF Complete, Found
  <1> QED BY <1>1, FoundIsFirst DEF Complete

---------------------------------------------------------------------------
(* Options, connections and requests. *)

SessionTypes ==
  /\ pc \in {"netrc", "args", "url", "opening", "commands", "request"} \cup Parties
  /\ heap \in [Blocks -> Proxies \cup {NULL}]
  /\ opt_proxy \in Pointer /\ proxy_hostname \in Pointer /\ systemproxy \in BOOLEAN
  /\ conn \in Connection \cup {NULL} /\ connected \in BOOLEAN
  /\ creds \in {e \in Entry : e.password # 0} \cup {NULL}

RequestTypes ==
  /\ attempt \in [Parties -> 0 .. MaxAttempts]
  /\ asked \in [Parties -> 0 .. MaxAttempts]
  /\ tried \in {"nothing", "entry", "typed", "both"}
  /\ ended \in {"none", "answered", "lost", "unconnected", "refused", "aborted"}

\* What open_connection does to the globals keeps their types.
LEMMA OpenTypes ==
  ASSUME NetrcTypes, SessionTypes, NEW host \in Hosts, Open(host)
  PROVE  /\ conn' \in Connection /\ conn'.host = host
         /\ creds' \in {e \in Entry : e.password # 0} \cup {NULL}
         /\ proxy_hostname' \in Pointer
         /\ heap' \in [Blocks -> Proxies \cup {NULL}]
  <1>1. NameAt(opt_proxy) \in Proxies \cup {NULL}
    BY DEF NameAt, SessionTypes, Pointer
  <1>2. conn' \in Connection /\ conn'.host = host
    BY <1>1 DEF Open, Connection
  <1>3. creds' \in {e \in Entry : e.password # 0} \cup {NULL}
    BY CompleteIsEntry DEF Open, SessionTypes
  <1>4. /\ proxy_hostname' \in Pointer
        /\ heap' \in [Blocks -> Proxies \cup {NULL}]
    BY <1>1 DEF Open, Copy, Free, SessionTypes, Pointer
  <1> QED BY <1>2, <1>3, <1>4

\* The types of what the session keeps between requests.
LEMMA SessionTypesStep ==
  ASSUME NetrcTypes, SessionTypes, [Next]_vars
  PROVE  SessionTypes'
  <1> USE DEF SessionTypes
  <1>1. CASE Reading
    BY <1>1 DEF Reading, Token, EndOfLine, EndOfNetrc, options, session
  <1>2. CASE Opening
    BY <1>2, OpenTypes DEF Opening, Url, OpenCommand, options
  <1>3. CASE Setting
    BY <1>3 DEF Setting, Args, SetProxy, UnsetProxy, SetSystemProxy, Close,
                Copy, Free, Pointer, options, session
  <1>4. CASE Send \/ Respond
    BY <1>4 DEF Send, Respond, Ends, Parties, options, session
  <1>5. CASE Supply
    BY <1>5 DEF Supply, SupplyServer, SupplyProxy, Ask, Ends, Parties, options, session
  <1>6. CASE UNCHANGED vars
    BY <1>6 DEF vars, options, session
  <1> QED BY <1>1, <1>2, <1>3, <1>4, <1>5, <1>6 DEF Next, Reading, Opening, Setting

\* The types of what a request keeps.
LEMMA RequestTypesStep ==
  ASSUME RequestTypes, [Next]_vars
  PROVE  RequestTypes'
  <1> USE DEF RequestTypes, request
  <1>1. CASE Reading \/ Opening \/ Setting
    BY <1>1 DEF Reading, Opening, Setting, Token, EndOfLine, EndOfNetrc, Url,
                OpenCommand, Args, SetProxy, UnsetProxy, SetSystemProxy, Close
  <1>2. CASE Send
    BY <1>2, Bounds DEF Send, Zero
  <1>3. CASE Respond
    BY <1>3 DEF Respond, Ends
  <1>4. ASSUME NEW party \in Parties, Ask(party)
        PROVE  RequestTypes'
    BY <1>4, Bounds DEF Ask, Ends
  <1>5. CASE SupplyServer
    BY <1>4, <1>5, Bounds DEF SupplyServer, Ends, Parties
  <1>6. CASE SupplyProxy
    BY <1>4, <1>6 DEF SupplyProxy, Ends, Parties
  <1>7. CASE UNCHANGED vars
    BY <1>7 DEF vars
  <1> QED BY <1>1, <1>2, <1>3, <1>5, <1>6, <1>7
          DEF Next, Reading, Opening, Setting, Supply

\* Both hold throughout.
LEMMA TypesInvariant == Spec => [](SessionTypes /\ RequestTypes)
  <1>1. Init => SessionTypes
    BY DEF Init, SessionTypes, Pointer
  <1>2. Init => RequestTypes
    BY Bounds DEF Init, RequestTypes, Zero
  <1>3. NetrcTypes /\ SessionTypes /\ RequestTypes /\ [Next]_vars
          => SessionTypes' /\ RequestTypes'
    BY SessionTypesStep, RequestTypesStep
  <1> QED BY <1>1, <1>2, <1>3, NetrcInvariant, PTL DEF Spec

\* EntriesSound: every variable keeps its type, and the list of entries is well
\* formed, of one stanza each and in the order of the file.
THEOREM StartupEntriesSound == Spec => []EntriesSound
  <1>1. NetrcTypes /\ SessionTypes /\ RequestTypes /\ OwnPassword => EntriesSound
    BY DEF EntriesSound, TypeOK, NetrcTypes, SessionTypes, RequestTypes
  <1> QED BY <1>1, NetrcInvariant, TypesInvariant, EntriesOfOneStanza, PTL

---------------------------------------------------------------------------
(* The name of the proxy. *)

\* The option and the global own a block each, and hold a name there.
BlocksInv ==
  /\ opt_proxy # NULL => heap[opt_proxy] \in Proxies
  /\ proxy_hostname # NULL =>
       proxy_hostname # opt_proxy /\ heap[proxy_hostname] \in Proxies
  /\ conn # NULL /\ conn.proxy \in Proxies =>
       proxy_hostname # NULL /\ heap[proxy_hostname] = conn.proxy

\* A copy is put where nothing is.
LEMMA OpenBlocks ==
  ASSUME SessionTypes, BlocksInv, NEW host \in Hosts, Open(host),
         UNCHANGED opt_proxy
  PROVE  BlocksInv'
  <1> USE StartupAssumption, DistinctAssumption DEF SessionTypes, Pointer
  <1>1. conn' = [host |-> host,
                 proxy |-> IF systemproxy THEN System ELSE NameAt(opt_proxy)]
    BY DEF Open
  <1>2. CASE systemproxy \/ opt_proxy = NULL
    <2>1. conn'.proxy \notin Proxies /\ UNCHANGED <<proxy_hostname, heap>>
      BY <1>1, <1>2 DEF Open, NameAt
    <2> QED BY <2>1 DEF BlocksInv
  <1>3. CASE ~systemproxy /\ opt_proxy # NULL
    <2>1. PICK p \in Blocks : /\ Copy(Free(heap, proxy_hostname), NameAt(opt_proxy), p)
                              /\ proxy_hostname' = p
      BY <1>3 DEF Open
    <2>2. heap[opt_proxy] \in Proxies /\ proxy_hostname # opt_proxy /\ opt_proxy \in Blocks
      BY <1>3 DEF BlocksInv
    <2>3. Free(heap, proxy_hostname)[opt_proxy] = heap[opt_proxy]
      BY <2>2 DEF Free
    <2>4. Free(heap, proxy_hostname) \in [Blocks -> Proxies \cup {NULL}]
      BY DEF Free
    <2>5. p # opt_proxy
      BY <2>1, <2>2, <2>3 DEF Copy
    <2>6. heap'[p] = heap[opt_proxy] /\ heap'[opt_proxy] = heap[opt_proxy]
      BY <1>3, <2>1, <2>2, <2>3, <2>4, <2>5 DEF Copy, NameAt
    <2>7. conn'.proxy = heap[opt_proxy]
      BY <1>1, <1>3 DEF NameAt
    <2> QED BY <1>3, <2>1, <2>2, <2>5, <2>6, <2>7 DEF BlocksInv
  <1> QED BY <1>2, <1>3

\* The blocks of the option and of the global stay apart.
LEMMA BlocksInvariant == Spec => []BlocksInv
  <1>1. Init => BlocksInv
    BY DEF Init, BlocksInv
  <1>2. SessionTypes /\ BlocksInv /\ [Next]_vars => BlocksInv'
    <2> SUFFICES ASSUME SessionTypes, BlocksInv, [Next]_vars PROVE BlocksInv'
      OBVIOUS
    <2> USE StartupAssumption
    <2>1. CASE Reading
      BY <2>1 DEF Reading, Token, EndOfLine, EndOfNetrc, options, session, BlocksInv
    <2>2. CASE Opening
      BY <2>2, OpenBlocks DEF Opening, Url, OpenCommand, options, BlocksInv
    <2>3. CASE Args \/ SetProxy
      <3>1. PICK q \in Pointer :
              /\ q = NULL \/ q = opt_proxy
              /\ \/ UNCHANGED <<opt_proxy, heap>>
                 \/ \E name \in Proxies, p \in Blocks :
                      Copy(Free(heap, q), name, p) /\ opt_proxy' = p
        BY <2>3 DEF Args, SetProxy, Pointer, Free, SessionTypes
      <3>2. UNCHANGED session
        BY <2>3 DEF Args, SetProxy
      <3>3. CASE UNCHANGED <<opt_proxy, heap>>
        BY <3>2, <3>3 DEF session, BlocksInv
      <3>4. ASSUME NEW name \in Proxies, NEW p \in Blocks,
                   Copy(Free(heap, q), name, p), opt_proxy' = p
            PROVE  BlocksInv'
        <4>1. proxy_hostname # NULL => /\ proxy_hostname # q
                                       /\ proxy_hostname \in Blocks
          BY <3>1 DEF BlocksInv, SessionTypes, Pointer
        <4>2. proxy_hostname # NULL =>
                Free(heap, q)[proxy_hostname] = heap[proxy_hostname]
          BY <4>1 DEF Free, SessionTypes
        <4>3. proxy_hostname # NULL => p # proxy_hostname
          BY <3>4, <4>2 DEF Copy, BlocksInv
        <4>4. Free(heap, q) \in [Blocks -> Proxies \cup {NULL}]
          BY DEF Free, SessionTypes
        <4>5. heap'[p] = name
          BY <3>4, <4>4 DEF Copy
        <4>6. proxy_hostname # NULL => heap'[proxy_hostname] = heap[proxy_hostname]
          BY <3>4, <4>1, <4>2, <4>3, <4>4 DEF Copy
        <4> QED BY <3>2, <3>4, <4>3, <4>5, <4>6 DEF session, BlocksInv
      <3> QED BY <3>1, <3>3, <3>4
    <2>4. CASE UnsetProxy
      <3>1. /\ heap' = Free(heap, opt_proxy) /\ opt_proxy' = NULL
            /\ UNCHANGED <<proxy_hostname, conn>>
        BY <2>4 DEF UnsetProxy, session
      <3>2. proxy_hostname # NULL => heap'[proxy_hostname] = heap[proxy_hostname]
        BY <3>1 DEF Free, BlocksInv, SessionTypes, Pointer
      <3> QED BY <3>1, <3>2 DEF BlocksInv
    <2>5. CASE SetSystemProxy \/ Close
      BY <2>5 DEF SetSystemProxy, Close, options, session, BlocksInv
    <2>6. CASE Requesting
      BY <2>6 DEF Requesting, Send, Respond, Supply, SupplyServer, SupplyProxy, Ask,
                  Ends, options, session, BlocksInv
    <2>7. CASE UNCHANGED vars
      BY <2>7 DEF vars, options, session, BlocksInv
    <2> QED BY <2>1, <2>2, <2>3, <2>4, <2>5, <2>6, <2>7
            DEF Next, Reading, Opening, Requesting
  <1> QED BY <1>1, <1>2, TypesInvariant, PTL DEF Spec

\* NamedProxy: the name a prompt or a failure would show is that of the proxy the
\* connection uses, however often the option was set and unset since.
THEOREM ProxyIsNamed == Spec => []NamedProxy
  <1>1. BlocksInv => NamedProxy
    BY DEF BlocksInv, NamedProxy, NameAt
  <1> QED BY <1>1, BlocksInvariant, PTL

---------------------------------------------------------------------------
(* Credentials. *)

InRequest == pc \in {"request", "server", "proxy"}

\* How far a request is: neon's attempts are the prompts and, for the server,
\* the entry of ~/.netrc, which comes first.
PromptsInv ==
  /\ \A party \in Parties : asked[party] <= 2
  /\ ended = "refused" => \E party \in Parties : asked[party] = 2
  /\ InRequest =>
       /\ ended = "none"
       /\ asked["proxy"] = attempt["proxy"]
       /\ asked["server"] = IF creds # NULL /\ attempt["server"] > 0
                            THEN attempt["server"] - 1 ELSE attempt["server"]
       /\ creds # NULL /\ attempt["server"] > 0 => tried \in {"entry", "both"}
       /\ creds # NULL => tried # "typed"

\* A prompt keeps the count.
LEMMA AskCounts ==
  ASSUME RequestTypes, PromptsInv, NEW party \in Parties, Ask(party),
         pc = party,
         party = "proxy" => Allowed(attempt["proxy"]),
         party = "server" => Allowed(Counted(attempt["server"]))
                             /\ ~(creds # NULL /\ attempt["server"] = 0)
  PROVE  PromptsInv'
  <1> USE Bounds DEF RequestTypes, Parties, InRequest
  <1>1. /\ asked' = [asked EXCEPT ![party] = @ + 1]
        /\ asked[party] <= 1
        /\ attempt[party] < MaxAttempts
        /\ attempt["server"] \in Nat /\ attempt["proxy"] \in Nat
        /\ asked["server"] \in Nat /\ asked["proxy"] \in Nat
    <2>1. /\ attempt["server"] \in Nat /\ attempt["proxy"] \in Nat
          /\ asked["server"] \in Nat /\ asked["proxy"] \in Nat
      OBVIOUS
    <2>2. asked[party] <= 1 /\ attempt[party] <= 2
      BY <2>1 DEF PromptsInv, Allowed, Counted
    <2>3. asked[party] < MaxAttempts
      BY <2>1, <2>2
    <2>4. asked' = [asked EXCEPT ![party] = IF @ < MaxAttempts THEN @ + 1 ELSE @]
      BY DEF Ask
    <2>5. asked' = [asked EXCEPT ![party] = @ + 1]
      BY <2>3, <2>4
    <2> QED BY <2>1, <2>2, <2>5
  <1>2. CASE pc' = "commands" /\ ended' = "aborted"
    BY <1>1, <1>2 DEF PromptsInv
  <1>3. CASE pc' = "request" /\ UNCHANGED <<session, ended>>
             /\ attempt' = [attempt EXCEPT ![party] = IF @ < MaxAttempts THEN @ + 1 ELSE @]
             /\ tried' = CASE party = "proxy" -> tried
                          [] party = "server" /\ tried \in {"nothing", "typed"} -> "typed"
                          [] OTHER -> "both"
    <2>1. attempt' = [attempt EXCEPT ![party] = @ + 1] /\ creds' = creds
      BY <1>1, <1>3 DEF session
    <2>2. CASE party = "proxy"
      BY <1>1, <1>3, <2>1, <2>2 DEF PromptsInv
    <2>3. CASE party = "server"
      <3>1. creds # NULL => attempt["server"] > 0 /\ tried' = "both"
        BY <1>1, <1>3, <2>3 DEF PromptsInv
      <3> QED BY <1>1, <1>3, <2>1, <2>3, <3>1 DEF PromptsInv
    <2> QED BY <2>2, <2>3
  <1> QED BY <1>2, <1>3 DEF Ask, Ends

\* Every step keeps the count.
LEMMA PromptsStep ==
  ASSUME SessionTypes, RequestTypes, PromptsInv, [Next]_vars
  PROVE  PromptsInv'
  <1> USE DEF request, session, InRequest
  <1>1. CASE Reading \/ Opening \/ Setting
    <2>1. ~InRequest' /\ UNCHANGED <<request, ended>>
      BY <1>1 DEF Reading, Opening, Setting, Token, EndOfLine, EndOfNetrc, Url,
                  OpenCommand, Args, SetProxy, UnsetProxy, SetSystemProxy, Close
    <2> QED BY <2>1 DEF PromptsInv
  <1>2. CASE Send
    BY <1>2 DEF Send, Zero, Parties, PromptsInv
  <1>3. CASE Respond
    BY <1>3 DEF Respond, Ends, PromptsInv
  <1>4. CASE SupplyServer
    <2> DEFINE n == attempt["server"]
    <2>1. CASE creds # NULL /\ n = 0
      BY <1>4, <2>1, Bounds DEF SupplyServer, PromptsInv, RequestTypes, Parties
    <2>2. CASE ~(creds # NULL /\ n = 0) /\ Allowed(Counted(n))
      BY <1>4, <2>2, AskCounts DEF SupplyServer, Parties
    <2>3. CASE ~(creds # NULL /\ n = 0) /\ ~Allowed(Counted(n))
      <3>1. asked["server"] = 2
        BY <1>4, <2>3 DEF SupplyServer, PromptsInv, RequestTypes, Parties, Allowed, Counted
      <3>2. Ends("refused") /\ UNCHANGED request
        BY <1>4, <2>3 DEF SupplyServer
      <3> QED BY <3>1, <3>2 DEF Ends, Parties, PromptsInv
    <2> QED BY <2>1, <2>2, <2>3
  <1>5. CASE SupplyProxy
    <2>1. CASE Allowed(attempt["proxy"])
      BY <1>5, <2>1, AskCounts DEF SupplyProxy, Parties
    <2>2. CASE ~Allowed(attempt["proxy"])
      <3>1. asked["proxy"] = 2
        BY <1>5, <2>2 DEF SupplyProxy, PromptsInv, RequestTypes, Parties, Allowed
      <3> QED BY <1>5, <2>2, <3>1 DEF SupplyProxy, Ends, Parties, PromptsInv
    <2> QED BY <2>1, <2>2
  <1>6. CASE UNCHANGED vars
    BY <1>6 DEF vars, PromptsInv
  <1> QED BY <1>1, <1>2, <1>3, <1>4, <1>5, <1>6
          DEF Next, Reading, Opening, Setting, Supply

\* The count holds throughout.
LEMMA PromptsInvariant == Spec => []PromptsInv
  <1>1. Init => PromptsInv
    BY DEF Init, PromptsInv, InRequest, Zero, Parties
  <1>2. SessionTypes /\ RequestTypes /\ PromptsInv /\ [Next]_vars => PromptsInv'
    BY PromptsStep
  <1> QED BY <1>1, <1>2, TypesInvariant, PTL DEF Spec

\* AskedTwice: two prompts at most for each party, and no refusal without them.
THEOREM AskedAtMostTwice == Spec => []AskedTwice
  <1>1. PromptsInv => AskedTwice
    BY DEF PromptsInv, AskedTwice
  <1> QED BY <1>1, PromptsInvariant, PTL

---------------------------------------------------------------------------
(* The entry of the server. *)

\* A connection has been given the entry found for its host, when that one has
\* a password; there is no connection before ~/.netrc has been read.
ConnectionInv ==
  /\ pc = "netrc" => conn = NULL
  /\ InRequest \/ pc = "opening" \/ connected => conn # NULL
  /\ conn # NULL /\ Complete(Found(conn.host)) => creds = Found(conn.host)

\* What is found depends on the list only.
LEMMA FoundStays ==
  ASSUME list' = list, NEW host
  PROVE  Found(host)' = Found(host)
  BY DEF Found, Matching

\* open_connection gives the server its own entry.
LEMMA ConnectionStep ==
  ASSUME NetrcTypes, SessionTypes, ConnectionInv, [Next]_vars
  PROVE  ConnectionInv'
  <1> USE DistinctAssumption DEF InRequest
  <1>1. CASE Reading
    <2>1. conn' = NULL /\ pc' \notin {"request", "server", "proxy", "opening"} /\ ~connected'
      BY <1>1 DEF Reading, Token, EndOfLine, EndOfNetrc, session, ConnectionInv
    <2> QED BY <2>1 DEF ConnectionInv
  <1>2. /\ UNCHANGED list \/ Reading
        /\ Opening \/ Setting \/ Requesting => ~Reading
    <2>1. Reading => pc = "netrc"
      BY DEF Reading, Token, EndOfLine, EndOfNetrc
    <2>2. Opening \/ Setting => pc # "netrc"
      BY DEF Opening, Url, OpenCommand, Setting, Args, SetProxy, UnsetProxy,
             SetSystemProxy, Close
    <2>3. Requesting => pc # "netrc"
      BY DEF Requesting, Send, Respond, Supply, SupplyServer, SupplyProxy
    <2> QED BY <2>1, <2>2, <2>3, ListIsFixed DEF netrc
  <1>3. CASE UNCHANGED list /\ UNCHANGED <<conn, creds>> /\ ~Reading
    <2>1. conn # NULL /\ Complete(Found(conn.host)') => creds' = Found(conn.host)'
      BY <1>3, FoundStays DEF ConnectionInv, Complete
    <2>2. pc' # "netrc" \/ UNCHANGED vars
      BY <1>3, ListIsFixed
    <2>3. InRequest' \/ pc' = "opening" \/ connected' => conn # NULL
      <3>1. CASE Opening \/ Setting
        BY <1>3, <3>1, OpenTypes
           DEF Opening, Setting, Url, OpenCommand, Args, SetProxy, UnsetProxy,
               SetSystemProxy, Close, session, ConnectionInv
      <3>2. CASE Requesting
        BY <1>3, <3>2 DEF Requesting, Send, Respond, Supply, SupplyServer, SupplyProxy,
               Ask, Ends, session, ConnectionInv
      <3>3. CASE UNCHANGED vars
        BY <3>3 DEF vars, session, ConnectionInv
      <3> QED BY <1>3, <3>1, <3>2, <3>3 DEF Next, Reading, Opening, Setting, Requesting
    <2> QED BY <1>3, <2>1, <2>2, <2>3 DEF ConnectionInv, vars, session
  <1>4. ASSUME NEW host \in Hosts, Open(host), pc' = "opening", UNCHANGED list
        PROVE  ConnectionInv'
    <2>1. conn' # NULL /\ conn'.host = host
      BY <1>4, OpenTypes
    <2>2. Complete(Found(host)) => creds' = Found(host)
      BY <1>4 DEF Open
    <2>3. Found(host)' = Found(host)
      BY <1>4, FoundStays
    <2> QED BY <1>4, <2>1, <2>2, <2>3 DEF ConnectionInv, Complete
  <1>5. CASE UNCHANGED list /\ conn' = NULL /\ ~connected' /\ pc' = "commands"
    BY <1>5 DEF ConnectionInv
  <1>6. CASE Opening
    <2>1. UNCHANGED list /\ ~Reading
      BY <1>2, <1>6
    <2>2. \/ UNCHANGED <<conn, creds>>
          \/ pc' = "opening" /\ \E host \in Hosts : Open(host)
      BY <1>6 DEF Opening, Url, OpenCommand
    <2> QED BY <1>3, <1>4, <2>1, <2>2
  <1>7. CASE Setting
    <2>1. UNCHANGED list /\ ~Reading
      BY <1>2, <1>7
    <2>2. \/ UNCHANGED <<conn, creds>>
          \/ conn' = NULL /\ ~connected' /\ pc' = "commands"
      BY <1>7 DEF Setting, Args, SetProxy, UnsetProxy, SetSystemProxy, Close, session
    <2> QED BY <1>3, <1>5, <2>1, <2>2
  <1>8. CASE Requesting
    <2>1. UNCHANGED list /\ ~Reading
      BY <1>2, <1>8
    <2>2. \/ UNCHANGED <<conn, creds>>
          \/ conn' = NULL /\ ~connected' /\ pc' = "commands"
      BY <1>8 DEF Requesting, Send, Respond, Supply, SupplyServer, SupplyProxy, Ask,
                  Ends, session
    <2> QED BY <1>3, <1>5, <2>1, <2>2
  <1>9. CASE UNCHANGED vars
    BY <1>3, <1>9, <1>1 DEF vars, session, netrc
  <1> QED BY <1>1, <1>6, <1>7, <1>8, <1>9
          DEF Next, Reading, Opening, Setting, Requesting

\* The entry holds throughout.
LEMMA ConnectionInvariant == Spec => []ConnectionInv
  <1>1. Init => ConnectionInv
    BY DEF Init, ConnectionInv, InRequest
  <1>2. NetrcTypes /\ SessionTypes /\ ConnectionInv /\ [Next]_vars => ConnectionInv'
    BY ConnectionStep
  <1> QED BY <1>1, <1>2, NetrcInvariant, TypesInvariant, PTL DEF Spec

\* The entry search_netrc finds is the one that stands first in the file.
LEMMA FirstInTheFile ==
  ASSUME NetrcTypes, Rising(list), NEW host, Matching(host) # {}
  PROVE  Found(host) = list[CHOOSE i \in Matching(host) :
                              \A j \in Matching(host) : list[i].stanza <= list[j].stanza]
  <1> DEFINE m == Min(Matching(host))
             First(i) == \A j \in Matching(host) : list[i].stanza <= list[j].stanza
  <1>1. /\ m \in Matching(host) /\ \A i \in Matching(host) : m <= i
        /\ Found(host) = list[m]
    BY FoundIsFirst
  <1>2. /\ DOMAIN list = 1 .. Len(list) /\ Len(list) \in Nat
        /\ \A i \in DOMAIN list : list[i].stanza \in Nat
    <2>1. \A i \in DOMAIN list : list[i] \in Entry
      BY DEF NetrcTypes
    <2>2. \A e \in Entry : e.stanza \in Nat
      BY Bounds DEF Entry
    <2> QED BY <2>1, <2>2 DEF NetrcTypes
  <1>3. \A i \in Matching(host) : i \in DOMAIN list
    BY DEF Matching
  <1>4. \A i \in Matching(host) : i # m => list[m].stanza < list[i].stanza
    BY <1>1, <1>2, <1>3 DEF Rising
  <1>5. First(m)
    BY <1>1, <1>2, <1>3, <1>4
  <1>6. \A i \in Matching(host) : First(i) => i = m
    BY <1>1, <1>2, <1>3, <1>4
  <1>7. (CHOOSE i \in Matching(host) : First(i)) = m
    BY <1>1, <1>5, <1>6
  <1> QED BY <1>1, <1>7

\* EntryOfServer: the server of a request is tried with the first entry of the
\* file that is for it or for any, before the user is asked.
THEOREM ServerGetsItsEntry == Spec => []EntryOfServer
  <1>1. NetrcTypes /\ NetrcInv /\ SessionTypes /\ PromptsInv /\ ConnectionInv
          => EntryOfServer
    <2> SUFFICES ASSUME NetrcTypes, NetrcInv, PromptsInv, ConnectionInv, InRequest,
                        Matching(conn.host) # {},
                        Complete(list[CHOOSE i \in Matching(conn.host) :
                                        \A j \in Matching(conn.host) :
                                          list[i].stanza <= list[j].stanza])
                 PROVE  /\ creds = list[CHOOSE i \in Matching(conn.host) :
                                          \A j \in Matching(conn.host) :
                                            list[i].stanza <= list[j].stanza]
                        /\ tried # "typed"
      BY DEF EntryOfServer, Matching, InRequest
    <2>1. pc # "netrc" /\ Rising(list)
      BY DEF InRequest, NetrcInv
    <2>2. Complete(Found(conn.host)) /\ conn # NULL
      BY <2>1, FirstInTheFile DEF ConnectionInv
    <2>3. creds = Found(conn.host) /\ creds # NULL
      BY <2>2 DEF ConnectionInv, Complete
    <2> QED BY <2>1, <2>3, FirstInTheFile DEF PromptsInv
  <1> QED BY <1>1, NetrcInvariant, TypesInvariant, PromptsInvariant,
             ConnectionInvariant, PTL

================================================================================
