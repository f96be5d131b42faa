------------------------------- MODULE LockProofs -------------------------------
(***************************************************************************)
(* Theorems about LockCommands, for any resources, tokens and store size.  *)
(***************************************************************************)
EXTENDS LockCommands, TLAPS

\* A command is in progress; a LOCK that succeeded returned a token.
Busy ==
  /\ pc # "prompt" => req # NONE
  /\ pc = "ok" /\ req.op = "lock" => req.token \in issued

\* Tokens come from the server.
Known ==
  /\ mine \subseteq issued
  /\ found \subseteq issued
  /\ Live \subseteq issued
  /\ \A c \in Cells : store[c] # NONE => store[c].token \in issued

\* An entry of a token that was neither stolen nor typed is the only one,
\* and names the resource the lock was taken on.
Entries ==
  \A c \in Cells : store[c] # NONE /\ store[c].token \notin handled =>
    /\ \A d \in Cells : store[d] # NONE /\ store[d].token = store[c].token
                          => d = c
    /\ held[store[c].token] # NONE => held[store[c].token].uri = store[c].uri

\* A LOCK was answered: its token is new to the store.
LockReply ==
  pc = "ok" /\ req.op = "lock" =>
    /\ held[req.token] # NONE => held[req.token].uri = req.uri
    /\ held[req.token] = NONE => req.token \in unseen
    /\ \A c \in Cells : store[c] # NONE => store[c].token # req.token

\* The token of an UNLOCK has left the store.
UnlockSent ==
  pc = "sent" /\ req.op = "unlock" =>
    \/ req.token \in handled
    \/ \A c \in Cells : store[c] # NONE => store[c].token # req.token

\* A DELETE was answered: none of the user's locks is left on the resource.
DeleteReply ==
  pc = "ok" /\ req.op \in {"delete", "rmcol"} =>
    \A t \in mine : held[t] # NONE => held[t].uri # req.uri

\* A live lock of the user is stored under the resource it was taken on.
HomeEntry ==
  \A t \in mine : held[t] # NONE /\ t \notin tried =>
    \E c \in Cells : store[c] = [uri |-> held[t].uri, token |-> t]

\* A dead entry has one of the reasons, or is about to be removed.
DeadEntry ==
  \A c \in Cells : store[c] # NONE =>
    \/ held[store[c].token] # NONE
    \/ store[c].token \in unseen \cup handled
    \/ /\ pc = "ok" /\ req.op \in {"delete", "rmcol"}
       /\ store[c].uri = req.uri

IInv == TypeOK /\ Busy /\ Known /\ Entries /\ LockReply /\ UnlockSent
        /\ DeleteReply /\ HomeEntry /\ DeadEntry

---------------------------------------------------------------------------


\* What the server and its other clients do keeps every variable's type.
LEMMA ServerType == TypeOK /\ Busy /\ (Serve \/ Environment) => TypeOK' /\ Busy'
  <1> SUFFICES ASSUME TypeOK, Busy, Serve \/ Environment PROVE TypeOK' /\ Busy'
    OBVIOUS
  <1> USE LockAssumption DEF TypeOK, Busy
  <1>1. CASE ServeLock
    <2>1. PICK t \in Tokens \ issued :
            /\ held' = [held EXCEPT ![t] = [uri |-> req.uri, deep |-> req.deep,
                                            shared |-> req.shared, own |-> TRUE]]
            /\ issued' = issued \cup {t}
            /\ req' = [req EXCEPT !.token = t]
            /\ Answer({}, {t})
      BY <1>1 DEF ServeLock
    <2>2. req \in Request
      BY <1>1 DEF ServeLock
    <2>3. req' \in Request
      BY <2>1, <2>2 DEF Request
    <2>4. held' \in [Tokens -> Lock \cup {NONE}]
      BY <2>1, <2>2 DEF Request, Lock
    <2>5. exists' \subseteq Resources
      BY <1>1, <2>2 DEF ServeLock, Request
    <2> QED BY <1>1, <2>1, <2>3, <2>4, <2>5 DEF ServeLock, Answer
  <1>2. CASE ServeUnlock
    BY <1>2 DEF ServeUnlock, Answer, Covering, Live
  <1>3. CASE ServeDelete
    BY <1>3 DEF ServeDelete, Drop, Rooted, Live, Answer
  <1>4. CASE ServePartialDelete
    BY <1>4 DEF ServePartialDelete, Drop, Rooted, Live
  <1>5. CASE ServeMove
    <2>1. req.dest \in Resources
      BY <1>5 DEF ServeMove, Request
    <2> QED BY <1>5, <2>1 DEF ServeMove, Drop, Rooted, Live, Answer
  <1>6. CASE ServeDiscover
    BY <1>6 DEF ServeDiscover, server, history, Covering, Live
  <1>7. CASE Refuse
    BY <1>7 DEF Refuse, server, history
  <1>8. CASE Environment
    <2>1. ASSUME NEW t \in Tokens, Expire(t) PROVE TypeOK' /\ Busy'
      BY <2>1 DEF Expire, Live
    <2>2. ASSUME NEW r \in Resources, NEW t \in Tokens, OtherLocks(r, t)
          PROVE  TypeOK' /\ Busy'
      <3>1. [uri |-> r, deep |-> FALSE, shared |-> FALSE, own |-> FALSE] \in Lock
        BY DEF Lock
      <3> QED BY <2>2, <3>1 DEF OtherLocks, history
    <2>3. ASSUME NEW f \in Files, OtherDeletes(f) PROVE TypeOK' /\ Busy'
      BY <2>3 DEF OtherDeletes, history
    <2> QED BY <1>8, <2>1, <2>2, <2>3 DEF Environment
  <1> QED BY <1>1, <1>2, <1>3, <1>4, <1>5, <1>6, <1>7, <1>8 DEF Serve

\* So do the commands.
LEMMA CommandsType == TypeOK /\ Busy /\ Commands => TypeOK' /\ Busy'
  <1> SUFFICES ASSUME TypeOK, Busy, Commands PROVE TypeOK' /\ Busy'
    OBVIOUS
  <1> USE LockAssumption DEF TypeOK, Busy
  <1>1. ASSUME NEW op \in Ops, NEW r \in Resources, NEW d \in Resources,
               NEW deep \in BOOLEAN, NEW shared \in BOOLEAN,
               NEW t \in Tokens \cup {NONE}, Send(op, r, d, deep, shared, t)
        PROVE  pc' = "sent" /\ req' \in Request
    BY <1>1 DEF Send, Request
  <1>2. ASSUME NEW r \in Resources, NEW t \in Tokens, Add(r, t)
        PROVE  store' \in [Cells -> Entry \cup {NONE}]
    BY <1>2 DEF Add, Entry
  <1>3. ASSUME NEW c \in Cells, store[c] # NONE
        PROVE  store[c].token \in Tokens
    BY <1>3 DEF Entry
  <1>4. ASSUME NEW r \in Resources, LockCommand(r) PROVE TypeOK' /\ Busy'
    <2>1. PICK lockdepth \in BOOLEAN, shared \in BOOLEAN :
            Send("lock", r, r, IsColl(r) /\ lockdepth, shared, NONE)
      BY <1>4 DEF LockCommand
    <2>2. PICK deep \in BOOLEAN : Send("lock", r, r, deep, shared, NONE)
      BY <2>1, Zenon
    <2>3. pc' = "sent" /\ req' \in Request
      BY <2>1, <2>2, <1>1 DEF Ops
    <2> QED BY <1>4, <2>3 DEF LockCommand, server, history
  <1>5. ASSUME NEW r \in Resources, UnlockStored(r) PROVE TypeOK' /\ Busy'
    <2>1. PICK c \in FindByUri(r) :
            /\ store' = [store EXCEPT ![c] = NONE]
            /\ Send("unlock", r, r, FALSE, FALSE, store[c].token)
            /\ tried' = tried \cup {store[c].token}
      BY <1>5 DEF UnlockStored
    <2>2. store[c].token \in Tokens
      BY <2>1, <1>3 DEF FindByUri
    <2>3. pc' = "sent" /\ req' \in Request
      BY <2>1, <2>2, <1>1 DEF Ops
    <2> QED BY <1>5, <2>1, <2>2, <2>3 DEF UnlockStored, server
  <1>6. ASSUME NEW r \in Resources, UnlockTyped(r) PROVE TypeOK' /\ Busy'
    <2>1. PICK t \in issued : /\ Send("unlock", r, r, FALSE, FALSE, t)
                              /\ tried' = tried \cup {t}
                              /\ handled' = handled \cup {t}
      BY <1>6 DEF UnlockTyped
    <2>2. pc' = "sent" /\ req' \in Request
      BY <2>1, <1>1 DEF Ops
    <2> QED BY <1>6, <2>1, <2>2 DEF UnlockTyped, server
  <1>7. ASSUME NEW r \in Resources, StealCommand(r) PROVE TypeOK' /\ Busy'
    <2>1. pc' = "sent" /\ req' \in Request
      BY <1>7, <1>1 DEF StealCommand, Ops
    <2> QED BY <1>7, <2>1 DEF StealCommand, server, history
  <1>8. ASSUME NEW r \in Resources, DeleteCommand(r) PROVE TypeOK' /\ Busy'
    <2>1. pc' = "sent" /\ req' \in Request
      BY <1>8, <1>1 DEF DeleteCommand, Ops
    <2> QED BY <1>8, <2>1 DEF DeleteCommand, server, history
  <1>9. ASSUME NEW s \in Files, NEW d \in Files, MoveCommand(s, d)
        PROVE  TypeOK' /\ Busy'
    <2>1. PICK overwrite \in BOOLEAN :
            Send("move", s, d, overwrite, FALSE, NONE)
      BY <1>9 DEF MoveCommand
    <2>2. s \in Resources /\ d \in Resources /\ "move" \in Ops
      BY DEF Resources, Ops
    <2>3. pc' = "sent" /\ req' \in Request
      BY <2>1, <2>2 DEF Send, Request
    <2> QED BY <1>9, <2>3 DEF MoveCommand, server, history
  <1>10. CASE LockDone
    <2>1. CASE pc = "failed"
      BY <1>10, <2>1 DEF LockDone, Finish, server
    <2>2. CASE pc = "ok"
      <3>1. req \in Request /\ Add(req.uri, req.token)
        BY <1>10, <2>2 DEF LockDone
      <3>2. req.token \in Tokens /\ req.uri \in Resources
        BY <1>10, <2>2, <3>1 DEF Request, LockDone
      <3> QED BY <1>10, <2>2, <3>1, <3>2, <1>2 DEF LockDone, Finish, server
    <2> QED BY <1>10, <2>1, <2>2 DEF LockDone
  <1>11. CASE UnlockDone \/ StealDone \/ MoveDone
    BY <1>11 DEF UnlockDone, StealDone, MoveDone, Finish, server, history
  <1>12. CASE StealOne
    <2>1. req.uri \in Resources
      BY <1>12 DEF StealOne, Request
    <2>2. store' \in [Cells -> Entry \cup {NONE}]
      BY <1>12, <2>1, <1>2 DEF StealOne
    <2> QED BY <1>12, <2>2 DEF StealOne, server
  <1>13. CASE DeleteDone
    BY <1>13 DEF DeleteDone, RemoveLocks, Finish, server, history
  <1> QED BY <1>4, <1>5, <1>6, <1>7, <1>8, <1>9, <1>10, <1>11, <1>12, <1>13
             DEF Commands

\* What Add does to the store.
LEMMA AddFacts ==
  ASSUME TypeOK, NEW r, NEW t, Add(r, t)
  PROVE  \E c \in Cells :
           /\ store[c] = NONE
           /\ store'[c] = [uri |-> r, token |-> t]
           /\ \A d \in Cells : d # c => store'[d] = store[d]
  BY DEF Add, TypeOK

\* The server never touches the store or the user's tokens.
LEMMA ServerKeeps ==
  ASSUME Serve \/ Environment
  PROVE  store' = store /\ mine' = mine /\ tried' = tried /\ handled' = handled
         /\ unseen \subseteq unseen' /\ issued \subseteq issued'
  <1>1. CASE ServeLock
    BY <1>1 DEF ServeLock, Answer
  <1>2. CASE ServeUnlock \/ ServeDelete \/ ServePartialDelete \/ ServeMove
    BY <1>2 DEF ServeUnlock, ServeDelete, ServePartialDelete, ServeMove, Answer
  <1>3. CASE ServeDiscover \/ Refuse
    BY <1>3 DEF ServeDiscover, Refuse, server, history
  <1>4. CASE Environment
    BY <1>4 DEF Environment, Expire, OtherLocks, OtherDeletes, history
  <1> QED BY <1>1, <1>2, <1>3, <1>4 DEF Serve

\* Commands never change the server's locks.
LEMMA CommandsKeep ==
  ASSUME Commands PROVE UNCHANGED server /\ UNCHANGED unseen
  BY DEF Commands, LockCommand, UnlockStored, UnlockTyped, StealCommand,
         DeleteCommand, MoveCommand, LockDone, UnlockDone, StealOne, StealDone,
         DeleteDone, MoveDone, history

\* A server step leaves each lock as it is, drops it or, for a token not
\* issued before, grants it.
LEMMA HeldSteps ==
  ASSUME TypeOK, Busy, Serve \/ Environment, NEW t \in Tokens
  PROVE  \/ held'[t] = held[t]
         \/ held'[t] = NONE /\ held[t] # NONE
         \/ t \notin issued /\ t \in issued' /\ held'[t] # NONE
  <1> USE LockAssumption DEF TypeOK, Busy
  <1>1. CASE ServeLock
    <2>1. PICK u \in Tokens \ issued :
            /\ held' = [held EXCEPT ![u] = [uri |-> req.uri, deep |-> req.deep,
                                            shared |-> req.shared, own |-> TRUE]]
            /\ issued' = issued \cup {u}
      BY <1>1 DEF ServeLock
    <2>2. req \in Request
      BY <1>1 DEF ServeLock
    <2>3. [uri |-> req.uri, deep |-> req.deep, shared |-> req.shared,
           own |-> TRUE] \in Lock
      BY <2>2 DEF Request, Lock
    <2> QED BY <2>1, <2>3
  <1>2. CASE ServeUnlock
    BY <1>2 DEF ServeUnlock, Covering, Live
  <1>3. CASE ServeDelete \/ ServePartialDelete \/ ServeMove
    BY <1>3 DEF ServeDelete, ServePartialDelete, ServeMove, Drop, Rooted, Live
  <1>4. CASE ServeDiscover \/ Refuse
    BY <1>4 DEF ServeDiscover, Refuse, server
  <1>5. CASE Environment
    <2>1. ASSUME NEW u \in Tokens, Expire(u)
          PROVE  held'[t] = held[t] \/ (held'[t] = NONE /\ held[t] # NONE)
      BY <2>1 DEF Expire, Live
    <2>2. ASSUME NEW r \in Resources, NEW u \in Tokens, OtherLocks(r, u)
          PROVE  held'[t] = held[t]
                 \/ (t \notin issued /\ t \in issued' /\ held'[t] # NONE)
      <3>1. [uri |-> r, deep |-> FALSE, shared |-> FALSE, own |-> FALSE] \in Lock
        BY DEF Lock
      <3> QED BY <2>2, <3>1 DEF OtherLocks
    <2>3. ASSUME NEW f \in Files, OtherDeletes(f) PROVE held'[t] = held[t]
      BY <2>3 DEF OtherDeletes
    <2> QED BY <1>5, <2>1, <2>2, <2>3 DEF Environment
  <1> QED BY <1>1, <1>2, <1>3, <1>4, <1>5 DEF Serve

---------------------------------------------------------------------------

\* Tokens known to the program were issued.
LEMMA KnownStep == TypeOK /\ Busy /\ Known /\ [Next]_vars => Known'
  <1> SUFFICES ASSUME TypeOK, Busy, Known, [Next]_vars PROVE Known'
    OBVIOUS
  <1>1. CASE Serve \/ Environment
    <2>1. store' = store /\ mine' = mine /\ issued \subseteq issued'
      BY <1>1, ServerKeeps
    <2>2. Live' \subseteq issued'
      BY <1>1, <2>1, HeldSteps DEF Known, Live
    <2>3. found' = found \/ found' = Covering(req.uri)
      BY <1>1 DEF Serve, Environment, ServeLock, ServeUnlock, ServeDelete,
                  ServePartialDelete, ServeMove, ServeDiscover, Refuse, Expire,
                  OtherLocks, OtherDeletes
    <2>4. found' \subseteq issued'
      BY <2>1, <2>3 DEF Known, Covering
    <2> QED BY <2>1, <2>2, <2>4 DEF Known
  <1>2. CASE Commands
    <2>1. UNCHANGED <<held, issued>>
      BY <1>2, CommandsKeep DEF server
    <2>2. Live' = Live
      BY <2>1 DEF Live
    <2>3. CASE LockDone /\ pc = "ok"
      <3>1. Add(req.uri, req.token) /\ mine' = mine \cup {req.token}
            /\ req.token \in issued /\ found' = found
        BY <2>3 DEF LockDone, Busy
      <3>2. PICK c \in Cells :
              /\ store'[c] = [uri |-> req.uri, token |-> req.token]
              /\ \A d \in Cells : d # c => store'[d] = store[d]
        BY <3>1, AddFacts
      <3> QED BY <2>1, <2>2, <3>1, <3>2 DEF Known
    <2>4. CASE StealOne
      <3>1. PICK t \in found : Add(req.uri, t) /\ found' = found \ {t}
        BY <2>4 DEF StealOne
      <3>2. PICK c \in Cells :
              /\ store'[c] = [uri |-> req.uri, token |-> t]
              /\ \A d \in Cells : d # c => store'[d] = store[d]
        BY <3>1, AddFacts
      <3>3. mine' = mine
        BY <2>4 DEF StealOne
      <3> QED BY <2>1, <2>2, <3>1, <3>2, <3>3 DEF Known
    <2>5. CASE ~(LockDone /\ pc = "ok") /\ ~StealOne
      <3>1. mine' = mine /\ found' = found
        BY <1>2, <2>5 DEF Commands, LockCommand, UnlockStored, UnlockTyped,
             StealCommand, DeleteCommand, MoveCommand, LockDone, UnlockDone,
             StealDone, DeleteDone, MoveDone, history
      <3>2. \A c \in Cells : store'[c] = store[c] \/ store'[c] = NONE
        BY <1>2, <2>5 DEF Commands, LockCommand, UnlockStored, UnlockTyped,
             StealCommand, DeleteCommand, MoveCommand, LockDone, UnlockDone,
             StealDone, DeleteDone, MoveDone, history, RemoveLocks, FindByUri,
             TypeOK
      <3> QED BY <2>1, <2>2, <3>1, <3>2 DEF Known
    <2> QED BY <2>3, <2>4, <2>5
  <1>3. CASE UNCHANGED vars
    BY <1>3 DEF vars, server, history, Known, Live
  <1> QED BY <1>1, <1>2, <1>3 DEF Next

\* How a command changes the store: LOCK and steal add an entry, unlock and a
\* successful DELETE remove some, nothing else touches it.
TakesLock ==
  /\ LockDone /\ pc = "ok" /\ req.op = "lock" /\ pc' = "prompt"
  /\ mine' = mine \cup {req.token} /\ tried' = tried /\ handled' = handled
  /\ \E c \in Cells : /\ store[c] = NONE
                      /\ store'[c] = [uri |-> req.uri, token |-> req.token]
                      /\ \A d \in Cells : d # c => store'[d] = store[d]

Steals ==
  /\ StealOne /\ pc = "ok" /\ req.op = "steal" /\ pc' = pc /\ req' = req
  /\ mine' = mine /\ tried' = tried
  /\ \E t \in found, c \in Cells :
       /\ handled' = handled \cup {t}
       /\ store[c] = NONE
       /\ store'[c] = [uri |-> req.uri, token |-> t]
       /\ \A d \in Cells : d # c => store'[d] = store[d]

Unlocks ==
  /\ pc = "prompt" /\ pc' = "sent" /\ req'.op = "unlock"
  /\ mine' = mine /\ handled' = handled
  /\ \E c \in Cells : /\ store[c] # NONE
                      /\ store' = [store EXCEPT ![c] = NONE]
                      /\ tried' = tried \cup {store[c].token}
                      /\ req'.token = store[c].token

Forgets ==
  /\ pc = "ok" /\ req.op \in {"delete", "rmcol"} /\ req.uri \in Resources
  /\ pc' = "prompt"
  /\ mine' = mine /\ tried' = tried /\ handled' = handled
  /\ RemoveLocks(req.uri)

KeepsStore ==
  /\ \/ pc' = "prompt"
     \/ pc' = "sent" /\ (req'.op = "unlock" => req'.token \in handled')
  /\ pc = "ok" => req.op \notin {"delete", "rmcol"}
  /\ store' = store /\ mine' = mine
  /\ tried \subseteq tried' /\ handled \subseteq handled'

LEMMA StoreSteps ==
  ASSUME TypeOK, Busy, Commands
  PROVE  TakesLock \/ Steals \/ Unlocks \/ Forgets \/ KeepsStore
  <1> USE DEF Busy
  <1>1. CASE LockDone /\ pc = "ok"
    <2>1. Add(req.uri, req.token) /\ mine' = mine \cup {req.token}
          /\ req.op = "lock" /\ tried' = tried /\ handled' = handled
          /\ pc' = "prompt"
      BY <1>1 DEF LockDone, Finish
    <2>2. TakesLock
      BY <1>1, <2>1, AddFacts DEF TakesLock
    <2> QED BY <2>2
  <1>2. CASE StealOne
    <2>1. PICK t \in found : Add(req.uri, t) /\ handled' = handled \cup {t}
      BY <1>2 DEF StealOne
    <2>2. PICK c \in Cells :
            /\ store[c] = NONE
            /\ store'[c] = [uri |-> req.uri, token |-> t]
            /\ \A d \in Cells : d # c => store'[d] = store[d]
      BY <2>1, AddFacts
    <2>3. pc = "ok" /\ req.op = "steal" /\ mine' = mine /\ tried' = tried
          /\ pc' = pc /\ req' = req
      BY <1>2 DEF StealOne
    <2> QED BY <1>2, <2>1, <2>2, <2>3 DEF Steals
  <1>3. ASSUME NEW r \in Resources, UnlockStored(r)
        PROVE  Unlocks
    <2>1. PICK c \in FindByUri(r) :
            /\ store' = [store EXCEPT ![c] = NONE]
            /\ Send("unlock", r, r, FALSE, FALSE, store[c].token)
            /\ tried' = tried \cup {store[c].token}
      BY <1>3 DEF UnlockStored
    <2>2. c \in Cells /\ store[c] # NONE
      BY <2>1 DEF FindByUri
    <2>3. pc' = "sent" /\ req'.op = "unlock" /\ req'.token = store[c].token
      BY <2>1 DEF Send
    <2>4. pc = "prompt" /\ mine' = mine /\ handled' = handled
      BY <1>3 DEF UnlockStored
    <2> QED BY <2>1, <2>2, <2>3, <2>4 DEF Unlocks
  <1>4. CASE DeleteDone /\ pc = "ok"
    <2>1. req.uri \in Resources
      BY <1>4 DEF TypeOK, Request
    <2> QED BY <1>4, <2>1 DEF DeleteDone, Finish, history, Forgets
  <1>5. CASE (LockDone \/ DeleteDone) /\ pc # "ok"
    BY <1>5 DEF LockDone, DeleteDone, Finish, history, KeepsStore
  <1>6. CASE UnlockDone \/ StealDone \/ MoveDone
    BY <1>6 DEF UnlockDone, StealDone, MoveDone, Finish, history, KeepsStore
  <1>7. ASSUME NEW r \in Resources,
               LockCommand(r) \/ UnlockTyped(r) \/ StealCommand(r)
                 \/ DeleteCommand(r)
        PROVE  KeepsStore
    BY <1>7 DEF LockCommand, UnlockTyped, StealCommand, DeleteCommand, Send,
                history, KeepsStore
  <1>8. ASSUME NEW s \in Files, NEW d \in Files, MoveCommand(s, d)
        PROVE  KeepsStore
    BY <1>8 DEF MoveCommand, Send, history, KeepsStore
  <1> QED
    <2>1. CASE LockDone \/ StealOne \/ DeleteDone \/ UnlockDone \/ StealDone
               \/ MoveDone
      BY <2>1, <1>1, <1>2, <1>4, <1>5, <1>6
    <2>2. CASE \E r \in Resources : UnlockStored(r)
      BY <2>2, <1>3
    <2>3. CASE \E r \in Resources : LockCommand(r) \/ UnlockTyped(r)
                 \/ StealCommand(r) \/ DeleteCommand(r)
      BY <2>3, <1>7
    <2>4. CASE \E s, d \in Files : MoveCommand(s, d)
      BY <2>4, <1>8
    <2> QED BY <2>1, <2>2, <2>3, <2>4 DEF Commands

\* Entries keep their shape.
LEMMA EntriesStep ==
  TypeOK /\ Busy /\ Known /\ Entries /\ LockReply /\ [Next]_vars => Entries'
  <1> SUFFICES ASSUME TypeOK, Busy, Known, Entries, LockReply, [Next]_vars
               PROVE  Entries'
    OBVIOUS
  <1>0. NONE \notin Entry
    BY LockAssumption
  <1>1. CASE Serve \/ Environment
    <2>1. store' = store /\ handled' = handled
      BY <1>1, ServerKeeps
    <2>2. ASSUME NEW c \in Cells, store[c] # NONE,
                 held'[store[c].token] # NONE
          PROVE  held'[store[c].token] = held[store[c].token]
      <3>1. store[c].token \in issued /\ store[c].token \in Tokens
        BY <2>2 DEF Known, TypeOK
      <3> QED BY <1>1, <2>2, <3>1, HeldSteps
    <2> QED BY <2>1, <2>2 DEF Entries
  <1>2. CASE Commands
    <2>1. held' = held
      BY <1>2, CommandsKeep DEF server
    <2>2. CASE TakesLock
      <3>1. PICK c \in Cells :
              /\ store'[c] = [uri |-> req.uri, token |-> req.token]
              /\ \A d \in Cells : d # c => store'[d] = store[d]
        BY <2>2 DEF TakesLock
      <3>2. handled' = handled
        BY <2>2 DEF TakesLock
      <3>3. /\ held[req.token] # NONE => held[req.token].uri = req.uri
            /\ \A d \in Cells : store[d] # NONE => store[d].token # req.token
        BY <2>2 DEF TakesLock, LockReply
      <3>4. store'[c].token = req.token /\ store'[c].uri = req.uri
        BY <3>1
      <3> QED BY <2>1, <3>1, <3>2, <3>3, <3>4 DEF Entries
    <2>3. CASE Steals
      <3>1. PICK t \in found, c \in Cells :
              /\ handled' = handled \cup {t}
              /\ store'[c] = [uri |-> req.uri, token |-> t]
              /\ \A d \in Cells : d # c => store'[d] = store[d]
        BY <2>3 DEF Steals
      <3>2. store'[c].token = t
        BY <3>1
      <3> QED BY <2>1, <3>1, <3>2 DEF Entries
    <2>4. CASE Unlocks \/ Forgets \/ KeepsStore
      <3>1. \A c \in Cells : store'[c] = store[c] \/ store'[c] = NONE
        BY <2>4 DEF Unlocks, Forgets, KeepsStore, RemoveLocks, TypeOK
      <3>2. handled \subseteq handled'
        BY <2>4 DEF Unlocks, Forgets, KeepsStore
      <3> QED BY <2>1, <3>1, <3>2 DEF Entries
    <2> QED BY <1>2, <2>2, <2>3, <2>4, StoreSteps
  <1>3. CASE UNCHANGED vars
    BY <1>3 DEF vars, server, history, Entries
  <1> QED BY <1>1, <1>2, <1>3 DEF Next

\* Where locks go: a lock the server drops is one the program learns about
\* (its UNLOCK, the DELETE of its resource), or is unseen.
LEMMA DropReasons ==
  ASSUME TypeOK, Busy, Serve \/ Environment, NEW t \in Tokens,
         held[t] # NONE, held'[t] = NONE
  PROVE  \/ t \in unseen'
         \/ pc = "sent" /\ req.op = "unlock" /\ t = req.token
         \/ /\ pc = "sent" /\ req.op \in {"delete", "rmcol"}
            /\ pc' = "ok" /\ req' = req /\ held[t].uri = req.uri
  <1> USE LockAssumption DEF TypeOK, Busy
  <1>1. CASE ServeLock
    <2>1. PICK u \in Tokens \ issued :
            held' = [held EXCEPT ![u] = [uri |-> req.uri, deep |-> req.deep,
                                         shared |-> req.shared, own |-> TRUE]]
      BY <1>1 DEF ServeLock
    <2>2. [uri |-> req.uri, deep |-> req.deep, shared |-> req.shared,
           own |-> TRUE] \in Lock
      BY <1>1 DEF ServeLock, Request, Lock
    <2> QED BY <2>1, <2>2
  <1>2. CASE ServeUnlock
    BY <1>2 DEF ServeUnlock
  <1>3. CASE ServeDelete
    <2>1. t \in Rooted(Tree(req.uri))
      BY <1>3 DEF ServeDelete, Drop
    <2>2. CASE held[t].uri = req.uri
      BY <1>3, <2>1, <2>2 DEF ServeDelete, Answer
    <2>3. CASE held[t].uri # req.uri
      BY <1>3, <2>1, <2>3 DEF ServeDelete, Answer, Rooted
    <2> QED BY <2>2, <2>3
  <1>4. CASE ServePartialDelete
    <2>1. PICK rs \in SUBSET (Tree(req.uri) \ {req.uri}) :
            Drop(rs) /\ unseen' = unseen \cup Rooted(rs)
      BY <1>4 DEF ServePartialDelete
    <2> QED BY <2>1 DEF Drop
  <1>5. CASE ServeMove
    BY <1>5 DEF ServeMove, Drop, Answer
  <1>6. CASE ServeDiscover \/ Refuse
    BY <1>6 DEF ServeDiscover, Refuse, server
  <1>7. CASE Environment
    <2>1. ASSUME NEW u \in Tokens, Expire(u) PROVE t \in unseen'
      BY <2>1 DEF Expire
    <2>2. ASSUME NEW r \in Resources, NEW u \in Tokens, OtherLocks(r, u)
          PROVE  FALSE
      <3>1. [uri |-> r, deep |-> FALSE, shared |-> FALSE, own |-> FALSE] \in Lock
        BY DEF Lock
      <3> QED BY <2>2, <3>1 DEF OtherLocks
    <2>3. ASSUME NEW f \in Files, OtherDeletes(f) PROVE FALSE
      BY <2>3 DEF OtherDeletes
    <2> QED BY <1>7, <2>1, <2>2, <2>3 DEF Environment
  <1> QED BY <1>1, <1>2, <1>3, <1>4, <1>5, <1>6, <1>7 DEF Serve

\* Replies only arrive while a request is out; other clients leave it alone.
LEMMA ReplySteps ==
  ASSUME Serve \/ Environment
  PROVE  \/ pc' = pc /\ req' = req
         \/ pc = "sent" /\ pc' \in {"ok", "failed"}
            /\ (req' = req \/ ServeLock)
            /\ (pc' = "ok" /\ req.op \in {"delete", "rmcol"} => ServeDelete)
            /\ (pc' = "ok" /\ req.op = "lock" => ServeLock)
  <1>1. CASE Serve
    BY <1>1 DEF Serve, ServeLock, ServeUnlock, ServeDelete, ServePartialDelete,
                ServeMove, ServeDiscover, Refuse, Answer
  <1>2. CASE Environment
    BY <1>2 DEF Environment, Expire, OtherLocks, OtherDeletes
  <1> QED BY <1>1, <1>2

\* A reply to LOCK names a new lock until it is stored.
LEMMA LockReplyStep ==
  TypeOK /\ Busy /\ Known /\ LockReply /\ [Next]_vars => LockReply'
  <1> SUFFICES ASSUME TypeOK, Busy, Known, LockReply, [Next]_vars,
                      pc' = "ok", req'.op = "lock"
               PROVE  /\ held'[req'.token] # NONE
                            => held'[req'.token].uri = req'.uri
                      /\ held'[req'.token] = NONE => req'.token \in unseen'
                      /\ \A c \in Cells :
                           store'[c] # NONE => store'[c].token # req'.token
    BY DEF LockReply
  <1>1. CASE Serve \/ Environment
    <2>1. store' = store /\ unseen \subseteq unseen'
      BY <1>1, ServerKeeps
    <2>2. CASE pc' = pc /\ req' = req
      <3>1. req.token \in issued /\ req.token \in Tokens
        BY <2>2 DEF Busy, TypeOK
      <3>2. held'[req.token] = NONE /\ held[req.token] # NONE
              => req.token \in unseen'
        BY <1>1, <2>2, <3>1, DropReasons
      <3> QED BY <1>1, <2>1, <2>2, <3>1, <3>2, HeldSteps DEF LockReply
    <2>3. CASE ServeLock
      <3>1. PICK u \in Tokens \ issued :
              /\ held' = [held EXCEPT ![u] = [uri |-> req.uri, deep |-> req.deep,
                                           shared |-> req.shared, own |-> TRUE]]
              /\ req' = [req EXCEPT !.token = u]
        BY <2>3 DEF ServeLock
      <3>2. req \in Request
        BY <2>3 DEF ServeLock, TypeOK, Busy
      <3>3. [uri |-> req.uri, deep |-> req.deep, shared |-> req.shared,
             own |-> TRUE] \in Lock
        BY <3>2 DEF Request, Lock
      <3>4. req'.token = u /\ req'.uri = req.uri
        BY <3>1, <3>2 DEF Request
      <3>5. held'[u].uri = req.uri /\ held'[u] # NONE
        BY <3>1, <3>3, LockAssumption DEF TypeOK
      <3> QED BY <2>1, <3>1, <3>4, <3>5 DEF Known
    <2> QED BY <1>1, <2>2, <2>3, ReplySteps
  <1>2. CASE Commands
    BY <1>2, StoreSteps DEF TakesLock, Steals, Unlocks, Forgets, KeepsStore
  <1>3. CASE UNCHANGED vars
    BY <1>3 DEF vars, server, history, LockReply
  <1> QED BY <1>1, <1>2, <1>3 DEF Next

\* No second UNLOCK for a token taken from the store.
LEMMA UnlockSentStep ==
  TypeOK /\ Busy /\ Entries /\ UnlockSent /\ [Next]_vars => UnlockSent'
  <1> SUFFICES ASSUME TypeOK, Busy, Entries, UnlockSent, [Next]_vars,
                      pc' = "sent", req'.op = "unlock",
                      req'.token \notin handled'
               PROVE  \A c \in Cells :
                        store'[c] # NONE => store'[c].token # req'.token
    BY DEF UnlockSent
  <1>1. CASE Serve \/ Environment
    BY <1>1, ServerKeeps, ReplySteps DEF UnlockSent
  <1>2. CASE Commands
    <2>1. Unlocks
      BY <1>2, StoreSteps DEF TakesLock, Steals, Forgets, KeepsStore
    <2>2. PICK c \in Cells : /\ store[c] # NONE
                             /\ store' = [store EXCEPT ![c] = NONE]
                             /\ req'.token = store[c].token
      BY <2>1 DEF Unlocks
    <2>3. store[c].token \notin handled
      BY <2>1, <2>2 DEF Unlocks
    <2> QED BY <2>2, <2>3 DEF Entries, TypeOK
  <1>3. CASE UNCHANGED vars
    BY <1>3 DEF vars, server, history, UnlockSent
  <1> QED BY <1>1, <1>2, <1>3 DEF Next

\* A successful DELETE leaves none of the user's locks on its resource.
LEMMA DeleteReplyStep ==
  TypeOK /\ Busy /\ Known /\ DeleteReply /\ [Next]_vars => DeleteReply'
  <1> SUFFICES ASSUME TypeOK, Busy, Known, DeleteReply, [Next]_vars,
                      pc' = "ok", req'.op \in {"delete", "rmcol"},
                      NEW t \in mine', held'[t] # NONE
               PROVE  held'[t].uri # req'.uri
    BY DEF DeleteReply
  <1>1. CASE Serve \/ Environment
    <2>1. t \in mine /\ t \in issued /\ t \in Tokens
      BY <1>1, ServerKeeps DEF Known, TypeOK
    <2>2. held'[t] = held[t]
      BY <1>1, <2>1, HeldSteps
    <2>3. CASE pc' = pc /\ req' = req
      BY <2>1, <2>2, <2>3 DEF DeleteReply
    <2>4. CASE ServeDelete
      <3>1. t \notin Rooted(Tree(req.uri)) /\ req' = req
        BY <2>1, <2>4 DEF ServeDelete, Drop
      <3> QED BY <2>1, <2>2, <3>1 DEF Rooted, Tree, Live
    <2>5. ~ServeLock \/ pc' = pc
      <3>1. ASSUME ServeLock PROVE req'.op = "lock"
        <4>1. req \in Request
          BY <3>1 DEF ServeLock, TypeOK, Busy
        <4> QED BY <3>1, <4>1 DEF ServeLock, Request
      <3> QED BY <3>1
    <2> QED BY <1>1, <2>3, <2>4, <2>5, ReplySteps
  <1>2. CASE Commands
    BY <1>2, StoreSteps DEF TakesLock, Steals, Unlocks, Forgets, KeepsStore
  <1>3. CASE UNCHANGED vars
    BY <1>3 DEF vars, server, history, DeleteReply
  <1> QED BY <1>1, <1>2, <1>3 DEF Next

\* The user's live locks keep their entry until an UNLOCK is sent.
LEMMA HomeEntryStep ==
  TypeOK /\ Busy /\ Known /\ LockReply /\ DeleteReply /\ HomeEntry /\ [Next]_vars
    => HomeEntry'
  <1> SUFFICES ASSUME TypeOK, Busy, Known, LockReply, DeleteReply, HomeEntry,
                      [Next]_vars, NEW t \in mine',
                      held'[t] # NONE, t \notin tried'
               PROVE  \E c \in Cells :
                        store'[c] = [uri |-> held'[t].uri, token |-> t]
    BY DEF HomeEntry
  <1>1. CASE Serve \/ Environment
    <2>1. store' = store /\ t \in mine /\ t \notin tried
      BY <1>1, ServerKeeps
    <2>2. t \in issued /\ t \in Tokens
      BY <2>1 DEF Known, TypeOK
    <2>3. held'[t] = held[t]
      BY <1>1, <2>2, HeldSteps
    <2> QED BY <2>1, <2>3 DEF HomeEntry
  <1>2. CASE Commands
    <2>1. held' = held
      BY <1>2, CommandsKeep DEF server
    <2>2. t \notin tried
      BY <1>2, StoreSteps DEF TakesLock, Steals, Unlocks, Forgets, KeepsStore
    <2>3. ASSUME t \in mine
          PROVE  \E c \in Cells : /\ store[c] = [uri |-> held[t].uri, token |-> t]
                                  /\ store[c] # NONE
      <3>1. PICK c \in Cells : store[c] = [uri |-> held[t].uri, token |-> t]
        BY <2>1, <2>2, <2>3 DEF HomeEntry
      <3>2. t \in Tokens /\ held[t].uri \in Resources
        BY <2>1, <2>3 DEF TypeOK, Lock
      <3>3. [uri |-> held[t].uri, token |-> t] \in Entry
        BY <3>2 DEF Entry
      <3> QED BY <3>1, <3>3, LockAssumption
    <2>4. CASE TakesLock
      <3>1. PICK c \in Cells :
              /\ store[c] = NONE
              /\ store'[c] = [uri |-> req.uri, token |-> req.token]
              /\ \A d \in Cells : d # c => store'[d] = store[d]
        BY <2>4 DEF TakesLock
      <3>2. CASE t = req.token
        BY <2>1, <2>4, <3>1, <3>2 DEF TakesLock, LockReply
      <3>3. CASE t \in mine
        BY <2>1, <2>3, <3>1, <3>3
      <3> QED BY <2>4, <3>2, <3>3 DEF TakesLock
    <2>5. CASE Steals
      <3>1. PICK c \in Cells :
              /\ store[c] = NONE
              /\ \A d \in Cells : d # c => store'[d] = store[d]
        BY <2>5 DEF Steals
      <3> QED BY <2>1, <2>3, <2>5, <3>1 DEF Steals
    <2>6. CASE Unlocks
      <3>1. PICK c \in Cells : /\ store' = [store EXCEPT ![c] = NONE]
                               /\ tried' = tried \cup {store[c].token}
        BY <2>6 DEF Unlocks
      <3>2. PICK d \in Cells : store[d] = [uri |-> held[t].uri, token |-> t]
        BY <2>3, <2>6 DEF Unlocks
      <3>3. d # c
        BY <3>1, <3>2
      <3> QED BY <2>1, <3>1, <3>2, <3>3 DEF TypeOK
    <2>7. CASE Forgets
      <3>1. t \in mine /\ RemoveLocks(req.uri)
        BY <2>7 DEF Forgets
      <3>2. held[t].uri # req.uri
        BY <2>1, <2>7, <3>1 DEF Forgets, DeleteReply
      <3>3. PICK c \in Cells : store[c] = [uri |-> held[t].uri, token |-> t]
        BY <2>3, <3>1
      <3>4. c \notin FindByUri(req.uri)
        BY <3>2, <3>3 DEF FindByUri
      <3> QED BY <2>1, <3>1, <3>3, <3>4 DEF RemoveLocks
    <2>8. CASE KeepsStore
      BY <2>1, <2>3, <2>8 DEF KeepsStore
    <2> QED BY <1>2, <2>4, <2>5, <2>6, <2>7, <2>8, StoreSteps
  <1>3. CASE UNCHANGED vars
    BY <1>3 DEF vars, server, history, HomeEntry
  <1> QED BY <1>1, <1>2, <1>3 DEF Next

\* A stored token only dies for one of the reasons.
LEMMA DeadEntryStep ==
  TypeOK /\ Busy /\ Entries /\ LockReply /\ UnlockSent /\ DeadEntry /\ [Next]_vars
    => DeadEntry'
  <1> SUFFICES ASSUME TypeOK, Busy, Entries, LockReply, UnlockSent, DeadEntry,
                      [Next]_vars, NEW c \in Cells, store'[c] # NONE,
                      held'[store'[c].token] = NONE,
                      store'[c].token \notin unseen' \cup handled'
               PROVE  /\ pc' = "ok" /\ req'.op \in {"delete", "rmcol"}
                      /\ store'[c].uri = req'.uri
    BY DEF DeadEntry
  <1>1. CASE Serve \/ Environment
    <2>1. /\ store' = store /\ store[c] # NONE
          /\ store[c].token \notin unseen \cup handled
          /\ store[c].token \notin unseen'
      BY <1>1, ServerKeeps
    <2>2. store[c].token \in Tokens
      BY <2>1 DEF TypeOK, Entry
    <2>3. CASE held[store[c].token] = NONE
      <3>1. /\ pc = "ok" /\ req.op \in {"delete", "rmcol"}
            /\ store[c].uri = req.uri
        BY <2>1, <2>3 DEF DeadEntry
      <3> QED BY <1>1, <2>1, <3>1, ReplySteps
    <2>4. CASE held[store[c].token] # NONE
      <3>1. ~(pc = "sent" /\ req.op = "unlock" /\ store[c].token = req.token)
        BY <2>1 DEF UnlockSent
      <3>2. /\ pc = "sent" /\ req.op \in {"delete", "rmcol"}
            /\ pc' = "ok" /\ req' = req /\ held[store[c].token].uri = req.uri
        BY <1>1, <2>1, <2>2, <2>4, <3>1, DropReasons
      <3> QED BY <2>1, <2>4, <3>2 DEF Entries
    <2> QED BY <2>3, <2>4
  <1>2. CASE Commands
    <2>1. held' = held /\ unseen' = unseen
      BY <1>2, CommandsKeep DEF server
    <2>2. CASE TakesLock
      <3>1. PICK d \in Cells :
              /\ store'[d] = [uri |-> req.uri, token |-> req.token]
              /\ \A e \in Cells : e # d => store'[e] = store[e]
        BY <2>2 DEF TakesLock
      <3>2. c # d
        BY <2>1, <2>2, <3>1 DEF TakesLock, LockReply
      <3> QED BY <2>1, <2>2, <3>1, <3>2 DEF TakesLock, DeadEntry
    <2>3. CASE Steals
      <3>1. PICK t \in found, d \in Cells :
              /\ handled' = handled \cup {t}
              /\ store'[d] = [uri |-> req.uri, token |-> t]
              /\ \A e \in Cells : e # d => store'[e] = store[e]
        BY <2>3 DEF Steals
      <3>2. c # d
        BY <3>1
      <3> QED BY <2>1, <2>3, <3>1, <3>2 DEF Steals, DeadEntry
    <2>4. CASE Unlocks
      <3>1. PICK d \in Cells : store' = [store EXCEPT ![d] = NONE]
        BY <2>4 DEF Unlocks
      <3>2. store'[c] = store[c]
        BY <3>1 DEF TypeOK
      <3> QED BY <2>1, <2>4, <3>2 DEF Unlocks, DeadEntry
    <2>5. CASE Forgets
      <3>1. c \notin FindByUri(req.uri) /\ store'[c] = store[c]
        BY <2>5 DEF Forgets, RemoveLocks
      <3>2. store[c].uri # req.uri
        BY <3>1 DEF FindByUri
      <3> QED BY <2>1, <2>5, <3>1, <3>2 DEF Forgets, DeadEntry
    <2>6. CASE KeepsStore
      BY <2>1, <2>6 DEF KeepsStore, DeadEntry
    <2> QED BY <1>2, <2>2, <2>3, <2>4, <2>5, <2>6, StoreSteps
  <1>3. CASE UNCHANGED vars
    BY <1>3 DEF vars, server, history, DeadEntry
  <1> QED BY <1>1, <1>2, <1>3 DEF Next

---------------------------------------------------------------------------

\* The invariant holds in every reachable state.
LEMMA Invariant == Spec => []IInv
  <1>1. Init => IInv
    <2> SUFFICES ASSUME Init PROVE IInv
      OBVIOUS
    <2>1. TypeOK /\ Busy
      BY DEF Init, TypeOK, Busy
    <2>2. \A c \in Cells : store[c] = NONE
      BY DEF Init
    <2> QED BY <2>1, <2>2 DEF Init, IInv, Known, Entries, LockReply, UnlockSent,
                              DeleteReply, HomeEntry, DeadEntry, Live
  <1>2. IInv /\ [Next]_vars => IInv'
    <2> SUFFICES ASSUME IInv, [Next]_vars PROVE IInv'
      OBVIOUS
    <2>1. TypeOK' /\ Busy'
      <3>1. CASE UNCHANGED vars
        BY <3>1 DEF IInv, TypeOK, Busy, vars, server, history
      <3> QED BY <3>1, ServerType, CommandsType DEF IInv, Next
    <2> QED BY <2>1, KnownStep, EntriesStep, LockReplyStep, UnlockSentStep,
               DeleteReplyStep, HomeEntryStep, DeadEntryStep DEF IInv
  <1> QED BY <1>1, <1>2, PTL DEF Spec

\* Every variable keeps its type: in particular the store only holds entries
\* with a resource and a token the server issued, never a refused lock.
THEOREM TypeCorrect == Spec => []TypeOK
  <1>1. IInv => TypeOK
    BY DEF IInv
  <1> QED BY <1>1, Invariant, PTL

\* A lock the user was told she has stays in the store while the server holds
\* it, until an UNLOCK for it is sent (NEWS:252: a failed delete forgets no
\* lock), for any resources, tokens, faults and other clients.
THEOREM LocksNotForgotten == Spec => []NeverForgets
  <1>1. IInv => NeverForgets
    <2> SUFFICES ASSUME IInv, NEW t \in mine, held[t] # NONE, t \notin tried
                 PROVE  t \in Stored
      BY DEF NeverForgets
    <2>1. PICK c \in Cells : store[c] = [uri |-> held[t].uri, token |-> t]
      BY DEF IInv, HomeEntry
    <2>2. [uri |-> held[t].uri, token |-> t] \in Entry
      BY DEF IInv, TypeOK, Lock, Entry
    <2>3. store[c] # NONE /\ store[c].token = t
      BY <2>1, <2>2, LockAssumption
    <2> QED BY <2>3 DEF Stored
  <1> QED BY <1>1, Invariant, PTL

\* At the prompt a stored token is dead only for a reason the program could
\* not see or does not follow.
THEOREM DeadTokensExplained == Spec => []StaleReasons
  <1>1. IInv => StaleReasons
    BY DEF IInv, DeadEntry, StaleReasons, Stored
  <1> QED BY <1>1, Invariant, PTL
================================================================================
