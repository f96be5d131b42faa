----------------------------- MODULE SessionProofs -----------------------------
(* What CadaverSession guarantees for every set of paths and heap blocks,  *)
(* with or without signals, tolerant or not, for any number of opens.      *)
EXTENDS CadaverSession, TLAPS

Closing == {"destroy", "reset", "disconnect", "freeuri", "freelast"}

\* The fields of struct session at every statement.
ControlInv ==
  /\ connected => path # NULL
  /\ pc \in {"ready", "parse"} => sess # "dangling" /\ dest = NULL
  /\ pc = "ready" => (connected <=> sess = "live") /\ (connected <=> path # NULL)
  /\ pc = "parse" => sess = "null" /\ ~connected /\ path = NULL
  /\ pc \in {"options", "setpath"} =>
       sess = "live" /\ ~connected /\ path # NULL /\ dest = NULL
  /\ pc \in {"cdcheck", "less"} => connected /\ sess = "live"
  /\ pc = "cdcheck" => dest # NULL
  /\ pc = "less" => dest = NULL
  /\ pc \in {"disconnect", "freeuri", "freelast"} => sess = "null"
  /\ pc \in {"freeuri", "freelast"} => ~connected
  /\ pc = "freelast" => path = NULL
  /\ child => pc = "less"
  /\ dest # NULL => pc \in {"cdcheck", "aborted"} \/ interrupted # "none"

\* At most one fatal signal, after which only the handler runs.
SignalInv ==
  /\ interrupted # "none" =>
       /\ pc \in Closing \cup {"exited", "aborted"}
       /\ pc \in Closing => after = "exited"
  /\ sess = "dangling" => pc = "reset" \/ interrupted = "reset"
  /\ doubly => interrupted = "reset"
  /\ interrupted = "none" /\ pc = "exited" =>
       ~connected /\ sess = "null" /\ path = NULL

\* The variables that are not about the heap keep their types.
LEMMA FieldsCorrect == Spec => []FieldsOK
  <1>1. Init => FieldsOK
    BY DEF Init, FieldsOK, Pcs
  <1>2. FieldsOK /\ [Next]_vars => FieldsOK'
    <2> SUFFICES ASSUME FieldsOK, [Next]_vars PROVE FieldsOK'
      OBVIOUS
    <2> USE DEF FieldsOK, Pcs, ptrs, conn, hist
    <2>1. CASE CloseSteps
      BY <2>1 DEF CloseSteps, Destroy, ResetSess, Disconnect, FreeUri, FreeLast,
                  FreeOutcome
    <2>2. CASE OpenSteps
      BY <2>2 DEF OpenSteps, OpenCommand, ParseFails, ParseSucceeds,
                  OptionsReply, SetPathReply, EmptyReply, Fail
    <2>3. CASE Commands
      BY <2>3 DEF Commands, CloseCommand, CdPath, CdDash, CdSucceeds, CdFails,
                  LessStart, LessEnd, FreeOutcome
    <2>4. CASE Quit \/ FatalSignal \/ Stopped
      BY <2>4 DEF Quit, FatalSignal, Stopped, vars
    <2>5. CASE UNCHANGED vars
      BY <2>5 DEF vars
    <2> QED BY <2>1, <2>2, <2>3, <2>4, <2>5 DEF Next
  <1> QED BY <1>1, <1>2, PTL DEF Spec

\* The flags stay Boolean.
LEMMA FlagsCorrect == Spec => []FlagsOK
  <1>1. Init => FlagsOK
    BY DEF Init, FlagsOK
  <1>2. FlagsOK /\ [Next]_vars => FlagsOK'
    <2> SUFFICES ASSUME FlagsOK, [Next]_vars PROVE FlagsOK'
      OBVIOUS
    <2> USE DEF FlagsOK, ptrs, conn, hist
    <2>1. CASE Destroy
      BY <2>1 DEF Destroy
    <2>2. CASE ResetSess
      BY <2>2 DEF ResetSess
    <2>3. CASE Disconnect
      BY <2>3 DEF Disconnect
    <2>4. CASE FreeUri
      BY <2>4 DEF FreeUri, FreeOutcome
    <2>5. CASE FreeLast
      BY <2>5 DEF FreeLast, FreeOutcome
    <2>6. CASE OpenCommand
      BY <2>6 DEF OpenCommand
    <2>7. CASE ParseFails
      BY <2>7 DEF ParseFails, Fail
    <2>8. CASE ParseSucceeds
      BY <2>8 DEF ParseSucceeds, Fail
    <2>9. CASE OptionsReply
      BY <2>9 DEF OptionsReply, Fail
    <2>10. CASE SetPathReply
      BY <2>10 DEF SetPathReply, Fail
    <2>11. CASE EmptyReply
      BY <2>11 DEF EmptyReply
    <2>12. CASE CloseCommand
      BY <2>12 DEF CloseCommand
    <2>13. CASE CdPath
      BY <2>13 DEF CdPath
    <2>14. CASE CdDash
      BY <2>14 DEF CdDash
    <2>15. CASE CdSucceeds
      BY <2>15 DEF CdSucceeds, FreeOutcome
    <2>16. CASE CdFails
      BY <2>16 DEF CdFails, FreeOutcome
    <2>17. CASE LessStart
      BY <2>17 DEF LessStart
    <2>18. CASE LessEnd
      BY <2>18 DEF LessEnd
    <2>19. CASE Quit
      BY <2>19 DEF Quit
    <2>20. CASE FatalSignal
      BY <2>20 DEF FatalSignal
    <2>21. CASE Stopped
      BY <2>21 DEF Stopped, vars
    <2>22. CASE UNCHANGED vars
      BY <2>22 DEF vars
    <2> QED BY <2>1, <2>2, <2>3, <2>4, <2>5, <2>6, <2>7, <2>8, <2>9, <2>10, <2>11,
               <2>12, <2>13, <2>14, <2>15, <2>16, <2>17, <2>18, <2>19, <2>20, <2>21, <2>22
            DEF Next, CloseSteps, OpenSteps, Commands
  <1> QED BY <1>1, <1>2, PTL DEF Spec

\* The two invariants above are inductive.
LEMMA ControlInvariant == Spec => [](ControlInv /\ SignalInv)
  <1>1. Init => ControlInv /\ SignalInv
    BY DEF Init, ControlInv, SignalInv
  <1>2. FieldsOK /\ FlagsOK /\ ControlInv /\ SignalInv /\ [Next]_vars
          => ControlInv' /\ SignalInv'
    <2> SUFFICES ASSUME FieldsOK, FlagsOK, ControlInv, SignalInv, [Next]_vars
                 PROVE ControlInv' /\ SignalInv'
      OBVIOUS
    <2> USE SessionAssumption
        DEF FieldsOK, FlagsOK, Pcs, ControlInv, SignalInv, Closing, ptrs, conn, hist
    <2>1. CASE CloseSteps
      BY <2>1 DEF CloseSteps, Destroy, ResetSess, Disconnect, FreeUri, FreeLast,
                  FreeOutcome
    <2>2. CASE OpenSteps
      BY <2>2 DEF OpenSteps, OpenCommand, ParseFails, ParseSucceeds,
                  OptionsReply, SetPathReply, EmptyReply, Fail
    <2>3. CASE Commands
      <3>1. CASE CdSucceeds
        BY <3>1 DEF CdSucceeds, FreeOutcome
      <3> QED BY <2>3, <3>1 DEF Commands, CloseCommand, CdPath, CdDash, CdFails,
                                LessStart, LessEnd, FreeOutcome
    <2>4. CASE Quit \/ FatalSignal \/ Stopped
      BY <2>4 DEF Quit, FatalSignal, Stopped, vars
    <2>5. CASE UNCHANGED vars
      BY <2>5 DEF vars
    <2> QED BY <2>1, <2>2, <2>3, <2>4, <2>5 DEF Next
  <1> QED BY <1>1, <1>2, FieldsCorrect, FlagsCorrect, PTL DEF Spec

\* Blocks only ever hold paths of the server.
LEMMA HeapCorrect == Spec => []HeapOK
  <1>1. Init => HeapOK
    BY DEF Init, HeapOK
  <1>2. FieldsOK /\ FlagsOK /\ ControlInv /\ HeapOK /\ [Next]_vars => HeapOK'
    <2> SUFFICES ASSUME FieldsOK, FlagsOK, ControlInv, HeapOK, [Next]_vars PROVE HeapOK'
      OBVIOUS
    <2> USE DEF HeapOK, ptrs, conn, hist
    <2>0. pc = "cdcheck" => path \in Blocks
      BY DEF FieldsOK, FlagsOK, ControlInv
    <2>1. CASE CloseSteps
      BY <2>1 DEF CloseSteps, Destroy, ResetSess, Disconnect, FreeUri, FreeLast,
                  Freed
    <2>2. CASE OpenSteps
      BY <2>2 DEF OpenSteps, OpenCommand, ParseFails, ParseSucceeds,
                  OptionsReply, SetPathReply, EmptyReply, Fail
    <2>3. CASE Commands
      BY <2>0, <2>3 DEF Commands, CloseCommand, CdPath, CdDash, CdSucceeds, CdFails,
                  LessStart, LessEnd, Freed
    <2>4. CASE Quit \/ FatalSignal \/ Stopped
      BY <2>4 DEF Quit, FatalSignal, Stopped, vars
    <2>5. CASE UNCHANGED vars
      BY <2>5 DEF vars
    <2> QED BY <2>1, <2>2, <2>3, <2>4, <2>5 DEF Next
  <1> QED BY <1>1, <1>2, FieldsCorrect, FlagsCorrect, ControlInvariant, PTL DEF Spec

\* TypeOK: each variable keeps its type whatever the commands and replies.
THEOREM TypeCorrect == Spec => []TypeOK
  <1>1. Init => opens \in 0 .. MaxOpens
    BY BoundAssumption DEF Init
  <1>2. opens \in 0 .. MaxOpens /\ [Next]_vars => (opens \in 0 .. MaxOpens)'
    <2>1. [Next]_vars => opens' = opens \/ (opens < MaxOpens /\ opens' = opens + 1)
      BY DEF vars, Next, CloseSteps, Destroy, ResetSess, Disconnect, FreeUri,
             FreeLast, OpenSteps, OpenCommand, ParseFails, ParseSucceeds,
             OptionsReply, SetPathReply, EmptyReply, Commands, CloseCommand,
             CdPath, CdDash, CdSucceeds, CdFails, LessStart, LessEnd, Quit,
             FatalSignal, Stopped
    <2> QED BY <2>1, BoundAssumption
  <1>3. FieldsOK /\ FlagsOK /\ HeapOK /\ opens \in 0 .. MaxOpens => TypeOK
    BY DEF TypeOK
  <1> QED BY <1>1, <1>2, <1>3, FieldsCorrect, FlagsCorrect, HeapCorrect, PTL DEF Spec

\* Whatever fails, the prompt only returns with the session fully open or
\* fully closed.
THEOREM PromptConsistent == Spec => []ReadyConsistent
  <1>1. ControlInv /\ SignalInv => ReadyConsistent
    BY DEF ControlInv, SignalInv, ReadyConsistent
  <1> QED BY <1>1, ControlInvariant, PTL

\* No request is made on a missing or destroyed session.
THEOREM RequestsOnLiveSession == Spec => []RequestsLive
  <1>1. ControlInv => RequestsLive
    BY DEF ControlInv, RequestsLive
  <1> QED BY <1>1, ControlInvariant, PTL

\* One signal window is the only way to destroy a session twice.
THEOREM SessionDestroyedOnce == Spec => []DestroyedOnce
  <1>1. SignalInv => DestroyedOnce
    BY DEF SignalInv, DestroyedOnce
  <1> QED BY <1>1, ControlInvariant, PTL

\* quit and end of input close the connection.
THEOREM OrderlyExit == Spec => []ExitClosed
  <1>1. SignalInv => ExitClosed
    BY DEF SignalInv, ExitClosed
  <1> QED BY <1>1, ControlInvariant, PTL

\* The four together: the session record can be trusted at the prompt, by every
\* request, by close_connection and at the exit, whatever fails and whenever a
\* signal arrives.
THEOREM SessionIsSound == Spec => []SessionSound
  <1>1. ReadyConsistent /\ RequestsLive /\ DestroyedOnce /\ ExitClosed => SessionSound
    BY DEF SessionSound
  <1> QED BY <1>1, PromptConsistent, RequestsOnLiveSession, SessionDestroyedOnce,
             OrderlyExit, PTL

\* Path blocks have one owner each as long as no close left lastwp dangling.
THEOREM PathsOwnedOnce == Spec => []OwnedOnce
  <1>1. Init => OwnedOnce
    BY SessionAssumption DEF Init, OwnedOnce, Owned
  <1>2. FieldsOK /\ FlagsOK /\ HeapOK /\ ControlInv /\ SignalInv /\ OwnedOnce /\ [Next]_vars
          => OwnedOnce'
    <2> SUFFICES ASSUME FieldsOK, FlagsOK, HeapOK, ControlInv, SignalInv, OwnedOnce,
                        [Next]_vars
                 PROVE OwnedOnce'
      OBVIOUS
    <2> USE SessionAssumption
        DEF FieldsOK, FlagsOK, HeapOK, ControlInv, SignalInv, Closing, OwnedOnce, Owned, ptrs, conn,
            hist
    <2>1. CASE Destroy \/ ResetSess \/ Disconnect
      BY <2>1 DEF Destroy, ResetSess, Disconnect
    <2>2. CASE FreeUri
      BY <2>2 DEF FreeUri, Freed
    <2>3. CASE FreeLast
      BY <2>3 DEF FreeLast, Freed
    <2>4. CASE ParseFails \/ ParseSucceeds
      BY <2>4 DEF ParseFails, ParseSucceeds
    <2>5. CASE OpenCommand \/ OptionsReply \/ SetPathReply \/ EmptyReply
      BY <2>5 DEF OpenCommand, OptionsReply, SetPathReply, EmptyReply
    <2>6. CASE CdPath
      BY <2>6 DEF CdPath
    <2>7. CASE CdDash
      BY <2>7 DEF CdDash
    <2>8. CASE CdSucceeds
      <3>0. /\ path' = dest /\ lastwp' = path /\ dest' = NULL /\ dash' = FALSE
            /\ stale' = stale
            /\ dash => heap' = heap
            /\ ~dash => heap' = Freed(heap, lastwp)
        BY <2>8 DEF CdSucceeds
      <3>1. dest # NULL /\ path # NULL
        BY <2>8 DEF CdSucceeds
      <3>2. CASE dash
        BY <3>0, <3>1, <3>2
      <3>3. CASE ~dash /\ lastwp = NULL
        BY <3>0, <3>1, <3>3 DEF Freed
      <3>4. CASE ~dash /\ lastwp # NULL
        BY <3>0, <3>1, <3>4 DEF Freed
      <3> QED BY <3>2, <3>3, <3>4
    <2>9. CASE CdFails
      BY <2>9 DEF CdFails, Freed
    <2>10. CASE CloseCommand \/ LessStart \/ LessEnd
      BY <2>10 DEF CloseCommand, LessStart, LessEnd
    <2>11. CASE Quit \/ FatalSignal \/ Stopped
      BY <2>11 DEF Quit, FatalSignal, Stopped, vars
    <2>12. CASE UNCHANGED vars
      BY <2>12 DEF vars
    <2> QED BY <2>1, <2>2, <2>3, <2>4, <2>5, <2>6, <2>7, <2>8, <2>9, <2>10,
               <2>11, <2>12 DEF Next, CloseSteps, OpenSteps, Commands
  <1> QED BY <1>1, <1>2, FieldsCorrect, FlagsCorrect, HeapCorrect, ControlInvariant, PTL DEF Spec

\* Without a close that left lastwp dangling, lastwp is only set while
\* connected, until close_connection reaches its last statements.
PreviousForgotten ==
  ~stale /\ ~connected /\ pc \notin {"freeuri", "freelast", "exited", "aborted"}
    => lastwp = NULL

\* A new connection starts without a previous collection.
LEMMA PreviousIsForgotten == Spec => []PreviousForgotten
  <1>1. Init => PreviousForgotten
    BY DEF Init, PreviousForgotten
  <1>2. FieldsOK /\ FlagsOK /\ ControlInv /\ PreviousForgotten /\ [Next]_vars
          => PreviousForgotten'
    <2> SUFFICES ASSUME FieldsOK, FlagsOK, ControlInv, PreviousForgotten, [Next]_vars
                 PROVE PreviousForgotten'
      OBVIOUS
    <2> USE DEF FieldsOK, FlagsOK, ControlInv, PreviousForgotten, ptrs, conn, hist
    <2>1. CASE CloseSteps
      BY <2>1 DEF CloseSteps, Destroy, ResetSess, Disconnect, FreeUri, FreeLast,
                  FreeOutcome
    <2>2. CASE OpenSteps
      BY <2>2 DEF OpenSteps, OpenCommand, ParseFails, ParseSucceeds,
                  OptionsReply, SetPathReply, EmptyReply, Fail
    <2>3. CASE Commands
      BY <2>3 DEF Commands, CloseCommand, CdPath, CdDash, CdSucceeds, CdFails,
                  LessStart, LessEnd
    <2>4. CASE Quit \/ FatalSignal \/ Stopped \/ UNCHANGED vars
      BY <2>4 DEF Quit, FatalSignal, Stopped, vars
    <2> QED BY <2>1, <2>2, <2>3, <2>4 DEF Next
  <1> QED BY <1>1, <1>2, FieldsCorrect, FlagsCorrect, ControlInvariant, PTL DEF Spec

\* A set pointer of the session points to a path, unless lastwp may dangle.
LEMMA PointersHoldPaths ==
  ASSUME FieldsOK, HeapOK, OwnedOnce, ~stale
  PROVE  /\ path # NULL => path \in Blocks /\ heap[path] \in Paths
         /\ lastwp # NULL => lastwp \in Blocks /\ heap[lastwp] \in Paths
         /\ dest # NULL => dest \in Blocks /\ heap[dest] \in Paths
  <1>1. \A b \in Blocks : heap[b] # FREE <=> Owned(b)
    BY DEF OwnedOnce
  <1>2. dest # NULL /\ dash => dest = lastwp
    BY DEF OwnedOnce
  <1> QED BY <1>1, <1>2, SessionAssumption DEF FieldsOK, HeapOK, Owned

\* What the user sees changes only by a move of Navigation, step by step.
LEMMA StepNavigates ==
  ASSUME FieldsOK, FlagsOK, HeapOK, ControlInv, OwnedOnce, PreviousForgotten,
         [Next]_vars
  PROVE  [Nav!Next]_(Nav!vars)
  <1> DEFINE Same == Here' = Here /\ Previous' = Previous
  <1>0. Same => [Nav!Next]_(Nav!vars)
    BY DEF Nav!vars
  <1>1. connected => path # NULL
    BY DEF ControlInv
  <1>2. stale \/ ~connected => Here = NULL /\ Previous = NULL
    BY DEF Here, Previous
  <1>3. ~connected /\ ~connected' => Same
    BY DEF Here, Previous
  <1>4. stale /\ stale' => Same
    BY DEF Here, Previous
  <1>5. /\ connected' = connected /\ stale' = stale
        /\ path' = path /\ lastwp' = lastwp /\ heap' = heap
        => Same
    BY DEF Here, Previous
  <1>6. CASE CloseSteps
    <2>1. CASE Destroy \/ ResetSess
      BY <2>1, <1>0, <1>5 DEF Destroy, ResetSess, ptrs, hist
    <2>2. CASE Disconnect
      <3>1. ~connected'
        BY <2>2 DEF Disconnect
      <3>2. Nav!Close
        BY <3>1 DEF Nav!Close, Here, Previous
      <3> QED BY <3>2 DEF Nav!Next
    <2>3. CASE FreeUri \/ FreeLast
      BY <2>3, <1>0, <1>3 DEF FreeUri, FreeLast, ControlInv, conn
    <2> QED BY <1>6, <2>1, <2>2, <2>3 DEF CloseSteps
  <1>7. CASE OpenSteps
    <2>1. CASE OpenCommand \/ OptionsReply \/ EmptyReply
      BY <2>1, <1>0, <1>5 DEF OpenCommand, OptionsReply, EmptyReply, ptrs, conn, hist
    <2>2. CASE ParseFails \/ ParseSucceeds
      BY <2>2, <1>0, <1>3 DEF ParseFails, ParseSucceeds, ControlInv, conn
    <2>3. CASE SetPathReply
      <3>1. /\ ~connected /\ path # NULL /\ UNCHANGED ptrs /\ UNCHANGED hist
            /\ pc = "setpath"
        BY <2>3 DEF SetPathReply, ControlInv
      <3>2. CASE connected' = TRUE /\ ~stale
        <4>1. lastwp = NULL
          BY <3>1, <3>2 DEF PreviousForgotten
        <4>2. Here' = heap[path] /\ Previous' = NULL
          BY <3>1, <3>2, <4>1 DEF Here, Previous, ptrs, hist
        <4>3. heap[path] \in Paths
          BY <3>1, <3>2, PointersHoldPaths
        <4>4. Nav!Open
          BY <3>1, <1>2, <4>2, <4>3 DEF Nav!Open
        <4> QED BY <4>4 DEF Nav!Next
      <3>3. CASE stale
        BY <3>1, <3>3, <1>0, <1>4 DEF hist
      <3>4. CASE UNCHANGED connected
        BY <3>1, <3>4, <1>0, <1>3
      <3> QED BY <2>3, <3>2, <3>3, <3>4 DEF SetPathReply
    <2> QED BY <1>7, <2>1, <2>2, <2>3 DEF OpenSteps
  <1>8. CASE Commands
    <2>1. CASE CloseCommand \/ CdDash \/ LessStart \/ LessEnd
      BY <2>1, <1>0, <1>5 DEF CloseCommand, CdDash, LessStart, LessEnd, ptrs, conn, hist
    <2>2. CASE stale
      <3>1. stale' = stale
        BY <1>8 DEF Commands, CloseCommand, CdPath, CdDash, CdSucceeds, CdFails,
                    LessStart, LessEnd, hist
      <3> QED BY <2>2, <3>1, <1>0, <1>4
    <2>3. CASE CdPath /\ ~stale
      <3>1. PICK b \in Blocks, p \in Paths :
              heap[b] = FREE /\ heap' = [heap EXCEPT ![b] = p]
        BY <2>3 DEF CdPath
      <3>2. path # b /\ lastwp # b
        BY <2>3, <3>1, PointersHoldPaths, SessionAssumption
      <3>3. /\ path \in Blocks => heap'[path] = heap[path]
            /\ lastwp \in Blocks => heap'[lastwp] = heap[lastwp]
        BY <3>1, <3>2 DEF HeapOK
      <3>4. connected => path \in Blocks
        BY <1>1 DEF FieldsOK
      <3>5. UNCHANGED <<connected, path, lastwp, stale>>
        BY <2>3 DEF CdPath, conn, hist
      <3>6. Same
        BY <3>3, <3>4, <3>5 DEF Here, Previous, FieldsOK
      <3> QED BY <3>6, <1>0
    <2>4. CASE CdSucceeds /\ ~stale
      <3>1. /\ connected /\ dest # NULL /\ UNCHANGED <<connected, stale>>
            /\ lastwp' = path /\ path' = dest
            /\ dash => heap' = heap
            /\ ~dash => heap' = Freed(heap, lastwp)
        BY <2>4 DEF CdSucceeds, ControlInv, conn, hist
      <3>2. /\ path \in Blocks /\ heap[path] \in Paths
            /\ dest \in Blocks /\ heap[dest] \in Paths
            /\ path # lastwp /\ (dash <=> dest = lastwp)
        BY <2>4, <3>1, <1>1, PointersHoldPaths DEF OwnedOnce
      <3>3. heap'[path] = heap[path] /\ heap'[dest] = heap[dest]
        BY <3>1, <3>2 DEF Freed, HeapOK, FieldsOK
      <3>4. Here = heap[path] /\ Here' = heap[dest] /\ Previous' = heap[path]
        <4>1. path # NULL /\ ~stale' /\ connected'
          BY <2>4, <3>1, <1>1
        <4> QED BY <2>4, <3>1, <3>3, <4>1 DEF Here, Previous
      <3>5. CASE dash
        <4>1. Previous = heap[dest]
          BY <2>4, <3>1, <3>2, <3>5 DEF Previous
        <4>2. Nav!CdDash
          BY <3>2, <3>4, <4>1, SessionAssumption DEF Nav!CdDash
        <4> QED BY <4>2 DEF Nav!Next
      <3>6. CASE ~dash
        <4>1. Nav!Cd
          BY <3>2, <3>4, SessionAssumption DEF Nav!Cd
        <4> QED BY <4>1 DEF Nav!Next
      <3> QED BY <3>5, <3>6
    <2>5. CASE CdFails /\ ~stale
      <3>1. /\ dest # NULL /\ UNCHANGED <<connected, stale, path, lastwp>>
            /\ dash => heap' = heap
            /\ ~dash => heap' = Freed(heap, dest)
        BY <2>5 DEF CdFails, ControlInv, conn, hist
      <3>2. dest # path /\ (dash <=> dest = lastwp)
        BY <2>5, <3>1 DEF OwnedOnce
      <3>3. /\ path \in Blocks => heap'[path] = heap[path]
            /\ lastwp \in Blocks => heap'[lastwp] = heap[lastwp]
        BY <3>1, <3>2 DEF Freed, HeapOK
      <3>4. Same
        BY <3>1, <3>3, <1>1 DEF Here, Previous, FieldsOK
      <3> QED BY <3>4, <1>0
    <2> QED BY <1>8, <2>1, <2>2, <2>3, <2>4, <2>5 DEF Commands
  <1>9. CASE Quit \/ FatalSignal \/ Stopped \/ UNCHANGED vars
    BY <1>9, <1>0, <1>5 DEF Quit, FatalSignal, Stopped, vars, ptrs, conn, hist
  <1> QED BY <1>6, <1>7, <1>8, <1>9 DEF Next

\* ImplementsNavigation: as long as no close left lastwp dangling, what the
\* user sees as current and previous collection moves as Navigation says,
\* through every open, cd, cd -, close, failure and signal.
THEOREM SessionNavigates == Spec => ImplementsNavigation
  <1>1. Init => Nav!Init
    BY DEF Init, Nav!Init, Here, Previous
  <1>2. FieldsOK /\ FlagsOK /\ HeapOK /\ ControlInv /\ OwnedOnce
          /\ PreviousForgotten /\ [Next]_vars => [Nav!Next]_(Nav!vars)
    BY StepNavigates
  <1> QED BY <1>1, <1>2, FieldsCorrect, FlagsCorrect, HeapCorrect,
             ControlInvariant, PathsOwnedOnce, PreviousIsForgotten, PTL
          DEF Spec, ImplementsNavigation, Nav!Spec
================================================================================
