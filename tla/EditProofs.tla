------------------------------- MODULE EditProofs -------------------------------
(***************************************************************************)
(* Theorems about EditCommand: with or without locks, ETags, faults and    *)
(* signals, for any number of versions.                                    *)
(***************************************************************************)
EXTENDS EditCommand, TLAPS

\* The lock edit took is in the store from the LOCK to the UNLOCK.
LockInv ==
  /\ holder = "user" => listed \/ orphan
  /\ pc \in {"prompt", "mktemp", "lock"} /\ canlock => ~listed

\* A resource edit checked out is checked in again.
CheckoutInv ==
  /\ pc \in {"mktemp", "lock", "checkout"} => ~checkedout
  /\ pc \in {"unlock", "prompt"} /\ checkedout /\ vcr = "out"
       => "checkin" \in failed

\* Nobody changes a locked resource after the download.
DownloadInv ==
  /\ pc \in {"mktemp", "lock", "checkout", "get"} => known = 0
  /\ pc \in {"close", "editor", "compare", "upload", "ask"} /\ holder = "user"
       /\ known # 0 => version \in {known, ours}

\* The temporary file exists from mkstemp to unlink.
TempInv ==
  /\ pc = "mktemp" => ~temp
  /\ pc \in {"checkin", "unlock", "prompt"} /\ temp
       => failed \cap {"chmod", "lock", "unlink"} # {}

\* Changed text is uploaded, or something is to blame.
WorkInv ==
  /\ pc \in {"mktemp", "lock", "checkout", "get", "close"} => file # "edited"
  /\ pc = "ask" => "put" \in failed
  /\ pc \in {"unlink", "checkin", "unlock", "prompt"} /\ file = "edited"
       /\ ours = 0 => failed \cap {"put", "reopen", "same second"} # {}

---------------------------------------------------------------------------

\* The flags stay Boolean.
LEMMA FlagsStep == FlagsOK /\ [Next]_vars => FlagsOK'
  <1> SUFFICES ASSUME FlagsOK, [Next]_vars PROVE FlagsOK'
    OBVIOUS
  <1> USE EditAssumption DEF FlagsOK, local, server, hist
  <1>1. CASE BeforeEditor
    BY <1>1 DEF BeforeEditor, EditStart, TempFails, TempMade, Granted,
                LockGranted, LockFails, Checkout, GetReply, CloseFile
  <1>2. CASE Editing \/ TryAgain \/ GiveUp \/ Save
    BY <1>2 DEF Editing, EditorExits, CompareTimes, PutSucceeds, PutFails,
                PutApplied, TryAgain, GiveUp, Save
  <1>3. CASE AfterUpload
    BY <1>3 DEF AfterUpload, Unlink, Checkin, Unlock
  <1>4. CASE Environment
    BY <1>4 DEF Environment, NextSecond, OtherChanges, OtherLocks, LockExpires
  <1>5. CASE FatalSignal \/ Quit \/ Stopped \/ UNCHANGED vars
    BY <1>5 DEF FatalSignal, Quit, Stopped, vars
  <1> QED BY <1>1, <1>2, <1>3, <1>4, <1>5 DEF Next, Program

\* The fields keep their types.
LEMMA FieldsStep == FieldsOK /\ [Next]_vars => FieldsOK'
  <1> SUFFICES ASSUME FieldsOK, [Next]_vars PROVE FieldsOK'
    OBVIOUS
  <1> USE EditAssumption
      DEF FieldsOK, local, server, hist, Goto, Failing, Pcs, Steps
  <1>1. CASE BeforeEditor
    <2>1. CASE EditStart
      BY <2>1 DEF EditStart
    <2>2. CASE TempFails \/ TempMade
      BY <2>2 DEF TempFails, TempMade
    <2>3. CASE LockGranted
      BY <2>3 DEF LockGranted, Granted
    <2>4. CASE LockFails
      BY <2>4 DEF LockFails, Granted
    <2>5. CASE Checkout
      BY <2>5 DEF Checkout
    <2>6. CASE GetReply
      BY <2>6 DEF GetReply
    <2>7. CASE CloseFile
      BY <2>7 DEF CloseFile
    <2> QED BY <1>1, <2>1, <2>2, <2>3, <2>4, <2>5, <2>6, <2>7 DEF BeforeEditor
  <1>2. CASE Editing \/ TryAgain \/ GiveUp \/ Save
    <2>1. CASE EditorExits \/ TryAgain \/ GiveUp
      BY <2>1 DEF EditorExits, TryAgain, GiveUp
    <2>2. CASE CompareTimes
      BY <2>2 DEF CompareTimes
    <2>3. CASE PutSucceeds
      BY <2>3 DEF PutSucceeds
    <2>4. CASE PutFails
      BY <2>4 DEF PutFails
    <2>5. CASE Save
      BY <2>5 DEF Save
    <2> QED BY <1>2, <2>1, <2>2, <2>3, <2>4, <2>5 DEF Editing
  <1>3. CASE AfterUpload
    BY <1>3 DEF AfterUpload, Unlink, Checkin, Unlock
  <1>4. CASE Environment
    BY <1>4 DEF Environment, NextSecond, OtherChanges, OtherLocks, LockExpires
  <1>5. CASE FatalSignal \/ Quit \/ Stopped \/ UNCHANGED vars
    BY <1>5 DEF FatalSignal, Quit, Stopped, vars
  <1> QED BY <1>1, <1>2, <1>3, <1>4, <1>5 DEF Next, Program

\* Versions only grow, and the ones remembered are past or present ones.
LEMMA VersionsStep == VersionsOK /\ [Next]_vars => VersionsOK'
  <1> SUFFICES ASSUME VersionsOK, [Next]_vars PROVE VersionsOK'
    OBVIOUS
  <1> USE EditAssumption DEF VersionsOK, local, server, hist, Room
  <1>1. CASE BeforeEditor
    <2>1. CASE LockGranted
      BY <2>1 DEF LockGranted, Granted
    <2>2. CASE LockFails
      BY <2>2 DEF LockFails, Granted
    <2>3. CASE EditStart \/ TempFails \/ TempMade \/ Checkout \/ CloseFile
      BY <2>3 DEF EditStart, TempFails, TempMade, Checkout, CloseFile
    <2>4. CASE GetReply
      BY <2>4 DEF GetReply
    <2> QED BY <1>1, <2>1, <2>2, <2>3, <2>4 DEF BeforeEditor
  <1>2. CASE Editing \/ TryAgain \/ GiveUp \/ Save
    <2>1. CASE EditorExits \/ CompareTimes \/ TryAgain \/ GiveUp \/ Save
      BY <2>1 DEF EditorExits, CompareTimes, TryAgain, GiveUp, Save
    <2>2. CASE PutSucceeds
      BY <2>2 DEF PutSucceeds, PutApplied
    <2>3. CASE PutFails
      BY <2>3 DEF PutFails, PutApplied
    <2> QED BY <1>2, <2>1, <2>2, <2>3 DEF Editing
  <1>3. CASE AfterUpload
    BY <1>3 DEF AfterUpload, Unlink, Checkin, Unlock
  <1>4. CASE Environment
    BY <1>4 DEF Environment, NextSecond, OtherChanges, OtherLocks, LockExpires
  <1>5. CASE FatalSignal \/ Quit \/ Stopped \/ UNCHANGED vars
    BY <1>5 DEF FatalSignal, Quit, Stopped, vars
  <1> QED BY <1>1, <1>2, <1>3, <1>4, <1>5 DEF Next, Program

\* Every variable keeps its type; in particular no version remembered by edit
\* is newer than the resource, whatever PUTs, lost replies and other clients do.
THEOREM TypeCorrect == Spec => []TypeOK
  <1>1. Init => TypeOK
    <2>1. Init => FlagsOK
      BY EditAssumption DEF Init, FlagsOK
    <2>2. Init => FieldsOK
      BY DEF Init, FieldsOK, Pcs, Steps
    <2>3. Init => VersionsOK
      BY EditAssumption DEF Init, VersionsOK
    <2> QED BY <2>1, <2>2, <2>3 DEF TypeOK
  <1>2. TypeOK /\ [Next]_vars => TypeOK'
    BY FlagsStep, FieldsStep, VersionsStep DEF TypeOK
  <1> QED BY <1>1, <1>2, PTL DEF Spec

---------------------------------------------------------------------------

LEMMA LockStep == FlagsOK /\ LockInv /\ [Next]_vars => LockInv'
  <1> SUFFICES ASSUME FlagsOK, LockInv, [Next]_vars PROVE LockInv'
    OBVIOUS
  <1> USE EditAssumption DEF FlagsOK, LockInv, local, server, hist, Goto
  <1>1. CASE BeforeEditor
    <2>1. CASE EditStart
      BY <2>1 DEF EditStart
    <2>2. CASE LockGranted
      BY <2>2 DEF LockGranted, Granted
    <2>3. CASE LockFails
      BY <2>3 DEF LockFails, Granted
    <2>4. CASE TempFails \/ TempMade \/ Checkout \/ GetReply \/ CloseFile
      BY <2>4 DEF TempFails, TempMade, Checkout, GetReply, CloseFile
    <2> QED BY <1>1, <2>1, <2>2, <2>3, <2>4 DEF BeforeEditor
  <1>2. CASE Editing \/ TryAgain \/ GiveUp \/ Save
    BY <1>2 DEF Editing, EditorExits, CompareTimes, PutSucceeds, PutFails,
                PutApplied, TryAgain, GiveUp, Save
  <1>3. CASE AfterUpload
    BY <1>3 DEF AfterUpload, Unlink, Checkin, Unlock
  <1>4. CASE Environment
    BY <1>4 DEF Environment, NextSecond, OtherChanges, OtherLocks, LockExpires
  <1>5. CASE FatalSignal \/ Quit \/ Stopped \/ UNCHANGED vars
    BY <1>5 DEF FatalSignal, Quit, Stopped, vars
  <1> QED BY <1>1, <1>2, <1>3, <1>4, <1>5 DEF Next, Program

LEMMA CheckoutStep == CheckoutInv /\ [Next]_vars => CheckoutInv'
  <1> SUFFICES ASSUME CheckoutInv, [Next]_vars PROVE CheckoutInv'
    OBVIOUS
  <1> USE DEF CheckoutInv, local, server, hist, Goto, Failing
  <1>1. CASE BeforeEditor
    BY <1>1 DEF BeforeEditor, EditStart, TempFails, TempMade, Granted,
                LockGranted, LockFails, Checkout, GetReply, CloseFile
  <1>2. CASE Editing \/ TryAgain \/ GiveUp \/ Save
    BY <1>2 DEF Editing, EditorExits, CompareTimes, PutSucceeds, PutFails,
                PutApplied, TryAgain, GiveUp, Save
  <1>3. CASE AfterUpload
    BY <1>3 DEF AfterUpload, Unlink, Checkin, Unlock
  <1>4. CASE Environment
    BY <1>4 DEF Environment, NextSecond, OtherChanges, OtherLocks, LockExpires
  <1>5. CASE FatalSignal \/ Quit \/ Stopped \/ UNCHANGED vars
    BY <1>5 DEF FatalSignal, Quit, Stopped, vars
  <1> QED BY <1>1, <1>2, <1>3, <1>4, <1>5 DEF Next, Program

LEMMA DownloadStep == DownloadInv /\ [Next]_vars => DownloadInv'
  <1> SUFFICES ASSUME DownloadInv, [Next]_vars PROVE DownloadInv'
    OBVIOUS
  <1> USE DEF DownloadInv, local, server, hist, Goto
  <1>1. CASE BeforeEditor
    <2>1. CASE GetReply
      BY <2>1 DEF GetReply
    <2>2. CASE CloseFile
      BY <2>2 DEF CloseFile
    <2>3. CASE EditStart \/ TempFails \/ TempMade \/ LockGranted \/ LockFails
               \/ Checkout
      <3>1. /\ pc' \in {"prompt", "mktemp", "lock", "checkout", "get"}
            /\ pc' # "prompt" => known' = 0
        BY <2>3 DEF EditStart, TempFails, TempMade, LockGranted, LockFails,
                    Checkout
      <3> QED BY <3>1
    <2> QED BY <1>1, <2>1, <2>2, <2>3 DEF BeforeEditor
  <1>2. CASE Editing \/ TryAgain \/ GiveUp \/ Save
    BY <1>2 DEF Editing, EditorExits, CompareTimes, PutSucceeds, PutFails,
                PutApplied, TryAgain, GiveUp, Save
  <1>3. CASE AfterUpload
    BY <1>3 DEF AfterUpload, Unlink, Checkin, Unlock
  <1>4. CASE Environment
    BY <1>4 DEF Environment, NextSecond, OtherChanges, OtherLocks, LockExpires
  <1>5. CASE FatalSignal \/ Quit \/ Stopped \/ UNCHANGED vars
    BY <1>5 DEF FatalSignal, Quit, Stopped, vars
  <1> QED BY <1>1, <1>2, <1>3, <1>4, <1>5 DEF Next, Program

LEMMA TempStep == FlagsOK /\ TempInv /\ [Next]_vars => TempInv'
  <1> SUFFICES ASSUME FlagsOK, TempInv, [Next]_vars PROVE TempInv'
    OBVIOUS
  <1> USE DEF FlagsOK, TempInv, local, server, hist, Goto, Failing
  <1>1. CASE BeforeEditor
    BY <1>1 DEF BeforeEditor, EditStart, TempFails, TempMade,
                LockGranted, LockFails, Checkout, GetReply, CloseFile
  <1>2. CASE Editing \/ TryAgain \/ GiveUp \/ Save
    BY <1>2 DEF Editing, EditorExits, CompareTimes, PutSucceeds, PutFails,
                TryAgain, GiveUp, Save
  <1>3. CASE AfterUpload
    BY <1>3 DEF AfterUpload, Unlink, Checkin, Unlock
  <1>4. CASE Environment
    BY <1>4 DEF Environment, NextSecond, OtherChanges, OtherLocks, LockExpires
  <1>5. CASE FatalSignal \/ Quit \/ Stopped \/ UNCHANGED vars
    BY <1>5 DEF FatalSignal, Quit, Stopped, vars
  <1> QED BY <1>1, <1>2, <1>3, <1>4, <1>5 DEF Next, Program

LEMMA WorkStep == VersionsOK /\ WorkInv /\ [Next]_vars => WorkInv'
  <1> SUFFICES ASSUME VersionsOK, WorkInv, [Next]_vars PROVE WorkInv'
    OBVIOUS
  <1> USE DEF WorkInv, local, server, hist, Goto, Failing
  <1>1. CASE BeforeEditor
    BY <1>1 DEF BeforeEditor, EditStart, TempFails, TempMade,
                LockGranted, LockFails, Checkout, GetReply, CloseFile
  <1>2. CASE PutSucceeds
    <2>1. ours' # 0
      BY <1>2 DEF PutSucceeds, PutApplied, VersionsOK
    <2> QED BY <1>2, <2>1 DEF PutSucceeds
  <1>3. CASE EditorExits \/ CompareTimes \/ PutFails \/ TryAgain \/ GiveUp \/ Save
    BY <1>3 DEF EditorExits, CompareTimes, PutFails, TryAgain, GiveUp, Save
  <1>4. CASE AfterUpload
    BY <1>4 DEF AfterUpload, Unlink, Checkin, Unlock
  <1>5. CASE Environment
    BY <1>5 DEF Environment, NextSecond, OtherChanges, OtherLocks, LockExpires
  <1>6. CASE FatalSignal \/ Quit \/ Stopped \/ UNCHANGED vars
    BY <1>6 DEF FatalSignal, Quit, Stopped, vars
  <1> QED BY <1>1, <1>2, <1>3, <1>4, <1>5, <1>6 DEF Next, Program, Editing

\* While edit holds its lock, the resource is still the version downloaded or
\* edit's own when it is uploaded: the LOCK precedes the GET, and no one else
\* changes a locked resource.
THEOREM LockGuardsDownload == Spec => []LockedUploadMatches
  <1>1. Init => DownloadInv
    BY DEF Init, DownloadInv
  <1>2. DownloadInv => LockedUploadMatches
    BY DEF DownloadInv, LockedUploadMatches
  <1> QED BY <1>1, <1>2, DownloadStep, PTL DEF Spec

\* Whatever failed on the way, edit returns to the prompt with its lock
\* released and its checkout checked in, or with a failure to blame.
THEOREM EditUndoesItself == Spec => []MissionUndone
  <1>1. Init => FlagsOK /\ LockInv /\ CheckoutInv
    BY EditAssumption DEF Init, FlagsOK, LockInv, CheckoutInv
  <1>2. LockInv /\ CheckoutInv => MissionUndone
    BY DEF LockInv, CheckoutInv, MissionUndone
  <1>3. FlagsOK /\ LockInv /\ CheckoutInv /\ [Next]_vars
          => FlagsOK' /\ LockInv' /\ CheckoutInv'
    BY FlagsStep, LockStep, CheckoutStep
  <1> QED BY <1>1, <1>2, <1>3, PTL DEF Spec

\* The temporary file is deleted unless chmod, LOCK or unlink failed.
THEOREM TempFileDeleted == Spec => []TempLeft
  <1>1. Init => FlagsOK /\ TempInv
    BY EditAssumption DEF Init, FlagsOK, TempInv
  <1>2. TempInv => TempLeft
    BY DEF TempInv, TempLeft
  <1>3. FlagsOK /\ TempInv /\ [Next]_vars => FlagsOK' /\ TempInv'
    BY FlagsStep, TempStep
  <1> QED BY <1>1, <1>2, <1>3, PTL DEF Spec

\* Both: after edit nothing of it is left, on the server or on the disk, but for
\* the failures named.
THEOREM EditCleansUp == Spec => []CleanedUp
  <1>1. MissionUndone /\ TempLeft => CleanedUp
    BY DEF CleanedUp
  <1> QED BY <1>1, EditUndoesItself, TempFileDeleted, PTL

\* Changed text only gets lost for one of three reasons, however often the
\* upload fails and is tried again.
THEOREM ChangedTextKept == Spec => []WorkKept
  <1>1. Init => VersionsOK /\ WorkInv
    BY EditAssumption DEF Init, VersionsOK, WorkInv
  <1>2. WorkInv => WorkKept
    BY DEF WorkInv, WorkKept
  <1>3. VersionsOK /\ WorkInv /\ [Next]_vars => VersionsOK' /\ WorkInv'
    BY VersionsStep, WorkStep
  <1> QED BY <1>1, <1>2, <1>3, PTL DEF Spec

---------------------------------------------------------------------------

\* The initial states are those of a writer that has read nothing.
LEMMA UpdateInit == Init => Update!Init
  BY DEF Init, Update!Init

\* Every step of edit is a step of the conditional writer, or none.
LEMMA UpdateStep ==
  VersionsOK /\ [Next]_vars => [Update!Next]_<<version, etag, ours>>
  <1> SUFFICES ASSUME VersionsOK, [Next]_vars
               PROVE  Update!Next \/ UNCHANGED <<version, etag, ours>>
    OBVIOUS
  <1> USE DEF VersionsOK, local, server, hist
  <1>1. CASE BeforeEditor
    <2>1. CASE EditStart
      BY <2>1 DEF EditStart, Update!Next, Update!Forget
    <2>2. CASE LockGranted
      BY <2>2 DEF LockGranted, Granted, Update!Next, Update!OthersWrite
    <2>3. CASE LockFails
      BY <2>3 DEF LockFails, Granted, Update!Next, Update!OthersWrite
    <2>4. CASE GetReply
      BY <2>4 DEF GetReply, Update!Next, Update!Read
    <2>5. CASE TempFails \/ TempMade \/ Checkout \/ CloseFile
      BY <2>5 DEF TempFails, TempMade, Checkout, CloseFile
    <2> QED BY <1>1, <2>1, <2>2, <2>3, <2>4, <2>5 DEF BeforeEditor
  <1>2. CASE PutSucceeds
    BY <1>2 DEF PutSucceeds, PutApplied, Matches, Update!Next, Update!Write
  <1>3. CASE PutFails
    BY <1>3 DEF PutFails, PutApplied, Matches, Update!Next, Update!Write
  <1>4. CASE EditorExits \/ CompareTimes \/ TryAgain \/ GiveUp \/ Save
    BY <1>4 DEF EditorExits, CompareTimes, TryAgain, GiveUp, Save
  <1>5. CASE AfterUpload
    BY <1>5 DEF AfterUpload, Unlink, Checkin, Unlock
  <1>6. CASE OtherChanges
    BY <1>6 DEF OtherChanges, Update!Next, Update!OthersWrite
  <1>7. CASE NextSecond \/ OtherLocks \/ LockExpires
    BY <1>7 DEF NextSecond, OtherLocks, LockExpires
  <1>8. CASE FatalSignal \/ Quit \/ Stopped \/ UNCHANGED vars
    BY <1>8 DEF FatalSignal, Quit, Stopped, vars
  <1> QED BY <1>1, <1>2, <1>3, <1>4, <1>5, <1>6, <1>7, <1>8
             DEF Next, Program, Editing, Environment

\* edit never replaces a version it has not read, unless the server gave it no
\* ETag: it implements the conditional writer of ConditionalUpdate, over any
\* number of retries, lost replies and changes by others.
THEOREM EditIsConditionalUpdate == Spec => ImplementsUpdate
  <1>1. Init => VersionsOK
    BY EditAssumption DEF Init, VersionsOK
  <1>2. VersionsOK /\ [Next]_vars => VersionsOK'
    BY VersionsStep
  <1> QED BY <1>1, <1>2, UpdateInit, UpdateStep, PTL
          DEF Spec, ImplementsUpdate, Update!Spec, Update!vars
================================================================================
