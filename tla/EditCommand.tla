------------------------------ MODULE EditCommand ------------------------------
(***************************************************************************)
(* The edit command (src/src/edit.c): LOCK, CHECKOUT, GET to a temporary   *)
(* file, run the editor, PUT with If-Match and retries, CHECKIN, UNLOCK,   *)
(* on one resource that other clients lock, change and delete meanwhile.   *)
(*                                                                         *)
(* A request is one step with its reply: edit acts on nothing else in      *)
(* between, and other clients act between any two steps.  Time is kept to  *)
(* what run_editor compares: whether it is still the second in which the   *)
(* temporary file was written.                                             *)
(***************************************************************************)
EXTENDS Naturals

CONSTANTS MaxVersion, \* bound: versions of the resource
          Class2,     \* the server supports locks
          Etags,      \* the server sends an ETag with every GET
          Faults,     \* requests fail and replies get lost; locks expire
          Signals     \* SIGINT, SIGTERM, ... may arrive

ASSUME EditAssumption ==
  /\ MaxVersion \in Nat \ {0}
  /\ {Class2, Etags, Faults, Signals} \subseteq BOOLEAN

VARIABLES pc,
          canlock,   \* can_lock
          listed,    \* session.locks holds a lock on the resource
          etag,      \* the version whose ETag GET returned, 0: none
          temp,      \* the temporary file exists
          file,      \* its content
          fresh,     \* it is still the second the download ended in
          touched,   \* the file's mtime differs from before_st
          version,   \* server: version of the resource
          there,     \* server: the resource exists
          holder,    \* server: who holds the lock
          vcr,       \* server: what is_vcr returns: no version control (0),
                     \* checked in (1) or out (2)
          known,     \* history: version downloaded, 0 when GET failed
          ours,      \* history: version of the last PUT applied
          orphan,    \* history: a LOCK's reply was lost or an UNLOCK failed
          checkedout,\* history: edit checked the resource out
          failed     \* history: the steps that failed

local == <<canlock, etag, temp, file, fresh, touched>>
server == <<version, there, holder, vcr>>
hist == <<known, ours, orphan, checkedout, failed>>
vars == <<pc, listed, local, server, hist>>

Pcs == {"prompt", "mktemp", "lock", "checkout", "get", "close", "editor",
        "compare", "upload", "ask", "unlink", "checkin", "unlock", "exited"}

Steps == {"mkstemp", "chmod", "lock", "close", "same second", "reopen", "put",
          "unlink", "checkin"}

FlagsOK ==
  /\ canlock \in BOOLEAN /\ listed \in BOOLEAN /\ temp \in BOOLEAN
  /\ fresh \in BOOLEAN /\ touched \in BOOLEAN /\ there \in BOOLEAN
  /\ orphan \in BOOLEAN /\ checkedout \in BOOLEAN

FieldsOK ==
  /\ pc \in Pcs
  /\ file \in {"empty", "partial", "whole", "edited"}
  /\ holder \in {"none", "user", "other"}
  /\ vcr \in {"no", "in", "out"}
  /\ failed \subseteq Steps

VersionsOK ==
  /\ version \in 1 .. MaxVersion
  /\ etag \in 0 .. version
  /\ known \in 0 .. version
  /\ ours \in 0 .. version

TypeOK == FlagsOK /\ FieldsOK /\ VersionsOK

\* The user may already hold a lock, taken with the lock command.
Init ==
  /\ pc = "prompt"
  /\ canlock = FALSE /\ etag = 0 /\ temp = FALSE /\ file = "empty"
  /\ fresh = FALSE /\ touched = FALSE
  /\ listed \in {FALSE, Class2}
  /\ holder = IF listed THEN "user" ELSE "none"
  /\ version = 1 /\ there \in BOOLEAN
  /\ vcr \in IF there THEN {"no", "in", "out"} ELSE {"no"}
  /\ known = 0 /\ ours = 0
  /\ orphan = FALSE /\ checkedout = FALSE /\ failed = {}

Goto(from, to) == pc = from /\ pc' = to

Failing(step) == failed' = failed \cup {step}

\* The bound on versions leaves room for one PUT to succeed.
Room == version < MaxVersion - 1

---------------------------------------------------------------------------
(* Before the editor. *)

\* getrestype (a collection goes back to the prompt) and is_lockable: no LOCK
\* when the store already lists one, else when OPTIONS reports class 2.
EditStart ==
  /\ Goto("prompt", "mktemp") /\ Room
  /\ \/ canlock' = (Class2 /\ ~listed)
     \/ Faults /\ canlock' = FALSE
  /\ etag' = 0 /\ file' = "empty" /\ touched' = FALSE /\ temp' = FALSE
  /\ known' = 0 /\ ours' = 0 /\ failed' = {}
  /\ checkedout' = FALSE
  /\ UNCHANGED <<listed, fresh, server, orphan>>

\* mkstemp fails, or fchmod fails and the file stays.
TempFails ==
  /\ Goto("mktemp", "prompt")
  /\ \/ Failing("mkstemp") /\ UNCHANGED temp
     \/ Failing("chmod") /\ temp' = TRUE
  /\ UNCHANGED <<listed, canlock, etag, file, fresh, touched, server, known,
                 ours, orphan, checkedout>>

TempMade ==
  /\ Goto("mktemp", IF canlock THEN "lock" ELSE "checkout")
  /\ temp' = TRUE
  /\ UNCHANGED <<listed, canlock, etag, file, fresh, touched, server, hist>>

\* A lock on an absent resource may create it empty.
Granted ==
  /\ holder = "none"
  /\ holder' = "user"
  /\ \/ UNCHANGED <<version, there>>
     \/ ~there /\ Room /\ version' = version + 1 /\ there' = TRUE

LockGranted ==
  /\ Goto("lock", "checkout")
  /\ Granted
  /\ listed' = TRUE
  /\ UNCHANGED <<local, vcr, hist>>

\* goto edit_close: the descriptor is closed, the file stays.
LockFails ==
  /\ Goto("lock", "prompt")
  /\ \/ (holder # "none" \/ Faults) /\ UNCHANGED <<version, there, holder, orphan>>
     \/ Faults /\ Granted /\ orphan' = TRUE
  /\ Failing("lock")
  /\ UNCHANGED <<listed, local, vcr, known, ours, checkedout>>

\* is_vcr, and CHECKOUT when the resource is checked in; the result is not
\* looked at.  The request names the URI escaped once more and with a slash
\* added (simple_request), which the server may not take for the resource.
Checkout ==
  /\ Goto("checkout", "get")
  /\ \/ vcr = "in" /\ vcr' = "out" /\ checkedout' = TRUE
     \/ UNCHANGED <<vcr, checkedout>>
  /\ UNCHANGED <<listed, local, version, there, holder, known, ours, orphan,
                 failed>>

\* Mutant: the ETag is that of a version newer than the body.
GetReplyNewerEtag ==
  /\ Goto("get", "close")
  /\ fresh' = TRUE
  /\ etag' = version + 1 /\ known' = version /\ file' = "whole"
  /\ UNCHANGED <<listed, canlock, temp, touched, server, ours, orphan,
                 checkedout, failed>>

\* The ETag is taken from the headers: a GET that breaks off afterwards
\* leaves part of the file and its ETag.
GetReply ==
  /\ Goto("get", "close")
  /\ fresh' = TRUE
  /\ \/ /\ there
        /\ etag' = (IF Etags THEN version ELSE 0) /\ known' = version
        /\ file' = "whole" \/ (Faults /\ file' = "partial")
     \/ (~there \/ Faults) /\ UNCHANGED <<etag, known, file>>
  /\ UNCHANGED <<listed, canlock, temp, touched, server, ours, orphan,
                 checkedout, failed>>

\* Mutant: the failure of close jumps past the unlink.
CloseFileSkipsUnlink ==
  /\ \/ Goto("close", "editor") /\ UNCHANGED failed
     \/ Faults /\ Goto("close", "checkin") /\ Failing("close")
  /\ UNCHANGED <<listed, local, server, known, ours, orphan, checkedout>>

CloseFile ==
  /\ \/ Goto("close", "editor") /\ UNCHANGED failed
     \/ Faults /\ Goto("close", "unlink") /\ Failing("close")
  /\ UNCHANGED <<listed, local, server, known, ours, orphan, checkedout>>

BeforeEditor == EditStart \/ TempFails \/ TempMade \/ LockGranted \/ LockFails
                \/ Checkout \/ GetReply \/ CloseFile

---------------------------------------------------------------------------
(* The editor. *)

\* The user saves, with or without a change to the text.
Save ==
  /\ pc = "editor"
  /\ file' \in {file, "edited"}
  /\ touched' = (touched \/ ~fresh)
  /\ UNCHANGED <<pc, listed, canlock, etag, temp, fresh, server, hist>>

\* Mutant: the lock is only taken once the user has finished.
EditorExitsThenLocks ==
  /\ Goto("editor", "compare")
  /\ IF holder = "none" THEN Granted ELSE UNCHANGED <<version, there, holder>>
  /\ UNCHANGED <<listed, local, vcr, hist>>

EditorExits ==
  /\ Goto("editor", "compare")
  /\ UNCHANGED <<listed, local, server, hist>>

\* run_editor compares modification times; the file may not open again.
CompareTimes ==
  /\ \/ touched /\ Goto("compare", "upload") /\ UNCHANGED failed
     \/ touched /\ Faults /\ Goto("compare", "unlink") /\ Failing("reopen")
     \/ ~touched /\ Goto("compare", "unlink")
          /\ IF file = "edited" THEN Failing("same second")
                               ELSE UNCHANGED failed
  /\ UNCHANGED <<listed, local, server, known, ours, orphan, checkedout>>

---------------------------------------------------------------------------
(* The upload. *)

\* Mutant: the If-Match hook is removed before a retry.
MatchesFirstTry == etag = 0 \/ "put" \in failed \/ (there /\ etag = version)

\* What the server checks: If-Match, when edit_pre_send adds it, and the lock.
Matches == etag = 0 \/ (there /\ etag = version)
Unlocked == holder = "none" \/ (holder = "user" /\ listed)

PutApplied ==
  /\ Matches /\ Unlocked
  /\ version < MaxVersion
  /\ version' = version + 1
  /\ there' = TRUE
  /\ ours' = version + 1

PutSucceeds ==
  /\ Goto("upload", "unlink")
  /\ PutApplied
  /\ failed' = failed \ {"put"}
  /\ UNCHANGED <<listed, local, holder, vcr, known, orphan, checkedout>>

\* Mutant: a refused PUT ends the loop as a successful one does.
PutFailsSilently ==
  /\ Goto("upload", "unlink")
  /\ ~Matches \/ ~Unlocked \/ Faults
  /\ UNCHANGED <<listed, local, server, hist>>

\* 412 (edit_post_send), 423, any other failure, or a lost reply.
PutFails ==
  /\ Goto("upload", "ask")
  /\ \/ (~Matches \/ ~Unlocked \/ Faults)
          /\ UNCHANGED <<version, there, ours>>
     \/ Faults /\ Room /\ PutApplied
  /\ Failing("put")
  /\ UNCHANGED <<listed, local, holder, vcr, known, orphan, checkedout>>

\* "Try uploading again (y/n)?"
TryAgain ==
  /\ Goto("ask", "upload")
  /\ UNCHANGED <<listed, local, server, hist>>

\* Mutant: the answer to the question is ignored.
GiveUpIgnored ==
  /\ Goto("ask", "upload")
  /\ UNCHANGED <<listed, local, server, hist>>

GiveUp ==
  /\ Goto("ask", "unlink")
  /\ UNCHANGED <<listed, local, server, hist>>

Editing == EditorExits \/ CompareTimes \/ PutSucceeds \/ PutFails

---------------------------------------------------------------------------
(* After the upload. *)

Unlink ==
  /\ Goto("unlink", "checkin")
  /\ \/ temp' = FALSE /\ UNCHANGED failed
     \/ Faults /\ Failing("unlink") /\ UNCHANGED temp
  /\ UNCHANGED <<listed, canlock, etag, file, fresh, touched, server, known,
                 ours, orphan, checkedout>>

\* Mutant: the command ends with the CHECKIN.
CheckinEndsCommand ==
  /\ Goto("checkin", "prompt")
  /\ \/ vcr = "out" /\ vcr' = "in" /\ checkedout' = FALSE /\ UNCHANGED failed
     \/ vcr # "out" /\ UNCHANGED <<vcr, checkedout, failed>>
     \/ vcr = "out" /\ Failing("checkin") /\ UNCHANGED <<vcr, checkedout>>
  /\ UNCHANGED <<listed, local, version, there, holder, known, ours, orphan>>

\* is_vcr, and CHECKIN when the resource is checked out, whoever did that;
\* like CHECKOUT, it may miss the resource.
Checkin ==
  /\ Goto("checkin", IF canlock THEN "unlock" ELSE "prompt")
  /\ \/ vcr = "out" /\ vcr' = "in" /\ checkedout' = FALSE /\ UNCHANGED failed
     \/ vcr # "out" /\ UNCHANGED <<vcr, checkedout, failed>>
     \/ vcr = "out" /\ Failing("checkin") /\ UNCHANGED <<vcr, checkedout>>
  /\ UNCHANGED <<listed, local, version, there, holder, known, ours, orphan>>

\* The lock leaves the store whatever the UNLOCK returned.
Unlock ==
  /\ Goto("unlock", "prompt")
  /\ listed' = FALSE
  /\ \/ holder = "user" /\ holder' = "none" /\ UNCHANGED orphan
     \/ (holder # "user" \/ Faults) /\ orphan' = TRUE /\ UNCHANGED holder
  /\ UNCHANGED <<local, version, there, vcr, known, ours, checkedout, failed>>

AfterUpload == Unlink \/ Checkin \/ Unlock

---------------------------------------------------------------------------
(* Time, other clients, timeouts and signals. *)

NextSecond ==
  /\ fresh
  /\ fresh' = FALSE
  /\ UNCHANGED <<pc, listed, canlock, etag, temp, file, touched, server, hist>>

OtherChanges ==
  /\ pc \notin {"prompt", "exited"}
  /\ holder # "user" /\ Room
  /\ version' = version + 1
  /\ there' \in BOOLEAN
  /\ vcr' = IF there' THEN vcr ELSE "no"
  /\ UNCHANGED <<pc, listed, local, holder, hist>>

OtherLocks ==
  /\ Class2 /\ holder \in {"none", "other"}
  /\ holder' = IF holder = "none" THEN "other" ELSE "none"
  /\ UNCHANGED <<pc, listed, local, version, there, vcr, hist>>

LockExpires ==
  /\ Faults /\ holder = "user"
  /\ holder' = "none"
  /\ orphan' = TRUE
  /\ UNCHANGED <<pc, listed, local, version, there, vcr, known, ours,
                 checkedout, failed>>

FatalSignal ==
  /\ Signals /\ pc # "exited"
  /\ pc' = "exited"
  /\ UNCHANGED <<listed, local, server, hist>>

Quit ==
  /\ Goto("prompt", "exited")
  /\ UNCHANGED <<listed, local, server, hist>>

Stopped == pc = "exited" /\ UNCHANGED vars

Environment == NextSecond \/ OtherChanges \/ OtherLocks \/ LockExpires

Program == BeforeEditor \/ Editing \/ AfterUpload

Next == Program \/ Save \/ TryAgain \/ GiveUp \/ Environment \/ FatalSignal
        \/ Quit \/ Stopped

Spec == Init /\ [][Next]_vars

\* Every request returns (neon times reads out), the user leaves the editor,
\* and does not answer "y" for ever.
FairSpec == Spec /\ WF_vars(Program /\ pc # "prompt") /\ SF_vars(GiveUp)

---------------------------------------------------------------------------
(* Properties. *)

\* With ETags, edit replaces the resource only while it is the version that
\* was downloaded, over any number of retries and lost replies; only when it
\* has no ETag may it write unconditionally.
Update == INSTANCE ConditionalUpdate WITH known <- etag
ImplementsUpdate == Update!Spec

\* While edit holds its lock, nobody changes what it downloaded: at the
\* upload the resource is still the version downloaded, or edit's own.
LockedUploadMatches ==
  pc \in {"editor", "compare", "upload", "ask"} /\ holder = "user" /\ known # 0
    => version \in {known, ours}

\* Back at the prompt edit has released the lock it took and checked in what
\* it checked out, whatever failed on the way, unless the LOCK's reply was
\* lost, the lock had expired, or the UNLOCK or CHECKIN itself failed.
MissionUndone ==
  pc = "prompt" =>
    /\ holder = "user" => listed \/ orphan
    /\ canlock => ~listed
    /\ checkedout /\ vcr = "out" => "checkin" \in failed

\* The temporary file stays behind only when its mode could not be set, the
\* LOCK failed, or it could not be deleted.
TempLeft ==
  pc = "prompt" /\ temp => failed \cap {"chmod", "lock", "unlink"} # {}

\* edit leaves behind neither a lock, a checkout nor a temporary file but for
\* the failures that MissionUndone and TempLeft name.
CleanedUp == MissionUndone /\ TempLeft

\* Changed text is given up only when the user declined another upload, the
\* file could not be read again, or it was saved in the second of the
\* download.
WorkKept ==
  pc = "prompt" /\ file = "edited" /\ ours = 0
    => failed \cap {"put", "reopen", "same second"} # {}

\* edit ends, however often uploads fail, if the user ever answers "n"; it
\* ends at the prompt, or with the program when a signal arrives.
EditEnds == pc = "mktemp" ~> pc \in {"prompt", "exited"}

================================================================================
