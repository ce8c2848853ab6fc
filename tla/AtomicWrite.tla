---------------------------- MODULE AtomicWrite -----------------------------
(***************************************************************************)
(* writeFileAtomic of internal/vault/atomicwrite.go: a note, a template, a *)
(* workflow or a ledger is written to a scratch file beside it, flushed,   *)
(* and renamed over the target.  The writers are the processes that share  *)
(* the vault (the server, and the desktop app, whose writer has the same   *)
(* shape); any of them may stop between two steps, and the machine may     *)
(* lose what has not been flushed.                                         *)
(*                                                                         *)
(* A path is a note or a link to one.  A body is one value; the part of it *)
(* a stopped write leaves is Torn.  The kernel's side (the modes under the *)
(* umask, what a power loss keeps) is external.                            *)
(***************************************************************************)
EXTENDS Integers, FiniteSets

CONSTANTS
    Writers,    \* the processes that save
    Targets,    \* the notes
    Links,      \* the links to notes
    PointsTo,   \* PointsTo[l]: the note the link l names
    Data,       \* the bodies
    Stamps,     \* the nanoseconds in the name of a scratch file
    Modes,      \* the permissions a file may have
    NewMode,    \* fileMode: those of a new file
    Masked,     \* Masked[m]: what the umask leaves of m
    Attempts,   \* atomicRenameAttempts
    MaxFailures,  \* how many calls of the kernel may fail
    MaxOutside, \* how many outside changes, stops and power losses there may be
    Torn, Link, Absent

Entries == Targets \union Links
Scratch == Targets \X Writers \X Stamps

ASSUME SaveConstantsOK ==
    /\ Targets \intersect Links = {}
    /\ PointsTo \in [Links -> Targets]
    /\ NewMode \in Modes
    /\ Masked \in [Modes -> Modes]
    /\ Attempts \in Nat \ {0}
    /\ MaxFailures \in Nat
    /\ MaxOutside \in Nat
    /\ Torn \notin Data
    /\ Absent \notin Data
    /\ Torn # Absent

File == [data : Data \union {Torn}, mode : Modes, flushed : BOOLEAN]

ASSUME MarksApart ==
    /\ Absent \notin File
    /\ Link \notin File
    /\ Link # Absent
    /\ Absent \notin Scratch
    /\ Absent \notin Targets \X Data

VARIABLES
    files,    \* files[p]: the file at p, Link, or Absent
    disk,     \* disk[t]: the file the directory on the disk has at t
    scratch,  \* scratch[x]: the scratch file of that name, or Absent
    op,       \* op[w]: what the call of w knows
    step,       \* step[w]: how far it is
    returned,   \* returned[w]: what the last call of w returned
    strays,   \* the scratch files left behind by a stop or a failed removal
    meddled,  \* the calls whose note was changed, not saved, since they looked at it,
              \* or saved by one of these
    failures, outside

saveVars == <<files, disk, scratch, op, step, returned, strays, meddled, failures, outside>>

Ops == [target : Targets \union {Absent}, data : Data \union {Absent},
        mode : Modes \union {Absent}, replacing : BOOLEAN,
        name : Scratch \union {Absent}, tries : 0..(Attempts - 1)]

NoOp == [target |-> Absent, data |-> Absent, mode |-> Absent, replacing |-> FALSE,
         name |-> Absent, tries |-> 0]

SaveInit ==
    /\ \E d \in [Targets -> Data \union {Absent}], m \in [Targets -> Modes] :
          files = [p \in Entries |->
                     IF p \in Links THEN Link
                     ELSE IF d[p] = Absent THEN Absent
                     ELSE [data |-> d[p], mode |-> m[p], flushed |-> TRUE]]
    /\ disk = [t \in Targets |-> files[t]]
    /\ scratch = [x \in Scratch |-> Absent]
    /\ op = [w \in Writers |-> NoOp]
    /\ step = [w \in Writers |-> "idle"]
    /\ returned = [w \in Writers |-> "none"]
    /\ strays = {}
    /\ meddled = {}
    /\ failures = 0
    /\ outside = 0

-----------------------------------------------------------------------------
\* One save

\* The file a write of p has to replace: a link is followed.
resolveLinkTarget(p) == IF files[p] = Link THEN PointsTo[p] ELSE p

Fails ==
    /\ failures < MaxFailures
    /\ failures' = failures + 1

Goes(w, next) == step' = [step EXCEPT ![w] = next]

Ends(w, a) ==
    /\ step' = [step EXCEPT ![w] = "idle"]
    /\ op' = [op EXCEPT ![w] = NoOp]
    /\ returned' = [returned EXCEPT ![w] = a]

Returns(w, a) == Ends(w, a) /\ meddled' = meddled \ {w}

\* The calls that have looked at t.
HaveSeen(t) == {w \in Writers : op[w].target = t /\ step[w] # "look"}

\* Mutant: GivesUp without the removal.
GivesUpDirty(w) ==
    /\ Returns(w, "error")
    /\ UNCHANGED <<files, disk, scratch, strays, outside>>

\* Remove the scratch file and return the error; a failure to remove is ignored.
GivesUp(w) ==
    /\ Returns(w, "error")
    /\ \/ scratch' = [scratch EXCEPT ![op[w].name] = Absent] /\ UNCHANGED strays
       \/ strays' = strays \union {op[w].name} /\ UNCHANGED scratch
    /\ UNCHANGED <<files, disk, outside>>

Call(w) ==
    /\ step[w] = "idle"
    /\ \E p \in Entries, d \in Data :
          op' = [op EXCEPT ![w] = [NoOp EXCEPT !.target = resolveLinkTarget(p), !.data = d]]
    /\ Goes(w, "look")
    /\ returned' = [returned EXCEPT ![w] = "none"]
    /\ UNCHANGED <<files, disk, scratch, strays, meddled, failures, outside>>

\* Stat of the target: whether there is one, and its permissions.
Look(w) ==
    /\ step[w] = "look"
    /\ LET there == files[op[w].target]
       IN  op' = [op EXCEPT ![w].mode = IF there = Absent THEN NewMode ELSE there.mode,
                            ![w].replacing = there # Absent]
    /\ Goes(w, "open")
    /\ UNCHANGED <<files, disk, scratch, returned, strays, meddled, failures, outside>>

\* The scratch file must be new, and gets the permissions the umask leaves.
Open(w) ==
    /\ step[w] = "open"
    /\ \E s \in Stamps :
          LET x == <<op[w].target, w, s>>
          IN  /\ scratch[x] = Absent
              /\ scratch' = [scratch EXCEPT ![x] =
                    [data |-> Torn, mode |-> Masked[op[w].mode], flushed |-> FALSE]]
              /\ op' = [op EXCEPT ![w].name = x]
    /\ Goes(w, "write")
    /\ UNCHANGED <<files, disk, returned, strays, meddled, failures, outside>>

\* A stat or an open that fails, and a name that is taken.
Refused(w) ==
    /\ \/ step[w] \in {"look", "open"} /\ Fails
       \/ /\ step[w] = "open"
          /\ \E s \in Stamps : scratch[<<op[w].target, w, s>>] # Absent
          /\ UNCHANGED failures
    /\ Returns(w, "error")
    /\ UNCHANGED <<files, disk, scratch, strays, outside>>

Write(w) ==
    /\ step[w] = "write"
    /\ scratch' = [scratch EXCEPT ![op[w].name].data = op[w].data]
    /\ Goes(w, "sync")
    /\ UNCHANGED <<files, disk, op, returned, strays, meddled, failures, outside>>

\* Mutant: Sync left out.
SyncNot(w) ==
    /\ step[w] = "sync"
    /\ Goes(w, "chmod")
    /\ UNCHANGED <<files, disk, scratch, op, returned, strays, meddled, failures, outside>>

Sync(w) ==
    /\ step[w] = "sync"
    /\ scratch' = [scratch EXCEPT ![op[w].name].flushed = TRUE]
    /\ Goes(w, "chmod")
    /\ UNCHANGED <<files, disk, op, returned, strays, meddled, failures, outside>>

\* Mutant: Chmod left out.
ChmodNot(w) ==
    /\ step[w] = "chmod"
    /\ Goes(w, "rename")
    /\ UNCHANGED <<files, disk, scratch, op, returned, strays, meddled, failures, outside>>

\* The umask is undone for a file that replaces another.
Chmod(w) ==
    /\ step[w] = "chmod"
    /\ scratch' = IF op[w].replacing
                  THEN [scratch EXCEPT ![op[w].name].mode = op[w].mode]
                  ELSE scratch
    /\ Goes(w, "rename")
    /\ UNCHANGED <<files, disk, op, returned, strays, meddled, failures, outside>>

Rename(w) ==
    /\ step[w] = "rename"
    /\ files' = [files EXCEPT ![op[w].target] = scratch[op[w].name]]
    /\ scratch' = [scratch EXCEPT ![op[w].name] = Absent]
    /\ Ends(w, "ok")
    /\ meddled' = (IF w \in meddled THEN meddled \union HaveSeen(op[w].target) ELSE meddled) \ {w}
    /\ UNCHANGED <<disk, strays, failures, outside>>

\* A rename refused for want of permission is tried again.
Retry(w) ==
    /\ step[w] = "rename"
    /\ op[w].tries + 1 < Attempts
    /\ Fails
    /\ op' = [op EXCEPT ![w].tries = @ + 1]
    /\ UNCHANGED <<files, disk, scratch, step, returned, strays, meddled, outside>>

\* Mutant: Failure that answers ok.
FailureHidden(w) ==
    /\ step[w] \in {"write", "sync", "chmod", "rename"}
    /\ Fails
    /\ Returns(w, "ok")
    /\ scratch' = [scratch EXCEPT ![op[w].name] = Absent]
    /\ UNCHANGED <<files, disk, strays, outside>>

\* A step after the opening fails; a rename, for another reason or once too often.
Failure(w) ==
    /\ step[w] \in {"write", "sync", "chmod", "rename"}
    /\ Fails
    /\ GivesUp(w)

-----------------------------------------------------------------------------
\* What happens around it

Outside ==
    /\ outside < MaxOutside
    /\ outside' = outside + 1

\* A process stops: its scratch file stays.
Stop(w) ==
    /\ step[w] # "idle"
    /\ Outside
    /\ Returns(w, "none")
    /\ strays' = IF op[w].name = Absent THEN strays ELSE strays \union {op[w].name}
    /\ UNCHANGED <<files, disk, scratch, failures>>

\* Somebody sets the permissions of a note.
SetMode(t) ==
    /\ files[t] # Absent
    /\ meddled' = meddled \union HaveSeen(t)
    /\ Outside
    /\ \E m \in Modes \ {files[t].mode} : files' = [files EXCEPT ![t].mode = m]
    /\ UNCHANGED <<disk, scratch, op, step, returned, strays, failures>>

\* Somebody deletes a note.
Delete(t) ==
    /\ files[t] # Absent
    /\ meddled' = meddled \union HaveSeen(t)
    /\ Outside
    /\ files' = [files EXCEPT ![t] = Absent]
    /\ UNCHANGED <<disk, scratch, op, step, returned, strays, failures>>

\* The directory of a note reaches the disk, which nothing in the code waits for.
Flush(t) ==
    /\ disk[t] # files[t]
    /\ disk' = [disk EXCEPT ![t] = files[t]]
    /\ UNCHANGED <<files, scratch, op, step, returned, strays, meddled, failures, outside>>

\* What is left of a file whose bytes had not been flushed.
Remains(f) == IF f = Absent \/ f = Link THEN f
           ELSE IF f.flushed THEN f
           ELSE [data |-> Torn, mode |-> f.mode, flushed |-> TRUE]

PowerLoss ==
    /\ Outside
    /\ disk' = [t \in Targets |-> Remains(disk[t])]
    /\ files' = [p \in Entries |-> IF p \in Targets THEN disk'[p] ELSE files[p]]
    /\ scratch' = [x \in Scratch |-> Remains(scratch[x])]
    /\ op' = [w \in Writers |-> NoOp]
    /\ step' = [w \in Writers |-> "idle"]
    /\ returned' = [w \in Writers |-> "none"]
    /\ strays' = {x \in Scratch : scratch[x] # Absent}
    /\ meddled' = {}
    /\ UNCHANGED failures

SaveNext ==
    \/ \E w \in Writers :
          \/ Call(w) \/ Look(w) \/ Open(w) \/ Refused(w) \/ Write(w) \/ Sync(w)
          \/ Chmod(w) \/ Rename(w) \/ Retry(w) \/ Failure(w) \/ Stop(w)
    \/ \E t \in Targets : SetMode(t) \/ Delete(t) \/ Flush(t)
    \/ PowerLoss

SaveSpec == SaveInit /\ [][SaveNext]_saveVars

-----------------------------------------------------------------------------
\* Properties

Pcs == {"idle", "look", "open", "write", "sync", "chmod", "rename"}

\* Types: a link is only ever at a link's path, and a call knows the permissions
\* once it has looked; a rename is tried Attempts times at most.
SaveTypeOK ==
    /\ files \in [Entries -> File \union {Link, Absent}]
    /\ \A t \in Targets : files[t] # Link
    /\ disk \in [Targets -> File \union {Absent}]
    /\ scratch \in [Scratch -> File \union {Absent}]
    /\ op \in [Writers -> Ops]
    /\ step \in [Writers -> Pcs]
    /\ returned \in [Writers -> {"none", "ok", "error"}]
    /\ strays \in SUBSET Scratch
    /\ meddled \in SUBSET Writers
    /\ failures \in 0..MaxFailures
    /\ outside \in 0..MaxOutside

\* No reader ever finds a note with only a part of a body in it, nor after a power
\* loss: what is renamed over a note has been written and flushed (the promise of
\* the comment on writeFileAtomic, issue 585).
NeverTorn ==
    \A t \in Targets : files[t] # Absent => files[t].data # Torn

\* A scratch file is in use by the call that opened it, or it was left by a stop, a
\* power loss or a removal that failed: every return of writeFileAtomic cleans up.
NoScratchLeft ==
    \A x \in Scratch : scratch[x] # Absent =>
        x \in strays \/ \E w \in Writers : op[w].name = x

\* A save never puts a file in the place of a link, nor changes the permissions of
\* the file it replaces, whoever else saves the note, fails or stops meanwhile: a rename
\* replaces the directory entry, and both would be lost if resolveLinkTarget or the chmod
\* were left out.  Somebody who sets the permissions, or deletes the note, between the
\* Stat and the rename of a save is not heard: those of before come back, from that save
\* and from one that looked at the note in between.
EntryKept ==
    [][\A w \in Writers : Rename(w) =>
          /\ \A l \in Links : files'[l] = files[l]
          /\ \A t \in Targets : files[t] # Absent /\ w \notin meddled =>
                files'[t].mode = files[t].mode]_saveVars

\* A save is a save of AtomicFile: whole, before the answer, or not at all.
Body(f) == IF f = Absent THEN Absent ELSE f.data
bodies == [t \in Targets |-> Body(files[t])]
kept == [t \in Targets |-> Body(disk[t])]
saves == [w \in Writers |-> IF step[w] = "idle" THEN Absent
                            ELSE <<op[w].target, op[w].data>>]

Promise == INSTANCE AtomicFile WITH
    body <- bodies, disk <- kept, saving <- saves, answer <- returned, None <- Absent

\* Every behaviour of the code is one of AtomicFile.
KeepsPromise == Promise!Spec

=============================================================================
