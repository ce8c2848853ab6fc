----------------------------- MODULE SettingsFile -----------------------------
(***************************************************************************)
(* vault.json: SetSettings and GetSettings of internal/vault/vault.go, and *)
(* the folder calls that read the settings, change an entry and write them *)
(* back.  SetSettings truncates the file and writes it, under no lock; a   *)
(* folder call does so holding Vault.mu, an HTTP PUT does not hold it.     *)
(* GetSettings stats the file, answers from a cache keyed by the file's    *)
(* time and size if it can, else reads and parses it and fills the cache.  *)
(*                                                                         *)
(* Settings are a function from fields to bits; a folder call changes one  *)
(* field of what it read.  The file is written in one call and read in two *)
(* (io.ReadAll starts with 512 bytes); both work on the same inode.        *)
(***************************************************************************)
EXTENDS Integers

CONSTANTS
    Getters,   \* requests that read the settings
    Putters,   \* requests that replace them
    Movers,    \* folder calls
    Fields,
    Bytes,     \* Bytes[v]: the size of the file that holds v
    Default,   \* the settings of a vault without the file
    Nil,       \* no file, no entry, no one
    Broken,    \* a file that does not parse, or the error of reading one
    Coarse,    \* whether two writes may get the same time (else never)
    MaxTicks,  \* bound: clock ticks of a coarse clock
    MaxCalls,  \* bound: calls that write
    MaxFaults  \* bound: failing file system calls and crashes

Procs == Getters \union Putters \union Movers
Values == [Fields -> {0, 1}]

Docs == [value : Values \union {Broken}, size : Nat, mtime : Nat]

SettingsConstantsOK ==
    /\ Fields # {}
    /\ Bytes \in [Values -> Nat \ {0}]
    /\ Default \in Values
    /\ Nil \notin Values \union Procs \union Docs
    /\ Broken \notin Values \union {Nil}
    /\ Coarse \in BOOLEAN
    /\ \A k \in {MaxTicks, MaxCalls, MaxFaults} : k \in Nat

VARIABLES
    file,   \* vault.json: what it holds, its size, its time; Nil when there is none
    memo,   \* settingsCache: settings and the identity of the file they came from
    now,    \* the time a file written now gets
    mu,     \* the folder call that holds Vault.mu
    at, call,
    next,   \* next[p]: the settings p is to write, Nil before they are known
    field,  \* field[p]: the one that folder call p changes
    info,   \* info[p]: the file's identity as p's GetSettings found it
    head,   \* head[p]: what its first read returned
    got,    \* got[p]: the settings its GetSettings returned, or Broken
    quiet,  \* quiet[p]: no settings have been written since it began
    raced,  \* raced[p]: a PUT has written some since p's call began
    torn,   \* the file was not written by one call from its start to its end
    calls, faults

marks == <<raced, torn>>
settingsVars == <<file, memo, now, mu, at, call, next, field, info, head, got, quiet,
                  marks, calls, faults>>

Empty == [value |-> Broken, size |-> 0, mtime |-> 0]
NoInfo == [size |-> 0, mtime |-> 0]

SettingsTypeOK ==
    /\ file \in Docs \union {Nil}
    /\ memo \in [value : Values, size : Nat, mtime : Nat] \union {Nil}
    /\ now \in Nat
    /\ mu \in Movers \union {Nil}
    /\ at \in [Procs -> {"idle", "stat", "lookup", "read", "rest", "store", "got",
                         "truncate", "write", "drop", "inbox"}]
    /\ call \in [Procs -> {"none", "get", "put", "move"}]
    /\ next \in [Procs -> Values \union {Nil}]
    /\ field \in [Procs -> Fields]
    /\ info \in [Procs -> [size : Nat, mtime : Nat]]
    /\ head \in [Procs -> Docs]
    /\ got \in [Procs -> Values \union {Broken}]
    /\ quiet \in [Procs -> BOOLEAN]
    /\ raced \in [Procs -> BOOLEAN]
    /\ torn \in BOOLEAN
    /\ calls \in 0..MaxCalls
    /\ faults \in 0..MaxFaults
    /\ \A p \in Procs : mu = p <=> call[p] = "move"
    /\ \A p \in Procs : at[p] = "write" => file # Nil

Fault == faults < MaxFaults /\ faults' = faults + 1

\* Settings are being written, or have been with the cache not yet dropped.
Writing == \E p \in Procs : at[p] \in {"write", "drop"}

Goto(p, l) == at' = [at EXCEPT ![p] = l]

-----------------------------------------------------------------------------
\* GetSettings

\* Open and Stat.  Without a file the cache is dropped and the default answered.
Stat(p) ==
    /\ at[p] = "stat"
    /\ IF file = Nil
       THEN /\ memo' = Nil
            /\ got' = [got EXCEPT ![p] = Default]
            /\ Goto(p, "got")
            /\ UNCHANGED info
       ELSE /\ info' = [info EXCEPT ![p] = [size |-> file.size, mtime |-> file.mtime]]
            /\ Goto(p, "lookup")
            /\ UNCHANGED <<memo, got>>
    /\ UNCHANGED <<file, now, mu, call, next, field, head, quiet, marks, calls, faults>>

\* cachedSettings
Hit(i) == memo # Nil /\ memo.size = i.size /\ memo.mtime = i.mtime

Lookup(p) ==
    /\ at[p] = "lookup"
    /\ IF Hit(info[p])
       THEN got' = [got EXCEPT ![p] = memo.value] /\ Goto(p, "got")
       ELSE Goto(p, "read") /\ UNCHANGED got
    /\ UNCHANGED <<file, memo, now, mu, call, next, field, info, head, quiet, marks, calls, faults>>

ReadHead(p) ==
    /\ at[p] = "read"
    /\ head' = [head EXCEPT ![p] = file]
    /\ Goto(p, "rest")
    /\ UNCHANGED <<file, memo, now, mu, call, next, field, info, got, quiet, marks, calls, faults>>

\* What parses of a file read while it changed from h to r: some fields of
\* each when they fall in the same place, else nothing.
Blends(h, r) ==
    IF h.value = r.value THEN {h.value}
    ELSE IF Broken \in {h.value, r.value} \/ h.size # r.size THEN {Broken}
    ELSE {[f \in Fields |-> IF f \in S THEN h.value[f] ELSE r.value[f]] : S \in SUBSET Fields}

\* The rest of the file, and Unmarshal; a read may also fail.
ReadRest(p) ==
    /\ at[p] = "rest"
    /\ head' = [head EXCEPT ![p] = Empty]
    /\ \/ \E v \in Blends(head[p], file) :
             /\ got' = [got EXCEPT ![p] = v]
             /\ Goto(p, IF v = Broken THEN "got" ELSE "store")
             /\ UNCHANGED <<quiet, faults>>
       \/ /\ Fault
          /\ got' = [got EXCEPT ![p] = Broken]
          /\ quiet' = [quiet EXCEPT ![p] = FALSE]
          /\ Goto(p, "got")
    /\ UNCHANGED <<file, memo, now, mu, call, next, field, info, marks, calls>>

\* Faulty variant of Key: the file is looked at once more, after it was read.
KeyNow(p) == [size |-> file.size, mtime |-> file.mtime]

\* The identity the cache entry gets.
Key(p) == info[p]

\* storeSettingsCache
Keep(p) ==
    /\ at[p] = "store"
    /\ memo' = [value |-> got[p], size |-> Key(p).size, mtime |-> Key(p).mtime]
    /\ Goto(p, "got")
    /\ UNCHANGED <<file, now, mu, call, next, field, info, head, got, quiet, marks, calls, faults>>

-----------------------------------------------------------------------------
\* The calls

Start(p, c, v, f) ==
    /\ at[p] = "idle"
    /\ Goto(p, "stat")
    /\ call' = [call EXCEPT ![p] = c]
    /\ next' = [next EXCEPT ![p] = v]
    /\ field' = [field EXCEPT ![p] = f]
    /\ quiet' = [quiet EXCEPT ![p] = ~Writing]
    /\ raced' = [raced EXCEPT ![p] = FALSE]
    /\ UNCHANGED <<file, memo, now, info, head, got, torn, faults>>

\* GET of the settings.
BeginGet(p) ==
    /\ Start(p, "get", Nil, field[p])
    /\ UNCHANGED <<mu, calls>>

\* PUT of the settings: SetSettings first reads the preamble folder through
\* GetSettings.
BeginPut(p, v) ==
    /\ calls < MaxCalls /\ calls' = calls + 1
    /\ Start(p, "put", v, field[p])
    /\ UNCHANGED mu

\* Faulty variant of BeginMove: Vault.mu is not taken.
BeginMoveUnlocked(p, f) ==
    /\ calls < MaxCalls /\ calls' = calls + 1
    /\ mu' = p
    /\ Start(p, "move", Nil, f)

\* RenameFolder (DeleteFolder, DuplicateFolder) takes Vault.mu and reads the
\* settings.
BeginMove(p, f) ==
    /\ calls < MaxCalls /\ calls' = calls + 1
    /\ mu = Nil /\ mu' = p
    /\ Start(p, "move", Nil, f)

Release(p) == mu' = IF mu = p THEN Nil ELSE mu

\* A call returns; its variables are gone.
Return(p) ==
    /\ Goto(p, "idle")
    /\ Release(p)
    /\ call' = [call EXCEPT ![p] = "none"]
    /\ next' = [next EXCEPT ![p] = Nil]
    /\ info' = [info EXCEPT ![p] = NoInfo]
    /\ got' = [got EXCEPT ![p] = Broken]
    /\ quiet' = [quiet EXCEPT ![p] = FALSE]
    /\ raced' = [raced EXCEPT ![p] = FALSE]

\* What each call does with what GetSettings returned: a GET answers, a folder
\* call moves its trees (it may fail) and hands the changed settings to
\* SetSettings, and SetSettings goes on to write, whatever its own read found.
Answer(p) ==
    /\ at[p] = "got"
    /\ call[p] = "get" \/ (call[p] = "move" /\ next[p] = Nil)
    /\ Return(p)
    /\ UNCHANGED <<file, memo, now, field, head, torn, calls, faults>>

ChangeEntry(p) ==
    /\ at[p] = "got" /\ call[p] = "move" /\ next[p] = Nil
    /\ got[p] # Broken
    /\ \E b \in {0, 1} : next' = [next EXCEPT ![p] = [got[p] EXCEPT ![field[p]] = b]]
    /\ quiet' = [quiet EXCEPT ![p] = ~Writing]
    /\ Goto(p, "stat")
    /\ UNCHANGED <<file, memo, now, mu, call, field, info, head, got, marks, calls, faults>>

SetSettings(p) ==
    /\ at[p] = "got" /\ next[p] # Nil
    /\ Goto(p, "truncate")
    /\ UNCHANGED <<file, memo, now, mu, call, next, field, info, head, got, quiet, marks, calls, faults>>

\* The time of a write.
Stamp(doc) ==
    IF Coarse THEN file' = doc /\ UNCHANGED now
    ELSE now' = now + 1 /\ file' = [doc EXCEPT !.mtime = now + 1]

\* What a write by p is to the calls in progress.
Disturb(p) ==
    /\ quiet' = [q \in Procs |-> FALSE]
    /\ raced' = [q \in Procs |-> raced[q] \/ (call[p] = "put" /\ call[q] = "move")]

\* os.WriteFile opens the file, made or cut to nothing...
Truncate(p) ==
    /\ at[p] = "truncate"
    /\ Stamp([Empty EXCEPT !.mtime = now])
    /\ Disturb(p)
    /\ torn' = \E q \in Procs : at[q] = "write" /\ "put" \in {call[p], call[q]}
    /\ Goto(p, "write")
    /\ UNCHANGED <<memo, mu, call, next, field, info, head, got, calls, faults>>

\* ...and writes from its start, over what another call may have written by now.
Write(p) ==
    /\ at[p] = "write"
    /\ Stamp(IF file.size <= Bytes[next[p]]
             THEN [value |-> next[p], size |-> Bytes[next[p]], mtime |-> now]
             ELSE [file EXCEPT !.value = Broken, !.mtime = now])
    /\ Disturb(p)
    /\ Goto(p, "drop")
    /\ UNCHANGED <<memo, mu, call, next, field, info, head, got, torn, calls, faults>>

\* MkdirAll, the open, or the write fails.
WriteFails(p) ==
    /\ at[p] \in {"truncate", "write"}
    /\ Fault
    /\ Return(p)
    /\ torn' = (torn \/ at[p] = "write")
    /\ UNCHANGED <<file, memo, now, field, head, calls>>

\* invalidateSettingsCache
Drop(p) ==
    /\ at[p] = "drop"
    /\ memo' = Nil
    /\ Goto(p, "inbox")
    /\ UNCHANGED <<file, now, mu, call, next, field, info, head, got, quiet, marks, calls, faults>>

\* The inbox directory is made, or is not; the call returns either way.
Inbox(p) ==
    /\ at[p] = "inbox"
    /\ Return(p)
    /\ UNCHANGED <<file, memo, now, field, head, torn, calls, faults>>

Tick ==
    /\ Coarse /\ now < MaxTicks
    /\ now' = now + 1
    /\ UNCHANGED <<file, memo, mu, at, call, next, field, info, head, got, quiet, marks, calls, faults>>

\* The server stops and is started again.
Crash ==
    /\ \E p \in Procs : at[p] # "idle"
    /\ Fault
    /\ at' = [p \in Procs |-> "idle"]
    /\ mu' = Nil
    /\ memo' = Nil
    /\ call' = [p \in Procs |-> "none"]
    /\ next' = [p \in Procs |-> Nil]
    /\ info' = [p \in Procs |-> NoInfo]
    /\ got' = [p \in Procs |-> Broken]
    /\ quiet' = [p \in Procs |-> FALSE]
    /\ raced' = [p \in Procs |-> FALSE]
    /\ torn' = (torn \/ \E p \in Procs : at[p] = "write")
    /\ UNCHANGED <<file, now, field, head, calls>>

-----------------------------------------------------------------------------

SettingsInit ==
    /\ file \in {[value |-> v, size |-> Bytes[v], mtime |-> 0] : v \in Values} \union {Nil}
    /\ memo = Nil
    /\ now = 0
    /\ mu = Nil
    /\ at = [p \in Procs |-> "idle"]
    /\ call = [p \in Procs |-> "none"]
    /\ next = [p \in Procs |-> Nil]
    /\ field = [p \in Procs |-> CHOOSE f \in Fields : TRUE]
    /\ info = [p \in Procs |-> NoInfo]
    /\ head = [p \in Procs |-> Empty]
    /\ got = [p \in Procs |-> Broken]
    /\ quiet = [p \in Procs |-> FALSE]
    /\ raced = [p \in Procs |-> FALSE]
    /\ torn = FALSE
    /\ calls = 0
    /\ faults = 0

GetStep(p) == Stat(p) \/ Lookup(p) \/ ReadHead(p) \/ ReadRest(p) \/ Keep(p)
UseSettings(p) == Answer(p) \/ ChangeEntry(p) \/ SetSettings(p)
SetStep(p) == Truncate(p) \/ Write(p) \/ WriteFails(p) \/ Drop(p) \/ Inbox(p)

SettingsNext ==
    \/ \E p \in Getters : BeginGet(p)
    \/ \E p \in Putters, v \in Values : BeginPut(p, v)
    \/ \E p \in Movers, f \in Fields : BeginMove(p, f)
    \/ \E p \in Procs : GetStep(p) \/ UseSettings(p) \/ SetStep(p)
    \/ Tick \/ Crash

SettingsSpec == SettingsInit /\ [][SettingsNext]_settingsVars

-----------------------------------------------------------------------------
\* Properties

Content == IF file = Nil THEN Default ELSE file.value

\* A GetSettings during which no settings were written returns what the file
\* holds, whatever was read, written and cached before it and at its side
\* (vault.go:1014 "The next read re-parses rather than trusting a same-tick
\* mtime").
QuietReads ==
    \A p \in Procs : at[p] = "got" /\ quiet[p] => got[p] = Content

\* vault.go:183 "concurrency-safe at the public-method level": while no call is
\* writing vault.json it parses, unless a PUT wrote while another call did, or a
\* write was cut short.
FileReadable ==
    file # Nil /\ ~torn /\ ~(\E p \in Procs : at[p] = "write") => file.value # Broken

\* vault.go:183: what a folder call is about to write differs from what the
\* file holds by its own entry at most, unless a PUT wrote since it began; no
\* other folder call's setting is taken back.
MoveKeepsRest ==
    \A p \in Movers :
       call[p] = "move" /\ at[p] = "truncate" /\ ~raced[p] /\ Content # Broken =>
          \A f \in Fields \ {field[p]} : next[p][f] = Content[f]

\* vault.json through its cache and its two-step write, on a clock that never
\* repeats: what is read is what is there, what is there parses, and folder calls
\* leave each other's entries alone.
SettingsKept == QuietReads /\ FileReadable /\ MoveKeepsRest
=============================================================================
