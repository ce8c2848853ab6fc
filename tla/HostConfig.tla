----------------------------- MODULE HostConfig ----------------------------
(***************************************************************************)
(* The server's own state and its two files: the host config (server.json, *)
(* written when a vault is selected or the token is rotated) and the       *)
(* browser sessions (sessions.json, where they are persisted).  Login,     *)
(* logout, rotation and selection are HTTP requests that run at once; the  *)
(* server may be restarted at any time.  internal/httpserver/security.go,  *)
(* switchVaultRoot of server.go, Load and SaveHost of internal/config.     *)
(*                                                                         *)
(* A session is a record of its number and of the token it was opened      *)
(* with, which the code does not keep.  Tokens are not empty and come from *)
(* the host config; the time a session lasts is left out, and the limit on *)
(* attempts is in AttemptLimiter.  A file is written in one step, or the   *)
(* writing fails.  The names begin with Host where MCServer, which extends *)
(* this module, would meet them elsewhere.                                 *)
(***************************************************************************)
EXTENDS Naturals, FiniteSets

CONSTANTS
    Handlers,       \* requests at a time
    Tokens,
    Vaults,
    Absent,         \* no token, no config
    MaxSessions,    \* bound: logins
    MaxChanges,     \* bound: rotations and selections
    MaxRestarts     \* bound: restarts

HostConstantsOK == MaxSessions \in Nat /\ MaxChanges \in Nat /\ MaxRestarts \in Nat

Config == [token : Tokens, vault : Vaults]
Session == [id : 1..MaxSessions, token : Tokens]
HostSteps == {"idle", "grant", "save", "restore", "clear", "saveVault"}
Excuses == {"overlap", "stale", "cut"}

VARIABLES
    persist,   \* ZENNOTES_PERSIST_SESSIONS
    mem,       \* s.Config
    file,      \* server.json
    sessions,  \* the session store
    stored,    \* sessions.json
    unsaved,   \* whether the last writing of it failed
    ended,     \* the numbers of the sessions logged out of, or ended by a rotation
    request,   \* what each handler is at, and what it holds
    alone,     \* whether no rotation under way has had another request beside it
    excuses,   \* what has happened since a rotation that was alone: one that was not
               \* ("overlap"), a start from a "stale" sessions.json, a rotation "cut" short
    logins,
    changes,
    restarts

hostFiles == <<mem, file, sessions, stored, unsaved>>
hostBounds == <<logins, changes, restarts>>
hostVars == <<persist, hostFiles, ended, request, alone, excuses, hostBounds>>

HostTypeOK ==
    /\ persist \in BOOLEAN
    /\ mem \in Config /\ file \in Config
    /\ sessions \in SUBSET Session /\ stored \in SUBSET Session
    /\ ended \in SUBSET (1..MaxSessions)
    /\ request \in [Handlers -> [pc : HostSteps, token : Tokens \union {Absent}, copy : Config \union {Absent}]]
    /\ unsaved \in BOOLEAN /\ alone \in BOOLEAN /\ excuses \in SUBSET Excuses
    /\ logins \in 0..MaxSessions
    /\ changes \in 0..MaxChanges
    /\ restarts \in 0..MaxRestarts

Idle == [pc |-> "idle", token |-> Absent, copy |-> Absent]

HostInit ==
    /\ persist \in BOOLEAN
    /\ mem \in Config /\ file = mem
    /\ sessions = {} /\ stored = {} /\ unsaved = FALSE /\ ended = {}
    /\ request = [h \in Handlers |-> Idle]
    /\ alone = TRUE /\ excuses = {}
    /\ logins = 0 /\ changes = 0 /\ restarts = 0

Stands(h, pc) == request[h].pc = pc
Do(h, pc, token, copy) ==
    request' = [request EXCEPT ![h] = [pc |-> pc, token |-> token, copy |-> copy]]
Done(h) == request' = [request EXCEPT ![h] = Idle]

Quiet == \A h \in Handlers : Stands(h, "idle")
Rotates(h) == request[h].pc \in {"save", "restore", "clear"}
Rotating == \E h \in Handlers : Rotates(h)

\* A request begins: a rotation alone or beside another, another beside a rotation or not.
Begin(h, pc, token, copy) ==
    /\ Do(h, pc, token, copy)
    /\ alone' = IF pc = "save" THEN Quiet ELSE ~Rotating
    /\ excuses' = IF alone' THEN excuses ELSE excuses \union {"overlap"}

-----------------------------------------------------------------------------
\* The session store

\* persistLocked, under the store's lock: a failure is logged, and leaves the
\* file as it was, or, where it was cut short, without a readable session.
Persisted ==
    IF persist
    THEN \/ stored' = sessions' /\ unsaved' = FALSE
         \/ stored' \in {stored, {}} /\ unsaved' = TRUE
    ELSE UNCHANGED <<stored, unsaved>>

\* The token is compared with the config as it is now; the session follows.
LoginCheck(h) ==
    /\ Stands(h, "idle") /\ logins < MaxSessions
    /\ Begin(h, "grant", mem.token, Absent)
    /\ logins' = logins + 1
    /\ UNCHANGED <<persist, hostFiles, ended, changes, restarts>>

LoginGrant(h) ==
    /\ Stands(h, "grant")
    /\ \E n \in 1..logins :
         /\ \A s \in sessions \union stored : s.id # n
         /\ n \notin ended
         /\ sessions' = sessions \union {[id |-> n, token |-> request[h].token]}
    /\ Persisted
    /\ Done(h)
    /\ UNCHANGED <<persist, mem, file, ended, alone, excuses, hostBounds>>

\* Mutant: the session is dropped from memory only.
LogoutMemory(h) ==
    /\ Stands(h, "idle")
    /\ \E s \in sessions :
         /\ sessions' = sessions \ {s}
         /\ ended' = ended \union {s.id}
    /\ UNCHANGED <<persist, mem, file, stored, unsaved, request, alone, excuses, hostBounds>>

Logout(h) ==
    /\ Stands(h, "idle")
    /\ \E s \in sessions :
         /\ sessions' = sessions \ {s}
         /\ ended' = ended \union {s.id}
    /\ Persisted
    /\ UNCHANGED <<persist, mem, file, request, alone, excuses, hostBounds>>

-----------------------------------------------------------------------------
\* The host config

\* sessionRotateToken, under s.mu: the current token is right.
Rotate(h) ==
    /\ Stands(h, "idle") /\ changes < MaxChanges
    /\ \E t \in Tokens \ {mem.token} :
         /\ mem' = [mem EXCEPT !.token = t]
         /\ Begin(h, "save", mem.token, mem')
    /\ changes' = changes + 1
    /\ UNCHANGED <<persist, file, sessions, stored, unsaved, ended, logins, restarts>>

\* SaveHost writes the copy taken under the lock.
RotateSave(h) ==
    /\ Stands(h, "save")
    /\ \/ /\ file' = request[h].copy
          /\ Do(h, "clear", Absent, Absent)
       \/ /\ Do(h, "restore", request[h].token, Absent)
          /\ UNCHANGED file
    /\ UNCHANGED <<persist, mem, sessions, stored, unsaved, ended, alone, excuses, hostBounds>>

\* The config that could not be saved is taken back.
RotateRestore(h) ==
    /\ Stands(h, "restore")
    /\ mem' = [mem EXCEPT !.token = request[h].token]
    /\ Done(h)
    /\ UNCHANGED <<persist, file, sessions, stored, unsaved, ended, alone, excuses, hostBounds>>

\* Mutant: the sessions in the file are left there.
RotateClearMemory(h) ==
    /\ Stands(h, "clear")
    /\ sessions' = {} /\ ended' = ended \union {s.id : s \in sessions}
    /\ excuses' = IF alone THEN {} ELSE excuses \ {"stale", "cut"}
    /\ Done(h)
    /\ UNCHANGED <<persist, mem, file, stored, unsaved, alone, hostBounds>>

\* deleteAll.
RotateClear(h) ==
    /\ Stands(h, "clear")
    /\ sessions' = {} /\ ended' = ended \union {s.id : s \in sessions}
    /\ Persisted
    /\ excuses' = IF alone THEN {} ELSE excuses \ {"stale", "cut"}
    /\ Done(h)
    /\ UNCHANGED <<persist, mem, file, alone, hostBounds>>

\* switchVaultRoot: the next vault under s.mu, with a copy of the config ...
SelectVault(h) ==
    /\ Stands(h, "idle") /\ changes < MaxChanges
    /\ \E v \in Vaults \ {mem.vault} :
         /\ mem' = [mem EXCEPT !.vault = v]
         /\ Begin(h, "saveVault", Absent, mem')
    /\ changes' = changes + 1
    /\ UNCHANGED <<persist, file, sessions, stored, unsaved, ended, logins, restarts>>

\* ... whose saving may fail without a word.
SelectSave(h) ==
    /\ Stands(h, "saveVault")
    /\ \/ file' = request[h].copy
       \/ UNCHANGED file
    /\ Done(h)
    /\ UNCHANGED <<persist, mem, sessions, stored, unsaved, ended, alone, excuses, hostBounds>>

-----------------------------------------------------------------------------

\* The process ends and begins anew from its files.
Restart ==
    /\ restarts < MaxRestarts
    /\ mem' = file
    /\ sessions' = IF persist THEN stored ELSE {}
    /\ request' = [h \in Handlers |-> Idle]
    /\ unsaved' = FALSE /\ alone' = TRUE
    /\ excuses' = excuses
          \union {e \in {"stale"} : unsaved}
          \union {e \in {"cut"} : persist /\ \E h \in Handlers : Stands(h, "clear")}
    /\ restarts' = restarts + 1
    /\ UNCHANGED <<persist, file, stored, ended, logins, changes>>

Request(h) ==
    \/ LoginCheck(h) \/ LoginGrant(h) \/ Logout(h)
    \/ Rotate(h) \/ RotateSave(h) \/ RotateRestore(h) \/ RotateClear(h)
    \/ SelectVault(h) \/ SelectSave(h)

HostNext == Restart \/ \E h \in Handlers : Request(h)

HostSpec == HostInit /\ [][HostNext]_hostVars

-----------------------------------------------------------------------------
\* Properties

\* With no rotation under way, every session was opened with the token the server
\* now asks for: a rotation ends those before it ("All existing sessions are
\* invalidated; clients must re-login with the new token").  Excused, until the next
\* rotation, are a login beside a rotation, a sessions.json that could not be
\* written, and a process that ends before the sessions are cleared.
SessionsOfToken == ~Rotating /\ excuses = {} => \A s \in sessions : s.token = mem.token

\* With no rotation under way, the token the server asks for is the one it will
\* ask for after a restart: a rotation is saved, or it is taken back.  Excused is
\* a rotation beside another or beside a selection, whose copies of the config may be
\* saved in the other order.
TokenKept == ~Rotating /\ "overlap" \notin excuses => file.token = mem.token

\* A session logged out of, or there when a rotation cleared the store, is not in
\* it again, be it after a restart, and whatever other requests do meanwhile.  Excused
\* is a sessions.json that could not be written, once it is read again.
LoggedOutStaysOut == "stale" \notin excuses => \A s \in sessions : s.id \notin ended

SessionsEnd == SessionsOfToken /\ TokenKept /\ LoggedOutStaysOut
=============================================================================
