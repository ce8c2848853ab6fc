----------------------------- MODULE AssetStore ----------------------------
(***************************************************************************)
(* The files of assets: import, rename, move, and the store of deleted     *)
(* ones that they are restored from (vault.go and asset_trash.go of        *)
(* internal/vault).  Every operation holds v.mu from beginning to end, so  *)
(* what may come between its steps is a failing system call or the end of  *)
(* the process.  The rewriting of references is module AssetLinks'.        *)
(*                                                                         *)
(* An asset is a file or a link to one, and is where it is: at a path, in  *)
(* the directory of an undo token under the name it had, or nowhere.  A    *)
(* link names a path outright, or, when relative, a name in the directory  *)
(* it is in.  Hard links, and links to links, are left out.                *)
(***************************************************************************)
EXTENDS Naturals, FiniteSets

CONSTANTS
    AssetFiles,
    Links,          \* links to a file of the vault
    RelativeLinks,  \* those of them that are relative
    Padded,    \* files whose names begin with a space
    Dirs,
    BaseNames,
    Assets,    \* the directory of imports
    Deleted,   \* the store of deleted assets
    None,      \* no path, no token, nowhere
    Temp,      \* what `.zenrename.tmp' adds to a name
    MaxOps,    \* bound: operations
    Faults     \* bound: failures and crashes

All == AssetFiles \union Links
Paths == Dirs \X BaseNames
TempOf(p) == <<p[1], <<p[2], Temp>> >>
Temps == Dirs \X (BaseNames \X {Temp})
Tokens == 1..MaxOps
Bin(t) == <<Deleted, t>>
Bins == {Bin(t) : t \in Tokens}
Places == Paths \union Temps \union Bins

ConstantsOK ==
    /\ AssetFiles \intersect Links = {}
    /\ RelativeLinks \subseteq Links /\ Padded \subseteq AssetFiles
    /\ Assets \in Dirs /\ Deleted \notin Dirs
    /\ BaseNames \intersect (BaseNames \X {Temp}) = {}
    /\ None \notin All \union Places \union Tokens
    /\ MaxOps \in Nat /\ Faults \in Nat

Steps == {"idle", "meta", "move", "viaTemp", "restore", "clean"}

VARIABLES
    at,      \* where each asset is
    names,   \* the path each link names
    entry,   \* the path in the metadata of each token's directory
    dirs,    \* the directories of the vault there are
    op,      \* the operation under way: its step, asset, token, destination
    failed,  \* the asset of the last operation, if that was a renaming, a move or a
             \* deletion answered with an error, and where the asset was before it
    purged,  \* assets whose removal for good was asked for, and that have not come back
    ops,
    faults

vars == <<at, names, entry, dirs, op, failed, purged, ops, faults>>

Idle == [pc |-> "idle", asset |-> None, token |-> None, dest |-> None]
NoFailure == [asset |-> None, was |-> None]

TypeOK ==
    /\ at \in [All -> Places \union {None}]
    /\ names \in [Links -> Paths]
    /\ entry \in [Tokens -> Paths \union {None}]
    /\ dirs \in SUBSET Dirs
    /\ \A a \in All : at[a] \in Paths => at[a][1] \in dirs
    /\ op \in [pc : Steps, asset : All \union {None}, token : Tokens \union {None},
               dest : Paths \union {None}]
    /\ failed \in [asset : All, was : Paths] \union {NoFailure}
    /\ purged \in SUBSET All
    /\ ops \in 0..MaxOps /\ faults \in 0..Faults

\* The file a link leads to when assets are where `place' has them: that at the path
\* it names, a relative one's being in the directory it is in.
PathNamed(place, l) ==
    IF l \in RelativeLinks
    THEN IF place[l] \in Paths \union Temps THEN <<place[l][1], names[l][2]>> ELSE None
    ELSE names[l]
FileFrom(place, a) ==
    IF a \in AssetFiles THEN {a}
    ELSE {f \in AssetFiles : place[f] \in Paths /\ place[f] = PathNamed(place, a)}
LeadsTo(a) == FileFrom(at, a)

Present == {a \in All : at[a] \in Paths}
Servable == {a \in Present : LeadsTo(a) # {}}

Init ==
    /\ \E place \in [All -> Paths \union {None}] :
         /\ \A a, b \in All : a # b /\ place[a] # None => place[a] # place[b]
         /\ \A l \in Links : place[l] # None
         /\ at = place
    /\ \E f \in [Links -> AssetFiles] :
         /\ \A l \in Links : at[f[l]] \in Paths /\ (l \in RelativeLinks => at[f[l]][1] = at[l][1])
         /\ names = [l \in Links |-> at[f[l]]]
    /\ entry = [t \in Tokens |-> None]
    /\ dirs = {at[a][1] : a \in {b \in All : at[b] \in Paths}} \union {Assets}
    /\ op = Idle
    /\ failed = NoFailure
    /\ purged = {}
    /\ ops = 0 /\ faults = 0

-----------------------------------------------------------------------------

\* An operation begins; no other is under way.
Begin ==
    /\ op = Idle /\ ops < MaxOps
    /\ ops' = ops + 1

Fault == faults < Faults /\ faults' = faults + 1

Start(first) == op' = first /\ failed' = NoFailure
Answer == op' = Idle /\ failed' = NoFailure
Refuse(a, was) == op' = Idle /\ failed' = [asset |-> a, was |-> was]

\* The answer to a renaming or a move describes the file that is then at the place,
\* and is an error when a link there leads nowhere.
Describe(a, was) == IF FileFrom(at', a) = {} THEN Refuse(a, was) ELSE Answer

\* os.Rename: what is at the destination is replaced.
Renamed(a, dest) ==
    [b \in All |-> IF b = a THEN dest ELSE IF at[b] = dest THEN None ELSE at[b]]

Free(p) == \A a \in All : at[a] # p

\* uniquePath: the name itself, or a numbered one that nothing has.
FreePath(p) ==
    IF Free(p) THEN {p} ELSE {q \in {p[1]} \X BaseNames : Free(q)}

\* RemoveAll of a token's directory whose error is ignored.
Cleanup(t) ==
    \/ entry' = [entry EXCEPT ![t] = None] /\ UNCHANGED faults
    \/ Fault /\ UNCHANGED entry

\* The last operation's token is new.
NewToken == ops + 1

\* ImportAsset; what was written of a file that fails is removed.
Import(f) ==
    /\ Begin
    /\ at[f] = None /\ f \notin purged
    /\ dirs' = dirs \union {Assets}
    /\ \/ \E n \in BaseNames : \E p \in FreePath(<<Assets, n>>) : at' = [at EXCEPT ![f] = p]
       \/ UNCHANGED at
    /\ Answer
    /\ UNCHANGED <<names, entry, purged, faults>>

\* renameAssetFile: to a name that is free, not to another file's; when both
\* lead to one file, by way of a temporary name.  A link that leads nowhere is no
\* file, and is replaced; one that leads to itself is an error.
Rename(a) ==
    /\ Begin
    /\ a \in Servable
    /\ \E n \in BaseNames :
         LET dest == <<at[a][1], n>>
             there == {b \in Servable \ {a} : at[b] = dest}
             circle == \E l \in Links \ {a} : at[l] = dest /\ PathNamed(at, l) = dest
         IN  \/ /\ there = {} /\ ~circle /\ dest # at[a]
                /\ at' = Renamed(a, dest)
                /\ Answer
                /\ UNCHANGED faults
             \/ /\ there = {} /\ dest # at[a]
                /\ Fault /\ Refuse(a, at[a]) /\ UNCHANGED at
             \/ /\ circle /\ Refuse(a, at[a]) /\ UNCHANGED <<at, faults>>
             \/ /\ \E b \in there : LeadsTo(b) # LeadsTo(a)
                /\ Refuse(a, at[a]) /\ UNCHANGED <<at, faults>>
             \/ /\ \E b \in there : LeadsTo(b) = LeadsTo(a)
                /\ at' = Renamed(a, TempOf(at[a]))
                /\ Start([Idle EXCEPT !.pc = "viaTemp", !.asset = a, !.dest = dest])
                /\ UNCHANGED faults
    /\ UNCHANGED <<names, entry, dirs, purged>>

\* The second renaming; when it fails, the asset stays under the temporary name.
RenameFromTemp ==
    /\ op.pc = "viaTemp"
    /\ LET was == <<at[op.asset][1], at[op.asset][2][1]>>
       IN  \/ /\ at' = Renamed(op.asset, op.dest)
              /\ Describe(op.asset, was)
              /\ UNCHANGED faults
           \/ Fault /\ Refuse(op.asset, was) /\ UNCHANGED at
    /\ UNCHANGED <<names, entry, dirs, purged, ops>>

\* moveAssetFile
Move(a) ==
    /\ Begin
    /\ a \in Servable
    /\ \E d \in Dirs \ {at[a][1]} :
         /\ dirs' = dirs \union {d}
         /\ \/ \E p \in FreePath(<<d, at[a][2]>>) :
                 /\ at' = Renamed(a, p)
                 /\ Describe(a, at[a])
                 /\ UNCHANGED faults
            \/ Fault /\ Refuse(a, at[a]) /\ UNCHANGED at
    /\ UNCHANGED <<names, entry, purged>>

-----------------------------------------------------------------------------
\* DeleteAsset: a directory for the token, the metadata, then the file

Delete(a) ==
    /\ Begin
    /\ a \in Servable
    /\ \/ /\ Start([Idle EXCEPT !.pc = "meta", !.asset = a, !.token = NewToken])
          /\ UNCHANGED faults
       \/ Fault /\ Refuse(a, at[a])
    /\ UNCHANGED <<at, names, entry, dirs, purged>>

\* Mutant: that the metadata could not be written is not noticed.
DeleteMetaAnyway ==
    /\ op.pc = "meta"
    /\ \/ entry' = [entry EXCEPT ![op.token] = at[op.asset]] /\ UNCHANGED faults
       \/ Fault /\ UNCHANGED entry
    /\ op' = [op EXCEPT !.pc = "move"]
    /\ UNCHANGED <<at, names, dirs, failed, purged, ops>>

DeleteMeta ==
    /\ op.pc = "meta"
    /\ \/ /\ entry' = [entry EXCEPT ![op.token] = at[op.asset]]
          /\ op' = [op EXCEPT !.pc = "move"]
          /\ UNCHANGED <<failed, faults>>
       \/ Fault /\ Refuse(op.asset, at[op.asset]) /\ UNCHANGED entry
    /\ UNCHANGED <<at, names, dirs, purged, ops>>

DeleteMove ==
    /\ op.pc = "move"
    /\ \/ /\ at' = Renamed(op.asset, Bin(op.token))
          /\ Answer
          /\ UNCHANGED <<entry, faults>>
       \/ /\ faults < Faults
          /\ Refuse(op.asset, at[op.asset])
          /\ Cleanup(op.token)
          /\ UNCHANGED at
    /\ UNCHANGED <<names, dirs, purged, ops>>

-----------------------------------------------------------------------------
\* RestoreDeletedAsset: the file to a free name in its old directory, then
\* the token's directory away

Restore(t) ==
    /\ Begin
    /\ entry[t] # None
    /\ dirs' = dirs \union {entry[t][1]}
    /\ \E p \in FreePath(entry[t]) :
         Start([Idle EXCEPT !.pc = "restore", !.token = t, !.dest = p])
    /\ UNCHANGED <<at, names, entry, purged, faults>>

\* The name in the metadata, trimmed, is what is moved.
Restorable(t) == {a \in All \ Padded : at[a] = Bin(t)}

Restored(a) ==
    /\ at' = Renamed(a, op.dest)
    /\ purged' = purged \ {a}

\* Mutant: the token's directory is removed whether the file was moved or not.
RestoreMoveOrNot ==
    /\ op.pc = "restore"
    /\ \/ (\E a \in Restorable(op.token) : Restored(a)) /\ UNCHANGED faults
       \/ Fault /\ UNCHANGED <<at, purged>>
    /\ op' = [op EXCEPT !.pc = "clean"]
    /\ UNCHANGED <<names, entry, dirs, failed, ops>>

RestoreMove ==
    /\ op.pc = "restore"
    /\ \/ /\ \E a \in Restorable(op.token) : Restored(a)
          /\ op' = [op EXCEPT !.pc = "clean"]
          /\ UNCHANGED <<failed, faults>>
       \/ /\ Restorable(op.token) = {}
          /\ Answer
          /\ UNCHANGED <<at, purged, faults>>
       \/ Fault /\ Answer /\ UNCHANGED <<at, purged>>
    /\ UNCHANGED <<names, entry, dirs, ops>>

\* All that the token's directory holds is removed.
RestoreClean ==
    /\ op.pc = "clean"
    /\ at' = [a \in All |-> IF at[a] = Bin(op.token) THEN None ELSE at[a]]
    /\ Cleanup(op.token)
    /\ Answer
    /\ UNCHANGED <<names, dirs, purged, ops>>

\* The Trash view lists an entry that has its metadata and whose file is there.
Listed(t) ==
    /\ entry[t] # None
    /\ \E a \in All : at[a] = Bin(t) /\ LeadsTo(a) # {}

-----------------------------------------------------------------------------
\* PurgeDeletedAsset and EmptyDeletedAssets; a failing removal may leave the
\* metadata, the file, or both

Remove(ts) ==
    LET theirs == {a \in All : \E t \in ts : at[a] = Bin(t)} IN
    /\ Begin
    /\ purged' = purged \union theirs
    /\ \/ /\ at' = [a \in All |-> IF a \in theirs THEN None ELSE at[a]]
          /\ entry' = [t \in Tokens |-> IF t \in ts THEN None ELSE entry[t]]
          /\ UNCHANGED faults
       \/ /\ Fault
          /\ \E gone \in SUBSET theirs, bare \in SUBSET ts :
               /\ at' = [a \in All |-> IF a \in gone THEN None ELSE at[a]]
               /\ entry' = [t \in Tokens |-> IF t \in bare THEN None ELSE entry[t]]
    /\ Answer
    /\ UNCHANGED <<names, dirs>>

Purge(t) == Remove({t})
Empty == Remove(Tokens)

\* Another program removes a directory that holds nothing.
RemoveDirectory(d) ==
    /\ op = Idle
    /\ d \in dirs /\ \A a \in All : at[a] \in Paths \union Temps => at[a][1] # d
    /\ dirs' = dirs \ {d}
    /\ UNCHANGED <<at, names, entry, op, failed, purged, ops, faults>>

\* The process ends in the middle of an operation.
Crash ==
    /\ op # Idle
    /\ Fault
    /\ Answer
    /\ UNCHANGED <<at, names, entry, dirs, purged, ops>>

Next ==
    \/ \E f \in AssetFiles : Import(f)
    \/ \E a \in All : Rename(a) \/ Move(a) \/ Delete(a)
    \/ RenameFromTemp \/ DeleteMeta \/ DeleteMove
    \/ \E t \in Tokens : Restore(t) \/ Purge(t)
    \/ RestoreMove \/ RestoreClean
    \/ Empty \/ Crash
    \/ \E d \in Dirs : RemoveDirectory(d)

Spec == Init /\ [][Next]_vars

-----------------------------------------------------------------------------
\* Properties

\* A file is gone only if its removal for good was asked for: no failure, no
\* crash and no other operation destroys it or takes its place.  Two renamings do, by
\* way of a temporary name: that of a link to the file's own name, and that of
\* an asset whose temporary name an earlier one, which failed, has left to the file.
LosesNothing ==
    \A f \in AssetFiles : at[f] # None /\ at'[f] = None =>
        \/ f \in purged'
        \/ op.pc = "viaTemp" /\ op.asset \in Links /\ at[f] = op.dest
        \/ op'.pc = "viaTemp" /\ at[f] \in Temps /\ at[f] = at'[op'.asset]
NothingLost == [][LosesNothing]_vars

\* A renaming, move or deletion that answers with an error has left the asset where it
\* was ("a failure anywhere leaves the asset still in the vault"), unless the second of
\* two renamings failed, or the asset is a link that leads nowhere where it is now.
ErrorLeaves ==
    failed # NoFailure =>
        \/ at[failed.asset] \in {failed.was, TempOf(failed.was)}
        \/ failed.asset \in Links /\ LeadsTo(failed.asset) = {}

\* An asset in the store of deleted ones is listed, whatever failed or crashed before,
\* unless it is a link that leads nowhere there: none is "gone from the vault with no
\* in-app way back".
NoneStranded ==
    \A a \in All \ purged, t \in Tokens : at[a] = Bin(t) /\ LeadsTo(a) # {} => Listed(t)

\* What a deletion promises, kept or not.
DeletedRecoverable == NoneStranded /\ ErrorLeaves
=============================================================================
