----------------------------- MODULE AssetLinks -----------------------------
(***************************************************************************)
(* References to an asset and the moves of its file: asset_link_rename.go  *)
(* of internal/vault, as RenameAsset and MoveAsset of vault.go use it.     *)
(* A note refers to an asset by a Markdown destination or by a wikilink;   *)
(* the resolver reads either from the note's directory, then from the      *)
(* root of the vault, then as the name of the only file that has it.  When *)
(* the asset is renamed or moved, the references that resolve to it are    *)
(* written anew, in the style they were written in.  The server lists the  *)
(* assets, moves the file, and reads and writes the notes; each takes      *)
(* Vault.mu for itself, so that other requests come between, which move    *)
(* the asset too, or add and delete other files.                           *)
(*                                                                         *)
(* A path is a sequence of names (compared without case); a reference is   *)
(* a sequence of names and of `..'.  Percent-encoding, angle brackets,     *)
(* fragments and titles, which the code carries over, and references in    *)
(* code, which it skips, are left out.                                     *)
(***************************************************************************)
EXTENDS Naturals, FiniteSets, Sequences, SequencesExt

CONSTANTS
    Names,      \* names of files and directories
    Up,         \* `..'
    Outside,    \* what `..' of the root of the vault is
    None,       \* no asset
    MaxDepth,   \* bound: names in a path
    MaxAssets,  \* bound: assets
    Requests,   \* the requests that rename or move the asset
    MaxMoves,   \* bound: renames and moves of the asset
    MaxChanges,   \* bound: other files added or deleted
    MaxFailures   \* bound: steps that fail

ConstantsOK ==
    /\ Up \notin Names
    /\ \A k \in {MaxDepth, MaxAssets, MaxMoves, MaxChanges, MaxFailures} : k \in Nat

Root == <<>>
Files == BoundedSeq(Names, MaxDepth) \ {Root}
Directories == BoundedSeq(Names, MaxDepth - 1)
Written == BoundedSeq(Names \union {Up}, MaxDepth + 1) \ {Root}
References == [parts : Written, rooted : BOOLEAN, wiki : BOOLEAN]

VARIABLES
    assets,   \* the files of the vault that are not notes
    asset,    \* the one that is moved
    dir,      \* the directory of a note
    ref,      \* a reference in it
    call,     \* call[c]: where request c is, and what it knows
    shadowed, \* the asset's path has been, from the note's directory, that of another
    added,    \* the files others have added
    crowded,  \* one of them has had the asset's name
    leftOut,   \* a move has left the reference out: a step failed, or another move met it
    moves, changes, failures

vars == <<assets, asset, dir, ref, call, shadowed, added, crowded, leftOut, moves, changes, failures>>

Idle == [pc |-> "idle", listed |-> {}, old |-> Root, new |-> Root, read |-> None]

TypeOK ==
    /\ assets \in SUBSET Files
    /\ asset \in assets
    /\ dir \in Directories
    /\ ref.parts \in Seq(Names \union {Up}) /\ ref.parts # Root
    /\ ref.rooted \in BOOLEAN /\ ref.wiki \in BOOLEAN
    /\ \A c \in Requests :
          /\ call[c].pc \in {"idle", "move", "read", "write"}
          /\ call[c].listed \in SUBSET Files
          /\ call[c].pc = "write" => call[c].read # None
    /\ {shadowed, crowded, leftOut} \subseteq BOOLEAN
    /\ added \in SUBSET Files
    /\ moves \in 0..MaxMoves /\ changes \in 0..MaxChanges /\ failures \in 0..MaxFailures

-----------------------------------------------------------------------------
\* Resolving a reference

\* One segment of a path; `..' has nothing to go up to from the root.
Enter(path, part) ==
    IF path = Outside \/ (part = Up /\ path = Root) THEN Outside
    ELSE IF part = Up THEN Front(path)
    ELSE Append(path, part)

\* posixNormalize
Normalize(parts) == FoldLeft(Enter, Root, parts)

NotFound == [path |-> None, reading |-> "none"]

\* The files of some assets that have the name of a path.
Namesakes(files, path) == {a \in files : Last(a) = Last(path)}

\* resolveAssetReference: the asset, and the reading that found it.
Resolve(files, d, r) ==
    LET target == Normalize(IF r.rooted THEN r.parts ELSE d \o r.parts)
        other == Normalize(r.parts)
    IN CASE target = Outside -> NotFound
         [] target # Outside /\ target \in files ->
               [path |-> target,
                reading |-> IF r.rooted \/ d = Root THEN "vault-root" ELSE "note-relative"]
         [] target # Outside /\ target \notin files /\ ~r.rooted /\ other \in files ->
               [path |-> other, reading |-> "vault-root"]
         [] OTHER ->
               IF target # Root /\ Cardinality(Namesakes(files, target)) = 1
               THEN [path |-> CHOOSE a \in Namesakes(files, target) : TRUE,
                     reading |-> "basename"]
               ELSE NotFound

-----------------------------------------------------------------------------
\* Writing a reference anew

\* Faulty variant of Shared: names in common after one that differs count too.
SharedAnywhere(d, path) ==
    Cardinality({i \in 1..Len(d) : i <= Len(path) /\ d[i] = path[i]})

\* How far two paths have their names in common.
Shared(d, path) ==
    Cardinality({i \in 1..Len(d) : i <= Len(path) /\ SubSeq(d, 1, i) = SubSeq(path, 1, i)})

\* assetRelativeTo: out of a directory as far as needed, and into the other.
Relative(d, path) ==
    [i \in 1..(Len(d) - Shared(d, path)) |-> Up]
       \o SubSeq(path, Shared(d, path) + 1, Len(path))

\* Whether the new name is that of no other asset.
BareStillUnique(files, old, new) ==
    Namesakes(files \ {old}, new) = {}

Bare(r) == Len(r.parts) = 1 /\ ~r.rooted

\* assetRetarget: a bare name stays bare while unique, a relative path relative,
\* and any other names the file from the root.
Retarget(files, r, reading, d, old, new) ==
    IF reading = "basename" \/ (r.wiki /\ Bare(r))
    THEN [r EXCEPT !.rooted = FALSE,
                   !.parts = IF BareStillUnique(files, old, new) THEN <<Last(new)>> ELSE new]
    ELSE IF reading = "note-relative" /\ ~r.wiki
    THEN [r EXCEPT !.parts = Relative(d, new)]
    ELSE [r EXCEPT !.parts = new]

\* A file is not a directory.
Consistent(files, d) ==
    /\ \A f, g \in files : f # g => ~IsPrefix(f, g)
    /\ \A f \in files : ~IsPrefix(f, d)

Fault == failures < MaxFailures /\ failures' = failures + 1

Goes(c, state) == call' = [call EXCEPT ![c] = state]

\* Another file is hard to tell from the asset: it is where the note looks first, or it
\* is new and has the same name.
Hides(files, path) == dir # Root /\ dir \o path \in files
Crowds(new, path) == \E f \in new \ {path} : Last(f) = Last(path)

\* The assets and the notes, before the move.
List(c) ==
    /\ call[c].pc = "idle"
    /\ moves < MaxMoves /\ moves' = moves + 1
    /\ Goes(c, [Idle EXCEPT !.pc = "move", !.listed = assets, !.old = asset])
    /\ leftOut' = (leftOut \/ \E b \in Requests : call[b].pc # "idle")
    /\ UNCHANGED <<assets, asset, dir, ref, shadowed, added, crowded, changes, failures>>

\* A listing that fails is not looked at: no reference resolves by it.
ListFails(c) ==
    /\ call[c].pc = "idle"
    /\ moves < MaxMoves /\ moves' = moves + 1
    /\ Fault
    /\ Goes(c, [Idle EXCEPT !.pc = "move", !.old = asset])
    /\ leftOut' = TRUE
    /\ UNCHANGED <<assets, asset, dir, ref, shadowed, added, crowded, changes>>

Found(c) == call[c].pc = "move" /\ asset = call[c].old

\* renameAssetFile, moveAssetFile: the file the request names is moved.  When its metadata
\* cannot be read then, the request returns with no reference written.
MoveTo(c, new) ==
    /\ new \notin assets
    /\ Consistent((assets \ {asset}) \union {new}, dir)
    /\ assets' = (assets \ {asset}) \union {new}
    /\ asset' = new
    /\ shadowed' = (shadowed \/ Hides(assets, new))
    /\ crowded' = (crowded \/ Crowds(added, new))
    /\ \/ /\ Goes(c, [call[c] EXCEPT !.pc = "read", !.new = new])
          /\ UNCHANGED <<leftOut, failures>>
       \/ Fault /\ Goes(c, Idle) /\ leftOut' = TRUE
    /\ UNCHANGED <<dir, ref, added, moves, changes>>

RenameAsset(c, name) == Found(c) /\ MoveTo(c, Front(asset) \o <<name>>)

\* The name stays, unless it is taken in that directory: then it is numbered.
MoveAsset(c, d, name) ==
    /\ Found(c)
    /\ d # Front(asset)
    /\ name = Last(asset) \/ d \o <<Last(asset)>> \in assets
    /\ MoveTo(c, d \o <<name>>)

\* The file is gone, or the move fails.
MoveFails(c) ==
    /\ call[c].pc = "move"
    /\ Goes(c, Idle)
    /\ UNCHANGED <<assets, asset, dir, ref, shadowed, added, crowded, leftOut, moves, changes, failures>>

\* rewriteAssetReferences: the note is read; a reference that resolved to the asset by the
\* listing is to be written anew...
Read(c) ==
    LET before == Resolve(call[c].listed, dir, ref) IN
    /\ call[c].pc = "read"
    /\ Goes(c, IF before.path # call[c].old THEN Idle
               ELSE [call[c] EXCEPT !.pc = "write",
                        !.read = Retarget(call[c].listed, ref, before.reading, dir,
                                          call[c].old, call[c].new)])
    /\ UNCHANGED <<assets, asset, dir, ref, shadowed, added, crowded, leftOut, moves, changes, failures>>

\* ...and the note is written...
Write(c) ==
    /\ call[c].pc = "write"
    /\ ref' = call[c].read
    /\ Goes(c, Idle)
    /\ UNCHANGED <<assets, asset, dir, shadowed, added, crowded, leftOut, moves, changes, failures>>

\* ...unless the one or the other fails, which nobody hears of.
PassOver(c) ==
    /\ call[c].pc \in {"read", "write"}
    /\ Fault
    /\ Goes(c, Idle)
    /\ leftOut' = TRUE
    /\ UNCHANGED <<assets, asset, dir, ref, shadowed, added, crowded, moves, changes>>

\* Other requests add a file, or delete one.
Add(f) ==
    /\ changes < MaxChanges /\ changes' = changes + 1
    /\ f \notin assets
    /\ Consistent(assets \union {f}, dir)
    /\ assets' = assets \union {f}
    /\ added' = added \union {f}
    /\ shadowed' = (shadowed \/ Hides({f}, asset))
    /\ crowded' = (crowded \/ Crowds({f}, asset))
    /\ UNCHANGED <<asset, dir, ref, call, leftOut, moves, failures>>

Delete(f) ==
    /\ changes < MaxChanges /\ changes' = changes + 1
    /\ f \in assets \ {asset}
    /\ assets' = assets \ {f}
    /\ added' = added \ {f}
    /\ UNCHANGED <<asset, dir, ref, call, shadowed, crowded, leftOut, moves, failures>>

Init ==
    /\ assets \in {S \in SUBSET Files : Cardinality(S) \in 1..MaxAssets}
    /\ asset \in assets
    /\ dir \in Directories
    /\ Consistent(assets, dir)
    /\ ref \in {r \in References : Resolve(assets, dir, r).path = asset}
    /\ call = [c \in Requests |-> Idle]
    /\ shadowed = FALSE
    /\ added = {}
    /\ crowded = FALSE
    /\ leftOut = FALSE
    /\ moves = 0 /\ changes = 0 /\ failures = 0

Next ==
    \/ \E c \in Requests :
          \/ List(c) \/ ListFails(c) \/ MoveFails(c) \/ Read(c) \/ Write(c) \/ PassOver(c)
          \/ \E name \in Names :
                \/ RenameAsset(c, name)
                \/ \E d \in Directories : MoveAsset(c, d, name)
    \/ \E f \in Files : Add(f) \/ Delete(f)

Spec == Init /\ [][Next]_vars

-----------------------------------------------------------------------------
\* Properties

\* A reference to an asset leads to it after every rename and every move, whatever it was
\* written like, whatever names other assets have, and whatever was added and deleted
\* between the steps; unless the path of the asset, read from the note's directory, was
\* that of another, a new file has had its name, two moves met, or a step failed.
UnshadowedFollows ==
    (\A c \in Requests : call[c].pc = "idle") /\ ~shadowed /\ ~crowded /\ ~leftOut =>
        Resolve(assets, dir, ref).path = asset
=============================================================================
