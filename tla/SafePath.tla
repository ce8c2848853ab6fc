------------------------------- MODULE SafePath ------------------------------
(***************************************************************************)
(* The paths that requests name, and where they lead: SafeJoin and         *)
(* SafeDestination of internal/vault/safepath.go over every arrangement of *)
(* folders, files and links, compared with what opening the path reaches.  *)
(*                                                                         *)
(* A place is the sequence of its names from the top of the disk, "." and  *)
(* ".." already taken out (filepath.Clean); a link names a place so.  The  *)
(* vault is there, and nothing changes between a check and the use of it.  *)
(***************************************************************************)
EXTENDS Naturals, Sequences, TLC

CONSTANTS
    Names,
    Fixed,      \* what is there in any case: a function of places
    Places,     \* the other places where there may be something
    Targets,    \* what links name
    Roots,      \* the vault's path as it was given: its own, or through a link
    Asked,      \* the paths asked for, below the vault
    dir, file, None,    \* what a place holds that holds no link
    notdir,     \* the error of a file in a folder's place
    MaxLinks    \* links followed at most (255 in the code)

Path == Seq(Names)
Nodes == {None, dir, file} \union Targets
Front(p) == SubSeq(p, 1, Len(p) - 1)

ConstantsOK ==
    /\ Places \union Targets \union Roots \union Asked \union DOMAIN Fixed \subseteq Path
    /\ \A p \in Places : Len(p) > 1 /\ Front(p) \in Places \union DOMAIN Fixed
    /\ MaxLinks \in Nat

VARIABLES
    disk,     \* what is at each place: nothing, a folder, a file, or a link's target
    root,     \* the vault's path
    asked,    \* the path asked for last, or None
    join,     \* whether SafeJoin took it
    dest      \* whether SafeDestination did

vars == <<disk, root, asked, join, dest>>

TypeOK ==
    /\ disk \in [Places \union DOMAIN Fixed -> Nodes] /\ root \in Roots
    /\ asked \in Asked \union {None} /\ join \in BOOLEAN /\ dest \in BOOLEAN

\* A disk: what is below something is below a folder.
Init ==
    /\ \E free \in [Places -> Nodes] : disk = free @@ Fixed
    /\ \A p \in Places : disk[p] # None => disk[Front(p)] = dir
    /\ root \in Roots
    /\ asked = None /\ join = FALSE /\ dest = FALSE

-----------------------------------------------------------------------------
\* The file system

At(p) == IF p = <<>> THEN dir ELSE IF p \in DOMAIN disk THEN disk[p] ELSE None
IsLink(node) == node \notin {None, dir, file}

\* Where todo leads from the place at.  With make, what is missing is taken to be
\* made; None if a name is missing, a file is in the way, or links go round.
Lead[left \in Nat, at \in Path, todo \in Path, make \in BOOLEAN] ==
    IF todo = <<>> THEN at
    ELSE LET next == Append(at, Head(todo))
             node == At(next)
         IN  CASE IsLink(node) /\ left > 0 -> Lead[left - 1, <<>>, node \o Tail(todo), make]
               [] node = dir \/ (node = file /\ Tail(todo) = <<>>) -> Lead[left, next, Tail(todo), make]
               [] node = None /\ make -> next \o Tail(todo)
               [] OTHER -> None

\* filepath.EvalSymlinks.
Real(p) == Lead[MaxLinks, <<>>, p, FALSE]
Inside(p) == p # None /\ SubSeq(p, 1, Len(Real(root))) = Real(root)

\* os.Lstat of a name in a folder that a walk has reached: links in the folder's path
\* are followed; a file in the folder's place is an error of its own.
Lstat(p) ==
    LET d == Real(Front(p)) IN
    CASE d = None -> None
      [] d # None /\ At(d) = file -> notdir
      [] OTHER -> At(Append(d, p[Len(p)]))

-----------------------------------------------------------------------------
\* SafeJoin and SafeDestination

\* The walk over the parts of a path: the first that is not there ends it, a link has
\* to lead inside the vault.
Walk[walk \in Path, todo \in Path] ==
    IF todo = <<>> THEN TRUE
    ELSE LET next == Append(walk, Head(todo))
             node == Lstat(next)
         IN  CASE node = notdir -> FALSE
               [] node = None -> TRUE
               [] node \in {dir, file} -> Walk[next, Tail(todo)]
               [] OTHER -> Inside(Real(next)) /\ Walk[Real(next), Tail(todo)]

\* Mutant: the path is resolved as a whole, if it can be.
SafeJoinWhole(rel) == LET t == Real(root \o rel) IN t = None \/ Inside(t)

SafeJoin(rel) == Walk[root, rel]

\* Mutant: the last part is left to the operation that follows.
PartsAbove(rel) == {SubSeq(rel, 1, k) : k \in 1..(Len(rel) - 1)}

PartsOf(rel) == {SubSeq(rel, 1, k) : k \in 1..Len(rel)}

\* Every part that is there is a folder or a file.
SafeDestination(rel) ==
    /\ SafeJoin(rel)
    /\ \A q \in PartsOf(rel) : Lstat(root \o q) \in {None, dir, file}

Ask(rel) ==
    /\ asked' = rel
    /\ join' = SafeJoin(rel) /\ dest' = SafeDestination(rel)
    /\ UNCHANGED <<disk, root>>

Next == \E rel \in Asked : Ask(rel)

Spec == Init /\ [][Next]_vars

-----------------------------------------------------------------------------
\* Properties

Opened == Lead[MaxLinks, <<>>, root \o asked, TRUE]
Plain == \A q \in PartsOf(asked) : At(Real(root) \o q) \in {None, dir}

\* A path that is taken leads into the vault, be it to what is to be made ("refusing
\* anything that resolves outside `root`"); one through folders only is taken.
TakenLeadsInside ==
    asked # None =>
        /\ join => Opened = None \/ Inside(Opened)
        /\ Plain => join

\* A destination that is taken leads just where it says ("a link never takes a new
\* file or folder somewhere other than the path it was asked for"), below folders.
DestinationIsAsked ==
    asked # None =>
        /\ dest => Opened \in {None, Real(root) \o asked}
        /\ Plain => dest
=============================================================================
