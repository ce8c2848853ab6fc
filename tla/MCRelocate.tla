----------------------------- MODULE MCRelocate -----------------------------
(***************************************************************************)
(* Relocate on three paths, of which a and b are in one directory and c in *)
(* the other; the temporary directory is a third.  The numbers are such    *)
(* that a link carried verbatim from b to c would name a file that is not  *)
(* there instead of a.  A vault has one of the casts below in it.          *)
(***************************************************************************)
EXTENDS Relocate, TLC

CONSTANTS a, b, c, tmp, n, m, lk, f, g, Scenes

VARIABLE scene

\* Two notes, or two folders, that nothing tells apart.
Alike == Permutations({n, m}) \union Permutations({f, g})

ThreePlaces == {a, b, c}
MCTemps == {tmp}
MCDirOf == [s \in Spots |-> CASE s \in {a, b} -> 0 [] s = c -> 10 [] OTHER -> 30]
MCPos == [s \in Spots |-> CASE s = a -> 1 [] s = b -> 2 [] s = c -> 12 [] OTHER -> 31]

\* Who may be in the vault, now or at any time: a link and a note, a folder, or two
\* notes, a copy and its original, with all the faults; with one of them a note beside a
\* folder, and two folders.
There == {i \in Items : \E t \in Trees, s \in Spots : trees[t][s] = i}
One(S) == ~S \subseteq There

Cast ==
    CASE scene = "link" -> There \subseteq {n, m, lk} /\ One({n, m})
      [] scene = "folder" -> There \subseteq {f, g} /\ One({f, g})
      [] scene = "notes" -> There \subseteq {n, m}
      [] scene = "beside" -> There \subseteq {n, m, f, g} /\ One({n, m}) /\ One({f, g}) /\ faults <= 1
      [] scene = "folders" -> There \subseteq {f, g} /\ faults <= 1

\* A link that is not there has a text all the same.
Absent == lk \notin There => text[lk] = 1

ASSUME Scenes \subseteq {"link", "folder", "notes", "beside", "folders"}

MCInit ==
    /\ scene \in Scenes
    /\ Init
    /\ Cast
    /\ scene # "link" => Absent

MCNext == Next /\ UNCHANGED scene /\ Cast'

MCSpec == MCInit /\ [][MCNext]_<<vars, scene>>
=============================================================================
