--------------------------- MODULE TemplateFiles ----------------------------
(***************************************************************************)
(* The custom templates of a vault (templates.go of internal/vault): files *)
(* of one flat directory, named after a slug the client asks for.  An edit *)
(* names the file it replaces; when the slug it lands on is another, the   *)
(* new file is written first and the old one removed after.                *)
(*                                                                         *)
(* Each operation holds v.mu; what may come between the steps of a save is *)
(* a failing system call or the end of the process.  The write itself is   *)
(* one step: it is writeFileAtomic, module AtomicWrite.                    *)
(***************************************************************************)
EXTENDS Naturals, Sequences, Functions

CONSTANTS
    Stems,       \* file names less their `.md'
    Lower,       \* Lower[s]: s in lower case
    Exts,        \* the spellings of the extension: md, and MD where that is met
    Slugs,       \* the slugs asked for
    Candidates,  \* Candidates[s]: s, s-2, s-3, as many as are tried
    Folding,     \* whether the file system takes names in other case for the same
    FolderNames, \* names that may be those of directories
    md,          \* the extension the server gives
    Folder, None,
    MaxOps,      \* bound: operations
    Faults       \* bound: failing system calls and crashes

Names == Stems \X Exts

(* A text is the one found under a name, or that of the n-th operation. *)
Found(n) == <<n, 0>>
Saved(n) == <<None, n>>
Contents == {Found(n) : n \in Names} \union {Saved(n) : n \in 1..MaxOps}

ConstantsOK ==
    /\ Lower \in [Stems -> Stems]
    /\ md \in Exts
    /\ Candidates \in [Slugs -> Seq({s \in Stems : Lower[s] = s})]
    /\ Folding \in BOOLEAN
    /\ Folder \notin Contents /\ None \notin Names
    /\ MaxOps \in Nat /\ Faults \in Nat

VARIABLES
    files,   \* the templates directory: what each name holds
    op,      \* the save under way: its step, the file it replaces, the one it writes
    live,    \* contents saved and neither replaced nor deleted
    left,    \* contents replaced, whose removal failed or did not come
    astray,  \* contents destroyed though neither replaced nor deleted
    met,     \* names that were there, or that a save has answered with
    answer,  \* what the last operation answered
    ops,
    faults

vars == <<files, op, live, left, astray, met, answer, ops, faults>>

Idle == [pc |-> "idle", previous |-> None, target |-> None]

(* Two names are those of one file. *)
Same(n, m) == n = m \/ (Folding /\ Lower[n[1]] = Lower[m[1]])

TypeOK ==
    /\ \E S \in SUBSET Names :
         /\ files \in [S -> Contents \union {Folder}]
         /\ \A n, m \in S : Same(n, m) => n = m
    /\ op \in [pc : {"idle", "write", "remove", "mistaken"}, previous : Names \union {None},
               target : Names \union {None}]
    /\ met \subseteq Names
    /\ live \subseteq Contents /\ left \subseteq Contents /\ astray \subseteq Contents
    /\ answer \in {"ok", "error", None}
    /\ ops \in 0..MaxOps /\ faults \in 0..Faults

Held(n) == {e \in DOMAIN files : Same(e, n)}  \* the entry n leads to, if any
Texts(n) == {files[e] : e \in Held(n)} \ {Folder}

(* The first candidate that is the stem of the file replaced, or is free.  *)
Free(slug, previous) ==
    LET fits(s) == (previous # None /\ previous[1] = s) \/ Held(<<s, md>>) = {}
        cs == Candidates[slug]
    IN  {cs[i] : i \in {j \in 1..Len(cs) : /\ fits(cs[j])
                                           /\ \A k \in 1..(j - 1) : ~fits(cs[k])}}

----------------------------------------------------------------------------
Init ==
    /\ \E S \in SUBSET Names, D \in SUBSET FolderNames :
         /\ D \subseteq S
         /\ \A n, m \in S : Same(n, m) => n = m
         /\ files = [n \in S |-> IF n \in D THEN Folder ELSE Found(n)]
         /\ live = {Found(n) : n \in S \ D}
         /\ met = S
    /\ op = Idle /\ left = {} /\ astray = {} /\ answer = None /\ ops = 0 /\ faults = 0

(* WriteTemplate up to its write: a client saves a template, new or in     *)
(* place of one it names, which may be gone by now.                        *)
Choose(slug, previous) ==
    /\ op = Idle /\ ops < MaxOps
    /\ ops' = ops + 1
    /\ \/ \E s \in Free(slug, previous) :
            /\ op' = [pc |-> "write", previous |-> previous, target |-> <<s, md>>]
            /\ answer' = None
       \/ /\ Free(slug, previous) = {}
          /\ answer' = "error" /\ op' = op
    /\ UNCHANGED <<files, live, left, astray, met, faults>>

(* The content lands under the name there is, in the case that one has. *)
Land(n, c) == LET at == IF Held(n) = {} THEN {n} ELSE Held(n)
              IN  [e \in DOMAIN files \union at |-> IF e \in at THEN c ELSE files[e]]

(* A name with its extension in other case has the stem of the file        *)
(* replaced, and may be another's all the same.                            *)
StemOfAnother == /\ op.previous # None /\ op.previous[1] = op.target[1]
                 /\ ~Same(op.previous, op.target)

Write ==
    /\ op.pc = "write"
    /\ \A e \in Held(op.target) : files[e] # Folder
    /\ files' = Land(op.target, Saved(ops))
    /\ live' = (live \ (IF op.previous = None THEN {} ELSE Texts(op.previous)))
               \union {Saved(ops)}
    /\ astray' = astray \union (IF StemOfAnother THEN Texts(op.target) ELSE {})
    /\ op' = [op EXCEPT !.pc = "remove"]
    /\ met' = met \union {op.target}
    /\ UNCHANGED <<left, answer, ops, faults>>

WriteFails ==
    /\ op.pc = "write"
    /\ \/ (\E e \in Held(op.target) : files[e] = Folder) /\ faults' = faults
       \/ faults < Faults /\ faults' = faults + 1
    /\ op' = Idle /\ answer' = "error"
    /\ UNCHANGED <<files, live, left, astray, met, ops>>

(* Mutant: by the names alone. *)
RemovesOther == op.previous \notin {None, op.target}

(* Whether the file replaced is another than the one written.              *)
Superseded == op.previous # None /\ Held(op.previous) # Held(op.target)

(* os.SameFile compares the two; a failing os.Stat leaves sameFile false,  *)
(* and the spelling decides.                                               *)
Removes == IF op.pc = "mistaken" THEN op.previous \notin {None, op.target} ELSE Superseded

StatFails ==
    /\ op.pc = "remove" /\ op.previous \notin {None, op.target} /\ faults < Faults
    /\ op' = [op EXCEPT !.pc = "mistaken"] /\ faults' = faults + 1
    /\ UNCHANGED <<files, live, left, astray, met, answer, ops>>

Without(S) == [e \in DOMAIN files \ S |-> files[e]]

(* Where the check failed and the two names are one, the file just saved   *)
(* goes.                                                                   *)
RemovePrevious ==
    /\ op.pc \in {"remove", "mistaken"}
    /\ Removes => \A e \in Held(op.previous) : files[e] # Folder
    /\ files' = IF Removes THEN Without(Held(op.previous)) ELSE files
    /\ astray' = astray \union
         (IF op.pc = "mistaken" /\ ~Superseded THEN Texts(op.target) ELSE {})
    /\ op' = Idle /\ answer' = "ok"
    /\ UNCHANGED <<live, left, met, ops, faults>>

(* What a save that ends before the removal leaves behind. *)
Leaves == left' = left \union (IF Superseded THEN Texts(op.previous) ELSE {})

(* A directory is not empty, and stays. *)
RemoveFails ==
    /\ op.pc \in {"remove", "mistaken"} /\ Removes
    /\ \/ (\E e \in Held(op.previous) : files[e] = Folder) /\ faults' = faults
       \/ Held(op.previous) # {} /\ faults < Faults /\ faults' = faults + 1
    /\ Leaves
    /\ op' = Idle /\ answer' = "error"
    /\ UNCHANGED <<files, live, astray, met, ops>>

(* The process ends, and another takes the vault up. *)
Crash ==
    /\ op.pc # "idle" /\ faults < Faults
    /\ faults' = faults + 1
    /\ IF op.pc = "write" THEN left' = left ELSE Leaves
    /\ op' = Idle /\ answer' = None
    /\ UNCHANGED <<files, live, astray, met, ops>>

(* DeleteTemplate: a file that is not there counts as deleted. *)
Delete(n) ==
    /\ op = Idle /\ ops < MaxOps
    /\ ops' = ops + 1
    /\ \/ /\ \A e \in Held(n) : files[e] # Folder
          /\ files' = Without(Held(n)) /\ live' = live \ Texts(n)
          /\ answer' = "ok" /\ faults' = faults
       \/ /\ \/ (\E e \in Held(n) : files[e] = Folder) /\ faults' = faults
             \/ Held(n) # {} /\ faults < Faults /\ faults' = faults + 1
          /\ answer' = "error" /\ UNCHANGED <<files, live>>
    /\ UNCHANGED <<op, left, astray, met>>

Next ==
    \/ \E slug \in Slugs, previous \in met \union {None} : Choose(slug, previous)
    \/ \E n \in met : Delete(n)
    \/ Write \/ WriteFails \/ StatFails \/ RemovePrevious \/ RemoveFails \/ Crash

Spec == Init /\ [][Next]_vars

----------------------------------------------------------------------------
(* ListTemplates, as a client sees it between two operations. *)
Listed == Range(files) \ {Folder}

(* No template is lost: what was saved, and neither replaced nor deleted    *)
(* since, is in the directory, through every failure and crash             *)
(* (uniqueTemplateSlug and the order of WriteTemplate's two steps), but    *)
(* for two ways the code has of destroying one: a name that has the stem   *)
(* of the file replaced and is another's, and the file just saved where    *)
(* its identity could not be told from the old one's.                      *)
NothingLost == live \ astray \subseteq Listed

(* And nothing else is: between operations a template that was replaced or *)
(* deleted is listed only if its removal was cut short (WriteTemplate's    *)
(* removal of the previous file).                                          *)
ReplacedIsGone == op = Idle => Listed \subseteq live \union left

(* What a client is listed is what it has saved and not given up, but for  *)
(* the two.                                                                *)
TemplatesKept == NothingLost /\ ReplacedIsGone

=============================================================================
