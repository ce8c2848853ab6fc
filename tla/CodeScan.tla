------------------------------ MODULE CodeScan -------------------------------
(***************************************************************************)
(* Which lines of a note are in a fenced block of code, by the three       *)
(* scanners that ask: stripCodeContent (tags, the links of a note, its     *)
(* excerpt) and ParseTasksWith (tasks) of internal/vault/parse.go, and     *)
(* wikiCodeMask (the references a rename writes anew) of                   *)
(* wikilink_rename.go.  Each begins at the first line and keeps a state of *)
(* its own.                                                                *)
(*                                                                         *)
(* A line is plain text, which may hold a task or a link, or what a fence  *)
(* may look like, after any indentation.  Inline code, which the scanners  *)
(* pair alike within a line, is left out.                                  *)
(***************************************************************************)
EXTENDS Naturals

CONSTANTS
    Fences,     \* lines that begin with a fence
    Text,       \* any other line
    NoFence,    \* no block is open
    MaxLines    \* bound: lines of a note

FenceType == [char : {"tick", "tilde"}, len : Nat \ (0..2),
              rest : {"none", "words", "backtick"}]   \* what follows on the line

CodeConstantsOK ==
    /\ Fences \subseteq FenceType
    /\ Text \notin Fences /\ NoFence \notin Fences /\ Text # NoFence
    /\ MaxLines \in Nat

VARIABLES
    code, tasks, links,   \* the fence of the block each scanner is in
    last,                 \* the last line, and who takes it for code
    within,               \* the fences met within a block, each with the block's own
    odd,                  \* whether a fence that opens no block was met outside one
    lines

codeVars == <<code, tasks, links, last, within, odd, lines>>

Readings == [code : BOOLEAN, tasks : BOOLEAN, links : BOOLEAN]

CodeTypeOK ==
    /\ {code, tasks, links} \subseteq Fences \union {NoFence}
    /\ last \in [line : Fences \union {Text, NoFence}, in : Readings]
    /\ within \subseteq Fences \X Fences /\ odd \in BOOLEAN /\ lines \in 0..MaxLines

CodeInit ==
    /\ code = NoFence /\ tasks = NoFence /\ links = NoFence
    /\ last = [line |-> NoFence, in |-> [code |-> FALSE, tasks |-> FALSE, links |-> FALSE]]
    /\ within = {} /\ odd = FALSE /\ lines = 0

-----------------------------------------------------------------------------

\* "A backtick fence's info string may not contain a backtick."
Opens(l) == l.char = "tilde" \/ l.rest # "backtick"

\* Mutant: a block is closed by a fence of either character.
ClosesAny(f, l) == l.len >= f.len /\ l.rest = "none"

\* stripCodeContent: a fence closes a block of its character that began with no longer
\* a one, and only with nothing after it.
Closes(f, l) == l.char = f.char /\ l.len >= f.len /\ l.rest = "none"

\* Mutant: a block is closed by any fence.
EndsAny(f, l) == l.len >= 3

\* ParseTasksWith: one as long, whatever follows.
Ends(f, l) == l.char = f.char /\ l.len = f.len

InCode(l) ==
    IF l = Text THEN code
    ELSE IF code = NoFence THEN (IF Opens(l) THEN l ELSE NoFence)
    ELSE IF Closes(code, l) THEN NoFence ELSE code

InTasks(l) ==
    IF l = Text THEN tasks
    ELSE IF tasks = NoFence THEN l
    ELSE IF Ends(tasks, l) THEN NoFence ELSE tasks

\* Mutant: the reset at a closing fence is missing.
InLinksStill(l) == IF l = Text \/ links # NoFence THEN links ELSE l

\* wikiCodeMask: every fence begins a block or ends it.
InLinks(l) ==
    IF l = Text THEN links ELSE IF links = NoFence THEN l ELSE NoFence

\* One line, by all three; a fence that begins or ends a block is part of it.
ReadLine(l) ==
    /\ lines < MaxLines /\ lines' = lines + 1
    /\ code' = InCode(l) /\ tasks' = InTasks(l) /\ links' = InLinks(l)
    /\ last' = [line |-> l, in |-> [code |-> {code, code'} # {NoFence},
                                    tasks |-> l # Text \/ tasks # NoFence,
                                    links |-> l # Text \/ links # NoFence]]
    /\ within' = within \union (IF l # Text /\ code # NoFence THEN {<<code, l>>} ELSE {})
    /\ odd' = (odd \/ (code = NoFence /\ code' = NoFence /\ l # Text))

CodeNext == \E l \in Fences \union {Text} : ReadLine(l)

CodeSpec == CodeInit /\ [][CodeNext]_codeVars

-----------------------------------------------------------------------------
\* Properties

\* A task is listed just when it is in no block (the three scanners are to take the same
\* lines for code): in a note where a fence that opens no block was met in none, and where
\* whatever fence of its own character a block holds is the bare one, as long as the first,
\* that ends it.  Fences of the other character may be in it.
TasksAgree ==
    /\ ~odd
    /\ \A f, l \in Fences :
         <<f, l>> \in within /\ l.char = f.char => l.len = f.len /\ l.rest = "none"
    => last.in.tasks = last.in.code

\* A rename writes anew just the references in no block: in a note where a fence that
\* opens no block was met in none, and where the one fence a block holds is that which
\* ends it.  A block that holds another, of either character, is what this leaves out:
\* LinksUntouched.
LinksAgree ==
    /\ ~odd
    /\ \A f, l \in Fences : <<f, l>> \in within => Closes(f, l)
    => last.in.links = last.in.code

\* Tasks are listed, and references written anew, outside blocks of code alone, and there
\* always: in the notes the two name.
ScannersAgree == TasksAgree /\ LinksAgree

\* "... so links there are left untouched" (wikiCodeMask): a reference in a fenced block,
\* whatever fences the block holds, is not written anew.
LinksUntouched == last.line = Text /\ last.in.code => last.in.links
=============================================================================
