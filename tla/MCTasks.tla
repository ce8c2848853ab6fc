------------------------------- MODULE MCTasks ------------------------------
(***************************************************************************)
(* Tasks and templates: the walk that finds a task's parent (TaskNesting), *)
(* which lines are code (CodeScan), which notes the Tasks views take in    *)
(* (TaskScope), and the files of the custom templates (TemplateFiles).     *)
(* They share no state, so they are explored one at a time: a behaviour is *)
(* one of the components in one of the scenes below, and the variables of  *)
(* the others stand still.                                                 *)
(***************************************************************************)
EXTENDS TemplateFiles, TaskScope, CodeScan, Integers, TLC

CONSTANTS Scenes,
    d1, d2, bin, hid, assets, Quick,     \* names of directories
    note, hidden,                        \* and of notes
    adr, Adr, adr2, log, upper           \* names of templates

VARIABLES
    scene,
    open, paragraph, quotes, parent, count, held     \* TaskNesting

ofNesting == <<open, paragraph, quotes, parent, count, held>>
MCVars == <<scene, ofNesting, scopeVars, vars, codeVars>>

-----------------------------------------------------------------------------
\* TaskNesting over every note of a few lines: a list with tasks, bullets and
\* text; every shape of line at the columns where the walk decides; quotes, with
\* items around and inside them.

Plain(m, c, s) == [marks |-> m, col |-> c, shape |-> s, wide |-> 0, spaces |-> 0,
                   rest |-> "none", task |-> FALSE]
Item(m, c, s, w, sp, r, t) == [marks |-> m, col |-> c, shape |-> s, wide |-> w,
                               spaces |-> sp, rest |-> r, task |-> t]
Bullet(m, c, t) == Item(m, c, "bullet", 1, 1, "text", t)

ListLines ==
    {Plain(<<>>, 0, "blank")}
    \union {Plain(<<>>, c, "text") : c \in {0, 2, 6}}
    \union {Bullet(<<>>, c, t) : c \in {0, 2, 4, 6}, t \in BOOLEAN}
AllLines ==
    ListLines
    \union {Plain(<<>>, c, s) : c \in {0, 2}, s \in {"underline", "block", "tag"}}
    \union {Item(<<>>, c, s, 1, 0, "none", FALSE) : c \in {0, 2}, s \in {"bullet", "dash"}}
    \union {Item(<<>>, c, "bullet", 1, 5, "text", TRUE) : c \in {0, 2}}
    \union {Item(<<>>, 0, "bullet", 1, 5, "none", FALSE)}
    \union {Item(<<>>, c, "bullet", 1, 1, "block", FALSE) : c \in {0, 2}}
    \union {Item(<<>>, c, s, 2, 1, "text", t) :
              c \in {0, 3}, s \in {"one", "number"}, t \in BOOLEAN}
QuoteLines ==
    {Plain(m, 0, "blank") : m \in {<<>>, <<0>>, <<2>>}}
    \union {Plain(m, 0, "text") : m \in {<<>>, <<0>>, <<2>>}}
    \union {Bullet(m, c, TRUE) : m \in {<<>>, <<0>>, <<2>>, <<2, 0>>, <<0, 2>>}, c \in {0, 2}}

Listing == INSTANCE TaskNesting WITH Lines <- ListLines, MaxLines <- 6
Shaped == INSTANCE TaskNesting WITH Lines <- AllLines, MaxLines <- 4
Quoted == INSTANCE TaskNesting WITH Lines <- QuoteLines, MaxLines <- 5

NestingScenes == {"list", "shapes", "quotes"}

\* TaskScope with folders of a user's, one of them in another, beside hidden and reserved
\* ones, the system folders in several directories, and lists that name a folder and one
\* in it, whether they are there or not; one move is too long for a list.

Usual == [f \in Folders |-> f]
ManyMaps == {Usual, [Usual EXCEPT ![trash] = bin], [Usual EXCEPT ![quick] = trash],
             [Usual EXCEPT ![inbox] = d1, ![quick] = bin]}
ManyDirs == {<<d1>>, <<d1, d2>>, <<inbox, d1>>, <<inbox, d1, d2>>, <<d1, hid>>, <<hid>>,
             <<assets>>, <<bin>>, <<Quick>>}
Quickly == [x \in Dirs \union NoteNames |-> IF x = Quick THEN quick ELSE x]
ManyLists == {{}, {<<d1>>, <<d1, d2>>}, {<<inbox, d1>>}}
ManyTemplates == {{}, {<<d1, d2>>}}

\* TemplateFiles with two slugs, on a file system that tells case apart and on one
\* that does not.

AllStems == {adr, adr2, log}
CasedStems == {adr, Adr, adr2}
LowerOf == [s \in CasedStems |-> IF s = Adr THEN adr ELSE s]
NoCase == [s \in AllStems |-> s]
Tried == adr :> <<adr, adr2>> @@ log :> <<log>>
Taken == {<<adr2, md>>}

Folded == INSTANCE TemplateFiles WITH
    Stems <- CasedStems, Lower <- LowerOf, Slugs <- {adr, adr2},
    Candidates <- adr :> <<adr, adr2>> @@ adr2 :> <<adr2>>,
    Folding <- TRUE, FolderNames <- {}

TemplateScenes == {"exact", "folded"}

\* CodeScan with fences of either character, a longer one, and what may follow one.

Fence(c, l, r) == [char |-> c, len |-> l, rest |-> r]
ManyFences == {Fence("tick", 3, "none"), Fence("tick", 3, "words"),
               Fence("tick", 3, "backtick"), Fence("tick", 4, "none"),
               Fence("tilde", 3, "none"), Fence("tilde", 4, "words")}

ASSUME
    /\ Scenes \subseteq NestingScenes \union TemplateScenes \union {"scope", "code"}
    /\ Listing!ConstantsOK /\ Shaped!ConstantsOK /\ Quoted!ConstantsOK
    /\ ScopeConstantsOK /\ CodeConstantsOK
    /\ ConstantsOK /\ Folded!ConstantsOK

-----------------------------------------------------------------------------

NoNesting == /\ open = None /\ paragraph = None /\ quotes = None
             /\ parent = None /\ count = None /\ held = None

NestingInit ==
    \/ scene = "list" /\ Listing!Init
    \/ scene = "shapes" /\ Shaped!Init
    \/ scene = "quotes" /\ Quoted!Init

\* Where the scene is another's, a component starts from one of its initial states.
MCInit ==
    /\ scene \in Scenes
    /\ IF scene \in NestingScenes THEN NestingInit ELSE NoNesting
    /\ IF scene = "folded" THEN Folded!Init ELSE Init
    /\ scene \notin TemplateScenes => files = <<>>
    /\ CodeInit
    /\ ScopeInit
    /\ scene # "scope" => /\ primary = "inbox" /\ sys = Usual
                          /\ lists = <<{}, {}, {}>>

NestingNext ==
    /\ \/ scene = "list" /\ Listing!Next
       \/ scene = "shapes" /\ Shaped!Next
       \/ scene = "quotes" /\ Quoted!Next
    /\ UNCHANGED <<scene, scopeVars, vars, codeVars>>

FoldersNext ==
    /\ scene = "scope" /\ ScopeNext
    /\ UNCHANGED <<scene, ofNesting, vars, codeVars>>

TemplatesNext ==
    /\ \/ scene = "exact" /\ Next
       \/ scene = "folded" /\ Folded!Next
    /\ UNCHANGED <<scene, ofNesting, scopeVars, codeVars>>

LinesNext ==
    /\ scene = "code" /\ CodeNext
    /\ UNCHANGED <<scene, ofNesting, scopeVars, vars>>

MCNext == NestingNext \/ FoldersNext \/ TemplatesNext \/ LinesNext

MCSpec == MCInit /\ [][MCNext]_MCVars

-----------------------------------------------------------------------------
\* Properties: those of TaskScope, CodeScan and TemplateFiles, whose variables stand still
\* in the scenes of others, and that of TaskNesting

\* The types of the components.
TypesOK ==
    /\ scene \in Scenes
    /\ scene = "list" => Listing!TypeOK
    /\ scene = "shapes" => Shaped!TypeOK
    /\ scene = "quotes" => Quoted!TypeOK
    /\ ScopeTypeOK /\ CodeTypeOK
    /\ scene # "folded" => TypeOK
    /\ scene = "folded" => Folded!TypeOK

\* The walk's stack holds the items that the rules of Markdown leave open, and a
\* task's parent is the task whose item it is directly inside.
ParentHoldsIt ==
    /\ scene = "list" => Listing!StackIsOpenItems /\ Listing!ParentHoldsIt
    /\ scene = "shapes" => Shaped!StackIsOpenItems /\ Shaped!ParentHoldsIt
    /\ scene = "quotes" => Quoted!StackIsOpenItems /\ Quoted!ParentHoldsIt
=============================================================================
