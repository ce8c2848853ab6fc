---------------------------- MODULE TaskNesting -----------------------------
(***************************************************************************)
(* The walk of internal/vault/task_nesting.go over the lines of a note,    *)
(* which finds the task a task line is a subtask of: a stack of open list  *)
(* items, the text (paragraph) that may go on lazily, and the blockquotes. *)
(*                                                                         *)
(* A line is what the walk measures of it: the columns of its > markers,   *)
(* the column of its first character, and the shape of what starts there.  *)
(* The regular expressions that tell the shapes apart are left out, and so *)
(* are tabs, which are columns by then, and lines inside a fence, which    *)
(* visit never sees.                                                       *)
(***************************************************************************)
EXTENDS Integers, Sequences, FiniteSetsExt

CONSTANTS
    Lines,      \* the lines a note may have
    MaxLines,   \* how many lines a note has at the most
    None

Shapes ==
    {"blank",
     "text",        \* may only open or continue a paragraph
     "underline",   \* === or --
     "block",       \* a heading, a fence or HTML that interrupts a paragraph
     "tag",         \* HTML that does not
     "rule",        \* a rule with spaces: * * *
     "bullet", "one", "number",   \* a list item: - text, 1. and any other number
     "dash"}        \* an empty item that underlines text as well: a lone -

\* The shapes that nestingListItemRe takes for a list item, a rule with spaces among them.
ItemShapes == {"bullet", "one", "number", "dash", "rule"}

LineType == [marks : Seq(Nat), col : Nat, shape : Shapes,
             wide : Nat,     \* the length of an item's marker
             spaces : Nat,   \* the columns after the marker
             rest : {"none", "text", "block"},   \* what the item begins with
             task : BOOLEAN]

ConstantsOK ==
    /\ MaxLines \in Nat
    /\ \A l \in Lines :
          /\ l \in LineType
          /\ l.shape \in ItemShapes => l.wide > 0
          /\ l.spaces = 0 \/ l.shape = "dash" => l.rest = "none"
          /\ l.task => l.shape \in ItemShapes \ {"rule"} /\ l.rest = "text"

VARIABLES
    open,      \* the list items the lines so far leave open, outermost first
    paragraph, \* the quote depth of the text they leave open, or None
    quotes,    \* how many quotes they leave open
    parent,    \* what visit returned for the last line
    count,     \* how many lines there were
    held       \* the items open by the rules of Markdown: their number and their line

vars == <<open, paragraph, quotes, parent, count, held>>

Init ==
    /\ open = <<>>
    /\ paragraph = None
    /\ quotes = 0
    /\ parent = None
    /\ count = 0
    /\ held = {}

-----------------------------------------------------------------------------
\* Helpers

\* The items before the first that P holds of, and those up to the last it does not.
Before(items, P(_)) ==
    SubSeq(items, 1, Min({i \in DOMAIN items : P(items[i])} \union {Len(items) + 1}) - 1)
Popped(items, P(_)) ==
    SubSeq(items, 1, Max({i \in DOMAIN items : ~P(items[i])} \union {0}))

\* Each > sits inside the items of the level it opens from.
quotesStayInside(marks) ==
    \A d \in DOMAIN marks : \A i \in DOMAIN open :
        open[i].depth = d - 1 => open[i].contentCol <= marks[d]

\* The content column of the deepest item of that depth that col is inside.
baseFor(depth, col) ==
    LET level == SelectSeq(open, LAMBDA it : it.depth = depth)
        inside == Before(level, LAMBDA it : it.contentCol > col)
    IN  IF inside = <<>> THEN 0 ELSE inside[Len(inside)].contentCol

inList(ordered) == \E i \in DOMAIN open : open[i].ordered = ordered

\* What may cut an open paragraph short.
interrupts(l) ==
    CASE l.shape \in {"block", "rule"} -> TRUE
      [] l.shape \in {"bullet", "dash"} -> l.rest # "none" \/ inList(FALSE)
      [] l.shape = "one" -> l.rest # "none" \/ inList(TRUE)
      [] l.shape = "number" -> inList(TRUE)
      [] OTHER -> FALSE

\* What a line that is not blank does to the open paragraph.
meetParagraph(l) ==
    LET depth == Len(l.marks)
        level == SelectSeq(open, LAMBDA it : it.depth = depth)
    IN  IF \/ paragraph = None
           \/ depth > paragraph
           \/ ~quotesStayInside(l.marks)
        THEN "ends"
        ELSE IF l.col - baseFor(depth, l.col) >= 4 THEN "continues"
        ELSE IF interrupts(l) THEN "ends"
        ELSE IF /\ depth = paragraph
                /\ l.shape \in {"underline", "dash"}
                /\ level = <<>> \/ l.col >= level[Len(level)].contentCol
        THEN "underlined"
        ELSE "continues"

\* Where the content of a list item begins.
contentColumn(l) == l.col + l.wide + (IF l.spaces > 4 THEN 1 ELSE l.spaces)

\* Mutant: only the innermost level is cut.
LeftLast(l) ==
    LET inQuotes == Popped(open, LAMBDA it : it.depth > Len(l.marks))
    IN  IF l.marks = <<>> THEN inQuotes
        ELSE Before(inQuotes, LAMBDA it : /\ it.depth = Len(l.marks) - 1
                                          /\ it.contentCol > l.marks[Len(l.marks)])

\* The items left open once the quotes that the line is not inside are over and each >
\* has closed the items of the level it opens from that it is not indented into.
Left(l) ==
    LET inQuotes == Popped(open, LAMBDA it : it.depth > Len(l.marks))
    IN  Before(inQuotes, LAMBDA it : /\ it.depth < Len(l.marks)
                                     /\ it.contentCol > l.marks[it.depth + 1])

-----------------------------------------------------------------------------
\* visit, line by line

\* Line l leaves the item that line m began.
Leaves(m, l) ==
    LET d == Len(m.marks)
    IN  \/ Len(l.marks) < d
        \/ Len(l.marks) > d /\ l.marks[d + 1] < contentColumn(m)
        \/ Len(l.marks) = d /\ l.shape # "blank" /\ l.col < contentColumn(m)

\* The innermost of the items that l is in, unless it is in another quote.
Innermost(items, l) ==
    {h \in items : Len(h.line.marks) = Len(l.marks) /\ \A g \in items : g.number <= h.number}

Staying(l) ==
    {h \in held : \A g \in held : g.number <= h.number => ~Leaves(g.line, l)}

\* Four columns or more into the innermost item it is in.
Deep(l) ==
    l.col - Max({contentColumn(h.line) : h \in Innermost(Staying(l), l)} \union {0}) >= 4

\* By the rules of Markdown, a line that is not more text leaves an item when it leaves
\* it or an item that holds it, and begins one when it has an item's marker, is not deep
\* and is no rule.
HeldAfter(l) ==
    IF l.shape \in ItemShapes \ {"rule"} /\ ~Deep(l)
    THEN Staying(l) \union {[number |-> count + 1, line |-> l]}
    ELSE Staying(l)

Reads(l, meets) ==
    /\ count < MaxLines
    /\ count' = count + 1
    /\ held' = IF meets = "ends" THEN HeldAfter(l) ELSE held

\* More text, or the underline of it, closes nothing and opens nothing.
Continue(l) ==
    /\ l.shape # "blank"
    /\ meetParagraph(l) \in {"continues", "underlined"}
    /\ paragraph' = IF meetParagraph(l) = "underlined" THEN None ELSE paragraph
    /\ parent' = None
    /\ Reads(l, meetParagraph(l))
    /\ UNCHANGED <<open, quotes>>

\* A blank line: a lone > that starts a quote opens its empty text.
Blank(l) ==
    /\ l.shape = "blank"
    /\ quotes' = Len(l.marks)
    /\ open' = Left(l)
    /\ paragraph' = IF Len(l.marks) > quotes \/ ~quotesStayInside(l.marks)
                    THEN Len(l.marks) ELSE None
    /\ parent' = None
    /\ Reads(l, "ends")

\* A line that starts a block: the items it is not indented into close; then it is
\* code, a list item, or another block.
Start(l) ==
    /\ l.shape # "blank"
    /\ meetParagraph(l) = "ends"
    /\ LET depth == Len(l.marks)
           left == Popped(Left(l), LAMBDA it : it.depth = depth /\ it.contentCol > l.col)
           inner == left # <<>> /\ left[Len(left)].depth = depth
           top == left[Len(left)]
           code == l.col - (IF inner THEN top.contentCol ELSE 0) >= 4
           item == [depth |-> depth, contentCol |-> contentColumn(l), task |-> l.task,
                    ordered |-> l.shape \in {"one", "number"}, line |-> count + 1]
           itself == IF l.shape \in ItemShapes
                     THEN l.rest # "block" /\ (l.spaces > 4 => l.rest = "none")
                     ELSE l.shape \in {"text", "underline"}
       IN  /\ open' = IF ~code /\ l.shape \in ItemShapes THEN Append(left, item) ELSE left
           /\ paragraph' = IF ~code /\ itself THEN depth ELSE None
           /\ parent' = IF ~code /\ l.task /\ inner /\ top.task THEN top.line ELSE None
    /\ quotes' = Len(l.marks)
    /\ Reads(l, "ends")

Next == \E l \in Lines : Continue(l) \/ Blank(l) \/ Start(l)

Spec == Init /\ [][Next]_vars

-----------------------------------------------------------------------------
\* Properties

\* Types, and the order baseFor and the loops of visit lean on: items are open
\* outermost first, quote by quote, and column by column in one quote.
TypeOK ==
    /\ open \in Seq([depth : Nat, contentCol : Nat, task : BOOLEAN,
                     ordered : BOOLEAN, line : 1..count])
    /\ paragraph \in Nat \union {None}
    /\ quotes \in Nat
    /\ parent \in (1..count) \union {None}
    /\ \A i, j \in DOMAIN open : i < j =>
          /\ open[i].line < open[j].line
          /\ open[i].depth <= open[j].depth
          /\ open[i].depth = open[j].depth => open[i].contentCol < open[j].contentCol

\* The stack holds exactly the items the rules leave open, in order (visit), in notes
\* without a rule whose marks are apart: visit takes one for an item.
StackIsOpenItems ==
    /\ {open[i].line : i \in DOMAIN open} = {h.number : h \in held}
    /\ \A i \in DOMAIN open : \E h \in held :
          /\ h.number = open[i].line
          /\ open[i].contentCol = contentColumn(h.line)
          /\ open[i].depth = Len(h.line.marks)

\* A task is a subtask of the task whose item it is directly inside, and of no other; it
\* is nobody's just when it is directly inside no item, or in one that is no task.
ParentHoldsIt ==
    LET itself == {k \in held : k.number = count /\ k.line.task}
    IN  /\ parent # None => itself # {}
        /\ \A k \in itself :
             LET holders == {h \in Innermost(held \ {k}, k.line) : h.line.task}
             IN  IF parent = None THEN holders = {}
                 ELSE \E h \in holders : h.number = parent

=============================================================================
