------------------------------ MODULE MCCaches ------------------------------
(***************************************************************************)
(* The caches of a vault: settings (SettingsFile), note metas (NoteMeta)   *)
(* and lines of text (TextSearch).  They share no state in the code, so    *)
(* they are explored one at a time: a behaviour is one of the components   *)
(* in one of the scenes below, while the variables of the others stay what *)
(* they are in an empty vault.                                             *)
(***************************************************************************)
EXTENDS TextSearch, SettingsFile, NoteMeta, TLC

CONSTANTS Scenes, g, h, m, n, x, y, b, c, p, q, j, t1, t2, s1, s2

VARIABLE scene

MCVars == <<scene, settingsVars, metaVars, vars>>

-----------------------------------------------------------------------------
\* SettingsFile, its clock never repeating: folder calls and a reader; a PUT and a reader
\* or a folder call.  And one client alone on a clock that may repeat.

Size == [v \in Values |-> 1 + Cardinality({i \in Fields : v[i] = 1})]
Unset == [i \in Fields |-> 0]

Alone == INSTANCE SettingsFile WITH
    Getters <- {g, h}, Coarse <- TRUE, MaxTicks <- 2, MaxCalls <- 4

InFolders == SettingsNext /\ \A i \in Putters : at'[i] = "idle"
InPuts == /\ SettingsNext
          /\ at'[n] = "idle" /\ "idle" \in {at'[g], at'[m]}
          /\ \A i \in Procs : next'[i] # Nil => next'[i][y] = 0
          /\ faults' = 0
InAlone == Alone!SettingsNext /\ \A i \in Procs \ {h} : at'[i] = "idle"

SettingsScenes == {"folders", "puts", "alone"}

\* NoteMeta: one client, two notes; two clients, one note and a restart; two clients, one
\* of which changes the preamble folder.  p is in a directory named n.

MarksOf == [i \in Names |-> IF i = n THEN {p} ELSE {}]
AgeOf == [i \in Paths |-> IF i = p THEN 0 ELSE -1]

Sets(i) == ask'[i].kind = "set"
OfPath(i) == "path" \in DOMAIN ask'[i] => ask'[i].path = p

InEdits == MetaNext /\ step'[c] = "idle" /\ ~Sets(b) /\ stops' = 0
InReaders == /\ MetaNext
             /\ \A i \in Clients : ~Sets(i) /\ OfPath(i)
             /\ files'[q] = Missing /\ time' <= 1
InPreamble == /\ MetaNext
              /\ \A i \in Clients : ask'[i].kind \notin {"write", "move"}
              /\ time' = 0 /\ sets' <= 1

MetaScenes == {"edits", "readers", "preamble"}

\* TextSearch: two searches at once over two notes; one over three, more than the limit,
\* and templates; reads that fail.

OfScene == CASE scene = "limited" -> [notes |-> Files, searches |-> {s1}, templates |-> Templates]
             [] scene = "shared" -> [notes |-> {1, 2}, searches |-> Searchers, templates |-> {}]
             [] scene = "unreadable" -> [notes |-> {1, 2}, searches |-> {s1}, templates |-> {}]

SearchScenes == {"shared", "limited", "unreadable"}

ASSUME
    /\ Scenes \subseteq SettingsScenes \union MetaScenes \union SearchScenes
    /\ SettingsConstantsOK /\ Alone!SettingsConstantsOK
    /\ MetaConstantsOK
    /\ ConstantsOK

-----------------------------------------------------------------------------

NoSettings == SettingsInit /\ file = Nil
NoMeta == MetaInit /\ name = m /\ \A i \in Paths : files[i] = Missing
NoSearch == Init /\ template = {} /\ \A f \in Files : disk[f] = None

MCInit ==
    /\ scene \in Scenes
    /\ \/ scene \in {"folders", "alone"} /\ SettingsInit /\ NoMeta /\ NoSearch
       \/ /\ scene = "puts" /\ NoMeta /\ NoSearch
          /\ SettingsInit
          /\ Content[y] = 0
       \/ /\ scene \in MetaScenes
          /\ MetaInit
          /\ scene # "preamble" => name = n
          /\ scene # "edits" => files[q] = Missing
          /\ scene = "preamble" => files[p] # Missing
          /\ NoSettings /\ NoSearch
       \/ /\ scene \in SearchScenes
          /\ Init
          /\ template \subseteq OfScene.templates
          /\ \A f \in Files \ OfScene.notes : disk[f] = None
          /\ NoSettings /\ NoMeta

OfSettings ==
    /\ \/ scene = "folders" /\ InFolders
       \/ scene = "puts" /\ InPuts
       \/ scene = "alone" /\ InAlone
    /\ UNCHANGED <<scene, metaVars, vars>>

OfMeta ==
    /\ \/ scene = "edits" /\ InEdits
       \/ scene = "readers" /\ InReaders
       \/ scene = "preamble" /\ InPreamble
    /\ UNCHANGED <<scene, settingsVars, vars>>

OfSearch ==
    /\ scene \in SearchScenes
    /\ \/ \E s \in OfScene.searches : Searching(s)
       \/ \E f \in OfScene.notes : ServerWrite(f) \/ OtherWrite(f)
       \/ SaveSettings
    /\ template' \subseteq OfScene.templates
    /\ scene # "unreadable" => \A s \in Searchers : search'[s].unread = {}
    /\ UNCHANGED <<scene, settingsVars, metaVars>>

MCNext == OfSettings \/ OfMeta \/ OfSearch

MCSpec == MCInit /\ [][MCNext]_MCVars

Alike == Permutations({b, c}) \union Permutations({t1, t2}) \union Permutations({s1, s2})

-----------------------------------------------------------------------------

\* The types of SettingsFile, NoteMeta and TextSearch.
TypesOK ==
    /\ scene \in Scenes
    /\ IF scene = "alone" THEN Alone!SettingsTypeOK ELSE SettingsTypeOK
    /\ MetaTypeOK
    /\ TypeOK
=============================================================================
