--------------------------- MODULE MCWorkflowRun ---------------------------
(***************************************************************************)
(* Workflow runs, and the writes they are made of, which share no state    *)
(* and are explored one at a time.  WorkflowRun on two notes, in two       *)
(* scenes: one run of one move and one list of comments, with two failures *)
(* or crashes anywhere; and two runs of up to two moves and two lists,     *)
(* with a history that keeps one run.  Either has an edit by another       *)
(* client.  AtomicWrite with two writers, a note, and a link to it.        *)
(***************************************************************************)
EXTENDS WorkflowRun, AtomicWrite, TLC

CONSTANTS Scenes, n1, m2

VARIABLES
    scene,  \* which of the three
    lists   \* the lists of comments there are in it

MCVars == <<scene, lists, vars, saveVars>>

RunScenes == {"faulty", "long"}

ASSUME ConstantsOK /\ Scenes \subseteq RunScenes \union {"save"}

\* The umask takes the bit by which m3 differs from m2.
Umask == [m \in Modes |-> m2]
ToFirst == [l \in Links |-> n1]

\* What a scene leaves out.
Bounds ==
    /\ \A p \in Paths : comments[p] \in Optional(lists)
    /\ scene = "long" => faults = 0

NoSave == SaveInit /\ \A t \in Targets : files[t] = Absent
NoRun == Init /\ \A p \in Paths : notes[p] = None /\ comments[p] = None

MCInit ==
    /\ scene \in Scenes
    /\ IF scene = "faulty" THEN \E k \in Threads : lists = {k} ELSE lists = Threads
    /\ IF scene = "save" THEN NoRun /\ SaveInit ELSE Init /\ NoSave
    /\ Bounds

SingleMoves == {ms \in MoveLists : Len(ms) <= 1}

OfRuns ==
    /\ \/ scene = "faulty" /\ Start({1}, SingleMoves)
       \/ scene = "long" /\ (Start({1}, MoveLists) \/ Start({2}, SingleMoves))
       \/ scene \in RunScenes /\ Rest
    /\ UNCHANGED <<scene, lists, saveVars>>
    /\ Bounds'

OfSaves == scene = "save" /\ SaveNext /\ UNCHANGED <<scene, lists, vars>>

MCNext == OfRuns \/ OfSaves

MCSpec == MCInit /\ [][MCNext]_MCVars

\* The notes change places, and so do the writers; the lists of comments, and so do the
\* bodies: no scene has both of the two.
Together(S, T) ==
    {f \in Permutations(S \union T) :
        \A s \in S, t \in T : f[s] \in S /\ (f[s] = s <=> f[t] = t)}
Alike == Together(Paths, Writers) \union Together(Threads, Data)
=============================================================================
