----------------------------- MODULE WebInstall -----------------------------
(***************************************************************************)
(* The web client's build artifact put in place: Install of                *)
(* internal/webartifact, which prepare-web runs.  Installers of one        *)
(* destination keep out of each other's way with a lock file; an archive   *)
(* is copied and compared with its pin, unpacked entry by entry into a     *)
(* directory of the installer's own, and only a whole tree is renamed to   *)
(* the destination.  Any step may fail, and an installer may die.          *)
(*                                                                         *)
(* A file is its name and its body (size and checksum tell bodies apart),  *)
(* a tree the set of its files; empty directories and the syntax of the    *)
(* manifest are left out.                                                  *)
(***************************************************************************)
EXTENDS Naturals, Sequences, FiniteSets

CONSTANTS
    Installers,
    Fold,        \* a name's lower case: a function of the names of assets
    Index,       \* the name index.html
    Bodies, Empty,
    Manifests,   \* what artifact.json may say
    Archives,    \* what may be found where the archive should be
    Firsts,      \* what may be at the destination at first: trees, or Nothing
    Nothing,
    MaxCalls,    \* bound: installations
    Faults,      \* bound: steps that fail
    Deaths       \* bound: installers that die

Names == DOMAIN Fold
File == [name : Names, body : Bodies]
Entry == [kind : {"dir", "meta", "asset", "odd"}, name : Names, body : Bodies]

InstallConstantsOK ==
    /\ Index \in Names /\ Empty \in Bodies
    /\ \A a \in Archives : a.tail \in BOOLEAN /\ a.entries \in Seq(Entry)
    /\ \A m \in Manifests : m.files \in Seq(File) /\ m.entry \subseteq Names /\ m.archive \in Archives
    /\ Firsts \subseteq {Nothing} \union SUBSET File
    /\ MaxCalls \in Nat /\ Faults \in Nat /\ Deaths \in Nat

VARIABLES
    lock,       \* whether the lock file exists
    dest,       \* the tree at the destination, or Nothing
    works,      \* the calls whose work directory exists
    run,        \* what each installer is at
    answers,    \* the manifests that an installation said are in place
    abandoned,  \* the calls that died, or could not clear up
    calls, faults, deaths

installVars == <<lock, dest, works, run, answers, abandoned, calls, faults, deaths>>

InstallSteps == {"lock", "look", "work", "fetch", "check", "unpack", "publish", "sweep", "unlock"}
Running == [call : 1..MaxCalls, pc : InstallSteps, manifest : Manifests,
            got : Archives \union {Nothing}, next : Nat, stage : SUBSET File, ok : BOOLEAN]

InstallTypeOK ==
    /\ lock \in BOOLEAN
    /\ dest \in {Nothing} \union SUBSET File
    /\ works \subseteq 1..calls /\ abandoned \subseteq 1..calls
    /\ run \in [Installers -> Running \union {Nothing}]
    /\ answers \subseteq Manifests
    /\ calls \in 0..MaxCalls /\ faults \in 0..Faults /\ deaths \in 0..Deaths

InstallInit ==
    /\ lock = FALSE /\ dest \in Firsts /\ works = {}
    /\ run = [i \in Installers |-> Nothing]
    /\ answers = {} /\ abandoned = {}
    /\ calls = 0 /\ faults = 0 /\ deaths = 0

-----------------------------------------------------------------------------
\* The manifest and the tree it declares

Tree(m) == {m.files[k] : k \in DOMAIN m.files}

\* ReadManifest: an inventory without two names alike, whose entrypoints, index.html
\* among them, are in it and not empty.
Valid(m) ==
    /\ m.files # <<>>
    /\ \A j, k \in DOMAIN m.files : j # k => Fold[m.files[j].name] # Fold[m.files[k].name]
    /\ Index \in m.entry
    /\ \A n \in m.entry : \E f \in Tree(m) : f.name = n /\ f.body # Empty

\* Mutant: a tree that lacks assets passes.
VerifiesPart(tree, m) == tree \subseteq Tree(m)

\* verifyTree: no file beside the declared ones or unlike them, and none missing.
Verifies(tree, m) == tree \subseteq Tree(m) /\ Tree(m) \subseteq tree

-----------------------------------------------------------------------------
\* Install

At(i, pc) == run[i] # Nothing /\ run[i].pc = pc
Goto(i, pc) == run' = [run EXCEPT ![i].pc = pc]
Fails == faults < Faults /\ faults' = faults + 1

Start(i) ==
    /\ run[i] = Nothing /\ calls < MaxCalls
    /\ calls' = calls + 1
    /\ \E m \in Manifests :
         /\ Valid(m)
         /\ run' = [run EXCEPT ![i] = [call |-> calls', pc |-> "lock", manifest |-> m,
                                       got |-> Nothing, next |-> 1, stage |-> {}, ok |-> FALSE]]
    /\ UNCHANGED <<lock, dest, works, answers, abandoned, faults, deaths>>

\* Mutant: the lock file is opened whether it exists or not.
LockAnyway(i) ==
    /\ At(i, "lock")
    /\ lock' = TRUE /\ Goto(i, "look")
    /\ UNCHANGED <<dest, works, answers, abandoned, calls, faults, deaths>>

\* The lock file is made, unless it is there: then there is nothing to clear up.
Lock(i) ==
    /\ At(i, "lock")
    /\ \/ ~lock /\ lock' = TRUE /\ Goto(i, "look")
       \/ lock /\ run' = [run EXCEPT ![i] = Nothing] /\ UNCHANGED lock
    /\ UNCHANGED <<dest, works, answers, abandoned, calls, faults, deaths>>

\* What is at the destination is verified and kept.
Look(i) ==
    /\ At(i, "look")
    /\ \/ dest = Nothing /\ Goto(i, "work") /\ UNCHANGED faults
       \/ /\ dest # Nothing /\ UNCHANGED faults
          /\ run' = [run EXCEPT ![i].pc = "unlock", ![i].ok = Verifies(dest, run[i].manifest)]
       \/ Fails /\ Goto(i, "unlock")
    /\ UNCHANGED <<lock, dest, works, answers, abandoned, calls, deaths>>

Work(i) ==
    /\ At(i, "work")
    /\ \/ works' = works \union {run[i].call} /\ Goto(i, "fetch") /\ UNCHANGED faults
       \/ Fails /\ Goto(i, "unlock") /\ UNCHANGED works
    /\ UNCHANGED <<lock, dest, answers, abandoned, calls, deaths>>

\* openArchive and the copy into the work directory: the one given, the one beside
\* the manifest, or the one that is downloaded.
Fetch(i) ==
    /\ At(i, "fetch")
    /\ \/ /\ \E a \in Archives : run' = [run EXCEPT ![i].pc = "check", ![i].got = a]
          /\ UNCHANGED faults
       \/ Fails /\ Goto(i, "sweep")
    /\ UNCHANGED <<lock, dest, works, answers, abandoned, calls, deaths>>

\* The copy is of the size and checksum that the manifest pins.
Check(i) ==
    /\ At(i, "check")
    /\ Goto(i, IF run[i].got = run[i].manifest.archive THEN "unpack" ELSE "sweep")
    /\ UNCHANGED <<lock, dest, works, answers, abandoned, calls, faults, deaths>>

Seen(i) == {Fold[run[i].got.entries[k].name] : k \in 1..(run[i].next - 1)}

\* extract, an entry: directories and the package's own files are passed over, an
\* asset is written if it is declared so; anything else refuses the archive.
Unpack(i) ==
    /\ At(i, "unpack") /\ run[i].next <= Len(run[i].got.entries)
    /\ LET e == run[i].got.entries[run[i].next]
           f == [name |-> e.name, body |-> e.body]
       IN  \/ /\ e.kind # "odd" /\ Fold[e.name] \notin Seen(i)
              /\ e.kind = "asset" => f \in Tree(run[i].manifest)
              /\ run' = [run EXCEPT ![i].next = @ + 1,
                                    ![i].stage = IF e.kind = "asset" THEN @ \union {f} ELSE @]
              /\ UNCHANGED faults
           \/ /\ \/ e.kind = "odd" \/ Fold[e.name] \in Seen(i)
                 \/ e.kind = "asset" /\ f \notin Tree(run[i].manifest)
              /\ Goto(i, "sweep") /\ UNCHANGED faults
           \/ Fails /\ Goto(i, "sweep")
    /\ UNCHANGED <<lock, dest, works, answers, abandoned, calls, deaths>>

\* Mutant: assets that the archive lacks are not missed.
WholeOrNot(i) == ~run[i].got.tail

\* The end of extract: no asset is missing, and nothing but padding follows.
Whole(i) == Tree(run[i].manifest) \subseteq run[i].stage /\ ~run[i].got.tail

Unpacked(i) ==
    /\ At(i, "unpack") /\ run[i].next > Len(run[i].got.entries)
    /\ Goto(i, IF Whole(i) THEN "publish" ELSE "sweep")
    /\ UNCHANGED <<lock, dest, works, answers, abandoned, calls, faults, deaths>>

Publish(i) ==
    /\ At(i, "publish")
    /\ \/ /\ dest = Nothing /\ dest' = run[i].stage
          /\ run' = [run EXCEPT ![i].pc = "sweep", ![i].ok = TRUE]
          /\ UNCHANGED faults
       \/ Fails /\ Goto(i, "sweep") /\ UNCHANGED dest
    /\ UNCHANGED <<lock, works, answers, abandoned, calls, deaths>>

\* The deferred calls: the work directory goes, then the lock file.  What cannot be
\* removed stays, and the answer does not tell.
Sweep(i) ==
    /\ At(i, "sweep") /\ Goto(i, "unlock")
    /\ \/ works' = works \ {run[i].call} /\ UNCHANGED <<abandoned, faults>>
       \/ Fails /\ abandoned' = abandoned \union {run[i].call} /\ UNCHANGED works
    /\ UNCHANGED <<lock, dest, answers, calls, deaths>>

\* Mutant: the lock is left where the installation failed.
UnlockDone(i) ==
    /\ At(i, "unlock") /\ run' = [run EXCEPT ![i] = Nothing]
    /\ answers' = IF run[i].ok THEN answers \union {run[i].manifest} ELSE answers
    /\ lock' = ~run[i].ok
    /\ UNCHANGED <<dest, works, abandoned, calls, faults, deaths>>

Unlock(i) ==
    /\ At(i, "unlock") /\ run' = [run EXCEPT ![i] = Nothing]
    /\ answers' = IF run[i].ok THEN answers \union {run[i].manifest} ELSE answers
    /\ \/ lock' = FALSE /\ UNCHANGED <<abandoned, faults>>
       \/ Fails /\ abandoned' = abandoned \union {run[i].call} /\ UNCHANGED lock
    /\ UNCHANGED <<dest, works, calls, deaths>>

Die(i) ==
    /\ run[i] # Nothing /\ deaths < Deaths
    /\ deaths' = deaths + 1
    /\ abandoned' = abandoned \union {run[i].call}
    /\ run' = [run EXCEPT ![i] = Nothing]
    /\ UNCHANGED <<lock, dest, works, answers, calls, faults>>

Step(i) ==
    \/ Lock(i) \/ Look(i) \/ Work(i) \/ Fetch(i) \/ Check(i) \/ Unpack(i) \/ Unpacked(i)
    \/ Publish(i) \/ Sweep(i) \/ Unlock(i)

InstallNext == \E i \in Installers : Start(i) \/ Step(i) \/ Die(i)

\* An installation that is under way goes on: the lock is not waited for, and a
\* download has a time limit.
InstallFairness == \A i \in Installers : WF_installVars(Step(i))

InstallSpec == InstallInit /\ [][InstallNext]_installVars /\ InstallFairness

-----------------------------------------------------------------------------
\* Properties

\* What is at the destination is what was there, or the whole tree of a manifest;
\* an installation that succeeded stays true ("Install verifies an archive before
\* exposing its files").
PublishedWhole ==
    /\ dest \in Firsts \union {Tree(m) : m \in {n \in Manifests : Valid(n)}}
    /\ \A m \in answers : dest = Tree(m)

\* Installers hold the lock one at a time, and it and their work directories are
\* there only while one is at work, unless it died or could not remove them.
OneAtATime ==
    LET Holders == {i \in Installers : run[i] # Nothing /\ run[i].pc # "lock"}
    IN  /\ Cardinality(Holders) <= 1
        /\ works \subseteq abandoned \union {run[i].call : i \in Holders}
        /\ lock => Holders # {} \/ abandoned # {}

InstallsWhole == PublishedWhole /\ OneAtATime

\* The destination can be installed to again, whatever became of an installation,
\* unless an installer died or could not clear up.
LockComesFree == lock ~> (~lock \/ abandoned # {})
=============================================================================
