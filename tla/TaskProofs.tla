----------------------------- MODULE TaskProofs ------------------------------
(***************************************************************************)
(* The templates of TemplateFiles are kept, however many are saved, edited *)
(* and deleted, whatever fails and wherever the process ends: for any      *)
(* names and slugs, on file systems that tell case apart and on those that *)
(* do not.                                                                 *)
(*                                                                         *)
(* Two cases are named, and kept apart: where case is told apart, a file   *)
(* with its extension in other case, adr.MD, has the stem of an adr.md     *)
(* beside it, and an edit of the one overwrites the other; where it is     *)
(* not, a failing os.Stat has the file just saved removed.                 *)
(*                                                                         *)
(* The scanners of CodeScan agree on any note within their conditions, and *)
(* the scan and the rescan of TaskScope under any settings, over any       *)
(* folders.                                                                *)
(***************************************************************************)
EXTENDS TemplateFiles, CodeScan, TaskScope, WellFoundedInduction, TLAPS

-----------------------------------------------------------------------------
\* The inductive invariant

\* Every file has its own name and its own text; a text yet to be saved is in none.
Distinct ==
    /\ \A n, m \in DOMAIN files : Same(n, m) => n = m
    /\ \A n, m \in DOMAIN files : files[n] = files[m] /\ files[n] # Folder => n = m
    /\ \A n \in DOMAIN files, k \in Nat :
          files[n] = Saved(k) /\ files[n] # Folder => k <= ops /\ (op.pc = "write" => k < ops)

\* The name that a save is about to write under is free, or that of the file replaced, or
\* has its stem.
Aimed ==
    /\ op.pc = "idle" => op = Idle
    /\ op.pc # "idle" => op.target \in Names /\ ops > 0
    /\ op.pc = "write" =>
          \/ Held(op.target) = {}
          \/ op.previous # None /\ Held(op.target) = Held(op.previous)
          \/ StemOfAnother
    /\ op.pc = "mistaken" => op.previous # None /\ op.previous # op.target

\* What is live is listed; what is listed and neither live nor left is what the save
\* under way has replaced and is about to remove, if it is another file.  Where the check
\* failed and it is not, what was saved is about to go.
Old == IF op.pc \in {"remove", "mistaken"} /\ Superseded THEN Texts(op.previous) ELSE {}
Kept ==
    /\ NothingLost
    /\ Listed \subseteq live \union left \union Old
    /\ Old \intersect live = {}

Types ==
    /\ DOMAIN files \subseteq Names
    /\ files \in [DOMAIN files -> Contents \union {Folder}]
    /\ op \in [pc : {"idle", "write", "remove", "mistaken"}, previous : Names \union {None},
               target : Names \union {None}]
    /\ met \subseteq Names
    /\ live \subseteq Contents /\ left \subseteq Contents /\ astray \subseteq Contents
    /\ answer \in {"ok", "error", None}
    /\ ops \in 0..MaxOps /\ faults \in 0..Faults

IInv == Types /\ Distinct /\ Aimed /\ Kept

-----------------------------------------------------------------------------
\* Names and texts

LEMMA SameNames ==
    /\ \A n : Same(n, n)
    /\ \A n, m : Same(n, m) => Same(m, n)
    /\ \A n, m, k : Same(n, m) /\ Same(m, k) => Same(n, k)
BY DEF Same

LEMMA Texting ==
    /\ \A n \in Names, k \in Nat \ {0} : Found(n) # Saved(k)
    /\ \A n, m \in Names : Found(n) = Found(m) => n = m
    /\ \A j, k \in Nat : Saved(j) = Saved(k) => j = k
BY DEF Found, Saved

LEMMA InListed == ASSUME NEW c
                  PROVE  c \in Listed <=> \E e \in DOMAIN files : files[e] = c /\ c # Folder
BY DEF Listed, Range

LEMMA InTexts ==
    ASSUME NEW c, NEW n
    PROVE  c \in Texts(n) <=> \E e \in DOMAIN files : Same(e, n) /\ files[e] = c /\ c # Folder
BY DEF Texts, Held

LEMMA InListedNext ==
    ASSUME NEW c
    PROVE  c \in Listed' <=> \E e \in DOMAIN files' : files'[e] = c /\ c # Folder
BY DEF Listed, Range

LEMMA InTextsNext ==
    ASSUME NEW c, NEW n
    PROVE  c \in Texts(n)' <=> \E e \in DOMAIN files' : Same(e, n) /\ files'[e] = c /\ c # Folder
BY DEF Texts, Held

\* A name leads to one file at the most.
LEMMA HeldOne == ASSUME Distinct, NEW n, NEW e \in Held(n), NEW f \in Held(n) PROVE e = f
BY SameNames DEF Distinct, Held

LEMMA HeldSame == ASSUME NEW n, NEW m, Same(n, m) PROVE Held(n) = Held(m)
BY SameNames DEF Held

\* uniqueTemplateSlug: the name of the file replaced, or one that is free.
LEMMA FreeIsFree ==
    ASSUME ConstantsOK, NEW slug \in Slugs, NEW previous \in Names \union {None},
           NEW s \in Free(slug, previous)
    PROVE  /\ s \in Stems
           /\ (previous # None /\ previous[1] = s) \/ Held(<<s, md>>) = {}
<1> DEFINE cs == Candidates[slug]
<1>1. cs \in Seq({x \in Stems : Lower[x] = x})
  BY DEF ConstantsOK
<1>2. PICK i \in 1..Len(cs) : /\ s = cs[i]
                              /\ (previous # None /\ previous[1] = s) \/ Held(<<s, md>>) = {}
  BY DEF Free
<1>3. cs[i] \in Stems
  BY <1>1, <1>2
<1>. QED  BY <1>2, <1>3

LEMMA IdleTypes == Idle.pc = "idle"
BY DEF Idle

-----------------------------------------------------------------------------
\* The steps

LEMMA InitIInv == ASSUME ConstantsOK, Init PROVE IInv
<1>1. PICK S \in SUBSET Names, D \in SUBSET FolderNames :
         /\ D \subseteq S
         /\ \A n, m \in S : Same(n, m) => n = m
         /\ files = [n \in S |-> IF n \in D THEN Folder ELSE Found(n)]
         /\ live = {Found(n) : n \in S \ D}
         /\ met = S
  BY DEF Init
<1>2. DOMAIN files = S /\ \A n \in S : files[n] = IF n \in D THEN Folder ELSE Found(n)
  BY <1>1
<1>3. \A n \in S : Found(n) \in Contents /\ Found(n) # Folder
  BY <1>1 DEF Contents, ConstantsOK
<1>4. op = Idle /\ left = {} /\ astray = {} /\ answer = None /\ ops = 0 /\ faults = 0
  BY DEF Init
<1>5. Types
  <2>1. files \in [DOMAIN files -> Contents \union {Folder}]
    BY <1>1, <1>2, <1>3
  <2>2. live \subseteq Contents
    BY <1>1, <1>3
  <2>. QED  BY <1>1, <1>2, <1>4, <2>1, <2>2 DEF Types, Idle, ConstantsOK
<1>6. Distinct
  <2>1. ASSUME NEW n \in S, NEW k \in Nat, files[n] = Saved(k), files[n] # Folder PROVE k = 0
    BY <1>1, <1>2, <2>1, Texting
  <2>. QED  BY <1>1, <1>2, <1>3, <1>4, <2>1, Texting, IdleTypes DEF Distinct
<1>7. Aimed
  BY <1>4, IdleTypes DEF Aimed
<1>8. Kept
  <2>1. Old = {}
    BY <1>4, IdleTypes DEF Old
  <2>2. \A c : c \in Listed <=> c \in live
    BY <1>1, <1>2, <1>3, InListed
  <2>. QED  BY <2>1, <2>2 DEF Kept, NothingLost
<1>. QED  BY <1>5, <1>6, <1>7, <1>8 DEF IInv

LEMMA ChooseIInv ==
    ASSUME ConstantsOK, IInv, NEW slug \in Slugs,
           NEW previous \in met \union {None}, Choose(slug, previous)
    PROVE  IInv'
<1>1. /\ op = Idle /\ ops' = ops + 1 /\ ops < MaxOps /\ ops \in Nat
      /\ UNCHANGED <<files, live, left, astray, met, faults>>
  BY DEF Choose, IInv, Types, ConstantsOK
<1>2. previous \in Names \union {None}
  BY DEF IInv, Types
<1>3. CASE op' = op /\ answer' = "error"
  <2>1. Types'
    BY <1>1, <1>3 DEF IInv, Types, ConstantsOK
  <2>2. Distinct'
    BY <1>1, <1>3, IdleTypes DEF IInv, Distinct, Same
  <2>3. Aimed'
    BY <1>1, <1>3, IdleTypes DEF IInv, Aimed
  <2>4. Kept'
    BY <1>1, <1>3, IdleTypes DEF IInv, Kept, NothingLost, Listed, Old
  <2>. QED  BY <2>1, <2>2, <2>3, <2>4 DEF IInv
<1>4. ASSUME NEW s \in Free(slug, previous),
             op' = [pc |-> "write", previous |-> previous, target |-> <<s, md>>],
             answer' = None
      PROVE  IInv'
  <2>1. /\ s \in Stems /\ <<s, md>> \in Names
        /\ (previous # None /\ previous[1] = s) \/ Held(<<s, md>>) = {}
    BY <1>2, FreeIsFree DEF Names, ConstantsOK
  <2>2. Types'
    BY <1>1, <1>2, <1>4, <2>1 DEF IInv, Types, ConstantsOK
  <2>3. Distinct'
    BY <1>1, <1>4 DEF IInv, Distinct, Same
  <2>5. Held(<<s, md>>)' = Held(<<s, md>>) /\ Held(previous)' = Held(previous)
    BY <1>1 DEF Held
  <2>6. Aimed'
    <3>1. CASE Held(<<s, md>>) = {}
      BY <1>1, <1>4, <2>1, <2>5, <3>1 DEF Aimed, Held
    <3>2. CASE previous # None /\ previous[1] = s /\ Same(<<s, md>>, previous)
      <4>1. Held(<<s, md>>) = Held(previous)
        BY <3>2, HeldSame
      <4>. QED  BY <1>1, <1>4, <2>1, <2>5, <3>2, <4>1 DEF Aimed, Held
    <3>3. CASE previous # None /\ previous[1] = s /\ ~Same(<<s, md>>, previous)
      <4>1. ~Same(previous, <<s, md>>)
        BY <3>3, SameNames
      <4>2. op'.previous = previous /\ op'.target = <<s, md>> /\ <<s, md>>[1] = s
        BY <1>4
      <4>3. StemOfAnother'
        BY <3>3, <4>1, <4>2 DEF StemOfAnother, Same
      <4>. QED  BY <1>1, <1>4, <2>1, <4>3 DEF Aimed
    <3>. QED  BY <2>1, <3>1, <3>2, <3>3
  <2>7. Kept'
    BY <1>1, <1>4, IdleTypes DEF IInv, Kept, NothingLost, Listed, Old
  <2>. QED  BY <2>2, <2>3, <2>6, <2>7 DEF IInv
<1>. QED  BY <1>3, <1>4 DEF Choose

\* Where the new content lands: under one name, that of the file there is, if any.
LEMMA Landing ==
    ASSUME IInv, NEW n \in Names, NEW c, files' = Land(n, c)
    PROVE  \E a \in Names :
              /\ Same(a, n)
              /\ DOMAIN files' = DOMAIN files \union {a}
              /\ \A e \in DOMAIN files' : files'[e] = IF e = a THEN c ELSE files[e]
              /\ \A e \in DOMAIN files \ {a} : ~Same(e, n)
              /\ Held(n) = {} <=> a \notin DOMAIN files
<1>1. CASE Held(n) = {}
  BY <1>1, SameNames DEF Land, Held
<1>2. CASE Held(n) # {}
  <2>1. PICK a : a \in Held(n)
    BY <1>2
  <2>2. Held(n) = {a} /\ a \in DOMAIN files /\ Same(a, n) /\ a \in Names
    BY <2>1, HeldOne DEF Held, IInv, Types
  <2>3. /\ DOMAIN files' = DOMAIN files \union {a}
        /\ \A e \in DOMAIN files' : files'[e] = IF e = a THEN c ELSE files[e]
    BY <1>2, <2>2 DEF Land
  <2>4. \A e \in DOMAIN files \ {a} : ~Same(e, n)
    BY <2>2 DEF Held
  <2>. QED  BY <1>2, <2>2, <2>3, <2>4
<1>. QED  BY <1>1, <1>2

LEMMA WriteIInv == ASSUME ConstantsOK, IInv, Write PROVE IInv'
<1>0. PICK n, p, new : n = op.target /\ p = op.previous /\ new = Saved(ops)
  OBVIOUS
<1>1. /\ op.pc = "write" /\ n \in Names /\ ops \in 1..MaxOps
      /\ op' = [op EXCEPT !.pc = "remove"]
      /\ live' = (live \ (IF p = None THEN {} ELSE Texts(p))) \union {new}
      /\ astray' = astray \union (IF StemOfAnother THEN Texts(n) ELSE {})
      /\ met' = met \union {n}
      /\ UNCHANGED <<left, answer, ops, faults>>
      /\ files' = Land(n, new)
  BY <1>0 DEF Write, IInv, Types, Aimed, ConstantsOK
<1>2. new \in Contents /\ new # Folder
  BY <1>0, <1>1 DEF Contents, ConstantsOK
<1>3. op'.pc = "remove" /\ op'.previous = p /\ op'.target = n
  BY <1>0, <1>1 DEF IInv, Types
<1>4. PICK a \in Names :
              /\ Same(a, n)
              /\ DOMAIN files' = DOMAIN files \union {a}
              /\ \A e \in DOMAIN files' : files'[e] = IF e = a THEN new ELSE files[e]
              /\ \A e \in DOMAIN files \ {a} : ~Same(e, n)
              /\ Held(n) = {} <=> a \notin DOMAIN files
  BY <1>1, Landing
<1>5. \A e \in DOMAIN files : files[e] # new \/ files[e] = Folder
  BY <1>0, <1>1 DEF IInv, Distinct
<1>6. Types'
  <2>1. \A e \in DOMAIN files' : files'[e] \in Contents \union {Folder}
    BY <1>2, <1>4 DEF IInv, Types
  <2>2. files' \in [DOMAIN files' -> Contents \union {Folder}]
    <3>1. files' = [e \in DOMAIN files' |-> files'[e]]
      BY <1>1 DEF Land
    <3>. QED  BY <2>1, <3>1
  <2>3. op' \in [pc : {"idle", "write", "remove", "mistaken"}, previous : Names \union {None},
                 target : Names \union {None}]
    BY <1>1 DEF IInv, Types
  <2>4. astray' \subseteq Contents
    BY <1>1 DEF IInv, Types, Texts, Held
  <2>. QED  BY <1>1, <1>2, <1>4, <2>2, <2>3, <2>4 DEF IInv, Types
<1>7. Distinct'
  <2>1. ASSUME NEW e \in DOMAIN files', NEW f \in DOMAIN files', Same(e, f) PROVE e = f
    BY <1>4, <2>1, SameNames DEF IInv, Distinct
  <2>2. ASSUME NEW e \in DOMAIN files', NEW f \in DOMAIN files', files'[e] = files'[f],
               files'[e] # Folder
        PROVE  e = f
    BY <1>4, <1>5, <2>2 DEF IInv, Distinct
  <2>3. ASSUME NEW e \in DOMAIN files', NEW k \in Nat, files'[e] = Saved(k), files'[e] # Folder
        PROVE  k <= ops'
    <3>1. CASE e = a
      BY <1>0, <1>1, <1>4, <2>3, <3>1, Texting
    <3>2. CASE e # a
      BY <1>1, <1>4, <2>3, <3>2 DEF IInv, Distinct
    <3>. QED  BY <3>1, <3>2
  <2>. QED  BY <1>3, <2>1, <2>2, <2>3 DEF Distinct, Same
<1>8. Aimed'
  BY <1>1, <1>3 DEF Aimed
<1>9. ASSUME NEW m PROVE /\ Same(m, n) => Held(m)' = Held(n)'
                         /\ \A e \in DOMAIN files \ {a} : e \in Held(m)' <=> e \in Held(m)
                         /\ \A e \in Held(n)' : e = a
  <2>1. ASSUME NEW k, NEW e PROVE e \in Held(k)' <=> e \in DOMAIN files' /\ Same(e, k)
    BY DEF Held
  <2>2. Same(m, n) => Held(m)' = Held(n)'
    BY SameNames DEF Held
  <2>3. ASSUME NEW e \in DOMAIN files \ {a} PROVE e \in Held(m)' <=> e \in Held(m)
    BY <1>4, <2>1 DEF Held
  <2>4. ASSUME NEW e \in Held(n)' PROVE e = a
    BY <1>4, <2>1
  <2>. QED  BY <2>2, <2>3, <2>4
<1>10. Kept'
  <2>1. ASSUME NEW c \in live' \ astray' PROVE c \in Listed'
    <3>1. CASE c = new
      BY <1>2, <1>4, <3>1, InListedNext
    <3>2. CASE c # new
      <4>1. c \in live \ astray /\ (p # None => c \notin Texts(p))
        BY <1>1, <3>2
      <4>2. PICK e \in DOMAIN files : files[e] = c /\ c # Folder
        BY <4>1, InListed DEF IInv, Kept, NothingLost
      <4>3. ASSUME e = a PROVE FALSE
        <5>0. ~StemOfAnother
          BY <1>1, <1>4, <4>2, <4>3, InTexts
        <5>1. p # None /\ Held(n) = Held(p)
          BY <1>0, <1>1, <1>4, <4>3, <5>0 DEF IInv, Aimed
        <5>2. e \in Held(p)
          BY <1>4, <4>3, <5>1 DEF Held
        <5>. QED  BY <4>1, <4>2, <5>1, <5>2, InTexts DEF Held
      <4>. QED  BY <1>4, <4>2, <4>3, InListedNext
    <3>. QED  BY <3>1, <3>2
  <2>2. ASSUME NEW c \in Listed' PROVE c \in live' \union left' \union Old'
    <3>1. PICK e \in DOMAIN files' : files'[e] = c /\ c # Folder
      BY InListedNext
    <3>2. CASE e = a
      BY <1>1, <1>4, <3>1, <3>2
    <3>3. CASE e # a
      <4>1. e \in DOMAIN files /\ files[e] = c /\ c \in live \union left
        BY <1>1, <1>4, <3>1, <3>3, InListed DEF IInv, Kept, Old
      <4>2. CASE c \in left \/ p = None \/ c \notin Texts(p)
        BY <1>1, <4>1, <4>2
      <4>3. CASE p # None /\ c \in Texts(p)
        <5>1. e \in Held(p)
          BY <4>1, <4>3, InTexts DEF IInv, Distinct, Held
        <5>2. e \in Held(p)' /\ e \notin Held(n)'
          BY <1>9, <3>3, <4>1, <5>1
        <5>3. c \in Texts(p)'
          BY <3>1, <5>2, InTextsNext DEF Held
        <5>4. Superseded'
          BY <1>3, <4>3, <5>2 DEF Superseded, Held
        <5>. QED  BY <1>3, <5>3, <5>4 DEF Old, Texts, Held
      <4>. QED  BY <4>2, <4>3
    <3>. QED  BY <3>2, <3>3
  <2>3. ASSUME NEW c \in Old', c \in live' PROVE FALSE
    <3>1. Superseded' /\ c \in Texts(p)'
      BY <1>3, <2>3 DEF Old, Texts, Held
    <3>2. p # None /\ Held(p)' # Held(n)'
      BY <1>3, <3>1 DEF Superseded, Held
    <3>3. ~Same(p, n)
      BY <1>9, <3>2
    <3>4. PICK e \in DOMAIN files' : Same(e, p) /\ files'[e] = c /\ c # Folder
      BY <3>1, InTextsNext
    <3>5. e # a
      BY <1>4, <3>3, <3>4, SameNames
    <3>6. e \in DOMAIN files /\ files[e] = c
      BY <1>4, <3>4, <3>5
    <3>7. c \in Texts(p) /\ c # new
      BY <1>5, <3>4, <3>6, InTexts
    <3>. QED  BY <1>1, <2>3, <3>2, <3>7
  <2>. QED  BY <2>1, <2>2, <2>3 DEF Kept, NothingLost
<1>. QED  BY <1>6, <1>7, <1>8, <1>10 DEF IInv

LEMMA WriteFailsIInv == ASSUME ConstantsOK, IInv, WriteFails PROVE IInv'
<1>1. /\ op.pc = "write" /\ op' = Idle /\ answer' = "error"
      /\ UNCHANGED <<files, live, left, astray, met, ops>>
      /\ faults' \in 0..Faults
  BY DEF WriteFails, IInv, Types, ConstantsOK
<1>2. Types'
  BY <1>1 DEF IInv, Types, Idle
<1>3. Distinct'
  BY <1>1, IdleTypes DEF IInv, Distinct, Same
<1>4. Aimed'
  BY <1>1, IdleTypes DEF Aimed
<1>5. Kept'
  BY <1>1, IdleTypes DEF IInv, Kept, NothingLost, Listed, Old
<1>. QED  BY <1>2, <1>3, <1>4, <1>5 DEF IInv

\* A file, or none, is removed, and what it held is no longer live, or is astray.
LEMMA Removed ==
    ASSUME IInv, NEW n, files' = Without(Held(n)), op' = Idle,
           live' \subseteq live, live \ Texts(n) \subseteq live',
           astray \subseteq astray', astray' \subseteq Contents,
           (live' \ astray') \intersect Texts(n) = {},
           UNCHANGED <<left, met>>, ops' \in ops..MaxOps, faults' \in 0..Faults,
           answer' \in {"ok", "error", None},
           Old \subseteq Texts(n)
    PROVE  IInv'
<1>1. /\ DOMAIN files' = {e \in DOMAIN files : ~Same(e, n)}
      /\ \A e \in DOMAIN files' : files'[e] = files[e]
  BY DEF Without, Held
<1>2. Types'
  <2>1. files' \in [DOMAIN files' -> Contents \union {Folder}]
    <3>1. \A e \in DOMAIN files' : files'[e] \in Contents \union {Folder}
      BY <1>1 DEF IInv, Types
    <3>2. files' = [e \in DOMAIN files' |-> files'[e]]
      BY DEF Without
    <3>. QED  BY <3>1, <3>2
  <2>. QED  BY <1>1, <2>1 DEF IInv, Types, Idle
<1>3. Distinct'
  <2>1. ASSUME NEW e \in DOMAIN files', NEW k \in Nat, files'[e] = Saved(k), files'[e] # Folder
        PROVE  k <= ops'
    BY <1>1, <2>1 DEF IInv, Distinct, Types
  <2>. QED  BY <1>1, <2>1, IdleTypes DEF IInv, Distinct, Same
<1>4. Aimed'
  BY IdleTypes DEF Aimed
<1>5. Kept'
  <2>1. ASSUME NEW c \in live' \ astray' PROVE c \in Listed'
    BY <1>1, <2>1, InListed, InListedNext, InTexts DEF IInv, Kept, NothingLost
  <2>2. ASSUME NEW c \in Listed' PROVE c \in live' \union left'
    <3>1. PICK e \in DOMAIN files' : files'[e] = c /\ c # Folder
      BY InListedNext
    <3>2. c \in live \union left \union Texts(n)
      BY <1>1, <3>1, InListed DEF IInv, Kept
    <3>3. c \notin Texts(n)
      BY <1>1, <3>1, InTexts DEF IInv, Distinct
    <3>. QED  BY <3>2, <3>3
  <2>3. Old' = {}
    BY IdleTypes DEF Old
  <2>. QED  BY <2>1, <2>2, <2>3 DEF Kept, NothingLost
<1>. QED  BY <1>2, <1>3, <1>4, <1>5 DEF IInv

\* A save ends, and leaves what it had to remove.
LEMMA Ended ==
    ASSUME IInv, op' = Idle, UNCHANGED <<files, live, met, ops>>,
           astray \subseteq astray', astray' \subseteq Contents, faults' \in 0..Faults,
           answer' \in {"ok", "error", None}, left' = left \union Old
    PROVE  IInv'
<1>1. Old \subseteq Contents
  BY DEF Old, Texts, Held, IInv, Types
<1>2. Types'
  BY <1>1 DEF IInv, Types, Idle
<1>3. Distinct'
  BY IdleTypes DEF IInv, Distinct, Same
<1>4. Aimed'
  BY IdleTypes DEF Aimed
<1>5. Kept'
  BY IdleTypes DEF IInv, Kept, NothingLost, Listed, Old
<1>. QED  BY <1>2, <1>3, <1>4, <1>5 DEF IInv

LEMMA RemoveIInv == ASSUME ConstantsOK, IInv, RemovePrevious PROVE IInv'
<1>1. /\ op.pc \in {"remove", "mistaken"} /\ op' = Idle /\ answer' = "ok"
      /\ UNCHANGED <<live, left, met, ops, faults>>
      /\ faults \in 0..Faults /\ ops \in 0..MaxOps /\ ops' \in ops..MaxOps
  BY DEF RemovePrevious, IInv, Types, ConstantsOK
<1>2. astray \subseteq astray' /\ astray' \subseteq Contents
  BY DEF RemovePrevious, IInv, Types, Texts, Held
<1>3. CASE Removes /\ Superseded
  <2>1. Old = Texts(op.previous)
    BY <1>1, <1>3 DEF Old
  <2>2. (live' \ astray') \intersect Texts(op.previous) = {}
    BY <1>1, <2>1 DEF IInv, Kept
  <2>. QED  BY <1>1, <1>2, <1>3, <2>1, <2>2, Removed DEF RemovePrevious
<1>4. CASE Removes /\ ~Superseded
  <2>1. op.pc = "mistaken" /\ op.previous # None
    BY <1>1, <1>4 DEF Removes, IInv, Aimed
  <2>2. Held(op.previous) = Held(op.target)
    BY <1>4, <2>1 DEF Superseded
  <2>3. Texts(op.previous) = Texts(op.target) /\ Texts(op.target) \subseteq astray'
    BY <1>4, <2>1, <2>2 DEF Texts, RemovePrevious
  <2>4. Old = {}
    BY <1>4 DEF Old
  <2>. QED  BY <1>1, <1>2, <1>4, <2>3, <2>4, Removed DEF RemovePrevious
<1>5. CASE ~Removes
  <2>1. ~Superseded
    BY <1>5 DEF Removes, IInv, Aimed, Superseded
  <2>2. Old = {}
    BY <2>1 DEF Old
  <2>. QED  BY <1>1, <1>2, <1>5, <2>2, Ended DEF RemovePrevious
<1>. QED  BY <1>3, <1>4, <1>5

LEMMA RemoveFailsIInv == ASSUME ConstantsOK, IInv, RemoveFails PROVE IInv'
<1>1. /\ op.pc \in {"remove", "mistaken"} /\ op' = Idle /\ answer' = "error"
      /\ UNCHANGED <<files, live, astray, met, ops>> /\ faults' \in 0..Faults
      /\ left' = left \union Old
  BY DEF RemoveFails, Leaves, Old, IInv, Types, ConstantsOK
<1>. QED  BY <1>1, Ended DEF IInv, Types

LEMMA CrashIInv == ASSUME ConstantsOK, IInv, Crash PROVE IInv'
<1>1. /\ op' = Idle /\ answer' = None /\ UNCHANGED <<files, live, astray, met, ops>>
      /\ faults' \in 0..Faults
  BY DEF Crash, IInv, Types, ConstantsOK
<1>2. left' = left \union Old
  BY DEF Crash, Leaves, Old, IInv, Types
<1>. QED  BY <1>1, <1>2, Ended DEF IInv, Types

LEMMA StatFailsIInv == ASSUME ConstantsOK, IInv, StatFails PROVE IInv'
<1>1. /\ op.pc = "remove" /\ op.previous \notin {None, op.target}
      /\ op'.pc = "mistaken" /\ op'.previous = op.previous /\ op'.target = op.target
      /\ UNCHANGED <<files, live, left, astray, met, answer, ops>>
      /\ faults' \in 0..Faults /\ op' = [op EXCEPT !.pc = "mistaken"]
  BY DEF StatFails, IInv, Types, ConstantsOK
<1>2. Types'
  BY <1>1 DEF IInv, Types
<1>3. Distinct'
  BY <1>1 DEF IInv, Distinct, Same
<1>4. Aimed'
  BY <1>1 DEF IInv, Aimed
<1>5. Old' = Old
  BY <1>1 DEF Old, Superseded, Texts, Held, Same
<1>6. Kept'
  BY <1>1, <1>5 DEF IInv, Kept, NothingLost, Listed
<1>. QED  BY <1>2, <1>3, <1>4, <1>6 DEF IInv

LEMMA DeleteIInv == ASSUME ConstantsOK, IInv, NEW n \in met, Delete(n) PROVE IInv'
<1>1. /\ op = Idle /\ ops' = ops + 1 /\ ops' \in ops..MaxOps /\ ops \in Nat /\ MaxOps \in Nat
      /\ UNCHANGED <<op, left, astray, met>> /\ faults' \in 0..Faults
      /\ answer' \in {"ok", "error", None}
  BY DEF Delete, IInv, Types, ConstantsOK
<1>2. Old = {}
  BY <1>1, IdleTypes DEF Old
<1>3. CASE files' = Without(Held(n)) /\ live' = live \ Texts(n)
  BY <1>1, <1>2, <1>3, Removed DEF IInv, Types
<1>4. CASE UNCHANGED <<files, live>>
  <2>1. Types'
    BY <1>1, <1>4 DEF IInv, Types
  <2>2. Distinct'
    BY <1>1, <1>4, IdleTypes DEF IInv, Distinct, Same
  <2>3. Aimed'
    BY <1>1, IdleTypes DEF Aimed
  <2>4. Kept'
    BY <1>1, <1>4, IdleTypes DEF IInv, Kept, NothingLost, Listed, Old
  <2>. QED  BY <2>1, <2>2, <2>3, <2>4 DEF IInv
<1>. QED  BY <1>3, <1>4 DEF Delete

LEMMA NextIInv == ASSUME ConstantsOK PROVE IInv /\ [Next]_vars => IInv'
<1> SUFFICES ASSUME IInv, [Next]_vars PROVE IInv'
  OBVIOUS
<1>1. CASE UNCHANGED vars
  BY <1>1 DEF vars, IInv, Types, Distinct, Aimed, Kept, NothingLost, Listed, Old, Superseded,
              Texts, Held, Same, StemOfAnother
<1>2. CASE Next
  BY <1>2, ChooseIInv, DeleteIInv, WriteIInv, WriteFailsIInv, StatFailsIInv, RemoveIInv, RemoveFailsIInv,
     CrashIInv DEF Next
<1>. QED  BY <1>1, <1>2

-----------------------------------------------------------------------------
\* The theorems

THEOREM Inductive == ASSUME ConstantsOK PROVE Spec => []IInv
BY InitIInv, NextIInv, PTL DEF Spec

\* Types: among them that no two files have one name, in whatever case.
THEOREM TypeCorrect == ASSUME ConstantsOK PROVE Spec => []TypeOK
<1>1. IInv => TypeOK
  BY DEF IInv, Types, Distinct, TypeOK
<1>. QED  BY <1>1, Inductive, PTL

\* A client is listed what it has saved and neither replaced nor deleted, and what it has
\* given up only where the removal failed or did not come.
THEOREM Keeping == ASSUME ConstantsOK PROVE Spec => []TemplatesKept
<1>1. IInv => TemplatesKept
  BY IdleTypes DEF IInv, Kept, TemplatesKept, ReplacedIsGone, Old
<1>. QED  BY <1>1, Inductive, PTL

-----------------------------------------------------------------------------
\* Lines of code

\* Where every fence met within a block of its own character is as long and bare, the
\* tasks' scanner has been in the block the first one was in.
TasksAlike ==
    \A f, l \in Fences :
        <<f, l>> \in within /\ l.char = f.char => l.len = f.len /\ l.rest = "none"
LinksAlike == \A f, l \in Fences : <<f, l>> \in within => Closes(f, l)

ScanInv ==
    /\ CodeTypeOK
    /\ ~odd /\ TasksAlike => tasks = code /\ last.in.tasks = last.in.code
    /\ ~odd /\ LinksAlike => links = code /\ last.in.links = last.in.code

LEMMA ScanStart == ASSUME CodeConstantsOK, CodeInit PROVE ScanInv
<1>1. [code |-> FALSE, tasks |-> FALSE, links |-> FALSE] \in Readings
  BY DEF Readings
<1>2. last \in [line : Fences \union {Text, NoFence}, in : Readings]
  BY <1>1 DEF CodeInit
<1>3. lines \in 0..MaxLines
  BY DEF CodeInit, CodeConstantsOK
<1>4. CodeTypeOK
  BY <1>2, <1>3 DEF CodeInit, CodeTypeOK
<1>. QED  BY <1>4 DEF CodeInit, ScanInv

LEMMA ScanType ==
    ASSUME CodeConstantsOK, CodeTypeOK, NEW l \in Fences \union {Text}, ReadLine(l)
    PROVE  CodeTypeOK'
<1>1. {code', tasks', links'} \subseteq Fences \union {NoFence}
  BY DEF ReadLine, InCode, InTasks, InLinks, CodeTypeOK
<1>2. last' \in [line : Fences \union {Text, NoFence}, in : Readings]
  <2>1. [code |-> {code, code'} # {NoFence},
         tasks |-> l # Text \/ tasks # NoFence,
         links |-> l # Text \/ links # NoFence] \in Readings
    BY Zenon DEF Readings
  <2>. QED  BY <2>1 DEF ReadLine
<1>3. within' \subseteq Fences \X Fences
  BY DEF ReadLine, CodeTypeOK
<1>4. odd' \in BOOLEAN
  BY DEF ReadLine, CodeTypeOK
<1>5. lines' \in 0..MaxLines
  BY DEF ReadLine, CodeTypeOK, CodeConstantsOK
<1>. QED  BY <1>1, <1>2, <1>3, <1>4, <1>5 DEF CodeTypeOK

\* A fence within a block of the scanner of tags is in `within'.
LEMMA FenceMet ==
    ASSUME CodeTypeOK, NEW l \in Fences \union {Text}, ReadLine(l), l # Text, code # NoFence
    PROVE  <<code, l>> \in within' /\ code \in Fences /\ l \in Fences
BY DEF ReadLine, CodeTypeOK

\* A fence outside a block begins one for every scanner, or is odd.
LEMMA FenceBegins ==
    ASSUME NEW l \in Fences \union {Text}, ReadLine(l), l # Text, code = NoFence, ~odd'
    PROVE  code' = l
BY DEF ReadLine, InCode

LEMMA FenceKinds ==
    ASSUME CodeConstantsOK, NEW l \in Fences
    PROVE  l.len \in Nat /\ l.char \in {"tick", "tilde"}
BY DEF CodeConstantsOK, FenceType

LEMMA TasksStep ==
    ASSUME CodeConstantsOK, ScanInv, NEW l \in Fences \union {Text}, ReadLine(l),
           ~odd', TasksAlike'
    PROVE  tasks' = code' /\ last'.in.tasks = last'.in.code
<1>1. ~odd /\ TasksAlike
  BY DEF ReadLine, TasksAlike, ScanInv, CodeTypeOK
<1>2. tasks = code
  BY <1>1 DEF ScanInv
<1>3. last'.in = [code |-> {code, code'} # {NoFence}, tasks |-> l # Text \/ tasks # NoFence,
                  links |-> l # Text \/ links # NoFence]
  BY DEF ReadLine
<1>4. CASE l = Text
  BY <1>2, <1>3, <1>4 DEF ReadLine, InCode, InTasks
<1>5. CASE l # Text /\ code = NoFence
  <2>1. code' = l /\ tasks' = l
    BY <1>2, <1>5, FenceBegins DEF ReadLine, InTasks
  <2>2. l # NoFence
    BY <1>5 DEF CodeConstantsOK
  <2>. QED  BY <1>3, <1>5, <2>1, <2>2
<1>6. CASE l # Text /\ code # NoFence
  <2>1. /\ <<code, l>> \in within' /\ code \in Fences /\ l \in Fences
        /\ code.len \in Nat /\ l.len \in Nat
    BY <1>6, FenceMet, FenceKinds DEF ScanInv
  <2>2. l.char = code.char => l.len = code.len /\ l.rest = "none"
    BY <2>1 DEF TasksAlike
  <2>3. Ends(code, l) <=> Closes(code, l)
    BY <2>1, <2>2 DEF Ends, Closes
  <2>. QED  BY <1>2, <1>3, <1>6, <2>3 DEF ReadLine, InCode, InTasks
<1>. QED  BY <1>4, <1>5, <1>6

LEMMA LinksStep ==
    ASSUME CodeConstantsOK, ScanInv, NEW l \in Fences \union {Text}, ReadLine(l),
           ~odd', LinksAlike'
    PROVE  links' = code' /\ last'.in.links = last'.in.code
<1>1. ~odd /\ LinksAlike
  BY DEF ReadLine, LinksAlike, ScanInv, CodeTypeOK
<1>2. links = code
  BY <1>1 DEF ScanInv
<1>3. last'.in = [code |-> {code, code'} # {NoFence}, tasks |-> l # Text \/ tasks # NoFence,
                  links |-> l # Text \/ links # NoFence]
  BY DEF ReadLine
<1>4. CASE l = Text
  BY <1>2, <1>3, <1>4 DEF ReadLine, InCode, InLinks
<1>5. CASE l # Text /\ code = NoFence
  <2>1. code' = l /\ links' = l
    BY <1>2, <1>5, FenceBegins DEF ReadLine, InLinks
  <2>2. l # NoFence
    BY <1>5 DEF CodeConstantsOK
  <2>. QED  BY <1>3, <1>5, <2>1, <2>2
<1>6. CASE l # Text /\ code # NoFence
  <2>1. <<code, l>> \in within' /\ code \in Fences /\ l \in Fences
    BY <1>6, FenceMet DEF ScanInv
  <2>2. Closes(code, l)
    BY <2>1 DEF LinksAlike, Closes
  <2>. QED  BY <1>2, <1>3, <1>6, <2>2 DEF ReadLine, InCode, InLinks
<1>. QED  BY <1>4, <1>5, <1>6

LEMMA ScanStep == ASSUME CodeConstantsOK PROVE ScanInv /\ [CodeNext]_codeVars => ScanInv'
<1> SUFFICES ASSUME ScanInv, [CodeNext]_codeVars PROVE ScanInv'
  OBVIOUS
<1>1. CASE UNCHANGED codeVars
  BY <1>1 DEF codeVars, ScanInv, CodeTypeOK, TasksAlike, LinksAlike
<1>2. CASE CodeNext
  <2>1. PICK l \in Fences \union {Text} : ReadLine(l)
    BY <1>2 DEF CodeNext
  <2>2. CodeTypeOK'
    BY <2>1, ScanType DEF ScanInv
  <2>3. ~odd' /\ TasksAlike' => tasks' = code' /\ last'.in.tasks = last'.in.code
    BY <2>1, TasksStep
  <2>4. ~odd' /\ LinksAlike' => links' = code' /\ last'.in.links = last'.in.code
    BY <2>1, LinksStep
  <2>. QED  BY <2>2, <2>3, <2>4 DEF ScanInv
<1>. QED  BY <1>1, <1>2

\* Each of the two other scanners is in the block the first one is in, while the note is
\* within its condition.
THEOREM ScanInvariance == ASSUME CodeConstantsOK PROVE CodeSpec => []ScanInv
BY ScanStart, ScanStep, PTL DEF CodeSpec

\* Types of the scanners' states.
THEOREM ScanTypeCorrect == ASSUME CodeConstantsOK PROVE CodeSpec => []CodeTypeOK
<1>1. ScanInv => CodeTypeOK
  BY DEF ScanInv
<1>. QED  BY <1>1, ScanInvariance, PTL

\* The scanners agree on which lines are code, in notes of any length and fences of any.
THEOREM ScannersOfOneMind == ASSUME CodeConstantsOK PROVE CodeSpec => []ScannersAgree
<1>1. ScanInv => ScannersAgree
  BY DEF ScanInv, ScannersAgree, TasksAgree, LinksAgree, TasksAlike, LinksAlike
<1>. QED  BY <1>1, ScanInvariance, PTL

-----------------------------------------------------------------------------
\* Paths

\* A path is a sequence of names, and not the root.
LEMMA PathIsSeq ==
    ASSUME ScopeConstantsOK, NEW d
    PROVE  d \in Paths <=> d \in Seq(Dirs) /\ Len(d) \in 1..MaxDepth
<1>1. ASSUME d \in Paths PROVE d \in Seq(Dirs) /\ Len(d) \in 1..MaxDepth
  <2>1. PICK n \in 1..MaxDepth : d \in [1..n -> Dirs]
    BY <1>1 DEF Paths
  <2>2. n \in Nat
    BY <2>1 DEF ScopeConstantsOK
  <2>3. d \in Seq(Dirs) /\ Len(d) = n
    BY <2>1, <2>2
  <2>. QED  BY <2>1, <2>3
<1>2. ASSUME d \in Seq(Dirs), Len(d) \in 1..MaxDepth PROVE d \in Paths
  <2>1. d \in [1..Len(d) -> Dirs]
    BY <1>2
  <2>. QED  BY <1>2, <2>1 DEF Paths
<1>. QED  BY <1>1, <1>2

LEMMA WithinMeans ==
    ASSUME NEW d \in Seq(Dirs), NEW e \in Seq(Dirs)
    PROVE  Within(d, e) <=> Len(e) <= Len(d) /\ \A i \in 1..Len(e) : d[i] = e[i]
<1>1. CASE Len(e) > Len(d)
  BY <1>1 DEF Within, IsPrefix
<1>2. CASE Len(e) <= Len(d)
  <2>1. SubSeq(e, 1, Len(e)) = e
    OBVIOUS
  <2>2. /\ SubSeq(d, 1, Len(e)) \in Seq(Dirs) /\ Len(SubSeq(d, 1, Len(e))) = Len(e)
        /\ \A i \in 1..Len(e) : SubSeq(d, 1, Len(e))[i] = d[i]
    BY <1>2
  <2>3. SubSeq(d, 1, Len(e)) = e <=> \A i \in 1..Len(e) : d[i] = e[i]
    BY <2>2
  <2>. QED  BY <1>2, <2>1, <2>3 DEF Within, IsPrefix
<1>. QED  BY <1>1, <1>2

\* Below the directory of a system folder are the paths that begin with its name.
LEMMA WithinOne ==
    ASSUME NEW d \in Seq(Dirs), NEW x \in Dirs
    PROVE  Within(d, <<x>>) <=> d # Root /\ d[1] = x
<1>1. <<x>> \in Seq(Dirs) /\ Len(<<x>>) = 1 /\ <<x>>[1] = x
  OBVIOUS
<1>2. PICK e \in Seq(Dirs) : e = <<x>> /\ Len(e) = 1 /\ e[1] = x
  BY <1>1
<1>3. Within(d, e) <=> Len(e) <= Len(d) /\ \A i \in 1..Len(e) : d[i] = e[i]
  BY WithinMeans
<1>4. d # Root <=> Len(d) >= 1
  BY DEF Root
<1>5. Within(d, e) <=> Len(d) >= 1 /\ d[1] = x
  BY <1>2, <1>3
<1>. QED  BY <1>2, <1>4, <1>5

LEMMA WithinRoot == ASSUME NEW d \in Seq(Dirs) PROVE Within(d, Root)
<1>1. Root \in Seq(Dirs) /\ Len(Root) = 0
  BY DEF Root
<1>2. PICK e \in Seq(Dirs) : e = Root
  BY <1>1
<1>3. Within(d, e) <=> Len(e) <= Len(d) /\ \A i \in 1..Len(e) : d[i] = e[i]
  BY WithinMeans
<1>. QED  BY <1>1, <1>2, <1>3

NamedOK == sys \in [Folders -> Dirs] /\ ValidPaths(sys)

\* The walk and the classifier take a note they look at alike to be in one folder.
LEMMA WalkIsFolder ==
    ASSUME ScopeConstantsOK, NamedOK, NEW d \in Seq(Dirs), NEW n \in NoteNames, Classed(d, n)
    PROVE  WalkedIn(d, n) = FolderOf(d, n) \ {trash}
<1> DEFINE t == Top(d, n)
<1>1. \A f \in Folders : sys[f] \in Dirs /\ sys[f] \notin Hidden \union Reserved
  BY DEF NamedOK, ValidPaths
<1>2. \A f, g \in Folders : sys[f] = sys[g] => f = g
  BY DEF NamedOK, ValidPaths
<1>3. \A f \in Folders : Caseless[sys[f]] = Caseless[t] <=> t = sys[f]
  BY DEF Classed
<1>4. \A f \in Folders : t = sys[f] <=> d # Root /\ d[1] = sys[f]
  <2>1. ASSUME NEW f \in Folders, d = Root PROVE t # sys[f]
    BY <1>1, <2>1 DEF Top, ScopeConstantsOK
  <2>. QED  BY <2>1 DEF Top
<1>5. \A f \in Folders : Within(d, <<sys[f]>>) <=> t = sys[f]
  BY <1>1, <1>4, WithinOne
<1>6. t \notin Hidden /\ \A i \in DOMAIN d : d[i] \notin Hidden
  BY DEF Classed
<1>7. \A f \in Folders : \A i \in (Len(Base(f)) + 1)..Len(d) : d[i] \notin Hidden
  <2>1. \A f \in Folders : Len(Base(f)) \in Nat
    BY <1>1 DEF Base, Root
  <2>. QED  BY <1>6, <2>1
<1>8. \A f \in Folders : f \in FolderOf(d, n) <=>
         \/ t = sys[f]
         \/ (\A g \in Folders : t # sys[g]) /\ f = inbox /\ t \notin Reserved
  BY <1>2, <1>3, <1>6 DEF FolderOf
<1>9. \A f \in Folders : f \in WalkedIn(d, n) <=>
         /\ f # trash /\ Within(d, Base(f))
         /\ Base(f) = Root => t \notin HiddenAtRoot
  BY <1>7 DEF WalkedIn
<1>10. WalkedIn(d, n) \subseteq Folders /\ FolderOf(d, n) \subseteq Folders
  BY DEF WalkedIn, FolderOf, Folders
<1>11. \A f \in Folders : <<sys[f]>> # Root
  BY DEF Root
<1> HIDE DEF t
<1>12. ASSUME NEW f \in Folders
       PROVE  f \in WalkedIn(d, n) <=> f \in FolderOf(d, n) /\ f # trash
  <2>1. CASE Base(f) = <<sys[f]>> /\ ~(f = inbox /\ primary = "root")
    <3>1. f \in WalkedIn(d, n) <=> f # trash /\ t = sys[f]
      BY <1>5, <1>9, <1>11, <2>1
    <3>2. f = inbox => \E g \in Folders : t = sys[g]
      BY <2>1 DEF Classed, t
    <3>. QED  BY <1>8, <3>1, <3>2
  <2>2. CASE Base(f) = Root /\ f = inbox /\ primary = "root"
    <3>1. f \in WalkedIn(d, n) <=> t \notin HiddenAtRoot
      BY <1>9, <2>2, WithinRoot DEF ScopeConstantsOK
    <3>2. t \in HiddenAtRoot <=> t \in Reserved \/ \E g \in Folders \ {inbox} : t = sys[g]
      BY DEF HiddenAtRoot
    <3>3. f # trash
      BY <2>2 DEF ScopeConstantsOK
    <3>. QED  BY <1>1, <1>2, <1>8, <2>2, <3>1, <3>2, <3>3
  <2>. QED  BY <2>1, <2>2 DEF Base
<1>. QED  BY <1>10, <1>12

LEMMA AgreeOnListed ==
    ASSUME ScopeConstantsOK, NamedOK, dirs \subseteq Paths
    PROVE  ListedAgree
<1> SUFFICES ASSUME NEW d \in Homes, NEW n \in NoteNames, Classed(d, n)
             PROVE  Rescanned(d, n) = Scanned(d, n)
  BY DEF ListedAgree
<1>0. <<>> \in Seq(Dirs)
  OBVIOUS
<1>1. d \in Seq(Dirs)
  BY <1>0, PathIsSeq DEF Homes, Root
<1>2. WalkedIn(d, n) = FolderOf(d, n) \ {trash}
  BY <1>1, WalkIsFolder
<1>. QED  BY <1>2 DEF Rescanned, Scanned

-----------------------------------------------------------------------------
\* Folders move

LEMMA JoinedPath ==
    ASSUME NEW a \in Seq(Dirs), NEW r \in Seq(Dirs)
    PROVE  /\ a \o r \in Seq(Dirs) /\ Len(a \o r) = Len(a) + Len(r)
           /\ Within(a \o r, a)
           /\ SubSeq(a \o r, Len(a) + 1, Len(a \o r)) = r
           /\ a \o r = a <=> r = <<>>
BY DEF Within, IsPrefix

\* What is in a folder goes below its new path as it was below the old.
LEMMA MovedIs ==
    ASSUME NEW d \in Seq(Dirs), NEW old \in Seq(Dirs), NEW new \in Seq(Dirs), Within(d, old)
    PROVE  \E r \in Seq(Dirs) : d = old \o r /\ Moved(d, old, new) = new \o r
<1>1. /\ SubSeq(d, Len(old) + 1, Len(d)) \in Seq(Dirs)
      /\ d = old \o SubSeq(d, Len(old) + 1, Len(d))
  BY DEF Within, IsPrefix
<1>. QED  BY <1>1 DEF Moved

LEMMA JoinedFront ==
    ASSUME NEW a \in Seq(Dirs), NEW r \in Seq(Dirs), r # <<>>
    PROVE  Front(r) \in Seq(Dirs) /\ Front(a \o r) = a \o Front(r)
BY DEF Front

LEMMA MovedFront ==
    ASSUME NEW d \in Seq(Dirs), NEW old \in Seq(Dirs), NEW new \in Seq(Dirs), Within(d, old),
           d # old
    PROVE  /\ Len(d) > Len(old) /\ Front(d) \in Seq(Dirs) /\ Within(Front(d), old)
           /\ Front(Moved(d, old, new)) = Moved(Front(d), old, new)
<1>1. PICK r \in Seq(Dirs) : d = old \o r /\ Moved(d, old, new) = new \o r
  BY MovedIs
<1>2. r # <<>>
  BY <1>1, JoinedPath
<1>3. Len(r) > 0 /\ Len(d) = Len(old) + Len(r)
  BY <1>1, <1>2, JoinedPath
<1>4. /\ Front(r) \in Seq(Dirs)
      /\ Front(d) = old \o Front(r) /\ Front(new \o r) = new \o Front(r)
  BY <1>1, <1>2, JoinedFront
<1>5. PICK s \in Seq(Dirs) : s = Front(r)
  BY <1>4
<1>6. Front(d) \in Seq(Dirs) /\ Within(Front(d), old)
  BY <1>4, <1>5, JoinedPath
<1>7. Moved(Front(d), old, new) = new \o s
  <2>1. SubSeq(old \o s, Len(old) + 1, Len(old \o s)) = s
    BY JoinedPath
  <2>. QED  BY <1>4, <1>5, <2>1 DEF Moved
<1>. QED  BY <1>1, <1>3, <1>4, <1>5, <1>6, <1>7

\* No folder is without the one that holds it.
Rooted(D) == \A d \in D : Len(d) > 1 => Front(d) \in D

LEMMA ParentsOf ==
    ASSUME ScopeConstantsOK, NEW d \in Paths
    PROVE  /\ Parents(d) \subseteq Paths
           /\ \A e \in Parents(d) \union {d} : Len(e) > 1 => Front(e) \in Parents(d)
<1>1. d \in Seq(Dirs) /\ Len(d) \in 1..MaxDepth
  BY PathIsSeq
<1>2. MaxDepth \in Nat
  BY DEF ScopeConstantsOK
<1>3. \A n \in 1..Len(d) : SubSeq(d, 1, n) \in Seq(Dirs) /\ Len(SubSeq(d, 1, n)) = n
  BY <1>1
<1>4. ASSUME NEW e \in Parents(d) PROVE e \in Paths
  <2>1. PICK n \in 1..(Len(d) - 1) : e = SubSeq(d, 1, n)
    BY DEF Parents
  <2>2. e \in Seq(Dirs) /\ Len(e) \in 1..MaxDepth
    BY <1>1, <1>2, <1>3, <2>1
  <2>. QED  BY <2>2, PathIsSeq
<1>5. ASSUME NEW e \in Parents(d) \union {d}, Len(e) > 1 PROVE Front(e) \in Parents(d)
  <2>1. PICK n \in 1..Len(d) : e = SubSeq(d, 1, n)
    <3>1. CASE e = d
      BY <1>1, <3>1
    <3>2. CASE e \in Parents(d)
      BY <1>1, <3>2 DEF Parents
    <3>. QED  BY <3>1, <3>2
  <2>2. Len(e) = n /\ n - 1 \in 1..(Len(d) - 1)
    BY <1>1, <1>3, <1>5, <2>1
  <2>3. Front(e) = SubSeq(d, 1, n - 1)
    BY <1>1, <1>5, <2>1, <2>2 DEF Front
  <2>. QED  BY <2>2, <2>3 DEF Parents
<1>. QED  BY <1>4, <1>5

LEMMA OneName ==
    ASSUME ScopeConstantsOK, NEW x \in Dirs
    PROVE  <<x>> \in Paths /\ <<x>> \in Seq(Dirs) /\ Len(<<x>>) = 1
<1>1. <<x>> \in Seq(Dirs) /\ Len(<<x>>) = 1
  OBVIOUS
<1>2. 1 \in 1..MaxDepth
  BY DEF ScopeConstantsOK
<1>3. Len(<<x>>) \in 1..MaxDepth
  BY <1>1, <1>2
<1>. QED  BY <1>1, <1>3, PathIsSeq

LEMMA InboxMade ==
    ASSUME ScopeConstantsOK, NEW D \in SUBSET Paths, Rooted(D), NEW p, NEW s \in [Folders -> Dirs]
    PROVE  WithInbox(D, p, s) \subseteq Paths /\ Rooted(WithInbox(D, p, s))
<1>1. s[inbox] \in Dirs
  BY DEF Folders
<1>2. PICK x \in Paths : x = <<s[inbox]>> /\ Len(x) = 1
  BY <1>1, OneName
<1>4. \A d \in WithInbox(D, p, s) : d \in D \/ d = x
  BY <1>2 DEF WithInbox
<1>5. D \subseteq WithInbox(D, p, s)
  BY DEF WithInbox
<1>6. WithInbox(D, p, s) \subseteq Paths
  BY <1>2, <1>4
<1>7. ASSUME NEW d \in WithInbox(D, p, s), Len(d) > 1 PROVE Front(d) \in D
  <2>1. ASSUME d = x PROVE FALSE
    <3>1. Len(d) = 1
      BY <1>2, <2>1, Zenon
    <3>. QED  BY <1>7, <3>1
  <2>. QED  BY <1>4, <1>7, <2>1 DEF Rooted
<1>. QED  BY <1>5, <1>6, <1>7 DEF Rooted

\* What is stays when a folder goes with what is in it.
LEMMA TreeTaken ==
    ASSUME ScopeConstantsOK, dirs \subseteq Paths, Rooted(dirs), NEW old \in dirs
    PROVE  dirs \ Tree(old) \subseteq Paths /\ Rooted(dirs \ Tree(old))
<1> SUFFICES ASSUME NEW d \in dirs \ Tree(old), Len(d) > 1 PROVE Front(d) \notin Tree(old)
  BY DEF Rooted
<1>1. d \in Seq(Dirs) /\ old \in Seq(Dirs)
  BY PathIsSeq
<1>2. ~Within(d, old)
  BY DEF Tree
<1>3. ASSUME Within(Front(d), old) PROVE Within(d, old)
  BY <1>1, <1>3 DEF Within, IsPrefix, Front
<1>. QED  BY <1>2, <1>3 DEF Tree

Entries(L) == \A e \in L : e \in Seq(Dirs) \ {Root} /\ Len(e) <= MaxEntry

LEMMA ScopeTypes ==
    ScopeTypeOK <=>
      /\ dirs \subseteq Paths /\ Rooted(dirs)
      /\ primary \in Locations /\ NamedOK
      /\ Entries(excluded) /\ Entries(included) /\ Entries(templates)
      /\ changes \in 0..MaxChanges
BY DEF ScopeTypeOK, Rooted, NamedOK, Entries

LEMMA ListEntries ==
    ASSUME ScopeConstantsOK, NEW L \in Lists \union Templates PROVE Entries(L)
<1> SUFFICES ASSUME NEW e \in L PROVE e \in Seq(Dirs) \ {Root} /\ Len(e) <= MaxEntry
  BY DEF Entries
<1>1. e \in Paths /\ Len(e) <= MaxEntry
  BY DEF ScopeConstantsOK
<1>2. e \in Seq(Dirs) /\ Len(e) >= 1
  BY <1>1, PathIsSeq
<1>. QED  BY <1>1, <1>2 DEF Root

LEMMA ScopeStart == ASSUME ScopeConstantsOK, ScopeInit PROVE ScopeTypeOK
<1>1. \A f \in Folders : <<f>> \in Paths /\ Len(<<f>>) = 1
  BY OneName DEF ScopeConstantsOK
<1>2. dirs \subseteq Paths /\ Rooted(dirs)
  <2>1. dirs = Layout \union {<<f>> : f \in Folders}
    BY DEF ScopeInit
  <2>2. dirs \subseteq Paths
    BY <1>1, <2>1 DEF ScopeConstantsOK
  <2>3. ASSUME NEW d \in dirs, Len(d) > 1 PROVE Front(d) \in dirs
    <3>1. ASSUME NEW f \in Folders, d = <<f>> PROVE FALSE
      <4>1. Len(d) = 1
        BY <1>1, <3>1, Zenon
      <4>. QED  BY <2>3, <4>1
    <3>2. d \in Layout
      BY <2>1, <3>1
    <3>. QED  BY <2>1, <2>3, <3>2 DEF ScopeConstantsOK
  <2>. QED  BY <2>2, <2>3 DEF Rooted
<1>3. \A L \in Lists \union Templates : Entries(L)
  BY ListEntries
<1>4. NamedOK
  BY DEF ScopeInit, ScopeConstantsOK, NamedOK
<1>5. changes \in 0..MaxChanges
  BY DEF ScopeInit, ScopeConstantsOK
<1>. QED  BY <1>2, <1>3, <1>4, <1>5, ScopeTypes DEF ScopeInit

\* A path below a system folder's directory.
LEMMA BelowBase ==
    ASSUME NamedOK, NEW f \in Folders, NEW sub \in Subs, ScopeConstantsOK
    PROVE  Base(f) \o sub \in Seq(Dirs) \ {Root}
<1>1. sub \in Seq(Dirs) /\ Len(sub) >= 1
  <2>1. PICK n \in 1..MaxSub : sub \in [1..n -> Dirs]
    BY DEF Subs
  <2>2. n \in Nat /\ n >= 1
    BY <2>1 DEF ScopeConstantsOK
  <2>. QED  BY <2>1, <2>2
<1>2. Base(f) \in Seq(Dirs)
  BY DEF Base, NamedOK, Root
<1>3. PICK b \in Seq(Dirs) : b = Base(f)
  BY <1>2
<1>4. b \o sub \in Seq(Dirs) /\ Len(b \o sub) = Len(b) + Len(sub)
  BY <1>1, JoinedPath
<1>. QED  BY <1>1, <1>3, <1>4 DEF Root

LEMMA MovedEntry ==
    ASSUME NEW e \in Seq(Dirs), NEW old \in Seq(Dirs), NEW new \in Seq(Dirs) \ {Root},
           Within(e, old)
    PROVE  Moved(e, old, new) \in Seq(Dirs) \ {Root}
<1>1. PICK r \in Seq(Dirs) : e = old \o r /\ Moved(e, old, new) = new \o r
  BY MovedIs
<1>2. new \o r \in Seq(Dirs) /\ Len(new \o r) = Len(new) + Len(r) /\ Len(new) > 0
  BY JoinedPath DEF Root
<1>. QED  BY <1>1, <1>2 DEF Root

LEMMA FollowedEntries ==
    ASSUME NEW L, Entries(L), NEW old \in Seq(Dirs), NEW new \in Seq(Dirs) \ {Root}
    PROVE  Entries(Follow(L, old, new)) /\ Entries(FollowTemplate(L, old, new))
<1>1. \A e \in L : e \in Seq(Dirs) \ {Root} /\ Len(e) <= MaxEntry
  BY DEF Entries
<1>2. \A e \in L : Within(e, old) => Moved(e, old, new) \in Seq(Dirs) \ {Root}
  BY <1>1, MovedEntry
<1>3. Entries(Follow(L, old, new))
  BY <1>1, <1>2 DEF Entries, Follow, Short
<1>4. Entries(FollowTemplate(L, old, new))
  BY <1>1, <1>2 DEF Entries, FollowTemplate
<1>. QED  BY <1>3, <1>4

LEMMA ScopeRename ==
    ASSUME ScopeConstantsOK, ScopeTypeOK, NEW f \in Folders, NEW old \in dirs,
           NEW sub \in Subs, RenameFolder(f, old, Base(f) \o sub)
    PROVE  ScopeTypeOK'
<1>1. /\ dirs \subseteq Paths /\ Rooted(dirs) /\ NamedOK
      /\ Entries(excluded) /\ Entries(included) /\ Entries(templates)
  BY ScopeTypes
<1>2. PICK new \in Seq(Dirs) \ {Root} : new = Base(f) \o sub
  BY <1>1, BelowBase
<1>3. old \in Seq(Dirs) /\ old \in Paths
  BY <1>1, PathIsSeq
<1> DEFINE stays == dirs \ Tree(old)
           there == {Moved(e, old, new) : e \in Tree(old)}
           made == stays \union Parents(new) \union there
<1>4. ASSUME NEW e \in Tree(old) PROVE Moved(e, old, new) \in Paths
  <2>1. e \in Seq(Dirs) /\ Within(e, old) /\ Len(Moved(e, old, new)) <= MaxDepth
    BY <1>1, <1>2, PathIsSeq DEF Tree, RenameFolder
  <2>2. PICK m \in Seq(Dirs) : m = Moved(e, old, new) /\ m # Root
    BY <1>3, <2>1, MovedEntry
  <2>3. Len(m) \in 1..MaxDepth
    BY <2>1, <2>2 DEF Root, ScopeConstantsOK
  <2>. QED  BY <2>2, <2>3, PathIsSeq
<1>5. old \in Tree(old) /\ Moved(old, old, new) = new
  <2>0. <<>> \in Seq(Dirs)
    OBVIOUS
  <2>1. PICK r \in Seq(Dirs) : r = <<>>
    BY <2>0
  <2>2. old \o r = old /\ Within(old \o r, old) /\ SubSeq(old \o r, Len(old) + 1, Len(old \o r)) = r
    BY <1>3, <2>1, JoinedPath
  <2>. QED  BY <1>2, <2>1, <2>2 DEF Tree, Moved
<1>6. new \in Paths
  BY <1>4, <1>5
<1>7. /\ stays \subseteq Paths /\ Rooted(stays)
  BY <1>1, TreeTaken
<1>8. /\ Parents(new) \subseteq Paths
      /\ \A e \in Parents(new) \union {new} : Len(e) > 1 => Front(e) \in Parents(new)
  BY <1>6, ParentsOf
<1>9. ASSUME NEW e \in Tree(old), Len(Moved(e, old, new)) > 1
      PROVE  Front(Moved(e, old, new)) \in there \union Parents(new)
  <2>1. CASE e = old
    BY <1>5, <1>8, <1>9, <2>1
  <2>2. CASE e # old
    <3>1. e \in Seq(Dirs) /\ e \in dirs /\ Within(e, old)
      BY <1>1, PathIsSeq DEF Tree
    <3>2. /\ Len(e) > Len(old) /\ Within(Front(e), old)
          /\ Front(Moved(e, old, new)) = Moved(Front(e), old, new)
      BY <1>3, <2>2, <3>1, MovedFront
    <3>3. Len(e) > 1
      BY <1>3, <3>1, <3>2, PathIsSeq
    <3>4. Front(e) \in Tree(old)
      BY <1>1, <3>1, <3>2, <3>3 DEF Rooted, Tree
    <3>. QED  BY <3>2, <3>4
  <2>. QED  BY <2>1, <2>2
<1>10. made \subseteq Paths /\ Rooted(made)
  BY <1>4, <1>7, <1>8, <1>9 DEF Rooted
<1>11. dirs' = WithInbox(made, primary, sys) /\ UNCHANGED <<primary, sys>>
  BY <1>2 DEF RenameFolder
<1>12. dirs' \subseteq Paths /\ Rooted(dirs)'
  <2>1. sys \in [Folders -> Dirs]
    BY <1>1 DEF NamedOK
  <2> HIDE DEF made
  <2>2. WithInbox(made, primary, sys) \subseteq Paths /\ Rooted(WithInbox(made, primary, sys))
    BY <1>10, <2>1, InboxMade
  <2>. QED  BY <1>11, <2>2 DEF Rooted
<1>13. Entries(excluded)' /\ Entries(included)' /\ Entries(templates)'
  <2>1. /\ excluded' = Follow(excluded, old, new) /\ included' = Follow(included, old, new)
        /\ templates' = FollowTemplate(templates, old, new)
    BY <1>2 DEF RenameFolder
  <2>. QED  BY <1>1, <1>2, <1>3, <2>1, FollowedEntries DEF Entries
<1>14. changes' \in 0..MaxChanges /\ primary' \in Locations /\ NamedOK'
  BY <1>1, <1>11 DEF RenameFolder, ScopeTypeOK, NamedOK, ValidPaths, ScopeConstantsOK
<1>. QED  BY <1>12, <1>13, <1>14 DEF ScopeTypeOK, Rooted, NamedOK, Entries

LEMMA ScopeDelete ==
    ASSUME ScopeConstantsOK, ScopeTypeOK, NEW f \in Folders, NEW d \in dirs, DeleteFolder(f, d)
    PROVE  ScopeTypeOK'
<1>1. dirs \subseteq Paths /\ Rooted(dirs) /\ NamedOK
  BY ScopeTypes
<1>2. dirs \ Tree(d) \subseteq Paths /\ Rooted(dirs \ Tree(d))
  BY <1>1, TreeTaken
<1>3. /\ WithInbox(dirs \ Tree(d), primary, sys) \subseteq Paths
      /\ Rooted(WithInbox(dirs \ Tree(d), primary, sys))
  <2>1. sys \in [Folders -> Dirs]
    BY <1>1 DEF NamedOK
  <2>. QED  BY <1>2, <2>1, InboxMade
<1>4. dirs' \subseteq Paths /\ Rooted(dirs)'
  BY <1>3 DEF DeleteFolder, Rooted
<1>5. changes' \in 0..MaxChanges /\ UNCHANGED <<primary, sys, lists>>
  BY DEF DeleteFolder, ScopeTypeOK, ScopeConstantsOK
<1>. QED  BY <1>4, <1>5 DEF ScopeTypeOK, Rooted, ValidPaths, lists

LEMMA ScopeCreate ==
    ASSUME ScopeConstantsOK, ScopeTypeOK, NEW f \in Folders, NEW sub \in Subs,
           CreateFolder(f, Base(f) \o sub)
    PROVE  ScopeTypeOK'
<1>1. dirs \subseteq Paths /\ Rooted(dirs) /\ NamedOK
  BY ScopeTypes
<1>2. PICK d \in Seq(Dirs) \ {Root} : d = Base(f) \o sub
  BY <1>1, BelowBase
<1>3. d \in Paths
  <2>1. Len(d) \in 1..MaxDepth
    BY <1>2 DEF Root, CreateFolder, ScopeConstantsOK
  <2>. QED  BY <1>2, <2>1, PathIsSeq
<1>4. /\ Parents(d) \subseteq Paths
      /\ \A e \in Parents(d) \union {d} : Len(e) > 1 => Front(e) \in Parents(d)
  BY <1>3, ParentsOf
<1>5. dirs' = dirs \union {d} \union Parents(d)
  BY <1>2 DEF CreateFolder
<1>6. dirs' \subseteq Paths /\ Rooted(dirs)'
  BY <1>1, <1>3, <1>4, <1>5 DEF Rooted
<1>7. changes' \in 0..MaxChanges /\ UNCHANGED <<primary, sys, lists>>
  BY DEF CreateFolder, ScopeTypeOK, ScopeConstantsOK
<1>. QED  BY <1>6, <1>7 DEF ScopeTypeOK, Rooted, ValidPaths, lists

LEMMA ScopeSave == ASSUME ScopeConstantsOK, ScopeTypeOK, SetSettings PROVE ScopeTypeOK'
<1>1. dirs \subseteq Paths /\ Rooted(dirs)
  BY ScopeTypes
<1>2. sys' \in [Folders -> Dirs] /\ ValidPaths(sys')
  BY DEF SetSettings, ScopeConstantsOK
<1>3. PICK s \in [Folders -> Dirs] : s = sys'
  BY <1>2
<1>4. PICK p \in Locations : p = primary'
  BY DEF SetSettings
<1>5. WithInbox(dirs, p, s) \subseteq Paths /\ Rooted(WithInbox(dirs, p, s))
  BY <1>1, InboxMade
<1>6. dirs' = WithInbox(dirs, p, s)
  BY <1>3, <1>4 DEF SetSettings
<1>7. dirs' \subseteq Paths /\ Rooted(dirs)'
  BY <1>5, <1>6 DEF Rooted
<1>8. Entries(excluded)' /\ Entries(included)' /\ Entries(templates)'
  BY ListEntries DEF SetSettings, Entries
<1>9. changes' \in 0..MaxChanges
  BY DEF SetSettings, ScopeTypeOK, ScopeConstantsOK
<1>. QED  BY <1>2, <1>4, <1>7, <1>8, <1>9 DEF ScopeTypeOK, Rooted, Entries, ValidPaths

LEMMA ScopeStep ==
    ASSUME ScopeConstantsOK PROVE ScopeTypeOK /\ [ScopeNext]_scopeVars => ScopeTypeOK'
<1> SUFFICES ASSUME ScopeTypeOK, [ScopeNext]_scopeVars PROVE ScopeTypeOK'
  OBVIOUS
<1>1. CASE UNCHANGED scopeVars
  BY <1>1 DEF scopeVars, lists, ScopeTypeOK, ValidPaths
<1>2. CASE SetSettings
  BY <1>2, ScopeSave
<1>3. CASE \E f \in Folders, old \in dirs, sub \in Subs : RenameFolder(f, old, Base(f) \o sub)
  BY <1>3, ScopeRename
<1>4. CASE \E f \in Folders, d \in dirs : DeleteFolder(f, d)
  BY <1>4, ScopeDelete
<1>5. CASE \E f \in Folders, sub \in Subs : CreateFolder(f, Base(f) \o sub)
  BY <1>5, ScopeCreate
<1>. QED  BY <1>1, <1>2, <1>3, <1>4, <1>5 DEF ScopeNext

\* Types: of the directories, that none is without the one that holds it; of the system
\* folders, that no two share a directory and none has the usual name of another.
THEOREM ScopeTypeCorrect == ASSUME ScopeConstantsOK PROVE ScopeSpec => []ScopeTypeOK
BY ScopeStart, ScopeStep, PTL DEF ScopeSpec

\* The rescan of a note gives its tasks, in their folder, just when the scan of the vault
\* does, wherever the walk and the classifier look at the same of its path.
THEOREM RescansAgree == ASSUME ScopeConstantsOK PROVE ScopeSpec => []ListedAgree
<1>1. ScopeTypeOK => ListedAgree
  BY ScopeTypes, AgreeOnListed
<1>. QED  BY <1>1, ScopeTypeCorrect, PTL

-----------------------------------------------------------------------------
\* What is listed stays

LEMMA WithinThrough ==
    ASSUME NEW a \in Seq(Dirs), NEW b \in Seq(Dirs), NEW c \in Seq(Dirs),
           Within(a, b), Within(b, c)
    PROVE  Within(a, c)
<1>1. Len(c) <= Len(b) /\ Len(b) <= Len(a)
  BY WithinMeans
<1>2. \A i \in 1..Len(c) : a[i] = c[i]
  BY <1>1, WithinMeans
<1>. QED  BY <1>1, <1>2, WithinMeans

\* Of two paths that one path is within, one is within the other.
LEMMA WithinEither ==
    ASSUME NEW a \in Seq(Dirs), NEW b \in Seq(Dirs), NEW c \in Seq(Dirs),
           Within(a, b), Within(a, c)
    PROVE  Within(b, c) \/ Within(c, b)
<1>1. Len(c) <= Len(a) /\ Len(b) <= Len(a)
  BY WithinMeans
<1>2. /\ \A i \in 1..Len(b) : a[i] = b[i]
      /\ \A i \in 1..Len(c) : a[i] = c[i]
  BY WithinMeans
<1>3. CASE Len(c) <= Len(b)
  BY <1>2, <1>3, WithinMeans
<1>4. CASE Len(b) <= Len(c)
  BY <1>2, <1>4, WithinMeans
<1>. QED  BY <1>3, <1>4

LEMMA JoinedNames ==
    ASSUME NEW a \in Seq(Dirs), NEW r \in Seq(Dirs)
    PROVE  \E ar \in Seq(Dirs) :
              /\ ar = a \o r /\ Len(ar) = Len(a) + Len(r)
              /\ \A i \in 1..Len(a) : ar[i] = a[i]
              /\ \A i \in 1..Len(r) : ar[Len(a) + i] = r[i]
<1>1. a \o r \in Seq(Dirs) /\ Len(a \o r) = Len(a) + Len(r)
  OBVIOUS
<1>2. \A i \in 1..Len(a) : (a \o r)[i] = a[i]
  OBVIOUS
<1>3. ASSUME NEW i \in 1..Len(r) PROVE (a \o r)[Len(a) + i] = r[i]
  <2>1. Len(a) + i \in 1..(Len(a) + Len(r)) /\ ~(Len(a) + i <= Len(a)) /\ Len(a) + i - Len(a) = i
    OBVIOUS
  <2>. QED  BY <2>1
<1>. QED  BY <1>1, <1>2, <1>3

\* Below one folder, the folders before it make no difference.
LEMMA WithinJoined ==
    ASSUME NEW a \in Seq(Dirs), NEW r \in Seq(Dirs), NEW q \in Seq(Dirs)
    PROVE  Within(a \o r, a \o q) <=> Within(r, q)
<1>1. PICK ar \in Seq(Dirs) : /\ ar = a \o r /\ Len(ar) = Len(a) + Len(r)
                              /\ \A i \in 1..Len(a) : ar[i] = a[i]
                              /\ \A i \in 1..Len(r) : ar[Len(a) + i] = r[i]
  BY JoinedNames
<1>2. PICK aq \in Seq(Dirs) : /\ aq = a \o q /\ Len(aq) = Len(a) + Len(q)
                              /\ \A i \in 1..Len(a) : aq[i] = a[i]
                              /\ \A i \in 1..Len(q) : aq[Len(a) + i] = q[i]
  BY JoinedNames
<1>3. Within(ar, aq) <=> Len(aq) <= Len(ar) /\ \A i \in 1..Len(aq) : ar[i] = aq[i]
  BY WithinMeans
<1>4. Within(r, q) <=> Len(q) <= Len(r) /\ \A i \in 1..Len(q) : r[i] = q[i]
  BY WithinMeans
<1>5. ASSUME Within(ar, aq) PROVE Within(r, q)
  <2>1. Len(q) <= Len(r)
    BY <1>1, <1>2, <1>3, <1>5
  <2>2. ASSUME NEW i \in 1..Len(q) PROVE r[i] = q[i]
    <3>1. Len(a) + i \in 1..Len(aq) /\ i \in 1..Len(r)
      BY <1>2, <2>1
    <3>2. ar[Len(a) + i] = aq[Len(a) + i]
      BY <1>3, <1>5, <3>1
    <3>. QED  BY <1>1, <1>2, <3>1, <3>2
  <2>. QED  BY <1>4, <2>1, <2>2
<1>6. ASSUME Within(r, q) PROVE Within(ar, aq)
  <2>1. Len(q) <= Len(r) /\ \A i \in 1..Len(q) : r[i] = q[i]
    BY <1>4, <1>6
  <2>2. ASSUME NEW i \in 1..Len(aq) PROVE ar[i] = aq[i]
    <3>1. CASE i <= Len(a)
      BY <1>1, <1>2, <3>1
    <3>2. CASE i > Len(a)
      <4>1. i - Len(a) \in 1..Len(q) /\ i = Len(a) + (i - Len(a))
        BY <1>2, <3>2
      <4>2. PICK j \in 1..Len(q) : i = Len(a) + j
        BY <4>1
      <4>. QED  BY <1>1, <1>2, <2>1, <4>2
    <3>. QED  BY <3>1, <3>2
  <2>. QED  BY <1>1, <1>2, <1>3, <2>1, <2>2
<1>. QED  BY <1>1, <1>2, <1>5, <1>6

\* A path is within an entry, after the folder has gone, just when it was before.
LEMMA LandsWithin ==
    ASSUME NEW d \in Seq(Dirs), NEW e \in Seq(Dirs), NEW old \in Seq(Dirs),
           NEW new \in Seq(Dirs),
           Within(d, old) \/ ~Within(d, new), ~Within(e, new),
           ~Within(e, old) => (Within(old, e) <=> Within(new, e))
    PROVE  Within(Landed(d, old, new), Landed(e, old, new)) <=> Within(d, e)
<1>1. CASE Within(d, old) /\ Within(e, old)
  <2>1. PICK r \in Seq(Dirs) : d = old \o r /\ Moved(d, old, new) = new \o r
    BY <1>1, MovedIs
  <2>2. PICK q \in Seq(Dirs) : e = old \o q /\ Moved(e, old, new) = new \o q
    BY <1>1, MovedIs
  <2>3. Within(new \o r, new \o q) <=> Within(old \o r, old \o q)
    BY WithinJoined
  <2>. QED  BY <1>1, <2>1, <2>2, <2>3 DEF Landed
<1>2. CASE Within(d, old) /\ ~Within(e, old)
  <2>1. PICK r \in Seq(Dirs) : d = old \o r /\ Moved(d, old, new) = new \o r
    BY <1>2, MovedIs
  <2>2. PICK m \in Seq(Dirs) : m = new \o r /\ Within(m, new)
    BY JoinedPath
  <2>3. Within(d, e) <=> Within(old, e)
    BY <1>2, WithinThrough, WithinEither
  <2>4. Within(m, e) <=> Within(new, e)
    BY <2>2, WithinThrough, WithinEither
  <2>. QED  BY <1>2, <2>1, <2>2, <2>3, <2>4 DEF Landed
<1>3. CASE ~Within(d, old) /\ Within(e, old)
  <2>1. PICK q \in Seq(Dirs) : e = old \o q /\ Moved(e, old, new) = new \o q
    BY <1>3, MovedIs
  <2>2. PICK m \in Seq(Dirs) : m = new \o q /\ Within(m, new)
    BY JoinedPath
  <2>3. ~Within(d, e)
    BY <1>3, WithinThrough
  <2>4. ~Within(d, m)
    BY <1>3, <2>2, WithinThrough
  <2>. QED  BY <1>3, <2>1, <2>2, <2>3, <2>4 DEF Landed
<1>4. CASE ~Within(d, old) /\ ~Within(e, old)
  BY <1>4 DEF Landed
<1>. QED  BY <1>1, <1>2, <1>3, <1>4

LEMMA LeastNatural == ASSUME NEW T, T \subseteq Nat, T # {} PROVE \E k \in T : \A j \in T : k <= j
<1> DEFINE R == {ss \in Nat \X Nat : ss[1] < ss[2]}
<1>1. IsWellFoundedOn(R, Nat)
  BY NatLessThanWellFounded DEF OpToRel
<1>2. PICK k \in T : \A j \in T : ~(<<j, k>> \in R)
  BY <1>1, WFMin
<1>3. ASSUME NEW j \in T PROVE k <= j
  <2>1. j \in Nat /\ k \in Nat /\ ~(j < k)
    BY <1>2
  <2>. QED  BY <2>1
<1>. QED  BY <1>3

\* Every folder that holds one of the vault is of the vault.
LEMMA Above ==
    ASSUME dirs \subseteq Paths, Rooted(dirs), ScopeConstantsOK,
           NEW d \in dirs, NEW e \in Seq(Dirs) \ {Root}, Within(d, e)
    PROVE  e \in dirs
<1>1. d \in Seq(Dirs) /\ Len(e) <= Len(d) /\ \A i \in 1..Len(e) : d[i] = e[i]
  BY PathIsSeq, WithinMeans
<1> DEFINE T == {k \in Nat : Len(e) <= k /\ k <= Len(d) /\ SubSeq(d, 1, k) \in dirs}
<1>2. Len(d) \in T
  <2>1. SubSeq(d, 1, Len(d)) = d
    BY <1>1
  <2>2. Len(d) \in Nat /\ Len(e) <= Len(d) /\ Len(d) <= Len(d)
    BY <1>1
  <2>. QED  BY <2>1, <2>2
<1>3. PICK k \in T : \A j \in T : k <= j
  BY <1>2, LeastNatural
<1>4. /\ SubSeq(d, 1, k) \in dirs /\ SubSeq(d, 1, k) \in Seq(Dirs)
      /\ Len(SubSeq(d, 1, k)) = k /\ k \in Nat /\ Len(e) <= k /\ k <= Len(d)
  BY <1>1
<1>5. CASE k = Len(e)
  <2>1. /\ SubSeq(d, 1, k) \in Seq(Dirs) /\ Len(SubSeq(d, 1, k)) = Len(e)
        /\ \A i \in 1..Len(e) : SubSeq(d, 1, k)[i] = e[i]
    BY <1>1, <1>4, <1>5
  <2>2. SubSeq(d, 1, k) = e
    BY <2>1
  <2>. QED  BY <1>4, <2>2
<1>6. CASE k # Len(e)
  <2>1. Len(e) >= 1 /\ k > 1 /\ k - 1 \in Nat /\ Len(e) <= k - 1 /\ k - 1 <= Len(d)
    BY <1>4, <1>6 DEF Root
  <2>2. Front(SubSeq(d, 1, k)) = SubSeq(d, 1, k - 1)
    BY <1>1, <1>4, <2>1 DEF Front
  <2>3. Front(SubSeq(d, 1, k)) \in dirs
    BY <1>4, <2>1 DEF Rooted
  <2>4. k - 1 \in T
    BY <2>1, <2>2, <2>3
  <2>5. k <= k - 1
    BY <1>3, <2>4
  <2>. QED  BY <1>4, <2>5
<1>. QED  BY <1>5, <1>6

\* What the lists hold after the folder has gone.
LEMMA ListsAfter ==
    ASSUME NEW f \in Folders, NEW old, NEW new, RenameFolder(f, old, new), Follows(old, new)
    PROVE  /\ excluded' = {Landed(e, old, new) : e \in excluded}
           /\ included' = {Landed(e, old, new) : e \in included}
           /\ templates' = {Landed(e, old, new) : e \in templates}
<1>1. /\ excluded' = Follow(excluded, old, new) /\ included' = Follow(included, old, new)
      /\ templates' = FollowTemplate(templates, old, new)
  BY DEF RenameFolder
<1>2. \A e \in Named : Len(Landed(e, old, new)) <= MaxEntry
  BY DEF Follows
<1>3. \A e \in templates : Within(e, old) =>
         \A i \in DOMAIN Landed(e, old, new) : Landed(e, old, new)[i] \notin Hidden
  BY DEF Follows
<1>4. ASSUME NEW L, \A e \in L : Len(Landed(e, old, new)) <= MaxEntry
      PROVE  Follow(L, old, new) = {Landed(e, old, new) : e \in L}
  BY <1>4 DEF Follow, Short, Landed
<1>5. FollowTemplate(templates, old, new) = {Landed(e, old, new) : e \in templates}
  <2>1. ASSUME NEW e \in templates, Within(e, old)
        PROVE  /\ Moved(e, old, new) = Landed(e, old, new)
               /\ Len(Moved(e, old, new)) <= MaxEntry
               /\ \A i \in DOMAIN Moved(e, old, new) : Moved(e, old, new)[i] \notin Hidden
    BY <1>2, <1>3, <2>1 DEF Landed, Named
  <2>. QED  BY <2>1 DEF FollowTemplate, Landed
<1>6. /\ \A e \in excluded : Len(Landed(e, old, new)) <= MaxEntry
      /\ \A e \in included : Len(Landed(e, old, new)) <= MaxEntry
  BY <1>2 DEF Named
<1>. QED  BY <1>1, <1>4, <1>5, <1>6

LEMMA CountedAfter ==
    ASSUME ScopeConstantsOK, ScopeTypeOK, ScopeTypeOK', NEW f \in Folders, NEW old \in dirs,
           NEW new \in dirs' \ dirs, RenameFolder(f, old, new), StaysListed(old, new),
           Follows(old, new), NEW d \in Homes
    PROVE  Counted(Landed(d, old, new))' <=> Counted(d)
<1>1. /\ dirs \subseteq Paths /\ Rooted(dirs) /\ dirs' \subseteq Paths
      /\ Entries(excluded) /\ Entries(included) /\ Entries(templates)
  BY ScopeTypes DEF ScopeTypeOK
<1>2. old \in Seq(Dirs) /\ new \in Seq(Dirs) /\ new # Root /\ d \in Seq(Dirs)
  <2>1. <<>> \in Seq(Dirs)
    OBVIOUS
  <2>2. new # <<>>
    <3>1. new \in Seq(Dirs) /\ Len(new) >= 1
      BY <1>1, PathIsSeq
    <3>. QED  BY <3>1
  <2>. QED  BY <1>1, <2>1, <2>2, PathIsSeq DEF Homes, Root
<1>3. ~Within(d, new)
  <2>1. CASE d = Root
    <3>1. Len(d) = 0 /\ Len(new) > 0
      BY <1>2, <2>1 DEF Root
    <3>2. Within(d, new) => Len(new) <= Len(d)
      BY <1>2, WithinMeans
    <3>. QED  BY <1>2, <3>1, <3>2
  <2>2. CASE d \in dirs
    BY <1>1, <1>2, <2>2, Above
  <2>. QED  BY <2>1, <2>2 DEF Homes
<1>4. \A e \in Named : e \in Seq(Dirs)
  BY <1>1 DEF Entries, Named
<1>5. \A e \in Named : Within(Landed(d, old, new), Landed(e, old, new)) <=> Within(d, e)
  BY <1>2, <1>3, <1>4, LandsWithin DEF StaysListed
<1>6. /\ excluded' = {Landed(e, old, new) : e \in excluded}
      /\ included' = {Landed(e, old, new) : e \in included}
      /\ templates' = {Landed(e, old, new) : e \in templates}
  BY ListsAfter
<1> DEFINE t == Landed(d, old, new)
<1>7. (\E e \in included' : Within(t, e)) <=> \E e \in included : Within(d, e)
  BY <1>5, <1>6 DEF Named
<1>8. (\E e \in excluded' \union templates' : Within(t, e)) <=>
      \E e \in excluded \union templates : Within(d, e)
  BY <1>5, <1>6 DEF Named
<1>9. included' = {} <=> included = {}
  BY <1>6
<1>10. Counted(t)' <=> /\ included' # {} => \E e \in included' : Within(t, e)
                      /\ ~\E e \in excluded' \union templates' : Within(t, e)
  BY DEF Counted, Within, Landed, Moved
<1>. QED  BY <1>7, <1>8, <1>9, <1>10 DEF Counted

\* A rename or a move, within the listed folders above and to a place that no entry names,
\* leaves each note listed or not, whatever the lists name.
THEOREM TasksRemain == ASSUME ScopeConstantsOK PROVE ScopeSpec => TasksStay
<1>1. ASSUME ScopeTypeOK, ScopeTypeOK'
      PROVE  \A f \in Folders, old \in dirs, new \in dirs' \ dirs :
               RenameFolder(f, old, new) /\ StaysListed(old, new) /\ Follows(old, new) =>
                 \A d \in Homes : Counted(Landed(d, old, new))' <=> Counted(d)
  BY <1>1, CountedAfter
<1>. QED  BY <1>1, ScopeTypeCorrect, PTL DEF TasksStay
=============================================================================
