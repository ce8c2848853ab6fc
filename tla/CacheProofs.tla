---------------------------- MODULE CacheProofs ----------------------------
(***************************************************************************)
(* Proofs about three of a vault's caches: TextSearch, for any notes,      *)
(* lines, searches and templates, any limit and any number of writes,      *)
(* whether or not reads fail; SettingsFile, for any requests, fields and   *)
(* settings, and any number of calls, failures and crashes, on a clock     *)
(* that never gives two writes of the file one time; NoteMeta, for any     *)
(* clients, notes, texts and preamble folders, any number of goroutines,   *)
(* changes and restarts.                                                   *)
(***************************************************************************)
EXTENDS TextSearch, SettingsFile, NoteMeta, FiniteSetTheorems, TLAPS

-----------------------------------------------------------------------------
\* The first few of a set of numbers

Below(H, x) == {h \in H : h < x}

\* Those that fewer than k others precede.
FirstOf(H, k) == {g \in H : Cardinality(Below(H, g)) < k}

LEMMA SmallestOf ==
    ASSUME NEW S \in SUBSET Nat, S # {}
    PROVE  \E m \in S : \A x \in S : m <= x
<1>. DEFINE R == {ss \in Nat \X Nat : ss[1] < ss[2]}
<1>1. IsWellFoundedOn(R, Nat)
  BY NatLessThanWellFounded DEF OpToRel
<1>2. PICK m \in S : \A x \in S : ~ (<<x, m>> \in R)
  BY <1>1, WFMin
<1>3. ASSUME NEW x \in S PROVE m <= x
  <2>1. ~ (<<x, m>> \in R)
    BY <1>2
  <2>2. x \in Nat /\ m \in Nat /\ <<x, m>> \in Nat \X Nat
    OBVIOUS
  <2>3. ~ (x < m)
    BY <2>1, <2>2
  <2>. QED  BY <2>2, <2>3
<1>. QED  BY <1>3

LEMMA LargestOf ==
    ASSUME NEW n \in Nat, NEW S \in SUBSET (0..n), S # {}
    PROVE  \E m \in S : \A x \in S : x <= m
<1>. DEFINE U == {u \in Nat : \A x \in S : x <= u}
<1>1. U \in SUBSET Nat /\ n \in U
  OBVIOUS
<1>2. PICK m \in U : \A u \in U : m <= u
  BY <1>1, SmallestOf
<1>3. PICK y \in S : TRUE
  OBVIOUS
<1>4. ASSUME m \notin S PROVE FALSE
  <2>1. \A x \in S : x <= m - 1 /\ x \in Nat
    BY <1>4
  <2>2. m - 1 \in U
    BY <1>3, <2>1
  <2>. QED  BY <1>2, <2>2
<1>. QED  BY <1>2, <1>4

\* Counting part of a finite set of numbers.
LEMMA PartCard ==
    ASSUME NEW n \in Nat, NEW H \in SUBSET (0..n), NEW B \in SUBSET H
    PROVE  /\ IsFiniteSet(B)
           /\ Cardinality(B) \in Nat
           /\ Cardinality(B) <= Cardinality(H)
<1>1. IsFiniteSet(0..n)
  BY FS_Interval
<1>2. IsFiniteSet(H)
  BY <1>1, FS_Subset
<1>. QED  BY <1>2, FS_Subset, FS_CardinalityType

\* What precedes one of the first is among the first.
LEMMA FirstOfInitial ==
    ASSUME NEW n \in Nat, NEW H \in SUBSET (0..n), NEW k \in Nat,
           NEW g \in FirstOf(H, k), NEW h \in H, h < g
    PROVE  h \in FirstOf(H, k)
<1>0. g \in Nat /\ \A x \in H : x \in Nat
  BY DEF FirstOf
<1>1. Below(H, h) \in SUBSET Below(H, g) /\ Below(H, g) \in SUBSET (0..n)
  <2>1. \A x \in H : x < h => x < g
    BY <1>0
  <2>. QED  BY <2>1 DEF Below
<1>2. /\ Cardinality(Below(H, h)) <= Cardinality(Below(H, g))
      /\ Cardinality(Below(H, h)) \in Nat
  BY <1>1, PartCard
<1>3. Cardinality(Below(H, g)) \in Nat
  BY <1>1, PartCard
<1>4. Cardinality(Below(H, g)) < k
  BY DEF FirstOf
<1>. QED  BY <1>2, <1>3, <1>4 DEF FirstOf

\* There are k of them, or fewer where there are no more.
LEMMA FirstOfCard ==
    ASSUME NEW n \in Nat, NEW H \in SUBSET (0..n), NEW k \in Nat
    PROVE  /\ Cardinality(FirstOf(H, k)) \in Nat
           /\ Cardinality(FirstOf(H, k)) <= k
           /\ Cardinality(FirstOf(H, k)) < k => FirstOf(H, k) = H
<1>. DEFINE F == FirstOf(H, k)
<1>0. \A x \in H : x \in Nat
  OBVIOUS
<1>1. F \in SUBSET H /\ F \in SUBSET (0..n)
  BY DEF FirstOf
<1>2. IsFiniteSet(F) /\ Cardinality(F) \in Nat
  BY <1>1, PartCard
<1>3. Cardinality(F) <= k
  <2>1. CASE F = {}
    BY <2>1, FS_EmptySet
  <2>2. CASE F # {}
    <3>1. PICK m \in F : \A x \in F : x <= m
      BY <1>1, <2>2, LargestOf
    <3>2. \A x \in H : x < m => x \in F
      BY <1>1, <3>1, FirstOfInitial
    <3>3. Below(H, m) = F \ {m}
      <4>. HIDE DEF F
      <4>1. \A x \in H : x < m <=> x \in F \ {m}
        BY <1>0, <1>1, <3>1, <3>2
      <4>. QED  BY <1>1, <4>1 DEF Below
    <3>4. Cardinality(F \ {m}) = Cardinality(F) - 1
      BY <1>2, <3>1, FS_RemoveElement
    <3>5. Cardinality(Below(H, m)) < k
      BY <3>1 DEF FirstOf
    <3>. QED  BY <1>2, <3>3, <3>4, <3>5
  <2>. QED  BY <2>1, <2>2
<1>4. ASSUME Cardinality(F) < k, F # H PROVE FALSE
  <2>1. H \ F # {} /\ H \ F \in SUBSET Nat
    <3>. HIDE DEF F
    <3>. QED  BY <1>0, <1>1, <1>4
  <2>2. PICK m \in H \ F : \A x \in H \ F : m <= x
    BY <2>1, SmallestOf
  <2>4. Below(H, m) \in SUBSET F
    <3>. HIDE DEF F
    <3>1. \A x \in H : x < m => x \in F
      BY <1>0, <2>2
    <3>. QED  BY <3>1 DEF Below
  <2>5. Cardinality(Below(H, m)) <= Cardinality(F) /\ Cardinality(Below(H, m)) \in Nat
    BY <1>1, <2>4, PartCard
  <2>6. Cardinality(Below(H, m)) < k
    BY <1>2, <1>4, <2>5
  <2>. QED  BY <2>2, <2>6 DEF FirstOf
<1>. QED  BY <1>2, <1>3, <1>4

\* One that is not among the first comes after k of them.
LEMMA AfterFirst ==
    ASSUME NEW n \in Nat, NEW H \in SUBSET (0..n), NEW k \in Nat,
           NEW f \in H, f \notin FirstOf(H, k)
    PROVE  Cardinality(Below(FirstOf(H, k), f)) = k
<1>. DEFINE B == Below(H, f)
<1>0. \A x \in H : x \in Nat
  OBVIOUS
<1>1. B \in SUBSET (0..n) /\ B \in SUBSET H
  BY DEF Below
<1>2. Cardinality(B) \in Nat
  BY <1>1, PartCard
<1>3. ~ (Cardinality(B) < k)
  BY DEF FirstOf
<1>4. ASSUME NEW g \in B PROVE Below(B, g) = Below(H, g)
  <2>1. g \in H /\ g < f
    BY DEF Below
  <2>2. \A x \in H : x < g => x < f
    BY <1>0, <2>1
  <2>. QED  BY <2>2 DEF Below
<1>5. Below(FirstOf(H, k), f) = FirstOf(B, k)
  BY <1>4 DEF FirstOf, Below
<1>6. /\ Cardinality(FirstOf(B, k)) \in Nat
      /\ Cardinality(FirstOf(B, k)) <= k
      /\ Cardinality(FirstOf(B, k)) < k => FirstOf(B, k) = B
  BY <1>1, FirstOfCard
<1>. QED  BY <1>2, <1>3, <1>5, <1>6

-----------------------------------------------------------------------------
\* The inductive invariant

\* The running search s has signed the note f.
Signed(s, f) == (pc[s] = "sign" /\ f \notin search[s].todo) \/ pc[s] = "read"

\* A line that was read of f after f was signed sg: it is the note's as long as the
\* note has that stamp, and every search that has signed it so has lived through it.
Fits(sg, line, f) ==
    IF sg = None THEN line = None
    ELSE /\ sg <= writes
         /\ disk[f] # None /\ disk[f].stamp = sg => line = disk[f].line
         /\ \A s \in Searchers :
               Signed(s, f) /\ search[s].sig[f] = sg => line \in seen[s][f]

\* A running search has seen every note as it is.
Watches(s) == Running(s) => \A f \in Files : Line(f) \in seen[s][f]

\* What was not there when it was signed was seen to be missing; no stamp is to come.
Signs(s) ==
    \A f \in Files : Signed(s, f) =>
        IF search[s].sig[f] = None THEN None \in seen[s][f] ELSE search[s].sig[f] <= writes

\* A search has read nothing while it walks, and then what fits its signature.
Reads(s) ==
    /\ pc[s] # "idle" => search[s].query \in Bodies
    /\ pc[s] = "sign" =>
          search[s].unread = {} /\ \A f \in Files : search[s].lines[f] = None
    /\ pc[s] = "read" => \A f \in Files :
          /\ f \in search[s].todo => search[s].sig[f] # None /\ f \notin search[s].unread
          /\ f \in search[s].todo \union search[s].unread => search[s].lines[f] = None
          /\ f \notin search[s].todo \union search[s].unread =>
                Fits(search[s].sig[f], search[s].lines[f], f)

\* The lines a search is about to look through are of its time.
Has(s) ==
    pc[s] = "filter" => \A f \in Files :
        IF f \in search[s].unread THEN search[s].lines[f] = None
        ELSE search[s].lines[f] \in seen[s][f]

\* What AnswersTheTime says of one search.
Answers(s) ==
    pc[s] = "done" => \A f \in Files :
        IF f \in search[s].found THEN search[s].query \in seen[s][f]
        ELSE \/ seen[s][f] # {search[s].query}
             \/ f \in search[s].skipped \union search[s].unread
             \/ Cardinality({g \in search[s].found : g < f}) = Limit

Sound(s) == Watches(s) /\ Signs(s) /\ Reads(s) /\ Has(s) /\ Answers(s)

\* The cached lines fit their signature.
Cached ==
    cache # None => \A f \in Files :
        IF f \in cache.unread THEN cache.lines[f] = None
        ELSE Fits(cache.sig[f], cache.lines[f], f)

IInv == TypeOK /\ Cached /\ \A s \in Searchers : Sound(s)

-----------------------------------------------------------------------------
\* Types

Note == [line : Bodies, stamp : 0..writes]
Hand == [query : Lines, sig : [Files -> Stamps], lines : [Files -> Lines],
         todo : SUBSET Files, unread : SUBSET Files, found : SUBSET Files,
         skipped : SUBSET Files]

LEMMA LineType == ASSUME TypeOK, NEW f \in Files PROVE Line(f) \in Lines
BY DEF TypeOK, Line, Lines

LEMMA IdleType == Idle \in Hand
BY DEF Idle, Hand, Lines, Stamps

LEMMA NumberedFiles == ASSUME ConstantsOK PROVE \E n \in Nat : Files \in SUBSET (0..n)
<1>1. Cardinality(Files) \in Nat
  BY FS_CardinalityType DEF ConstantsOK
<1>. QED  BY <1>1 DEF ConstantsOK

\* A search returns Limit matches at the most.
LEMMA FoundCard ==
    ASSUME ConstantsOK, NEW H \in SUBSET Files
    PROVE  Cardinality(FirstOf(H, Limit)) <= Limit
<1>1. PICK n \in Nat : Files \in SUBSET (0..n)
  BY NumberedFiles
<1>. QED  BY <1>1, FirstOfCard DEF ConstantsOK

LEMMA InitTypeOK == ASSUME ConstantsOK PROVE Init => TypeOK
<1> SUFFICES ASSUME Init PROVE TypeOK
  OBVIOUS
<1>1. disk \in [Files -> [line : Bodies, stamp : 0..writes] \union {None}]
  BY DEF Init
<1>2. \A s \in Searchers : Cardinality(search[s].found) <= Limit
  <2>1. Idle.found = {} /\ Cardinality({}) = 0
    BY FS_EmptySet DEF Idle
  <2>2. \A s \in Searchers : search[s] = Idle
    BY DEF Init
  <2>3. 0 <= Limit
    BY DEF ConstantsOK
  <2>. QED  BY <2>1, <2>2, <2>3
<1>3. search \in [Searchers -> Hand]
  BY IdleType DEF Init
<1>4. seen \in [Searchers -> [Files -> SUBSET Lines]]
  BY DEF Init
<1>. QED  BY <1>1, <1>2, <1>3, <1>4 DEF Init, TypeOK, ConstantsOK, Hand

\* A step of a search leaves what the search has in hand typed.
LEMMA HandTypeOK ==
    ASSUME TypeOK, NEW s \in Searchers, NEW h \in Hand, Cardinality(h.found) <= Limit,
           search' = [search EXCEPT ![s] = h]
    PROVE  /\ search' \in [Searchers -> Hand]
           /\ \A r \in Searchers : Cardinality(search'[r].found) <= Limit
BY DEF TypeOK, Hand

LEMMA NextTypeOK == ASSUME ConstantsOK PROVE TypeOK /\ [Next]_vars => TypeOK'
<1> SUFFICES ASSUME TypeOK, [Next]_vars PROVE TypeOK'
  OBVIOUS
<1>0. search \in [Searchers -> Hand]
  BY DEF TypeOK, Hand
\* Every step of a search
<1>1. ASSUME NEW s \in Searchers, NEW h \in Hand, Cardinality(h.found) <= Limit,
             search' = [search EXCEPT ![s] = h], UNCHANGED <<disk, template, writes>>,
             cache' = None \/ cache' \in Found,
             seen' \in [Searchers -> [Files -> SUBSET Lines]],
             pc' \in [Searchers -> {"idle", "sign", "read", "filter", "done"}]
      PROVE  TypeOK'
  <2>1. search' \in [Searchers -> Hand] /\ \A r \in Searchers : Cardinality(search'[r].found) <= Limit
    BY <1>1, HandTypeOK
  <2>. QED  BY <1>1, <2>1 DEF TypeOK, Hand
<1>2. ASSUME NEW s \in Searchers, Begin(s) PROVE TypeOK'
  <2>1. PICK q \in Bodies : search' = [search EXCEPT ![s] = [Idle EXCEPT !.query = q, !.todo = Files]]
    BY <1>2 DEF Begin
  <2>. DEFINE h == [Idle EXCEPT !.query = q, !.todo = Files]
  <2>2. h \in Hand
    BY IdleType DEF Hand, Lines
  <2>3. h.found = {}
    BY DEF Idle
  <2>4. Cardinality(h.found) <= Limit
    <3>1. Cardinality(h.found) = 0
      BY <2>3, FS_EmptySet
    <3>2. 0 <= Limit
      BY DEF ConstantsOK
    <3>. QED  BY <3>1, <3>2
  <2>5. [f \in Files |-> {Line(f)}] \in [Files -> SUBSET Lines]
    BY LineType
  <2>6. seen' \in [Searchers -> [Files -> SUBSET Lines]]
    BY <1>2, <2>5 DEF Begin, TypeOK
  <2>7. UNCHANGED <<disk, template, cache, writes>>
        /\ pc' \in [Searchers -> {"idle", "sign", "read", "filter", "done"}]
    BY <1>2 DEF Begin, TypeOK
  <2>8. search' = [search EXCEPT ![s] = h] /\ (cache' = None \/ cache' \in Found)
    BY <2>1, <2>7 DEF TypeOK
  <2>. HIDE DEF h
  <2>. QED  BY <1>1, <2>2, <2>4, <2>6, <2>7, <2>8
<1>3. ASSUME NEW s \in Searchers, Sign(s) PROVE TypeOK'
  <2>1. PICK f \in search[s].todo :
           search' = [search EXCEPT
                ![s].sig[f] = IF disk[f] = None THEN None ELSE disk[f].stamp,
                ![s].todo = @ \ {f}]
    BY <1>3 DEF Sign
  <2>. DEFINE sg == IF disk[f] = None THEN None ELSE disk[f].stamp
              h == [search[s] EXCEPT !.sig = [@ EXCEPT ![f] = sg], !.todo = @ \ {f}]
  <2>2. sg \in Stamps
    BY <1>0 DEF TypeOK, Stamps, Hand
  <2>3. h \in Hand /\ h.found = search[s].found
    BY <1>0, <2>2 DEF Hand
  <2>4. search' = [search EXCEPT ![s] = h]
    BY <1>0, <2>1 DEF Hand
  <2>5. UNCHANGED <<disk, template, cache, pc, writes, seen>>
    BY <1>3 DEF Sign
  <2>. HIDE DEF h
  <2>. QED  BY <1>1, <2>3, <2>4, <2>5 DEF TypeOK
<1>4. ASSUME NEW s \in Searchers, Check(s) PROVE TypeOK'
  <2>1. /\ UNCHANGED <<disk, template, cache, writes, seen>>
        /\ pc' \in [Searchers -> {"idle", "sign", "read", "filter", "done"}]
    BY <1>4 DEF Check, TypeOK
  <2>2. CASE cache # None /\ cache.sig = search[s].sig
    <3>. DEFINE h == [search[s] EXCEPT !.lines = cache.lines, !.unread = cache.unread]
    <3>0. cache.lines \in [Files -> Lines] /\ cache.unread \in SUBSET Files
      BY <2>2 DEF TypeOK, Found
    <3>1. h \in Hand /\ h.found = search[s].found
      BY <1>0, <3>0 DEF Hand
    <3>2. search' = [search EXCEPT ![s] = h]
      BY <1>0, <1>4, <2>2 DEF Check, Hand
    <3>. HIDE DEF h
    <3>. QED  BY <1>1, <2>1, <3>1, <3>2 DEF TypeOK
  <2>3. CASE ~(cache # None /\ cache.sig = search[s].sig)
    <3>. DEFINE h == [search[s] EXCEPT !.todo = {f \in Files : search[s].sig[f] # None}]
    <3>1. h \in Hand /\ h.found = search[s].found
      BY <1>0 DEF Hand
    <3>2. search' = [search EXCEPT ![s] = h]
      BY <1>0, <1>4, <2>3 DEF Check, Hand
    <3>. HIDE DEF h
    <3>. QED  BY <1>1, <2>1, <3>1, <3>2 DEF TypeOK
  <2>. QED  BY <2>2, <2>3
<1>5. ASSUME NEW s \in Searchers, Read(s) PROVE TypeOK'
  <2>1. UNCHANGED <<disk, template, cache, pc, writes, seen>>
    BY <1>5 DEF Read
  <2>2. PICK f \in search[s].todo :
          \/ search' = [search EXCEPT ![s].lines[f] = Line(f), ![s].todo = @ \ {f}]
          \/ search' = [search EXCEPT ![s].todo = @ \ {f}, ![s].unread = @ \union {f}]
    BY <1>5 DEF Read
  <2>3. f \in Files /\ Line(f) \in Lines
    BY <1>0, LineType DEF Hand
  <2>4. \E h \in Hand : h.found = search[s].found /\ search' = [search EXCEPT ![s] = h]
    <3>1. CASE search' = [search EXCEPT ![s].lines[f] = Line(f), ![s].todo = @ \ {f}]
      <4>. DEFINE h == [search[s] EXCEPT !.lines = [@ EXCEPT ![f] = Line(f)], !.todo = @ \ {f}]
      <4>1. h \in Hand /\ h.found = search[s].found
        BY <1>0, <2>3 DEF Hand
      <4>2. search' = [search EXCEPT ![s] = h]
        BY <1>0, <3>1 DEF Hand
      <4>. HIDE DEF h
      <4>. QED  BY <4>1, <4>2
    <3>2. CASE search' = [search EXCEPT ![s].todo = @ \ {f}, ![s].unread = @ \union {f}]
      <4>. DEFINE h == [search[s] EXCEPT !.todo = @ \ {f}, !.unread = @ \union {f}]
      <4>1. h \in Hand /\ h.found = search[s].found
        BY <1>0, <2>3 DEF Hand
      <4>2. search' = [search EXCEPT ![s] = h]
        BY <1>0, <3>2 DEF Hand
      <4>. HIDE DEF h
      <4>. QED  BY <4>1, <4>2
    <3>. QED  BY <2>2, <3>1, <3>2
  <2>. QED  BY <1>1, <2>1, <2>4 DEF TypeOK
<1>6. ASSUME NEW s \in Searchers, Store(s) PROVE TypeOK'
  <2>1. /\ UNCHANGED <<disk, template, writes, seen>>
        /\ pc' \in [Searchers -> {"idle", "sign", "read", "filter", "done"}]
    BY <1>6 DEF Store, TypeOK
  <2>2. CASE cache # None /\ cache.sig = search[s].sig
    <3>. DEFINE h == [search[s] EXCEPT !.lines = cache.lines, !.unread = cache.unread]
    <3>0. cache.lines \in [Files -> Lines] /\ cache.unread \in SUBSET Files
      BY <2>2 DEF TypeOK, Found
    <3>1. h \in Hand /\ h.found = search[s].found
      BY <1>0, <3>0 DEF Hand
    <3>2. search' = [search EXCEPT ![s] = h] /\ cache' = cache
      BY <1>0, <1>6, <2>2 DEF Store, Hand
    <3>. HIDE DEF h
    <3>. QED  BY <1>1, <2>1, <3>1, <3>2 DEF TypeOK
  <2>3. CASE ~(cache # None /\ cache.sig = search[s].sig)
    <3>1. /\ search' = search
          /\ cache' = [sig |-> search[s].sig, lines |-> search[s].lines,
                       unread |-> search[s].unread]
      BY <1>6, <2>3 DEF Store
    <3>2. cache' \in Found
      BY <1>0, <3>1 DEF Hand, Found
    <3>. QED  BY <2>1, <3>1, <3>2 DEF TypeOK
  <2>. QED  BY <2>2, <2>3
<1>7. ASSUME NEW s \in Searchers, Filter(s) PROVE TypeOK'
  <2>. DEFINE hits == Matching(s) \ template
              h == [Idle EXCEPT
                 !.query = search[s].query, !.unread = search[s].unread, !.skipped = template,
                 !.found = {f \in hits : Cardinality({g \in hits : g < f}) < Limit}]
  <2>1. /\ UNCHANGED <<disk, template, cache, writes, seen>>
        /\ pc' \in [Searchers -> {"idle", "sign", "read", "filter", "done"}]
        /\ search' = [search EXCEPT ![s] = h]
    BY <1>7 DEF Filter, TypeOK
  <2>2. hits \in SUBSET Files
    BY DEF Matching
  <2>3. h.found = FirstOf(hits, Limit)
    BY DEF Idle, FirstOf, Below
  <2>4. h \in Hand
    <3>1. template \in SUBSET Files
      BY DEF TypeOK, ConstantsOK
    <3>2. {f \in hits : Cardinality({g \in hits : g < f}) < Limit} \in SUBSET Files
      BY <2>2
    <3>. QED  BY <1>0, <3>1, <3>2, IdleType DEF Hand
  <2>5. Cardinality(h.found) <= Limit
    BY <2>2, <2>3, FoundCard
  <2>. HIDE DEF h
  <2>. QED  BY <1>1, <2>1, <2>4, <2>5 DEF TypeOK
\* What happens around it
<1>8. ASSUME NEW f \in Files, NEW b \in Bodies \union {None}, Change(f, b),
             UNCHANGED <<template, search, pc>>, cache' \in {None, cache}
      PROVE  TypeOK'
  <2>1. writes' = writes + 1 /\ writes' \in 0..MaxWrites /\ writes \in Nat
    BY <1>8 DEF Change, TypeOK, ConstantsOK
  <2>2. disk' \in [Files -> [line : Bodies, stamp : 0..writes'] \union {None}]
    <3>1. \A g \in Files : disk[g] \in [line : Bodies, stamp : 0..writes'] \union {None}
      BY <2>1 DEF TypeOK
    <3>2. b # None => [line |-> b, stamp |-> writes + 1] \in [line : Bodies, stamp : 0..writes']
      BY <2>1
    <3>. QED  BY <1>8, <3>1, <3>2 DEF Change, TypeOK
  <2>3. seen' \in [Searchers -> [Files -> SUBSET Lines]]
    BY <1>8 DEF Change, TypeOK, Lines
  <2>. QED  BY <1>8, <2>1, <2>2, <2>3 DEF TypeOK
<1>9. ASSUME NEW f \in Files, ServerWrite(f) \/ OtherWrite(f) PROVE TypeOK'
  BY <1>8, <1>9 DEF ServerWrite, OtherWrite
<1>10. CASE SaveSettings
  <2>1. /\ writes' = writes + 1 /\ writes' \in 0..MaxWrites /\ writes \in Nat
        /\ UNCHANGED <<disk, search, pc, seen>> /\ cache' = None
        /\ template' \in SUBSET Templates
    BY <1>10 DEF SaveSettings, TypeOK, ConstantsOK
  <2>2. disk \in [Files -> [line : Bodies, stamp : 0..writes'] \union {None}]
    BY <2>1 DEF TypeOK
  <2>. QED  BY <2>1, <2>2 DEF TypeOK
<1>11. CASE UNCHANGED vars
  BY <1>11 DEF vars, TypeOK
<1>. QED
  BY <1>2, <1>3, <1>4, <1>5, <1>6, <1>7, <1>9, <1>10, <1>11 DEF Next, Searching

\* Every reachable state of the searches is well-typed, for any notes and limit: a
\* search never returns more than Limit matches.
THEOREM TypeCorrect == ASSUME ConstantsOK PROVE Spec => []TypeOK
BY InitTypeOK, NextTypeOK, PTL DEF Spec

-----------------------------------------------------------------------------
\* What a step of one search does to the others

\* Only the search s has moved.
Alone(s) ==
    /\ UNCHANGED <<disk, writes>>
    /\ \A r \in Searchers \ {s} :
          pc'[r] = pc[r] /\ search'[r] = search[r] /\ seen'[r] = seen[r]

\* A line that fits is one the search has lived through.
LEMMA FitsSeen ==
    ASSUME NEW s \in Searchers, NEW f \in Files, NEW line,
           Signs(s), Signed(s, f), Fits(search[s].sig[f], line, f)
    PROVE  line \in seen[s][f]
BY DEF Fits, Signs

\* What fits goes on fitting, if what s has signed it had signed, or signs now as
\* the note is.
LEMMA FitsStep ==
    ASSUME NEW s \in Searchers, Alone(s), NEW f \in Files,
           Signed(s, f)' =>
              \/ /\ Signed(s, f)
                 /\ search'[s].sig[f] = search[s].sig[f]
                 /\ seen'[s][f] = seen[s][f]
              \/ /\ search'[s].sig[f] = IF disk[f] = None THEN None ELSE disk[f].stamp
                 /\ Line(f) \in seen'[s][f],
           NEW sg, NEW line, Fits(sg, line, f)
    PROVE  Fits(sg, line, f)'
<1>1. CASE sg = None
  BY <1>1 DEF Fits
<1>2. CASE sg # None
  <2>1. /\ sg <= writes' /\ disk' = disk
        /\ disk[f] # None /\ disk[f].stamp = sg => line = disk[f].line
    BY <1>2 DEF Fits, Alone
  <2>2. ASSUME NEW r \in Searchers, Signed(r, f)', search'[r].sig[f] = sg
        PROVE  line \in seen'[r][f]
    <3>1. CASE r # s
      BY <1>2, <2>2, <3>1 DEF Fits, Alone, Signed
    <3>2. CASE r = s /\ Signed(s, f) /\ search'[s].sig[f] = search[s].sig[f]
               /\ seen'[s][f] = seen[s][f]
      BY <1>2, <2>2, <3>2 DEF Fits
    <3>3. CASE /\ r = s
               /\ search'[s].sig[f] = IF disk[f] = None THEN None ELSE disk[f].stamp
               /\ Line(f) \in seen'[s][f]
      <4>1. disk[f] # None /\ disk[f].stamp = sg
        BY <1>2, <2>2, <3>3
      <4>. QED  BY <2>1, <3>3, <4>1 DEF Line
    <3>. QED  BY <2>2, <3>1, <3>2, <3>3
  <2>. QED  BY <1>2, <2>1, <2>2 DEF Fits
<1>. QED  BY <1>1, <1>2

\* The others are as sound as they were, and so is the cache that is left alone.
LEMMA OtherSound ==
    ASSUME NEW s \in Searchers, Alone(s), NEW r \in Searchers, r # s, Sound(r),
           \A f \in Files : \A sg, line : Fits(sg, line, f) => Fits(sg, line, f)'
    PROVE  Sound(r)'
<1>0. pc'[r] = pc[r] /\ search'[r] = search[r] /\ seen'[r] = seen[r]
      /\ disk' = disk /\ writes' = writes
  BY DEF Alone
<1>1. Watches(r)'
  BY <1>0 DEF Sound, Watches, Running, Line
<1>2. Signs(r)'
  BY <1>0 DEF Sound, Signs, Signed
<1>3. Reads(r)'
  BY <1>0 DEF Sound, Reads
<1>4. Has(r)' /\ Answers(r)'
  BY <1>0 DEF Sound, Has, Answers
<1>. QED  BY <1>1, <1>2, <1>3, <1>4 DEF Sound

LEMMA CacheSound ==
    ASSUME Cached, UNCHANGED cache,
           \A f \in Files : \A sg, line : Fits(sg, line, f) => Fits(sg, line, f)'
    PROVE  Cached'
BY DEF Cached

LEMMA InitIInv == ASSUME ConstantsOK PROVE Init => IInv
<1> SUFFICES ASSUME Init PROVE IInv
  OBVIOUS
<1>1. cache = None /\ \A s \in Searchers : pc[s] = "idle"
  BY DEF Init
<1>. QED
  BY <1>1, InitTypeOK DEF IInv, Cached, Sound, Watches, Signs, Reads, Has, Answers,
                          Running, Signed

-----------------------------------------------------------------------------
\* The steps of a search

\* Its own soundness, that of the lines, and of the cache, is what a step has to show.
LEMMA SearchStep ==
    ASSUME IInv, TypeOK', NEW s \in Searchers, Alone(s), Sound(s)',
           \A f \in Files : \A sg, line : Fits(sg, line, f) => Fits(sg, line, f)',
           UNCHANGED cache \/ Cached'
    PROVE  IInv'
<1>1. \A r \in Searchers \ {s} : Sound(r)'
  BY OtherSound DEF IInv
<1>2. Cached'
  BY CacheSound DEF IInv
<1>. QED  BY <1>1, <1>2 DEF IInv

LEMMA BeginIInv == ASSUME IInv, TypeOK', NEW s \in Searchers, Begin(s) PROVE IInv'
<1>1. PICK q \in Bodies : search' = [search EXCEPT ![s] = [Idle EXCEPT !.query = q, !.todo = Files]]
  BY DEF Begin
<1>2. /\ search'[s] = [Idle EXCEPT !.query = q, !.todo = Files] /\ pc'[s] = "sign"
      /\ \A f \in Files : seen'[s][f] = {Line(f)}
      /\ UNCHANGED <<disk, template, cache, writes>>
  BY <1>1 DEF Begin, IInv, TypeOK
<1>3. Alone(s)
  BY <1>1 DEF Begin, Alone, IInv, TypeOK
<1>4. \A f \in Files : ~ Signed(s, f)'
  BY <1>2 DEF Signed, Idle
<1>5. Sound(s)'
  <2>1. Watches(s)'
    BY <1>2 DEF Watches, Line
  <2>2. Signs(s)'
    BY <1>4 DEF Signs
  <2>3. Reads(s)'
    BY <1>2 DEF Reads, Idle
  <2>4. Has(s)' /\ Answers(s)'
    BY <1>2 DEF Has, Answers
  <2>. QED  BY <2>1, <2>2, <2>3, <2>4 DEF Sound
<1>. QED  BY <1>2, <1>3, <1>4, <1>5, FitsStep, SearchStep

LEMMA SignIInv == ASSUME ConstantsOK, IInv, TypeOK', NEW s \in Searchers, Sign(s) PROVE IInv'
<1>0. Sound(s) /\ pc[s] = "sign" /\ Running(s) /\ search \in [Searchers -> Hand]
  BY DEF IInv, Sign, Running, TypeOK, Hand
<1>1. PICK g \in search[s].todo :
         search' = [search EXCEPT
              ![s].sig[g] = IF disk[g] = None THEN None ELSE disk[g].stamp,
              ![s].todo = @ \ {g}]
  BY DEF Sign
<1>2. g \in Files /\ UNCHANGED <<disk, template, cache, pc, writes, seen>>
  BY <1>0 DEF Sign, Hand
<1>3. /\ search'[s].sig[g] = IF disk[g] = None THEN None ELSE disk[g].stamp
      /\ \A f \in Files \ {g} : search'[s].sig[f] = search[s].sig[f]
      /\ search'[s].todo = search[s].todo \ {g}
      /\ search'[s].query = search[s].query /\ search'[s].lines = search[s].lines
      /\ search'[s].unread = search[s].unread
  BY <1>0, <1>1, <1>2 DEF Hand
<1>4. Alone(s)
  BY <1>1, <1>2 DEF Alone, IInv, TypeOK
<1>5. \A f \in Files : Line(f) \in seen[s][f]
  BY <1>0 DEF Sound, Watches
<1>6. ASSUME NEW f \in Files, Signed(s, f)'
      PROVE  \/ /\ Signed(s, f)
                /\ search'[s].sig[f] = search[s].sig[f]
                /\ seen'[s][f] = seen[s][f]
             \/ /\ search'[s].sig[f] = IF disk[f] = None THEN None ELSE disk[f].stamp
                /\ Line(f) \in seen'[s][f]
  BY <1>0, <1>2, <1>3, <1>5, <1>6 DEF Signed
<1>7. Sound(s)'
  <2>1. Watches(s)'
    BY <1>2, <1>5 DEF Watches, Line
  <2>2. Signs(s)'
    <3>1. ASSUME NEW f \in Files, Signed(s, f)'
          PROVE  IF search'[s].sig[f] = None THEN None \in seen'[s][f]
                 ELSE search'[s].sig[f] <= writes'
      <4>1. CASE /\ Signed(s, f) /\ search'[s].sig[f] = search[s].sig[f]
                 /\ seen'[s][f] = seen[s][f]
        BY <1>0, <1>2, <4>1 DEF Sound, Signs
      <4>2. CASE /\ search'[s].sig[f] = IF disk[f] = None THEN None ELSE disk[f].stamp
                 /\ Line(f) \in seen'[s][f]
        <5>1. CASE disk[f] = None
          BY <4>2, <5>1 DEF Line
        <5>2. CASE disk[f] # None
          <6>1. disk[f].stamp \in 0..writes
            BY <5>2 DEF IInv, TypeOK
          <6>2. disk[f].stamp # None
            BY <6>1 DEF ConstantsOK, IInv, TypeOK
          <6>. QED  BY <1>2, <4>2, <5>2, <6>1, <6>2
        <5>. QED  BY <5>1, <5>2
      <4>. QED  BY <1>6, <3>1, <4>1, <4>2
    <3>. QED  BY <3>1 DEF Signs
  <2>3. Reads(s)'
    BY <1>0, <1>2, <1>3 DEF Sound, Reads
  <2>4. Has(s)' /\ Answers(s)'
    BY <1>0, <1>2 DEF Has, Answers
  <2>. QED  BY <2>1, <2>2, <2>3, <2>4 DEF Sound
<1>8. \A f \in Files : \A sg, line : Fits(sg, line, f) => Fits(sg, line, f)'
  BY <1>4, <1>6, FitsStep
<1>. QED  BY <1>2, <1>4, <1>7, <1>8, SearchStep

\* A search that takes the cached lines takes lines of its time.
LEMMA HitHas ==
    ASSUME IInv, TypeOK', NEW s \in Searchers, pc[s] \in {"sign", "read"},
           \A f \in Files : Signed(s, f),
           cache # None, cache.sig = search[s].sig,
           search' = [search EXCEPT ![s].lines = cache.lines, ![s].unread = cache.unread],
           pc' = [pc EXCEPT ![s] = "filter"],
           UNCHANGED <<disk, template, cache, writes, seen>>
    PROVE  IInv'
<1>0. Sound(s) /\ Running(s) /\ search \in [Searchers -> Hand]
  BY DEF IInv, Running, TypeOK, Hand
<1>1. /\ search'[s].lines = cache.lines /\ search'[s].unread = cache.unread
      /\ search'[s].query = search[s].query /\ pc'[s] = "filter"
  BY <1>0 DEF Hand, IInv, TypeOK
<1>2. Alone(s)
  BY DEF Alone, IInv, TypeOK
<1>3. \A f \in Files : ~ Signed(s, f)'
  BY <1>1 DEF Signed
<1>4. ASSUME NEW f \in Files
      PROVE  IF f \in cache.unread THEN cache.lines[f] = None
             ELSE cache.lines[f] \in seen[s][f]
  <2>1. CASE f \in cache.unread
    BY <2>1 DEF IInv, Cached
  <2>2. CASE f \notin cache.unread
    <3>1. Fits(search[s].sig[f], cache.lines[f], f)
      BY <2>2 DEF IInv, Cached
    <3>2. cache.lines[f] \in seen[s][f]
      BY <1>0, <3>1, FitsSeen DEF Sound
    <3>. QED  BY <2>2, <3>2
  <2>. QED  BY <2>1, <2>2
<1>5. Sound(s)'
  <2>1. Watches(s)'
    BY <1>0 DEF Sound, Watches, Line
  <2>2. Signs(s)'
    BY <1>3 DEF Signs
  <2>3. Reads(s)'
    BY <1>0, <1>1 DEF Sound, Reads
  <2>4. Has(s)' /\ Answers(s)'
    BY <1>1, <1>4 DEF Has, Answers
  <2>. QED  BY <2>1, <2>2, <2>3, <2>4 DEF Sound
<1>6. \A f \in Files : \A sg, line : Fits(sg, line, f) => Fits(sg, line, f)'
  BY <1>2, <1>3, FitsStep
<1>. QED  BY <1>2, <1>5, <1>6, SearchStep

LEMMA CheckIInv == ASSUME IInv, TypeOK', NEW s \in Searchers, Check(s) PROVE IInv'
<1>0. /\ Sound(s) /\ pc[s] = "sign" /\ search[s].todo = {} /\ Running(s)
      /\ search \in [Searchers -> Hand]
      /\ UNCHANGED <<disk, template, cache, writes, seen>>
  BY DEF IInv, Check, Running, TypeOK, Hand
<1>a. \A f \in Files : Signed(s, f)
  BY <1>0 DEF Signed
<1>1. CASE cache # None /\ cache.sig = search[s].sig
  BY <1>0, <1>a, <1>1, HitHas DEF Check
<1>2. CASE ~(cache # None /\ cache.sig = search[s].sig)
  <2>1. /\ search' = [search EXCEPT ![s].todo = {f \in Files : search[s].sig[f] # None}]
        /\ pc' = [pc EXCEPT ![s] = "read"]
    BY <1>2 DEF Check
  <2>2. /\ search'[s].todo = {f \in Files : search[s].sig[f] # None}
        /\ search'[s].sig = search[s].sig /\ search'[s].query = search[s].query
        /\ search'[s].lines = search[s].lines /\ search'[s].unread = search[s].unread
        /\ pc'[s] = "read"
    BY <1>0, <2>1 DEF Hand, IInv, TypeOK
  <2>3. Alone(s)
    BY <1>0, <2>1 DEF Alone, IInv, TypeOK
  <2>4. \A f \in Files : \A sg, line : Fits(sg, line, f) => Fits(sg, line, f)'
    BY <1>0, <1>a, <2>2, <2>3, FitsStep
  <2>5. Sound(s)'
    <3>1. Watches(s)'
      BY <1>0 DEF Sound, Watches, Line
    <3>2. Signs(s)'
      BY <1>0, <1>a, <2>2 DEF Sound, Signs
    <3>3. Reads(s)'
      <4>1. search[s].unread = {} /\ \A f \in Files : search[s].lines[f] = None
        BY <1>0 DEF Sound, Reads
      <4>2. ASSUME NEW f \in Files, search[s].sig[f] = None
            PROVE  Fits(search[s].sig[f], search[s].lines[f], f)'
        BY <2>2, <4>1, <4>2 DEF Fits
      <4>. QED  BY <1>0, <2>2, <4>1, <4>2 DEF Sound, Reads
    <3>4. Has(s)' /\ Answers(s)'
      BY <2>2 DEF Has, Answers
    <3>. QED  BY <3>1, <3>2, <3>3, <3>4 DEF Sound
  <2>. QED  BY <1>0, <2>3, <2>4, <2>5, SearchStep
<1>. QED  BY <1>1, <1>2

LEMMA ReadIInv == ASSUME IInv, TypeOK', NEW s \in Searchers, Read(s) PROVE IInv'
<1>0. /\ Sound(s) /\ pc[s] = "read" /\ Running(s) /\ search \in [Searchers -> Hand]
      /\ UNCHANGED <<disk, template, cache, pc, writes, seen>>
  BY DEF IInv, Read, Running, TypeOK, Hand
<1>1. PICK g \in search[s].todo :
         \/ search' = [search EXCEPT ![s].lines[g] = Line(g), ![s].todo = @ \ {g}]
         \/ search' = [search EXCEPT ![s].todo = @ \ {g}, ![s].unread = @ \union {g}]
  BY DEF Read
<1>2. /\ g \in Files /\ search[s].sig[g] # None /\ g \notin search[s].unread
      /\ search[s].lines[g] = None
  BY <1>0 DEF Sound, Reads, Hand
<1>3. Alone(s)
  BY <1>0, <1>1 DEF Alone, IInv, TypeOK
<1>4. /\ search'[s].sig = search[s].sig /\ search'[s].query = search[s].query
      /\ search'[s].todo = search[s].todo \ {g}
      /\ \A f \in Files \ {g} : search'[s].lines[f] = search[s].lines[f]
      /\ \/ search'[s].lines[g] = Line(g) /\ search'[s].unread = search[s].unread
         \/ search'[s].lines[g] = None /\ search'[s].unread = search[s].unread \union {g}
  BY <1>0, <1>1, <1>2 DEF Hand
<1>a. \A f \in Files : Signed(s, f) /\ Signed(s, f)'
  BY <1>0 DEF Signed
<1>5. \A f \in Files : \A sg, line : Fits(sg, line, f) => Fits(sg, line, f)'
  BY <1>0, <1>a, <1>3, <1>4, FitsStep
<1>6. Fits(search[s].sig[g], Line(g), g)
  <2>1. search[s].sig[g] <= writes
    BY <1>2, <1>a, <1>0 DEF Sound, Signs
  <2>2. ASSUME NEW r \in Searchers, Signed(r, g) PROVE Line(g) \in seen[r][g]
    BY <1>2, <2>2 DEF IInv, Sound, Watches, Signed, Running
  <2>. QED  BY <1>2, <2>1, <2>2 DEF Fits, Line
<1>7. Sound(s)'
  <2>1. Watches(s)'
    BY <1>0 DEF Sound, Watches, Line, Running
  <2>2. Signs(s)'
    BY <1>0, <1>a, <1>4 DEF Sound, Signs
  <2>3. Reads(s)'
    <3>1. ASSUME NEW f \in Files, f \notin search'[s].todo \union search'[s].unread
          PROVE  Fits(search[s].sig[f], search[s].lines[f], f)'
      <4>1. CASE f = g
        <5>1. search'[s].lines[f] = Line(g) /\ search'[s].sig[f] = search[s].sig[g]
          BY <1>4, <3>1, <4>1
        <5>. QED  BY <1>2, <1>5, <1>6, <4>1, <5>1
      <4>2. CASE f # g
        <5>1. /\ search'[s].lines[f] = search[s].lines[f]
              /\ search'[s].sig[f] = search[s].sig[f]
              /\ f \notin search[s].todo \union search[s].unread
          BY <1>4, <3>1, <4>2
        <5>2. Fits(search[s].sig[f], search[s].lines[f], f)
          BY <1>0, <5>1 DEF Sound, Reads
        <5>. QED  BY <1>5, <5>1, <5>2
      <4>. QED  BY <4>1, <4>2
    <3>2. ASSUME NEW f \in Files
          PROVE  /\ f \in search'[s].todo => search'[s].sig[f] # None /\ f \notin search'[s].unread
                 /\ f \in search'[s].todo \union search'[s].unread => search'[s].lines[f] = None
      BY <1>0, <1>2, <1>4 DEF Sound, Reads
    <3>. QED  BY <1>0, <1>4, <3>1, <3>2 DEF Sound, Reads
  <2>4. Has(s)' /\ Answers(s)'
    BY <1>0 DEF Has, Answers
  <2>. QED  BY <2>1, <2>2, <2>3, <2>4 DEF Sound
<1>. QED  BY <1>0, <1>3, <1>5, <1>7, SearchStep

LEMMA StoreIInv == ASSUME IInv, TypeOK', NEW s \in Searchers, Store(s) PROVE IInv'
<1>0. /\ Sound(s) /\ pc[s] = "read" /\ search[s].todo = {} /\ Running(s)
      /\ search \in [Searchers -> Hand]
      /\ UNCHANGED <<disk, template, writes, seen>> /\ pc' = [pc EXCEPT ![s] = "filter"]
  BY DEF IInv, Store, Running, TypeOK, Hand
<1>a. \A f \in Files : Signed(s, f)
  BY <1>0 DEF Signed
<1>1. CASE cache # None /\ cache.sig = search[s].sig
  BY <1>0, <1>a, <1>1, HitHas DEF Store
<1>2. CASE ~(cache # None /\ cache.sig = search[s].sig)
  <2>1. /\ search' = search /\ pc'[s] = "filter"
        /\ cache' = [sig |-> search[s].sig, lines |-> search[s].lines,
                     unread |-> search[s].unread]
    BY <1>0, <1>2 DEF Store, IInv, TypeOK
  <2>2. Alone(s)
    BY <1>0, <2>1 DEF Alone, IInv, TypeOK
  <2>3. \A f \in Files : ~ Signed(s, f)'
    BY <2>1 DEF Signed
  <2>4. \A f \in Files : \A sg, line : Fits(sg, line, f) => Fits(sg, line, f)'
    BY <2>2, <2>3, FitsStep
  <2>5. ASSUME NEW f \in Files
        PROVE  IF f \in search[s].unread THEN search[s].lines[f] = None
               ELSE Fits(search[s].sig[f], search[s].lines[f], f)
    BY <1>0 DEF Sound, Reads
  <2>6. Cached'
    <3>1. cache'.sig = search[s].sig /\ cache'.lines = search[s].lines
          /\ cache'.unread = search[s].unread
      BY <2>1
    <3>. QED  BY <2>4, <2>5, <3>1 DEF Cached
  <2>7. Sound(s)'
    <3>1. Watches(s)'
      BY <1>0 DEF Sound, Watches, Line
    <3>2. Signs(s)'
      BY <2>3 DEF Signs
    <3>3. Reads(s)'
      BY <1>0, <2>1 DEF Sound, Reads
    <3>4. Has(s)' /\ Answers(s)'
      <4>1. \A f \in Files : Fits(search[s].sig[f], search[s].lines[f], f) =>
               search[s].lines[f] \in seen[s][f]
        BY <1>0, <1>a, FitsSeen DEF Sound
      <4>. QED  BY <1>0, <2>1, <2>5, <4>1 DEF Has, Answers
    <3>. QED  BY <3>1, <3>2, <3>3, <3>4 DEF Sound
  <2>. QED  BY <2>2, <2>4, <2>6, <2>7, SearchStep
<1>. QED  BY <1>1, <1>2

LEMMA FilterIInv ==
    ASSUME ConstantsOK, IInv, TypeOK', NEW s \in Searchers, Filter(s)
    PROVE  IInv'
<1>. DEFINE hits == Matching(s) \ template
<1>0. /\ Sound(s) /\ pc[s] = "filter" /\ search \in [Searchers -> Hand]
      /\ UNCHANGED <<disk, template, cache, writes, seen>> /\ pc' = [pc EXCEPT ![s] = "done"]
      /\ pc'[s] = "done"
  BY DEF IInv, Filter, TypeOK, Hand
<1>1. search' = [search EXCEPT
              ![s] = [Idle EXCEPT
                 !.query = search[s].query, !.unread = search[s].unread, !.skipped = template,
                 !.found = {f \in hits : Cardinality({g \in hits : g < f}) < Limit}]]
  BY DEF Filter
<1>2. /\ search'[s].query = search[s].query /\ search'[s].unread = search[s].unread
      /\ search'[s].skipped = template
      /\ search'[s].found = {f \in hits : Cardinality({g \in hits : g < f}) < Limit}
  BY <1>0, <1>1 DEF Idle
<1>3. search'[s].found = FirstOf(hits, Limit)
  BY <1>2 DEF FirstOf, Below
<1>4. Alone(s)
  BY <1>0, <1>1 DEF Alone, IInv, TypeOK
<1>5. \A f \in Files : ~ Signed(s, f)'
  BY <1>0 DEF Signed
<1>6. search[s].query \in Bodies /\ search[s].query # None
  BY <1>0 DEF Sound, Reads, ConstantsOK
<1>7. ASSUME NEW f \in Files
      PROVE  IF f \in FirstOf(hits, Limit) THEN search[s].query \in seen[s][f]
             ELSE \/ seen[s][f] # {search[s].query}
                  \/ f \in template \union search[s].unread
                  \/ Cardinality(Below(FirstOf(hits, Limit), f)) = Limit
  <2>1. IF f \in search[s].unread THEN search[s].lines[f] = None
        ELSE search[s].lines[f] \in seen[s][f]
    BY <1>0 DEF Sound, Has
  <2>2. CASE f \in FirstOf(hits, Limit)
    <3>1. search[s].lines[f] = search[s].query
      BY <2>2 DEF FirstOf, Matching
    <3>. QED  BY <1>6, <2>1, <2>2, <3>1
  <2>3. CASE f \in hits /\ f \notin FirstOf(hits, Limit)
    <3>1. PICK n \in Nat : Files \in SUBSET (0..n)
      BY NumberedFiles
    <3>2. hits \in SUBSET (0..n)
      BY <3>1 DEF Matching
    <3>3. Limit \in Nat
      BY DEF ConstantsOK
    <3>. HIDE DEF hits
    <3>4. Cardinality(Below(FirstOf(hits, Limit), f)) = Limit
      BY <2>3, <3>2, <3>3, AfterFirst
    <3>. QED  BY <2>3, <3>4
  <2>4. CASE f \notin hits
    <3>1. f \notin FirstOf(hits, Limit)
      BY <2>4 DEF FirstOf
    <3>2. f \in template \/ search[s].lines[f] # search[s].query
      BY <2>4 DEF Matching
    <3>. QED  BY <2>1, <3>1, <3>2
  <2>. QED  BY <2>2, <2>3, <2>4
<1>8. Sound(s)'
  <2>1. Watches(s)' /\ Reads(s)' /\ Has(s)'
    BY <1>0, <1>2, <1>6 DEF Watches, Running, Reads, Has
  <2>2. Signs(s)'
    BY <1>5 DEF Signs
  <2>3. Answers(s)'
    BY <1>0, <1>2, <1>3, <1>7 DEF Answers, Below
  <2>. QED  BY <2>1, <2>2, <2>3 DEF Sound
<1>9. \A f \in Files : \A sg, line : Fits(sg, line, f) => Fits(sg, line, f)'
  BY <1>4, <1>5, FitsStep
<1>. QED  BY <1>0, <1>4, <1>8, <1>9, SearchStep

-----------------------------------------------------------------------------
\* What happens around the searches

LEMMA ChangeIInv ==
    ASSUME ConstantsOK, IInv, TypeOK', NEW g \in Files, NEW b \in Bodies \union {None},
           Change(g, b), UNCHANGED <<search, pc>>, cache' \in {None, cache}
    PROVE  IInv'
<1>1. /\ writes' = writes + 1 /\ writes \in Nat
      /\ disk' = [disk EXCEPT ![g] = IF b = None THEN None
                                     ELSE [line |-> b, stamp |-> writes + 1]]
  BY DEF Change, IInv, TypeOK, ConstantsOK
<1>2. /\ \A f \in Files \ {g} : disk'[f] = disk[f]
      /\ disk'[g] = IF b = None THEN None ELSE [line |-> b, stamp |-> writes + 1]
  BY <1>1 DEF IInv, TypeOK
<1>3. b # None => disk'[g] # None /\ disk'[g].line = b /\ disk'[g].stamp = writes + 1
  BY <1>1, <1>2 DEF ConstantsOK
<1>4. ASSUME NEW s \in Searchers, NEW f \in Files
      PROVE  /\ seen[s][f] \subseteq seen'[s][f]
             /\ ~Running(s) => seen'[s][f] = seen[s][f]
             /\ Running(s) => b \in seen'[s][g]
  BY DEF Change, IInv, TypeOK
<1>5. ASSUME NEW f \in Files, NEW sg \in Stamps, NEW line, Fits(sg, line, f) PROVE Fits(sg, line, f)'
  <2>1. CASE sg = None
    BY <1>5, <2>1 DEF Fits
  <2>2. CASE sg # None
    <3>1. /\ sg <= writes /\ (disk[f] # None /\ disk[f].stamp = sg => line = disk[f].line)
          /\ \A s \in Searchers : Signed(s, f) /\ search[s].sig[f] = sg => line \in seen[s][f]
      BY <1>5, <2>2 DEF Fits
    <3>2. ASSUME disk'[f] # None, disk'[f].stamp = sg PROVE line = disk'[f].line
      <4>1. CASE f = g
        <5>1. sg = writes + 1
          BY <1>2, <1>3, <3>2, <4>1
        <5>. QED  BY <1>1, <3>1, <5>1
      <4>2. CASE f # g
        BY <1>2, <3>1, <3>2, <4>2
      <4>. QED  BY <4>1, <4>2
    <3>3. sg <= writes'
      <4>1. sg \in Nat
        BY <2>2 DEF Stamps
      <4>. QED  BY <1>1, <3>1, <4>1
    <3>4. \A s \in Searchers : (Signed(s, f) /\ search[s].sig[f] = sg)' => line \in seen'[s][f]
      BY <1>4, <3>1 DEF Signed
    <3>. QED  BY <2>2, <3>2, <3>3, <3>4 DEF Fits
  <2>. QED  BY <2>1, <2>2
<1>6. Cached'
  <2>1. CASE cache' = None
    BY <2>1 DEF Cached
  <2>2. CASE cache' = cache
    <3>1. cache # None => \A f \in Files : cache.sig[f] \in Stamps
      BY DEF IInv, TypeOK, Found
    <3>. QED  BY <1>5, <2>2, <3>1 DEF Cached, IInv
  <2>. QED  BY <2>1, <2>2
<1>7. ASSUME NEW s \in Searchers PROVE Sound(s)'
  <2>0. Sound(s)
    BY DEF IInv
  <2>1. Watches(s)'
    <3>1. ASSUME Running(s), NEW f \in Files PROVE Line(f)' \in seen'[s][f]
      <4>1. CASE f = g
        BY <1>2, <1>3, <1>4, <3>1, <4>1 DEF Line
      <4>2. CASE f # g
        BY <1>2, <1>4, <2>0, <3>1, <4>2 DEF Line, Sound, Watches
      <4>. QED  BY <4>1, <4>2
    <3>. QED  BY <3>1 DEF Watches, Running
  <2>2. Signs(s)'
    BY <1>1, <1>4, <2>0 DEF Sound, Signs, Signed, IInv, TypeOK, Stamps
  <2>3. Reads(s)'
    <3>1. \A f \in Files : search[s].sig[f] \in Stamps
      BY DEF IInv, TypeOK
    <3>. QED  BY <1>5, <2>0, <3>1 DEF Sound, Reads
  <2>4. Has(s)'
    BY <1>4, <2>0 DEF Sound, Has
  <2>5. Answers(s)'
    BY <1>4, <2>0 DEF Sound, Answers, Running
  <2>. QED  BY <2>1, <2>2, <2>3, <2>4, <2>5 DEF Sound
<1>. QED  BY <1>6, <1>7 DEF IInv

LEMMA SaveSettingsIInv ==
    ASSUME ConstantsOK, IInv, TypeOK', SaveSettings PROVE IInv'
<1>1. /\ writes' = writes + 1 /\ writes \in Nat /\ cache' = None
      /\ UNCHANGED <<disk, search, pc, seen>>
  BY DEF SaveSettings, IInv, TypeOK, ConstantsOK
<1>2. \A s \in Searchers, f \in Files : search[s].sig[f] \in Nat \union {None}
  BY DEF IInv, TypeOK, Stamps
<1>3. ASSUME NEW s \in Searchers PROVE Sound(s)'
  <2>0. Sound(s)
    BY DEF IInv
  <2>1. Watches(s)' /\ Has(s)' /\ Answers(s)'
    BY <1>1, <2>0 DEF Sound, Watches, Running, Line, Has, Answers
  <2>2. Signs(s)'
    BY <1>1, <1>2, <2>0 DEF Sound, Signs, Signed
  <2>3. ASSUME NEW f \in Files, Fits(search[s].sig[f], search[s].lines[f], f)
        PROVE  Fits(search[s].sig[f], search[s].lines[f], f)'
    BY <1>1, <1>2, <2>3 DEF Fits, Signed
  <2>4. Reads(s)'
    BY <1>1, <2>0, <2>3 DEF Sound, Reads
  <2>. QED  BY <2>1, <2>2, <2>4 DEF Sound
<1>. QED  BY <1>1, <1>3 DEF IInv, Cached

-----------------------------------------------------------------------------

LEMMA NextIInv == ASSUME ConstantsOK PROVE IInv /\ [Next]_vars => IInv'
<1> SUFFICES ASSUME IInv, [Next]_vars PROVE IInv'
  OBVIOUS
<1>1. TypeOK'
  BY NextTypeOK DEF IInv
<1>2. ASSUME NEW s \in Searchers, Searching(s) PROVE IInv'
  BY <1>1, <1>2, BeginIInv, SignIInv, CheckIInv, ReadIInv, StoreIInv, FilterIInv
     DEF Searching
<1>3. ASSUME NEW f \in Files, ServerWrite(f) \/ OtherWrite(f) PROVE IInv'
  <2>1. PICK b \in Bodies \union {None} : Change(f, b)
    BY <1>3 DEF ServerWrite, OtherWrite
  <2>2. UNCHANGED <<search, pc>> /\ cache' \in {None, cache}
    BY <1>3 DEF ServerWrite, OtherWrite
  <2>. QED  BY <1>1, <2>1, <2>2, ChangeIInv
<1>4. CASE SaveSettings
  BY <1>1, <1>4, SaveSettingsIInv
<1>5. CASE UNCHANGED vars
  BY <1>1, <1>5 DEF vars, IInv, Cached, Sound, Watches, Signs, Reads, Has, Answers,
                    Running, Signed, Fits, Line
<1>. QED  BY <1>2, <1>3, <1>4, <1>5 DEF Next

\* A search answers for the time it ran in, however many run at once over the one
\* cache, whatever is written meanwhile by the server and by others, and whichever
\* notes fail to be read.
THEOREM TimeAnswered == ASSUME ConstantsOK PROVE Spec => []AnswersTheTime
<1>1. IInv => AnswersTheTime
  BY DEF IInv, Sound, Answers, AnswersTheTime
<1>. QED  BY <1>1, InitIInv, NextIInv, PTL DEF Spec

-----------------------------------------------------------------------------
\* SettingsFile

\* What a call has to write it knows before it gets to writing, and a GET has nothing.
Calling ==
    \A p \in Procs :
       /\ call[p] = "none" <=> at[p] = "idle"
       /\ at[p] \in {"truncate", "write", "drop", "inbox"} => next[p] # Nil
       /\ next[p] # Nil => call[p] \in {"put", "move"}

\* The cache holds settings the file had, and what the file holds if it bears its time.
Fresh ==
    /\ file # Nil => file.mtime <= now
    /\ memo # Nil => /\ file # Nil
                     /\ memo.mtime <= file.mtime
                     /\ memo.mtime = file.mtime => memo.value = file.value

\* A GetSettings under way: what it has of the file is no older than the identity it
\* goes by, and is what the file holds if that is still the file's.
Reading ==
    \A p \in Procs :
       /\ at[p] \in {"lookup", "read", "rest", "store"} => file # Nil /\ info[p].mtime <= file.mtime
       /\ at[p] = "rest" => /\ info[p].mtime <= head[p].mtime
                            /\ head[p].mtime <= file.mtime
                            /\ head[p].mtime = file.mtime => head[p] = file
       /\ at[p] = "store" => /\ got[p] # Broken
                             /\ info[p].mtime = file.mtime => got[p] = file.value

\* Nothing has been written since p began to read, or none but p may, and it reads.
Undisturbed(p) == quiet[p] \/ (call[p] = "move" /\ ~raced[p])

Seeing ==
    \A p \in Procs : Undisturbed(p) =>
       /\ at[p] \in {"lookup", "read", "rest"} => info[p].mtime = file.mtime
       /\ at[p] = "store" => got[p] = Content
       /\ at[p] = "got" => got[p] \in {Content, Broken} /\ (quiet[p] => got[p] = Content)

\* A folder call that knows what it is to write, and has not begun to.
Carrying ==
    \A p \in Procs :
       /\ call[p] = "move" /\ ~raced[p] /\ next[p] # Nil
       /\ at[p] \in {"stat", "lookup", "read", "rest", "store", "got", "truncate"}
       => /\ Content # Broken
          /\ \A f \in Fields \ {field[p]} : next[p][f] = Content[f]

\* A file written by one call at a time is empty or whole.
Whole ==
    ~torn /\ file # Nil =>
       /\ \A p, q \in Procs : at[p] = "write" /\ at[q] = "write" => p = q
       /\ IF \E p \in Procs : at[p] = "write" THEN file.size = 0 ELSE file.value # Broken

SettingsInv ==
    /\ SettingsTypeOK
    /\ Calling
    /\ Fresh
    /\ Reading
    /\ Seeing
    /\ Carrying
    /\ Whole

SettingsAssumed == SettingsConstantsOK /\ ~Coarse

LEMMA InitSettings == ASSUME SettingsAssumed PROVE SettingsInit => SettingsInv
<1> SUFFICES ASSUME SettingsInit PROVE SettingsInv
  OBVIOUS
<1> USE DEF SettingsAssumed, SettingsConstantsOK, SettingsInit
<1>1. SettingsTypeOK
  <2>1. file \in Docs \union {Nil}
    BY DEF Docs
  <2>2. field \in [Procs -> Fields]
    OBVIOUS
  <2>3. head \in [Procs -> Docs] /\ info \in [Procs -> [size : Nat, mtime : Nat]]
    BY DEF Docs, Empty, NoInfo
  <2>4. \A p \in Procs : p # Nil
    OBVIOUS
  <2>5. 0 \in 0..MaxCalls /\ 0 \in 0..MaxFaults /\ Nil \notin Movers
    BY DEF Procs
  <2>. QED  BY <2>1, <2>2, <2>3, <2>4, <2>5 DEF SettingsTypeOK
<1>2. Calling /\ Fresh /\ Reading /\ Seeing /\ Carrying
  BY DEF Calling, Fresh, Reading, Seeing, Carrying, Undisturbed, Docs
<1>3. Whole
  BY DEF Whole, Docs
<1>. QED  BY <1>1, <1>2, <1>3 DEF SettingsInv

LEMMA BeginSettings ==
    ASSUME SettingsAssumed, SettingsInv, NEW p \in Procs, NEW c \in {"get", "put", "move"},
           NEW v \in Values \union {Nil}, NEW f \in Fields, Start(p, c, v, f),
           c = "get" => v = Nil, c = "put" => v # Nil, c = "move" => v = Nil,
           calls' \in 0..MaxCalls,
           IF c = "move" THEN p \in Movers /\ mu = Nil /\ mu' = p ELSE mu' = mu
    PROVE  SettingsInv'
<1> USE DEF SettingsAssumed, SettingsConstantsOK, Start, Goto
<1>. at[p] = "idle" /\ call[p] = "none"
  BY DEF SettingsInv, Calling
<1>1. SettingsTypeOK'
  <2>1. call' \in [Procs -> {"none", "get", "put", "move"}]
    BY DEF SettingsInv, SettingsTypeOK
  <2>2. mu' \in Movers \union {Nil}
    BY DEF SettingsInv, SettingsTypeOK
  <2>3. \A q \in Procs : mu' = q <=> call'[q] = "move"
    BY DEF SettingsInv, SettingsTypeOK
  <2>. QED  BY <2>1, <2>2, <2>3 DEF SettingsInv, SettingsTypeOK
<1>2. Calling' /\ Fresh' /\ Reading'
  BY DEF SettingsInv, SettingsTypeOK, Calling, Fresh, Reading
<1>3. Seeing' /\ Carrying'
  BY DEF SettingsInv, SettingsTypeOK, Seeing, Carrying, Undisturbed, Content
<1>4. Whole'
  BY DEF SettingsInv, SettingsTypeOK, Whole
<1>. QED  BY <1>1, <1>2, <1>3, <1>4 DEF SettingsInv

LEMMA StatSettings ==
    ASSUME SettingsAssumed, SettingsInv, NEW p \in Procs, Stat(p) PROVE SettingsInv'
<1> USE DEF SettingsAssumed, SettingsConstantsOK, Stat, Goto, marks
<1>1. SettingsTypeOK'
  <2>1. info' \in [Procs -> [size : Nat, mtime : Nat]]
    BY DEF SettingsInv, SettingsTypeOK, Docs
  <2>2. got' \in [Procs -> Values \union {Broken}]
    BY DEF SettingsInv, SettingsTypeOK
  <2>3. memo' \in [value : Values, size : Nat, mtime : Nat] \union {Nil}
    BY DEF SettingsInv, SettingsTypeOK
  <2>. QED  BY <2>1, <2>2, <2>3 DEF SettingsInv, SettingsTypeOK
<1>2. Calling' /\ Fresh'
  BY DEF SettingsInv, SettingsTypeOK, Calling, Fresh
<1>3. Reading'
  BY DEF SettingsInv, SettingsTypeOK, Reading, Docs, Fresh
<1>4. Seeing'
  BY DEF SettingsInv, SettingsTypeOK, Seeing, Undisturbed, Content, Docs
<1>5. Carrying'
  BY DEF SettingsInv, SettingsTypeOK, Carrying, Content
<1>6. Whole'
  BY DEF SettingsInv, SettingsTypeOK, Whole
<1>. QED  BY <1>1, <1>2, <1>3, <1>4, <1>5, <1>6 DEF SettingsInv

LEMMA LookupSettings ==
    ASSUME SettingsAssumed, SettingsInv, NEW p \in Procs, Lookup(p) PROVE SettingsInv'
<1> USE DEF SettingsAssumed, SettingsConstantsOK, Lookup, Hit, Goto, marks
<1>1. SettingsTypeOK'
  BY DEF SettingsInv, SettingsTypeOK, Docs
<1>2. Calling' /\ Fresh' 
  BY DEF SettingsInv, SettingsTypeOK, Calling, Fresh
<1>3. Reading'
  BY DEF SettingsInv, SettingsTypeOK, Reading
<1>4. Seeing'
  BY DEF SettingsInv, SettingsTypeOK, Seeing, Undisturbed, Content, Docs, Fresh, Reading
<1>5. Carrying'
  BY DEF SettingsInv, SettingsTypeOK, Carrying, Content
<1>6. Whole'
  BY DEF SettingsInv, SettingsTypeOK, Whole
<1>. QED  BY <1>1, <1>2, <1>3, <1>4, <1>5, <1>6 DEF SettingsInv

LEMMA ReadHeadSettings ==
    ASSUME SettingsAssumed, SettingsInv, NEW p \in Procs, ReadHead(p) PROVE SettingsInv'
<1> USE DEF SettingsAssumed, SettingsConstantsOK, ReadHead, Goto, marks
<1>1. file \in Docs /\ SettingsTypeOK'
  BY DEF SettingsInv, SettingsTypeOK, Docs, Reading
<1>2. Calling' /\ Fresh' 
  BY DEF SettingsInv, SettingsTypeOK, Calling, Fresh
<1>3. Reading'
  BY <1>1 DEF SettingsInv, SettingsTypeOK, Reading, Docs
<1>4. Seeing'
  BY DEF SettingsInv, SettingsTypeOK, Seeing, Undisturbed, Content
<1>5. Carrying'
  BY DEF SettingsInv, SettingsTypeOK, Carrying, Content
<1>6. Whole'
  BY DEF SettingsInv, SettingsTypeOK, Whole
<1>. QED  BY <1>1, <1>2, <1>3, <1>4, <1>5, <1>6 DEF SettingsInv

\* What comes of a read that found the file the same twice.
LEMMA Blended ==
    ASSUME SettingsAssumed, NEW h \in Docs, NEW r \in Docs, NEW v \in Blends(h, r)
    PROVE  /\ v \in Values \union {Broken}
           /\ h = r => v = r.value
<1>1. CASE h.value = r.value \/ Broken \in {h.value, r.value} \/ h.size # r.size
  BY <1>1 DEF Blends, Docs
<1>2. CASE ~(h.value = r.value \/ Broken \in {h.value, r.value} \/ h.size # r.size)
  <2>1. h.value \in Values /\ r.value \in Values
    BY <1>2 DEF Docs
  <2>2. PICK S \in SUBSET Fields : v = [f \in Fields |-> IF f \in S THEN h.value[f] ELSE r.value[f]]
    BY <1>2 DEF Blends
  <2>3. v \in Values
    BY <2>1, <2>2 DEF Values
  <2>. QED  BY <1>2, <2>3
<1>. QED  BY <1>1, <1>2

LEMMA ReadRestSettings ==
    ASSUME SettingsAssumed, SettingsInv, NEW p \in Procs, ReadRest(p) PROVE SettingsInv'
<1> USE DEF SettingsAssumed, SettingsConstantsOK, Goto, marks
<1>1. file \in Docs /\ head[p] \in Docs /\ at[p] = "rest"
  BY DEF SettingsInv, SettingsTypeOK, Reading, ReadRest
<1>2. PICK v \in Values \union {Broken} :
         /\ got' = [got EXCEPT ![p] = v]
         /\ v \in Blends(head[p], file) \/ (v = Broken /\ quiet' = [quiet EXCEPT ![p] = FALSE])
         /\ quiet' \in {quiet, [quiet EXCEPT ![p] = FALSE]}
         /\ at' = [at EXCEPT ![p] = IF v = Broken THEN "got" ELSE "store"]
         /\ head' = [head EXCEPT ![p] = Empty]
         /\ faults' \in 0..MaxFaults
  <2>1. ASSUME NEW v \in Blends(head[p], file), got' = [got EXCEPT ![p] = v],
               Goto(p, IF v = Broken THEN "got" ELSE "store"), UNCHANGED <<quiet, faults>>
        PROVE  v \in Values \union {Broken} /\ faults' \in 0..MaxFaults
    BY <1>1, <2>1, Blended DEF SettingsInv, SettingsTypeOK
  <2>2. Fault => faults' \in 0..MaxFaults
    BY DEF Fault, SettingsInv, SettingsTypeOK
  <2>. QED  BY <2>1, <2>2 DEF ReadRest
<1>3. UNCHANGED <<file, memo, now, mu, call, next, field, info, raced, torn, calls>>
  BY DEF ReadRest
<1>10. head[p] = file => v \in {file.value, Broken} /\ (quiet'[p] => v = file.value)
  BY <1>1, <1>2, Blended DEF SettingsInv, SettingsTypeOK
<1>4. SettingsTypeOK'
  BY <1>1, <1>2, <1>3 DEF SettingsInv, SettingsTypeOK, Docs, Empty
<1>5. Calling' /\ Fresh' 
  BY <1>1, <1>2, <1>3 DEF SettingsInv, SettingsTypeOK, Calling, Fresh
<1>6. Reading'
  <2>1. info[p].mtime = file.mtime => head[p] = file
    <3>1. info[p].mtime <= head[p].mtime /\ head[p].mtime <= file.mtime
          /\ (head[p].mtime = file.mtime => head[p] = file)
      BY <1>1 DEF SettingsInv, Reading
    <3>2. head[p].mtime \in Nat /\ file.mtime \in Nat
      BY <1>1 DEF Docs
    <3>. QED  BY <3>1, <3>2
  <2>2. /\ file # Nil /\ info[p].mtime <= file.mtime
        /\ at'[p] \in {"got", "store"}
        /\ at'[p] = "store" => got'[p] # Broken
        /\ at'[p] = "store" /\ info[p].mtime = file.mtime => got'[p] = file.value
    BY <1>1, <1>2, <1>10, <2>1 DEF SettingsInv, SettingsTypeOK, Reading
  <2>3. \A q \in Procs : q # p => at'[q] = at[q] /\ got'[q] = got[q] /\ head'[q] = head[q]
    BY <1>2 DEF SettingsInv, SettingsTypeOK
  <2>. QED  BY <1>3, <2>2, <2>3 DEF SettingsInv, Reading
<1>7. Seeing'
  <2>1. ASSUME Undisturbed(p) PROVE head[p] = file
    <3>1. info[p].mtime = file.mtime
      BY <1>1, <2>1 DEF SettingsInv, Seeing
    <3>2. info[p].mtime <= head[p].mtime /\ head[p].mtime <= file.mtime
          /\ (head[p].mtime = file.mtime => head[p] = file)
      BY <1>1 DEF SettingsInv, Reading
    <3>3. head[p].mtime \in Nat /\ file.mtime \in Nat
      BY <1>1 DEF Docs
    <3>. QED  BY <3>1, <3>2, <3>3
  <2>2. Undisturbed(p)' => Undisturbed(p)
    BY <1>2, <1>3 DEF Undisturbed, SettingsInv, SettingsTypeOK
  <2>3. ASSUME Undisturbed(p)', quiet'[p], at'[p] = "got" PROVE got'[p] = Content
    BY <1>1, <1>2, <1>10, <2>1, <2>2, <2>3 DEF Content, SettingsInv, SettingsTypeOK
  <2>4. Content' = Content /\ Content = file.value
    BY <1>1, <1>3 DEF Content
  <2>5. ASSUME NEW q \in Procs, q # p, Undisturbed(q)'
        PROVE  /\ Undisturbed(q) /\ at'[q] = at[q] /\ got'[q] = got[q] /\ quiet'[q] = quiet[q]
    BY <1>2, <1>3, <2>5 DEF Undisturbed, SettingsInv, SettingsTypeOK
  <2>. QED  BY <1>1, <1>2, <1>3, <1>10, <2>1, <2>2, <2>3, <2>4, <2>5 DEF SettingsInv, SettingsTypeOK, Seeing
<1>8. Carrying'
  BY <1>1, <1>2, <1>3 DEF SettingsInv, SettingsTypeOK, Carrying, Content
<1>9. Whole'
  BY <1>1, <1>2, <1>3 DEF SettingsInv, SettingsTypeOK, Whole
<1>. QED  BY <1>4, <1>5, <1>6, <1>7, <1>8, <1>9 DEF SettingsInv

LEMMA KeepSettings ==
    ASSUME SettingsAssumed, SettingsInv, NEW p \in Procs, Keep(p) PROVE SettingsInv'
<1> USE DEF SettingsAssumed, SettingsConstantsOK, Keep, Key, Goto, marks
<1>1. /\ file # Nil /\ info[p].mtime <= file.mtime
      /\ got[p] \in Values
      /\ info[p].mtime = file.mtime => got[p] = file.value
  BY DEF SettingsInv, SettingsTypeOK, Reading
<1>2. SettingsTypeOK'
  <2>1. memo' \in [value : Values, size : Nat, mtime : Nat] \union {Nil}
    BY <1>1 DEF SettingsInv, SettingsTypeOK
  <2>. QED  BY <2>1 DEF SettingsInv, SettingsTypeOK
<1>3. Calling' /\ Fresh'
  BY <1>1 DEF SettingsInv, SettingsTypeOK, Calling, Fresh
<1>4. Reading'
  BY DEF SettingsInv, SettingsTypeOK, Reading
<1>5. Seeing'
  BY DEF SettingsInv, SettingsTypeOK, Seeing, Undisturbed, Content
<1>6. Carrying'
  BY DEF SettingsInv, SettingsTypeOK, Carrying, Content
<1>7. Whole'
  BY DEF SettingsInv, SettingsTypeOK, Whole
<1>. QED  BY <1>2, <1>3, <1>4, <1>5, <1>6, <1>7 DEF SettingsInv

\* A call that returns, from wherever it is, leaves the file as it is.
LEMMA ReturnSettings ==
    ASSUME SettingsAssumed, SettingsInv, NEW p \in Procs, Return(p), at[p] # "idle",
           UNCHANGED <<file, memo, now, field, head, calls>>, faults' \in 0..MaxFaults,
           torn' \in BOOLEAN, torn' = (torn \/ at[p] = "write")
    PROVE  SettingsInv'
<1> USE DEF SettingsAssumed, SettingsConstantsOK, Return, Release, Goto
<1>1. SettingsTypeOK'
  <2>1. /\ call' \in [Procs -> {"none", "get", "put", "move"}]
        /\ info' \in [Procs -> [size : Nat, mtime : Nat]]
        /\ next' \in [Procs -> Values \union {Nil}]
    BY DEF SettingsInv, SettingsTypeOK, NoInfo
  <2>2. \A q \in Procs : mu' = q <=> call'[q] = "move"
    BY DEF SettingsInv, SettingsTypeOK
  <2>. QED  BY <2>1, <2>2 DEF SettingsInv, SettingsTypeOK
<1>2. Calling' /\ Fresh'
  BY DEF SettingsInv, SettingsTypeOK, Calling, Fresh
<1>3. Reading'
  BY DEF SettingsInv, SettingsTypeOK, Reading
<1>4. Seeing'
  BY DEF SettingsInv, SettingsTypeOK, Seeing, Undisturbed, Content
<1>5. Carrying'
  BY DEF SettingsInv, SettingsTypeOK, Carrying, Content
<1>6. Whole'
  <2>1. \A q \in Procs : at'[q] = "write" <=> at[q] = "write" /\ q # p
    BY DEF SettingsInv, SettingsTypeOK
  <2>2. CASE at[p] = "write"
    BY <2>2 DEF Whole
  <2>3. CASE at[p] # "write"
    BY <2>1, <2>3 DEF SettingsInv, Whole
  <2>. QED  BY <2>2, <2>3
<1>. QED  BY <1>1, <1>2, <1>3, <1>4, <1>5, <1>6 DEF SettingsInv

LEMMA ChangeEntrySettings ==
    ASSUME SettingsAssumed, SettingsInv, NEW p \in Procs, ChangeEntry(p) PROVE SettingsInv'
<1> USE DEF SettingsAssumed, SettingsConstantsOK, ChangeEntry, Goto, marks
<1>1. PICK b \in {0, 1} : next' = [next EXCEPT ![p] = [got[p] EXCEPT ![field[p]] = b]]
  OBVIOUS
<1>2. /\ got[p] \in Values /\ next'[p] \in Values
      /\ \A f \in Fields \ {field[p]} : next'[p][f] = got[p][f]
      /\ \A q \in Procs \ {p} : next'[q] = next[q]
      /\ next' \in [Procs -> Values \union {Nil}]
  <2>1. got[p] \in Values /\ field[p] \in Fields
    BY DEF SettingsInv, SettingsTypeOK
  <2>2. [got[p] EXCEPT ![field[p]] = b] \in Values
    BY <2>1 DEF Values
  <2>3. \A f \in Fields \ {field[p]} : [got[p] EXCEPT ![field[p]] = b][f] = got[p][f]
    BY <2>1 DEF Values
  <2>. QED  BY <1>1, <2>1, <2>2, <2>3 DEF SettingsInv, SettingsTypeOK
<1>3. SettingsTypeOK'
  <2>1. quiet' \in [Procs -> BOOLEAN]
    BY DEF SettingsInv, SettingsTypeOK
  <2>. QED  BY <1>2, <2>1 DEF SettingsInv, SettingsTypeOK
<1>4. Calling' /\ Fresh'
  BY <1>2 DEF SettingsInv, SettingsTypeOK, Calling, Fresh
<1>5. Reading'
  BY DEF SettingsInv, SettingsTypeOK, Reading
<1>6. Seeing'
  BY DEF SettingsInv, SettingsTypeOK, Seeing, Undisturbed, Content
<1>7. Carrying'
  <2>1. ~raced[p] => got[p] = Content /\ Content # Broken
    BY <1>2 DEF SettingsInv, Seeing, Undisturbed
  <2>2. Content' = Content
    BY DEF Content
  <2>3. \A q \in Procs \ {p} : at'[q] = at[q]
    BY DEF SettingsInv, SettingsTypeOK
  <2>. QED  BY <1>2, <2>1, <2>2, <2>3 DEF SettingsInv, Carrying
<1>8. Whole'
  BY DEF SettingsInv, SettingsTypeOK, Whole
<1>. QED  BY <1>3, <1>4, <1>5, <1>6, <1>7, <1>8 DEF SettingsInv

LEMMA SetSettingsSettings ==
    ASSUME SettingsAssumed, SettingsInv, NEW p \in Procs, SetSettings(p) PROVE SettingsInv'
<1> USE DEF SettingsAssumed, SettingsConstantsOK, SetSettings, Goto, marks
<1>1. SettingsTypeOK'
  BY DEF SettingsInv, SettingsTypeOK
<1>2. Calling' /\ Fresh' /\ Reading'
  BY DEF SettingsInv, SettingsTypeOK, Calling, Fresh, Reading
<1>3. Seeing'
  BY DEF SettingsInv, SettingsTypeOK, Seeing, Undisturbed, Content
<1>4. Carrying'
  BY DEF SettingsInv, SettingsTypeOK, Carrying, Content
<1>5. Whole'
  BY DEF SettingsInv, SettingsTypeOK, Whole
<1>. QED  BY <1>1, <1>2, <1>3, <1>4, <1>5 DEF SettingsInv

\* A write leaves alone none but the reads that began before it, which it outdates, and
\* the folder call that makes it: no other is in progress, and a PUT disturbs them all.
LEMMA WriteSettings ==
    ASSUME SettingsAssumed, SettingsInv, NEW p \in Procs, at[p] \in {"truncate", "write"},
           NEW l \in {"write", "drop"}, Goto(p, l), Disturb(p),
           file' \in Docs, now' = now + 1, file'.mtime = now + 1,
           torn' \in BOOLEAN, UNCHANGED <<memo, mu, call, next, field, info, head, got, calls, faults>>
    PROVE  SettingsTypeOK' /\ Calling' /\ Fresh' /\ Reading' /\ Seeing' /\ Carrying'
<1> USE DEF SettingsAssumed, SettingsConstantsOK, Goto, Disturb
<1>1. file' # Nil
  OBVIOUS
<1>2. SettingsTypeOK'
  <2>1. quiet' \in [Procs -> BOOLEAN] /\ raced' \in [Procs -> BOOLEAN] /\ now' \in Nat
    BY DEF SettingsInv, SettingsTypeOK
  <2>. QED  BY <1>1, <2>1 DEF SettingsInv, SettingsTypeOK
<1>3. Calling'
  BY DEF SettingsInv, SettingsTypeOK, Calling
<1>4. file # Nil => file.mtime \in Nat /\ file.mtime <= now /\ file.mtime < file'.mtime
  BY DEF SettingsInv, SettingsTypeOK, Docs, Fresh
<1>5. Fresh'
  BY <1>1, <1>4 DEF SettingsInv, SettingsTypeOK, Fresh
<1>6. \A q \in Procs : q # p => at'[q] = at[q]
  BY DEF SettingsInv, SettingsTypeOK
<1>7. Reading'
  <2>1. ASSUME NEW q \in Procs, at'[q] \in {"lookup", "read", "rest", "store"}
        PROVE  /\ at'[q] = at[q] /\ info[q].mtime \in Nat /\ info[q].mtime <= file.mtime
               /\ info[q].mtime < file'.mtime
    BY <1>4, <1>6, <2>1 DEF SettingsInv, SettingsTypeOK, Reading
  <2>2. ASSUME NEW q \in Procs, at'[q] = "rest"
        PROVE  head[q].mtime \in Nat /\ info[q].mtime <= head[q].mtime /\ head[q].mtime < file'.mtime
    BY <1>4, <2>1, <2>2 DEF SettingsInv, SettingsTypeOK, Reading, Docs
  <2>3. ASSUME NEW q \in Procs, at'[q] = "store" PROVE got[q] # Broken
    BY <2>1, <2>3 DEF SettingsInv, Reading
  <2>. QED  BY <1>1, <1>2, <2>1, <2>2, <2>3 DEF Reading, SettingsTypeOK, Docs
<1>8. ASSUME NEW q \in Procs, call[q] = "move", ~raced'[q] PROVE q = p
  <2>1. call[p] \in {"put", "move"}
    BY DEF SettingsInv, Calling
  <2>2. call[p] # "put"
    BY <1>8 DEF SettingsInv, SettingsTypeOK
  <2>. QED  BY <1>8, <2>1, <2>2 DEF SettingsInv, SettingsTypeOK
<1>9. at'[p] = l
  BY DEF SettingsInv, SettingsTypeOK
<1>10. Seeing'
  BY <1>8, <1>9 DEF Seeing, Undisturbed
<1>11. Carrying'
  BY <1>8, <1>9 DEF Carrying
<1>. QED  BY <1>2, <1>3, <1>5, <1>7, <1>10, <1>11

LEMMA TruncateSettings ==
    ASSUME SettingsAssumed, SettingsInv, NEW p \in Procs, Truncate(p) PROVE SettingsInv'
<1> USE DEF SettingsAssumed, Truncate, Goto
<1>1. /\ now \in Nat /\ now' = now + 1
      /\ file' = [value |-> Broken, size |-> 0, mtime |-> now + 1]
  BY DEF Stamp, Empty, SettingsInv, SettingsTypeOK
<1>2. file' \in Docs
  BY <1>1 DEF Docs
<1>3. SettingsTypeOK' /\ Calling' /\ Fresh' /\ Reading' /\ Seeing' /\ Carrying'
  BY <1>1, <1>2, WriteSettings
<1>4. ASSUME ~torn', NEW q \in Procs, at'[q] = "write" PROVE q = p
  <2>1. ASSUME q # p PROVE at[q] = "write" /\ call[q] # "put" /\ call[p] # "put"
    BY <1>4, <2>1 DEF SettingsInv, SettingsTypeOK
  <2>2. ASSUME q # p PROVE call[q] = "move" /\ call[p] = "move"
    BY <2>1, <2>2 DEF SettingsInv, Calling
  <2>. QED  BY <2>2 DEF SettingsInv, SettingsTypeOK
<1>5. Whole'
  BY <1>1, <1>4 DEF Whole, SettingsInv, SettingsTypeOK
<1>. QED  BY <1>3, <1>5 DEF SettingsInv

LEMMA WritesSettings ==
    ASSUME SettingsAssumed, SettingsInv, NEW p \in Procs, Write(p) PROVE SettingsInv'
<1> USE DEF SettingsAssumed, SettingsConstantsOK, Write, Goto
<1>1. /\ now \in Nat /\ now' = now + 1
      /\ file \in Docs /\ next[p] \in Values
      /\ Bytes[next[p]] \in Nat
  BY DEF Stamp, SettingsInv, SettingsTypeOK, Calling
<1>2. /\ file.size <= Bytes[next[p]] =>
           file' = [value |-> next[p], size |-> Bytes[next[p]], mtime |-> now + 1]
      /\ ~(file.size <= Bytes[next[p]]) =>
           file' = [file EXCEPT !.value = Broken, !.mtime = now + 1]
  BY <1>1 DEF Stamp, Docs
<1>3. file' \in Docs /\ file'.mtime = now + 1
  <2>1. CASE file.size <= Bytes[next[p]]
    BY <1>1, <1>2, <2>1 DEF Docs
  <2>2. CASE ~(file.size <= Bytes[next[p]])
    <3>1. file' = [value |-> Broken, size |-> file.size, mtime |-> now + 1]
      BY <1>1, <1>2, <2>2 DEF Docs
    <3>. QED  BY <1>1, <3>1 DEF Docs
  <2>. QED  BY <2>1, <2>2
<1>4. torn' \in BOOLEAN
  BY DEF SettingsInv, SettingsTypeOK
<1>5. SettingsTypeOK' /\ Calling' /\ Fresh' /\ Reading' /\ Seeing' /\ Carrying'
  BY <1>1, <1>3, <1>4, WriteSettings
<1>6. Whole'
  <2>1. ASSUME ~torn PROVE file.size = 0 /\ \A q \in Procs : at[q] = "write" => q = p
    BY <1>1, <2>1 DEF SettingsInv, Whole
  <2>2. ASSUME ~torn PROVE file'.value # Broken
    BY <1>1, <1>2, <2>1, <2>2
  <2>3. ASSUME ~torn, NEW q \in Procs PROVE at'[q] # "write"
    BY <2>1, <2>3 DEF SettingsInv, SettingsTypeOK
  <2>. QED  BY <2>2, <2>3 DEF Whole
<1>. QED  BY <1>5, <1>6 DEF SettingsInv

LEMMA DropSettings ==
    ASSUME SettingsAssumed, SettingsInv, NEW p \in Procs, Drop(p) PROVE SettingsInv'
<1> USE DEF SettingsAssumed, SettingsConstantsOK, Drop, Goto, marks
<1>1. SettingsTypeOK'
  BY DEF SettingsInv, SettingsTypeOK
<1>2. Calling' /\ Fresh' /\ Reading'
  BY DEF SettingsInv, SettingsTypeOK, Calling, Fresh, Reading
<1>3. Seeing'
  BY DEF SettingsInv, SettingsTypeOK, Seeing, Undisturbed, Content
<1>4. Carrying'
  BY DEF SettingsInv, SettingsTypeOK, Carrying, Content
<1>5. Whole'
  BY DEF SettingsInv, SettingsTypeOK, Whole
<1>. QED  BY <1>1, <1>2, <1>3, <1>4, <1>5 DEF SettingsInv

LEMMA CrashSettings == ASSUME SettingsAssumed, SettingsInv, Crash PROVE SettingsInv'
<1> USE DEF SettingsAssumed, SettingsConstantsOK, Crash
<1>1. SettingsTypeOK'
  <2>1. info' \in [Procs -> [size : Nat, mtime : Nat]] /\ faults' \in 0..MaxFaults
    BY DEF SettingsInv, SettingsTypeOK, NoInfo, Fault
  <2>2. \A p \in Procs : mu' # p
    OBVIOUS
  <2>3. torn' \in BOOLEAN
    BY DEF SettingsInv, SettingsTypeOK
  <2>. QED  BY <2>1, <2>2, <2>3 DEF SettingsInv, SettingsTypeOK
<1>2. Calling' /\ Fresh' /\ Reading'
  BY DEF SettingsInv, SettingsTypeOK, Calling, Fresh, Reading
<1>3. Seeing' /\ Carrying'
  BY DEF Seeing, Undisturbed, Carrying
<1>4. Whole'
  BY DEF SettingsInv, SettingsTypeOK, Whole
<1>. QED  BY <1>1, <1>2, <1>3, <1>4 DEF SettingsInv

LEMMA NextSettings ==
    ASSUME SettingsAssumed PROVE SettingsInv /\ [SettingsNext]_settingsVars => SettingsInv'
<1> SUFFICES ASSUME SettingsInv, [SettingsNext]_settingsVars PROVE SettingsInv'
  OBVIOUS
<1>1. calls < MaxCalls /\ calls' = calls + 1 => calls' \in 0..MaxCalls
  BY DEF SettingsInv, SettingsTypeOK, SettingsAssumed, SettingsConstantsOK
<1>2. calls \in 0..MaxCalls
  BY DEF SettingsInv, SettingsTypeOK
<1>3. faults \in 0..MaxFaults /\ (Fault => faults' \in 0..MaxFaults) /\ torn \in BOOLEAN
  BY DEF SettingsInv, SettingsTypeOK, Fault, SettingsAssumed, SettingsConstantsOK
<1>4. ASSUME NEW p \in Getters, BeginGet(p) PROVE SettingsInv'
  <2>1. p \in Procs /\ field[p] \in Fields
    BY DEF Procs, SettingsInv, SettingsTypeOK
  <2>. QED  BY <1>2, <1>4, <2>1, BeginSettings DEF BeginGet
<1>5. ASSUME NEW p \in Putters, NEW v \in Values, BeginPut(p, v) PROVE SettingsInv'
  <2>1. p \in Procs /\ field[p] \in Fields /\ v # Nil
    BY DEF Procs, SettingsInv, SettingsTypeOK, SettingsAssumed, SettingsConstantsOK
  <2>. QED  BY <1>1, <1>5, <2>1, BeginSettings DEF BeginPut
<1>6. ASSUME NEW p \in Movers, NEW f \in Fields, BeginMove(p, f) PROVE SettingsInv'
  <2>1. p \in Procs
    BY DEF Procs
  <2>. QED  BY <1>1, <1>6, <2>1, BeginSettings DEF BeginMove
<1>7. ASSUME NEW p \in Procs, GetStep(p) PROVE SettingsInv'
  BY <1>7, StatSettings, LookupSettings, ReadHeadSettings, ReadRestSettings, KeepSettings DEF GetStep
<1>8. ASSUME NEW p \in Procs, UseSettings(p) PROVE SettingsInv'
  <2>1. CASE Answer(p)
    BY <1>3, <2>1, ReturnSettings DEF Answer
  <2>2. CASE ChangeEntry(p) \/ SetSettings(p)
    BY <2>2, ChangeEntrySettings, SetSettingsSettings
  <2>. QED  BY <1>8, <2>1, <2>2 DEF UseSettings
<1>9. ASSUME NEW p \in Procs, SetStep(p) PROVE SettingsInv'
  <2>1. CASE WriteFails(p)
    BY <1>3, <2>1, ReturnSettings DEF WriteFails
  <2>2. CASE Inbox(p)
    BY <1>3, <2>2, ReturnSettings DEF Inbox
  <2>3. CASE Truncate(p) \/ Write(p) \/ Drop(p)
    BY <2>3, TruncateSettings, WritesSettings, DropSettings
  <2>. QED  BY <1>9, <2>1, <2>2, <2>3 DEF SetStep
<1>10. CASE Tick
  BY <1>10 DEF Tick, SettingsAssumed
<1>11. CASE Crash
  BY <1>11, CrashSettings
<1>12. CASE UNCHANGED settingsVars
  BY <1>12 DEF settingsVars, marks, SettingsInv, SettingsTypeOK, Calling, Fresh, Reading, Seeing,
               Undisturbed, Carrying, Whole, Content
<1>. QED  BY <1>4, <1>5, <1>6, <1>7, <1>8, <1>9, <1>10, <1>11, <1>12 DEF SettingsNext

\* The invariant holds throughout, as long as no two writes of the file bear one time.
THEOREM SettingsInvariance == ASSUME SettingsConstantsOK, ~Coarse PROVE SettingsSpec => []SettingsInv
<1>1. SettingsAssumed
  BY DEF SettingsAssumed
<1>. QED  BY <1>1, InitSettings, NextSettings, PTL DEF SettingsSpec

\* Every variable keeps its type.
THEOREM SettingsTypeCorrect ==
    ASSUME SettingsConstantsOK, ~Coarse PROVE SettingsSpec => []SettingsTypeOK
<1>1. SettingsInv => SettingsTypeOK
  BY DEF SettingsInv
<1>. QED  BY <1>1, SettingsInvariance, PTL

\* Any number of reads, PUTs and folder calls at once, failing or cut off at any step:
\* a read that no write overlapped returns what the file holds; the file parses unless a
\* PUT overlapped another write or a write was cut short; and a folder call writes back
\* every entry but its own as it is, unless a PUT wrote during the call.
THEOREM SettingsAreKept ==
    ASSUME SettingsConstantsOK, ~Coarse PROVE SettingsSpec => []SettingsKept
<1>1. SettingsInv => QuietReads
  BY DEF SettingsInv, Seeing, Undisturbed, QuietReads
<1>2. SettingsInv => FileReadable
  BY DEF SettingsInv, Whole, FileReadable
<1>3. ASSUME SettingsInv PROVE MoveKeepsRest
  <2>1. ASSUME NEW p \in Movers, at[p] = "truncate", ~raced[p] PROVE p \in Procs /\ next[p] # Nil
    BY <1>3, <2>1 DEF SettingsInv, Calling, Procs
  <2>. QED  BY <1>3, <2>1 DEF SettingsInv, Carrying, MoveKeepsRest
<1>4. SettingsInv => SettingsKept
  BY <1>1, <1>2, <1>3 DEF SettingsKept
<1>. QED  BY <1>4, SettingsInvariance, PTL

-----------------------------------------------------------------------------
\* NoteMeta

\* Entries are of stamps given out...
Past(entries) == \A p \in Paths : entries[p] # Missing => entries[p].stamp <= time

\* A meta tells what is in a note, its tags too unless they are of a folder before.
Told(meta, p, body) ==
    /\ meta # Missing
    /\ meta.body = body
    /\ ~stale => meta = Meta(p, body, name)

\* ...and those that bear the stamp of a note tell what is in it.
Current(entries) ==
    \A p, r \in Paths :
       entries[p] # Missing /\ files[r] # Missing /\ entries[p].stamp = files[r].stamp
       => Told(entries[p].meta, p, files[r].body)

\* No two notes have one stamp.
Stamped ==
    /\ \A p \in Paths : files[p] # Missing => files[p].stamp <= time
    /\ \A p, r \in Paths :
          files[p] # Missing /\ files[r] # Missing /\ files[p].stamp = files[r].stamp => p = r

\* Whatever holds entries, in memory, on disk and between the two.
AllPast ==
    /\ Past(metas) /\ Past(snapshot)
    /\ \A c \in Clients : step[c] = "merge" => Past(raw[c])
    /\ \A j \in Jobs : job[j].at \in {"write", "rename"} => Past(job[j].entries)

AllCurrent ==
    /\ Current(metas) /\ Current(snapshot)
    /\ \A c \in Clients : step[c] = "merge" => Current(raw[c])
    /\ \A j \in Jobs : job[j].at = "rename" \/ (job[j].at = "write" /\ job[j].gen = gen)
                       => Current(job[j].entries)
    /\ \A c \in Clients : step[c] = "notes" /\ ~stale => view[c] = name

Generations == \A j \in Jobs : job[j].at # "free" => job[j].gen <= gen

\* Which call is where, and who holds Vault.mu.
Asking ==
    \A c \in Clients :
       /\ ask[c].kind = "none" <=> step[c] = "idle"
       /\ ask[c].kind = "list" => step[c] \in {"hydrate", "load", "merge", "walk", "resolve", "notes", "save"}
       /\ ask[c].kind = "write" => step[c] \in {"drop", "resolve", "notes"}
       /\ ask[c].kind = "move" => step[c] \in {"drop", "resolve", "notes"}
       /\ ask[c].kind = "set" => step[c] \in {"previous", "change", "drop", "again"}

Locked ==
    \A c, d \in Clients :
       ask[c].kind \in {"write", "move"} /\ ask[d].kind \in {"list", "write", "move"} => c = d

\* A call comes to the notes with nothing in hand...
EmptyHanded(c) == stat[c] = NoEntries /\ result[c] = NoEntries /\ missed[c] = {}

Starting ==
    \A c \in Clients :
       step[c] \in {"idle", "hydrate", "load", "merge", "walk", "resolve"}
          \/ (step[c] = "drop" /\ ask[c].kind = "write")
       => EmptyHanded(c)

\* ...and there finds stamps that no other note has.
Looking ==
    \A c \in Clients : step[c] = "notes" =>
       /\ \A p \in Paths : stat[c][p] # Missing =>
             /\ stat[c][p] <= time
             /\ \A r \in Paths : files[r] # Missing /\ files[r].stamp = stat[c][p] => r = p
       /\ \A p \in missed[c] : stat[c][p] # Missing

\* What a listing has to say of a path.
Answered(meta, p) ==
    IF files[p] = Missing THEN meta = Missing ELSE Told(meta, p, files[p].body)

\* A listing nothing was changed under.
Listed(c) ==
    /\ step[c] = "resolve" => todo[c] = {p \in Paths : files[p] # Missing}
    /\ step[c] = "notes" =>
          \A p \in Paths :
             IF p \in todo[c]
             THEN files[p] # Missing /\ stat[c][p] \in {Missing, files[p].stamp}
             ELSE Answered(result[c][p], p)
    /\ step[c] = "save" => \A p \in Paths : Answered(result[c][p], p)

Calm ==
    \A c \in Clients : calm[c] =>
       /\ ask[c].kind = "list"
       /\ ~Unsettled
       /\ Listed(c)

MetaInv ==
    /\ MetaTypeOK
    /\ Stamped
    /\ AllPast
    /\ AllCurrent
    /\ Generations
    /\ Asking
    /\ Locked
    /\ Starting
    /\ Looking
    /\ Calm

LEMMA NoneEntered ==
    /\ NoEntries \in Entries
    /\ NoEntries \in [Paths -> MetaStamps \union {Missing}]
    /\ NoEntries \in [Paths -> Metas \union {Missing}]
    /\ \A p \in Paths : NoEntries[p] = Missing
    /\ Past(NoEntries)
    /\ Current(NoEntries)
BY DEF NoEntries, Entries, Past, Current

\* What is told of a note is something.
LEMMA MetaIsKnown ==
    ASSUME MetaConstantsOK, NEW p, NEW body \in Texts, NEW n
    PROVE  Meta(p, body, n) # Missing /\ Meta(p, body, n).body = body
<1>1. Meta(p, body, n) \in [body : Texts, tags : BOOLEAN]
  BY DEF Meta
<1>. QED  BY <1>1 DEF MetaConstantsOK, Meta

LEMMA StampsAreNumbers == ASSUME MetaConstantsOK PROVE MetaStamps \subseteq Int
BY DEF MetaStamps, MetaConstantsOK

LEMMA InitMeta == ASSUME MetaConstantsOK PROVE MetaInit => MetaInv
<1> SUFFICES ASSUME MetaInit PROVE MetaInv
  OBVIOUS
<1> USE NoneEntered, StampsAreNumbers
<1>1. PICK body \in [Paths -> Texts \union {Missing}] :
         files = [p \in Paths |-> IF body[p] = Missing THEN Missing
                                   ELSE [body |-> body[p], stamp |-> Age[p]]]
  BY DEF MetaInit
<1>2. \A p \in Paths : files[p] # Missing => files[p].stamp = Age[p]
  BY <1>1
<1>3. MetaTypeOK
  <2>1. files \in [Paths -> File \union {Missing}]
    BY <1>1 DEF File, MetaStamps
  <2>2. 0 \in 0..MaxEdits /\ 0 \in 0..MaxSets /\ 0 \in 0..MaxStops
    BY DEF MetaConstantsOK
  <2>3. ask \in [Clients -> [kind : {"none", "list"}] \union [kind : {"set"}, name : Names]
                            \union [kind : {"write", "move"}, path : Paths]]
    BY DEF MetaInit, NoAsk
  <2>. QED  BY <2>1, <2>2, <2>3 DEF MetaInit, MetaTypeOK
<1>4. Stamped
  BY <1>2 DEF Stamped, MetaInit, MetaConstantsOK
<1>5. AllPast /\ AllCurrent /\ Generations
  BY DEF AllPast, AllCurrent, Generations, MetaInit, NoJob
<1>6. Asking /\ Locked /\ Starting /\ Looking /\ Calm
  BY DEF Asking, Locked, Starting, Looking, Calm, EmptyHanded, MetaInit, NoAsk
<1>. QED  BY <1>3, <1>4, <1>5, <1>6 DEF MetaInv

LEMMA BeginListMeta ==
    ASSUME MetaConstantsOK, MetaInv, NEW c \in Clients, BeginList(c) PROVE MetaInv'
<1> USE DEF MetaInv, BeginList, memory, local, metaBounds, Enters, Steps, MayEnter, Holding
<1>1. MetaTypeOK'
  BY DEF Entries, Entry, MetaTypeOK
<1>2. Stamped'
  BY DEF Stamped, MetaTypeOK
<1>3. AllPast'
  BY DEF AllPast, Past, MetaTypeOK
<1>4. AllCurrent'
  BY DEF AllCurrent, Current, Told, Meta, MetaTypeOK
<1>5. Generations'
  BY DEF Generations, MetaTypeOK
<1>6. Asking'
  BY DEF Asking, MetaTypeOK
<1>7. Locked'
  BY DEF Locked, MetaTypeOK
<1>8. Starting'
  BY DEF Starting, EmptyHanded, MetaTypeOK
<1>9. Looking'
  BY DEF Looking, MetaTypeOK
<1>10. Calm'
  BY DEF Calm, Unsettled, Listed, Answered, Told, Listing, Meta, MetaTypeOK
<1>. QED  BY <1>1, <1>2, <1>3, <1>4, <1>5, <1>6, <1>7, <1>8, <1>9, <1>10

LEMMA HydrateMeta ==
    ASSUME MetaConstantsOK, MetaInv, NEW c \in Clients, Hydrate(c) PROVE MetaInv'
<1> USE DEF MetaInv, Hydrate, memory, local, metaBounds, Steps
<1>1. MetaTypeOK'
  BY DEF Entries, Entry, MetaTypeOK
<1>2. Stamped'
  BY DEF Stamped, MetaTypeOK
<1>3. AllPast'
  BY DEF AllPast, Past, MetaTypeOK
<1>4. AllCurrent'
  BY DEF AllCurrent, Current, Told, Meta, MetaTypeOK
<1>5. Generations'
  BY DEF Generations, MetaTypeOK
<1>6. Asking'
  BY DEF Asking, MetaTypeOK
<1>7. Locked'
  BY DEF Locked, MetaTypeOK
<1>8. Starting'
  BY DEF Starting, EmptyHanded, MetaTypeOK
<1>9. Looking'
  BY DEF Looking, MetaTypeOK
<1>10. Calm'
  BY DEF Calm, Unsettled, Listed, Answered, Told, Listing, Meta, MetaTypeOK
<1>. QED  BY <1>1, <1>2, <1>3, <1>4, <1>5, <1>6, <1>7, <1>8, <1>9, <1>10

LEMMA LoadMeta ==
    ASSUME MetaConstantsOK, MetaInv, NEW c \in Clients, Load(c) PROVE MetaInv'
<1> USE DEF MetaInv, Load, memory, local, metaBounds, Steps
<1>1. MetaTypeOK'
  BY DEF Entries, Entry, MetaTypeOK
<1>2. Stamped'
  BY DEF Stamped, MetaTypeOK
<1>3. AllPast'
  BY DEF AllPast, Past, MetaTypeOK
<1>4. AllCurrent'
  BY DEF AllCurrent, Current, Told, Meta, MetaTypeOK
<1>5. Generations'
  BY DEF Generations, MetaTypeOK
<1>6. Asking'
  BY DEF Asking, MetaTypeOK
<1>7. Locked'
  BY DEF Locked, MetaTypeOK
<1>8. Starting'
  BY DEF Starting, EmptyHanded, MetaTypeOK
<1>9. Looking'
  BY DEF Looking, MetaTypeOK
<1>10. Calm'
  BY DEF Calm, Unsettled, Listed, Answered, Told, Listing, Meta, MetaTypeOK
<1>. QED  BY <1>1, <1>2, <1>3, <1>4, <1>5, <1>6, <1>7, <1>8, <1>9, <1>10

LEMMA MergeMeta ==
    ASSUME MetaConstantsOK, MetaInv, NEW c \in Clients, Merge(c) PROVE MetaInv'
<1> USE DEF MetaInv, Merge, memory, local, metaBounds, Steps
<1>1. MetaTypeOK'
  BY DEF Entries, Entry, MetaTypeOK
<1>2. Stamped'
  BY DEF Stamped, MetaTypeOK
<1>3. AllPast'
  BY DEF AllPast, Past, MetaTypeOK
<1>4. AllCurrent'
  BY DEF AllCurrent, Current, Told, Meta, MetaTypeOK
<1>5. Generations'
  BY DEF Generations, MetaTypeOK
<1>6. Asking'
  BY DEF Asking, MetaTypeOK
<1>7. Locked'
  BY DEF Locked, MetaTypeOK
<1>8. Starting'
  BY DEF Starting, EmptyHanded, MetaTypeOK
<1>9. Looking'
  BY DEF Looking, MetaTypeOK
<1>10. Calm'
  BY DEF Calm, Unsettled, Listed, Answered, Told, Listing, Meta, MetaTypeOK
<1>. QED  BY <1>1, <1>2, <1>3, <1>4, <1>5, <1>6, <1>7, <1>8, <1>9, <1>10

LEMMA WalkMeta ==
    ASSUME MetaConstantsOK, MetaInv, NEW c \in Clients, Walk(c) PROVE MetaInv'
<1> USE DEF MetaInv, Walk, memory, local, metaBounds, Steps
<1>1. MetaTypeOK'
  BY DEF Entries, Entry, MetaTypeOK
<1>2. Stamped'
  BY DEF Stamped, MetaTypeOK
<1>3. AllPast'
  BY DEF AllPast, Past, MetaTypeOK
<1>4. AllCurrent'
  BY DEF AllCurrent, Current, Told, Meta, MetaTypeOK
<1>5. Generations'
  BY DEF Generations, MetaTypeOK
<1>6. Asking'
  BY DEF Asking, MetaTypeOK
<1>7. Locked'
  BY DEF Locked, MetaTypeOK
<1>8. Starting'
  BY DEF Starting, EmptyHanded, MetaTypeOK
<1>9. Looking'
  BY DEF Looking, MetaTypeOK
<1>10. Calm'
  BY DEF Calm, Unsettled, Listed, Answered, Told, Listing, Meta, MetaTypeOK
<1>. QED  BY <1>1, <1>2, <1>3, <1>4, <1>5, <1>6, <1>7, <1>8, <1>9, <1>10

LEMMA ResolveMeta ==
    ASSUME MetaConstantsOK, MetaInv, NEW c \in Clients, Resolve(c) PROVE MetaInv'
<1> USE DEF MetaInv, Resolve, memory, local, metaBounds, Steps
<1>1. MetaTypeOK'
  BY DEF Entries, Entry, MetaTypeOK
<1>2. Stamped'
  BY DEF Stamped, MetaTypeOK
<1>3. AllPast'
  BY DEF AllPast, Past, MetaTypeOK
<1>4. AllCurrent'
  BY DEF AllCurrent, Current, Told, Meta, MetaTypeOK
<1>5. Generations'
  BY DEF Generations, MetaTypeOK
<1>6. Asking'
  BY DEF Asking, MetaTypeOK
<1>7. Locked'
  BY DEF Locked, MetaTypeOK
<1>8. Starting'
  BY DEF Starting, EmptyHanded, MetaTypeOK
<1>9. Looking'
  BY NoneEntered DEF Looking, Starting, EmptyHanded, Asking, MetaTypeOK
<1>10. Calm'
  BY NoneEntered DEF Calm, Unsettled, Listed, Answered, Told, Listing, Meta, Asking, Starting, EmptyHanded,
     MetaTypeOK
<1>. QED  BY <1>1, <1>2, <1>3, <1>4, <1>5, <1>6, <1>7, <1>8, <1>9, <1>10

LEMMA SkipMeta ==
    ASSUME MetaConstantsOK, MetaInv, NEW c \in Clients, NEW p \in Paths, Skip(c, p) PROVE MetaInv'
<1> USE DEF MetaInv, Skip, memory, local, metaBounds
<1>1. MetaTypeOK'
  BY DEF Entries, Entry, MetaTypeOK
<1>2. Stamped'
  BY DEF Stamped, MetaTypeOK
<1>3. AllPast'
  BY DEF AllPast, Past, MetaTypeOK
<1>4. AllCurrent'
  BY DEF AllCurrent, Current, Told, Meta, MetaTypeOK
<1>5. Generations'
  BY DEF Generations, MetaTypeOK
<1>6. Asking'
  BY DEF Asking, MetaTypeOK
<1>7. Locked'
  BY DEF Locked, MetaTypeOK
<1>8. Starting'
  BY DEF Starting, EmptyHanded, MetaTypeOK
<1>9. Looking'
  BY DEF Looking, MetaTypeOK
<1>10. Calm'
  BY DEF Calm, Unsettled, Listed, Answered, Told, Listing, Meta, MetaTypeOK
<1>. QED  BY <1>1, <1>2, <1>3, <1>4, <1>5, <1>6, <1>7, <1>8, <1>9, <1>10

LEMMA StatNoteMeta ==
    ASSUME MetaConstantsOK, MetaInv, NEW c \in Clients, NEW p \in Paths, StatNote(c, p) PROVE MetaInv'
<1> USE DEF MetaInv, StatNote, memory, local, metaBounds
<1>1. MetaTypeOK'
  <2>1. files[p] \in File /\ files[p].stamp \in MetaStamps
    BY DEF MetaTypeOK, File
  <2>2. stat' \in [Clients -> [Paths -> MetaStamps \union {Missing}]]
    BY <2>1 DEF MetaTypeOK
  <2>. QED  BY <2>2 DEF MetaTypeOK
<1>2. Stamped'
  BY DEF Stamped, MetaTypeOK
<1>3. AllPast'
  BY DEF AllPast, Past, MetaTypeOK
<1>4. AllCurrent'
  BY DEF AllCurrent, Current, Told, Meta, MetaTypeOK
<1>5. Generations'
  BY DEF Generations, MetaTypeOK
<1>6. Asking'
  BY DEF Asking, MetaTypeOK
<1>7. Locked'
  BY DEF Locked, MetaTypeOK
<1>8. Starting'
  BY DEF Starting, EmptyHanded, MetaTypeOK
<1>9. Looking'
  <2>1. files[p].stamp <= time /\ \A r \in Paths : files[r] # Missing /\ files[r].stamp = files[p].stamp => r = p
    BY DEF Stamped
  <2>2. \A d \in Clients, q \in Paths : stat'[d][q] # stat[d][q] => d = c /\ q = p /\ stat'[d][q] = files[p].stamp
    BY DEF MetaTypeOK
  <2>3. ASSUME NEW d \in Clients, step[d] = "notes", NEW q \in missed[d] PROVE stat'[d][q] # Missing
    <3>1. stat[d][q] # Missing /\ q \in Paths
      BY <2>3 DEF Looking, MetaTypeOK
    <3>. QED  BY <3>1, <2>2
  <2>. QED  BY <2>1, <2>2, <2>3 DEF Looking
<1>10. Calm'
  BY DEF Calm, Unsettled, Listed, Answered, Told, Listing, Meta, MetaTypeOK
<1>. QED  BY <1>1, <1>2, <1>3, <1>4, <1>5, <1>6, <1>7, <1>8, <1>9, <1>10

LEMMA KnownMeta ==
    ASSUME MetaConstantsOK, MetaInv, NEW c \in Clients, NEW p \in Paths, Known(c, p) PROVE MetaInv'
<1> USE DEF MetaInv, Known, memory, local, metaBounds, Valid
<1>1. MetaTypeOK'
  BY DEF Entries, Entry, MetaTypeOK
<1>2. Stamped'
  BY DEF Stamped, MetaTypeOK
<1>3. AllPast'
  BY DEF AllPast, Past, MetaTypeOK
<1>4. AllCurrent'
  BY DEF AllCurrent, Current, Told, Meta, MetaTypeOK
<1>5. Generations'
  BY DEF Generations, MetaTypeOK
<1>6. Asking'
  BY DEF Asking, MetaTypeOK
<1>7. Locked'
  BY DEF Locked, MetaTypeOK
<1>8. Starting'
  BY DEF Starting, EmptyHanded, MetaTypeOK
<1>9. Looking'
  BY DEF Looking, MetaTypeOK
<1>10. Calm'
  <2>1. ASSUME calm[c] PROVE Answered(metas[p].meta, p)
    <3>1. files[p] # Missing /\ stat[c][p] = files[p].stamp
      BY <2>1 DEF Calm, Listed
    <3>. QED  BY <2>1, <3>1 DEF AllCurrent, Current, Answered
  <2>2. \A meta, r : Answered(meta, r)' <=> Answered(meta, r)
    BY DEF Answered, Told, Meta
  <2>3. ASSUME NEW d \in Clients, calm[d] PROVE Listed(d)'
    <3>1. CASE d = c
      BY <2>1, <2>2, <2>3, <3>1 DEF Calm, Listed, MetaTypeOK
    <3>2. CASE d # c
      BY <2>2, <2>3, <3>2 DEF Calm, Listed, MetaTypeOK
    <3>. QED  BY <3>1, <3>2
  <2>. QED  BY <2>3 DEF Calm, Unsettled
<1>. QED  BY <1>1, <1>2, <1>3, <1>4, <1>5, <1>6, <1>7, <1>8, <1>9, <1>10

LEMMA MissMeta ==
    ASSUME MetaConstantsOK, MetaInv, NEW c \in Clients, NEW p \in Paths, Miss(c, p) PROVE MetaInv'
<1> USE DEF MetaInv, Miss, memory, local, metaBounds, Valid
<1>1. MetaTypeOK'
  BY DEF Entries, Entry, MetaTypeOK
<1>2. Stamped'
  BY DEF Stamped, MetaTypeOK
<1>3. AllPast'
  BY DEF AllPast, Past, MetaTypeOK
<1>4. AllCurrent'
  BY DEF AllCurrent, Current, Told, Meta, MetaTypeOK
<1>5. Generations'
  BY DEF Generations, MetaTypeOK
<1>6. Asking'
  BY DEF Asking, MetaTypeOK
<1>7. Locked'
  BY DEF Locked, MetaTypeOK
<1>8. Starting'
  BY DEF Starting, EmptyHanded, MetaTypeOK
<1>9. Looking'
  BY DEF Looking, MetaTypeOK
<1>10. Calm'
  BY DEF Calm, Unsettled, Listed, Answered, Told, Listing, Meta, MetaTypeOK
<1>. QED  BY <1>1, <1>2, <1>3, <1>4, <1>5, <1>6, <1>7, <1>8, <1>9, <1>10

LEMMA FillMeta ==
    ASSUME MetaConstantsOK, MetaInv, NEW c \in Clients, NEW p \in Paths, Fill(c, p) PROVE MetaInv'
<1> USE DEF MetaInv, Fill, memory, local, metaBounds, Meta
<1>1. MetaTypeOK'
  <2>1. files[p].body \in Texts /\ view[c] \in Names /\ stat[c][p] \in MetaStamps
    BY DEF MetaTypeOK, File, Looking
  <2>2. Meta(p, files[p].body, view[c]) \in Metas
    BY <2>1 DEF Meta, Metas
  <2>3. metas' \in Entries
    BY <2>1, <2>2 DEF MetaTypeOK, Entries, Entry
  <2>4. result' \in [Clients -> [Paths -> Metas \union {Missing}]]
    BY <2>2 DEF MetaTypeOK
  <2>. QED  BY <2>3, <2>4 DEF MetaTypeOK
<1>2. Stamped'
  BY DEF Stamped, MetaTypeOK
<1>3. AllPast'
  <2>1. stat[c][p] # Missing /\ stat[c][p] <= time
    BY DEF Looking
  <2>2. metas'[p].stamp = stat[c][p] /\ \A q \in Paths : q # p => metas'[q] = metas[q]
    BY DEF MetaTypeOK, Entries
  <2>3. Past(metas)'
    BY <2>1, <2>2 DEF AllPast, Past
  <2>. QED  BY <2>3 DEF AllPast, Past
<1>4. AllCurrent'
  <2>1. ASSUME ~stale PROVE view[c] = name
    BY <2>1 DEF AllCurrent
  <2>2. /\ metas'[p] = [stamp |-> stat[c][p], meta |-> Meta(p, files[p].body, view[c])]
        /\ \A q \in Paths : q # p => metas'[q] = metas[q]
    BY DEF MetaTypeOK, Entries
  <2>3. \A r \in Paths : files[r] # Missing /\ files[r].stamp = stat[c][p] => r = p
    BY DEF Looking
  <2>4. Current(metas)'
    <3> SUFFICES ASSUME NEW q \in Paths, NEW r \in Paths,
                        metas'[q] # Missing, files[r] # Missing, metas'[q].stamp = files[r].stamp
                 PROVE  Told(metas'[q].meta, q, files[r].body)
      BY DEF Current, Told
    <3>1. CASE q = p
      <4>1. r = p /\ metas'[p].meta = Meta(p, files[p].body, view[c])
        BY <2>2, <2>3, <3>1
      <4>2. files[p].body \in Texts
        BY DEF MetaTypeOK, File
      <4>3. Told(Meta(p, files[p].body, view[c]), p, files[p].body)
        BY <2>1, <4>2, MetaIsKnown DEF Told
      <4>. QED  BY <3>1, <4>1, <4>3
    <3>2. CASE q # p
      BY <2>2, <3>2 DEF AllCurrent, Current
    <3>. QED  BY <3>1, <3>2
  <2>. QED  BY <2>4 DEF AllCurrent, Current, Told
<1>5. Generations'
  BY DEF Generations, MetaTypeOK
<1>6. Asking'
  BY DEF Asking, MetaTypeOK
<1>7. Locked'
  BY DEF Locked, MetaTypeOK
<1>8. Starting'
  BY DEF Starting, EmptyHanded, MetaTypeOK
<1>9. Looking'
  BY DEF Looking, MetaTypeOK
<1>10. Calm'
  <2>1. Answered(Meta(p, files[p].body, view[c]), p)
    <3>1. files[p].body \in Texts
      BY DEF MetaTypeOK, File
    <3>. QED  BY <3>1, MetaIsKnown DEF AllCurrent, Answered, Told
  <2>2. \A meta, r : Answered(meta, r)' <=> Answered(meta, r)
    BY DEF Answered, Told, Meta
  <2>3. ASSUME NEW d \in Clients, calm[d] PROVE Listed(d)'
    <3>1. CASE d = c
      BY <2>1, <2>2, <2>3, <3>1 DEF Calm, Listed, MetaTypeOK
    <3>2. CASE d # c
      BY <2>2, <2>3, <3>2 DEF Calm, Listed, MetaTypeOK
    <3>. QED  BY <3>1, <3>2
  <2>. QED  BY <2>3 DEF Calm, Unsettled
<1>. QED  BY <1>1, <1>2, <1>3, <1>4, <1>5, <1>6, <1>7, <1>8, <1>9, <1>10

\* What a call that ends leaves of itself.
LEMMA Left ==
    ASSUME MetaTypeOK, NEW c \in Clients, Leaves(c)
    PROVE  /\ step' \in [Clients -> {"idle", "hydrate", "load", "merge", "walk", "resolve", "notes",
                                     "save", "previous", "change", "drop", "again"}]
           /\ ask' \in [Clients -> [kind : {"none", "list"}] \union [kind : {"set"}, name : Names]
                                    \union [kind : {"write", "move"}, path : Paths]]
           /\ raw' \in [Clients -> Entries]
           /\ stat' \in [Clients -> [Paths -> MetaStamps \union {Missing}]]
           /\ missed' \in [Clients -> SUBSET Paths]
           /\ result' \in [Clients -> [Paths -> Metas \union {Missing}]]
           /\ calm' \in [Clients -> BOOLEAN]
           /\ step'[c] = "idle" /\ ask'[c].kind = "none" /\ EmptyHanded(c)' /\ ~calm'[c]
           /\ \A d \in Clients : d # c =>
                 /\ step'[d] = step[d] /\ ask'[d] = ask[d] /\ raw'[d] = raw[d] /\ stat'[d] = stat[d]
                 /\ missed'[d] = missed[d] /\ result'[d] = result[d] /\ calm'[d] = calm[d]
<1>1. NoAsk \in [kind : {"none", "list"}] /\ NoAsk.kind = "none"
  BY DEF NoAsk
<1>. QED  BY <1>1, NoneEntered DEF Leaves, Steps, MetaTypeOK, EmptyHanded

\* The other calls are where they were when one ends.
LEMMA EndedMeta ==
    ASSUME MetaInv, NEW c \in Clients, Leaves(c), UNCHANGED <<files, name, todo, time>>,
           UNCHANGED stale \/ \A d \in Clients : ~calm[d]
    PROVE  Stamped' /\ Asking' /\ Locked' /\ Starting' /\ Looking' /\ Calm'
<1> USE DEF MetaInv
<1>1. /\ step'[c] = "idle" /\ ask'[c].kind = "none" /\ EmptyHanded(c)' /\ ~calm'[c]
      /\ \A d \in Clients : d # c =>
            /\ step'[d] = step[d] /\ ask'[d] = ask[d] /\ stat'[d] = stat[d]
            /\ missed'[d] = missed[d] /\ result'[d] = result[d] /\ calm'[d] = calm[d]
  BY Left
<1>2. Stamped'
  BY DEF Stamped
<1>3. Asking' /\ Locked'
  BY <1>1 DEF Asking, Locked
<1>4. Starting'
  <2>1. \A d \in Clients : d # c => (EmptyHanded(d)' <=> EmptyHanded(d))
    BY <1>1 DEF EmptyHanded
  <2>. QED  BY <1>1, <2>1 DEF Starting
<1>5. Looking'
  BY <1>1 DEF Looking
<1>6. Calm'
  <2>1. UNCHANGED stale => \A meta, r : Answered(meta, r)' <=> Answered(meta, r)
    BY DEF Answered, Told, Meta
  <2>2. ASSUME NEW d \in Clients, calm'[d] PROVE d # c /\ calm[d] /\ ask'[d] = ask[d] /\ UNCHANGED stale
    BY <1>1, <2>2
  <2>3. Unsettled' => Unsettled
    BY <1>1 DEF Unsettled
  <2>4. ASSUME NEW d \in Clients, calm'[d] PROVE Listed(d)'
    <3>1. Listed(d) /\ step'[d] = step[d] /\ result'[d] = result[d] /\ stat'[d] = stat[d]
      BY <1>1, <2>2, <2>4 DEF Calm
    <3>. QED  BY <2>1, <2>2, <2>4, <3>1 DEF Listed
  <2>. QED  BY <2>2, <2>3, <2>4 DEF Calm
<1>. QED  BY <1>2, <1>3, <1>4, <1>5, <1>6

\* A call that ends disturbs nothing.
LEMMA LeavesMeta ==
    ASSUME MetaConstantsOK, MetaInv, NEW c \in Clients, Leaves(c), stops' \in 0..MaxStops,
           UNCHANGED <<files, name, memory, snapshot, job, view, todo, time, sets>>
    PROVE  MetaInv'
<1> USE DEF MetaInv, memory
<1>1. MetaTypeOK'
  BY Left DEF MetaTypeOK
<1>2. Generations'
  BY DEF Generations
<1>3. \A e : (Past(e)' <=> Past(e)) /\ (Current(e)' <=> Current(e))
  BY DEF Past, Current, Told, Meta
<1>4. \A d \in Clients : step'[d] \in {"merge", "notes"} => step'[d] = step[d] /\ raw'[d] = raw[d]
  BY Left
<1>5. AllPast'
  BY <1>3, <1>4 DEF AllPast
<1>6. AllCurrent'
  BY <1>3, <1>4 DEF AllCurrent
<1>. QED  BY <1>1, <1>2, <1>5, <1>6, EndedMeta

\* A call that has seen to the notes...
LEMMA GoesOnMeta ==
    ASSUME MetaConstantsOK, MetaInv, NEW c \in Clients, step[c] = "notes", todo[c] = {},
           NEW l \in {"save", "drop"}, Steps(c, l),
           IF l = "save" THEN ask[c].kind = "list" ELSE ask[c].kind = "move",
           UNCHANGED <<files, name, memory, snapshot, job, ask, view, raw, todo, stat, missed, result,
                       calm, metaBounds>>
    PROVE  MetaInv'
<1> USE DEF MetaInv, memory, metaBounds, Steps
<1>1. MetaTypeOK'
  BY DEF MetaTypeOK
<1>2. Stamped' /\ Generations'
  BY DEF Stamped, Generations
<1>3. AllPast'
  BY DEF AllPast, Past, MetaTypeOK
<1>4. AllCurrent'
  BY DEF AllCurrent, Current, Told, Meta, MetaTypeOK
<1>5. Asking' /\ Locked' /\ Starting'
  BY DEF Asking, Locked, Starting, EmptyHanded, MetaTypeOK
<1>6. Looking'
  BY DEF Looking, MetaTypeOK
<1>7. Calm'
  <2>1. \A meta, r : Answered(meta, r)' <=> Answered(meta, r)
    BY DEF Answered, Told, Meta
  <2>2. ASSUME calm[c] PROVE \A p \in Paths : Answered(result[c][p], p)
    BY <2>2 DEF Calm, Listed
  <2>3. ASSUME NEW d \in Clients, calm[d] PROVE Listed(d)'
    <3>1. CASE d = c
      BY <2>1, <2>2, <2>3, <3>1 DEF Listed, MetaTypeOK
    <3>2. CASE d # c
      BY <2>1, <2>3, <3>2 DEF Calm, Listed, MetaTypeOK
    <3>. QED  BY <3>1, <3>2
  <2>4. ask[c].kind # "set" /\ \A d \in Clients : d # c => step'[d] = step[d]
    BY DEF MetaTypeOK
  <2>5. Unsettled' => Unsettled
    BY <2>4 DEF Unsettled
  <2>. QED  BY <2>3, <2>5 DEF Calm
<1>. QED  BY <1>1, <1>2, <1>3, <1>4, <1>5, <1>6, <1>7

LEMMA NotesDoneMeta ==
    ASSUME MetaConstantsOK, MetaInv, NEW c \in Clients, NotesDone(c) PROVE MetaInv'
<1>1. CASE ask[c].kind = "list"
  BY <1>1, GoesOnMeta DEF NotesDone
<1>2. CASE ask[c].kind = "move"
  BY <1>2, GoesOnMeta DEF NotesDone
<1>3. CASE ask[c].kind \notin {"list", "move"}
  BY <1>3, LeavesMeta DEF NotesDone, metaBounds, MetaInv, MetaTypeOK
<1>. QED  BY <1>1, <1>2, <1>3

\* ...and one that starts a goroutine.
LEMMA SaveMeta == ASSUME MetaConstantsOK, MetaInv, NEW c \in Clients, Save(c) PROVE MetaInv'
<1>. DEFINE listed == {p \in Paths : result[c][p] # Missing}
<1>1. CASE UNCHANGED job
  BY <1>1, LeavesMeta DEF Save, metaBounds, MetaInv, MetaTypeOK
<1>2. ASSUME NEW j \in Jobs, job[j] = NoJob,
             job' = [job EXCEPT ![j] = [at |-> "sleep", gen |-> gen, paths |-> listed,
                                        entries |-> NoEntries]]
      PROVE  MetaInv'
  <2> USE <1>2 DEF Save, MetaInv, memory, metaBounds
  <2>1. /\ job'[j] = [at |-> "sleep", gen |-> gen, paths |-> listed, entries |-> NoEntries]
        /\ \A i \in Jobs : i # j => job'[i] = job[i]
    BY DEF MetaTypeOK
  <2>2. MetaTypeOK'
    <3>1. job' \in [Jobs -> [at : {"sleep", "write", "rename"}, gen : Nat, paths : SUBSET Paths,
                             entries : Entries] \union {NoJob}]
      BY NoneEntered DEF MetaTypeOK
    <3>. QED  BY <3>1, Left DEF MetaTypeOK
  <2>3. \A e : (Past(e)' <=> Past(e)) /\ (Current(e)' <=> Current(e))
    BY DEF Past, Current, Told, Meta
  <2>4. \A d \in Clients : step'[d] \in {"merge", "notes"} => step'[d] = step[d] /\ raw'[d] = raw[d]
    BY Left
  <2>5. AllPast'
    BY <2>1, <2>3, <2>4 DEF AllPast
  <2>6. AllCurrent'
    BY <2>1, <2>3, <2>4 DEF AllCurrent
  <2>7. Generations'
    BY <2>1 DEF Generations, MetaTypeOK
  <2>. QED  BY <2>2, <2>5, <2>6, <2>7, EndedMeta
<1>. QED  BY <1>1, <1>2 DEF Save

LEMMA PreviousMeta ==
    ASSUME MetaConstantsOK, MetaInv, NEW c \in Clients, Previous(c) PROVE MetaInv'
<1> USE DEF MetaInv, Previous, memory, local, metaBounds, Steps
<1>1. MetaTypeOK'
  BY DEF Entries, Entry, MetaTypeOK
<1>2. Stamped'
  BY DEF Stamped, MetaTypeOK
<1>3. AllPast'
  BY DEF AllPast, Past, MetaTypeOK
<1>4. AllCurrent'
  BY DEF AllCurrent, Current, Told, Meta, MetaTypeOK
<1>5. Generations'
  BY DEF Generations, MetaTypeOK
<1>6. Asking'
  BY DEF Asking, MetaTypeOK
<1>7. Locked'
  BY DEF Locked, MetaTypeOK
<1>8. Starting'
  BY DEF Starting, EmptyHanded, MetaTypeOK
<1>9. Looking'
  BY DEF Looking, MetaTypeOK
<1>10. Calm'
  BY DEF Calm, Unsettled, Listed, Answered, Told, Listing, Meta, MetaTypeOK
<1>. QED  BY <1>1, <1>2, <1>3, <1>4, <1>5, <1>6, <1>7, <1>8, <1>9, <1>10

LEMMA SetNameMeta ==
    ASSUME MetaConstantsOK, MetaInv, NEW c \in Clients, SetName(c) PROVE MetaInv'
<1> USE DEF MetaInv, SetName, memory, local, metaBounds, Steps, Stirred
<1>1. MetaTypeOK'
  <2>1. name' \in Names
    BY DEF MetaTypeOK, Asking
  <2>2. stale' \in BOOLEAN /\ calm' \in [Clients -> BOOLEAN]
    BY DEF MetaTypeOK
  <2>3. sets' \in 0..MaxSets
    BY DEF MetaTypeOK, MetaConstantsOK
  <2>4. step' \in [Clients -> {"idle", "hydrate", "load", "merge", "walk", "resolve", "notes",
                              "save", "previous", "change", "drop", "again"}]
    BY DEF MetaTypeOK
  <2>. QED  BY <2>1, <2>2, <2>3, <2>4 DEF MetaTypeOK
<1>2. Stamped'
  BY DEF Stamped, MetaTypeOK
<1>3. AllPast'
  BY DEF AllPast, Past, MetaTypeOK
<1>4. AllCurrent'
  <2>1. ASSUME ~stale' PROVE name' = name /\ ~stale
    BY <2>1
  <2>2. \A d \in Clients : step'[d] \in {"merge", "notes"} => step'[d] = step[d]
    BY DEF MetaTypeOK
  <2>3. \A meta, p, body : Told(meta, p, body) => Told(meta, p, body)'
    BY <2>1 DEF Told, Meta
  <2>4. \A e : Current(e) => Current(e)'
    BY <2>3 DEF Current
  <2>. QED  BY <2>1, <2>2, <2>4 DEF AllCurrent
<1>5. Generations'
  BY DEF Generations, MetaTypeOK
<1>6. Asking'
  BY DEF Asking, MetaTypeOK
<1>7. Locked'
  BY DEF Locked, MetaTypeOK
<1>8. Starting'
  <2>1. ask[c].kind = "set"
    BY DEF Asking, MetaTypeOK
  <2>. QED  BY <2>1 DEF Starting, EmptyHanded, MetaTypeOK
<1>9. Looking'
  BY DEF Looking, MetaTypeOK
<1>10. Calm'
  BY DEF Calm, Unsettled, Listed, Answered, Told, Listing, Meta, MetaTypeOK
<1>. QED  BY <1>1, <1>2, <1>3, <1>4, <1>5, <1>6, <1>7, <1>8, <1>9, <1>10

LEMMA InboxFailsMeta ==
    ASSUME MetaConstantsOK, MetaInv, NEW c \in Clients, InboxFails(c) PROVE MetaInv'
<1>1. stops' \in 0..MaxStops
  BY DEF InboxFails, MetaInv, MetaTypeOK, MetaConstantsOK
<1>. QED  BY <1>1, LeavesMeta DEF InboxFails

\* A drop of the metas: nothing of the setting before is left, or the next drop is waited for.
LEMMA DroppedMeta ==
    ASSUME MetaConstantsOK, MetaInv, NEW c \in Clients, Dropped, step[c] \in {"drop", "again"},
           UNCHANGED <<files, name, snapshot, job, view, time>>,
           \A d \in Clients : step'[d] \in {"merge", "notes"} => step'[d] = step[d] /\ raw'[d] = raw[d]
    PROVE  /\ metas' \in Entries /\ loaded' \in BOOLEAN /\ gen' \in Nat /\ stale' \in BOOLEAN
           /\ AllPast'
           /\ AllCurrent'
           /\ Generations'
           /\ \A d \in Clients : calm[d] => FALSE
<1> USE NoneEntered DEF MetaInv, Dropped
<1>1. metas' \in Entries /\ loaded' \in BOOLEAN /\ gen' \in Nat /\ stale' \in BOOLEAN
  <2>1. gen' \in Nat
    BY DEF MetaTypeOK
  <2>2. metas' \in Entries /\ loaded' \in BOOLEAN
    OBVIOUS
  <2>3. (stale /\ Outlives) \in BOOLEAN
    OBVIOUS
  <2>. QED  BY <2>1, <2>2, <2>3
<1>2. AllPast'
  BY DEF AllPast, Past
<1>3. Generations' /\ \A j \in Jobs : job[j].at # "free" => job[j].gen # gen'
  <2>1. ASSUME NEW j \in Jobs, job[j].at # "free" PROVE job[j].gen \in Nat /\ job[j].gen <= gen /\ gen \in Nat
    BY <2>1 DEF Generations, MetaTypeOK, NoJob
  <2>. QED  BY <2>1 DEF Generations
<1>4. AllCurrent'
  <2>1. Current(metas)'
    BY DEF Current
  <2>2. CASE stale' = stale
    <3>1. \A e : Current(e)' <=> Current(e)
      BY <2>2 DEF Current, Told, Meta
    <3>. QED  BY <1>3, <2>1, <2>2, <3>1 DEF AllCurrent
  <2>3. CASE ~Outlives
    <3>1. snapshot = NoEntries /\ \A d \in Clients : step'[d] = "merge" => raw'[d] = NoEntries
      BY <2>3 DEF Outlives
    <3>2. Current(NoEntries)'
      BY DEF Current
    <3>3. \A d \in Clients : step'[d] = "notes" => view[d] = name
      BY <2>3 DEF Outlives
    <3>4. \A i \in Jobs : job[i].at # "rename"
      BY <2>3 DEF Outlives
    <3>. QED  BY <1>3, <2>1, <3>1, <3>2, <3>3, <3>4 DEF AllCurrent
  <2>4. stale' = stale \/ ~Outlives
    BY DEF MetaTypeOK
  <2>. QED  BY <2>2, <2>3, <2>4
<1>5. ASSUME NEW d \in Clients, calm[d] PROVE FALSE
  <2>1. ask[d].kind = "list" /\ ~Unsettled
    BY <1>5 DEF Calm
  <2>2. ask[c].kind \in {"write", "move", "set"}
    BY DEF Asking, MetaTypeOK
  <2>3. c # d
    BY <2>1, <2>2
  <2>. QED  BY <2>1, <2>2, <2>3 DEF Locked, Unsettled
<1>. QED  BY <1>1, <1>2, <1>3, <1>4, <1>5

LEMMA DropAgainMeta ==
    ASSUME MetaConstantsOK, MetaInv, NEW c \in Clients, DropAgain(c) PROVE MetaInv'
<1> USE DEF MetaInv, DropAgain, metaBounds
<1>1. /\ metas' \in Entries /\ loaded' \in BOOLEAN /\ gen' \in Nat /\ stale' \in BOOLEAN
      /\ AllPast' /\ AllCurrent' /\ Generations'
      /\ \A d \in Clients : ~calm[d]
  <2>1. \A d \in Clients : step'[d] \in {"merge", "notes"} => step'[d] = step[d] /\ raw'[d] = raw[d]
    BY Left
  <2>. QED  BY <2>1, DroppedMeta
<1>2. MetaTypeOK'
  BY <1>1, Left DEF MetaTypeOK
<1>. QED  BY <1>1, <1>2, EndedMeta

LEMMA DropMetasMeta ==
    ASSUME MetaConstantsOK, MetaInv, NEW c \in Clients, DropMetas(c) PROVE MetaInv'
<1> USE DEF MetaInv, DropMetas, metaBounds
<1>1. CASE ask[c].kind = "write"
  <2> USE <1>1 DEF Steps
  <2>1. /\ \A d \in Clients : d # c => step'[d] = step[d] /\ todo'[d] = todo[d]
        /\ step'[c] = "resolve"
    BY DEF MetaTypeOK
  <2>2. /\ metas' \in Entries /\ loaded' \in BOOLEAN /\ gen' \in Nat /\ stale' \in BOOLEAN
        /\ AllPast' /\ AllCurrent' /\ Generations'
        /\ \A d \in Clients : ~calm[d]
    BY <2>1, DroppedMeta
  <2>3. MetaTypeOK'
    <3>1. ask[c].path \in Paths
      BY DEF MetaTypeOK
    <3>2. todo' = [todo EXCEPT ![c] = {ask[c].path}] /\ todo \in [Clients -> SUBSET Paths]
      BY DEF MetaTypeOK
    <3>3. todo' \in [Clients -> SUBSET Paths]
      BY <3>1, <3>2
    <3>. QED  BY <2>2, <3>3 DEF MetaTypeOK
  <2>4. Stamped'
    BY DEF Stamped
  <2>5. Asking' /\ Locked' /\ Starting'
    BY <2>1 DEF Asking, Locked, Starting, EmptyHanded
  <2>6. Looking'
    BY <2>1 DEF Looking
  <2>7. Calm'
    BY <2>2 DEF Calm
  <2>. QED  BY <2>2, <2>3, <2>4, <2>5, <2>6, <2>7
<1>2. CASE ask[c].kind = "set" /\ ask[c].name # view[c]
  <2> USE <1>2 DEF Steps
  <2>1. /\ \A d \in Clients : d # c => step'[d] = step[d]
        /\ step'[c] = "again"
    BY DEF MetaTypeOK
  <2>2. /\ metas' \in Entries /\ loaded' \in BOOLEAN /\ gen' \in Nat /\ stale' \in BOOLEAN
        /\ AllPast' /\ AllCurrent' /\ Generations'
        /\ \A d \in Clients : ~calm[d]
    BY <2>1, DroppedMeta
  <2>3. MetaTypeOK'
    BY <2>2 DEF MetaTypeOK
  <2>4. Stamped'
    BY DEF Stamped
  <2>5. Asking' /\ Locked' /\ Starting'
    BY <2>1 DEF Asking, Locked, Starting, EmptyHanded
  <2>6. Looking'
    BY <2>1 DEF Looking
  <2>7. Calm'
    BY <2>2 DEF Calm
  <2>. QED  BY <2>2, <2>3, <2>4, <2>5, <2>6, <2>7
<1>3. CASE ask[c].kind # "write" /\ ~(ask[c].kind = "set" /\ ask[c].name # view[c])
  <2>1. Leaves(c) /\ UNCHANGED todo
    BY <1>3
  <2>2. /\ metas' \in Entries /\ loaded' \in BOOLEAN /\ gen' \in Nat /\ stale' \in BOOLEAN
        /\ AllPast' /\ AllCurrent' /\ Generations'
        /\ \A d \in Clients : ~calm[d]
    <3>1. \A d \in Clients : step'[d] \in {"merge", "notes"} => step'[d] = step[d] /\ raw'[d] = raw[d]
      BY <2>1, Left
    <3>. QED  BY <3>1, DroppedMeta
  <2>3. MetaTypeOK'
    BY <2>1, <2>2, Left DEF MetaTypeOK
  <2>. QED  BY <2>1, <2>2, <2>3, EndedMeta
<1>. QED  BY <1>1, <1>2, <1>3

\* The steps of a goroutine.
LEMMA JobMeta ==
    ASSUME MetaConstantsOK, MetaInv, NEW j \in Jobs,
           UNCHANGED <<files, name, memory, local, metaBounds>>,
           NEW w \in [at : {"write", "rename"}, gen : {gen}, paths : SUBSET Paths,
                      entries : Entries] \union {NoJob},
           w # NoJob => Past(w.entries) /\ Current(w.entries),
           job' = [job EXCEPT ![j] = w],
           snapshot' = snapshot \/ (job[j].at = "rename" /\ snapshot' = job[j].entries)
    PROVE  MetaInv'
<1> USE DEF MetaInv, memory, local, metaBounds
<1>1. job'[j] = w /\ \A i \in Jobs : i # j => job'[i] = job[i]
  BY DEF MetaTypeOK
<1>2. w.at = "free" \/ (w # NoJob /\ w.gen = gen /\ w.at \in {"write", "rename"})
  BY DEF NoJob
<1>3. MetaTypeOK'
  <2>1. job' \in [Jobs -> [at : {"sleep", "write", "rename"}, gen : Nat, paths : SUBSET Paths,
                           entries : Entries] \union {NoJob}]
    BY DEF MetaTypeOK
  <2>2. snapshot' \in Entries
    BY DEF MetaTypeOK, NoJob
  <2>. QED  BY <2>1, <2>2 DEF MetaTypeOK
<1>4. Stamped'
  BY DEF Stamped
<1>5. \A e : (Past(e)' <=> Past(e)) /\ (Current(e)' <=> Current(e))
  BY DEF Past, Current, Told, Meta
<1>6. AllPast'
  BY <1>1, <1>2, <1>5 DEF AllPast, Past
<1>7. AllCurrent'
  BY <1>1, <1>2, <1>5 DEF AllCurrent, Current, Told, Meta
<1>8. Generations'
  BY <1>1, <1>2 DEF Generations, MetaTypeOK
<1>9. Asking' /\ Locked' /\ Starting' /\ Looking'
  BY DEF Asking, Locked, Starting, EmptyHanded, Looking
<1>10. Calm'
  <2>1. \A meta, r : Answered(meta, r)' <=> Answered(meta, r)
    BY DEF Answered, Told, Meta
  <2>. QED  BY <2>1 DEF Calm, Listed, Unsettled
<1>. QED  BY <1>3, <1>4, <1>6, <1>7, <1>8, <1>9, <1>10

LEMMA CollectMeta == ASSUME MetaConstantsOK, MetaInv, NEW j \in Jobs, Collect(j) PROVE MetaInv'
<1>. DEFINE e == [p \in Paths |-> IF p \in job[j].paths /\ metas[p] # Missing THEN metas[p] ELSE Missing]
<1>1. job \in [Jobs -> [at : {"sleep", "write", "rename"}, gen : Nat, paths : SUBSET Paths,
                        entries : Entries] \union {NoJob}]
  BY DEF MetaInv, MetaTypeOK
<1>2. CASE job' = [job EXCEPT ![j] = NoJob]
  BY <1>2, JobMeta DEF Collect
<1>3. CASE job' # [job EXCEPT ![j] = NoJob]
  <2>1. job' = [job EXCEPT ![j] = [at |-> "write", gen |-> gen, paths |-> @.paths, entries |-> e]]
    BY <1>3 DEF Collect, Kept
  <2>2. e \in Entries
    BY DEF Entries, MetaInv, MetaTypeOK
  <2>3. Past(e) /\ Current(e)
    BY DEF Past, Current, AllPast, AllCurrent, MetaInv
  <2>4. job[j] \in [at : {"sleep", "write", "rename"}, gen : Nat, paths : SUBSET Paths,
                    entries : Entries]
    BY <1>1 DEF Collect, NoJob
  <2>. HIDE DEF e
  <2>. DEFINE w == [at |-> "write", gen |-> gen, paths |-> job[j].paths, entries |-> e]
  <2>5. w \in [at : {"write", "rename"}, gen : {gen}, paths : SUBSET Paths, entries : Entries]
    BY <2>2, <2>4
  <2>6. job' = [job EXCEPT ![j] = w]
    BY <2>1
  <2>7. w.entries = e
    OBVIOUS
  <2>. HIDE DEF w
  <2>. QED  BY <2>3, <2>5, <2>6, <2>7, JobMeta DEF Collect
<1>. QED  BY <1>2, <1>3

LEMMA RecheckMeta == ASSUME MetaConstantsOK, MetaInv, NEW j \in Jobs, Recheck(j) PROVE MetaInv'
<1>1. job \in [Jobs -> [at : {"sleep", "write", "rename"}, gen : Nat, paths : SUBSET Paths,
                        entries : Entries] \union {NoJob}]
  BY DEF MetaInv, MetaTypeOK
<1>2. CASE gen # job[j].gen
  BY <1>2, JobMeta DEF Recheck
<1>3. CASE gen = job[j].gen
  <2>1. job[j] \in [at : {"sleep", "write", "rename"}, gen : Nat, paths : SUBSET Paths,
                    entries : Entries]
    BY <1>1 DEF Recheck, NoJob
  <2>2. Past(job[j].entries) /\ Current(job[j].entries)
    BY <1>3 DEF Recheck, AllPast, AllCurrent, MetaInv
  <2>. DEFINE w == [at |-> "rename", gen |-> gen, paths |-> job[j].paths,
                    entries |-> job[j].entries]
  <2>3. w \in [at : {"write", "rename"}, gen : {gen}, paths : SUBSET Paths, entries : Entries]
    BY <2>1
  <2>4. [job[j] EXCEPT !.at = "rename"] = w
    BY <1>3, <2>1
  <2>5. w.entries = job[j].entries
    OBVIOUS
  <2>. HIDE DEF w
  <2>. QED  BY <1>3, <2>2, <2>3, <2>4, <2>5, JobMeta DEF Recheck
<1>. QED  BY <1>2, <1>3

LEMMA ReplaceMeta == ASSUME MetaConstantsOK, MetaInv, NEW j \in Jobs, Replace(j) PROVE MetaInv'
BY JobMeta DEF Replace

LEMMA RestartMeta ==
    ASSUME MetaConstantsOK, MetaInv, Restart PROVE MetaInv'
<1> USE DEF MetaInv, Restart, memory, local, metaBounds, NoJob, NoAsk
<1>1. MetaTypeOK'
  <2>1. 0 \in Nat /\ stops' \in 0..MaxStops /\ stale' \in BOOLEAN
    BY DEF MetaTypeOK, MetaConstantsOK
  <2>2. ask' \in [Clients -> [kind : {"none", "list"}] \union [kind : {"set"}, name : Names]
                             \union [kind : {"write", "move"}, path : Paths]]
    OBVIOUS
  <2>3. job' \in [Jobs -> [at : {"sleep", "write", "rename"}, gen : Nat, paths : SUBSET Paths,
                           entries : Entries] \union {NoJob}]
    OBVIOUS
  <2>. QED  BY <2>1, <2>2, <2>3, NoneEntered DEF MetaTypeOK
<1>2. Stamped'
  BY DEF Stamped, MetaTypeOK
<1>3. AllPast'
  BY NoneEntered DEF AllPast, Past, MetaTypeOK
<1>4. AllCurrent'
  BY NoneEntered DEF AllCurrent, Current, Told, Meta, MetaTypeOK
<1>5. Generations'
  BY DEF Generations, MetaTypeOK
<1>6. Asking'
  BY DEF Asking, MetaTypeOK
<1>7. Locked'
  BY DEF Locked, MetaTypeOK
<1>8. Starting'
  BY DEF Starting, EmptyHanded, MetaTypeOK
<1>9. Looking'
  BY DEF Looking, MetaTypeOK
<1>10. Calm'
  BY DEF Calm, Unsettled, Listed, Answered, Told, Listing, Meta, MetaTypeOK
<1>. QED  BY <1>1, <1>2, <1>3, <1>4, <1>5, <1>6, <1>7, <1>8, <1>9, <1>10

-----------------------------------------------------------------------------
\* The calls that change notes, which no listing is going on beside.

LEMMA BeginSetMeta ==
    ASSUME MetaConstantsOK, MetaInv, NEW c \in Clients, NEW n \in Names, BeginSet(c, n) PROVE MetaInv'
<1> USE DEF MetaInv, BeginSet, Enters, MayEnter, Steps, memory, metaBounds
<1>1. /\ step'[c] = "previous" /\ ask'[c] = [kind |-> "set", name |-> n] /\ step[c] = "idle"
      /\ \A d \in Clients : d # c => step'[d] = step[d] /\ ask'[d] = ask[d]
  BY DEF MetaTypeOK
<1>2. MetaTypeOK'
  <2>1. ask' \in [Clients -> [kind : {"none", "list"}] \union [kind : {"set"}, name : Names]
                             \union [kind : {"write", "move"}, path : Paths]]
    BY DEF MetaTypeOK
  <2>. QED  BY <2>1 DEF MetaTypeOK
<1>3. Stamped' /\ Generations'
  BY DEF Stamped, Generations
<1>4. \A e : (Past(e)' <=> Past(e)) /\ (Current(e)' <=> Current(e))
  BY DEF Past, Current, Told, Meta
<1>5. AllPast'
  BY <1>1, <1>4 DEF AllPast
<1>6. AllCurrent'
  BY <1>1, <1>4 DEF AllCurrent
<1>7. Asking' /\ Locked'
  BY <1>1 DEF Asking, Locked
<1>8. Starting'
  BY <1>1 DEF Starting, EmptyHanded
<1>9. Looking'
  BY <1>1 DEF Looking
<1>10. Calm'
  <2>1. \A meta, r : Answered(meta, r)' <=> Answered(meta, r)
    BY DEF Answered, Told, Meta
  <2>2. ~calm[c]
    BY <1>1 DEF Calm, Asking
  <2>3. Unsettled' => Unsettled
    BY <1>1 DEF Unsettled
  <2>4. ASSUME NEW d \in Clients, calm[d] PROVE ask'[d].kind = "list" /\ Listed(d)'
    <3>1. d # c /\ ask[d].kind = "list" /\ Listed(d)
      BY <2>2, <2>4 DEF Calm
    <3>. QED  BY <1>1, <2>1, <3>1 DEF Listed
  <2>. QED  BY <2>3, <2>4 DEF Calm
<1>. QED  BY <1>2, <1>3, <1>5, <1>6, <1>7, <1>8, <1>9, <1>10

\* A note that is changed bears a stamp nothing has: no entry is one of it.
LEMMA ChangedMeta ==
    ASSUME MetaConstantsOK, MetaInv, Changes, Stirred,
           files' \in [Paths -> File \union {Missing}],
           \A p \in Paths : \/ files'[p] = Missing
                            \/ files'[p] = files[p]
                            \/ /\ files'[p].stamp = time + 1
                               /\ \A r \in Paths : r # p => files'[r] = files[r],
           UNCHANGED <<name, memory, snapshot, job, view, raw, stat, missed, result, sets, stops>>,
           \A d \in Clients : step'[d] \in {"merge", "notes"} => step'[d] = step[d]
    PROVE  /\ time' \in 0..MaxEdits /\ calm' \in [Clients -> BOOLEAN]
           /\ Stamped' /\ AllPast' /\ AllCurrent' /\ Generations'
           /\ Looking' /\ Calm'
<1> USE DEF MetaInv, memory
<1>1. time' = time + 1 /\ time \in Int /\ time' \in 0..MaxEdits
  BY DEF Changes, MetaTypeOK, MetaConstantsOK
<1>2. calm' \in [Clients -> BOOLEAN] /\ Calm'
  BY DEF Stirred, Calm
<1>3. \A p \in Paths : files[p] # Missing => files[p].stamp \in Int
  BY StampsAreNumbers DEF MetaTypeOK, File
<1>4. \A p \in Paths : files[p] # Missing => files[p].stamp # time + 1 /\ files[p].stamp <= time'
  BY <1>1, <1>3 DEF Stamped
<1>5. \A p \in Paths : files'[p] # Missing /\ files'[p] # files[p] => files'[p].stamp = time + 1
  OBVIOUS
<1>6. Stamped'
  <2>1. ASSUME NEW p \in Paths, files'[p] # Missing PROVE files'[p].stamp <= time'
    BY <1>1, <1>4, <2>1
  <2>2. ASSUME NEW p \in Paths, NEW r \in Paths, files'[p] # Missing, files'[r] # Missing,
               files'[p].stamp = files'[r].stamp, p # r
        PROVE  FALSE
    <3>1. CASE files'[p] = files[p] /\ files'[r] = files[r]
      BY <2>2, <3>1 DEF Stamped
    <3>2. CASE files'[p] # files[p]
      BY <1>4, <2>2, <3>2
    <3>3. CASE files'[r] # files[r]
      BY <1>4, <2>2, <3>3
    <3>. QED  BY <3>1, <3>2, <3>3
  <2>. QED  BY <2>1, <2>2 DEF Stamped
<1>7. ASSUME NEW e \in Entries, Past(e) PROVE Past(e)' /\ (Current(e) => Current(e)')
  <2>1. \A p \in Paths : e[p] # Missing => e[p].stamp \in Int
    BY StampsAreNumbers DEF Entries, Entry
  <2>2. Past(e)' /\ \A p \in Paths : e[p] # Missing => e[p].stamp # time + 1
    BY <1>1, <1>7, <2>1 DEF Past
  <2>3. ASSUME Current(e) PROVE Current(e)'
    BY <1>5, <2>2, <2>3 DEF Current, Told, Meta
  <2>. QED  BY <2>2, <2>3
<1>8. /\ metas \in Entries /\ snapshot \in Entries /\ \A d \in Clients : raw[d] \in Entries
      /\ \A j \in Jobs : job[j].at \in {"write", "rename"} => job[j].entries \in Entries
  BY DEF MetaTypeOK, NoJob
<1>9. AllPast'
  BY <1>7, <1>8 DEF AllPast
<1>10. AllCurrent'
  <2>1. ASSUME ~stale' PROVE AllCurrent /\ AllPast
    BY <2>1
  <2>. QED  BY <1>7, <1>8, <2>1 DEF AllCurrent, AllPast
<1>11. Generations'
  BY DEF Generations
<1>12. Looking'
  <2> SUFFICES ASSUME NEW d \in Clients, step'[d] = "notes"
               PROVE  (/\ \A p \in Paths : stat[d][p] # Missing =>
                             /\ stat[d][p] <= time
                             /\ \A r \in Paths : files[r] # Missing /\ files[r].stamp = stat[d][p] => r = p
                       /\ \A p \in missed[d] : stat[d][p] # Missing)'
    BY DEF Looking
  <2>1. step[d] = "notes"
    OBVIOUS
  <2>2. \A p \in missed[d] : stat[d][p] # Missing
    BY <2>1 DEF Looking
  <2>3. ASSUME NEW p \in Paths, stat[d][p] # Missing
        PROVE  stat[d][p] <= time' /\ stat[d][p] # time + 1
    <3>1. stat[d][p] \in Int /\ stat[d][p] <= time
      BY <2>1, <2>3, StampsAreNumbers DEF Looking, MetaTypeOK
    <3>. QED  BY <1>1, <3>1
  <2>4. ASSUME NEW p \in Paths, stat[d][p] # Missing, NEW r \in Paths, files'[r] # Missing,
               files'[r].stamp = stat[d][p]
        PROVE  r = p
    <3>1. files'[r] = files[r]
      BY <1>5, <2>3, <2>4
    <3>. QED  BY <2>1, <2>4, <3>1 DEF Looking
  <2>. QED  BY <2>2, <2>3, <2>4
<1>. QED  BY <1>1, <1>2, <1>6, <1>9, <1>10, <1>11, <1>12

LEMMA WrittenMeta ==
    ASSUME MetaConstantsOK, MetaInv, NEW p \in Paths, NEW b \in Texts, Written(p, b)
    PROVE  /\ files' \in [Paths -> File \union {Missing}]
           /\ \A r \in Paths : \/ files'[r] = files[r]
                               \/ /\ files'[r].stamp = time + 1
                                  /\ \A q \in Paths : q # r => files'[q] = files[q]
<1>1. [body |-> b, stamp |-> time + 1] \in File
  BY DEF File, MetaStamps, Written, Changes, MetaInv, MetaTypeOK, MetaConstantsOK
<1>. QED  BY <1>1 DEF Written, MetaInv, MetaTypeOK

LEMMA EditMeta ==
    ASSUME MetaConstantsOK, MetaInv, NEW p \in Paths, NEW b \in Texts, Edit(p, b) PROVE MetaInv'
<1> USE DEF MetaInv, Edit, Written
<1>1. /\ time' \in 0..MaxEdits /\ calm' \in [Clients -> BOOLEAN]
      /\ Stamped' /\ AllPast' /\ AllCurrent' /\ Generations' /\ Looking' /\ Calm'
      /\ files' \in [Paths -> File \union {Missing}]
  BY WrittenMeta, ChangedMeta
<1>2. MetaTypeOK'
  BY <1>1 DEF MetaTypeOK, memory
<1>3. Asking' /\ Locked' /\ Starting'
  BY DEF Asking, Locked, Starting, EmptyHanded
<1>. QED  BY <1>1, <1>2, <1>3

LEMMA EraseMeta ==
    ASSUME MetaConstantsOK, MetaInv, NEW p \in Paths, Erase(p) PROVE MetaInv'
<1> USE DEF MetaInv, Erase
<1>1. /\ files' \in [Paths -> File \union {Missing}]
      /\ \A r \in Paths : files'[r] \in {Missing, files[r]}
  BY DEF MetaTypeOK
<1>2. /\ time' \in 0..MaxEdits /\ calm' \in [Clients -> BOOLEAN]
      /\ Stamped' /\ AllPast' /\ AllCurrent' /\ Generations' /\ Looking' /\ Calm'
  BY <1>1, ChangedMeta
<1>3. MetaTypeOK'
  BY <1>1, <1>2 DEF MetaTypeOK, memory
<1>4. Asking' /\ Locked' /\ Starting'
  BY DEF Asking, Locked, Starting, EmptyHanded
<1>. QED  BY <1>2, <1>3, <1>4

\* A call that enters to change notes is the only one that holds the vault.
LEMMA EntersMeta ==
    ASSUME MetaInv, NEW c \in Clients, NEW k \in {"write", "move"}, NEW p \in Paths,
           NEW l \in {"drop", "resolve"}, k = "write" => l = "drop",
           Enters(c, [kind |-> k, path |-> p], l),
           UNCHANGED <<stat, missed, result>>
    PROVE  /\ step' \in [Clients -> {"idle", "hydrate", "load", "merge", "walk", "resolve", "notes",
                                     "save", "previous", "change", "drop", "again"}]
           /\ ask' \in [Clients -> [kind : {"none", "list"}] \union [kind : {"set"}, name : Names]
                                    \union [kind : {"write", "move"}, path : Paths]]
           /\ Asking' /\ Locked' /\ Starting'
           /\ \A d \in Clients : step'[d] \notin {"merge", "notes"}
<1> USE DEF MetaInv, Enters, Steps
<1>1. /\ step'[c] = l /\ ask'[c] = [kind |-> k, path |-> p] /\ step[c] = "idle"
      /\ \A d \in Clients : d # c => step'[d] = step[d] /\ ask'[d] = ask[d]
  BY DEF MetaTypeOK
<1>2. /\ step' \in [Clients -> {"idle", "hydrate", "load", "merge", "walk", "resolve", "notes",
                                "save", "previous", "change", "drop", "again"}]
      /\ ask' \in [Clients -> [kind : {"none", "list"}] \union [kind : {"set"}, name : Names]
                               \union [kind : {"write", "move"}, path : Paths]]
  BY DEF MetaTypeOK
<1>3. \A d \in Clients : ask[d].kind \notin {"list", "write", "move"}
  BY DEF MayEnter, Holding
<1>4. \A d \in Clients : ask[d].kind \in {"none", "set"}
  BY <1>3 DEF MetaTypeOK
<1>5. Asking'
  BY <1>1 DEF Asking
<1>6. Locked'
  BY <1>1, <1>3 DEF Locked
<1>7. EmptyHanded(c) /\ \A d \in Clients : EmptyHanded(d)' <=> EmptyHanded(d)
  BY <1>1 DEF Starting, EmptyHanded
<1>8. Starting'
  BY <1>1, <1>7 DEF Starting
<1>9. \A d \in Clients : step[d] \notin {"merge", "notes"}
  BY <1>4 DEF Asking
<1>. QED  BY <1>1, <1>2, <1>5, <1>6, <1>8, <1>9

LEMMA BeginWriteMeta ==
    ASSUME MetaConstantsOK, MetaInv, NEW c \in Clients, NEW p \in Paths, NEW b \in Texts,
           BeginWrite(c, p, b)
    PROVE  MetaInv'
<1> USE DEF MetaInv, BeginWrite
<1>1. /\ step' \in [Clients -> {"idle", "hydrate", "load", "merge", "walk", "resolve", "notes",
                                "save", "previous", "change", "drop", "again"}]
      /\ ask' \in [Clients -> [kind : {"none", "list"}] \union [kind : {"set"}, name : Names]
                               \union [kind : {"write", "move"}, path : Paths]]
      /\ Asking' /\ Locked' /\ Starting'
      /\ \A d \in Clients : step'[d] \notin {"merge", "notes"}
  BY EntersMeta
<1>2. /\ time' \in 0..MaxEdits /\ calm' \in [Clients -> BOOLEAN]
      /\ Stamped' /\ AllPast' /\ AllCurrent' /\ Generations' /\ Looking' /\ Calm'
      /\ files' \in [Paths -> File \union {Missing}]
  BY <1>1, WrittenMeta, ChangedMeta DEF Written
<1>3. MetaTypeOK'
  BY <1>1, <1>2 DEF MetaTypeOK, memory
<1>. QED  BY <1>1, <1>2, <1>3

LEMMA BeginRemoveMeta ==
    ASSUME MetaConstantsOK, MetaInv, NEW c \in Clients, NEW p \in Paths, BeginRemove(c, p)
    PROVE  MetaInv'
<1> USE DEF MetaInv, BeginRemove
<1>1. /\ step' \in [Clients -> {"idle", "hydrate", "load", "merge", "walk", "resolve", "notes",
                                "save", "previous", "change", "drop", "again"}]
      /\ ask' \in [Clients -> [kind : {"none", "list"}] \union [kind : {"set"}, name : Names]
                               \union [kind : {"write", "move"}, path : Paths]]
      /\ Asking' /\ Locked' /\ Starting'
      /\ \A d \in Clients : step'[d] \notin {"merge", "notes"}
  BY EntersMeta
<1>2. /\ files' \in [Paths -> File \union {Missing}]
      /\ \A r \in Paths : files'[r] \in {Missing, files[r]}
  BY DEF MetaTypeOK
<1>3. /\ time' \in 0..MaxEdits /\ calm' \in [Clients -> BOOLEAN]
      /\ Stamped' /\ AllPast' /\ AllCurrent' /\ Generations' /\ Looking' /\ Calm'
  BY <1>1, <1>2, ChangedMeta
<1>4. MetaTypeOK'
  BY <1>1, <1>2, <1>3 DEF MetaTypeOK, memory
<1>. QED  BY <1>1, <1>3, <1>4

\* A note that is moved takes its stamp along.
LEMMA BeginMoveNoteMeta ==
    ASSUME MetaConstantsOK, MetaInv, NEW c \in Clients, NEW p \in Paths, NEW q \in Paths,
           BeginMoveNote(c, p, q)
    PROVE  MetaInv'
<1> USE DEF MetaInv, BeginMoveNote, memory
<1>1. /\ step' \in [Clients -> {"idle", "hydrate", "load", "merge", "walk", "resolve", "notes",
                                "save", "previous", "change", "drop", "again"}]
      /\ ask' \in [Clients -> [kind : {"none", "list"}] \union [kind : {"set"}, name : Names]
                               \union [kind : {"write", "move"}, path : Paths]]
      /\ Asking' /\ Locked' /\ Starting'
      /\ \A d \in Clients : step'[d] \notin {"merge", "notes"}
  BY EntersMeta
<1>2. /\ files' \in [Paths -> File \union {Missing}]
      /\ p # q /\ files'[p] = Missing /\ files'[q] = files[p]
      /\ \A r \in Paths : r \notin {p, q} => files'[r] = files[r]
  BY DEF MetaTypeOK
<1>3. time' = time + 1 /\ time \in Int /\ time' \in 0..MaxEdits
  BY DEF Changes, MetaTypeOK, MetaConstantsOK
<1>4. \A r \in Paths : files[r] # Missing => files[r].stamp \in Int /\ files[r].stamp <= time'
  BY <1>3, StampsAreNumbers DEF MetaTypeOK, File, Stamped
<1>5. Stamped'
  <2>1. ASSUME NEW r \in Paths, files'[r] # Missing PROVE files'[r].stamp <= time'
    BY <1>2, <1>4, <2>1
  <2>2. ASSUME NEW r \in Paths, NEW s \in Paths, files'[r] # Missing, files'[s] # Missing,
               files'[r].stamp = files'[s].stamp
        PROVE  r = s
    BY <1>2, <2>2 DEF Stamped
  <2>. QED  BY <2>1, <2>2 DEF Stamped
<1>6. ASSUME NEW e \in Entries PROVE (Past(e) => Past(e)') /\ (Current(e) => Current(e)')
  <2>1. \A r \in Paths : e[r] # Missing => e[r].stamp \in Int
    BY StampsAreNumbers DEF Entries, Entry
  <2>2. Past(e) => Past(e)'
    BY <1>3, <2>1 DEF Past
  <2>3. ASSUME Current(e) PROVE Current(e)'
    <3>1. \A r \in Paths : files'[r] # Missing => \E s \in Paths : files'[r] = files[s]
      BY <1>2
    <3>2. \A meta, r, body : Told(meta, r, body)' <=> Told(meta, r, body)
      BY DEF Told, Meta
    <3>. HIDE DEF BeginMoveNote
    <3>. QED  BY <2>3, <3>1, <3>2 DEF Current
  <2>. QED  BY <2>2, <2>3
<1>7. /\ metas \in Entries /\ snapshot \in Entries
      /\ \A j \in Jobs : job[j].at \in {"write", "rename"} => job[j].entries \in Entries
  BY DEF MetaTypeOK, NoJob
<1>8. AllPast'
  BY <1>1, <1>6, <1>7 DEF AllPast
<1>9. AllCurrent'
  BY <1>1, <1>6, <1>7 DEF AllCurrent
<1>10. Generations' /\ Looking'
  BY <1>1 DEF Generations, Looking
<1>11. calm' \in [Clients -> BOOLEAN] /\ Calm'
  BY DEF Stirred, Calm
<1>12. MetaTypeOK'
  <2>1. todo' \in [Clients -> SUBSET Paths]
    BY DEF MetaTypeOK
  <2>. QED  BY <1>1, <1>2, <1>3, <1>11, <2>1 DEF MetaTypeOK
<1>. QED  BY <1>1, <1>5, <1>8, <1>9, <1>10, <1>11, <1>12

LEMMA NextMeta == ASSUME MetaConstantsOK PROVE MetaInv /\ [MetaNext]_metaVars => MetaInv'
<1> SUFFICES ASSUME MetaInv, [MetaNext]_metaVars PROVE MetaInv'
  OBVIOUS
<1>1. ASSUME NEW c \in Clients, ListStep(c) PROVE MetaInv'
  BY <1>1, BeginListMeta, HydrateMeta, LoadMeta, MergeMeta, WalkMeta, ResolveMeta, SkipMeta,
     StatNoteMeta, KnownMeta, MissMeta, FillMeta, NotesDoneMeta, SaveMeta DEF ListStep
<1>2. ASSUME NEW c \in Clients, ChangeStep(c) PROVE MetaInv'
  BY <1>2, BeginWriteMeta, BeginMoveNoteMeta, BeginRemoveMeta, DropMetasMeta DEF ChangeStep
<1>3. ASSUME NEW c \in Clients, NameStep(c) PROVE MetaInv'
  BY <1>3, BeginSetMeta, PreviousMeta, SetNameMeta, InboxFailsMeta, DropAgainMeta DEF NameStep
<1>4. ASSUME NEW j \in Jobs, JobStep(j) PROVE MetaInv'
  BY <1>4, CollectMeta, RecheckMeta, ReplaceMeta DEF JobStep
<1>5. CASE \/ \E p \in Paths, b \in Texts : Edit(p, b)
           \/ \E p \in Paths : Erase(p)
           \/ Restart
  BY <1>5, EditMeta, EraseMeta, RestartMeta
<1>6. CASE UNCHANGED metaVars
  <2> USE <1>6 DEF MetaInv, metaVars, memory, local, metaBounds
  <2>1. MetaTypeOK' /\ Stamped' /\ Generations'
    BY DEF MetaTypeOK, Stamped, Generations
  <2>2. AllPast' /\ AllCurrent'
    BY DEF AllPast, Past, AllCurrent, Current, Told, Meta
  <2>3. Asking' /\ Locked' /\ Starting' /\ Looking'
    BY DEF Asking, Locked, Starting, EmptyHanded, Looking
  <2>4. Calm'
    BY DEF Calm, Unsettled, Listed, Answered, Told, Listing, Meta
  <2>. QED  BY <2>1, <2>2, <2>3, <2>4
<1>. QED  BY <1>1, <1>2, <1>3, <1>4, <1>5, <1>6 DEF MetaNext

\* What the cache holds, in memory, on disk and in the hands of a goroutine, is of a
\* stamp given out, and tells what the note of that stamp says, its tags too unless a change of the
\* preamble folder has left metas of the one before; a listing nothing was changed
\* under has so far what is in the vault (ListNotes, readMetaWithPreambleFolder,
\* persistNoteMetaCacheSnapshot, invalidateNoteMetaCache of vault.go).
THEOREM MetaInvariance == ASSUME MetaConstantsOK PROVE MetaSpec => []MetaInv
<1>1. MetaInit => MetaInv
  BY InitMeta
<1>2. MetaInv /\ [MetaNext]_metaVars => MetaInv'
  BY NextMeta
<1>. QED  BY <1>1, <1>2, PTL DEF MetaSpec

\* The variables of the note-meta cache keep their types.
THEOREM MetaTypeCorrect == ASSUME MetaConstantsOK PROVE MetaSpec => []MetaTypeOK
<1>1. MetaInv => MetaTypeOK
  BY DEF MetaInv
<1>. QED  BY <1>1, MetaInvariance, PTL

\* A listing during which nothing was changed tells what is in the vault, however many
\* clients, notes, goroutines and restarts there are (ListNotes of vault.go).
THEOREM ListingsAreQuiet == ASSUME MetaConstantsOK PROVE MetaSpec => []QuietListing
<1>1. MetaInv => QuietListing
  <2> SUFFICES ASSUME MetaInv, NEW c \in Clients, step[c] = "save", calm[c]
               PROVE  /\ \A p \in Paths : files[p] = Missing <=> result[c][p] = Missing
                      /\ \A p \in Paths : files[p] # Missing => result[c][p].body = files[p].body
                      /\ ~stale => result[c] = Listing
    BY DEF QuietListing
  <2>1. \A p \in Paths : Answered(result[c][p], p)
    BY DEF MetaInv, Calm, Listed
  <2>2. ~stale => \A p \in Paths : result[c][p] = Listing[p]
    BY <2>1 DEF Answered, Told, Listing
  <2>3. result[c] \in [Paths -> Metas \union {Missing}]
    BY DEF MetaInv, MetaTypeOK
  <2>4. ~stale => result[c] = Listing
    BY <2>2, <2>3 DEF Listing
  <2>. QED  BY <2>1, <2>4 DEF Answered, Told
<1>. QED  BY <1>1, MetaInvariance, PTL
=============================================================================
