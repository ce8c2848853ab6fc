-------------------------- MODULE AtomicWriteProofs -------------------------
(***************************************************************************)
(* Proofs about AtomicWrite, for any writers, notes, links, bodies and     *)
(* permissions, any umask, and any number of faults and outside changes.   *)
(***************************************************************************)
EXTENDS AtomicWrite, TLAPS

-----------------------------------------------------------------------------
\* The inductive invariant

\* What a call knows at each step, and what is in its scratch file: the file bears
\* the writer's name, so that no other call touches it.
Known(w) ==
    /\ step[w] = "idle" => op[w] = NoOp
    /\ step[w] # "idle" => op[w].target \in Targets /\ op[w].data \in Data
    /\ step[w] \notin {"idle", "look"} => op[w].mode \in Modes
    /\ step[w] \in {"look", "open"} => op[w].name = Absent
    /\ step[w] \in {"write", "sync", "chmod", "rename"} =>
          /\ op[w].name \in Scratch
          /\ op[w].name[2] = w
          /\ scratch[op[w].name] \in File
    /\ step[w] \in {"sync", "chmod", "rename"} => scratch[op[w].name].data = op[w].data
    /\ step[w] \in {"chmod", "rename"} => scratch[op[w].name].flushed

\* What is at a note has been written and flushed, here and on the disk.
Whole ==
    \A t \in Targets :
       /\ files[t] # Absent => files[t].data # Torn /\ files[t].flushed
       /\ disk[t] # Absent => disk[t].data # Torn /\ disk[t].flushed

IInv ==
    /\ SaveTypeOK
    /\ \A w \in Writers : Known(w)
    /\ \A l \in Links : files[l] = Link
    /\ Whole
    /\ NoScratchLeft

LEMMA InitIInv == SaveInit => IInv
<1> SUFFICES ASSUME SaveInit PROVE IInv
  OBVIOUS
<1> PICK d \in [Targets -> Data \union {Absent}], m \in [Targets -> Modes] :
       files = [p \in Entries |->
                  IF p \in Links THEN Link
                  ELSE IF d[p] = Absent THEN Absent
                  ELSE [data |-> d[p], mode |-> m[p], flushed |-> TRUE]]
  BY DEF SaveInit
<1>1. \A t \in Targets :
         files[t] = IF d[t] = Absent THEN Absent
                    ELSE [data |-> d[t], mode |-> m[t], flushed |-> TRUE]
  BY SaveConstantsOK DEF Entries
<1>2. \A t \in Targets : files[t] \in File \union {Absent}
  <2> TAKE t \in Targets
  <2>1. CASE d[t] = Absent
    BY <1>1, <2>1
  <2>2. CASE d[t] # Absent
    <3>1. d[t] \in Data /\ m[t] \in Modes
      BY <2>2
    <3>2. files[t] = [data |-> d[t], mode |-> m[t], flushed |-> TRUE]
      BY <1>1, <2>2
    <3>3. [data |-> d[t], mode |-> m[t], flushed |-> TRUE] \in File
      BY <3>1 DEF File
    <3>. QED  BY <3>2, <3>3
  <2>. QED  BY <2>1, <2>2
<1>3. files \in [Entries -> File \union {Link, Absent}]
  BY <1>2 DEF Entries
<1>4. \A t \in Targets : files[t] # Link
  BY <1>2, MarksApart
<1>5. disk \in [Targets -> File \union {Absent}]
  BY <1>2 DEF SaveInit
<1>6. NoOp \in Ops
  BY SaveConstantsOK DEF NoOp, Ops
<1>7. SaveTypeOK
  <2>1. op \in [Writers -> Ops] /\ step \in [Writers -> Pcs]
    BY <1>6 DEF SaveInit, Pcs
  <2>2. scratch \in [Scratch -> File \union {Absent}]
        /\ returned \in [Writers -> {"none", "ok", "error"}] /\ strays \in SUBSET Scratch
        /\ meddled \in SUBSET Writers
    BY DEF SaveInit
  <2>3. failures \in 0..MaxFailures /\ outside \in 0..MaxOutside
    BY SaveConstantsOK DEF SaveInit
  <2>. QED  BY <2>1, <2>2, <2>3, <1>3, <1>4, <1>5 DEF SaveTypeOK
<1>8. \A w \in Writers : Known(w)
  BY DEF SaveInit, Known
<1>9. Whole
  <2>1. \A t \in Targets : files[t] # Absent => files[t].data # Torn /\ files[t].flushed
    <3> SUFFICES ASSUME NEW t \in Targets, files[t] # Absent
                 PROVE  files[t].data # Torn /\ files[t].flushed
      OBVIOUS
    <3>1. d[t] # Absent
      BY <1>1
    <3>2. files[t] = [data |-> d[t], mode |-> m[t], flushed |-> TRUE]
      BY <1>1, <3>1
    <3>. QED  BY <3>1, <3>2, SaveConstantsOK
  <2>2. \A t \in Targets : disk[t] = files[t]
    BY DEF SaveInit
  <2>. QED  BY <2>1, <2>2 DEF Whole
<1>11. \A l \in Links : files[l] = Link
  BY DEF Entries
<1>10. NoScratchLeft
  BY DEF SaveInit, NoScratchLeft
<1>. QED  BY <1>7, <1>8, <1>9, <1>10, <1>11 DEF IInv

-----------------------------------------------------------------------------
\* The steps of a save

\* A call that ends, whatever its answer, leaves the other calls as they were.
LEMMA EndsType ==
    ASSUME IInv, NEW w \in Writers, NEW a \in {"none", "ok", "error"}, Ends(w, a)
    PROVE  /\ op' \in [Writers -> Ops]
           /\ step' \in [Writers -> Pcs]
           /\ returned' \in [Writers -> {"none", "ok", "error"}]
           /\ step'[w] = "idle" /\ op'[w] = NoOp
           /\ \A v \in Writers \ {w} : step'[v] = step[v] /\ op'[v] = op[v]
<1>1. NoOp \in Ops
  BY SaveConstantsOK DEF NoOp, Ops
<1>. QED  BY <1>1 DEF IInv, SaveTypeOK, Ends, Pcs

\* The scratch files of two calls are two files.
LEMMA Apart ==
    ASSUME IInv, NEW w \in Writers, NEW v \in Writers, v # w,
           step[v] \in {"write", "sync", "chmod", "rename"},
           step[w] \in {"write", "sync", "chmod", "rename"}
    PROVE  op[v].name # op[w].name
BY DEF IInv, Known

LEMMA CallIInv == ASSUME IInv, NEW w \in Writers, Call(w) PROVE IInv'
<1>1. PICK p \in Entries, d \in Data :
         op' = [op EXCEPT ![w] = [NoOp EXCEPT !.target = resolveLinkTarget(p), !.data = d]]
  BY DEF Call
<1>2. resolveLinkTarget(p) \in Targets
  BY SaveConstantsOK DEF resolveLinkTarget, IInv, SaveTypeOK, Entries
<1>3. op'[w] = [target |-> resolveLinkTarget(p), data |-> d, mode |-> Absent,
                replacing |-> FALSE, name |-> Absent, tries |-> 0]
  BY <1>1 DEF IInv, SaveTypeOK, NoOp
<1>4. op'[w] \in Ops
  BY <1>2, <1>3, SaveConstantsOK DEF Ops
<1>5. SaveTypeOK'
  BY <1>1, <1>3, <1>4 DEF IInv, SaveTypeOK, Call, Goes, Pcs
<1>6. ASSUME NEW v \in Writers PROVE Known(v)'
  <2>1. CASE v = w
    <3>1. step'[w] = "look"
      BY DEF IInv, SaveTypeOK, Call, Goes
    <3>. QED  BY <1>2, <1>3, <2>1, <3>1 DEF Known
  <2>2. CASE v # w
    BY <1>1, <2>2 DEF IInv, SaveTypeOK, Known, Call, Goes
  <2>. QED  BY <2>1, <2>2
<1>7. Whole' /\ \A l \in Links : files'[l] = Link
  BY DEF IInv, Whole, Call
<1>8. NoScratchLeft'
  <2>1. step[w] = "idle" /\ op[w].name = Absent
    BY DEF IInv, Known, NoOp, Call
  <2>2. \A v \in Writers \ {w} : op'[v] = op[v]
    BY <1>1 DEF IInv, SaveTypeOK
  <2>3. \A x \in Scratch : x # Absent
    BY MarksApart
  <2>. QED  BY <2>1, <2>2, <2>3 DEF IInv, NoScratchLeft, Call
<1>. QED  BY <1>5, <1>6, <1>7, <1>8 DEF IInv

LEMMA LookIInv == ASSUME IInv, NEW w \in Writers, Look(w) PROVE IInv'
<1> DEFINE there == files[op[w].target]
<1>1. op[w].target \in Targets /\ op[w].name = Absent /\ op[w] \in Ops
  BY DEF IInv, SaveTypeOK, Known, Look
<1>2. PICK m \in Modes, r \in BOOLEAN : op' = [op EXCEPT ![w].mode = m, ![w].replacing = r]
  <2>1. there \in File \union {Absent}
    BY <1>1 DEF IInv, SaveTypeOK, Entries
  <2>2. there # Absent => there.mode \in Modes
    BY <2>1 DEF File
  <2>. QED  BY <2>2, SaveConstantsOK DEF Look
<1>3. op'[w] = [op[w] EXCEPT !.mode = m, !.replacing = r]
  BY <1>2 DEF IInv, SaveTypeOK
<1>4. op'[w] \in Ops
  BY <1>1, <1>3 DEF Ops
<1>5. \A v \in Writers \ {w} : op'[v] = op[v] /\ step'[v] = step[v]
  BY <1>2 DEF Look, Goes, IInv, SaveTypeOK
<1>6. step' \in [Writers -> Pcs] /\ step'[w] = "open" /\ step[w] = "look"
  BY DEF Look, Goes, IInv, SaveTypeOK, Pcs
<1>7. op' \in [Writers -> Ops]
  BY <1>2, <1>4 DEF IInv, SaveTypeOK
<1>8. SaveTypeOK'
  BY <1>6, <1>7 DEF IInv, SaveTypeOK, Look
<1>9. op'[w].target = op[w].target /\ op'[w].data = op[w].data /\ op'[w].mode = m
      /\ op'[w].name = Absent
  BY <1>1, <1>3 DEF Ops
<1>10. ASSUME NEW v \in Writers PROVE Known(v)'
  <2>1. CASE v = w
    <3>1. op[w].data \in Data
      BY <1>6 DEF IInv, Known
    <3>. QED  BY <1>1, <1>6, <1>9, <2>1, <3>1 DEF Known
  <2>2. CASE v # w
    <3>1. scratch' = scratch
      BY DEF Look
    <3>. QED  BY <1>5, <2>2, <3>1 DEF IInv, Known
  <2>. QED  BY <2>1, <2>2
<1>11. Whole' /\ \A l \in Links : files'[l] = Link
  BY DEF IInv, Whole, Look
<1>12. NoScratchLeft'
  BY <1>1, <1>5, <1>9, MarksApart DEF IInv, NoScratchLeft, Look
<1>. QED  BY <1>8, <1>10, <1>11, <1>12 DEF IInv

LEMMA OpenIInv == ASSUME IInv, NEW w \in Writers, Open(w) PROVE IInv'
<1>1. op[w].target \in Targets /\ op[w].data \in Data /\ op[w].mode \in Modes
      /\ op[w].name = Absent /\ op[w] \in Ops
  BY DEF IInv, SaveTypeOK, Known, Open
<1>2. PICK s \in Stamps :
         /\ scratch' = [scratch EXCEPT ![<<op[w].target, w, s>>] =
                [data |-> Torn, mode |-> Masked[op[w].mode], flushed |-> FALSE]]
         /\ op' = [op EXCEPT ![w].name = <<op[w].target, w, s>>]
  BY DEF Open
<1>3. PICK x \in Scratch : x = <<op[w].target, w, s>>
  <2>1. <<op[w].target, w, s>> \in Scratch
    BY <1>1 DEF Scratch
  <2>. QED  BY <2>1
<1>. x[2] = w
  BY <1>3
<1>4. PICK f \in File : scratch' = [scratch EXCEPT ![x] = f]
  <2>1. Masked[op[w].mode] \in Modes
    BY <1>1, SaveConstantsOK
  <2>2. [data |-> Torn, mode |-> Masked[op[w].mode], flushed |-> FALSE] \in File
    BY <2>1 DEF File
  <2>. QED  BY <1>2, <1>3, <2>2
<1>5. op'[w] = [op[w] EXCEPT !.name = x]
  BY <1>2, <1>3 DEF IInv, SaveTypeOK
<1>6. op'[w] \in Ops
  BY <1>1, <1>5 DEF Ops
<1>7. op'[w].target = op[w].target /\ op'[w].data = op[w].data
      /\ op'[w].mode = op[w].mode /\ op'[w].name = x
  BY <1>1, <1>5 DEF Ops
<1>8. \A v \in Writers \ {w} : op'[v] = op[v] /\ step'[v] = step[v]
  BY <1>2 DEF Open, Goes, IInv, SaveTypeOK
<1>9. step' \in [Writers -> Pcs] /\ step'[w] = "write"
  BY DEF Open, Goes, IInv, SaveTypeOK, Pcs
<1>10. scratch' \in [Scratch -> File \union {Absent}] /\ scratch'[x] = f
       /\ \A y \in Scratch \ {x} : scratch'[y] = scratch[y]
  BY <1>4 DEF IInv, SaveTypeOK
<1>11. op' \in [Writers -> Ops]
  BY <1>2, <1>6 DEF IInv, SaveTypeOK
<1>12. SaveTypeOK'
  BY <1>9, <1>10, <1>11 DEF IInv, SaveTypeOK, Open
<1>13. ASSUME NEW v \in Writers PROVE Known(v)'
  <2>1. CASE v = w
    BY <1>1, <1>3, <1>7, <1>9, <1>10, <2>1 DEF Known
  <2>2. CASE v # w
    <3>1. step[v] \in {"write", "sync", "chmod", "rename"} =>
             op[v].name \in Scratch \ {x}
      BY <1>3, <2>2 DEF IInv, Known
    <3>. QED  BY <1>8, <1>10, <2>2, <3>1 DEF IInv, Known
  <2>. QED  BY <2>1, <2>2
<1>14. Whole' /\ \A l \in Links : files'[l] = Link
  BY DEF IInv, Whole, Open
<1>15. NoScratchLeft'
  BY <1>1, <1>7, <1>8, <1>10, MarksApart DEF IInv, NoScratchLeft, Open
<1>. QED  BY <1>12, <1>13, <1>14, <1>15 DEF IInv

\* A step that changes only what is in the scratch file of its call.
Fills(w, f, next) ==
    /\ scratch' = [scratch EXCEPT ![op[w].name] = f]
    /\ Goes(w, next)
    /\ UNCHANGED <<files, disk, op, returned, strays, meddled, failures, outside>>

LEMMA FillsIInv ==
    ASSUME IInv, NEW w \in Writers, NEW f \in File, NEW next \in {"sync", "chmod", "rename"},
           step[w] \in {"write", "sync", "chmod"}, Fills(w, f, next),
           f.data = op[w].data, next # "sync" => f.flushed
    PROVE  IInv'
<1> DEFINE x == op[w].name
<1>1. x \in Scratch /\ op[w].target \in Targets /\ op[w].data \in Data
      /\ op[w].mode \in Modes /\ x[2] = w
  BY DEF IInv, Known
<1>2. scratch' \in [Scratch -> File \union {Absent}] /\ scratch'[x] = f
      /\ \A y \in Scratch \ {x} : scratch'[y] = scratch[y]
  BY <1>1 DEF IInv, SaveTypeOK, Fills
<1>3. step' \in [Writers -> Pcs] /\ step'[w] = next /\ \A v \in Writers \ {w} : step'[v] = step[v]
  BY DEF Fills, Goes, IInv, SaveTypeOK, Pcs
<1>4. SaveTypeOK'
  BY <1>2, <1>3 DEF IInv, SaveTypeOK, Fills
<1>5. ASSUME NEW v \in Writers PROVE Known(v)'
  <2>1. CASE v = w
    BY <1>1, <1>2, <1>3, <2>1 DEF Known, Fills
  <2>2. CASE v # w
    <3>1. step[v] \in {"write", "sync", "chmod", "rename"} =>
             op[v].name \in Scratch \ {x}
      BY <2>2, Apart DEF IInv, Known
    <3>. QED  BY <1>2, <1>3, <2>2, <3>1 DEF IInv, Known, Fills
  <2>. QED  BY <2>1, <2>2
<1>6. Whole' /\ \A l \in Links : files'[l] = Link
  BY DEF IInv, Whole, Fills
<1>7. NoScratchLeft'
  BY <1>1, <1>2 DEF IInv, NoScratchLeft, Fills
<1>. QED  BY <1>4, <1>5, <1>6, <1>7 DEF IInv

LEMMA WriteIInv == ASSUME IInv, NEW w \in Writers, Write(w) PROVE IInv'
<1>1. scratch[op[w].name] \in File /\ op[w].name \in Scratch /\ op[w].data \in Data
      /\ step[w] = "write"
  BY DEF IInv, Known, Write
<1> DEFINE f == [scratch[op[w].name] EXCEPT !.data = op[w].data]
<1>2. f \in File /\ f.data = op[w].data
  BY <1>1 DEF File
<1>3. Fills(w, f, "sync")
  BY <1>1 DEF Write, Fills, IInv, SaveTypeOK
<1>. QED  BY <1>1, <1>2, <1>3, FillsIInv

LEMMA SyncIInv == ASSUME IInv, NEW w \in Writers, Sync(w) PROVE IInv'
<1>1. scratch[op[w].name] \in File /\ op[w].name \in Scratch
      /\ scratch[op[w].name].data = op[w].data /\ step[w] = "sync"
  BY DEF IInv, Known, Sync
<1> DEFINE f == [scratch[op[w].name] EXCEPT !.flushed = TRUE]
<1>2. f \in File /\ f.data = op[w].data /\ f.flushed
  BY <1>1 DEF File
<1>3. Fills(w, f, "chmod")
  BY <1>1 DEF Sync, Fills, IInv, SaveTypeOK
<1>. QED  BY <1>1, <1>2, <1>3, FillsIInv

LEMMA ChmodIInv == ASSUME IInv, NEW w \in Writers, Chmod(w) PROVE IInv'
<1>1. scratch[op[w].name] \in File /\ op[w].name \in Scratch /\ op[w].mode \in Modes
      /\ scratch[op[w].name].data = op[w].data /\ scratch[op[w].name].flushed
      /\ step[w] = "chmod"
  BY DEF IInv, Known, Chmod
<1>2. CASE op[w].replacing
  <2> DEFINE f == [scratch[op[w].name] EXCEPT !.mode = op[w].mode]
  <2>1. f \in File /\ f.data = op[w].data /\ f.flushed
    BY <1>1 DEF File
  <2>2. Fills(w, f, "rename")
    BY <1>1, <1>2 DEF Chmod, Fills, IInv, SaveTypeOK
  <2>. QED  BY <1>1, <2>1, <2>2, FillsIInv
<1>3. CASE ~op[w].replacing
  <2>1. scratch' = [scratch EXCEPT ![op[w].name] = scratch[op[w].name]]
    BY <1>3 DEF Chmod, IInv, SaveTypeOK
  <2>2. Fills(w, scratch[op[w].name], "rename")
    BY <2>1 DEF Chmod, Fills
  <2>. QED  BY <1>1, <2>2, FillsIInv
<1>. QED  BY <1>2, <1>3

LEMMA RenameIInv == ASSUME IInv, NEW w \in Writers, Rename(w) PROVE IInv'
<1> DEFINE x == op[w].name
<1>1. /\ x \in Scratch /\ scratch[x] \in File /\ op[w].target \in Targets
      /\ op[w].data \in Data /\ scratch[x].data = op[w].data /\ scratch[x].flushed
      /\ step[w] = "rename"
  BY DEF IInv, Known, Rename
<1>2. Ends(w, "ok") /\ disk' = disk /\ strays' = strays /\ failures' = failures
      /\ outside' = outside /\ meddled' \in SUBSET Writers
  BY DEF Rename, HaveSeen, IInv, SaveTypeOK
<1>3. scratch' \in [Scratch -> File \union {Absent}] /\ scratch'[x] = Absent
      /\ \A y \in Scratch \ {x} : scratch'[y] = scratch[y]
  BY <1>1 DEF IInv, SaveTypeOK, Rename
<1>4. files' \in [Entries -> File \union {Link, Absent}]
      /\ files'[op[w].target] = scratch[x]
      /\ \A p \in Entries : p # op[w].target => files'[p] = files[p]
  BY <1>1 DEF IInv, SaveTypeOK, Rename, Entries
<1>5. SaveTypeOK'
  <2>1. \A t \in Targets : files'[t] # Link
    BY <1>1, <1>4, MarksApart DEF IInv, SaveTypeOK, Entries
  <2>. QED  BY <1>2, <1>3, <1>4, <2>1, EndsType DEF IInv, SaveTypeOK
<1>6. ASSUME NEW v \in Writers PROVE Known(v)'
  <2>1. CASE v = w
    BY <1>2, <2>1, EndsType DEF Known
  <2>2. CASE v # w
    <3>1. step[v] \in {"write", "sync", "chmod", "rename"} =>
             op[v].name \in Scratch \ {x}
      BY <1>1, <2>2, Apart DEF IInv, Known
    <3>2. step'[v] = step[v] /\ op'[v] = op[v]
      BY <1>2, <2>2, EndsType
    <3>. QED  BY <1>3, <3>1, <3>2 DEF IInv, Known
  <2>. QED  BY <2>1, <2>2
<1>7. Whole'
  <2>1. op[w].data # Torn
    BY <1>1, SaveConstantsOK
  <2>. QED  BY <1>1, <1>2, <1>4, <2>1 DEF IInv, Whole, Entries
<1>8. \A l \in Links : files'[l] = Link
  BY <1>1, <1>4, SaveConstantsOK DEF IInv, Entries
<1>9. NoScratchLeft'
  BY <1>2, <1>3, EndsType DEF IInv, NoScratchLeft
<1>. QED  BY <1>5, <1>6, <1>7, <1>8, <1>9 DEF IInv

LEMMA RetryIInv == ASSUME IInv, NEW w \in Writers, Retry(w) PROVE IInv'
<1>1. op[w] \in Ops /\ op[w].tries + 1 \in 0..(Attempts - 1) /\ step[w] = "rename"
  BY SaveConstantsOK DEF IInv, SaveTypeOK, Ops, Retry
<1>2. op' = [op EXCEPT ![w].tries = op[w].tries + 1]
  BY DEF Retry
<1>3. op'[w] \in Ops /\ op'[w].target = op[w].target /\ op'[w].data = op[w].data
      /\ op'[w].mode = op[w].mode /\ op'[w].name = op[w].name
  BY <1>1, <1>2 DEF IInv, SaveTypeOK, Ops
<1>4. \A v \in Writers \ {w} : op'[v] = op[v]
  BY <1>2 DEF IInv, SaveTypeOK
<1>5. op' \in [Writers -> Ops]
  BY <1>2, <1>3 DEF IInv, SaveTypeOK
<1>6. failures' \in 0..MaxFailures
  BY SaveConstantsOK DEF Retry, Fails, IInv, SaveTypeOK
<1>7. SaveTypeOK'
  BY <1>5, <1>6 DEF IInv, SaveTypeOK, Retry
<1>8. ASSUME NEW v \in Writers PROVE Known(v)'
  <2>1. step' = step /\ scratch' = scratch
    BY DEF Retry
  <2>2. CASE v = w
    BY <1>1, <1>3, <2>1, <2>2 DEF IInv, Known
  <2>3. CASE v # w
    BY <1>4, <2>1, <2>3 DEF IInv, Known
  <2>. QED  BY <2>2, <2>3
<1>9. Whole' /\ \A l \in Links : files'[l] = Link
  BY DEF IInv, Whole, Retry
<1>10. NoScratchLeft'
  BY <1>3, <1>4 DEF IInv, NoScratchLeft, Retry
<1>. QED  BY <1>7, <1>8, <1>9, <1>10 DEF IInv

\* A call ends without a save: at most its own scratch file goes, and what it leaves
\* behind is a stray.
LEMMA EndsIInv ==
    ASSUME IInv, NEW w \in Writers, NEW a \in {"none", "ok", "error"}, Ends(w, a),
           meddled' \in SUBSET Writers,
           files' = files, disk' = disk,
           failures' \in 0..MaxFailures, outside' \in 0..MaxOutside,
           strays \subseteq strays', strays' \subseteq Scratch,
           \/ /\ scratch' = scratch
              /\ op[w].name # Absent => op[w].name \in strays'
           \/ /\ scratch' = [scratch EXCEPT ![op[w].name] = Absent]
              /\ step[w] \in {"write", "sync", "chmod", "rename"}
    PROVE  IInv'
<1>1. scratch' \in [Scratch -> File \union {Absent}]
      /\ \A y \in Scratch : y # op[w].name => scratch'[y] = scratch[y]
  BY DEF IInv, SaveTypeOK, Known
<1>2. SaveTypeOK'
  BY <1>1, EndsType DEF IInv, SaveTypeOK
<1>3. ASSUME NEW v \in Writers PROVE Known(v)'
  <2>1. CASE v = w
    BY <2>1, EndsType DEF Known
  <2>2. CASE v # w
    <3>1. step'[v] = step[v] /\ op'[v] = op[v]
      BY <2>2, EndsType
    <3>2. CASE scratch' = scratch
      BY <3>1, <3>2 DEF IInv, Known
    <3>3. CASE step[w] \in {"write", "sync", "chmod", "rename"}
      <4>1. step[v] \in {"write", "sync", "chmod", "rename"} =>
               op[v].name \in Scratch /\ op[v].name # op[w].name
        BY <2>2, <3>3, Apart DEF IInv, Known
      <4>. QED  BY <1>1, <3>1, <4>1 DEF IInv, Known
    <3>. QED  BY <3>2, <3>3
  <2>. QED  BY <2>1, <2>2
<1>4. Whole' /\ \A l \in Links : files'[l] = Link
  BY DEF IInv, Whole
<1>5. NoScratchLeft'
  <2> SUFFICES ASSUME NEW x \in Scratch, scratch'[x] # Absent
               PROVE  x \in strays' \/ \E v \in Writers : op'[v].name = x
    BY DEF NoScratchLeft
  <2>1. CASE x = op[w].name
    BY <2>1, MarksApart DEF IInv, SaveTypeOK
  <2>2. CASE x # op[w].name
    <3>1. x \in strays \/ \E v \in Writers : op[v].name = x
      BY <1>1, <2>2 DEF IInv, NoScratchLeft
    <3>2. CASE x \in strays
      BY <3>2
    <3>3. CASE \E v \in Writers : op[v].name = x
      <4>1. PICK v \in Writers : op[v].name = x
        BY <3>3
      <4>2. op'[v] = op[v]
        BY <2>2, <4>1, EndsType
      <4>. QED  BY <4>1, <4>2
    <3>. QED  BY <3>1, <3>2, <3>3
  <2>. QED  BY <2>1, <2>2
<1>. QED  BY <1>2, <1>3, <1>4, <1>5 DEF IInv

LEMMA FaultType == ASSUME IInv, Fails PROVE failures' \in 0..MaxFailures
BY SaveConstantsOK DEF Fails, IInv, SaveTypeOK

LEMMA OutsideType == ASSUME IInv, Outside PROVE outside' \in 0..MaxOutside
BY SaveConstantsOK DEF Outside, IInv, SaveTypeOK

LEMMA RefusedIInv == ASSUME IInv, NEW w \in Writers, Refused(w) PROVE IInv'
<1>1. Ends(w, "error") /\ meddled' \in SUBSET Writers
      /\ files' = files /\ disk' = disk /\ scratch' = scratch
      /\ strays' = strays /\ outside' = outside
  BY DEF Refused, Returns, IInv, SaveTypeOK
<1>2. failures' \in 0..MaxFailures
  BY FaultType DEF Refused, IInv, SaveTypeOK
<1>3. op[w].name = Absent
  BY DEF Refused, IInv, Known
<1>. QED  BY <1>1, <1>2, <1>3, EndsIInv DEF IInv, SaveTypeOK

LEMMA FailureIInv == ASSUME IInv, NEW w \in Writers, Failure(w) PROVE IInv'
<1>1. Ends(w, "error") /\ meddled' \in SUBSET Writers
      /\ files' = files /\ disk' = disk /\ outside' = outside
      /\ step[w] \in {"write", "sync", "chmod", "rename"}
  BY DEF Failure, GivesUp, Returns, IInv, SaveTypeOK
<1>2. failures' \in 0..MaxFailures
  BY FaultType DEF Failure
<1>3. op[w].name \in Scratch
  BY <1>1 DEF IInv, Known
<1>4. \/ scratch' = [scratch EXCEPT ![op[w].name] = Absent] /\ strays' = strays
      \/ strays' = strays \union {op[w].name} /\ scratch' = scratch
  BY DEF Failure, GivesUp
<1>5. strays \subseteq strays' /\ strays' \subseteq Scratch /\ outside' \in 0..MaxOutside
  BY <1>1, <1>3, <1>4 DEF IInv, SaveTypeOK
<1>6. CASE scratch' = scratch /\ op[w].name \in strays'
  BY <1>1, <1>2, <1>5, <1>6, EndsIInv
<1>7. CASE scratch' = [scratch EXCEPT ![op[w].name] = Absent]
  BY <1>1, <1>2, <1>5, <1>7, EndsIInv
<1>. QED  BY <1>4, <1>6, <1>7

LEMMA StopIInv == ASSUME IInv, NEW w \in Writers, Stop(w) PROVE IInv'
<1>1. Ends(w, "none") /\ meddled' \in SUBSET Writers
      /\ files' = files /\ disk' = disk /\ scratch' = scratch
      /\ failures' = failures
      /\ strays' = IF op[w].name = Absent THEN strays ELSE strays \union {op[w].name}
  BY DEF Stop, Returns, IInv, SaveTypeOK
<1>2. outside' \in 0..MaxOutside
  BY OutsideType DEF Stop
<1>3. op[w].name \in Scratch \union {Absent}
  BY DEF IInv, SaveTypeOK, Ops
<1>4. strays \subseteq strays' /\ strays' \subseteq Scratch /\ failures' \in 0..MaxFailures
  BY <1>1, <1>3 DEF IInv, SaveTypeOK
<1>5. op[w].name # Absent => op[w].name \in strays'
  BY <1>1
<1>. QED  BY <1>1, <1>2, <1>4, <1>5, EndsIInv

-----------------------------------------------------------------------------
\* What happens around a save

\* A step that changes only what is at a note, here or on the disk.
LEMMA AroundIInv ==
    ASSUME IInv, UNCHANGED <<scratch, op, step, returned, strays, failures>>,
           meddled' \in SUBSET Writers,
           outside' \in 0..MaxOutside,
           files' \in [Entries -> File \union {Link, Absent}],
           \A l \in Links : files'[l] = Link,
           disk' \in [Targets -> File \union {Absent}],
           \A t \in Targets : files'[t] \in File \union {Absent},
           Whole'
    PROVE  IInv'
<1>1. SaveTypeOK'
  BY MarksApart DEF IInv, SaveTypeOK
<1>2. \A w \in Writers : Known(w)'
  BY DEF IInv, Known
<1>3. NoScratchLeft'
  BY DEF IInv, NoScratchLeft
<1>. QED  BY <1>1, <1>2, <1>3 DEF IInv

LEMMA NoteType == ASSUME IInv, NEW t \in Targets PROVE files[t] \in File \union {Absent}
BY DEF IInv, SaveTypeOK, Entries

LEMMA SetModeIInv == ASSUME IInv, NEW t \in Targets, SetMode(t) PROVE IInv'
<1>1. PICK m \in Modes : files' = [files EXCEPT ![t].mode = m]
  BY DEF SetMode
<1>2. files[t] \in File
  BY NoteType DEF SetMode
<1>3. files'[t] = [files[t] EXCEPT !.mode = m] /\ \A p \in Entries : p # t => files'[p] = files[p]
  BY <1>1 DEF IInv, SaveTypeOK, Entries
<1>4. files'[t] \in File /\ files'[t].data = files[t].data /\ files'[t].flushed = files[t].flushed
  BY <1>2, <1>3 DEF File
<1>5. files' \in [Entries -> File \union {Link, Absent}]
  BY <1>1, <1>4 DEF IInv, SaveTypeOK, Entries
<1>6. \A l \in Links : files'[l] = Link
  BY <1>3, SaveConstantsOK DEF IInv, Entries
<1>7. \A u \in Targets : files'[u] \in File \union {Absent}
  BY <1>3, <1>4, NoteType DEF Entries
<1>8. UNCHANGED <<scratch, op, step, returned, strays, failures>> /\ disk' = disk
      /\ outside' \in 0..MaxOutside /\ meddled' \in SUBSET Writers
  BY OutsideType DEF SetMode, HaveSeen, IInv, SaveTypeOK
<1>9. disk' \in [Targets -> File \union {Absent}]
  BY <1>8 DEF IInv, SaveTypeOK
<1>10. Whole'
  <2>1. files[t] # Absent
    BY DEF SetMode
  <2>. QED  BY <1>3, <1>4, <1>8, <2>1 DEF IInv, Whole, Entries
<1>. QED  BY <1>5, <1>6, <1>7, <1>8, <1>9, <1>10, AroundIInv

LEMMA DeleteIInv == ASSUME IInv, NEW t \in Targets, Delete(t) PROVE IInv'
<1>1. files' = [files EXCEPT ![t] = Absent]
  BY DEF Delete
<1>2. files'[t] = Absent /\ \A p \in Entries : p # t => files'[p] = files[p]
  BY <1>1 DEF IInv, SaveTypeOK, Entries
<1>3. files' \in [Entries -> File \union {Link, Absent}]
  BY <1>1 DEF IInv, SaveTypeOK, Entries
<1>4. \A l \in Links : files'[l] = Link
  BY <1>2, SaveConstantsOK DEF IInv, Entries
<1>5. \A u \in Targets : files'[u] \in File \union {Absent}
  BY <1>2, NoteType DEF Entries
<1>6. UNCHANGED <<scratch, op, step, returned, strays, failures>> /\ disk' = disk
      /\ outside' \in 0..MaxOutside /\ meddled' \in SUBSET Writers
  BY OutsideType DEF Delete, HaveSeen, IInv, SaveTypeOK
<1>7. disk' \in [Targets -> File \union {Absent}]
  BY <1>6 DEF IInv, SaveTypeOK
<1>8. Whole'
  BY <1>2, <1>6 DEF IInv, Whole, Entries
<1>. QED  BY <1>3, <1>4, <1>5, <1>6, <1>7, <1>8, AroundIInv

LEMMA FlushIInv == ASSUME IInv, NEW t \in Targets, Flush(t) PROVE IInv'
<1>1. disk' = [disk EXCEPT ![t] = files[t]]
  BY DEF Flush
<1>2. UNCHANGED <<scratch, op, step, returned, strays, failures>> /\ files' = files
      /\ outside' \in 0..MaxOutside /\ meddled' \in SUBSET Writers
  BY DEF Flush, IInv, SaveTypeOK
<1>3. disk' \in [Targets -> File \union {Absent}]
  BY <1>1, NoteType DEF IInv, SaveTypeOK
<1>4. files' \in [Entries -> File \union {Link, Absent}] /\ \A l \in Links : files'[l] = Link
  BY <1>2 DEF IInv, SaveTypeOK
<1>5. \A u \in Targets : files'[u] \in File \union {Absent}
  BY <1>2, NoteType
<1>6. Whole'
  BY <1>1, <1>2 DEF IInv, SaveTypeOK, Whole
<1>. QED  BY <1>2, <1>3, <1>4, <1>5, <1>6, AroundIInv

\* A power loss takes nothing from a file that was flushed.
LEMMA RestWhole ==
    ASSUME IInv, NEW t \in Targets
    PROVE  Remains(disk[t]) = disk[t]
BY MarksApart DEF Remains, IInv, Whole, SaveTypeOK

LEMMA PowerLossIInv == ASSUME IInv, PowerLoss PROVE IInv'
<1>1. disk' = disk
  BY RestWhole DEF PowerLoss, IInv, SaveTypeOK
<1>2. \A t \in Targets : files'[t] = disk[t]
  BY <1>1, SaveConstantsOK DEF PowerLoss, Entries
<1>3. \A l \in Links : files'[l] = Link
  BY SaveConstantsOK DEF PowerLoss, Entries, IInv
<1>4. \A t \in Targets : files'[t] \in File \union {Absent}
  BY <1>2 DEF IInv, SaveTypeOK
<1>5. files' \in [Entries -> File \union {Link, Absent}]
  <2>1. files' = [p \in Entries |-> files'[p]]
    BY DEF PowerLoss
  <2>2. \A p \in Entries : files'[p] \in File \union {Link, Absent}
    BY <1>3, <1>4 DEF Entries
  <2>. QED  BY <2>1, <2>2
<1>6. scratch' \in [Scratch -> File \union {Absent}]
  <2>1. ASSUME NEW x \in Scratch PROVE Remains(scratch[x]) \in File \union {Absent}
    <3>1. scratch[x] \in File \union {Absent}
      BY DEF IInv, SaveTypeOK
    <3>2. scratch[x] \in File =>
             [data |-> Torn, mode |-> scratch[x].mode, flushed |-> TRUE] \in File
      BY DEF File
    <3>. QED  BY <3>1, <3>2, MarksApart DEF Remains
  <2>. QED  BY <2>1 DEF PowerLoss
<1>7. NoOp \in Ops
  BY SaveConstantsOK DEF NoOp, Ops
<1>8. op' \in [Writers -> Ops] /\ step' \in [Writers -> Pcs]
      /\ returned' \in [Writers -> {"none", "ok", "error"}] /\ strays' \in SUBSET Scratch
      /\ meddled' \in SUBSET Writers
  BY <1>7 DEF PowerLoss, Pcs
<1>9. failures' \in 0..MaxFailures /\ outside' \in 0..MaxOutside
  BY OutsideType DEF PowerLoss, IInv, SaveTypeOK
<1>10. disk' \in [Targets -> File \union {Absent}] /\ \A t \in Targets : files'[t] # Link
  BY <1>1, <1>4, MarksApart DEF IInv, SaveTypeOK
<1>11. SaveTypeOK'
  BY <1>5, <1>6, <1>8, <1>9, <1>10 DEF SaveTypeOK
<1>12. \A w \in Writers : Known(w)'
  BY DEF PowerLoss, Known
<1>13. Whole'
  BY <1>1, <1>2 DEF IInv, Whole
<1>14. NoScratchLeft'
  <2>1. \A x \in Scratch : scratch'[x] = Remains(scratch[x])
    BY DEF PowerLoss
  <2>2. \A x \in Scratch : scratch'[x] # Absent => scratch[x] # Absent
    BY <2>1 DEF Remains
  <2>. QED  BY <2>2 DEF PowerLoss, NoScratchLeft
<1>. QED  BY <1>3, <1>11, <1>12, <1>13, <1>14 DEF IInv

-----------------------------------------------------------------------------
\* The theorems

LEMMA StepIInv == IInv /\ [SaveNext]_saveVars => IInv'
<1> SUFFICES ASSUME IInv, [SaveNext]_saveVars PROVE IInv'
  OBVIOUS
<1>1. ASSUME NEW w \in Writers,
             \/ Call(w) \/ Look(w) \/ Open(w) \/ Refused(w) \/ Write(w) \/ Sync(w)
             \/ Chmod(w) \/ Rename(w) \/ Retry(w) \/ Failure(w) \/ Stop(w)
      PROVE  IInv'
  BY <1>1, CallIInv, LookIInv, OpenIInv, RefusedIInv, WriteIInv, SyncIInv, ChmodIInv,
     RenameIInv, RetryIInv, FailureIInv, StopIInv
<1>2. ASSUME NEW t \in Targets, SetMode(t) \/ Delete(t) \/ Flush(t)
      PROVE  IInv'
  BY <1>2, SetModeIInv, DeleteIInv, FlushIInv
<1>3. CASE PowerLoss
  BY <1>3, PowerLossIInv
<1>4. CASE UNCHANGED saveVars
  BY <1>4 DEF saveVars, IInv, SaveTypeOK, Known, Whole, NoScratchLeft
<1>. QED  BY <1>1, <1>2, <1>3, <1>4 DEF SaveNext

LEMMA Invariant == SaveSpec => []IInv
<1>. QED  BY InitIInv, StepIInv, PTL DEF SaveSpec

\* Every variable keeps its type, and no rename is tried more often than renameWithRetry
\* allows.
THEOREM TypeCorrect == SaveSpec => []SaveTypeOK
<1>1. IInv => SaveTypeOK
  BY DEF IInv
<1>. QED  BY <1>1, Invariant, PTL

\* A note never holds a part of a body, however many processes save it, wherever they
\* stop and whenever the power fails.
THEOREM NotesWhole == SaveSpec => []NeverTorn
<1>1. IInv => NeverTorn
  BY DEF IInv, Whole, NeverTorn
<1>. QED  BY <1>1, Invariant, PTL

\* Every return of writeFileAtomic removes its scratch file or fails to.
THEOREM ScratchRemoved == SaveSpec => []NoScratchLeft
<1>1. IInv => NoScratchLeft
  BY DEF IInv
<1>. QED  BY <1>1, Invariant, PTL

-----------------------------------------------------------------------------
\* The promise

LEMMA InitMaps == SaveInit => Promise!Init
<1> SUFFICES ASSUME SaveInit PROVE Promise!Init
  OBVIOUS
<1>1. \A t \in Targets : files[t] # Absent => files[t].data \in Data
  <2> SUFFICES ASSUME NEW t \in Targets, files[t] # Absent PROVE files[t].data \in Data
    OBVIOUS
  <2>1. PICK d \in [Targets -> Data \union {Absent}], m \in [Targets -> Modes] :
           files[t] = IF d[t] = Absent THEN Absent
                      ELSE [data |-> d[t], mode |-> m[t], flushed |-> TRUE]
    BY SaveConstantsOK DEF SaveInit, Entries
  <2>2. d[t] # Absent /\ files[t] = [data |-> d[t], mode |-> m[t], flushed |-> TRUE]
    BY <2>1
  <2>. QED  BY <2>2
<1>2. bodies \in [Targets -> Data \union {Absent}]
  BY <1>1 DEF bodies, Body
<1>3. kept = bodies
  BY DEF SaveInit, kept, bodies
<1>4. saves = [w \in Writers |-> Absent]
  BY DEF SaveInit, saves
<1>. QED  BY <1>2, <1>3, <1>4 DEF SaveInit, Promise!Init

\* What a step that changes no note, and no call's target or body, leaves alone.
LEMMA Unseen ==
    ASSUME files' = files, disk' = disk
    PROVE  bodies' = bodies /\ kept' = kept
BY DEF bodies, kept, Body

\* What a call that ends shows.
LEMMA ReturnMaps ==
    ASSUME IInv, NEW w \in Writers, NEW a \in {"none", "ok", "error"}, Ends(w, a),
           step[w] # "idle"
    PROVE  Promise!Return(w, a)
<1>1. saves[w] = <<op[w].target, op[w].data>> /\ saves[w] # Absent
  BY MarksApart DEF saves, IInv, Known
<1>2. saves' = [saves EXCEPT ![w] = Absent]
  BY EndsType DEF saves
<1>3. returned' = [returned EXCEPT ![w] = a]
  BY DEF Ends
<1>. QED  BY <1>1, <1>2, <1>3 DEF Promise!Return

\* A step in the middle of a save is a stutter.
LEMMA InsideMaps ==
    ASSUME IInv, NEW w \in Writers,
           Look(w) \/ Open(w) \/ Write(w) \/ Sync(w) \/ Chmod(w) \/ Retry(w)
    PROVE  UNCHANGED Promise!abstract
<1>1. files' = files /\ disk' = disk /\ returned' = returned
  BY DEF Look, Open, Write, Sync, Chmod, Retry
<1>2. step[w] # "idle" /\ step'[w] # "idle" /\ \A v \in Writers \ {w} : step'[v] = step[v]
  BY DEF Look, Open, Write, Sync, Chmod, Retry, Goes, IInv, SaveTypeOK
<1>3. \A v \in Writers : op'[v].target = op[v].target /\ op'[v].data = op[v].data
  <2>1. op \in [Writers -> Ops]
    BY DEF IInv, SaveTypeOK
  <2>2. CASE Look(w)
    <3>1. PICK m, r : op' = [op EXCEPT ![w].mode = m, ![w].replacing = r]
      BY <2>2 DEF Look
    <3>. QED  BY <2>1, <3>1 DEF Ops
  <2>3. CASE Open(w)
    <3>1. PICK x : op' = [op EXCEPT ![w].name = x]
      BY <2>3 DEF Open
    <3>. QED  BY <2>1, <3>1 DEF Ops
  <2>4. CASE Retry(w)
    <3>1. PICK n : op' = [op EXCEPT ![w].tries = n]
      BY <2>4 DEF Retry
    <3>. QED  BY <2>1, <3>1 DEF Ops
  <2>5. CASE Write(w) \/ Sync(w) \/ Chmod(w)
    BY <2>5 DEF Write, Sync, Chmod
  <2>. QED  BY <2>2, <2>3, <2>4, <2>5
<1>4. saves' = saves
  BY <1>2, <1>3 DEF saves
<1>. QED  BY <1>1, <1>4, Unseen DEF Promise!abstract

LEMMA CallMaps == ASSUME IInv, NEW w \in Writers, Call(w) PROVE Promise!Call(w)
<1>1. PICK p \in Entries, d \in Data :
         op' = [op EXCEPT ![w] = [NoOp EXCEPT !.target = resolveLinkTarget(p), !.data = d]]
  BY DEF Call
<1>2. resolveLinkTarget(p) \in Targets
  BY SaveConstantsOK DEF resolveLinkTarget, IInv, SaveTypeOK, Entries
<1>3. op'[w].target = resolveLinkTarget(p) /\ op'[w].data = d
  BY <1>1 DEF IInv, SaveTypeOK, NoOp
<1>4. step'[w] = "look" /\ step[w] = "idle"
      /\ \A v \in Writers \ {w} : step'[v] = step[v] /\ op'[v] = op[v]
  BY <1>1 DEF Call, Goes, IInv, SaveTypeOK
<1>5. saves[w] = Absent /\ saves' = [saves EXCEPT ![w] = <<resolveLinkTarget(p), d>>]
  BY <1>3, <1>4 DEF saves
<1>6. returned' = [returned EXCEPT ![w] = "none"] /\ files' = files /\ disk' = disk
  BY DEF Call
<1>. QED  BY <1>2, <1>5, <1>6, Unseen DEF Promise!Call

LEMMA RenameMaps == ASSUME IInv, NEW w \in Writers, Rename(w) PROVE Promise!Save(w)
<1> DEFINE x == op[w].name
<1>1. /\ x \in Scratch /\ scratch[x] \in File /\ op[w].target \in Targets
      /\ scratch[x].data = op[w].data /\ step[w] = "rename"
  BY DEF IInv, Known, Rename
<1>2. saves[w] = <<op[w].target, op[w].data>>
  BY <1>1 DEF saves
<1>3. Promise!Return(w, "ok")
  BY <1>1, ReturnMaps DEF Rename
<1>4. files'[op[w].target] = scratch[x] /\ scratch[x] # Absent
      /\ \A p \in Targets : p # op[w].target => files'[p] = files[p]
  BY <1>1, MarksApart DEF IInv, SaveTypeOK, Rename, Entries
<1>5. bodies' = [bodies EXCEPT ![saves[w][1]] = saves[w][2]]
  <2>1. bodies' = [t \in Targets |-> IF t = op[w].target THEN op[w].data ELSE bodies[t]]
    BY <1>1, <1>4 DEF bodies, Body
  <2>2. bodies' = [bodies EXCEPT ![op[w].target] = op[w].data]
    BY <2>1 DEF bodies
  <2>3. saves[w][1] = op[w].target /\ saves[w][2] = op[w].data
    BY <1>2
  <2>. QED  BY <2>2, <2>3
<1>6. kept' = kept
  BY DEF Rename, kept, Body
<1>. QED  BY <1>3, <1>5, <1>6 DEF Promise!Save

LEMMA EndsMap ==
    ASSUME IInv, NEW w \in Writers, Refused(w) \/ Failure(w) \/ Stop(w)
    PROVE  Promise!Fail(w) \/ Promise!Stop(w)
<1>1. files' = files /\ disk' = disk /\ step[w] # "idle"
  BY DEF Refused, Failure, GivesUp, Stop
<1>2. CASE Refused(w) \/ Failure(w)
  <2>1. Ends(w, "error")
    BY <1>2 DEF Refused, Failure, GivesUp, Returns
  <2>. QED  BY <1>1, <2>1, ReturnMaps, Unseen DEF Promise!Fail
<1>3. CASE Stop(w)
  <2>1. Ends(w, "none")
    BY <1>3 DEF Stop, Returns
  <2>. QED  BY <1>1, <2>1, ReturnMaps, Unseen DEF Promise!Stop
<1>. QED  BY <1>2, <1>3

LEMMA AroundMaps ==
    ASSUME IInv, NEW t \in Targets, SetMode(t) \/ Delete(t) \/ Flush(t)
    PROVE  Promise!Remove(t) \/ Promise!Flush(t) \/ UNCHANGED Promise!abstract
<1>1. saves' = saves /\ returned' = returned
  BY DEF SetMode, Delete, Flush, saves
<1>2. CASE SetMode(t)
  <2>1. PICK m \in Modes : files' = [files EXCEPT ![t].mode = m]
    BY <1>2 DEF SetMode
  <2>2. files[t] \in File
    BY <1>2, NoteType DEF SetMode
  <2>3. files'[t] = [files[t] EXCEPT !.mode = m]
        /\ \A u \in Targets : u # t => files'[u] = files[u]
    BY <2>1 DEF IInv, SaveTypeOK, Entries
  <2>4. files'[t] \in File /\ files'[t].data = files[t].data
    BY <2>1, <2>2, <2>3 DEF File
  <2>5. \A u \in Targets : Body(files'[u]) = Body(files[u])
    BY <2>2, <2>3, <2>4, MarksApart DEF Body
  <2>6. bodies' = bodies
    BY <2>5 DEF bodies, Body
  <2>7. kept' = kept
    BY <1>2 DEF SetMode, kept, Body
  <2>. QED  BY <1>1, <2>6, <2>7 DEF Promise!abstract
<1>3. CASE Delete(t)
  <2>1. bodies' = [bodies EXCEPT ![t] = Absent]
    BY <1>3 DEF Delete, bodies, Body, IInv, SaveTypeOK, Entries
  <2>2. kept' = kept
    BY <1>3 DEF Delete, kept, Body
  <2>. QED  BY <1>1, <2>1, <2>2 DEF Promise!Remove
<1>4. CASE Flush(t)
  <2>1. kept' = [kept EXCEPT ![t] = bodies[t]]
    BY <1>4 DEF Flush, kept, bodies, Body, IInv, SaveTypeOK
  <2>2. bodies' = bodies
    BY <1>4 DEF Flush, bodies, Body
  <2>. QED  BY <1>1, <2>1, <2>2 DEF Promise!Flush
<1>. QED  BY <1>2, <1>3, <1>4

LEMMA PowerLossMaps == ASSUME IInv, PowerLoss PROVE Promise!PowerLoss
<1>1. disk' = disk
  BY RestWhole DEF PowerLoss, IInv, SaveTypeOK
<1>2. \A t \in Targets : files'[t] = disk[t]
  BY <1>1, SaveConstantsOK DEF PowerLoss, Entries
<1>3. bodies' = kept
  BY <1>2 DEF bodies, kept, Body
<1>4. kept' = kept
  BY <1>1 DEF kept, Body
<1>5. saves' = [w \in Writers |-> Absent]
  BY DEF saves, PowerLoss
<1>6. returned' = [w \in Writers |-> "none"]
  BY DEF PowerLoss
<1>. QED  BY <1>3, <1>4, <1>5, <1>6 DEF Promise!PowerLoss

LEMMA StepMaps == IInv /\ [SaveNext]_saveVars => [Promise!Next]_(Promise!abstract)
<1> SUFFICES ASSUME IInv, [SaveNext]_saveVars PROVE [Promise!Next]_(Promise!abstract)
  OBVIOUS
<1>1. ASSUME NEW w \in Writers,
             \/ Call(w) \/ Look(w) \/ Open(w) \/ Refused(w) \/ Write(w) \/ Sync(w)
             \/ Chmod(w) \/ Rename(w) \/ Retry(w) \/ Failure(w) \/ Stop(w)
      PROVE  [Promise!Next]_(Promise!abstract)
  <2>1. Call(w) => Promise!Next
    BY CallMaps DEF Promise!Next
  <2>2. Rename(w) => Promise!Next
    BY RenameMaps DEF Promise!Next
  <2>3. Refused(w) \/ Failure(w) \/ Stop(w) => Promise!Next
    BY EndsMap DEF Promise!Next
  <2>. QED  BY <1>1, <2>1, <2>2, <2>3, InsideMaps
<1>2. ASSUME NEW t \in Targets, SetMode(t) \/ Delete(t) \/ Flush(t)
      PROVE  [Promise!Next]_(Promise!abstract)
  BY <1>2, AroundMaps DEF Promise!Next
<1>3. CASE PowerLoss
  BY <1>3, PowerLossMaps DEF Promise!Next
<1>4. CASE UNCHANGED saveVars
  BY <1>4 DEF saveVars, Promise!abstract, bodies, kept, saves, Body
<1>. QED  BY <1>1, <1>2, <1>3, <1>4 DEF SaveNext

\* Each save is one atomic step between its call and its answer, or it has no effect:
\* AtomicFile is all that a caller of writeFileAtomic has to know.
THEOREM Refinement == SaveSpec => KeepsPromise
<1>. QED  BY InitMaps, StepMaps, Invariant, PTL DEF SaveSpec, KeepsPromise, Promise!Spec

-----------------------------------------------------------------------------
\* The permissions, of the notes that nobody changes in the middle of a save

\* What a call has seen of its note, unless somebody changed that, is what the note still
\* is, or would be if another call made it: the permissions of a file, or those of a new one under the umask.
Foreseen(w) ==
    step[w] \notin {"idle", "look"} /\ w \notin meddled =>
        IF op[w].replacing
        THEN files[op[w].target] # Absent /\ op[w].mode = files[op[w].target].mode
        ELSE /\ op[w].mode = NewMode
             /\ files[op[w].target] # Absent => files[op[w].target].mode = Masked[NewMode]

\* The scratch file has the permissions the umask leaves, until they are set.
Given(w) ==
    /\ step[w] \in {"write", "sync", "chmod"} =>
          scratch[op[w].name].mode = Masked[op[w].mode]
    /\ step[w] = "rename" =>
          scratch[op[w].name].mode = IF op[w].replacing THEN op[w].mode ELSE Masked[op[w].mode]

Modest == \A w \in Writers : Foreseen(w) /\ Given(w)

\* A call that a step leaves alone knows what it knew.
LEMMA LeftAlone ==
    ASSUME NEW v \in Writers, Foreseen(v), Given(v), op'[v] = op[v], step'[v] = step[v],
           v \in meddled => v \in meddled',
           step[v] # "idle" => files'[op[v].target] = files[op[v].target],
           step[v] \in {"write", "sync", "chmod", "rename"} =>
               scratch'[op[v].name] = scratch[op[v].name]
    PROVE  Foreseen(v)' /\ Given(v)'
<1>1. Foreseen(v)'
  BY DEF Foreseen
<1>2. Given(v)'
  BY DEF Given
<1>. QED  BY <1>1, <1>2

\* So does every other call, when one changes at most its own scratch file.
LEMMA OthersModest ==
    ASSUME IInv, Modest, NEW w \in Writers, files' = files,
           \A v \in Writers \ {w} : op'[v] = op[v] /\ step'[v] = step[v],
           \A v \in Writers \ {w} : v \in meddled => v \in meddled',
           \A y \in Scratch : y[2] # w => scratch'[y] = scratch[y]
    PROVE  \A v \in Writers \ {w} : Foreseen(v)' /\ Given(v)'
<1> SUFFICES ASSUME NEW v \in Writers \ {w} PROVE Foreseen(v)' /\ Given(v)'
  OBVIOUS
<1>1. step[v] \in {"write", "sync", "chmod", "rename"} =>
         op[v].name \in Scratch /\ op[v].name[2] # w
  BY DEF IInv, Known
<1>. QED  BY <1>1, LeftAlone DEF Modest

LEMMA CallModest == ASSUME IInv, Modest, NEW w \in Writers, Call(w) PROVE Modest'
<1>1. files' = files /\ meddled' = meddled /\ scratch' = scratch /\ step'[w] = "look"
      /\ \A v \in Writers \ {w} : op'[v] = op[v] /\ step'[v] = step[v]
  BY DEF Call, Goes, IInv, SaveTypeOK
<1>2. Foreseen(w)' /\ Given(w)'
  BY <1>1 DEF Foreseen, Given
<1>. QED  BY <1>1, <1>2, OthersModest DEF Modest

LEMMA LookModest == ASSUME IInv, Modest, NEW w \in Writers, Look(w) PROVE Modest'
<1>1. files' = files /\ meddled' = meddled /\ scratch' = scratch /\ step'[w] = "open" /\ op[w] \in Ops
      /\ \A v \in Writers \ {w} : op'[v] = op[v] /\ step'[v] = step[v]
  BY DEF Look, Goes, IInv, SaveTypeOK
<1>2. op'[w] = [op[w] EXCEPT !.mode = IF files[op[w].target] = Absent THEN NewMode
                                     ELSE files[op[w].target].mode,
                             !.replacing = files[op[w].target] # Absent]
  BY DEF Look, IInv, SaveTypeOK
<1>3. /\ op'[w].target = op[w].target
      /\ op'[w].replacing = (files[op[w].target] # Absent)
      /\ op'[w].mode = IF files[op[w].target] = Absent THEN NewMode
                       ELSE files[op[w].target].mode
  BY <1>1, <1>2 DEF Ops
<1>4. Foreseen(w)' /\ Given(w)'
  BY <1>1, <1>3 DEF Foreseen, Given
<1>. QED  BY <1>1, <1>4, OthersModest DEF Modest

LEMMA OpenModest == ASSUME IInv, Modest, NEW w \in Writers, Open(w) PROVE Modest'
<1>1. files' = files /\ meddled' = meddled /\ step[w] = "open" /\ step'[w] = "write"
      /\ op[w].target \in Targets /\ op[w] \in Ops
      /\ \A v \in Writers \ {w} : step'[v] = step[v]
  BY DEF Open, Goes, IInv, SaveTypeOK, Known
<1>2. PICK s \in Stamps :
         /\ scratch' = [scratch EXCEPT ![<<op[w].target, w, s>>] =
                [data |-> Torn, mode |-> Masked[op[w].mode], flushed |-> FALSE]]
         /\ op' = [op EXCEPT ![w].name = <<op[w].target, w, s>>]
  BY DEF Open
<1>3. PICK x \in Scratch : x = <<op[w].target, w, s>>
  <2>1. <<op[w].target, w, s>> \in Scratch
    BY <1>1 DEF Scratch
  <2>. QED  BY <2>1
<1>. x[2] = w
  BY <1>3
<1>4. op'[w] = [op[w] EXCEPT !.name = x] /\ \A v \in Writers \ {w} : op'[v] = op[v]
  BY <1>2, <1>3 DEF IInv, SaveTypeOK
<1>5. op'[w].target = op[w].target /\ op'[w].mode = op[w].mode
      /\ op'[w].replacing = op[w].replacing /\ op'[w].name = x
  BY <1>1, <1>4 DEF Ops
<1>6. scratch'[x].mode = Masked[op[w].mode]
      /\ \A y \in Scratch : y[2] # w => scratch'[y] = scratch[y]
  BY <1>2, <1>3 DEF IInv, SaveTypeOK
<1>7. Foreseen(w)'
  BY <1>1, <1>5 DEF Foreseen, Modest
<1>8. Given(w)'
  BY <1>1, <1>5, <1>6 DEF Given
<1>. QED  BY <1>1, <1>4, <1>6, <1>7, <1>8, OthersModest DEF Modest

\* A step within the scratch file.
LEMMA FillsModest ==
    ASSUME IInv, Modest, NEW w \in Writers, NEW f \in File, NEW next \in {"sync", "chmod", "rename"},
           step[w] \in {"write", "sync", "chmod"}, Fills(w, f, next),
           f.mode = IF next = "rename" /\ op[w].replacing THEN op[w].mode
                    ELSE Masked[op[w].mode]
    PROVE  Modest'
<1>1. op[w].name \in Scratch /\ op[w].name[2] = w
  BY DEF IInv, Known
<1>2. files' = files /\ op' = op /\ meddled' = meddled /\ step'[w] = next
      /\ \A v \in Writers \ {w} : step'[v] = step[v]
  BY DEF Fills, Goes, IInv, SaveTypeOK
<1>3. scratch'[op[w].name] = f /\ \A y \in Scratch : y[2] # w => scratch'[y] = scratch[y]
  BY <1>1 DEF Fills, IInv, SaveTypeOK
<1>4. Foreseen(w)'
  BY <1>2 DEF Foreseen, Modest
<1>5. Given(w)'
  BY <1>2, <1>3 DEF Given
<1>. QED  BY <1>2, <1>3, <1>4, <1>5, OthersModest DEF Modest

LEMMA WriteModest == ASSUME IInv, Modest, NEW w \in Writers, Write(w) PROVE Modest'
<1>1. scratch[op[w].name] \in File /\ op[w].name \in Scratch /\ op[w].data \in Data
      /\ step[w] = "write" /\ scratch[op[w].name].mode = Masked[op[w].mode]
  BY DEF IInv, Known, Write, Modest, Given
<1> DEFINE f == [scratch[op[w].name] EXCEPT !.data = op[w].data]
<1>2. f \in File /\ f.mode = Masked[op[w].mode]
  BY <1>1 DEF File
<1>3. Fills(w, f, "sync")
  BY <1>1 DEF Write, Fills, IInv, SaveTypeOK
<1>. QED  BY <1>1, <1>2, <1>3, FillsModest

LEMMA SyncModest == ASSUME IInv, Modest, NEW w \in Writers, Sync(w) PROVE Modest'
<1>1. scratch[op[w].name] \in File /\ op[w].name \in Scratch /\ step[w] = "sync"
      /\ scratch[op[w].name].mode = Masked[op[w].mode]
  BY DEF IInv, Known, Sync, Modest, Given
<1> DEFINE f == [scratch[op[w].name] EXCEPT !.flushed = TRUE]
<1>2. f \in File /\ f.mode = Masked[op[w].mode]
  BY <1>1 DEF File
<1>3. Fills(w, f, "chmod")
  BY <1>1 DEF Sync, Fills, IInv, SaveTypeOK
<1>. QED  BY <1>1, <1>2, <1>3, FillsModest

LEMMA ChmodModest == ASSUME IInv, Modest, NEW w \in Writers, Chmod(w) PROVE Modest'
<1>1. scratch[op[w].name] \in File /\ op[w].name \in Scratch /\ op[w].mode \in Modes
      /\ step[w] = "chmod" /\ scratch[op[w].name].mode = Masked[op[w].mode]
  BY DEF IInv, Known, Chmod, Modest, Given
<1>2. CASE op[w].replacing
  <2> DEFINE f == [scratch[op[w].name] EXCEPT !.mode = op[w].mode]
  <2>1. f \in File /\ f.mode = op[w].mode
    BY <1>1 DEF File
  <2>2. Fills(w, f, "rename")
    BY <1>1, <1>2 DEF Chmod, Fills, IInv, SaveTypeOK
  <2>. QED  BY <1>1, <1>2, <2>1, <2>2, FillsModest
<1>3. CASE ~op[w].replacing
  <2>1. scratch' = [scratch EXCEPT ![op[w].name] = scratch[op[w].name]]
    BY <1>3 DEF Chmod, IInv, SaveTypeOK
  <2>2. Fills(w, scratch[op[w].name], "rename")
    BY <2>1 DEF Chmod, Fills
  <2>. QED  BY <1>1, <1>3, <2>2, FillsModest
<1>. QED  BY <1>2, <1>3

\* What a rename puts at a note has the permissions of what was there, and those that
\* every other call of the note expects.
LEMMA RenamesModestly ==
    ASSUME IInv, Modest, NEW w \in Writers, Rename(w)
    PROVE  /\ \A p \in Entries : p # op[w].target => files'[p] = files[p]
           /\ op[w].target \in Targets
           /\ files'[op[w].target] # Absent
           /\ w \notin meddled =>
                 IF files[op[w].target] # Absent
                 THEN files'[op[w].target].mode = files[op[w].target].mode
                 ELSE files'[op[w].target].mode = Masked[NewMode]
<1>1. /\ op[w].name \in Scratch /\ scratch[op[w].name] \in File /\ op[w].target \in Targets
      /\ step[w] = "rename"
  BY DEF IInv, Known, Rename
<1>2. files'[op[w].target] = scratch[op[w].name]
      /\ \A p \in Entries : p # op[w].target => files'[p] = files[p]
  BY <1>1 DEF IInv, SaveTypeOK, Rename, Entries
<1>3. scratch[op[w].name].mode = IF op[w].replacing THEN op[w].mode ELSE Masked[op[w].mode]
  BY <1>1 DEF Modest, Given
<1>4. w \notin meddled =>
         IF op[w].replacing
         THEN files[op[w].target] # Absent /\ op[w].mode = files[op[w].target].mode
         ELSE /\ op[w].mode = NewMode
              /\ files[op[w].target] # Absent => files[op[w].target].mode = Masked[NewMode]
  BY <1>1 DEF Modest, Foreseen
<1>. QED  BY <1>1, <1>2, <1>3, <1>4, MarksApart

LEMMA RenameModest == ASSUME IInv, Modest, NEW w \in Writers, Rename(w) PROVE Modest'
<1>1. Ends(w, "ok") /\ op[w].name \in Scratch /\ op[w].name[2] = w
  BY DEF Rename, IInv, Known
<1>2. step'[w] = "idle" /\ \A v \in Writers \ {w} : op'[v] = op[v] /\ step'[v] = step[v]
  BY <1>1, EndsType
<1>3. \A y \in Scratch : y[2] # w => scratch'[y] = scratch[y]
  BY <1>1 DEF Rename, IInv, SaveTypeOK
<1>6. \A v \in Writers \ {w} : v \in meddled => v \in meddled'
  BY DEF Rename
<1>4. Foreseen(w)' /\ Given(w)'
  BY <1>2 DEF Foreseen, Given
<1>5. ASSUME NEW v \in Writers \ {w} PROVE Foreseen(v)' /\ Given(v)'
  <2>1. step[v] \in {"write", "sync", "chmod", "rename"} =>
           op[v].name \in Scratch /\ op[v].name[2] # w
    BY DEF IInv, Known
  <2>2. step[v] # "idle" => op[v].target \in Targets
    BY DEF IInv, Known
  <2>3. CASE op[v].target # op[w].target
    BY <1>2, <1>3, <1>6, <2>1, <2>2, <2>3, RenamesModestly, LeftAlone DEF Modest, Entries
  <2>4. CASE op[v].target = op[w].target
    <3>1. Foreseen(v) /\ Given(v)
      BY DEF Modest
    <3>2. Foreseen(v)'
      <4>1. CASE w \in meddled /\ step[v] \notin {"idle", "look"}
        BY <1>2, <2>4, <4>1 DEF Foreseen, Rename, HaveSeen
      <4>2. CASE w \notin meddled
        BY <1>2, <1>6, <2>4, <3>1, <4>2, RenamesModestly DEF Foreseen
      <4>3. CASE step[v] \in {"idle", "look"}
        BY <1>2, <4>3 DEF Foreseen
      <4>. QED  BY <4>1, <4>2, <4>3
    <3>3. Given(v)'
      BY <1>2, <1>3, <2>1, <3>1 DEF Given
    <3>. QED  BY <3>2, <3>3
  <2>. QED  BY <2>3, <2>4
<1>. QED  BY <1>4, <1>5 DEF Modest

LEMMA RetryModest == ASSUME IInv, Modest, NEW w \in Writers, Retry(w) PROVE Modest'
<1>1. op[w] \in Ops /\ step[w] = "rename" /\ op[w].name \in Scratch
  BY DEF IInv, SaveTypeOK, Known, Retry
<1>2. op' = [op EXCEPT ![w].tries = op[w].tries + 1]
      /\ files' = files /\ scratch' = scratch /\ step' = step /\ meddled' = meddled
  BY DEF Retry
<1>3. op'[w].target = op[w].target /\ op'[w].mode = op[w].mode
      /\ op'[w].replacing = op[w].replacing /\ op'[w].name = op[w].name
      /\ \A v \in Writers \ {w} : op'[v] = op[v]
  BY <1>1, <1>2 DEF IInv, SaveTypeOK, Ops
<1>4. Foreseen(w)'
  BY <1>1, <1>2, <1>3 DEF Foreseen, Modest
<1>5. Given(w)'
  BY <1>1, <1>2, <1>3 DEF Given, Modest
<1>. QED  BY <1>2, <1>3, <1>4, <1>5, OthersModest DEF Modest

\* A call ends without a save.
LEMMA EndsModest ==
    ASSUME IInv, Modest, NEW w \in Writers, NEW a \in {"none", "ok", "error"}, Returns(w, a),
           files' = files,
           \/ scratch' = scratch
           \/ /\ scratch' = [scratch EXCEPT ![op[w].name] = Absent]
              /\ step[w] \in {"write", "sync", "chmod", "rename"}
    PROVE  Modest'
<1>1. step'[w] = "idle" /\ \A v \in Writers \ {w} : op'[v] = op[v] /\ step'[v] = step[v]
  BY EndsType DEF Returns
<1>2. \A y \in Scratch : y[2] # w => scratch'[y] = scratch[y]
  BY DEF IInv, SaveTypeOK, Known
<1>3. Foreseen(w)' /\ Given(w)'
  BY <1>1 DEF Foreseen, Given
<1>4. \A v \in Writers \ {w} : v \in meddled => v \in meddled'
  BY DEF Returns
<1>. QED  BY <1>1, <1>2, <1>3, <1>4, OthersModest DEF Modest

\* Somebody changes a note: every call that has looked at it is met with.
LEMMA AroundModest ==
    ASSUME IInv, Modest, UNCHANGED <<scratch, op, step>>, NEW t \in Targets,
           meddled' = meddled \union HaveSeen(t),
           \A p \in Entries : p # t => files'[p] = files[p]
    PROVE  Modest'
<1> SUFFICES ASSUME NEW v \in Writers PROVE Foreseen(v)' /\ Given(v)'
  BY DEF Modest
<1>1. step[v] # "idle" => op[v].target \in Targets
  BY DEF IInv, Known
<1>2. CASE op[v].target # t
  BY <1>1, <1>2, LeftAlone DEF Modest, Entries
<1>3. CASE op[v].target = t
  <2>1. Foreseen(v)'
    BY <1>3 DEF Foreseen, HaveSeen
  <2>2. Given(v)'
    BY DEF Modest, Given
  <2>. QED  BY <2>1, <2>2
<1>. QED  BY <1>2, <1>3

LEMMA StepModest == IInv /\ Modest /\ [SaveNext]_saveVars => Modest'
<1> SUFFICES ASSUME IInv, Modest, [SaveNext]_saveVars PROVE Modest'
  OBVIOUS
<1>1. ASSUME NEW w \in Writers,
             \/ Call(w) \/ Look(w) \/ Open(w) \/ Write(w) \/ Sync(w)
             \/ Chmod(w) \/ Rename(w) \/ Retry(w)
      PROVE  Modest'
  BY <1>1, CallModest, LookModest, OpenModest, WriteModest, SyncModest, ChmodModest,
     RenameModest, RetryModest
<1>2. ASSUME NEW w \in Writers, Refused(w) \/ Failure(w) \/ Stop(w) PROVE Modest'
  <2>1. CASE Refused(w)
    BY <2>1, EndsModest DEF Refused
  <2>2. CASE Failure(w)
    BY <2>2, EndsModest DEF Failure, GivesUp
  <2>3. CASE Stop(w)
    BY <2>3, EndsModest DEF Stop
  <2>. QED  BY <1>2, <2>1, <2>2, <2>3
<1>3. ASSUME NEW t \in Targets, SetMode(t) \/ Delete(t) PROVE Modest'
  <2>1. meddled' = meddled \union HaveSeen(t) /\ UNCHANGED <<scratch, op, step>>
    BY <1>3 DEF SetMode, Delete
  <2>2. \A p \in Entries : p # t => files'[p] = files[p]
    BY <1>3 DEF SetMode, Delete, IInv, SaveTypeOK
  <2>. QED  BY <2>1, <2>2, AroundModest
<1>4. ASSUME NEW t \in Targets, Flush(t) PROVE Modest'
  BY <1>4 DEF Flush, Modest, Foreseen, Given
<1>5. CASE PowerLoss
  BY <1>5 DEF PowerLoss, Modest, Foreseen, Given
<1>6. CASE UNCHANGED saveVars
  BY <1>6 DEF saveVars, Modest, Foreseen, Given
<1>. QED  BY <1>1, <1>2, <1>3, <1>4, <1>5, <1>6 DEF SaveNext

\* However many processes save a note, fail or stop, a save keeps the permissions that the
\* note has, unless somebody changed them or deleted the note since the save, or another
\* that was overlapped so, looked at it; and links stay what they are, always.
THEOREM EntriesKept == SaveSpec => EntryKept
<1>1. SaveInit => Modest
  BY DEF SaveInit, Modest, Foreseen, Given
<1>2. IInv /\ Modest /\ [SaveNext]_saveVars =>
        [\A w \in Writers : Rename(w) =>
            /\ \A l \in Links : files'[l] = files[l]
            /\ \A t \in Targets : files[t] # Absent /\ w \notin meddled =>
                  files'[t].mode = files[t].mode]_saveVars
  <2> SUFFICES ASSUME IInv, Modest, NEW w \in Writers, Rename(w)
               PROVE  /\ \A l \in Links : files'[l] = files[l]
                      /\ \A t \in Targets : files[t] # Absent /\ w \notin meddled =>
                            files'[t].mode = files[t].mode
    OBVIOUS
  <2>. QED  BY RenamesModestly, SaveConstantsOK DEF Entries
<1>3. SaveSpec => []Modest
  BY <1>1, StepModest, Invariant, PTL DEF SaveSpec
<1>. QED  BY <1>2, <1>3, Invariant, PTL DEF SaveSpec, EntryKept
=============================================================================
