----------------------------- MODULE AtomicFile -----------------------------
(***************************************************************************)
(* What a save through writeFileAtomic promises: it takes effect in one    *)
(* step, wholly, before it answers "ok"; one that fails has no effect; and *)
(* a power loss takes a note back to a body it once had, never to a part   *)
(* of one.                                                                 *)
(***************************************************************************)
CONSTANTS
    Writers, Targets, Data, None

VARIABLES
    body,    \* body[t]: what a reader of the note finds
    disk,    \* disk[t]: what is left of it after a power loss
    saving,  \* saving[w]: the note and the body that w was asked to save
    answer   \* answer[w]: what the last save of w returned

abstract == <<body, disk, saving, answer>>

Init ==
    /\ body \in [Targets -> Data \union {None}]
    /\ disk = body
    /\ saving = [w \in Writers |-> None]
    /\ answer = [w \in Writers |-> "none"]

Call(w) ==
    /\ saving[w] = None
    /\ \E t \in Targets, d \in Data : saving' = [saving EXCEPT ![w] = <<t, d>>]
    /\ answer' = [answer EXCEPT ![w] = "none"]
    /\ UNCHANGED <<body, disk>>

Return(w, a) ==
    /\ saving[w] # None
    /\ saving' = [saving EXCEPT ![w] = None]
    /\ answer' = [answer EXCEPT ![w] = a]

Save(w) ==
    /\ Return(w, "ok")
    /\ body' = [body EXCEPT ![saving[w][1]] = saving[w][2]]
    /\ UNCHANGED disk

Fail(w) ==
    /\ Return(w, "error")
    /\ UNCHANGED <<body, disk>>

Stop(w) ==
    /\ Return(w, "none")
    /\ UNCHANGED <<body, disk>>

\* Somebody deletes the note.
Remove(t) ==
    /\ body' = [body EXCEPT ![t] = None]
    /\ UNCHANGED <<disk, saving, answer>>

\* The directory that holds the note reaches the disk.
Flush(t) ==
    /\ disk' = [disk EXCEPT ![t] = body[t]]
    /\ UNCHANGED <<body, saving, answer>>

PowerLoss ==
    /\ body' = disk
    /\ saving' = [w \in Writers |-> None]
    /\ answer' = [w \in Writers |-> "none"]
    /\ UNCHANGED disk

Next ==
    \/ PowerLoss
    \/ \E w \in Writers : Call(w) \/ Save(w) \/ Fail(w) \/ Stop(w)
    \/ \E t \in Targets : Remove(t) \/ Flush(t)

Spec == Init /\ [][Next]_abstract
=============================================================================
