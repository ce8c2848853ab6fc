----------------------------- MODULE WatchFeed -----------------------------
(***************************************************************************)
(* The live-update feed: watchers, the clients that listen to them and the *)
(* switch to another vault (Subscribe, Close, broadcast and                *)
(* reloadFolderPaths of internal/watcher/watcher.go, watchWS and           *)
(* switchVaultRoot of internal/httpserver/server.go, the seeding in        *)
(* main.go).                                                               *)
(*                                                                         *)
(* A watcher is named by the number of the vault it was started for.  The  *)
(* only changes of a vault are those of the folder layout in its           *)
(* vault.json, which every watcher keeps a copy of; module WatchTree has   *)
(* the others.  What a client is sent is not told apart: its channel is    *)
(* the number of events in it.                                             *)
(***************************************************************************)
EXTENDS Naturals, FiniteSets

CONSTANTS
    Clients,     \* sockets, one connection each at a time
    Switchers,   \* requests that switch the vault
    Layouts,     \* folder layouts, as normalised
    Default,     \* the layout of a vault without overrides
    Found,       \* the layouts a vault may have when it is switched to
    None,        \* no layout
    Torn,        \* a vault.json that is not JSON
    Capacity,    \* events a channel holds (64 in the code)
    MaxSwitches, \* bound: switches
    MaxEdits,    \* bound: changes of a vault.json
    MaxConnects, \* bound: connections of a client
    Seeding      \* whether main.go has still to seed the first watcher

ConstantsOK ==
    /\ Default \in Layouts /\ Found \subseteq Layouts /\ None \notin Layouts \union {Torn} /\ Torn \notin Layouts
    /\ Capacity \in Nat \ {0}
    /\ MaxSwitches \in Nat /\ MaxEdits \in Nat /\ MaxConnects \in Nat
    /\ Seeding \in BOOLEAN

Watchers == 1..(MaxSwitches + 1)

VARIABLES
    served,   \* s.Watcher
    started,  \* the watchers started so far are 1..started
    closed,   \* watchers that are closed
    subs,     \* the clients each watcher sends to
    disk,     \* the layout in the vault.json of each watcher's vault, or Torn
    paths,    \* the layout each watcher uses: folderPaths
    edits,    \* changes of that vault.json the watcher has not taken
    reload,   \* what a watcher read there and has not stored, or None
    seed,     \* what main.go is about to seed the first watcher with, or None
    seeding,  \* "read", "set" or "done"
    untold,   \* the watchers that were given a layout that is not their vault's, or could
              \* not read it, as long as they have read none after that
    sw,       \* where a request to switch is, and its watchers
    pc,       \* where the handler of a client is
    at,       \* the watcher it has taken
    chan,     \* the events in its channel
    open,     \* whether that is open
    closings, \* how often it was closed
    connects,
    editCount

watchers == <<closed, subs>>
layouts == <<disk, paths, edits, reload, seed, seeding, untold, editCount>>
switching == <<served, started, sw>>
clients == <<pc, at, chan, open, closings, connects>>
vars == <<watchers, layouts, switching, clients>>

TypeOK ==
    /\ served \in 1..started /\ started \in Watchers
    /\ closed \in SUBSET (1..started)
    /\ subs \in [Watchers -> SUBSET Clients]
    /\ disk \in [Watchers -> Layouts \union {Torn}] /\ paths \in [Watchers -> Layouts]
    /\ edits \in [Watchers -> 0..(2 * MaxEdits)]
    /\ reload \in [Watchers -> Layouts \union {None, Torn}]
    /\ seed \in Layouts \union {None} /\ seeding \in {"read", "set", "done"}
    /\ untold \in SUBSET (1..started)
    /\ sw \in [Switchers -> [pc : {"idle", "swap", "close"}, next : Watchers, prev : Watchers]]
    /\ pc \in [Clients -> {"away", "accepted", "holding", "listening", "leaving"}]
    /\ at \in [Clients -> Watchers]
    /\ chan \in [Clients -> 0..Capacity]
    /\ open \in [Clients -> BOOLEAN]
    /\ closings \in [Clients -> 0..2]
    /\ connects \in [Clients -> 0..MaxConnects]
    /\ editCount \in 0..MaxEdits

Init ==
    /\ served = 1 /\ started = 1 /\ closed = {}
    /\ subs = [w \in Watchers |-> {}]
    /\ \E l \in Layouts :
         /\ disk = [w \in Watchers |-> IF w = 1 THEN l ELSE Default]
         /\ paths = [w \in Watchers |-> IF w = 1 /\ ~Seeding THEN l ELSE Default]
    /\ edits = [w \in Watchers |-> 0]
    /\ reload = [w \in Watchers |-> None]
    /\ seed = None /\ seeding = IF Seeding THEN "read" ELSE "done"
    /\ untold = {}
    /\ sw = [s \in Switchers |-> [pc |-> "idle", next |-> 1, prev |-> 1]]
    /\ pc = [c \in Clients |-> "away"]
    /\ at = [c \in Clients |-> 1]
    /\ chan = [c \in Clients |-> 0]
    /\ open = [c \in Clients |-> FALSE]
    /\ closings = [c \in Clients |-> 0]
    /\ connects = [c \in Clients |-> 0]
    /\ editCount = 0

-----------------------------------------------------------------------------
\* Channels

CloseChannels(cs) ==
    /\ open' = [c \in Clients |-> IF c \in cs THEN FALSE ELSE open[c]]
    /\ closings' = [c \in Clients |-> IF c \in cs THEN closings[c] + 1 ELSE closings[c]]

\* broadcast: an event for every subscriber whose channel has room.
Broadcast(w) ==
    chan' = [c \in Clients |-> IF c \in subs[w] /\ chan[c] < Capacity THEN chan[c] + 1 ELSE chan[c]]

-----------------------------------------------------------------------------
\* The folder layout

\* What is in vault.json; a closed watcher sees no more of it.
Changed(w, l) ==
    /\ w <= started /\ l # disk[w]
    /\ disk' = [disk EXCEPT ![w] = l]
    /\ edits' = [edits EXCEPT ![w] = IF w \in closed THEN @ ELSE @ + 1]
    /\ UNCHANGED <<watchers, switching, clients, paths, reload, seed, seeding, untold>>

\* vault.json is replaced by another, or removed, or cut to no length ...
Edit(w, l) ==
    /\ editCount < MaxEdits /\ editCount' = editCount + 1
    /\ Changed(w, l)

\* ... and then written, which is a change of its own.
Fill(w, l) ==
    /\ disk[w] = Torn
    /\ Changed(w, l)
    /\ UNCHANGED editCount

\* The goroutine of a watcher takes the event and reads the file; one that is
\* being closed may still take what it has ...
ReadLayout(w) ==
    /\ edits[w] > 0 /\ reload[w] = None
    /\ edits' = [edits EXCEPT ![w] = @ - 1]
    /\ reload' = [reload EXCEPT ![w] = disk[w]]
    /\ UNCHANGED <<watchers, switching, clients, disk, paths, seed, seeding, untold, editCount>>

\* ... or cannot read it, and keeps the layout it has ...
ReadFails(w) ==
    /\ edits[w] > 0 /\ reload[w] = None
    /\ edits' = [edits EXCEPT ![w] = @ - 1]
    /\ untold' = untold \union {w}
    /\ Broadcast(w)
    /\ UNCHANGED <<watchers, switching, disk, paths, reload, seed, seeding, editCount,
                   pc, at, open, closings, connects>>

\* Mutant: what was read is not stored.
StoreLayoutNot(w) ==
    /\ reload[w] # None
    /\ reload' = [reload EXCEPT ![w] = None]
    /\ untold' = untold \ {w}
    /\ Broadcast(w)
    /\ UNCHANGED <<watchers, switching, disk, paths, edits, seed, seeding, editCount,
                   pc, at, open, closings, connects>>

\* ... stores the layout if it was one, and tells the clients.
StoreLayout(w) ==
    /\ reload[w] # None
    /\ \/ reload[w] = Torn /\ UNCHANGED <<paths, untold>>
       \/ /\ reload[w] # Torn
          /\ paths' = [paths EXCEPT ![w] = reload[w]]
          /\ untold' = untold \ {w}
    /\ reload' = [reload EXCEPT ![w] = None]
    /\ Broadcast(w)
    /\ UNCHANGED <<watchers, switching, disk, edits, seed, seeding, editCount,
                   pc, at, open, closings, connects>>

\* main.go: v.GetSettings, then, if there were any, w.SetFolderPaths.
SeedRead ==
    /\ seeding = "read"
    /\ \/ disk[1] = Torn /\ seeding' = "done" /\ UNCHANGED seed
       \/ disk[1] # Torn /\ seeding' = "set" /\ seed' = disk[1]
    /\ UNCHANGED <<watchers, switching, clients, disk, paths, edits, reload, untold, editCount>>

SeedSet ==
    /\ seeding = "set"
    /\ paths' = [paths EXCEPT ![1] = seed]
    /\ seed' = None /\ seeding' = "done"
    /\ untold' = IF seed = disk[1] THEN untold ELSE untold \union {1}
    /\ UNCHANGED <<watchers, switching, clients, disk, edits, reload, editCount>>

-----------------------------------------------------------------------------
\* switchVaultRoot

StartNext(s) ==
    /\ seeding = "done"
    /\ sw[s].pc = "idle" /\ started < MaxSwitches + 1
    /\ started' = started + 1
    /\ \E l \in Found :
         /\ disk' = [disk EXCEPT ![started + 1] = l]
         /\ untold' = IF l = Default THEN untold ELSE untold \union {started + 1}
    /\ sw' = [sw EXCEPT ![s] = [pc |-> "swap", next |-> started + 1, prev |-> @.prev]]
    /\ UNCHANGED <<watchers, clients, served, paths, edits, reload, seed, seeding, editCount>>

\* Mutant: the previous watcher is the one s.Watcher names by now.
SwapFirst(s) ==
    /\ sw[s].pc = "swap"
    /\ served' = sw[s].next
    /\ sw' = [sw EXCEPT ![s].pc = "close", ![s].prev = sw[s].next]
    /\ UNCHANGED <<watchers, layouts, clients, started>>

Swap(s) ==
    /\ sw[s].pc = "swap"
    /\ served' = sw[s].next
    /\ sw' = [sw EXCEPT ![s].pc = "close", ![s].prev = served]
    /\ UNCHANGED <<watchers, layouts, clients, started>>

\* Close of the previous watcher.
ClosePrevious(s) ==
    LET w == sw[s].prev IN
    /\ sw[s].pc = "close"
    /\ closed' = closed \union {w}
    /\ CloseChannels(subs[w])
    /\ subs' = [subs EXCEPT ![w] = {}]
    /\ sw' = [sw EXCEPT ![s].pc = "idle"]
    /\ UNCHANGED <<layouts, served, started, pc, at, chan, connects>>

-----------------------------------------------------------------------------
\* watchWS

Connect(c) ==
    /\ pc[c] = "away" /\ connects[c] < MaxConnects
    /\ pc' = [pc EXCEPT ![c] = "accepted"]
    /\ connects' = [connects EXCEPT ![c] = @ + 1]
    /\ closings' = [closings EXCEPT ![c] = 0]
    /\ UNCHANGED <<watchers, layouts, switching, at, chan, open>>

TakeWatcher(c) ==
    /\ pc[c] = "accepted"
    /\ at' = [at EXCEPT ![c] = served]
    /\ pc' = [pc EXCEPT ![c] = "holding"]
    /\ UNCHANGED <<watchers, layouts, switching, chan, open, closings, connects>>

Subscribe(c) ==
    /\ pc[c] = "holding"
    /\ subs' = [subs EXCEPT ![at[c]] = @ \union {c}]
    /\ chan' = [chan EXCEPT ![c] = 0]
    /\ open' = [open EXCEPT ![c] = TRUE]
    /\ pc' = [pc EXCEPT ![c] = "listening"]
    /\ UNCHANGED <<closed, layouts, switching, at, closings, connects>>

\* An event goes out to the client.
Send(c) ==
    /\ pc[c] = "listening" /\ chan[c] > 0
    /\ chan' = [chan EXCEPT ![c] = @ - 1]
    /\ UNCHANGED <<watchers, layouts, switching, pc, at, open, closings, connects>>

\* The channel is closed and read to its end.
HearClose(c) ==
    /\ pc[c] = "listening" /\ ~open[c] /\ chan[c] = 0
    /\ pc' = [pc EXCEPT ![c] = "leaving"]
    /\ UNCHANGED <<watchers, layouts, switching, at, chan, open, closings, connects>>

\* The peer went away, or a write or a ping failed.
PeerGone(c) ==
    /\ pc[c] = "listening"
    /\ pc' = [pc EXCEPT ![c] = "leaving"]
    /\ UNCHANGED <<watchers, layouts, switching, at, chan, open, closings, connects>>

\* Mutant: whether the channel is still subscribed is not asked.
UnsubscribeAnyway(c) ==
    /\ pc[c] = "leaving"
    /\ CloseChannels({c})
    /\ subs' = [subs EXCEPT ![at[c]] = @ \ {c}]
    /\ chan' = [chan EXCEPT ![c] = 0]
    /\ pc' = [pc EXCEPT ![c] = "away"]
    /\ UNCHANGED <<closed, layouts, switching, at, connects>>

\* The deferred unsubscribe.
Unsubscribe(c) ==
    /\ pc[c] = "leaving"
    /\ CloseChannels({c} \intersect subs[at[c]])
    /\ subs' = [subs EXCEPT ![at[c]] = @ \ {c}]
    /\ chan' = [chan EXCEPT ![c] = 0]
    /\ pc' = [pc EXCEPT ![c] = "away"]
    /\ UNCHANGED <<closed, layouts, switching, at, connects>>

-----------------------------------------------------------------------------

Handler(c) == TakeWatcher(c) \/ Subscribe(c) \/ Send(c) \/ HearClose(c) \/ Unsubscribe(c)

Switch(s) == Swap(s) \/ ClosePrevious(s)

Next ==
    \/ \E c \in Clients : Connect(c) \/ PeerGone(c) \/ Handler(c)
    \/ \E s \in Switchers : StartNext(s) \/ Switch(s)
    \/ \E w \in Watchers, l \in Layouts : Edit(w, l) \/ Edit(w, Torn) \/ Fill(w, l)
    \/ \E w \in Watchers : ReadLayout(w) \/ ReadFails(w) \/ StoreLayout(w)
    \/ SeedRead \/ SeedSet

Spec == Init /\ [][Next]_vars

-----------------------------------------------------------------------------
\* Properties

\* No channel is closed twice and nothing is sent on a closed one, either of
\* which would end the server: Close and unsubscribe may both be under way.
ChannelsSound ==
    /\ \A c \in Clients : closings[c] <= 1
    /\ \A w \in Watchers : \A c \in subs[w] : open[c]

\* Once the served watcher has taken every event, it classifies paths by the layout of
\* the vault's settings, if there are any: "both agree on the folder layout" (main.go),
\* however vault.json was written, twice between two readings or not whole when it was
\* read.  A watcher that could not read the file, that main.go seeded meanwhile with what
\* is out of date, or that a switch gave a vault with a layout of its own, agrees from the
\* next change on.
FoldersAgree ==
    LET Settled == /\ seeding = "done" /\ edits[served] = 0 /\ reload[served] = None
                   /\ disk[served] # Torn
    IN  Settled /\ served \notin untold => paths[served] = disk[served]
=============================================================================
