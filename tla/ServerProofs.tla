----------------------------- MODULE ServerProofs ----------------------------
(***************************************************************************)
(* Proofs about the server's own concurrency: WatchFeed, for any clients,  *)
(* requests that switch the vault and layouts, any capacity of channels,   *)
(* and any number of switches, changes and connections; HostConfig, for    *)
(* any requests at a time, tokens and vaults, and any number of logins,    *)
(* changes and restarts; AttemptLimiter, for any requests at a time and    *)
(* any limit and window; WebInstall, for any installers, manifests and     *)
(* archives, and any number of installations, failures and deaths.         *)
(***************************************************************************)
EXTENDS WatchFeed, HostConfig, AttemptLimiter, WebInstall, FiniteSetTheorems, TLAPS

-----------------------------------------------------------------------------
\* WatchFeed: channels

\* What is known of a client's channel: one watcher at most sends to it, the one the
\* client has taken, and just as long as it is open; an open one was never closed.
Channel(c) ==
    /\ \A w \in Watchers : c \in subs[w] => at[c] = w
    /\ c \in subs[at[c]] <=> open[c]
    /\ open[c] => pc[c] \in {"listening", "leaving"} /\ closings[c] = 0
    /\ pc[c] \in {"accepted", "holding"} => closings[c] = 0
    /\ closings[c] <= 1

-----------------------------------------------------------------------------
\* WatchFeed: switching and layouts

\* The watcher a request is about to serve is one of its own, and the one it is about to
\* close is served no more.
Switching ==
    /\ served \notin closed
    /\ \A s \in Switchers :
         /\ sw[s].pc = "swap" =>
               sw[s].next <= started /\ sw[s].next # served /\ sw[s].next \notin closed
         /\ sw[s].pc = "close" => sw[s].prev <= started /\ sw[s].prev # served
    /\ \A s, t \in Switchers : s # t /\ sw[s].pc = "swap" =>
         /\ sw[t].pc = "swap" => sw[s].next # sw[t].next
         /\ sw[t].pc = "close" => sw[s].next # sw[t].prev

\* What is about to be stored is a layout, and each event is of an edit or of what
\* has filled a file that one had cut.
Layouted ==
    /\ seeding = "set" => seed \in Layouts
    /\ \A w \in Watchers :
         /\ edits[w] + (IF disk[w] = Torn THEN 1 ELSE 0) <= 2 * editCount
         /\ edits[w] > 0 => w <= started

IInv ==
    /\ TypeOK
    /\ Switching
    /\ Layouted
    /\ \A c \in Clients : Channel(c)

LEMMA InitIInv == ASSUME ConstantsOK PROVE Init => IInv
<1> SUFFICES ASSUME Init PROVE IInv
  OBVIOUS
<1>1. 1 \in Watchers
  BY DEF Watchers, ConstantsOK
<1>2. TypeOK
  BY <1>1 DEF Init, TypeOK, ConstantsOK, Watchers
<1>3. \A c \in Clients : Channel(c)
  BY <1>1 DEF Init, Channel
<1>4. Layouted
  <2>1. seeding # "set" /\ editCount = 0
    BY DEF Init
  <2>2. \A w \in Watchers : edits[w] = 0 /\ disk[w] \in Layouts
    BY DEF Init, ConstantsOK
  <2>. QED  BY <2>1, <2>2 DEF Layouted, ConstantsOK
<1>5. Switching
  BY DEF Init, Switching
<1>. QED  BY <1>5, <1>2, <1>3, <1>4 DEF IInv

\* A step that touches no channel's standing.
LEMMA Aside ==
  ASSUME IInv, UNCHANGED <<subs, at, open, closings, pc>> PROVE \A c \in Clients : Channel(c)'
BY DEF IInv, Channel

\* Whatever channels are closed next, the count stays within its type.
LEMMA ClosesOnce ==
  ASSUME IInv, NEW cs, CloseChannels(cs)
  PROVE  open' \in [Clients -> BOOLEAN] /\ closings' \in [Clients -> 0..2]
<1>1. \A c \in Clients : closings[c] \in 0..1
  BY DEF IInv, TypeOK, Channel
<1>2. \A c \in Clients : (IF c \in cs THEN closings[c] + 1 ELSE closings[c]) \in 0..2
  BY <1>1
<1>3. \A c \in Clients : (IF c \in cs THEN FALSE ELSE open[c]) \in BOOLEAN
  BY DEF IInv, TypeOK
<1>4. closings' \in [Clients -> 0..2]
  BY <1>2 DEF CloseChannels
<1>5. open' \in [Clients -> BOOLEAN]
  BY <1>3 DEF CloseChannels
<1>. QED  BY <1>4, <1>5

LEMMA NextIInv == ASSUME ConstantsOK PROVE IInv /\ [Next]_vars => IInv'
<1> SUFFICES ASSUME IInv, [Next]_vars PROVE IInv'
  OBVIOUS
<1> USE DEF ConstantsOK, IInv
<1>1. ASSUME NEW w \in Watchers, NEW l \in Layouts \union {Torn},
             Edit(w, l) \/ (l \in Layouts /\ Fill(w, l))
      PROVE  IInv'
  <2>0. Changed(w, l) /\ w <= started /\ l # disk[w]
    BY <1>1 DEF Edit, Fill, Changed
  <2>1. disk' = [disk EXCEPT ![w] = l] /\ disk' \in [Watchers -> Layouts \union {Torn}]
    BY <2>0 DEF Changed, TypeOK
  <2>2. /\ edits' = [edits EXCEPT ![w] = IF w \in closed THEN @ ELSE @ + 1]
        /\ editCount' \in 0..MaxEdits /\ editCount \in 0..MaxEdits
        /\ \/ editCount' = editCount + 1
           \/ editCount' = editCount /\ disk[w] = Torn /\ l # Torn
    BY <1>1, <2>0 DEF Edit, Fill, Changed, TypeOK
  <2>3. Layouted'
    <3>1. ASSUME NEW u \in Watchers
          PROVE  /\ edits'[u] + (IF disk'[u] = Torn THEN 1 ELSE 0) <= 2 * editCount'
                 /\ edits'[u] > 0 => u <= started
      <4>1. /\ edits[u] \in Nat /\ edits[u] + (IF disk[u] = Torn THEN 1 ELSE 0) <= 2 * editCount
            /\ edits[u] > 0 => u <= started
        BY DEF TypeOK, Layouted
      <4>2. /\ disk'[u] = IF u = w THEN l ELSE disk[u]
            /\ edits'[u] = IF u = w /\ w \notin closed THEN edits[u] + 1 ELSE edits[u]
        BY <2>1, <2>2 DEF TypeOK
      <4>. QED  BY <2>0, <2>2, <4>1, <4>2
    <3>. QED  BY <2>0, <3>1 DEF Changed, Layouted, switching
  <2>4. edits' \in [Watchers -> 0..(2 * MaxEdits)]
    <3>1. ASSUME NEW u \in Watchers PROVE edits'[u] \in 0..(2 * MaxEdits)
      <4>1. /\ edits[u] \in Nat
            /\ edits'[u] = IF u = w /\ w \notin closed THEN edits[u] + 1 ELSE edits[u]
        BY <2>2 DEF TypeOK
      <4>2. edits'[u] <= 2 * editCount'
        BY <2>3, <2>2, <4>1 DEF Layouted
      <4>. QED  BY <2>2, <4>1, <4>2
    <3>. QED  BY <2>2, <3>1 DEF TypeOK
  <2>5. TypeOK'
    BY <2>0, <2>1, <2>2, <2>4 DEF Changed, TypeOK, watchers, switching, clients
  <2>6. \A c \in Clients : Channel(c)'
    BY <2>0, Aside DEF Changed, watchers, clients
  <2>7. Switching'
    BY <2>0 DEF Changed, TypeOK, Switching, watchers, switching, clients
  <2>. QED  BY <2>3, <2>5, <2>6, <2>7
<1>2. ASSUME NEW w \in Watchers, ReadLayout(w) PROVE IInv'
  <2>1. TypeOK'
    BY <1>2 DEF ReadLayout, TypeOK, watchers, switching, clients
  <2>2. \A c \in Clients : Channel(c)'
    BY <1>2, Aside DEF ReadLayout, watchers, clients
  <2>3. Switching'
    BY <1>2 DEF ReadLayout, TypeOK, Switching, watchers, layouts, switching, clients
  <2>4. Layouted'
    BY <1>2 DEF ReadLayout, TypeOK, Layouted, watchers, layouts, switching, clients
  <2>. QED  BY <2>1, <2>2, <2>3, <2>4
<1>3. ASSUME NEW w \in Watchers, StoreLayout(w) \/ ReadFails(w) PROVE IInv'
  <2>1. TypeOK'
    <3>1. untold' \in SUBSET (1..started) /\ reload' \in [Watchers -> Layouts \union {None, Torn}]
      <4>1. ReadFails(w) => w \in 1..started
        BY <1>3 DEF ReadFails, TypeOK, Layouted, Watchers
      <4>. QED  BY <1>3, <4>1 DEF StoreLayout, ReadFails, TypeOK
    <3>2. paths' \in [Watchers -> Layouts] /\ chan' \in [Clients -> 0..Capacity]
      BY <1>3 DEF StoreLayout, ReadFails, Broadcast, TypeOK
    <3>3. edits' \in [Watchers -> 0..(2 * MaxEdits)]
      BY <1>3 DEF StoreLayout, ReadFails, TypeOK
    <3>. QED  BY <1>3, <3>1, <3>2, <3>3 DEF StoreLayout, ReadFails, TypeOK, watchers, switching
  <2>2. \A c \in Clients : Channel(c)'
    BY <1>3, Aside DEF StoreLayout, ReadFails, watchers
  <2>3. Switching'
    BY <1>3 DEF StoreLayout, ReadFails, Broadcast, TypeOK, Switching, watchers, layouts, switching, clients
  <2>4. Layouted'
    BY <1>3 DEF StoreLayout, ReadFails, Broadcast, TypeOK, Layouted, watchers, layouts, switching, clients
  <2>. QED  BY <2>1, <2>2, <2>3, <2>4
<1>4. CASE SeedRead \/ SeedSet
  <2>0. 1 \in Watchers
    BY DEF Watchers
  <2>1. CASE SeedRead
    <3>1. \/ seed' \in Layouts /\ seeding' = "set"
          \/ seed' = seed /\ seeding' = "done"
      BY <2>0, <2>1 DEF SeedRead, TypeOK
    <3>2. TypeOK' /\ Layouted'
      BY <2>1, <3>1 DEF SeedRead, TypeOK, Layouted, watchers, switching, clients
    <3>. QED  BY <2>1, <3>2, Aside DEF SeedRead, Switching, watchers, switching, clients
  <2>2. CASE SeedSet
    <3>1. paths' \in [Watchers -> Layouts] /\ seeding' = "done" /\ seed' = None
      BY <2>0, <2>2 DEF SeedSet, TypeOK, Layouted
    <3>2. untold' \in SUBSET (1..started)
      BY <2>2 DEF SeedSet, TypeOK, Watchers
    <3>3. TypeOK' /\ Layouted'
      BY <2>2, <3>1, <3>2 DEF SeedSet, TypeOK, Layouted, watchers, switching, clients
    <3>. QED  BY <2>2, <3>3, Aside DEF SeedSet, Switching, watchers, switching, clients
  <2>. QED  BY <1>4, <2>1, <2>2
<1>5. ASSUME NEW s \in Switchers, StartNext(s) PROVE IInv'
  <2>0. started + 1 \in Watchers
    BY <1>5 DEF StartNext, TypeOK, Watchers
  <2>1. TypeOK'
    <3>1. disk' \in [Watchers -> Layouts \union {Torn}]
      BY <1>5, <2>0 DEF StartNext, TypeOK
    <3>2. sw' = [sw EXCEPT ![s] = [pc |-> "swap", next |-> started + 1, prev |-> sw[s].prev]]
      BY <1>5 DEF StartNext
    <3>3. [pc |-> "swap", next |-> started + 1, prev |-> sw[s].prev]
            \in [pc : {"idle", "swap", "close"}, next : Watchers, prev : Watchers]
      BY <2>0 DEF TypeOK
    <3>4. sw' \in [Switchers -> [pc : {"idle", "swap", "close"}, next : Watchers, prev : Watchers]]
      BY <3>2, <3>3 DEF TypeOK
    <3>5. started' \in Watchers /\ served' \in 1..started' /\ closed' \in SUBSET (1..started')
      BY <1>5, <2>0 DEF StartNext, TypeOK, Watchers, watchers
    <3>6. untold' \in SUBSET (1..started')
      BY <1>5 DEF StartNext, TypeOK, Watchers
    <3>. QED  BY <1>5, <3>1, <3>4, <3>5, <3>6 DEF StartNext, TypeOK, watchers, clients
  <2>2. \A c \in Clients : Channel(c)'
    BY <1>5, Aside DEF StartNext, watchers, clients
  <2>3. Switching'
    <3>1. sw' = [sw EXCEPT ![s] = [pc |-> "swap", next |-> started + 1, prev |-> sw[s].prev]]
      BY <1>5 DEF StartNext
    <3>2. /\ started \in Nat /\ started + 1 \notin closed /\ started + 1 # served
          /\ \A t \in Switchers : /\ sw[t].next \in Nat /\ sw[t].prev \in Nat
                                  /\ sw'[t] = IF t = s THEN [pc |-> "swap", next |-> started + 1, prev |-> sw[s].prev]
                                              ELSE sw[t]
      BY <3>1 DEF TypeOK, Watchers
    <3>. QED  BY <1>5, <3>2 DEF StartNext, Switching, watchers
  <2>4. Layouted'
    <3>1. ASSUME NEW w \in Watchers
          PROVE  /\ edits[w] + (IF disk'[w] = Torn THEN 1 ELSE 0) <= 2 * editCount
                 /\ edits[w] > 0 => w <= started'
      <4>1. disk'[w] = disk[w] \/ disk'[w] \in Layouts
        BY <1>5, <2>0 DEF StartNext, TypeOK
      <4>2. edits[w] \in Nat /\ editCount \in Nat /\ started \in Nat /\ w \in Nat /\ started' = started + 1
        BY <1>5 DEF StartNext, TypeOK, Watchers
      <4>. QED  BY <4>1, <4>2 DEF Layouted
    <3>. QED  BY <1>5, <3>1 DEF StartNext, Layouted
  <2>. QED  BY <2>1, <2>2, <2>3, <2>4
<1>6. ASSUME NEW s \in Switchers, Swap(s) PROVE IInv'
  <2>1. TypeOK'
    <3>1. served' \in 1..started /\ started' = started /\ served \in Watchers
      BY <1>6 DEF Swap, TypeOK, Switching, Watchers
    <3>2. PICK m : m = [sw EXCEPT ![s].pc = "close"]
      OBVIOUS
    <3>3. m \in [Switchers -> [pc : {"idle", "swap", "close"}, next : Watchers, prev : Watchers]]
      BY <3>2 DEF TypeOK
    <3>4. sw' = [m EXCEPT ![s].prev = served]
      BY <1>6, <3>2 DEF Swap
    <3>5. sw' \in [Switchers -> [pc : {"idle", "swap", "close"}, next : Watchers, prev : Watchers]]
      BY <3>1, <3>3, <3>4
    <3>. QED  BY <1>6, <3>1, <3>5 DEF Swap, TypeOK, watchers, layouts, clients
  <2>2. \A c \in Clients : Channel(c)'
    BY <1>6, Aside DEF Swap, watchers, clients
  <2>3. Switching'
    BY <1>6 DEF Swap, TypeOK, Switching, watchers, layouts, switching, clients
  <2>4. Layouted'
    BY <1>6 DEF Swap, TypeOK, Layouted, watchers, layouts, switching, clients
  <2>. QED  BY <2>1, <2>2, <2>3, <2>4
<1>7. ASSUME NEW s \in Switchers, ClosePrevious(s) PROVE IInv'
  <2>1. TypeOK'
    <3>1. sw[s].prev \in Watchers /\ sw[s].prev <= started /\ started \in Nat
      BY <1>7 DEF ClosePrevious, TypeOK, Switching, Watchers
    <3>2. closed' \in SUBSET (1..started')
      BY <1>7, <3>1 DEF ClosePrevious, TypeOK, Watchers
    <3>3. subs' \in [Watchers -> SUBSET Clients]
      BY <1>7, <3>1 DEF ClosePrevious, TypeOK
    <3>4. sw' \in [Switchers -> [pc : {"idle", "swap", "close"}, next : Watchers, prev : Watchers]]
      BY <1>7 DEF ClosePrevious, TypeOK
    <3>5. open' \in [Clients -> BOOLEAN] /\ closings' \in [Clients -> 0..2]
      BY <1>7, ClosesOnce DEF ClosePrevious
    <3>. QED  BY <1>7, <3>2, <3>3, <3>4, <3>5 DEF ClosePrevious, TypeOK, layouts
  <2>2. \A c \in Clients : Channel(c)'
    BY <1>7 DEF ClosePrevious, CloseChannels, TypeOK, Channel
  <2>3. Switching'
    BY <1>7 DEF ClosePrevious, CloseChannels, TypeOK, Switching, watchers, layouts, switching, clients
  <2>4. Layouted'
    BY <1>7 DEF ClosePrevious, CloseChannels, TypeOK, Layouted, watchers, layouts, switching, clients
  <2>. QED  BY <2>1, <2>2, <2>3, <2>4
<1>8. ASSUME NEW c \in Clients, Connect(c) PROVE IInv'
  <2>1. TypeOK'
    BY <1>8 DEF Connect, TypeOK, watchers, layouts, switching
  <2>2. \A d \in Clients : Channel(d)'
    BY <1>8 DEF Connect, TypeOK, Channel, watchers
  <2>3. Switching'
    BY <1>8 DEF Connect, TypeOK, Switching, watchers, layouts, switching, clients
  <2>4. Layouted'
    BY <1>8 DEF Connect, TypeOK, Layouted, watchers, layouts, switching, clients
  <2>. QED  BY <2>1, <2>2, <2>3, <2>4
<1>9. ASSUME NEW c \in Clients, TakeWatcher(c) PROVE IInv'
  <2>1. TypeOK'
    <3>1. served \in Watchers
      BY DEF TypeOK, Watchers
    <3>2. at' \in [Clients -> Watchers]
      BY <1>9, <3>1 DEF TakeWatcher, TypeOK
    <3>3. pc' \in [Clients -> {"away", "accepted", "holding", "listening", "leaving"}]
      BY <1>9 DEF TakeWatcher, TypeOK
    <3>. QED  BY <1>9, <3>2, <3>3 DEF TakeWatcher, TypeOK, watchers, layouts, switching
  <2>2. \A d \in Clients : Channel(d)'
    BY <1>9 DEF TakeWatcher, TypeOK, Channel, watchers, Watchers
  <2>3. Switching'
    BY <1>9 DEF TakeWatcher, TypeOK, Switching, watchers, layouts, switching, clients
  <2>4. Layouted'
    BY <1>9 DEF TakeWatcher, TypeOK, Layouted, watchers, layouts, switching, clients
  <2>. QED  BY <2>1, <2>2, <2>3, <2>4
<1>10. ASSUME NEW c \in Clients, Subscribe(c) PROVE IInv'
  <2>1. TypeOK'
    BY <1>10 DEF Subscribe, TypeOK, layouts, switching
  <2>2. \A d \in Clients : Channel(d)'
    BY <1>10 DEF Subscribe, TypeOK, Channel
  <2>3. Switching'
    BY <1>10 DEF Subscribe, TypeOK, Switching, watchers, layouts, switching, clients
  <2>4. Layouted'
    BY <1>10 DEF Subscribe, TypeOK, Layouted, watchers, layouts, switching, clients
  <2>. QED  BY <2>1, <2>2, <2>3, <2>4
<1>11. ASSUME NEW c \in Clients, Send(c) PROVE IInv'
  <2>1. TypeOK'
    BY <1>11 DEF Send, TypeOK, watchers, layouts, switching
  <2>2. \A d \in Clients : Channel(d)'
    BY <1>11, Aside DEF Send, watchers
  <2>3. Switching'
    BY <1>11 DEF Send, TypeOK, Switching, watchers, layouts, switching, clients
  <2>4. Layouted'
    BY <1>11 DEF Send, TypeOK, Layouted, watchers, layouts, switching, clients
  <2>. QED  BY <2>1, <2>2, <2>3, <2>4
<1>12. ASSUME NEW c \in Clients, HearClose(c) \/ PeerGone(c) PROVE IInv'
  <2>1. TypeOK'
    BY <1>12 DEF HearClose, PeerGone, TypeOK, watchers, layouts, switching
  <2>2. \A d \in Clients : Channel(d)'
    BY <1>12 DEF HearClose, PeerGone, TypeOK, Channel, watchers
  <2>3. Switching'
    BY <1>12 DEF HearClose, PeerGone, TypeOK, Switching, watchers, layouts, switching, clients
  <2>4. Layouted'
    BY <1>12 DEF HearClose, PeerGone, TypeOK, Layouted, watchers, layouts, switching, clients
  <2>. QED  BY <2>1, <2>2, <2>3, <2>4
<1>13. ASSUME NEW c \in Clients, Unsubscribe(c) PROVE IInv'
  <2>1. TypeOK'
    <3>1. subs' \in [Watchers -> SUBSET Clients]
      BY <1>13 DEF Unsubscribe, TypeOK
    <3>2. open' \in [Clients -> BOOLEAN] /\ closings' \in [Clients -> 0..2]
      BY <1>13, ClosesOnce DEF Unsubscribe
    <3>3. chan' \in [Clients -> 0..Capacity]
      BY <1>13 DEF Unsubscribe, TypeOK
    <3>4. pc' \in [Clients -> {"away", "accepted", "holding", "listening", "leaving"}]
      BY <1>13 DEF Unsubscribe, TypeOK
    <3>. QED  BY <1>13, <3>1, <3>2, <3>3, <3>4 DEF Unsubscribe, TypeOK, layouts, switching
  <2>2. \A d \in Clients : Channel(d)'
    BY <1>13 DEF Unsubscribe, CloseChannels, TypeOK, Channel
  <2>3. Switching'
    BY <1>13 DEF Unsubscribe, CloseChannels, TypeOK, Switching, watchers, layouts, switching, clients
  <2>4. Layouted'
    BY <1>13 DEF Unsubscribe, CloseChannels, TypeOK, Layouted, watchers, layouts, switching, clients
  <2>. QED  BY <2>1, <2>2, <2>3, <2>4
<1>14. CASE UNCHANGED vars
  BY <1>14 DEF vars, watchers, layouts, switching, clients, TypeOK, Channel, Switching, Layouted
<1>. QED
  BY <1>1, <1>2, <1>3, <1>4, <1>5, <1>6, <1>7, <1>8, <1>9, <1>10, <1>11, <1>12, <1>13, <1>14
     DEF Next, Handler, Switch

\* Watchers, requests and clients keep their types, and each channel its standing.
THEOREM Invariance == ASSUME ConstantsOK PROVE Spec => []IInv
<1>. QED  BY InitIInv, NextIInv, PTL DEF Spec

\* Every variable keeps its type.
THEOREM TypeCorrect == ASSUME ConstantsOK PROVE Spec => []TypeOK
<1>1. IInv => TypeOK
  BY DEF IInv
<1>. QED  BY <1>1, Invariance, PTL

\* Close of a watcher and unsubscribe of its clients, whichever comes first and however
\* many requests switch the vault: no channel is closed twice or sent to when closed.
THEOREM SoundChannels == ASSUME ConstantsOK PROVE Spec => []ChannelsSound
<1>1. IInv => ChannelsSound
  BY DEF IInv, TypeOK, Channel, ChannelsSound
<1>. QED  BY <1>1, Invariance, PTL

-----------------------------------------------------------------------------
\* Folder layouts

\* A watcher that is not closed and has no event left has the layout of the vault's
\* settings read and about to be stored, or it has nothing to store and has that layout,
\* unless it is yet to be told; a watcher not started yet has the default one.
Agreeing ==
    /\ \A w \in Watchers : w > started =>
         paths[w] = Default /\ edits[w] = 0 /\ reload[w] = None
    /\ \A w \in Watchers : w \notin closed /\ edits[w] = 0 =>
         /\ reload[w] # None => reload[w] = disk[w]
         /\ reload[w] = None /\ w \notin untold /\ (w = 1 => seeding = "done") =>
               disk[w] \in {paths[w], Torn}

LEMMA InitAgreeing == ASSUME ConstantsOK PROVE Init => Agreeing
BY DEF ConstantsOK, Init, Agreeing, Watchers

LEMMA NextAgreeing ==
  ASSUME ConstantsOK PROVE IInv /\ Agreeing /\ [Next]_vars => Agreeing'
<1> SUFFICES ASSUME IInv, Agreeing, [Next]_vars PROVE Agreeing'
  OBVIOUS
<1>0. /\ started \in Nat /\ editCount \in Nat /\ Watchers \subseteq Nat /\ 1 \in Watchers
      /\ started >= 1
      /\ disk \in [Watchers -> Layouts \union {Torn}] /\ paths \in [Watchers -> Layouts]
      /\ edits \in [Watchers -> Nat] /\ reload \in [Watchers -> Layouts \union {None, Torn}]
      /\ None \notin Layouts \union {Torn}
  BY DEF IInv, TypeOK, Watchers, ConstantsOK
<1>1. ASSUME NEW w \in Watchers, NEW l \in Layouts \union {Torn}, Edit(w, l) \/ Fill(w, l)
      PROVE  Agreeing'
  BY <1>0, <1>1 DEF Edit, Fill, Changed, Agreeing, watchers, switching
<1>2. ASSUME NEW w \in Watchers, ReadLayout(w) PROVE Agreeing'
  BY <1>0, <1>2 DEF ReadLayout, Agreeing, watchers, switching
<1>3. ASSUME NEW w \in Watchers, StoreLayout(w) \/ ReadFails(w) PROVE Agreeing'
  BY <1>0, <1>3 DEF StoreLayout, ReadFails, Agreeing, watchers, switching
<1>4. CASE SeedRead
  BY <1>0, <1>4 DEF SeedRead, Agreeing, watchers, switching
<1>5. CASE SeedSet
  BY <1>0, <1>5 DEF SeedSet, Agreeing, watchers, switching
<1>6. ASSUME NEW s \in Switchers, StartNext(s) PROVE Agreeing'
  <2>1. PICK l \in Found :
          /\ started' = started + 1 /\ started + 1 \in Watchers
          /\ disk' = [disk EXCEPT ![started + 1] = l]
          /\ untold' = IF l = Default THEN untold ELSE untold \union {started + 1}
          /\ UNCHANGED <<closed, paths, edits, reload, seeding>>
    <3>1. started + 1 \in Watchers
      BY <1>6, <1>0 DEF StartNext, Watchers, ConstantsOK
    <3>. QED  BY <1>6, <3>1 DEF StartNext, watchers
  <2>2. ASSUME NEW w \in Watchers, w # started + 1 PROVE disk'[w] = disk[w]
    BY <1>0, <2>1, <2>2
  <2>3. disk'[started + 1] = l
    BY <1>0, <2>1
  <2>4. ASSUME NEW w \in Watchers, w > started' PROVE paths[w] = Default /\ edits[w] = 0 /\ reload[w] = None
    BY <1>0, <2>1, <2>4 DEF Agreeing
  <2>5. paths[started + 1] = Default /\ reload[started + 1] = None
    BY <1>0, <2>1 DEF Agreeing
  <2>6. ASSUME NEW w \in Watchers, w \notin closed, edits[w] = 0
        PROVE  /\ reload[w] # None => reload[w] = disk'[w]
               /\ reload[w] = None /\ w \notin untold' /\ (w = 1 => seeding = "done") =>
                     disk'[w] \in {paths[w], Torn}
    <3>1. CASE w = started + 1
      BY <2>1, <2>3, <2>5, <3>1
    <3>2. CASE w # started + 1
      BY <2>1, <2>2, <2>6, <3>2 DEF Agreeing
    <3>. QED  BY <3>1, <3>2
  <2>. QED  BY <2>1, <2>4, <2>6 DEF Agreeing
<1>7. ASSUME NEW s \in Switchers, Swap(s) PROVE Agreeing'
  BY <1>7 DEF Swap, Agreeing, watchers, layouts
<1>8. ASSUME NEW s \in Switchers, ClosePrevious(s) PROVE Agreeing'
  BY <1>8 DEF ClosePrevious, Agreeing, layouts
<1>9. ASSUME NEW c \in Clients, Connect(c) \/ PeerGone(c) \/ Handler(c) PROVE Agreeing'
  <2>1. UNCHANGED <<closed, layouts, switching>>
    BY <1>9 DEF Connect, PeerGone, Handler, TakeWatcher, Subscribe, Send, HearClose, Unsubscribe, watchers
  <2>. QED  BY <2>1 DEF Agreeing, layouts, switching
<1>10. CASE UNCHANGED vars
  BY <1>10 DEF vars, watchers, layouts, switching, Agreeing
<1>. QED
  BY <1>1, <1>2, <1>3, <1>4, <1>5, <1>6, <1>7, <1>8, <1>9, <1>10 DEF Next, Switch

\* The served watcher, once it has taken every event, classifies paths by the layout of
\* the vault's settings, whichever vaults are switched to meanwhile: from the first event
\* on, and before unless it was given another layout.
THEOREM AgreeOnFolders == ASSUME ConstantsOK PROVE Spec => []FoldersAgree
<1>1. IInv /\ Agreeing => FoldersAgree
  BY DEF IInv, TypeOK, Switching, Agreeing, FoldersAgree, ConstantsOK, Watchers
<1>2. Init => Agreeing
  BY InitAgreeing
<1>3. IInv /\ Agreeing /\ [Next]_vars => Agreeing'
  BY NextAgreeing
<1>. QED  BY <1>1, <1>2, <1>3, Invariance, PTL DEF Spec

-----------------------------------------------------------------------------
\* HostConfig: the inductive invariant

\* What a request under way holds.
Holds(h) ==
    /\ request[h].pc \in {"grant", "save", "restore"} => request[h].token \in Tokens
    /\ request[h].pc \in {"save", "saveVault"} => request[h].copy \in Config

\* A rotation that is alone has nothing beside it, and saves the token that is asked for;
\* without an excuse every rotation is.
Alone ==
    /\ "overlap" \notin excuses => alone
    /\ alone => \A h \in Handlers :
         /\ Rotates(h) => \A g \in Handlers \ {h} : Stands(g, "idle")
         /\ Stands(h, "save") => request[h].copy.token = mem.token
         /\ Stands(h, "clear") => file.token = mem.token

\* Unless a rotation had another request beside it, requests know the tokens in memory and
\* in the file, which differ only until a rotation has saved or taken back its own.
Tokened ==
    "overlap" \notin excuses =>
        /\ ~Rotating => file.token = mem.token
        /\ \A h \in Handlers :
             /\ Stands(h, "grant") => request[h].token = mem.token
             /\ Stands(h, "saveVault") => request[h].copy.token = mem.token
             /\ request[h].pc \in {"save", "restore"} => file.token = request[h].token

\* Without an excuse sessions are of the token asked for, or that a rotation replaces.
Sessioned ==
    excuses = {} => \A s \in sessions :
        /\ ~Rotating => s.token = mem.token
        /\ \A h \in Handlers : request[h].pc \in {"save", "restore"} => s.token = request[h].token

\* No two sessions have one number, in the store or in the file.
Numbered ==
    /\ \A s, t \in sessions : s.id = t.id => s = t
    /\ \A s, t \in stored : s.id = t.id => s = t

\* A file that was written holds the sessions of the store.
Saved == persist /\ ~unsaved => stored = sessions

HostInv ==
    /\ HostTypeOK
    /\ \A h \in Handlers : Holds(h)
    /\ Alone
    /\ Tokened
    /\ Sessioned
    /\ Numbered
    /\ Saved
    /\ LoggedOutStaysOut

LEMMA InitHost == ASSUME HostConstantsOK PROVE HostInit => HostInv
<1> SUFFICES ASSUME HostInit PROVE HostInv
  OBVIOUS
<1>1. HostTypeOK
  <2>1. Idle \in [pc : HostSteps, token : Tokens \union {Absent}, copy : Config \union {Absent}]
    BY DEF Idle, HostSteps
  <2>2. request \in [Handlers -> [pc : HostSteps, token : Tokens \union {Absent}, copy : Config \union {Absent}]]
    BY <2>1 DEF HostInit
  <2>3. logins \in 0..MaxSessions /\ changes \in 0..MaxChanges /\ restarts \in 0..MaxRestarts
    BY DEF HostInit, HostConstantsOK
  <2>. QED  BY <2>2, <2>3 DEF HostInit, HostTypeOK
<1>2. \A h \in Handlers : request[h].pc = "idle"
  BY DEF HostInit, Idle
<1>3. ~Rotating /\ \A h \in Handlers : Holds(h)
  BY <1>2 DEF Rotating, Rotates, Holds
<1>4. Alone /\ Tokened
  BY <1>2, <1>3 DEF HostInit, Alone, Tokened, Rotates, Stands
<1>5. Sessioned /\ Numbered /\ Saved /\ LoggedOutStaysOut
  BY DEF HostInit, Sessioned, Numbered, Saved, LoggedOutStaysOut
<1>. QED  BY <1>1, <1>3, <1>4, <1>5 DEF HostInv

\* What becomes of the handlers when one of them moves.
LEMMA Moves ==
    ASSUME HostTypeOK, NEW h \in Handlers, NEW to \in HostSteps, NEW token \in Tokens \union {Absent},
           NEW copy \in Config \union {Absent}, Do(h, to, token, copy)
    PROVE  /\ request' \in [Handlers -> [pc : HostSteps, token : Tokens \union {Absent}, copy : Config \union {Absent}]]
           /\ request'[h] = [pc |-> to, token |-> token, copy |-> copy]
           /\ \A g \in Handlers \ {h} : request'[g] = request[g]
BY DEF HostTypeOK, Do

LEMMA Ceases ==
    ASSUME HostTypeOK, NEW h \in Handlers, Done(h)
    PROVE  /\ request' \in [Handlers -> [pc : HostSteps, token : Tokens \union {Absent}, copy : Config \union {Absent}]]
           /\ request'[h] = Idle
           /\ \A g \in Handlers \ {h} : request'[g] = request[g]
BY DEF HostTypeOK, Done, Idle, HostSteps

LEMMA LoginCheckHost ==
    ASSUME HostInv, NEW h \in Handlers, LoginCheck(h), HostConstantsOK PROVE HostInv'
<1> USE DEF HostInv
<1>1. mem.token \in Tokens /\ Do(h, "grant", mem.token, Absent)
  BY DEF HostTypeOK, Config, LoginCheck, Begin
<1>2. request' \in [Handlers -> [pc : HostSteps, token : Tokens \union {Absent}, copy : Config \union {Absent}]]
  BY <1>1, Moves DEF HostSteps
<1>3. request'[h] = [pc |-> "grant", token |-> mem.token, copy |-> Absent]
  BY <1>1, Moves DEF HostSteps
<1>4. \A g \in Handlers \ {h} : request'[g] = request[g]
  BY <1>1, Moves DEF HostSteps
<1>5. UNCHANGED <<persist, hostFiles, ended, changes, restarts>> /\ Stands(h, "idle")
  BY DEF LoginCheck
<1>6. HostTypeOK'
  BY <1>2, <1>5 DEF HostTypeOK, LoginCheck, Begin, hostFiles, Excuses, HostConstantsOK
<1>7. \A g \in Handlers : Holds(g)'
  BY <1>1, <1>3, <1>4 DEF Holds
<1>8. alone' = ~Rotating /\ excuses' = IF alone' THEN excuses ELSE excuses \union {"overlap"}
  BY DEF LoginCheck, Begin
<1>9. Rotating' <=> Rotating
  BY <1>3, <1>4, <1>5 DEF Rotating, Rotates, Stands
<1>10. Alone'
  BY <1>3, <1>4, <1>8, <1>9 DEF Alone, Rotating, Rotates, Stands
<1>11. Tokened'
  BY <1>3, <1>4, <1>5, <1>8, <1>9 DEF Tokened, Stands, hostFiles
<1>12. Sessioned'
  BY <1>3, <1>4, <1>5, <1>8, <1>9 DEF Sessioned, Stands, hostFiles
<1>13. Numbered' /\ Saved' /\ LoggedOutStaysOut'
  BY <1>5, <1>8 DEF Numbered, Saved, LoggedOutStaysOut, hostFiles
<1>. QED  BY <1>6, <1>7, <1>10, <1>11, <1>12, <1>13

LEMMA LoginGrantHost ==
    ASSUME HostInv, NEW h \in Handlers, LoginGrant(h), HostConstantsOK PROVE HostInv'
<1> USE DEF HostInv
<1>1. PICK n \in 1..logins :
         /\ \A s \in sessions \union stored : s.id # n
         /\ n \notin ended
         /\ sessions' = sessions \union {[id |-> n, token |-> request[h].token]}
  BY DEF LoginGrant
<1>2. request[h].pc = "grant" /\ Done(h) /\ Persisted
  BY DEF LoginGrant, Stands
<1>3. UNCHANGED <<persist, mem, file, ended, alone, excuses, hostBounds>>
  BY DEF LoginGrant
<1>4. request' \in [Handlers -> [pc : HostSteps, token : Tokens \union {Absent}, copy : Config \union {Absent}]]
  BY <1>2, Ceases
<1>5. request'[h].pc = "idle"
  BY <1>2, Ceases DEF Idle
<1>6. \A g \in Handlers \ {h} : request'[g] = request[g]
  BY <1>2, Ceases
<1>7. n \in 1..MaxSessions /\ request[h].token \in Tokens
  BY <1>2 DEF HostTypeOK, HostConstantsOK, Holds
<1>8. sessions' \in SUBSET Session
  BY <1>1, <1>7 DEF HostTypeOK, Session
<1>9. /\ stored' \in {sessions', stored, {}} /\ unsaved' \in BOOLEAN
      /\ persist /\ ~unsaved' => stored' = sessions'
  BY <1>2 DEF Persisted, HostTypeOK
<1>10. HostTypeOK'
  BY <1>3, <1>4, <1>8, <1>9 DEF HostTypeOK, hostBounds
<1>11. \A g \in Handlers : Holds(g)'
  BY <1>5, <1>6 DEF Holds
<1>12. Rotating' <=> Rotating
  BY <1>2, <1>5, <1>6 DEF Rotating, Rotates
<1>13. Alone'
  BY <1>3, <1>5, <1>6 DEF Alone, Rotates, Stands
<1>14. Tokened'
  BY <1>3, <1>5, <1>6, <1>12 DEF Tokened, Stands
<1>15. Sessioned'
  <2> SUFFICES ASSUME excuses = {} PROVE Sessioned'
    BY <1>3 DEF Sessioned
  <2>1. ~Rotating
    BY <1>2 DEF Alone, Rotating, Rotates, Stands
  <2>2. request[h].token = mem.token
    BY <1>2 DEF Tokened, Stands
  <2>. QED  BY <1>1, <1>3, <1>5, <1>6, <2>1, <2>2 DEF Sessioned, Rotating, Rotates
<1>16. Numbered' /\ Saved'
  BY <1>1, <1>3, <1>9 DEF Numbered, Saved
<1>17. LoggedOutStaysOut'
  BY <1>1, <1>3 DEF LoggedOutStaysOut
<1>. QED  BY <1>10, <1>11, <1>13, <1>14, <1>15, <1>16, <1>17

LEMMA LogoutHost ==
    ASSUME HostInv, NEW h \in Handlers, Logout(h), HostConstantsOK PROVE HostInv'
<1> USE DEF HostInv
<1>1. PICK s \in sessions : sessions' = sessions \ {s} /\ ended' = ended \union {s.id}
  BY DEF Logout
<1>2. UNCHANGED <<persist, mem, file, request, alone, excuses, hostBounds>> /\ Persisted
  BY DEF Logout
<1>3. /\ stored' \in {sessions', stored, {}} /\ unsaved' \in BOOLEAN
      /\ persist /\ ~unsaved' => stored' = sessions'
  BY <1>2 DEF Persisted, HostTypeOK
<1>4. HostTypeOK'
  BY <1>1, <1>2, <1>3 DEF HostTypeOK, hostBounds, Session
<1>5. (\A g \in Handlers : Holds(g)') /\ Alone' /\ Tokened'
  BY <1>2 DEF Holds, Alone, Tokened, Rotating, Rotates, Stands
<1>6. Sessioned' /\ Numbered' /\ Saved'
  BY <1>1, <1>2, <1>3 DEF Sessioned, Numbered, Saved, Rotating, Rotates
<1>7. LoggedOutStaysOut'
  BY <1>1, <1>2 DEF LoggedOutStaysOut, Numbered
<1>. QED  BY <1>4, <1>5, <1>6, <1>7

LEMMA RotateHost ==
    ASSUME HostInv, NEW h \in Handlers, Rotate(h), HostConstantsOK PROVE HostInv'
<1> USE DEF HostInv
<1>1. PICK t \in Tokens \ {mem.token} :
         /\ mem' = [mem EXCEPT !.token = t]
         /\ Begin(h, "save", mem.token, mem')
  BY DEF Rotate
<1>2. mem.token \in Tokens /\ mem' \in Config /\ mem'.token = t
  BY <1>1 DEF HostTypeOK, Config
<1>3. /\ request' \in [Handlers -> [pc : HostSteps, token : Tokens \union {Absent}, copy : Config \union {Absent}]]
      /\ request'[h] = [pc |-> "save", token |-> mem.token, copy |-> mem']
      /\ \A g \in Handlers \ {h} : request'[g] = request[g]
  BY <1>1, <1>2, Moves DEF HostSteps, Begin
<1>4. UNCHANGED <<persist, file, sessions, stored, unsaved, ended, logins, restarts>> /\ changes' \in 0..MaxChanges
  BY DEF Rotate, HostTypeOK, HostConstantsOK
<1>5. alone' = Quiet /\ excuses' = IF Quiet THEN excuses ELSE excuses \union {"overlap"}
  BY <1>1 DEF Begin
<1>6. HostTypeOK'
  BY <1>2, <1>3, <1>4, <1>5 DEF HostTypeOK, Quiet, Excuses
<1>7. \A g \in Handlers : Holds(g)'
  BY <1>2, <1>3 DEF Holds
<1>8. Rotating'
  BY <1>3 DEF Rotating, Rotates
<1>9. Quiet => ~Rotating /\ \A g \in Handlers \ {h} : request'[g].pc = "idle"
  BY <1>3 DEF Quiet, Stands, Rotating, Rotates
<1>10. Alone'
  BY <1>2, <1>3, <1>5, <1>9 DEF Alone, Rotates, Stands
<1>11. Tokened'
  <2> SUFFICES ASSUME "overlap" \notin excuses' PROVE Tokened'
    BY DEF Tokened
  <2>1. Quiet /\ "overlap" \notin excuses
    BY <1>5
  <2>. QED  BY <1>3, <1>4, <1>8, <1>9, <2>1 DEF Tokened, Stands
<1>12. Sessioned'
  <2> SUFFICES ASSUME excuses' = {} PROVE Sessioned'
    BY DEF Sessioned
  <2>1. Quiet /\ excuses = {}
    BY <1>5
  <2>. QED  BY <1>3, <1>4, <1>8, <1>9, <2>1 DEF Sessioned
<1>13. Numbered' /\ Saved' /\ LoggedOutStaysOut'
  BY <1>4, <1>5 DEF Numbered, Saved, LoggedOutStaysOut
<1>. QED  BY <1>6, <1>7, <1>10, <1>11, <1>12, <1>13

LEMMA RotateSaveHost ==
    ASSUME HostInv, NEW h \in Handlers, RotateSave(h), HostConstantsOK PROVE HostInv'
<1> USE DEF HostInv
<1>1. request[h].pc = "save" /\ request[h].copy \in Config /\ request[h].token \in Tokens
  BY DEF RotateSave, Stands, Holds
<1>2. UNCHANGED <<persist, mem, sessions, stored, unsaved, ended, alone, excuses, hostBounds>>
  BY DEF RotateSave
<1>3. \/ file' = request[h].copy /\ Do(h, "clear", Absent, Absent)
      \/ UNCHANGED file /\ Do(h, "restore", request[h].token, Absent)
  BY DEF RotateSave
<1>4. /\ request' \in [Handlers -> [pc : HostSteps, token : Tokens \union {Absent}, copy : Config \union {Absent}]]
      /\ \A g \in Handlers \ {h} : request'[g] = request[g]
      /\ \/ file' = request[h].copy /\ request'[h] = [pc |-> "clear", token |-> Absent, copy |-> Absent]
         \/ UNCHANGED file /\ request'[h] = [pc |-> "restore", token |-> request[h].token, copy |-> Absent]
  BY <1>1, <1>3, Moves DEF HostSteps
<1>5. HostTypeOK'
  BY <1>1, <1>2, <1>4 DEF HostTypeOK, hostBounds
<1>6. \A g \in Handlers : Holds(g)'
  BY <1>1, <1>4 DEF Holds
<1>7. Rotating /\ Rotating'
  BY <1>1, <1>4 DEF Rotating, Rotates
<1>8. alone => \A g \in Handlers \ {h} : request[g].pc = "idle"
  BY <1>1 DEF Alone, Rotates, Stands
<1>9. Alone'
  BY <1>1, <1>2, <1>4, <1>8 DEF Alone, Rotates, Stands
<1>10. Tokened'
  <2> SUFFICES ASSUME "overlap" \notin excuses PROVE Tokened'
    BY <1>2 DEF Tokened
  <2>1. \A g \in Handlers \ {h} : request'[g].pc = "idle"
    BY <1>4, <1>8 DEF Alone
  <2>. QED  BY <1>1, <1>2, <1>4, <1>7, <2>1 DEF Tokened, Stands
<1>11. Sessioned'
  BY <1>1, <1>2, <1>4, <1>7 DEF Sessioned
<1>12. Numbered' /\ Saved' /\ LoggedOutStaysOut'
  BY <1>2 DEF Numbered, Saved, LoggedOutStaysOut
<1>. QED  BY <1>5, <1>6, <1>9, <1>10, <1>11, <1>12

LEMMA RotateRestoreHost ==
    ASSUME HostInv, NEW h \in Handlers, RotateRestore(h), HostConstantsOK PROVE HostInv'
<1> USE DEF HostInv
<1>1. request[h].pc = "restore" /\ request[h].token \in Tokens /\ Done(h)
  BY DEF RotateRestore, Stands, Holds
<1>2. UNCHANGED <<persist, file, sessions, stored, unsaved, ended, alone, excuses, hostBounds>>
  BY DEF RotateRestore
<1>3. mem' \in Config /\ mem'.token = request[h].token
  BY <1>1 DEF RotateRestore, HostTypeOK, Config
<1>4. /\ request' \in [Handlers -> [pc : HostSteps, token : Tokens \union {Absent}, copy : Config \union {Absent}]]
      /\ request'[h].pc = "idle"
      /\ \A g \in Handlers \ {h} : request'[g] = request[g]
  BY <1>1, Ceases DEF Idle
<1>5. HostTypeOK'
  BY <1>2, <1>3, <1>4 DEF HostTypeOK, hostBounds
<1>6. \A g \in Handlers : Holds(g)'
  BY <1>4 DEF Holds
<1>7. alone => \A g \in Handlers : request'[g].pc = "idle"
  BY <1>1, <1>4 DEF Alone, Rotates, Stands
<1>8. Alone'
  BY <1>2, <1>7 DEF Alone, Rotates, Stands
<1>9. Tokened'
  <2> SUFFICES ASSUME "overlap" \notin excuses PROVE Tokened'
    BY <1>2 DEF Tokened
  <2>1. \A g \in Handlers : request'[g].pc = "idle"
    BY <1>7 DEF Alone
  <2>2. file.token = request[h].token
    BY <1>1 DEF Tokened
  <2>. QED  BY <1>2, <1>3, <2>1, <2>2 DEF Tokened, Stands
<1>10. Sessioned'
  <2> SUFFICES ASSUME excuses = {} PROVE Sessioned'
    BY <1>2 DEF Sessioned
  <2>1. \A g \in Handlers : request'[g].pc = "idle"
    BY <1>7 DEF Alone
  <2>. QED  BY <1>1, <1>2, <1>3, <2>1 DEF Sessioned
<1>11. Numbered' /\ Saved' /\ LoggedOutStaysOut'
  BY <1>2 DEF Numbered, Saved, LoggedOutStaysOut
<1>. QED  BY <1>5, <1>6, <1>8, <1>9, <1>10, <1>11

LEMMA RotateClearHost ==
    ASSUME HostInv, NEW h \in Handlers, RotateClear(h), HostConstantsOK PROVE HostInv'
<1> USE DEF HostInv
<1>1. request[h].pc = "clear" /\ Done(h) /\ Persisted
  BY DEF RotateClear, Stands
<1>2. UNCHANGED <<persist, mem, file, alone, hostBounds>>
  BY DEF RotateClear
<1>3. /\ sessions' = {} /\ ended' = ended \union {s.id : s \in sessions}
      /\ excuses' = IF alone THEN {} ELSE excuses \ {"stale", "cut"}
  BY DEF RotateClear
<1>4. /\ request' \in [Handlers -> [pc : HostSteps, token : Tokens \union {Absent}, copy : Config \union {Absent}]]
      /\ request'[h].pc = "idle"
      /\ \A g \in Handlers \ {h} : request'[g] = request[g]
  BY <1>1, Ceases DEF Idle
<1>5. /\ stored' \in {{}, stored} /\ unsaved' \in BOOLEAN
      /\ persist /\ ~unsaved' => stored' = {}
  BY <1>1, <1>3 DEF Persisted, HostTypeOK
<1>6. HostTypeOK'
  BY <1>2, <1>3, <1>4, <1>5 DEF HostTypeOK, hostBounds, Session
<1>7. \A g \in Handlers : Holds(g)'
  BY <1>4 DEF Holds
<1>8. alone => \A g \in Handlers : request'[g].pc = "idle"
  BY <1>1, <1>4 DEF Alone, Rotates, Stands
<1>9. Alone'
  BY <1>2, <1>3, <1>8 DEF Alone, Rotates, Stands
<1>10. Tokened'
  <2> SUFFICES ASSUME "overlap" \notin excuses' PROVE Tokened'
    BY DEF Tokened
  <2>1. alone
    BY <1>3 DEF Alone
  <2>2. file.token = mem.token
    BY <1>1, <2>1 DEF Alone, Stands
  <2>. QED  BY <1>2, <1>8, <2>1, <2>2 DEF Tokened, Stands
<1>11. Sessioned' /\ Numbered' /\ Saved' /\ LoggedOutStaysOut'
  BY <1>2, <1>3, <1>5 DEF Saved, Sessioned, Numbered, LoggedOutStaysOut
<1>. QED  BY <1>6, <1>7, <1>9, <1>10, <1>11

LEMMA SelectVaultHost ==
    ASSUME HostInv, NEW h \in Handlers, SelectVault(h), HostConstantsOK PROVE HostInv'
<1> USE DEF HostInv
<1>1. PICK v \in Vaults \ {mem.vault} :
         mem' = [mem EXCEPT !.vault = v] /\ Begin(h, "saveVault", Absent, mem')
  BY DEF SelectVault
<1>2. mem' \in Config /\ mem'.token = mem.token /\ Stands(h, "idle")
  BY <1>1 DEF HostTypeOK, Config, SelectVault
<1>3. /\ request' \in [Handlers -> [pc : HostSteps, token : Tokens \union {Absent}, copy : Config \union {Absent}]]
      /\ request'[h] = [pc |-> "saveVault", token |-> Absent, copy |-> mem']
      /\ \A g \in Handlers \ {h} : request'[g] = request[g]
  BY <1>1, <1>2, Moves DEF HostSteps, Begin
<1>4. UNCHANGED <<persist, file, sessions, stored, unsaved, ended, logins, restarts>> /\ changes' \in 0..MaxChanges
  BY DEF SelectVault, HostTypeOK, HostConstantsOK
<1>5. alone' = ~Rotating /\ excuses' = IF alone' THEN excuses ELSE excuses \union {"overlap"}
  BY <1>1 DEF Begin
<1>6. HostTypeOK'
  BY <1>2, <1>3, <1>4, <1>5 DEF HostTypeOK, Excuses
<1>7. \A g \in Handlers : Holds(g)'
  BY <1>2, <1>3 DEF Holds
<1>8. Rotating' <=> Rotating
  BY <1>2, <1>3 DEF Rotating, Rotates, Stands
<1>9. Alone'
  BY <1>2, <1>3, <1>5, <1>8 DEF Alone, Rotating, Rotates, Stands
<1>10. Tokened'
  BY <1>2, <1>3, <1>4, <1>5, <1>8 DEF Tokened, Stands
<1>11. Sessioned'
  BY <1>2, <1>3, <1>4, <1>5, <1>8 DEF Sessioned
<1>12. Numbered' /\ Saved' /\ LoggedOutStaysOut'
  BY <1>4, <1>5 DEF Numbered, Saved, LoggedOutStaysOut
<1>. QED  BY <1>6, <1>7, <1>9, <1>10, <1>11, <1>12

LEMMA SelectSaveHost ==
    ASSUME HostInv, NEW h \in Handlers, SelectSave(h), HostConstantsOK PROVE HostInv'
<1> USE DEF HostInv
<1>1. request[h].pc = "saveVault" /\ request[h].copy \in Config /\ Done(h)
  BY DEF SelectSave, Stands, Holds
<1>2. UNCHANGED <<persist, mem, sessions, stored, unsaved, ended, alone, excuses, hostBounds>>
  BY DEF SelectSave
<1>3. file' \in {file, request[h].copy}
  BY DEF SelectSave
<1>4. /\ request' \in [Handlers -> [pc : HostSteps, token : Tokens \union {Absent}, copy : Config \union {Absent}]]
      /\ request'[h].pc = "idle"
      /\ \A g \in Handlers \ {h} : request'[g] = request[g]
  BY <1>1, Ceases DEF Idle
<1>5. HostTypeOK'
  BY <1>1, <1>2, <1>3, <1>4 DEF HostTypeOK, hostBounds
<1>6. \A g \in Handlers : Holds(g)'
  BY <1>4 DEF Holds
<1>7. Rotating' <=> Rotating
  BY <1>1, <1>4 DEF Rotating, Rotates
<1>8. alone => ~Rotating
  BY <1>1 DEF Alone, Rotating, Rotates, Stands
<1>9. Alone'
  BY <1>2, <1>4, <1>7, <1>8 DEF Alone, Rotating, Rotates, Stands
<1>10. Tokened'
  <2> SUFFICES ASSUME "overlap" \notin excuses PROVE Tokened'
    BY <1>2 DEF Tokened
  <2>1. ~Rotating /\ ~Rotating'
    BY <1>7, <1>8 DEF Alone
  <2>2. file.token = mem.token /\ request[h].copy.token = mem.token
    BY <1>1, <2>1 DEF Tokened, Stands
  <2>3. \A g \in Handlers : request'[g].pc \notin {"save", "restore"}
    BY <2>1 DEF Rotating, Rotates
  <2>. QED  BY <1>2, <1>3, <1>4, <2>2, <2>3 DEF Tokened, Stands
<1>11. Sessioned'
  BY <1>2, <1>4, <1>7 DEF Sessioned
<1>12. Numbered' /\ Saved' /\ LoggedOutStaysOut'
  BY <1>2 DEF Numbered, Saved, LoggedOutStaysOut
<1>. QED  BY <1>5, <1>6, <1>9, <1>10, <1>11, <1>12

LEMMA RestartHost ==
    ASSUME HostInv, Restart, HostConstantsOK PROVE HostInv'
<1> USE DEF HostInv
<1>1. /\ mem' = file /\ unsaved' = FALSE /\ alone' = TRUE /\ restarts < MaxRestarts /\ restarts' = restarts + 1
      /\ sessions' = IF persist THEN stored ELSE {}
      /\ request' = [h \in Handlers |-> Idle]
      /\ UNCHANGED <<persist, file, stored, ended, logins, changes>>
  BY DEF Restart
<1>2. excuses' = excuses
          \union {e \in {"stale"} : unsaved}
          \union {e \in {"cut"} : persist /\ \E h \in Handlers : Stands(h, "clear")}
  BY DEF Restart
<1>3. HostTypeOK'
  <2>1. excuses' \in SUBSET Excuses
    BY <1>2 DEF HostTypeOK, Excuses
  <2>2. restarts' \in 0..MaxRestarts /\ sessions' \in SUBSET Session
    BY <1>1 DEF HostTypeOK, HostConstantsOK
  <2>3. Idle \in [pc : HostSteps, token : Tokens \union {Absent}, copy : Config \union {Absent}]
    BY DEF Idle, HostSteps
  <2>. QED  BY <1>1, <2>1, <2>2, <2>3 DEF HostTypeOK
<1>4. \A h \in Handlers : request'[h].pc = "idle"
  BY <1>1 DEF Idle
<1>5. (\A h \in Handlers : Holds(h)') /\ ~Rotating'
  BY <1>4 DEF Holds, Rotating, Rotates
<1>6. Alone' /\ Tokened'
  BY <1>1, <1>4 DEF Alone, Tokened, Rotates, Stands
<1>7. Sessioned'
  <2> SUFFICES ASSUME excuses' = {}, persist PROVE \A s \in stored : s.token = file.token
    BY <1>1, <1>4 DEF Sessioned
  <2>1. excuses = {} /\ stored = sessions
    BY <1>1, <1>2 DEF Saved
  <2>2. \A h \in Handlers : request[h].pc # "clear"
    BY <1>2 DEF Stands
  <2>3. CASE Rotating
    <3>1. PICK h \in Handlers : request[h].pc \in {"save", "restore"}
      BY <2>2, <2>3 DEF Rotating, Rotates
    <3>. QED  BY <2>1, <3>1 DEF Sessioned, Tokened
  <2>4. CASE ~Rotating
    BY <2>1, <2>4 DEF Sessioned, Tokened
  <2>. QED  BY <2>3, <2>4
<1>8. Numbered' /\ Saved'
  BY <1>1 DEF Numbered, Saved
<1>9. LoggedOutStaysOut'
  BY <1>1, <1>2 DEF LoggedOutStaysOut, Saved
<1>. QED  BY <1>3, <1>5, <1>6, <1>7, <1>8, <1>9

LEMMA NextHost == ASSUME HostConstantsOK PROVE HostInv /\ [HostNext]_hostVars => HostInv'
<1> SUFFICES ASSUME HostInv, [HostNext]_hostVars PROVE HostInv'
  OBVIOUS
<1>1. CASE UNCHANGED hostVars
  BY <1>1 DEF hostVars, hostFiles, hostBounds, HostInv, HostTypeOK, Holds, Alone, Tokened, Sessioned,
     Numbered, Saved, LoggedOutStaysOut, Rotating, Rotates, Stands
<1>2. CASE Restart
  BY <1>2, RestartHost
<1>3. ASSUME NEW h \in Handlers, Request(h) PROVE HostInv'
  BY <1>3, LoginCheckHost, LoginGrantHost, LogoutHost, RotateHost, RotateSaveHost, RotateRestoreHost,
     RotateClearHost, SelectVaultHost, SelectSaveHost DEF Request
<1>. QED  BY <1>1, <1>2, <1>3 DEF HostNext

\* Requests, the token in memory and the one in the file, and sessions keep what is known
\* of them.
THEOREM HostInvariance == ASSUME HostConstantsOK PROVE HostSpec => []HostInv
<1>. QED  BY InitHost, NextHost, PTL DEF HostSpec

\* Every variable keeps its type.
THEOREM HostTypeCorrect == ASSUME HostConstantsOK PROVE HostSpec => []HostTypeOK
<1>1. HostInv => HostTypeOK
  BY DEF HostInv
<1>. QED  BY <1>1, HostInvariance, PTL

\* Any number of requests at a time, restarts at any moment and writes that fail: a
\* session that was ended stays so, the token asked for is the one that was saved, and
\* sessions are of that token, but for the excuses.
THEOREM SessionsDoEnd == ASSUME HostConstantsOK PROVE HostSpec => []SessionsEnd
<1>1. HostInv => SessionsEnd
  BY DEF HostInv, Tokened, Sessioned, SessionsEnd, SessionsOfToken, TokenKept
<1>. QED  BY <1>1, HostInvariance, PTL

-----------------------------------------------------------------------------
\* AttemptLimiter

Older(a) == {c \in recent : c > a}

\* The attempts that are kept are those let through, and each waited the delay of the
\* number of those before it.
LimitInv ==
    /\ LimitTypeOK
    /\ InWindow(hits) = recent
    /\ Cardinality(recent) <= MaxHits
    /\ \A a, b \in recent : a < b => b - a >= Delay(Cardinality(Older(a)))

\* Attempts of the window are finitely many, and those older than one of them are fewer
\* than all, and one at least if there is another.
LEMMA Ages ==
    ASSUME LimitConstantsOK, recent \in SUBSET (0..(Window - 1))
    PROVE  /\ IsFiniteSet(recent) /\ Cardinality(recent) \in Nat
           /\ \A a \in recent : IsFiniteSet(Older(a)) /\ Cardinality(Older(a)) \in 0..(Cardinality(recent) - 1)
           /\ \A a, b \in recent : a < b => Cardinality(Older(a)) >= 1
<1>1. IsFiniteSet(0..(Window - 1))
  BY FS_Interval DEF LimitConstantsOK
<1>2. IsFiniteSet(recent)
  BY <1>1, FS_Subset
<1>3. Cardinality(recent) \in Nat
  BY <1>2, FS_CardinalityType
<1>4. ASSUME NEW a \in recent
      PROVE  IsFiniteSet(Older(a)) /\ Cardinality(Older(a)) \in 0..(Cardinality(recent) - 1)
  <2>1. Older(a) \in SUBSET recent /\ Older(a) # recent
    BY DEF Older, LimitConstantsOK
  <2>2. IsFiniteSet(Older(a)) /\ Cardinality(Older(a)) <= Cardinality(recent)
        /\ Cardinality(Older(a)) # Cardinality(recent)
    BY <1>2, <2>1, FS_Subset
  <2>3. Cardinality(Older(a)) \in Nat
    BY <2>2, FS_CardinalityType
  <2>. QED  BY <1>3, <2>2, <2>3
<1>5. ASSUME NEW a \in recent, NEW b \in recent, a < b PROVE Cardinality(Older(a)) >= 1
  <2>1. Older(a) # {}
    BY <1>5 DEF Older
  <2>2. Cardinality(Older(a)) # 0
    BY <1>4, <2>1, FS_EmptySet
  <2>. QED  BY <1>4, <2>2
<1>. QED  BY <1>2, <1>3, <1>4, <1>5

LEMMA InitLimit == ASSUME LimitConstantsOK PROVE LimitInit => LimitInv
BY FS_EmptySet DEF LimitInit, LimitInv, LimitTypeOK, InWindow, LimitConstantsOK

LEMMA AllowLimit ==
    ASSUME LimitConstantsOK, LimitInv, NEW h \in Attempters, Allow(h) PROVE LimitInv'
<1> USE DEF LimitInv
<1>1. /\ hits' = recent \union {0} /\ recent' = recent \union {0}
      /\ \A a \in recent : a >= Delay(Cardinality(recent))
      /\ Cardinality(recent) < MaxHits
  BY DEF Allow, Allowed
<1>2. recent \in SUBSET (0..(Window - 1))
  BY DEF LimitTypeOK
<1>3. LimitTypeOK' /\ InWindow(hits') = recent'
  <2>1. 0 \in 0..(Window - 1) /\ recent \subseteq 0..Window
    BY <1>2 DEF LimitConstantsOK
  <2>2. LimitTypeOK'
    <3>1. checks' \in [Attempters -> {"idle", "check"}]
      BY DEF Allow, LimitTypeOK
    <3>2. 0 \in 0..Window
      BY DEF LimitConstantsOK
    <3>. QED  BY <1>1, <1>2, <2>1, <3>1, <3>2 DEF LimitTypeOK
  <2>3. \A a \in recent' : a < Window
    BY <1>1, <1>2, <2>1 DEF LimitConstantsOK
  <2>. QED  BY <1>1, <2>2, <2>3 DEF InWindow
<1>4. IsFiniteSet(recent) /\ Cardinality(recent) \in Nat
  BY <1>2, Ages
<1>5. 0 \notin recent
  <2> SUFFICES ASSUME 0 \in recent PROVE FALSE
    OBVIOUS
  <2>1. Cardinality(recent) # 0
    BY <1>4, FS_EmptySet
  <2>2. Delay(Cardinality(recent)) \in Nat \ {0}
    BY <1>1, <1>4, <2>1 DEF LimitConstantsOK
  <2>. QED  BY <1>1, <2>2
<1>6. Cardinality(recent') <= MaxHits
  <2>1. Cardinality(recent \union {0}) = Cardinality(recent) + 1
    BY <1>4, <1>5, FS_AddElement
  <2>. QED  BY <1>1, <1>4, <2>1 DEF LimitConstantsOK
<1>7. ASSUME NEW a \in recent', NEW b \in recent', a < b
      PROVE  b - a >= Delay(Cardinality({c \in recent' : c > a}))
  <2>1. CASE a = 0
    <3>1. {c \in recent' : c > 0} = recent /\ b \in recent
      <4>1. \A c \in recent : c \in Nat /\ c > 0
        BY <1>2, <1>5 DEF LimitConstantsOK
      <4>2. b # 0
        BY <1>1, <1>7, <2>1, <4>1
      <4>. QED  BY <1>1, <4>1, <4>2
    <3>2. b - a = b
      BY <1>2, <2>1, <3>1 DEF LimitConstantsOK
    <3>. QED  BY <1>1, <2>1, <3>1, <3>2
  <2>2. CASE a # 0
    <3>1. a \in recent /\ b \in recent
      BY <1>1, <1>2, <1>7, <2>2 DEF LimitConstantsOK
    <3>2. {c \in recent' : c > a} = Older(a)
      BY <1>1, <1>2, <3>1 DEF Older, LimitConstantsOK
    <3>. QED  BY <1>7, <3>1, <3>2
  <2>. QED  BY <2>1, <2>2
<1>. QED  BY <1>3, <1>6, <1>7 DEF Older

\* What becomes older by one is no more than it was.
LEMMA Shifted ==
    ASSUME NEW S \in SUBSET Nat, IsFiniteSet(S), NEW T \in SUBSET {a + 1 : a \in S}
    PROVE  IsFiniteSet(T) /\ Cardinality(T) <= Cardinality(S)
<1> DEFINE f == [x \in T |-> x - 1]
<1>1. \A x \in T : x \in Nat /\ x - 1 \in S
  OBVIOUS
<1>2. f \in Injection(T, S)
  BY <1>1 DEF Injection, IsInjective
<1>. QED  BY <1>2, FS_Injection

LEMMA TickLimit ==
    ASSUME LimitConstantsOK, LimitInv, Tick PROVE LimitInv'
<1> USE DEF LimitInv
<1>1. /\ hits' = {IF a < Window THEN a + 1 ELSE Window : a \in hits}
      /\ recent' = {x \in {a + 1 : a \in recent} : x < Window}
      /\ UNCHANGED checks
  BY DEF Tick, InWindow
<1>2. recent \in SUBSET (0..(Window - 1)) /\ hits \in SUBSET (0..Window) /\ recent = {a \in hits : a < Window}
  BY DEF LimitTypeOK, InWindow
<1>3. \A x : x \in recent' <=> \E a \in recent : x = a + 1 /\ a + 1 < Window
  BY <1>1
<1>4. LimitTypeOK'
  BY <1>1, <1>2, <1>3 DEF LimitTypeOK, LimitConstantsOK
<1>5. InWindow(hits') = recent'
  <2>1. ASSUME NEW x \in hits', x < Window PROVE x \in recent'
    BY <1>1, <1>2, <1>3, <2>1 DEF LimitConstantsOK
  <2>2. ASSUME NEW x \in recent' PROVE x \in hits' /\ x < Window
    <3>1. PICK a \in recent : x = a + 1 /\ a + 1 < Window
      BY <1>3
    <3>2. a \in hits /\ a < Window
      BY <1>2
    <3>. QED  BY <1>1, <3>1, <3>2
  <2>. QED  BY <2>1, <2>2 DEF InWindow
<1>6. IsFiniteSet(recent) /\ Cardinality(recent) \in Nat /\ recent \in SUBSET Nat
  BY <1>2, Ages DEF LimitConstantsOK
<1>7. Cardinality(recent') <= MaxHits
  <2>1. recent' \in SUBSET {a + 1 : a \in recent}
    BY <1>1
  <2>2. IsFiniteSet(recent') /\ Cardinality(recent') <= Cardinality(recent)
    BY <1>6, <2>1, Shifted
  <2>3. Cardinality(recent') \in Nat
    BY <2>2, FS_CardinalityType
  <2>. QED  BY <1>6, <2>2, <2>3 DEF LimitConstantsOK
<1>8. ASSUME NEW x \in recent', NEW y \in recent', x < y
      PROVE  y - x >= Delay(Cardinality({c \in recent' : c > x}))
  <2>1. PICK a \in recent : x = a + 1
    BY <1>3
  <2>2. PICK b \in recent : y = b + 1
    BY <1>3
  <2>3. a < b /\ b - a = y - x
    BY <1>6, <1>8, <2>1, <2>2
  <2> DEFINE T == {c \in recent' : c > x}
  <2>4. T \in SUBSET {c + 1 : c \in Older(a)}
    <3> SUFFICES ASSUME NEW z \in T PROVE \E c \in Older(a) : z = c + 1
      OBVIOUS
    <3>1. PICK c \in recent : z = c + 1
      BY <1>3
    <3>. QED  BY <1>6, <2>1, <3>1 DEF Older
  <2>5. IsFiniteSet(Older(a)) /\ Older(a) \in SUBSET Nat /\ Cardinality(Older(a)) \in 1..MaxHits
    <3>1. IsFiniteSet(Older(a)) /\ Cardinality(Older(a)) \in 0..(Cardinality(recent) - 1)
      BY <1>2, Ages
    <3>2. Cardinality(Older(a)) >= 1
      BY <1>2, <2>3, Ages
    <3>3. Older(a) \in SUBSET Nat
      BY <1>6 DEF Older
    <3>. QED  BY <1>6, <3>1, <3>2, <3>3 DEF LimitConstantsOK
  <2>6. IsFiniteSet(T) /\ Cardinality(T) <= Cardinality(Older(a))
    BY <2>4, <2>5, Shifted
  <2>7. Cardinality(T) \in Nat /\ Cardinality(T) # 0
    <3>1. y \in T
      BY <1>8
    <3>. QED  BY <2>6, <3>1, FS_CardinalityType, FS_EmptySet
  <2>8. Cardinality(T) \in 1..Cardinality(Older(a))
    BY <2>5, <2>6, <2>7
  <2>9. /\ Delay(Cardinality(T)) <= Delay(Cardinality(Older(a)))
        /\ Delay(Cardinality(T)) \in Nat /\ Delay(Cardinality(Older(a))) \in Nat
    BY <2>5, <2>8 DEF LimitConstantsOK
  <2>10. b - a >= Delay(Cardinality(Older(a)))
    BY <2>3
  <2>. QED  BY <1>6, <2>3, <2>9, <2>10
<1>. QED  BY <1>4, <1>5, <1>7, <1>8 DEF Older

LEMMA NextLimit == ASSUME LimitConstantsOK PROVE LimitInv /\ [LimitNext]_limitVars => LimitInv'
<1> SUFFICES ASSUME LimitInv, [LimitNext]_limitVars PROVE LimitInv'
  OBVIOUS
<1>1. CASE UNCHANGED limitVars
  BY <1>1 DEF limitVars, LimitInv, LimitTypeOK, InWindow, Older
<1>2. CASE Tick
  BY <1>2, TickLimit
<1>3. ASSUME NEW h \in Attempters, Allow(h) PROVE LimitInv'
  BY <1>3, AllowLimit
<1>4. ASSUME NEW h \in Attempters, Refuse(h) PROVE LimitInv'
  BY <1>4 DEF Refuse, LimitInv, LimitTypeOK, InWindow, Older
<1>5. ASSUME NEW h \in Attempters, Answer(h) PROVE LimitInv'
  <2>1. checks' \in [Attempters -> {"idle", "check"}]
    BY <1>5 DEF Answer, LimitInv, LimitTypeOK
  <2>2. CASE hits' = {} /\ recent' = {}
    BY <2>1, <2>2, FS_EmptySet DEF LimitInv, LimitTypeOK, InWindow, LimitConstantsOK
  <2>3. CASE UNCHANGED <<hits, recent>>
    BY <2>1, <2>3 DEF LimitInv, LimitTypeOK, InWindow, Older
  <2>. QED  BY <1>5, <2>2, <2>3 DEF Answer
<1>. QED  BY <1>1, <1>2, <1>3, <1>4, <1>5 DEF LimitNext, Attempt

\* The attempts kept are those let through, and they are spaced by their delays.
THEOREM LimitInvariance == ASSUME LimitConstantsOK PROVE LimitSpec => []LimitInv
<1>. QED  BY InitLimit, NextLimit, PTL DEF LimitSpec

\* Any number of requests at a time, whoever is right: a window holds no more attempts
\* than its limit, and each waited what it costs.
THEOREM AttemptsDoCost == ASSUME LimitConstantsOK PROVE LimitSpec => []AttemptsCost
<1>1. LimitInv => AttemptsCost
  <2> SUFFICES ASSUME LimitInv, NEW a \in recent, NEW b \in recent, a < b
               PROVE  b - a >= Cost(Cardinality(Older(a)))
    BY DEF LimitInv, AttemptsCost, Older
  <2>1. Cardinality(Older(a)) \in 1..MaxHits
    BY Ages DEF LimitInv, LimitTypeOK, LimitConstantsOK
  <2>2. /\ Cost(Cardinality(Older(a))) <= Delay(Cardinality(Older(a)))
        /\ Cost(Cardinality(Older(a))) \in Nat /\ Delay(Cardinality(Older(a))) \in Nat
    BY <2>1 DEF LimitConstantsOK
  <2>3. b - a >= Delay(Cardinality(Older(a))) /\ b - a \in Int
    BY DEF LimitInv, LimitTypeOK, LimitConstantsOK
  <2>. QED  BY <2>2, <2>3
<1>. QED  BY <1>1, LimitInvariance, PTL

-----------------------------------------------------------------------------
\* WebInstall

\* Nothing is neither a tree nor an installation.
NothingApart == Nothing \notin SUBSET File /\ Nothing \notin Running

-----------------------------------------------------------------------------
\* WebInstall: the inductive invariant

Holding == InstallSteps \ {"lock"}

\* What is known of an installation under way: its manifest is valid, its call is its
\* own; it has unpacked nothing that is not declared, and all of it when it publishes;
\* it answers for what is there; and its work directory is there between its making
\* and its sweeping.
Known(i) ==
    run[i] # Nothing =>
        /\ Valid(run[i].manifest)
        /\ run[i].call <= calls
        /\ run[i].pc \in Holding => lock
        /\ run[i].stage \subseteq Tree(run[i].manifest)
        /\ run[i].pc = "publish" => Tree(run[i].manifest) \subseteq run[i].stage
        /\ run[i].ok => run[i].pc \in {"sweep", "unlock"} /\ dest = Tree(run[i].manifest)
        /\ run[i].pc \in {"lock", "look", "work"} => run[i].call \notin works
        /\ run[i].pc = "unlock" => run[i].call \notin works \ abandoned

\* Two installations are different calls, and one of them holds no lock.
Apart ==
    \A i, j \in Installers : i # j /\ run[i] # Nothing /\ run[j] # Nothing =>
        /\ run[i].call # run[j].call
        /\ run[i].pc = "lock" \/ run[j].pc = "lock"

\* What is in the way has an owner.
Owned ==
    /\ \A c \in works \ abandoned :
         \E i \in Installers : run[i] # Nothing /\ run[i].pc \in Holding /\ run[i].call = c
    /\ lock => abandoned # {} \/ \E i \in Installers : run[i] # Nothing /\ run[i].pc \in Holding

InstallInv ==
    /\ InstallTypeOK
    /\ \A i \in Installers : Known(i)
    /\ Apart
    /\ Owned
    /\ PublishedWhole

LEMMA InitInstall == ASSUME InstallConstantsOK PROVE InstallInit => InstallInv
<1> SUFFICES ASSUME InstallInit PROVE InstallInv
  OBVIOUS
<1>1. InstallTypeOK
  <2>1. dest \in {Nothing} \union SUBSET File
    BY DEF InstallConstantsOK, InstallInit
  <2>2. run \in [Installers -> Running \union {Nothing}]
    BY DEF InstallInit
  <2>3. lock \in BOOLEAN /\ works = {} /\ abandoned = {} /\ answers = {}
    BY DEF InstallInit
  <2>4. calls \in 0..MaxCalls /\ faults \in 0..Faults /\ deaths \in 0..Deaths
    BY DEF InstallInit, InstallConstantsOK
  <2>. QED  BY <2>1, <2>2, <2>3, <2>4 DEF InstallTypeOK
<1>2. \A i \in Installers : run[i] = Nothing
  BY DEF InstallInit
<1>3. Apart /\ Owned /\ \A i \in Installers : Known(i)
  BY <1>2 DEF InstallInit, Apart, Owned, Known
<1>4. PublishedWhole
  BY DEF InstallInit, PublishedWhole
<1>. QED  BY <1>1, <1>3, <1>4 DEF InstallInv

-----------------------------------------------------------------------------
\* What a step of one installation leaves true of the others

\* A step without the lock: the tree and the work directories stay.
LEMMA OthersWithout ==
  ASSUME InstallInv, NEW i \in Installers,
         UNCHANGED <<dest, works>>, lock => lock', abandoned \subseteq abandoned',
         calls' \in Nat, calls <= calls',
         \A j \in Installers \ {i} : run'[j] = run[j]
  PROVE  \A j \in Installers \ {i} : Known(j)'
<1>1. /\ calls \in Nat
      /\ \A j \in Installers : run[j] # Nothing => run[j] \in Running /\ run[j].call \in Nat
  BY DEF InstallInv, InstallTypeOK, Running
<1>. QED  BY <1>1 DEF InstallInv, Known

\* A step with it: the others have not looked at the tree yet, and their work
\* directories are not there.
LEMMA OthersWith ==
  ASSUME InstallInv, NEW i \in Installers, run[i] # Nothing, run[i].pc \in Holding,
         works' \subseteq works \union {run[i].call},
         calls' = calls,
         \A j \in Installers \ {i} : run'[j] = run[j]
  PROVE  \A j \in Installers \ {i} : Known(j)'
<1>1. /\ calls \in Nat
      /\ \A j \in Installers : run[j] # Nothing => run[j] \in Running /\ run[j].call \in Nat
  BY DEF InstallInv, InstallTypeOK, Running
<1>2. ASSUME NEW j \in Installers \ {i}, run[j] # Nothing
      PROVE  run[j].pc = "lock" /\ run[j].call # run[i].call
  BY <1>2 DEF InstallInv, Apart, Holding
<1>. QED  BY <1>1, <1>2 DEF InstallInv, Known, Holding

\* What a step with the lock that goes on keeps apart and owned.
LEMMA GoesOn ==
  ASSUME InstallInv, NEW i \in Installers, run[i] # Nothing, run[i].pc \in Holding,
         NEW r, r # Nothing, r.pc \in Holding, r.call = run[i].call,
         run' = [run EXCEPT ![i] = r],
         works' \subseteq works \union {run[i].call}, abandoned \subseteq abandoned'
  PROVE  Apart' /\ Owned'
<1>1. run'[i] = r /\ \A j \in Installers \ {i} : run'[j] = run[j]
  BY DEF InstallInv, InstallTypeOK
<1>2. Apart'
  BY <1>1 DEF InstallInv, Apart, Holding
<1>3. Owned'
  BY <1>1 DEF InstallInv, Owned, Apart, Holding
<1>. QED  BY <1>2, <1>3

\* What an installation of which nothing but the step changes is known to be.
LEMMA Steady ==
  ASSUME InstallInv, NEW i \in Installers, run[i] # Nothing, NEW to \in InstallSteps, NothingApart,
         NEW r, r = [run[i] EXCEPT !.pc = to]
  PROVE  /\ r \in Running /\ r # Nothing /\ r.pc = to
         /\ r.call = run[i].call /\ r.manifest = run[i].manifest /\ r.got = run[i].got
         /\ r.next = run[i].next /\ r.stage = run[i].stage /\ r.ok = run[i].ok
<1>1. run[i] \in Running
  BY DEF InstallInv, InstallTypeOK
<1>. QED  BY <1>1 DEF Running, NothingApart

-----------------------------------------------------------------------------
\* Every step keeps the invariant

LEMMA StartIInv ==
  ASSUME InstallConstantsOK, NothingApart, InstallInv, NEW i \in Installers, Start(i) PROVE InstallInv'
<1>1. PICK m \in Manifests :
        /\ Valid(m)
        /\ run' = [run EXCEPT ![i] = [call |-> calls', pc |-> "lock", manifest |-> m,
                                      got |-> Nothing, next |-> 1, stage |-> {}, ok |-> FALSE]]
  BY DEF Start
<1> DEFINE r == [call |-> calls', pc |-> "lock", manifest |-> m,
                 got |-> Nothing, next |-> 1, stage |-> {}, ok |-> FALSE]
<1>2. /\ calls \in Nat /\ calls' = calls + 1 /\ calls' \in 1..MaxCalls /\ calls' \in 0..MaxCalls
      /\ run[i] = Nothing
  BY DEF Start, InstallInv, InstallTypeOK, InstallConstantsOK
<1>3. r \in Running
  BY <1>2 DEF Running, InstallSteps
<1>4. run'[i] = r /\ r # Nothing /\ \A j \in Installers \ {i} : run'[j] = run[j]
  BY <1>1, <1>3 DEF InstallInv, InstallTypeOK, NothingApart
<1>5. InstallTypeOK'
  <2>1. run' \in [Installers -> Running \union {Nothing}]
    BY <1>1, <1>3 DEF InstallInv, InstallTypeOK
  <2>2. works' \subseteq 1..calls' /\ abandoned' \subseteq 1..calls'
    BY <1>2 DEF Start, InstallInv, InstallTypeOK
  <2>. QED  BY <1>2, <2>1, <2>2 DEF Start, InstallInv, InstallTypeOK
<1>6. Known(i)'
  BY <1>1, <1>2, <1>4 DEF Start, InstallInv, InstallTypeOK, Known, Holding, Valid, Tree
<1>7. \A j \in Installers \ {i} : Known(j)'
  BY <1>2, <1>4, OthersWithout DEF Start
<1>8. Apart'
  <2>1. \A j \in Installers : run[j] # Nothing => run[j].call <= calls /\ run[j].call \in Nat
    BY DEF InstallInv, Known, InstallTypeOK, Running
  <2>. QED  BY <1>2, <1>4, <2>1 DEF InstallInv, Apart
<1>9. Owned' /\ PublishedWhole'
  BY <1>2, <1>4 DEF Start, InstallInv, Owned, PublishedWhole, Valid, Tree
<1>. QED  BY <1>5, <1>6, <1>7, <1>8, <1>9 DEF InstallInv

LEMMA LockIInv ==
  ASSUME InstallConstantsOK, NothingApart, InstallInv, NEW i \in Installers, Lock(i) PROVE InstallInv'
<1>1. run[i] # Nothing /\ run[i].pc = "lock" /\ run[i].call \in Nat /\ calls \in Nat
  BY DEF Lock, At, InstallInv, InstallTypeOK, Running
<1>2. CASE ~lock /\ lock' = TRUE /\ Goto(i, "look")
  <2> DEFINE r == [run[i] EXCEPT !.pc = "look"]
  <2>1. /\ r \in Running /\ r # Nothing /\ r.pc = "look"
        /\ r.call = run[i].call /\ r.manifest = run[i].manifest /\ r.got = run[i].got
        /\ r.next = run[i].next /\ r.stage = run[i].stage /\ r.ok = run[i].ok
    BY <1>1, Steady DEF InstallSteps
  <2> HIDE DEF r
  <2>2. run' = [run EXCEPT ![i] = r]
    BY <1>2 DEF Goto, r
  <2>3. run'[i] = r /\ \A j \in Installers \ {i} : run'[j] = run[j]
    BY <2>2 DEF InstallInv, InstallTypeOK
  <2>4. InstallTypeOK'
    BY <1>2, <2>1, <2>2 DEF Lock, InstallInv, InstallTypeOK
  <2>5. Known(i)'
    BY <1>1, <1>2, <2>1, <2>3 DEF Lock, InstallInv, Known, Holding
  <2>6. \A j \in Installers \ {i} : Known(j)'
    BY <1>1, <1>2, <2>3, OthersWithout DEF Lock
  <2>7. \A j \in Installers : run[j] # Nothing => run[j].pc = "lock"
    BY <1>2 DEF InstallInv, Known, Holding, InstallTypeOK, Running
  <2>8. Apart'
    BY <1>1, <2>1, <2>3, <2>7 DEF InstallInv, Apart
  <2>9. Owned'
    BY <2>1, <2>3, <2>7, <1>2 DEF Lock, InstallInv, Owned, Holding, InstallSteps
  <2>10. PublishedWhole'
    BY DEF Lock, InstallInv, PublishedWhole, Valid, Tree
  <2>. QED  BY <2>4, <2>5, <2>6, <2>8, <2>9, <2>10 DEF InstallInv
<1>3. CASE lock /\ run' = [run EXCEPT ![i] = Nothing] /\ UNCHANGED lock
  <2>1. run'[i] = Nothing /\ \A j \in Installers \ {i} : run'[j] = run[j]
    BY <1>3 DEF InstallInv, InstallTypeOK
  <2>2. InstallTypeOK'
    BY <1>3 DEF Lock, InstallInv, InstallTypeOK
  <2>3. \A j \in Installers \ {i} : Known(j)'
    BY <1>1, <1>3, <2>1, OthersWithout DEF Lock
  <2>4. Known(i)'
    BY <2>1 DEF Known
  <2>5. Apart' /\ Owned'
    BY <1>1, <1>3, <2>1 DEF Lock, InstallInv, Apart, Owned, Holding
  <2>6. PublishedWhole'
    BY DEF Lock, InstallInv, PublishedWhole, Valid, Tree
  <2>. QED  BY <2>2, <2>3, <2>4, <2>5, <2>6 DEF InstallInv
<1>. QED  BY <1>2, <1>3 DEF Lock

\* InstallSteps with the lock that publish nothing and go on: InstallInv' follows from the type of the
\* next state, what is known of the installation itself, and what is left of works.
LEMMA Onward ==
  ASSUME InstallInv, NEW i \in Installers, run[i] # Nothing, run[i].pc \in Holding,
         NEW r, r # Nothing, r.pc \in Holding, r.call = run[i].call,
         run' = [run EXCEPT ![i] = r],
         works' \subseteq works \union {run[i].call}, abandoned \subseteq abandoned',
         UNCHANGED <<dest, answers, calls>>, InstallTypeOK', Known(i)'
  PROVE  InstallInv'
<1>1. \A j \in Installers \ {i} : run'[j] = run[j]
  OBVIOUS
<1>2. \A j \in Installers \ {i} : Known(j)'
  BY <1>1, OthersWith
<1>3. Apart' /\ Owned'
  BY GoesOn
<1>4. PublishedWhole'
  BY DEF InstallInv, PublishedWhole, Valid, Tree
<1>. QED  BY <1>2, <1>3, <1>4 DEF InstallInv

LEMMA LookIInv ==
  ASSUME InstallConstantsOK, NothingApart, InstallInv, NEW i \in Installers, Look(i) PROVE InstallInv'
<1>1. run[i] \in Running /\ run[i] # Nothing /\ run[i].pc = "look" /\ run[i].pc \in Holding
  BY DEF Look, At, InstallInv, InstallTypeOK, Holding, InstallSteps
<1>2. ASSUME NEW r, run' = [run EXCEPT ![i] = r],
             r \in Running, r # Nothing, r.pc \in {"work", "unlock"},
             r.call = run[i].call, r.manifest = run[i].manifest, r.stage = run[i].stage,
             r.ok => r.pc = "unlock" /\ dest = Tree(run[i].manifest)
      PROVE  InstallInv'
  <2>1. run'[i] = r
    BY <1>2 DEF InstallInv, InstallTypeOK
  <2>2. faults' \in 0..Faults
    BY DEF Look, Fails, InstallInv, InstallTypeOK, InstallConstantsOK
  <2>3. InstallTypeOK'
    BY <1>2, <2>2 DEF Look, InstallInv, InstallTypeOK
  <2>4. Known(i)'
    BY <1>1, <1>2, <2>1 DEF Look, InstallInv, Known, Holding, Valid, Tree
  <2>. QED  BY <1>1, <1>2, <2>3, <2>4, Onward DEF Look, Holding, InstallSteps
<1>3. ASSUME NEW to \in {"work", "unlock"}, Goto(i, to) PROVE InstallInv'
  <2>1. to \in InstallSteps /\ ~run[i].ok
    BY <1>1 DEF InstallSteps, InstallInv, Known, Running
  <2>2. PICK r : r = [run[i] EXCEPT !.pc = to]
    OBVIOUS
  <2>3. /\ r \in Running /\ r # Nothing /\ r.pc = to /\ r.ok = run[i].ok
        /\ r.call = run[i].call /\ r.manifest = run[i].manifest /\ r.stage = run[i].stage
    BY <1>1, <2>1, <2>2, Steady
  <2>4. run' = [run EXCEPT ![i] = r]
    BY <1>3, <2>2 DEF Goto
  <2>. QED  BY <1>2, <1>3, <2>1, <2>3, <2>4
<1>4. ASSUME run' = [run EXCEPT ![i].pc = "unlock", ![i].ok = Verifies(dest, run[i].manifest)]
      PROVE  InstallInv'
  <2>1. PICK q : q = [run[i] EXCEPT !.pc = "unlock"]
    OBVIOUS
  <2>2. /\ q \in Running /\ q # Nothing /\ q.pc = "unlock"
        /\ q.call = run[i].call /\ q.manifest = run[i].manifest /\ q.stage = run[i].stage
    BY <1>1, <2>1, Steady DEF InstallSteps
  <2>3. PICK r : r = [q EXCEPT !.ok = Verifies(dest, run[i].manifest)]
    OBVIOUS
  <2>4. /\ r \in Running /\ r.pc = "unlock" /\ r.ok = Verifies(dest, run[i].manifest)
        /\ r.call = run[i].call /\ r.manifest = run[i].manifest /\ r.stage = run[i].stage
    BY <2>2, <2>3 DEF Running, Verifies
  <2>5. run' = [run EXCEPT ![i] = r]
    BY <1>1, <1>4, <2>1, <2>3 DEF InstallInv, InstallTypeOK
  <2>6. r # Nothing /\ (r.ok => dest = Tree(run[i].manifest))
    BY <2>4 DEF Verifies, NothingApart
  <2>. QED  BY <1>2, <2>4, <2>5, <2>6
<1>. QED  BY <1>3, <1>4 DEF Look

LEMMA WorkIInv ==
  ASSUME InstallConstantsOK, NothingApart, InstallInv, NEW i \in Installers, Work(i) PROVE InstallInv'
<1>1. run[i] \in Running /\ run[i] # Nothing /\ run[i].pc = "work" /\ run[i].pc \in Holding
  BY DEF Work, At, InstallInv, InstallTypeOK, Holding, InstallSteps
<1>2. PICK to \in {"fetch", "unlock"} :
        /\ Goto(i, to)
        /\ works' = IF to = "fetch" THEN works \union {run[i].call} ELSE works
  BY DEF Work
<1>3. PICK r : r = [run[i] EXCEPT !.pc = to]
  OBVIOUS
<1>4. /\ r \in Running /\ r # Nothing /\ r.pc = to
      /\ r.call = run[i].call /\ r.manifest = run[i].manifest /\ r.stage = run[i].stage
      /\ r.ok = run[i].ok
  BY <1>1, <1>3, Steady DEF InstallSteps
<1>5. run' = [run EXCEPT ![i] = r] /\ run'[i] = r
  BY <1>2, <1>3 DEF Goto, InstallInv, InstallTypeOK
<1>6. InstallTypeOK'
  <2>1. run[i].call \in 1..calls
    BY <1>1 DEF InstallInv, Known, InstallTypeOK, Running
  <2>2. works' \subseteq 1..calls'
    BY <1>2, <2>1 DEF Work, InstallInv, InstallTypeOK
  <2>3. faults' \in 0..Faults
    BY DEF Work, Fails, InstallInv, InstallTypeOK, InstallConstantsOK
  <2>. QED  BY <1>4, <1>5, <2>2, <2>3 DEF Work, InstallInv, InstallTypeOK
<1>7. Known(i)'
  BY <1>1, <1>2, <1>4, <1>5 DEF Work, InstallInv, Known, Holding, Valid, Tree
<1>. QED  BY <1>1, <1>2, <1>4, <1>5, <1>6, <1>7, Onward DEF Work, Holding, InstallSteps

LEMMA FetchIInv ==
  ASSUME InstallConstantsOK, NothingApart, InstallInv, NEW i \in Installers, Fetch(i) PROVE InstallInv'
<1>1. run[i] \in Running /\ run[i] # Nothing /\ run[i].pc = "fetch" /\ run[i].pc \in Holding
  BY DEF Fetch, At, InstallInv, InstallTypeOK, Holding, InstallSteps
<1>2. ASSUME NEW r, run' = [run EXCEPT ![i] = r],
             r \in Running, r # Nothing, r.pc \in {"check", "sweep"},
             r.call = run[i].call, r.manifest = run[i].manifest, r.stage = run[i].stage,
             r.ok = run[i].ok
      PROVE  InstallInv'
  <2>1. run'[i] = r
    BY <1>2 DEF InstallInv, InstallTypeOK
  <2>2. faults' \in 0..Faults
    BY DEF Fetch, Fails, InstallInv, InstallTypeOK, InstallConstantsOK
  <2>3. InstallTypeOK'
    BY <1>2, <2>2 DEF Fetch, InstallInv, InstallTypeOK
  <2>4. Known(i)'
    BY <1>1, <1>2, <2>1 DEF Fetch, InstallInv, Known, Holding, Valid, Tree
  <2>. QED  BY <1>1, <1>2, <2>3, <2>4, Onward DEF Fetch, Holding, InstallSteps
<1>3. ASSUME Goto(i, "sweep") PROVE InstallInv'
  <2>1. PICK r : r = [run[i] EXCEPT !.pc = "sweep"]
    OBVIOUS
  <2>2. /\ r \in Running /\ r # Nothing /\ r.pc = "sweep" /\ r.ok = run[i].ok
        /\ r.call = run[i].call /\ r.manifest = run[i].manifest /\ r.stage = run[i].stage
    BY <1>1, <2>1, Steady DEF InstallSteps
  <2>3. run' = [run EXCEPT ![i] = r]
    BY <1>3, <2>1 DEF Goto
  <2>. QED  BY <1>2, <2>2, <2>3
<1>4. ASSUME NEW a \in Archives, run' = [run EXCEPT ![i].pc = "check", ![i].got = a]
      PROVE  InstallInv'
  <2>1. PICK q : q = [run[i] EXCEPT !.pc = "check"]
    OBVIOUS
  <2>2. /\ q \in Running /\ q.pc = "check" /\ q.ok = run[i].ok
        /\ q.call = run[i].call /\ q.manifest = run[i].manifest /\ q.stage = run[i].stage
    BY <1>1, <2>1, Steady DEF InstallSteps
  <2>3. PICK r : r = [q EXCEPT !.got = a]
    OBVIOUS
  <2>4. /\ r \in Running /\ r.pc = "check" /\ r.ok = run[i].ok
        /\ r.call = run[i].call /\ r.manifest = run[i].manifest /\ r.stage = run[i].stage
    BY <2>2, <2>3 DEF Running
  <2>5. run' = [run EXCEPT ![i] = r]
    BY <1>1, <1>4, <2>1, <2>3 DEF InstallInv, InstallTypeOK
  <2>. QED  BY <1>2, <2>4, <2>5 DEF NothingApart
<1>. QED  BY <1>3, <1>4 DEF Fetch

LEMMA CheckIInv ==
  ASSUME InstallConstantsOK, NothingApart, InstallInv, NEW i \in Installers, Check(i) PROVE InstallInv'
<1>1. run[i] \in Running /\ run[i] # Nothing /\ run[i].pc = "check" /\ run[i].pc \in Holding
  BY DEF Check, At, InstallInv, InstallTypeOK, Holding, InstallSteps
<1>2. PICK to \in {"unpack", "sweep"} : Goto(i, to)
  BY DEF Check
<1>3. PICK r : r = [run[i] EXCEPT !.pc = to]
  OBVIOUS
<1>4. /\ r \in Running /\ r # Nothing /\ r.pc = to /\ r.ok = run[i].ok
      /\ r.call = run[i].call /\ r.manifest = run[i].manifest /\ r.stage = run[i].stage
  BY <1>1, <1>3, Steady DEF InstallSteps
<1>5. run' = [run EXCEPT ![i] = r] /\ run'[i] = r
  BY <1>2, <1>3 DEF Goto, InstallInv, InstallTypeOK
<1>6. InstallTypeOK'
  BY <1>4, <1>5 DEF Check, InstallInv, InstallTypeOK
<1>7. Known(i)'
  BY <1>1, <1>4, <1>5 DEF Check, InstallInv, Known, Holding, Valid, Tree
<1>. QED  BY <1>1, <1>4, <1>5, <1>6, <1>7, Onward DEF Check, Holding, InstallSteps

LEMMA UnpackIInv ==
  ASSUME InstallConstantsOK, NothingApart, InstallInv, NEW i \in Installers, Unpack(i) PROVE InstallInv'
<1>1. run[i] \in Running /\ run[i] # Nothing /\ run[i].pc = "unpack" /\ run[i].pc \in Holding
  BY DEF Unpack, At, InstallInv, InstallTypeOK, Holding, InstallSteps
<1>2. ASSUME NEW r, run' = [run EXCEPT ![i] = r],
             r \in Running, r # Nothing, r.pc \in {"unpack", "sweep"}, r.ok = run[i].ok,
             r.call = run[i].call, r.manifest = run[i].manifest,
             r.stage \subseteq Tree(run[i].manifest)
      PROVE  InstallInv'
  <2>1. run'[i] = r
    BY <1>2 DEF InstallInv, InstallTypeOK
  <2>2. UNCHANGED <<lock, dest, works, answers, abandoned, calls, deaths>>
    BY DEF Unpack
  <2>3. faults' \in 0..Faults
    <3>1. UNCHANGED faults \/ Fails
      BY DEF Unpack
    <3>. QED  BY <3>1 DEF Fails, InstallInv, InstallTypeOK, InstallConstantsOK
  <2>4. InstallTypeOK'
    BY <1>2, <2>2, <2>3 DEF InstallInv, InstallTypeOK
  <2>5. Known(i)'
    BY <1>1, <1>2, <2>1, <2>2 DEF InstallInv, Known, Holding, Valid, Tree
  <2>. QED  BY <1>1, <1>2, <2>2, <2>4, <2>5, Onward DEF Holding, InstallSteps
<1>3. ASSUME Goto(i, "sweep") PROVE InstallInv'
  <2>1. PICK r : r = [run[i] EXCEPT !.pc = "sweep"]
    OBVIOUS
  <2>2. /\ r \in Running /\ r # Nothing /\ r.pc = "sweep" /\ r.ok = run[i].ok
        /\ r.call = run[i].call /\ r.manifest = run[i].manifest /\ r.stage = run[i].stage
    BY <1>1, <2>1, Steady DEF InstallSteps
  <2>3. run' = [run EXCEPT ![i] = r]
    BY <1>3, <2>1 DEF Goto
  <2>4. run[i].stage \subseteq Tree(run[i].manifest)
    BY <1>1 DEF InstallInv, Known
  <2>. QED  BY <1>2, <2>2, <2>3, <2>4
<1>4. ASSUME NEW st, st \subseteq Tree(run[i].manifest),
             run' = [run EXCEPT ![i].next = @ + 1, ![i].stage = st]
      PROVE  InstallInv'
  <2>1. Tree(run[i].manifest) \subseteq File
    BY <1>1 DEF Running, InstallConstantsOK, Tree
  <2>2. PICK q : q = [run[i] EXCEPT !.next = @ + 1]
    OBVIOUS
  <2>3. /\ q \in Running /\ q.pc = "unpack" /\ q.ok = run[i].ok
        /\ q.call = run[i].call /\ q.manifest = run[i].manifest
    BY <1>1, <2>2 DEF Running
  <2>4. PICK r : r = [q EXCEPT !.stage = st]
    OBVIOUS
  <2>5. /\ r \in Running /\ r.pc = "unpack" /\ r.ok = run[i].ok /\ r.stage = st
        /\ r.call = run[i].call /\ r.manifest = run[i].manifest
    BY <1>4, <2>1, <2>3, <2>4 DEF Running
  <2>6. run' = [run EXCEPT ![i] = r]
    BY <1>1, <1>4, <2>2, <2>4 DEF InstallInv, InstallTypeOK
  <2>. QED  BY <1>2, <1>4, <2>5, <2>6 DEF NothingApart
<1>5. ASSUME NEW e, NEW f, f = [name |-> e.name, body |-> e.body],
             e.kind = "asset" => f \in Tree(run[i].manifest),
             run' = [run EXCEPT ![i].next = @ + 1,
                                ![i].stage = IF e.kind = "asset" THEN @ \union {f} ELSE @]
      PROVE  InstallInv'
  <2>1. PICK st : st = IF e.kind = "asset" THEN run[i].stage \union {f} ELSE run[i].stage
    OBVIOUS
  <2>2. st \subseteq Tree(run[i].manifest)
    BY <1>1, <1>5, <2>1 DEF InstallInv, Known
  <2>3. run' = [run EXCEPT ![i].next = @ + 1, ![i].stage = st]
    BY <1>1, <1>5, <2>1 DEF InstallInv, InstallTypeOK, Running
  <2>. QED  BY <1>4, <2>2, <2>3
<1>. QED  BY <1>3, <1>5 DEF Unpack

LEMMA UnpackedIInv ==
  ASSUME InstallConstantsOK, NothingApart, InstallInv, NEW i \in Installers, Unpacked(i) PROVE InstallInv'
<1>1. run[i] \in Running /\ run[i] # Nothing /\ run[i].pc = "unpack" /\ run[i].pc \in Holding
  BY DEF Unpacked, At, InstallInv, InstallTypeOK, Holding, InstallSteps
<1>2. PICK to \in {"publish", "sweep"} :
        Goto(i, to) /\ (to = "publish" => Tree(run[i].manifest) \subseteq run[i].stage)
  BY DEF Unpacked, Whole
<1>3. PICK r : r = [run[i] EXCEPT !.pc = to]
  OBVIOUS
<1>4. /\ r \in Running /\ r # Nothing /\ r.pc = to /\ r.ok = run[i].ok
      /\ r.call = run[i].call /\ r.manifest = run[i].manifest /\ r.stage = run[i].stage
  BY <1>1, <1>3, Steady DEF InstallSteps
<1>5. run' = [run EXCEPT ![i] = r] /\ run'[i] = r
  BY <1>2, <1>3 DEF Goto, InstallInv, InstallTypeOK
<1>6. InstallTypeOK'
  BY <1>4, <1>5 DEF Unpacked, InstallInv, InstallTypeOK
<1>7. Known(i)'
  BY <1>1, <1>2, <1>4, <1>5 DEF Unpacked, InstallInv, Known, Holding, Valid, Tree
<1>. QED  BY <1>1, <1>4, <1>5, <1>6, <1>7, Onward DEF Unpacked, Holding, InstallSteps

LEMMA PublishIInv ==
  ASSUME InstallConstantsOK, NothingApart, InstallInv, NEW i \in Installers, Publish(i) PROVE InstallInv'
<1>1. run[i] \in Running /\ run[i] # Nothing /\ run[i].pc = "publish" /\ run[i].pc \in Holding
  BY DEF Publish, At, InstallInv, InstallTypeOK, Holding, InstallSteps
<1>2. UNCHANGED <<lock, works, answers, abandoned, calls, deaths>>
  BY DEF Publish
<1>3. CASE Fails /\ Goto(i, "sweep") /\ UNCHANGED dest
  <2>1. PICK r : r = [run[i] EXCEPT !.pc = "sweep"]
    OBVIOUS
  <2>2. /\ r \in Running /\ r # Nothing /\ r.pc = "sweep" /\ r.ok = run[i].ok
        /\ r.call = run[i].call /\ r.manifest = run[i].manifest /\ r.stage = run[i].stage
    BY <1>1, <2>1, Steady DEF InstallSteps
  <2>3. run' = [run EXCEPT ![i] = r] /\ run'[i] = r
    BY <1>3, <2>1 DEF Goto, InstallInv, InstallTypeOK
  <2>4. faults' \in 0..Faults
    BY <1>3 DEF Fails, InstallInv, InstallTypeOK, InstallConstantsOK
  <2>5. InstallTypeOK'
    BY <1>2, <1>3, <2>2, <2>3, <2>4 DEF InstallInv, InstallTypeOK
  <2>6. Known(i)'
    BY <1>1, <1>2, <1>3, <2>2, <2>3 DEF InstallInv, Known, Holding, Valid, Tree
  <2>. QED  BY <1>1, <1>2, <1>3, <2>2, <2>3, <2>5, <2>6, Onward DEF Holding, InstallSteps
<1>4. CASE /\ dest = Nothing /\ dest' = run[i].stage
           /\ run' = [run EXCEPT ![i].pc = "sweep", ![i].ok = TRUE]
           /\ UNCHANGED faults
  <2>1. PICK q : q = [run[i] EXCEPT !.pc = "sweep"]
    OBVIOUS
  <2>2. /\ q \in Running /\ q.pc = "sweep"
        /\ q.call = run[i].call /\ q.manifest = run[i].manifest /\ q.stage = run[i].stage
    BY <1>1, <2>1, Steady DEF InstallSteps
  <2>3. PICK r : r = [q EXCEPT !.ok = TRUE]
    OBVIOUS
  <2>4. /\ r \in Running /\ r.pc = "sweep"
        /\ r.call = run[i].call /\ r.manifest = run[i].manifest /\ r.stage = run[i].stage
    BY <2>2, <2>3 DEF Running
  <2>5. run' = [run EXCEPT ![i] = r] /\ run'[i] = r /\ r # Nothing
    BY <1>1, <1>4, <2>1, <2>3, <2>4 DEF InstallInv, InstallTypeOK, NothingApart
  <2>6. dest' = Tree(run[i].manifest) /\ Tree(run[i].manifest) \in SUBSET File
    BY <1>1, <1>4 DEF InstallInv, Known, Running
  <2>7. InstallTypeOK'
    BY <1>2, <1>4, <2>4, <2>5, <2>6 DEF InstallInv, InstallTypeOK
  <2>8. Known(i)'
    BY <1>1, <1>2, <1>4, <2>4, <2>5, <2>6 DEF InstallInv, Known, Holding, InstallSteps
  <2>9. \A j \in Installers \ {i} : run'[j] = run[j]
    BY <2>5
  <2>10. \A j \in Installers \ {i} : Known(j)'
    BY <1>1, <1>2, <2>9, OthersWith
  <2>11. Apart' /\ Owned'
    BY <1>1, <1>2, <2>4, <2>5, GoesOn DEF Holding, InstallSteps
  <2>12. answers = {}
    <3>1. \A m \in Manifests : Tree(m) \in SUBSET File
      BY DEF InstallConstantsOK, Tree
    <3>. QED  BY <1>4, <3>1 DEF InstallInv, InstallTypeOK, PublishedWhole, NothingApart
  <2>13. run[i].manifest \in Manifests /\ Valid(run[i].manifest)
    BY <1>1 DEF InstallInv, Known, Running
  <2>14. PublishedWhole'
    BY <1>2, <2>6, <2>12, <2>13 DEF PublishedWhole, Valid, Tree
  <2>. QED  BY <2>7, <2>8, <2>10, <2>11, <2>14 DEF InstallInv
<1>. QED  BY <1>3, <1>4 DEF Publish

LEMMA SweepIInv ==
  ASSUME InstallConstantsOK, NothingApart, InstallInv, NEW i \in Installers, Sweep(i) PROVE InstallInv'
<1>1. run[i] \in Running /\ run[i] # Nothing /\ run[i].pc = "sweep" /\ run[i].pc \in Holding
  BY DEF Sweep, At, InstallInv, InstallTypeOK, Holding, InstallSteps
<1>2. UNCHANGED <<lock, dest, answers, calls, deaths>>
  BY DEF Sweep
<1>3. PICK r : r = [run[i] EXCEPT !.pc = "unlock"]
  OBVIOUS
<1>4. /\ r \in Running /\ r # Nothing /\ r.pc = "unlock" /\ r.ok = run[i].ok
      /\ r.call = run[i].call /\ r.manifest = run[i].manifest /\ r.stage = run[i].stage
  BY <1>1, <1>3, Steady DEF InstallSteps
<1>5. run' = [run EXCEPT ![i] = r] /\ run'[i] = r
  BY <1>3 DEF Sweep, Goto, InstallInv, InstallTypeOK
<1>6. /\ works' \subseteq works /\ abandoned \subseteq abandoned'
      /\ abandoned' \subseteq abandoned \union {run[i].call}
      /\ run[i].call \notin works' \ abandoned'
  BY DEF Sweep
<1>7. InstallTypeOK'
  <2>1. run[i].call \in 1..calls
    BY <1>1 DEF InstallInv, Known, InstallTypeOK, Running
  <2>2. faults' \in 0..Faults
    BY DEF Sweep, Fails, InstallInv, InstallTypeOK, InstallConstantsOK
  <2>. QED  BY <1>2, <1>4, <1>5, <1>6, <2>1, <2>2 DEF InstallInv, InstallTypeOK
<1>8. Known(i)'
  BY <1>1, <1>2, <1>4, <1>5, <1>6 DEF InstallInv, Known, Holding, Valid, Tree
<1>. QED  BY <1>1, <1>2, <1>4, <1>5, <1>6, <1>7, <1>8, Onward DEF Holding, InstallSteps

\* An installation that ends, with the lock: nothing of it is left, or it is abandoned.
LEMMA Ends ==
  ASSUME InstallInv, NEW i \in Installers, run[i] # Nothing, run[i].pc \in Holding,
         run' = [run EXCEPT ![i] = Nothing], UNCHANGED <<dest, works, calls>>,
         abandoned \subseteq abandoned',
         run[i].call \notin works \ abandoned',
         lock' => abandoned' # {}
  PROVE  Apart' /\ Owned' /\ \A j \in Installers : Known(j)'
<1>1. run'[i] = Nothing /\ \A j \in Installers \ {i} : run'[j] = run[j]
  BY DEF InstallInv, InstallTypeOK
<1>2. \A j \in Installers \ {i} : Known(j)'
  BY <1>1, OthersWith
<1>3. Known(i)'
  BY <1>1 DEF Known
<1>4. Apart' /\ Owned'
  BY <1>1 DEF InstallInv, Apart, Owned
<1>. QED  BY <1>2, <1>3, <1>4

LEMMA UnlockIInv ==
  ASSUME InstallConstantsOK, NothingApart, InstallInv, NEW i \in Installers, Unlock(i) PROVE InstallInv'
<1>1. run[i] \in Running /\ run[i] # Nothing /\ run[i].pc = "unlock" /\ run[i].pc \in Holding
  BY DEF Unlock, At, InstallInv, InstallTypeOK, Holding, InstallSteps
<1>2. run' = [run EXCEPT ![i] = Nothing] /\ UNCHANGED <<dest, works, calls, deaths>>
  BY DEF Unlock
<1>3. /\ abandoned \subseteq abandoned' /\ abandoned' \subseteq abandoned \union {run[i].call}
      /\ lock' => abandoned' # {}
  BY DEF Unlock
<1>4. run[i].call \notin works \ abandoned' /\ run[i].call \in 1..calls
  BY <1>1, <1>3 DEF InstallInv, Known, InstallTypeOK, Running
<1>5. Apart' /\ Owned' /\ \A j \in Installers : Known(j)'
  BY <1>1, <1>2, <1>3, <1>4, Ends
<1>6. /\ answers' = IF run[i].ok THEN answers \union {run[i].manifest} ELSE answers
      /\ run[i].manifest \in Manifests /\ (run[i].ok => dest = Tree(run[i].manifest))
  BY <1>1 DEF Unlock, InstallInv, Known, Running
<1>7. lock' \in BOOLEAN /\ faults' \in 0..Faults
  <2>1. lock' \in BOOLEAN
    BY DEF Unlock, InstallInv, InstallTypeOK
  <2>2. faults' \in 0..Faults
    BY DEF Unlock, Fails, InstallInv, InstallTypeOK, InstallConstantsOK
  <2>. QED  BY <2>1, <2>2
<1>8. InstallTypeOK'
  BY <1>2, <1>3, <1>4, <1>6, <1>7 DEF InstallInv, InstallTypeOK
<1>9. PublishedWhole'
  BY <1>2, <1>6 DEF InstallInv, PublishedWhole, Valid, Tree
<1>. QED  BY <1>5, <1>8, <1>9 DEF InstallInv

LEMMA DieIInv ==
  ASSUME InstallConstantsOK, NothingApart, InstallInv, NEW i \in Installers, Die(i) PROVE InstallInv'
<1>1. run[i] \in Running /\ run[i] # Nothing
  BY DEF Die, InstallInv, InstallTypeOK
<1>2. run[i].call \in 1..calls
  BY <1>1 DEF InstallInv, Known, InstallTypeOK, Running
<1>3. run'[i] = Nothing /\ \A j \in Installers \ {i} : run'[j] = run[j]
  BY DEF Die, InstallInv, InstallTypeOK
<1>4. InstallTypeOK'
  <2>1. deaths' \in 0..Deaths
    BY DEF Die, InstallInv, InstallTypeOK, InstallConstantsOK
  <2>. QED  BY <1>2, <2>1 DEF Die, InstallInv, InstallTypeOK
<1>5. PublishedWhole'
  BY DEF Die, InstallInv, PublishedWhole, Valid, Tree
<1>6. CASE run[i].pc \in Holding
  BY <1>1, <1>4, <1>5, <1>6, Ends DEF Die, InstallInv
<1>7. CASE run[i].pc \notin Holding
  <2>1. \A j \in Installers \ {i} : Known(j)'
    BY <1>3, OthersWithout DEF Die, InstallInv, InstallTypeOK
  <2>2. Known(i)'
    BY <1>3 DEF Known
  <2>3. Apart' /\ Owned'
    BY <1>3, <1>7 DEF Die, InstallInv, Apart, Owned
  <2>. QED  BY <1>4, <1>5, <2>1, <2>2, <2>3 DEF InstallInv
<1>. QED  BY <1>6, <1>7

-----------------------------------------------------------------------------
\* WebInstall: theorems

LEMMA NextInstall == ASSUME InstallConstantsOK, NothingApart PROVE InstallInv /\ [InstallNext]_installVars => InstallInv'
<1> SUFFICES ASSUME InstallInv, [InstallNext]_installVars PROVE InstallInv'
  OBVIOUS
<1>1. CASE UNCHANGED installVars
  BY <1>1 DEF installVars, InstallInv, InstallTypeOK, Known, Apart, Owned, PublishedWhole, Valid, Tree
<1>2. ASSUME NEW i \in Installers, Start(i) \/ Step(i) \/ Die(i) PROVE InstallInv'
  BY <1>2, StartIInv, LockIInv, LookIInv, WorkIInv, FetchIInv, CheckIInv, UnpackIInv,
     UnpackedIInv, PublishIInv, SweepIInv, UnlockIInv, DieIInv DEF Step
<1>. QED  BY <1>1, <1>2 DEF InstallNext

\* The lock, the destination and the installations keep what is known of them.
THEOREM InstallInvariance == ASSUME InstallConstantsOK, NothingApart PROVE InstallSpec => []InstallInv
<1>. QED  BY InitInstall, NextInstall, PTL DEF InstallSpec

\* Every variable keeps its type.
THEOREM InstallTypeCorrect == ASSUME InstallConstantsOK, NothingApart PROVE InstallSpec => []InstallTypeOK
<1>1. InstallInv => InstallTypeOK
  BY DEF InstallInv
<1>. QED  BY <1>1, InstallInvariance, PTL

\* Any number of installers, failing or dying at any step: the destination holds what was
\* there or the whole tree of a manifest, what an installation answered for stays, one of
\* them at most holds the lock, and what is in the way has an owner or was abandoned.
THEOREM WholeInstalls == ASSUME InstallConstantsOK, NothingApart PROVE InstallSpec => []InstallsWhole
<1>1. InstallInv => OneAtATime
  <2> SUFFICES ASSUME InstallInv PROVE OneAtATime
    OBVIOUS
  <2> DEFINE Holders == {i \in Installers : run[i] # Nothing /\ run[i].pc # "lock"}
  <2>1. \A i \in Installers : run[i] # Nothing /\ run[i].pc \in Holding => i \in Holders
    BY DEF Holding
  <2>2. Cardinality(Holders) <= 1
    <3>1. CASE Holders = {}
      BY <3>1, FS_EmptySet
    <3>2. ASSUME NEW i \in Holders PROVE Holders = {i}
      BY <3>2 DEF InstallInv, Apart
    <3>3. CASE Holders # {}
      <4>1. PICK i \in Holders : TRUE
        BY <3>3
      <4>2. Holders = {i}
        BY <3>2
      <4>3. Cardinality({i}) = 1
        BY FS_Singleton
      <4>. QED  BY <4>2, <4>3
    <3>. QED  BY <3>1, <3>3
  <2>3. works \subseteq abandoned \union {run[i].call : i \in Holders}
    BY <2>1 DEF InstallInv, Owned
  <2>4. lock => Holders # {} \/ abandoned # {}
    BY <2>1 DEF InstallInv, Owned
  <2>. QED  BY <2>2, <2>3, <2>4 DEF OneAtATime
<1>2. InstallInv => InstallsWhole
  BY <1>1 DEF InstallInv, InstallsWhole
<1>. QED  BY <1>2, InstallInvariance, PTL
=============================================================================
