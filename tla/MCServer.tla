------------------------------ MODULE MCServer ------------------------------
(***************************************************************************)
(* The server's own concurrency: the live-update feed beside the switch to *)
(* another vault (WatchFeed), the host config with the browser sessions    *)
(* (HostConfig), the limit on attempts (AttemptLimiter), and the           *)
(* installation of the web client (WebInstall).  They share no state, so   *)
(* they are explored one at a time: a behaviour is one of the components   *)
(* in one of the scenes below, and the variables of the others stand       *)
(* still at the values they begin with.                                    *)
(***************************************************************************)
EXTENDS WatchFeed, HostConfig, AttemptLimiter, WebInstall, TLC

CONSTANTS Scenes, c1, c2, s1, s2, plain, t1, v1, i1, i2, index, INDEX, app, pkg, x, y, none

VARIABLE scene

MCVars == <<scene, vars, hostVars, limitVars, installVars>>

-----------------------------------------------------------------------------
\* WatchFeed: two clients while two requests switch the vault, and vault.json is replaced
\* once; one client that connects twice; and no client, while vault.json changes in every
\* way before and after one request switches the vault.

Left == INSTANCE WatchFeed WITH
    Found <- {plain}, MaxConnects <- 2, Seeding <- TRUE, MaxEdits <- 0
Edited == INSTANCE WatchFeed WITH
    Switchers <- {s1}, MaxConnects <- 0, Seeding <- TRUE, MaxEdits <- 3
OneClient == pc[c2] = "away"
AllWhole == \A w \in Watchers : disk[w] # Torn
OneSwitch == started <= 2

\* Of two clients that are away, or two requests that are idle, the first moves first.
InOrder ==
    /\ connects'[c2] <= connects'[c1]
    /\ sw[s2].pc = "idle" /\ sw'[s2].pc # "idle" => sw[s1].pc # "idle"

FeedScenes == {"switched", "left", "edited"}

\* WebInstall: two installers, manifests that pin the right archive or one that is
\* short, long, doubled or odd, or that declare what they may not.

Asset(name, body) == [name |-> name, body |-> body]
Item(kind, name, body) == [kind |-> kind, name |-> name, body |-> body]
Two == <<Asset(index, x), Asset(app, y)>>
Right == [entries |-> <<Item("dir", pkg, none), Item("asset", index, x), Item("asset", app, y)>>,
          tail |-> FALSE]
Wrong == {[entries |-> <<Item("asset", index, x)>>, tail |-> FALSE],
          [entries |-> <<Item("meta", index, x), Item("asset", INDEX, y)>>, tail |-> FALSE],
          [entries |-> <<Item("asset", app, x)>>, tail |-> FALSE],
          [entries |-> <<Item("odd", index, x)>>, tail |-> FALSE],
          [entries |-> <<Item("asset", index, x), Item("asset", app, y)>>, tail |-> TRUE]}
MCFold == index :> index @@ INDEX :> index @@ app :> app @@ pkg :> pkg
MCManifests ==
    {[files |-> Two, entry |-> {index}, archive |-> a] : a \in Wrong \union {Right}}
    \union {[files |-> f, entry |-> {index, app}, archive |-> Right] :
               f \in {<<Asset(index, x), Asset(app, none)>>, <<Asset(index, x), Asset(INDEX, y)>>}}
MCArchives == Wrong \union {Right}
MCFirsts == {Nothing, {Two[1], Two[2]}, {Two[1]}}

ASSUME
    /\ Scenes \subseteq FeedScenes \union {"host", "limit", "install"}
    /\ ConstantsOK /\ Left!ConstantsOK /\ Edited!ConstantsOK
    /\ HostConstantsOK /\ LimitConstantsOK /\ InstallConstantsOK

-----------------------------------------------------------------------------

NoFeed == Init /\ disk[1] = Default
NoHost == HostInit /\ ~persist /\ mem = [token |-> t1, vault |-> v1]
NoInstall == InstallInit /\ dest = Nothing

MCInit ==
    /\ scene \in Scenes
    /\ IF scene \in FeedScenes
       THEN \/ scene = "switched" /\ Init
            \/ scene = "left" /\ Left!Init
            \/ scene = "edited" /\ Edited!Init
       ELSE NoFeed
    /\ IF scene = "host" THEN HostInit ELSE NoHost
    /\ LimitInit
    /\ IF scene = "install" THEN InstallInit ELSE NoInstall

FeedNext ==
    /\ \/ scene = "switched" /\ Next /\ InOrder /\ AllWhole'
       \/ scene = "left" /\ Left!Next /\ OneClient'
       \/ scene = "edited" /\ Edited!Next /\ OneSwitch'
    /\ UNCHANGED <<scene, hostVars, limitVars, installVars>>

HostScene == scene = "host" /\ HostNext /\ UNCHANGED <<scene, vars, limitVars, installVars>>

LimitScene == scene = "limit" /\ LimitNext /\ UNCHANGED <<scene, vars, hostVars, installVars>>

InstallScene == scene = "install" /\ InstallNext /\ UNCHANGED <<scene, vars, hostVars, limitVars>>

MCNext == FeedNext \/ HostScene \/ LimitScene \/ InstallScene

\* WatchFeed's fairness, in the scene whose property needs it.  A goroutine that
\* can go on does: no handler waits for another but for the mutexes, which are held
\* for one step; a client reads what it is sent, or its connection fails; and a
\* request that has begun to switch the vault goes through with it.  Then those of
\* AttemptLimiter and WebInstall: time goes on, and an installer does.
MCFairness ==
    /\ WF_MCVars(scene = "left" /\ Left!Handler(c1) /\ UNCHANGED <<scene, hostVars, limitVars, installVars>>)
    /\ \A s \in {s1, s2} :
         WF_MCVars(scene = "left" /\ Left!Switch(s) /\ UNCHANGED <<scene, hostVars, limitVars, installVars>>)
    /\ WF_MCVars(scene = "limit" /\ Tick /\ UNCHANGED <<scene, vars, hostVars, installVars>>)
    /\ \A i \in {i1, i2} :
         WF_MCVars(scene = "install" /\ Step(i) /\ UNCHANGED <<scene, vars, hostVars, limitVars>>)

MCSpec == MCInit /\ [][MCNext]_MCVars /\ MCFairness

-----------------------------------------------------------------------------
\* Properties: the invariants ChannelsSound, FoldersAgree, SessionsEnd, AttemptsCost and
\* InstallsWhole are those of the components, whose variables stand still in the scenes of
\* the others

\* The types of the components.
TypesOK ==
    /\ scene \in Scenes
    /\ IF scene = "left" THEN Left!TypeOK ELSE IF scene = "edited" THEN Edited!TypeOK ELSE TypeOK
    /\ HostTypeOK /\ LimitTypeOK /\ InstallTypeOK

\* A client that is listening to the watcher of a vault that is no longer served, which
\* has not been closed yet, does not go on for ever.
LeavesOldVault ==
    LET Listens == scene = "left" /\ pc[c1] = "listening" /\ at[c1] # served /\ at[c1] \notin closed
    IN  Listens ~> (scene = "left" /\ pc[c1] # "listening")

\* Whoever is refused an attempt, or finds the destination locked, is let in after
\* a while, unless an installer died or could not clear up.
LetInAgain ==
    /\ (scene = "limit" /\ ~Allowed) ~> (scene = "limit" /\ Allowed)
    /\ (scene = "install" /\ lock) ~> (scene = "install" /\ (~lock \/ abandoned # {}))
=============================================================================
