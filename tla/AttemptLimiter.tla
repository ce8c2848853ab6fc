--------------------------- MODULE AttemptLimiter ---------------------------
(***************************************************************************)
(* The limit on attempts: logins of one address, and, with other numbers,  *)
(* its refused live-update connections.  attemptLimiter and sessionLogin   *)
(* of internal/httpserver/security.go.                                     *)
(*                                                                         *)
(* Time is kept as the age of each attempt, which stops at the length of   *)
(* the window: an older attempt counts for nothing.  No two attempts that  *)
(* count have one age, as the shortest delay is between them, so that the  *)
(* set of ages is enough; and each address has its own, so one is enough.  *)
(***************************************************************************)
EXTENDS Naturals, FiniteSets

CONSTANTS
    Attempters, \* requests at a time
    Window,     \* the window, in units of the shortest delay
    MaxHits,
    MaxShift,   \* the number of times the delay doubles
    MaxDelay

VARIABLES
    hits,     \* l.hits: the ages of the attempts kept
    checks,   \* what each handler is at
    recent    \* the ages of all attempts let through in the last window since a right one

limitVars == <<hits, checks, recent>>

LimitTypeOK ==
    /\ hits \in SUBSET (0..Window) /\ recent \in SUBSET (0..(Window - 1))
    /\ checks \in [Attempters -> {"idle", "check"}]

LimitInit == hits = {} /\ recent = {} /\ checks = [h \in Attempters |-> "idle"]

-----------------------------------------------------------------------------
\* attemptLimiter

\* backoffDelay: 0, 1, 2, 4, ... and then the longest.
Delay(n) ==
    IF n < 1 THEN 0
    ELSE LET d == 2 ^ (IF n - 1 > MaxShift THEN MaxShift ELSE n - 1)
         IN  IF d > MaxDelay THEN MaxDelay ELSE d

InWindow(ages) == {a \in ages : a < Window}

\* Mutant: the delay counts from the oldest attempt.
AllowedFromOldest ==
    LET history == InWindow(hits) IN
    /\ history # {} => \E a \in history : a >= Delay(Cardinality(history))
    /\ Cardinality(history) < MaxHits

\* The youngest attempt is as old as the delay of their number.
Allowed ==
    LET history == InWindow(hits) IN
    /\ \A a \in history : a >= Delay(Cardinality(history))
    /\ Cardinality(history) < MaxHits

\* allow: what has left the window is forgotten, and the attempt is kept.
Allow(h) ==
    /\ checks[h] = "idle" /\ Allowed
    /\ hits' = InWindow(hits) \union {0}
    /\ recent' = recent \union {0}
    /\ checks' = [checks EXCEPT ![h] = "check"]

\* A refused attempt is not kept.
Refuse(h) ==
    /\ checks[h] = "idle" /\ ~Allowed
    /\ hits' = InWindow(hits)
    /\ UNCHANGED <<checks, recent>>

\* sessionLogin: the right token forgets the attempts before it, of other requests too.
Answer(h) ==
    /\ checks[h] = "check"
    /\ checks' = [checks EXCEPT ![h] = "idle"]
    /\ \/ hits' = {} /\ recent' = {}
       \/ UNCHANGED <<hits, recent>>

Tick ==
    /\ hits' = {IF a < Window THEN a + 1 ELSE Window : a \in hits}
    /\ recent' = InWindow({a + 1 : a \in recent})
    /\ UNCHANGED checks

Attempt(h) == Allow(h) \/ Refuse(h) \/ Answer(h)

LimitNext == Tick \/ \E h \in Attempters : Attempt(h)

\* Time goes on.
LimitFairness == WF_limitVars(Tick)

LimitSpec == LimitInit /\ [][LimitNext]_limitVars /\ LimitFairness

-----------------------------------------------------------------------------
\* Properties

\* What an attempt costs that has k others before it in the window.
Cost(k) == IF k > MaxShift THEN MaxDelay ELSE 2 ^ (k - 1)

\* No window holds more attempts than its limit, however many requests are under way
\* and whoever of them is right, and each attempt waited twice as long as the one
\* before ("the per-attempt backoff makes even the first few failures cost real time").
AttemptsCost ==
    /\ Cardinality(recent) <= MaxHits
    /\ \A a, b \in recent : a < b => b - a >= Cost(Cardinality({c \in recent : c > a}))

\* Whoever is refused, and asks again in the meantime, is let in after a while.
PatienceHelps == ~Allowed ~> Allowed

-----------------------------------------------------------------------------

\* The numbers are such that the delay grows up to the longest, which is that of 1, 2,
\* 4, ... once it would be longer (1 << 6 against 60 seconds).
LimitConstantsOK ==
    /\ Window \in Nat \ {0} /\ MaxHits \in Nat \ {0} /\ MaxShift \in Nat /\ MaxDelay \in Nat \ {0}
    /\ \A n \in 1..MaxHits :
         /\ Delay(n) \in Nat \ {0} /\ Cost(n) \in Nat /\ Cost(n) <= Delay(n)
         /\ \A m \in 1..n : Delay(m) <= Delay(n)
=============================================================================
