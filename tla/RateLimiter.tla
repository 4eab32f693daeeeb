---------------------------- MODULE RateLimiter ----------------------------
(***************************************************************************)
(* The per-minute authentication rate limiter of the API server            *)
(* (internal/api/ratelimit.go), called first by authorizeRead,             *)
(* authorizeIngest and authorizeExport (internal/api/auth.go).             *)
(*                                                                         *)
(* Every HTTP request runs on its own goroutine.  Allow reads the current  *)
(* minute window BEFORE it takes l.mu, and under the lock resets all       *)
(* counters whenever the window it read differs from l.window, in either   *)
(* direction.  A request is one process: Arrive is the unlocked prefix of  *)
(* Allow, Count the locked suffix; the scheduler may run any other request *)
(* or advance the clock in between.                                        *)
(***************************************************************************)
EXTENDS Naturals, FiniteSets

CONSTANTS
  Requests,   \* concurrent requests (goroutines)
  Keys,       \* action|remote-IP keys
  Limit,      \* l.limits[action]
  Enabled,    \* l.enabled
  MaxMinute   \* bound on the wall clock, in minutes

VARIABLES
  now,        \* time.Now().UTC().Unix() / 60
  window,     \* l.window
  counters,   \* l.counters
  pc,         \* per request: "idle", "lock", "allowed", "denied"
  key,        \* per request: its limiter key
  nowWindow,  \* per request: the window it read before locking
  granted     \* history: <<request, window it read, key>> of every limited request allowed

vars == <<now, window, counters, pc, key, nowWindow, granted>>

Minutes == 0..MaxMinute

\* make(map[string]int): a missing key reads as 0.
EmptyCounters == [k \in Keys |-> 0]

TypeOK ==
  /\ now \in Minutes
  /\ window \in Minutes
  /\ counters \in [Keys -> 0..Cardinality(Requests)]
  /\ pc \in [Requests -> {"idle", "lock", "allowed", "denied"}]
  /\ key \in [Requests -> Keys]
  /\ nowWindow \in [Requests -> Minutes]
  /\ granted \subseteq Requests \X Minutes \X Keys

\* newAuthRateLimiter: window is the current minute, counters empty.
Init ==
  /\ now = 0
  /\ window = now
  /\ counters = EmptyCounters
  /\ pc = [r \in Requests |-> "idle"]
  /\ key \in [Requests -> Keys]
  /\ nowWindow = [r \in Requests |-> 0]
  /\ granted = {}

\* Allow up to l.mu.Lock(): a disabled limiter or a non-positive limit
\* allows at once; otherwise the goroutine reads the clock.
Arrive(r) ==
  /\ pc[r] = "idle"
  /\ IF ~Enabled \/ Limit <= 0
       THEN /\ pc' = [pc EXCEPT ![r] = "allowed"]
            /\ UNCHANGED nowWindow
       ELSE /\ nowWindow' = [nowWindow EXCEPT ![r] = now]
            /\ pc' = [pc EXCEPT ![r] = "lock"]
  /\ UNCHANGED <<now, window, counters, key, granted>>

\* Allow under l.mu: a window different from l.window (older or newer)
\* replaces l.window and starts a fresh counter map; then the key's
\* counter is incremented and compared with the limit.
Count(r) ==
  LET fresh == nowWindow[r] /= window
      base  == IF fresh THEN EmptyCounters ELSE counters
      n     == base[key[r]] + 1
  IN /\ pc[r] = "lock"
     /\ window' = nowWindow[r]
     /\ counters' = [base EXCEPT ![key[r]] = n]
     /\ pc' = [pc EXCEPT ![r] = IF n <= Limit THEN "allowed" ELSE "denied"]
     /\ granted' = IF n <= Limit THEN granted \cup {<<r, nowWindow[r], key[r]>>}
                                 ELSE granted
     /\ UNCHANGED <<now, key, nowWindow>>

\* currentMinuteWindow moves on.
Tick ==
  /\ now < MaxMinute
  /\ now' = now + 1
  /\ UNCHANGED <<window, counters, pc, key, nowWindow, granted>>

Next ==
  \/ \E r \in Requests : Arrive(r) \/ Count(r)
  \/ Tick

Spec == Init /\ [][Next]_vars

-----------------------------------------------------------------------------
(***************************************************************************)
(* Properties.                                                             *)
(***************************************************************************)

\* What ReadPerMinute, IngestPerMinute and ExportPerMinute promise: within
\* one minute window no key has more than Limit requests allowed, however
\* the goroutines calling Allow interleave with the clock.
AllowedWithinLimit ==
  \A w \in Minutes, k \in Keys :
    Cardinality({g \in granted : g[2] = w /\ g[3] = k}) <= Limit
=============================================================================
