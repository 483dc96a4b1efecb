--------------------------- MODULE LoginThrottle ---------------------------
(***************************************************************************)
(* The limit on failed logins: get_login_throttle_state,                    *)
(* record_login_failure and clear_login_failures of                         *)
(* control_api/app/domains/auth/service.py, as the login handler of         *)
(* app/api/v1/auth.py calls them, for one address and one email; the rows   *)
(* of others are in none of their conditions.                               *)
(*                                                                         *)
(* A login takes the time once, when it arrives, checks the throttle with   *)
(* it, verifies the password and then records the outcome in one            *)
(* statement, whose row lock makes it one step; the check has no lock.      *)
(***************************************************************************)
EXTENDS Integers, FiniteSets

CONSTANTS
  Callers,      \* logins served at once
  MaxAttempts,  \* login_throttle_max_attempts
  Window,       \* login_throttle_window_minutes
  Lockout,      \* login_throttle_lockout_minutes
  MaxMinute,    \* the clock stops here
  NotServed

ConstantsAssumption ==
  /\ IsFiniteSet(Callers) /\ MaxAttempts \in Nat \ {0} /\ MaxMinute \in Nat
  /\ Window \in Nat \ {0} /\ Lockout \in Nat \ {0}
  /\ NotServed \notin Nat

Minutes == 0..MaxMinute
Never == 0

VARIABLES
  minute,
  attempts,      \* [window start -> attempt_count], 0 for no row
  blockedUntil,  \* [window start -> blocked_until]
  verifying,     \* [Callers -> the arrival of a login past the check]
  failures       \* [window start -> passwords refused since the last login that succeeded]

vars == <<minute, attempts, blockedUntil, verifying, failures>>

\* _window_start
WindowStart(t) == t - (t % Window)

Blocked(t) == \E w \in Minutes : blockedUntil[w] > t

\* Mutant: every failure is the first of its window.
First(n) == 1

\* next_attempt_count; a new row has 1.
Counted(n) == n + 1

\* Mutant: a lock outlives the login that succeeds.
LockKept(until) == until

\* blocked_until = NULL
Unlocked(until) == Never

-----------------------------------------------------------------------------
Init ==
  /\ minute = 0
  /\ attempts = [w \in Minutes |-> 0]
  /\ blockedUntil = [w \in Minutes |-> Never]
  /\ verifying = [c \in Callers |-> NotServed]
  /\ failures = [w \in Minutes |-> 0]

\* The check; a blocked login is answered with 429 and its password is not looked at.
Arrive(c) ==
  /\ verifying[c] = NotServed /\ ~Blocked(minute)
  /\ verifying' = [verifying EXCEPT ![c] = minute]
  /\ UNCHANGED <<minute, attempts, blockedUntil, failures>>

\* record_login_failure, with the time of the arrival, and 401.
Refuse(c) ==
  LET t == verifying[c]  w == WindowStart(t)  n == Counted(attempts[w]) IN
  /\ t # NotServed
  /\ attempts' = [attempts EXCEPT ![w] = n]
  /\ blockedUntil' =
       IF n >= MaxAttempts THEN [blockedUntil EXCEPT ![w] = t + Lockout] ELSE blockedUntil
  /\ failures' = [failures EXCEPT ![w] = @ + 1]
  /\ verifying' = [verifying EXCEPT ![c] = NotServed]
  /\ UNCHANGED minute

\* clear_login_failures, in the transaction that makes the session.
Admit(c) ==
  /\ verifying[c] # NotServed
  /\ attempts' = [w \in Minutes |-> 0]
  /\ blockedUntil' = [w \in Minutes |-> Unlocked(blockedUntil[w])]
  /\ failures' = [w \in Minutes |-> 0]
  /\ verifying' = [verifying EXCEPT ![c] = NotServed]
  /\ UNCHANGED minute

\* 500: nothing is committed and nothing said of the password.
Abort(c) ==
  /\ verifying[c] # NotServed
  /\ verifying' = [verifying EXCEPT ![c] = NotServed]
  /\ UNCHANGED <<minute, attempts, blockedUntil, failures>>

Tick ==
  /\ minute < MaxMinute /\ minute' = minute + 1
  /\ UNCHANGED <<attempts, blockedUntil, verifying, failures>>

Next ==
  \/ \E c \in Callers : Arrive(c) \/ Refuse(c) \/ Admit(c) \/ Abort(c)
  \/ Tick

Spec == Init /\ [][Next]_vars

-----------------------------------------------------------------------------
(* Properties.                                                             *)

\* Every variable has its type.
TypeOK ==
  /\ minute \in Minutes
  /\ attempts \in [Minutes -> Nat] /\ failures \in [Minutes -> Nat]
  /\ blockedUntil \in [Minutes -> Nat]
  /\ verifying \in [Callers -> Minutes \cup {NotServed}]

\* Logins under way that arrived in the window w.
InFlight(w) == {c \in Callers : verifying[c] # NotServed /\ WindowStart(verifying[c]) = w}

\* A window refuses fewer than MaxAttempts passwords before it blocks, and after that only
\* those of logins that had passed the check (auth.py:173, which takes no lock), as long as a
\* lock lasts at least a window, as it does by default (core/config.py:32-34).
GuessesAreCapped == Lockout >= Window =>
  \A w \in Minutes :
    failures[w] + Cardinality(InFlight(w)) < MaxAttempts + Cardinality(Callers)

\* A lock follows MaxAttempts refused passwords of one window since the last success, and ends
\* at most a lockout from now: a login that fails late writes a lock that ends earlier, and
\* never a longer one (auth/service.py:67, the time of the arrival).
LocksAreEarned ==
  \A w \in Minutes : blockedUntil[w] # Never =>
    failures[w] >= MaxAttempts /\ blockedUntil[w] <= minute + Lockout

ThrottleHolds == GuessesAreCapped /\ LocksAreEarned
=============================================================================
