---------------------------- MODULE ClientsProofs ----------------------------
(***************************************************************************)
(* Proofs about Clients: the limit on guesses (LoginThrottle) and the       *)
(* session of a browser (ConsoleSession), what the pages show and send      *)
(* (ScreensHold), the access given by tokens and by the SDK's cache         *)
(* (AccessHolds), and the types of them all, for any number of tabs,        *)
(* requests, rows, workers and tenants and any bound on what they do.  The  *)
(* rows of the server are in RowsProofs.                                    *)
(***************************************************************************)
EXTENDS RowsProofs, Sequences, FiniteSetTheorems

(* The limit on guesses: LoginThrottle; then the session: ConsoleSession.  *)

\* The counter is what it counts, and a full window is blocked from its start for a lockout.
CountersBlock ==
  \A w \in Throttle!Minutes :
    /\ attempts[w] = failures[w]
    /\ failures[w] >= MaxAttempts => blockedUntil[w] >= w + Lockout

\* A login carries the time it arrived at.
ArrivedBefore == \A c \in Callers : verifying[c] # None => verifying[c] <= minute

ThrottleInv == Throttle!TypeOK /\ CountersBlock /\ ArrivedBefore /\ Throttle!LocksAreEarned /\
  Throttle!GuessesAreCapped

-----------------------------------------------------------------------------
\* The instance's copies of the library's operators are the library's.
LEMMA SameSets ==
  /\ \A S : Throttle!IsFiniteSet(S) <=> IsFiniteSet(S)
  /\ \A S : Throttle!Cardinality(S) = Cardinality(S)
<1>1. \A S : Throttle!IsFiniteSet(S) <=> IsFiniteSet(S)
  BY Zenon DEF Throttle!IsFiniteSet, IsFiniteSet
<1>2. \A S : Throttle!Cardinality(S) = Cardinality(S)
  BY Zenon DEF Throttle!Cardinality, Cardinality
<1>. QED
  BY <1>1, <1>2

\* Every time lies in the window that starts at its window start.
LEMMA WindowHoldsTime ==
  ASSUME Throttle!ConstantsAssumption, NEW t \in Throttle!Minutes
  PROVE  /\ Throttle!WindowStart(t) \in Throttle!Minutes
         /\ Throttle!WindowStart(t) <= t /\ t < Throttle!WindowStart(t) + LoginWindow
<1>1. t % LoginWindow \in 0..(LoginWindow - 1) /\ t % LoginWindow <= t
  BY SMT DEF Throttle!ConstantsAssumption, Throttle!Minutes
<1>. QED
  BY <1>1, SMT DEF Throttle!ConstantsAssumption, Throttle!Minutes, Throttle!WindowStart

\* There are no more logins of a window under way than are served at once.
LEMMA InFlightIsBounded ==
  ASSUME Throttle!ConstantsAssumption, NEW w
  PROVE  /\ Throttle!IsFiniteSet(Throttle!InFlight(w))
         /\ Throttle!Cardinality(Throttle!InFlight(w)) \in Nat
         /\ Throttle!Cardinality(Throttle!InFlight(w)) <= Throttle!Cardinality(Callers)
<1>1. Throttle!InFlight(w) \in SUBSET Callers
  BY DEF Throttle!InFlight
<1>2. Throttle!IsFiniteSet(Throttle!InFlight(w)) /\
        Throttle!Cardinality(Throttle!InFlight(w)) <= Throttle!Cardinality(Callers)
  BY <1>1, FS_Subset, SameSets DEF Throttle!ConstantsAssumption
<1>. QED
  BY <1>2, FS_CardinalityType, SameSets

\* The same of the next state.
LEMMA InFlightIsBoundedNext ==
  ASSUME Throttle!ConstantsAssumption, NEW w
  PROVE  /\ Throttle!IsFiniteSet(Throttle!InFlight(w)')
         /\ Throttle!Cardinality(Throttle!InFlight(w)') \in Nat
         /\ Throttle!Cardinality(Throttle!InFlight(w)') <= Throttle!Cardinality(Callers)
<1>1. Throttle!InFlight(w)' \in SUBSET Callers
  BY DEF Throttle!InFlight
<1>2. Throttle!IsFiniteSet(Throttle!InFlight(w)') /\
        Throttle!Cardinality(Throttle!InFlight(w)') <= Throttle!Cardinality(Callers)
  BY <1>1, FS_Subset, SameSets DEF Throttle!ConstantsAssumption
<1>. QED
  BY <1>2, FS_CardinalityType, SameSets

\* A login that ends leaves its window and no other.
LEMMA EndOfLogin ==
  ASSUME Throttle!ConstantsAssumption, Throttle!TypeOK, NEW c \in Callers, NEW w,
         verifying[c] # None,
         verifying' = [verifying EXCEPT ![c] = None]
  PROVE  /\ Throttle!Cardinality(Throttle!InFlight(w)') <= Throttle!Cardinality(Throttle!InFlight(w))
         /\ w = Throttle!WindowStart(verifying[c]) =>
              Throttle!Cardinality(Throttle!InFlight(w)') = Throttle!Cardinality(Throttle!InFlight(w)) - 1
<1>1. Throttle!InFlight(w)' = Throttle!InFlight(w) \ {c}
  BY DEF Throttle!InFlight, Throttle!TypeOK
<1>2. w = Throttle!WindowStart(verifying[c]) => c \in Throttle!InFlight(w)
  BY DEF Throttle!InFlight
<1>3. Throttle!Cardinality(Throttle!InFlight(w) \ {c}) =
        IF c \in Throttle!InFlight(w) THEN Throttle!Cardinality(Throttle!InFlight(w)) - 1
          ELSE Throttle!Cardinality(Throttle!InFlight(w))
  BY InFlightIsBounded, FS_RemoveElement, SameSets
<1>. QED
  BY <1>1, <1>2, <1>3, InFlightIsBounded

-----------------------------------------------------------------------------
LEMMA InitThrottle ==
  ASSUME Throttle!ConstantsAssumption, Throttle!Init
  PROVE  ThrottleInv
<1>1. Throttle!TypeOK /\ CountersBlock /\ ArrivedBefore /\ Throttle!LocksAreEarned
  BY DEF Throttle!Init, Throttle!TypeOK, CountersBlock, ArrivedBefore, Throttle!LocksAreEarned,
     Throttle!ConstantsAssumption,
         Throttle!Minutes, Throttle!Never
<1>2. Throttle!GuessesAreCapped
  <2>. SUFFICES ASSUME NEW w \in Throttle!Minutes
                PROVE  failures[w] + Throttle!Cardinality(Throttle!InFlight(w)) < MaxAttempts + Throttle!Cardinality(Callers)
    BY DEF Throttle!GuessesAreCapped
  <2>1. failures[w] = 0 /\ MaxAttempts \in Nat \ {0} /\ Throttle!Cardinality(Callers) \in Nat
    BY FS_CardinalityType, SameSets DEF Throttle!Init, Throttle!ConstantsAssumption
  <2>. QED
    BY <2>1, InFlightIsBounded
<1>. QED
  BY <1>1, <1>2 DEF ThrottleInv

\* A login passes the check only while its window is not full.
LEMMA ArriveKeeps ==
  ASSUME Throttle!ConstantsAssumption, ThrottleInv, NEW c \in Callers, Throttle!Arrive(c)
  PROVE  ThrottleInv'
<1>1. /\ Throttle!TypeOK /\ CountersBlock /\ Throttle!GuessesAreCapped
      /\ UNCHANGED <<minute, attempts, blockedUntil, failures>>
      /\ verifying' = [verifying EXCEPT ![c] = minute]
  BY DEF ThrottleInv, Throttle!Arrive
<1>2. Throttle!TypeOK' /\ CountersBlock' /\ ArrivedBefore' /\ Throttle!LocksAreEarned'
  BY <1>1, SMT DEF ThrottleInv, Throttle!TypeOK, CountersBlock, ArrivedBefore,
     Throttle!LocksAreEarned, Throttle!Minutes,
     Throttle!ConstantsAssumption
<1>3. Throttle!GuessesAreCapped'
  <2>. SUFFICES ASSUME Lockout >= LoginWindow, NEW w \in Throttle!Minutes
                PROVE  failures[w]' + Throttle!Cardinality(Throttle!InFlight(w)')
                         < MaxAttempts + Throttle!Cardinality(Callers)
    BY DEF Throttle!GuessesAreCapped
  <2>0. failures[w] \in Nat /\ MaxAttempts \in Nat /\ Throttle!Cardinality(Callers) \in Nat
    BY <1>1, FS_CardinalityType, SameSets DEF Throttle!TypeOK, Throttle!ConstantsAssumption
  <2>1. CASE w = Throttle!WindowStart(minute)
    <3>1. minute < w + LoginWindow
      BY <2>1, <1>1, WindowHoldsTime DEF Throttle!TypeOK
    <3>2. ~(blockedUntil[w] > minute)
      BY DEF Throttle!Arrive, Throttle!Blocked
    <3>3. failures[w] < MaxAttempts
      BY <3>1, <3>2, <1>1, <2>0, SMT DEF CountersBlock, Throttle!TypeOK,
         Throttle!ConstantsAssumption, Throttle!Minutes
    <3>. QED
      BY <3>3, <2>0, <1>1, InFlightIsBoundedNext
  <2>2. CASE w # Throttle!WindowStart(minute)
    <3>1. Throttle!InFlight(w)' \in SUBSET Throttle!InFlight(w)
      BY <2>2, <1>1 DEF Throttle!InFlight, Throttle!TypeOK
    <3>2. Throttle!Cardinality(Throttle!InFlight(w)') <= Throttle!Cardinality(Throttle!InFlight(w))
      BY <3>1, FS_Subset, SameSets, InFlightIsBounded
    <3>3. failures[w] + Throttle!Cardinality(Throttle!InFlight(w)) < MaxAttempts + Throttle!Cardinality(Callers)
      BY <1>1 DEF Throttle!GuessesAreCapped
    <3>. QED
      BY <3>2, <3>3, <2>0, <1>1, InFlightIsBounded, InFlightIsBoundedNext
  <2>. QED
    BY <2>1, <2>2
<1>. QED
  BY <1>2, <1>3 DEF ThrottleInv

\* A failure moves a login from those under way to those counted.
LEMMA RefuseKeeps ==
  ASSUME Throttle!ConstantsAssumption, ThrottleInv, NEW c \in Callers, Throttle!Refuse(c)
  PROVE  ThrottleInv'
<1>. DEFINE t == verifying[c]
            v == Throttle!WindowStart(t)
<1>1. Throttle!TypeOK /\ CountersBlock /\ ArrivedBefore /\ Throttle!LocksAreEarned /\
        Throttle!GuessesAreCapped
  BY DEF ThrottleInv
<1>2. /\ t \in Throttle!Minutes /\ t # None /\ t <= minute /\ v \in Throttle!Minutes /\ v <= t
      /\ attempts[v] = failures[v]
  BY <1>1, WindowHoldsTime DEF Throttle!Refuse, Throttle!TypeOK, ArrivedBefore, CountersBlock
<1>3. /\ attempts' = [attempts EXCEPT ![v] = failures[v] + 1]
      /\ blockedUntil' = IF failures[v] + 1 >= MaxAttempts
                         THEN [blockedUntil EXCEPT ![v] = t + Lockout] ELSE blockedUntil
      /\ failures' = [failures EXCEPT ![v] = failures[v] + 1]
      /\ verifying' = [verifying EXCEPT ![c] = None]
      /\ minute' = minute
  BY <1>2 DEF Throttle!Refuse, Throttle!Counted
<1>. HIDE DEF t, v
<1>4. Throttle!TypeOK'
  <2>1. t + Lockout \in Nat /\ failures[v] + 1 \in Nat
    BY <1>1, <1>2 DEF Throttle!TypeOK, Throttle!Minutes, Throttle!ConstantsAssumption
  <2>2. blockedUntil' \in [Throttle!Minutes -> Nat]
    BY <1>1, <1>3, <2>1 DEF Throttle!TypeOK
  <2>. QED
    BY <1>1, <1>3, <2>1, <2>2 DEF Throttle!TypeOK
<1>5. CountersBlock'
  BY <1>1, <1>2, <1>3, SMT DEF Throttle!TypeOK, CountersBlock, Throttle!Minutes,
     Throttle!ConstantsAssumption
<1>6. ArrivedBefore'
  BY <1>1, <1>3 DEF ArrivedBefore, Throttle!TypeOK
<1>7. Throttle!LocksAreEarned'
  <2>. SUFFICES ASSUME NEW w \in Throttle!Minutes, blockedUntil'[w] # Throttle!Never
                PROVE  failures'[w] >= MaxAttempts /\ blockedUntil'[w] <= minute' + Lockout
    BY DEF Throttle!LocksAreEarned
  <2>1. CASE w = v /\ failures[v] + 1 >= MaxAttempts
    <3>1. blockedUntil'[w] = t + Lockout /\ failures'[w] = failures[v] + 1
      BY <2>1, <1>1, <1>3 DEF Throttle!TypeOK
    <3>. QED
      BY <2>1, <3>1, <1>1, <1>2, <1>3 DEF Throttle!TypeOK, Throttle!Minutes,
         Throttle!ConstantsAssumption
  <2>2. CASE ~(w = v /\ failures[v] + 1 >= MaxAttempts)
    <3>1. /\ blockedUntil'[w] = blockedUntil[w] /\ failures[w] \in Nat
          /\ failures'[w] \in {failures[w], failures[w] + 1}
      BY <2>2, <1>1, <1>2, <1>3 DEF Throttle!TypeOK
    <3>. QED
      BY <3>1, <1>1, <1>3 DEF Throttle!LocksAreEarned, Throttle!ConstantsAssumption
  <2>. QED
    BY <2>1, <2>2
<1>8. Throttle!GuessesAreCapped'
  <2>. SUFFICES ASSUME Lockout >= LoginWindow, NEW w \in Throttle!Minutes
                PROVE  failures[w]' + Throttle!Cardinality(Throttle!InFlight(w)')
                         < MaxAttempts + Throttle!Cardinality(Callers)
    BY DEF Throttle!GuessesAreCapped
  <2>1. failures[w] + Throttle!Cardinality(Throttle!InFlight(w)) < MaxAttempts + Throttle!Cardinality(Callers)
    BY <1>1 DEF Throttle!GuessesAreCapped
  <2>2. /\ failures[w] \in Nat /\ MaxAttempts \in Nat /\ Throttle!Cardinality(Callers) \in Nat
        /\ failures[w]' = IF w = v THEN failures[w] + 1 ELSE failures[w]
    BY <1>1, <1>2, <1>3, FS_CardinalityType, SameSets DEF Throttle!TypeOK,
       Throttle!ConstantsAssumption
  <2>3. /\ Throttle!Cardinality(Throttle!InFlight(w)') <= Throttle!Cardinality(Throttle!InFlight(w))
        /\ w = v => Throttle!Cardinality(Throttle!InFlight(w)') = Throttle!Cardinality(Throttle!InFlight(w)) - 1
    BY <1>1, <1>2, <1>3, EndOfLogin DEF t, v
  <2>. QED
    BY <2>1, <2>2, <2>3, InFlightIsBounded, InFlightIsBoundedNext
<1>. QED
  BY <1>4, <1>5, <1>6, <1>7, <1>8 DEF ThrottleInv

\* A success starts every window again.
LEMMA AdmitKeeps ==
  ASSUME Throttle!ConstantsAssumption, ThrottleInv, NEW c \in Callers, Throttle!Admit(c)
  PROVE  ThrottleInv'
<1>1. Throttle!TypeOK /\ ArrivedBefore
  BY DEF ThrottleInv
<1>2. /\ attempts' = [w \in Throttle!Minutes |-> 0] /\ failures' = [w \in Throttle!Minutes |-> 0]
      /\ blockedUntil' = [w \in Throttle!Minutes |-> Throttle!Never]
      /\ verifying' = [verifying EXCEPT ![c] = None]
      /\ minute' = minute
  BY DEF Throttle!Admit, Throttle!Unlocked
<1>3. Throttle!TypeOK' /\ CountersBlock' /\ ArrivedBefore' /\ Throttle!LocksAreEarned'
  BY <1>1, <1>2, SMT DEF Throttle!TypeOK, CountersBlock, ArrivedBefore, Throttle!LocksAreEarned,
     Throttle!ConstantsAssumption, Throttle!Never
<1>4. Throttle!GuessesAreCapped'
  <2>. SUFFICES ASSUME NEW w \in Throttle!Minutes
                PROVE  failures[w]' + Throttle!Cardinality(Throttle!InFlight(w)')
                         < MaxAttempts + Throttle!Cardinality(Callers)
    BY DEF Throttle!GuessesAreCapped
  <2>1. failures'[w] = 0 /\ MaxAttempts \in Nat \ {0} /\ Throttle!Cardinality(Callers) \in Nat
    BY <1>2, FS_CardinalityType, SameSets DEF Throttle!ConstantsAssumption
  <2>. QED
    BY <2>1, InFlightIsBoundedNext
<1>. QED
  BY <1>3, <1>4 DEF ThrottleInv

\* A login that ends in an error is not counted, and not under way either.
LEMMA AbortKeeps ==
  ASSUME Throttle!ConstantsAssumption, ThrottleInv, NEW c \in Callers, Throttle!Abort(c)
  PROVE  ThrottleInv'
<1>1. /\ Throttle!TypeOK /\ Throttle!GuessesAreCapped
      /\ UNCHANGED <<minute, attempts, blockedUntil, failures>>
      /\ verifying[c] # None /\ verifying' = [verifying EXCEPT ![c] = None]
  BY DEF ThrottleInv, Throttle!Abort
<1>2. Throttle!TypeOK' /\ CountersBlock' /\ ArrivedBefore' /\ Throttle!LocksAreEarned'
  BY <1>1, SMT DEF ThrottleInv, Throttle!TypeOK, CountersBlock, ArrivedBefore,
     Throttle!LocksAreEarned,
     Throttle!ConstantsAssumption, Throttle!Minutes
<1>3. Throttle!GuessesAreCapped'
  <2>. SUFFICES ASSUME Lockout >= LoginWindow, NEW w \in Throttle!Minutes
                PROVE  failures[w]' + Throttle!Cardinality(Throttle!InFlight(w)')
                         < MaxAttempts + Throttle!Cardinality(Callers)
    BY DEF Throttle!GuessesAreCapped
  <2>1. failures[w] + Throttle!Cardinality(Throttle!InFlight(w)) < MaxAttempts + Throttle!Cardinality(Callers)
    BY <1>1 DEF Throttle!GuessesAreCapped
  <2>2. failures[w] \in Nat /\ MaxAttempts \in Nat /\ Throttle!Cardinality(Callers) \in Nat
    BY <1>1, FS_CardinalityType, SameSets DEF Throttle!TypeOK, Throttle!ConstantsAssumption
  <2>3. Throttle!Cardinality(Throttle!InFlight(w)') <= Throttle!Cardinality(Throttle!InFlight(w))
    BY <1>1, EndOfLogin
  <2>. QED
    BY <1>1, <2>1, <2>2, <2>3, InFlightIsBounded, InFlightIsBoundedNext
<1>. QED
  BY <1>2, <1>3 DEF ThrottleInv

\* Time passes, or nothing happens.
LEMMA WaitKeeps ==
  ASSUME Throttle!ConstantsAssumption, ThrottleInv, Throttle!Tick \/ UNCHANGED Throttle!vars
  PROVE  ThrottleInv'
<1>1. /\ UNCHANGED <<attempts, blockedUntil, verifying, failures>>
      /\ minute' \in Throttle!Minutes /\ minute <= minute'
  BY SMT DEF Throttle!Tick, Throttle!vars, Throttle!Minutes, ThrottleInv, Throttle!TypeOK,
     Throttle!ConstantsAssumption
<1>2. Throttle!TypeOK' /\ CountersBlock' /\ ArrivedBefore' /\ Throttle!LocksAreEarned'
  BY <1>1, SMT DEF ThrottleInv, Throttle!TypeOK, CountersBlock, ArrivedBefore,
     Throttle!LocksAreEarned,
     Throttle!ConstantsAssumption, Throttle!Minutes
<1>3. \A w : Throttle!InFlight(w)' = Throttle!InFlight(w)
  BY <1>1 DEF Throttle!InFlight
<1>4. Throttle!GuessesAreCapped'
  BY <1>1, <1>3 DEF ThrottleInv, Throttle!GuessesAreCapped
<1>. QED
  BY <1>2, <1>4 DEF ThrottleInv

-----------------------------------------------------------------------------
(* Theorems.                                                               *)

LEMMA ThrottleStep ==
  ASSUME Throttle!ConstantsAssumption, ThrottleInv, [Throttle!Next]_Throttle!vars
  PROVE  ThrottleInv'
BY ArriveKeeps, RefuseKeeps, AdmitKeeps, AbortKeeps, WaitKeeps DEF Throttle!Next

\* The limit holds in every reachable state, whatever logins check it at the same time.
THEOREM ThrottleInvariant ==
  ASSUME Throttle!ConstantsAssumption
  PROVE  Throttle!Spec => []ThrottleInv
<1>1. Throttle!Init => ThrottleInv
  BY InitThrottle
<1>2. ThrottleInv /\ [Throttle!Next]_Throttle!vars => ThrottleInv'
  BY ThrottleStep
<1>. QED
  BY <1>1, <1>2, PTL DEF Throttle!Spec

\* A window refuses no more passwords than its limit and the logins that had passed the check,
\* and whoever is locked out has used the limit up, for a lockout at most (auth.py:173-193).
THEOREM ThrottleIsKept ==
  ASSUME Throttle!ConstantsAssumption
  PROVE  Throttle!Spec => []Throttle!ThrottleHolds
<1>1. ThrottleInv => Throttle!ThrottleHolds
  BY DEF ThrottleInv, Throttle!ThrottleHolds
<1>. QED
  BY <1>1, ThrottleInvariant, PTL

OneRestore ==
  \A p, q \in posts :
    p.page /\ q.page /\ p.kind = q.kind /\ p.tab = q.tab => p = q

\* Nobody carries the number n but the answers in posts.
Unseen(n) ==
  /\ cookie # n
  /\ \A t \in Tabs : store[t].token # n /\ store[t].csrf # n
  /\ \A t \in Tabs, c \in Calls : call[t][c].with # n /\ call[t][c].refused # n
  /\ \A p \in posts : p.cookie # n /\ p.header # n

\* A number that was not issued is nobody's.
NumbersAreIssued ==
  /\ \A n \in Session!Numbers : n > issued => Unseen(n) /\ n \notin current
  /\ \A p \in posts : p.answer <= issued

\* An answer on its way is known to nobody, and what it carries is accepted.
AnswersAreNew ==
  \A p \in posts : p.answer \in Session!Numbers =>
    /\ p.answer \in current /\ Unseen(p.answer)
    /\ \A q \in posts : q.answer = p.answer => q = p

\* Before anything is lost: a tab has one number, nobody else's; who signs in has none, and
\* who restores has the one presented.
TabsApart ==
  /\ \A t \in Tabs : store[t].token = store[t].csrf
  /\ \A t, u \in Tabs : store[t].csrf = store[u].csrf /\ store[t].csrf # Session!NoNumber => t = u
  /\ \A p \in posts :
       /\ p.page
       /\ p.kind = "login" => store[p.tab].csrf = Session!NoNumber /\ waiting[p.tab] = {}
       /\ p.kind = "refresh" => p.header = store[p.tab].csrf /\ p.header # Session!NoNumber

\* A refresh that presents the cookie's number finds it accepted.
RestoresAreValid ==
  \A p \in posts :
    p.kind = "refresh" /\ p.header = p.cookie =>
      p.answer # Session!Denied /\ (p.answer = Session!Pending => p.cookie \in current)

CookieIsLive ==
  cookie # Session!NoNumber =>
    \/ cookie \in current
    \/ \E p \in posts : /\ p.kind = "refresh" /\ p.cookie = cookie /\ p.header = cookie
                        /\ p.answer \in current

Lossless == lost = 0 => TabsApart /\ RestoresAreValid /\ CookieIsLive

SessionInv ==
  /\ Session!TypeOK /\ Session!NobodyWaitsInVain /\ OneRestore /\ Session!RetriesAreRenewed
  /\ NumbersAreIssued /\ AnswersAreNew /\ Lossless

-----------------------------------------------------------------------------
LEMMA SessionInit ==
  ASSUME Session!ConstantsAssumption, Session!Init
  PROVE  SessionInv
<1>. USE DEF Session!Init, Session!ConstantsAssumption
<1>1. Session!TypeOK
  BY DEF Session!TypeOK, Session!Stores, Session!Requests, Session!Idle, Session!Logout,
     Session!NoNumber, Session!Numbers
<1>2. Session!NobodyWaitsInVain /\ OneRestore /\ Session!RetriesAreRenewed
  BY DEF Session!NobodyWaitsInVain, OneRestore, Session!RetriesAreRenewed, Session!Idle
<1>3. NumbersAreIssued /\ AnswersAreNew
  BY DEF NumbersAreIssued, AnswersAreNew, Unseen, Session!Numbers, Session!Idle, Session!Logout,
     Session!NoNumber
<1>4. Lossless
  BY DEF Lossless, TabsApart, RestoresAreValid, CookieIsLive, Session!Logout, Session!NoNumber
<1>. QED
  BY <1>1, <1>2, <1>3, <1>4 DEF SessionInv

\* Requests and their answers, but for the first refusal, leave session and tabs alone.
LEMMA RequestKeeps ==
  ASSUME Session!ConstantsAssumption, SessionInv, NEW t \in Tabs,
         NEW c \in Calls, Session!Send(t, c) \/ Session!Settled(t, c)
  PROVE  SessionInv'
<1>. USE DEF SessionInv
<1>1. UNCHANGED <<issued, current, cookie, store, waiting, posts, lost>>
  BY DEF Session!Send, Session!Settled
<1>2. PICK r \in Session!Requests :
        /\ call' = [call EXCEPT ![t][c] = r]
        /\ r.state # "waiting" /\ call[t][c].state # "waiting"
        /\ r.state = "sent" => r.with # r.refused
        /\ r.with \in {Session!NoNumber, store[t].token} /\ r.refused = Session!NoNumber
  <2>1. CASE Session!Send(t, c)
    <3>. DEFINE x == [Session!Idle EXCEPT !.state = "sent", !.with = store[t].token]
    <3>1. /\ store[t].token \in Session!Numbers \cup {Session!NoNumber} /\
               store[t].token # Session!NoNumber
          /\ call[t][c] = Session!Idle /\ call' = [call EXCEPT ![t][c] = x]
      BY <2>1 DEF Session!Send, Session!Shown, Session!TypeOK, Session!Stores
    <3>2. Session!Idle \in Session!Requests /\ Session!Idle.refused = Session!NoNumber /\
            Session!Idle.state = "idle"
      BY DEF Session!Idle, Session!Requests
    <3>3. /\ x \in Session!Requests
          /\ x.state = "sent" /\ x.with = store[t].token /\ x.refused = Session!NoNumber
      BY <3>1, <3>2 DEF Session!Requests
    <3>. HIDE DEF x
    <3>. QED
      BY <3>1, <3>2, <3>3
  <2>2. CASE Session!Settled(t, c)
    <3>1. Session!Idle \in Session!Requests
      BY DEF Session!Idle, Session!Requests
    <3>. QED
      BY <2>2, <3>1 DEF Session!Settled, Session!Idle
  <2>. QED
    BY <2>1, <2>2
<1>3. /\ call \in [Tabs -> [Calls -> Session!Requests]]
      /\ \A u \in Tabs, d \in Calls :
           call'[u][d] = IF u = t /\ d = c THEN r ELSE call[u][d]
  BY <1>2 DEF Session!TypeOK
<1>4. call' \in [Tabs -> [Calls -> Session!Requests]]
  BY <1>2, <1>3
<1>. HIDE DEF SessionInv
<1>5. Session!TypeOK'
  BY <1>1, <1>4 DEF Session!TypeOK, SessionInv
<1>6. Session!NobodyWaitsInVain'
  <2>1. \A u \in Tabs : {d \in Calls : call'[u][d].state = "waiting"} =
                        {d \in Calls : call[u][d].state = "waiting"}
    BY <1>2, <1>3
  <2>. QED
    BY <1>1, <2>1 DEF Session!NobodyWaitsInVain, SessionInv
<1>7. OneRestore' /\ Session!RetriesAreRenewed'
  BY <1>1, <1>2, <1>3 DEF OneRestore, Session!RetriesAreRenewed, SessionInv
<1>8. \A n \in Session!Numbers : Unseen(n) => Unseen(n)'
  BY <1>1, <1>2, <1>3 DEF Unseen, Session!Numbers, Session!NoNumber
<1>9. NumbersAreIssued' /\ AnswersAreNew'
  BY <1>1, <1>8 DEF NumbersAreIssued, AnswersAreNew, SessionInv
<1>10. Lossless'
  BY <1>1 DEF Lossless, TabsApart, RestoresAreValid, CookieIsLive, SessionInv
<1>. QED
  BY <1>5, <1>6, <1>7, <1>9, <1>10 DEF SessionInv

-----------------------------------------------------------------------------
\* What a page sends.
LEMMA PostType ==
  ASSUME Session!TypeOK, NEW t \in Tabs, NEW kind \in {"login", "refresh"},
         NEW by \in Calls \cup {"mount", "form"}
  PROVE  /\ Session!Post(t, kind, by) \in Session!Posts
         /\ Session!Post(t, kind, by).kind = kind /\ Session!Post(t, kind, by).tab = t
         /\ Session!Post(t, kind, by).cookie = cookie /\
              Session!Post(t, kind, by).header = store[t].csrf
         /\ Session!Post(t, kind, by).answer = Session!Pending /\ Session!Post(t, kind, by).page
<1>1. cookie \in Session!Numbers \cup {Session!NoNumber} /\
        store[t].csrf \in Session!Numbers \cup {Session!NoNumber}
  BY DEF Session!TypeOK, Session!Stores
<1>. QED
  BY <1>1 DEF Session!Post, Session!Posts

\* Nothing new is on its way, and nothing unseen is seen.
LEMMA NumbersKeep ==
  ASSUME NumbersAreIssued, AnswersAreNew, UNCHANGED <<issued, current>>, issued \in Nat,
         \A n \in Session!Numbers : Unseen(n) => Unseen(n)',
         \A p \in posts' : p \in posts \/ p.answer = Session!Pending
  PROVE  NumbersAreIssued' /\ AnswersAreNew'
<1>1. Session!Pending \notin Session!Numbers /\ Session!Pending <= issued
  BY DEF Session!Pending, Session!Numbers
<1>2. NumbersAreIssued'
  BY <1>1 DEF NumbersAreIssued
<1>3. AnswersAreNew'
  BY <1>1 DEF AnswersAreNew
<1>. QED
  BY <1>2, <1>3

LEMMA LoginKeeps ==
  ASSUME Session!ConstantsAssumption, SessionInv, NEW t \in Tabs, Session!Login(t)
  PROVE  SessionInv'
<1>. DEFINE new == Session!Post(t, "login", "form")
<1>1. /\ Session!TypeOK /\ Session!NobodyWaitsInVain /\ OneRestore /\ Session!RetriesAreRenewed
      /\ NumbersAreIssued /\ AnswersAreNew /\ Lossless
  BY DEF SessionInv
<1>2. /\ store[t].token = Session!NoNumber
      /\ \A p \in posts : p.tab = t /\ p.kind = "login" => ~ p.page
      /\ posts' = posts \cup {new}
      /\ UNCHANGED <<issued, current, cookie, store, waiting, call, lost>>
  BY DEF Session!Login
<1>3. /\ new \in Session!Posts /\ new.kind = "login" /\ new.tab = t /\ new.cookie = cookie
      /\ new.header = store[t].csrf /\ new.answer = Session!Pending /\ new.page
  BY <1>1, PostType
<1>. HIDE DEF new
<1>4. Session!TypeOK'
  BY <1>1, <1>2, <1>3 DEF Session!TypeOK
<1>5. Session!NobodyWaitsInVain' /\ OneRestore' /\ Session!RetriesAreRenewed'
  BY <1>1, <1>2, <1>3 DEF Session!NobodyWaitsInVain, OneRestore, Session!RetriesAreRenewed
<1>6. \A n \in Session!Numbers : Unseen(n) => Unseen(n)'
  BY <1>2, <1>3 DEF Unseen
<1>7. NumbersAreIssued' /\ AnswersAreNew'
  BY <1>1, <1>2, <1>3, <1>6, NumbersKeep DEF Session!TypeOK
<1>8. ASSUME lost' = 0 PROVE TabsApart' /\ RestoresAreValid' /\ CookieIsLive'
  <2>1. TabsApart /\ RestoresAreValid /\ CookieIsLive
    BY <1>1, <1>2, <1>8 DEF Lossless
  <2>2. store[t].csrf = Session!NoNumber /\ waiting[t] = {}
    BY <1>1, <1>2, <2>1 DEF TabsApart, Session!NobodyWaitsInVain
  <2>3. TabsApart'
    BY <1>2, <1>3, <2>1, <2>2 DEF TabsApart
  <2>4. RestoresAreValid' /\ CookieIsLive'
    BY <1>2, <1>3, <2>1 DEF RestoresAreValid, CookieIsLive
  <2>. QED
    BY <2>3, <2>4
<1>9. Lossless'
  BY <1>8 DEF Lossless
<1>. QED
  BY <1>4, <1>5, <1>7, <1>9 DEF SessionInv

\* A refused request waits, or is the caller's when there is nothing to restore.
LEMMA UnauthorizedKeeps ==
  ASSUME Session!ConstantsAssumption, SessionInv, NEW t \in Tabs, NEW c \in Calls,
         Session!Unauthorized(t, c)
  PROVE  SessionInv'
<1>. DEFINE r == call[t][c]
<1>1. /\ Session!TypeOK /\ Session!NobodyWaitsInVain /\ OneRestore /\ Session!RetriesAreRenewed
      /\ NumbersAreIssued /\ AnswersAreNew /\ Lossless
  BY DEF SessionInv
<1>2. /\ r \in Session!Requests /\ r.state = "sent" /\ r.refused = Session!NoNumber
      /\ UNCHANGED <<issued, current, cookie, lost>>
  BY <1>1 DEF Session!Unauthorized, Session!TypeOK
<1>3. CASE store[t].csrf = Session!NoNumber /\ ~Session!Shared(t)
  <2>1. /\ call' = [call EXCEPT ![t][c] = Session!Idle]
        /\ store' = [store EXCEPT ![t] = Session!MarkInitialized(@)]
        /\ UNCHANGED <<waiting, posts>>
    BY <1>3 DEF Session!Unauthorized
  <2>2. /\ Session!Idle \in Session!Requests /\ Session!Idle.state = "idle" /\
             Session!Idle.with = Session!NoNumber
        /\ Session!Idle.refused = Session!NoNumber
    BY DEF Session!Idle, Session!Requests
  <2>3. /\ call' \in [Tabs -> [Calls -> Session!Requests]]
        /\ \A u \in Tabs, d \in Calls :
             call'[u][d] = IF u = t /\ d = c THEN Session!Idle ELSE call[u][d]
    BY <1>1, <2>1, <2>2 DEF Session!TypeOK
  <2>4. /\ store' \in [Tabs -> Session!Stores]
        /\ \A u \in Tabs : store'[u].token = store[u].token /\ store'[u].csrf = store[u].csrf
    BY <1>1, <2>1 DEF Session!TypeOK, Session!Stores, Session!MarkInitialized
  <2>5. Session!TypeOK'
    BY <1>1, <1>2, <2>1, <2>3, <2>4 DEF Session!TypeOK
  <2>6. \A u \in Tabs : {d \in Calls : call'[u][d].state = "waiting"} =
                        {d \in Calls : call[u][d].state = "waiting"}
    BY <1>2, <2>2, <2>3
  <2>7. Session!NobodyWaitsInVain' /\ OneRestore' /\ Session!RetriesAreRenewed'
    BY <1>1, <2>1, <2>2, <2>3, <2>6 DEF Session!NobodyWaitsInVain, OneRestore,
       Session!RetriesAreRenewed
  <2>8. \A n \in Session!Numbers : Unseen(n) => Unseen(n)'
    BY <1>2, <2>1, <2>2, <2>3, <2>4 DEF Unseen, Session!Numbers, Session!NoNumber
  <2>9. NumbersAreIssued' /\ AnswersAreNew'
    BY <1>1, <1>2, <2>1, <2>8, NumbersKeep DEF Session!TypeOK
  <2>10. Lossless'
    BY <1>1, <1>2, <2>1, <2>4 DEF Lossless, TabsApart, RestoresAreValid, CookieIsLive,
       Session!TypeOK, Session!Posts
  <2>. QED
    BY <2>5, <2>7, <2>9, <2>10 DEF SessionInv
<1>4. CASE ~ (store[t].csrf = Session!NoNumber /\ ~Session!Shared(t))
  <2>. DEFINE new == Session!Post(t, "refresh", c)
              x == [r EXCEPT !.state = "waiting", !.refused = r.with]
  <2>1. /\ call' = [call EXCEPT ![t][c] = x]
        /\ waiting' = [waiting EXCEPT ![t] = @ \cup {c}]
        /\ posts' = IF Session!Shared(t) THEN posts ELSE posts \cup {new}
        /\ store' = store
    BY <1>4 DEF Session!Unauthorized, Session!Restore
  <2>2. /\ new \in Session!Posts /\ new.kind = "refresh" /\ new.tab = t /\ new.cookie = cookie
        /\ new.header = store[t].csrf /\ new.answer = Session!Pending /\ new.page
    BY <1>1, PostType
  <2>3. /\ x \in Session!Requests /\ x.state = "waiting" /\ x.with = r.with /\ x.refused = r.with
    BY <1>2 DEF Session!Requests
  <2>. HIDE DEF new, x
  <2>4. /\ call' \in [Tabs -> [Calls -> Session!Requests]]
        /\ \A u \in Tabs, d \in Calls :
             call'[u][d] = IF u = t /\ d = c THEN x ELSE call[u][d]
    BY <1>1, <2>1, <2>3 DEF Session!TypeOK
  <2>5. /\ waiting' \in [Tabs -> SUBSET (Calls \cup {"mount"})]
        /\ \A u \in Tabs : waiting'[u] = IF u = t THEN waiting[t] \cup {c} ELSE waiting[u]
    BY <1>1, <2>1 DEF Session!TypeOK
  <2>6. Session!TypeOK'
    BY <1>1, <1>2, <2>1, <2>2, <2>4, <2>5 DEF Session!TypeOK
  <2>7. Session!NobodyWaitsInVain'
    <3>1. ASSUME NEW u \in Tabs
          PROVE  (waiting'[u] # {}) <=> \E p \in posts' : p.tab = u /\ p.kind = "refresh" /\ p.page
      BY <1>1, <2>1, <2>2, <2>5 DEF Session!NobodyWaitsInVain, Session!Shared
    <3>2. ASSUME NEW u \in Tabs
          PROVE  {d \in Calls : call'[u][d].state = "waiting"} = waiting'[u] \ {"mount"}
      <4>1. {d \in Calls : call'[u][d].state = "waiting"} =
              {d \in Calls : call[u][d].state = "waiting"} \cup (IF u = t THEN {c} ELSE {})
        BY <2>3, <2>4
      <4>. QED
        BY <1>1, <2>5, <4>1 DEF Session!NobodyWaitsInVain, Session!ConstantsAssumption
    <3>. QED
      BY <3>1, <3>2 DEF Session!NobodyWaitsInVain
  <2>8. OneRestore'
    BY <1>1, <2>1, <2>2 DEF Session!NobodyWaitsInVain, OneRestore, Session!Shared
  <2>9. Session!RetriesAreRenewed'
    BY <1>1, <2>3, <2>4 DEF Session!RetriesAreRenewed
  <2>10. \A n \in Session!Numbers : Unseen(n) => Unseen(n)'
    BY <1>2, <2>1, <2>2, <2>3, <2>4 DEF Unseen
  <2>11. NumbersAreIssued' /\ AnswersAreNew'
    BY <1>1, <1>2, <2>1, <2>2, <2>10, NumbersKeep DEF Session!TypeOK
  <2>12. ASSUME lost' = 0 PROVE TabsApart' /\ RestoresAreValid' /\ CookieIsLive'
    <3>1. TabsApart /\ RestoresAreValid /\ CookieIsLive
      BY <1>1, <1>2, <2>12 DEF Lossless
    <3>2. CASE Session!Shared(t)
      <4>1. posts' = posts
        BY <2>1, <3>2
      <4>2. TabsApart'
        BY <2>1, <2>5, <3>1, <3>2, <4>1 DEF TabsApart, Session!Shared
      <4>. QED
        BY <1>2, <3>1, <4>1, <4>2 DEF RestoresAreValid, CookieIsLive
    <3>3. CASE ~Session!Shared(t)
      <4>1. posts' = posts \cup {new} /\ store[t].csrf # Session!NoNumber
        BY <1>4, <2>1, <3>3
      <4>2. TabsApart'
        <5>1. \A p \in posts : p.tab \in Tabs
          BY <1>1 DEF Session!TypeOK, Session!Posts
        <5>2. \A p \in posts : p.kind = "login" => p.tab # t /\ waiting'[p.tab] = {}
          BY <2>5, <3>1, <4>1, <5>1 DEF TabsApart
        <5>3. \A p \in posts' : /\ p.page
                                /\ p.kind = "login" => store[p.tab].csrf = Session!NoNumber
                                /\ p.kind = "refresh" => p.header = store[p.tab].csrf /\
                                     p.header # Session!NoNumber
          BY <2>2, <3>1, <4>1 DEF TabsApart
        <5>4. \A p \in posts' : p.kind = "login" => waiting'[p.tab] = {}
          BY <2>2, <4>1, <5>2
        <5>5. \A u, v \in Tabs : /\ store[u].token = store[u].csrf
                                 /\ store[u].csrf = store[v].csrf /\ store[u].csrf # Session!NoNumber => u = v
          BY <3>1 DEF TabsApart
        <5>. QED
          BY <2>1, <5>3, <5>4, <5>5 DEF TabsApart
      <4>3. new.header = new.cookie => new.cookie \in current
        <5>1. ASSUME NEW q \in posts, q.kind = "refresh", q.header = store[t].csrf
              PROVE  FALSE
          <6>1. q.tab = t /\ q.page
            BY <1>1, <3>1, <4>1, <5>1 DEF TabsApart, Session!TypeOK, Session!Posts
          <6>. QED
            BY <1>1, <3>3, <5>1, <6>1 DEF Session!NobodyWaitsInVain, Session!Shared
        <5>. QED
          BY <2>2, <3>1, <4>1, <5>1 DEF CookieIsLive
      <4>4. RestoresAreValid' /\ CookieIsLive'
        BY <1>2, <2>2, <3>1, <4>1, <4>3 DEF RestoresAreValid, CookieIsLive, Session!Pending,
           Session!Denied
      <4>. QED
        BY <4>2, <4>4
    <3>. QED
      BY <3>2, <3>3
  <2>13. Lossless'
    BY <2>12 DEF Lossless
  <2>. QED
    BY <2>6, <2>7, <2>8, <2>9, <2>11, <2>13 DEF SessionInv
<1>. QED
  BY <1>3, <1>4

\* A page that goes takes its requests with it, not their answers.
LEMMA LoadKeeps ==
  ASSUME Session!ConstantsAssumption, SessionInv, NEW t \in Tabs, Session!Load(t)
  PROVE  SessionInv'
<1>. DEFINE new == Session!Post(t, "refresh", "mount")
            Gone(p, x) == p = [x EXCEPT !.page = FALSE]
<1>1. /\ Session!TypeOK /\ Session!NobodyWaitsInVain /\ OneRestore /\ Session!RetriesAreRenewed
      /\ NumbersAreIssued /\ AnswersAreNew
  BY DEF SessionInv
<1>2. /\ lost < MaxLost /\ lost' = lost + 1
      /\ call' = [call EXCEPT ![t] = [c \in Calls |-> Session!Idle]]
      /\ UNCHANGED <<issued, current, cookie>>
  BY DEF Session!Load
<1>3. PICK restored \in BOOLEAN :
        /\ waiting' = [waiting EXCEPT ![t] = IF restored THEN {"mount"} ELSE {}]
        /\ posts' = {p \in posts : p.tab # t}
                      \cup {[p EXCEPT !.page = FALSE] : p \in {x \in posts : x.tab = t}}
                      \cup (IF restored THEN {new} ELSE {})
        /\ store' = [store EXCEPT ![t] =
             IF restored THEN [@ EXCEPT !.token = Session!NoNumber, !.initialized = FALSE]
                         ELSE Session!MarkInitialized([@ EXCEPT !.token = Session!NoNumber])]
  <2>1. CASE store[t].csrf = Session!NoNumber
    BY <2>1 DEF Session!Load
  <2>2. CASE store[t].csrf # Session!NoNumber
    BY <2>2 DEF Session!Load
  <2>. QED
    BY <2>1, <2>2
<1>4. /\ new \in Session!Posts /\ new.kind = "refresh" /\ new.tab = t /\ new.cookie = cookie
      /\ new.header = store[t].csrf /\ new.answer = Session!Pending /\ new.page
  BY <1>1, PostType
<1>. HIDE DEF new
<1>5. ASSUME NEW x \in posts
      PROVE  LET p == [x EXCEPT !.page = FALSE]
             IN  /\ p \in Session!Posts /\ p.kind = x.kind /\ p.tab = x.tab /\ p.cookie = x.cookie
                 /\ p.header = x.header /\ p.answer = x.answer /\ ~p.page
  <2>1. x \in Session!Posts
    BY <1>1 DEF Session!TypeOK
  <2>. QED
    BY <2>1 DEF Session!Posts
<1>6. ASSUME NEW p \in posts'
      PROVE  \/ p \in posts /\ p.tab # t
             \/ restored /\ p = new
             \/ \E x \in posts : x.tab = t /\ p = [x EXCEPT !.page = FALSE]
  BY <1>3
<1>7. ASSUME NEW p \in posts'
      PROVE  /\ p \in Session!Posts
             /\ p.tab = t /\ p.page => restored /\ p = new
             /\ p.tab # t => p \in posts
             /\ \/ p = new
                \/ \E x \in posts : /\ p.answer = x.answer /\ p.cookie = x.cookie
                                    /\ p.header = x.header
  <2>1. CASE p \in posts /\ p.tab # t
    BY <1>1, <2>1 DEF Session!TypeOK
  <2>2. CASE restored /\ p = new
    BY <1>4, <2>2
  <2>3. ASSUME NEW x \in posts, x.tab = t, p = [x EXCEPT !.page = FALSE]
        PROVE  p \in Session!Posts /\ p.tab = t /\ ~p.page /\ p.answer = x.answer
               /\ p.cookie = x.cookie /\ p.header = x.header
    BY <1>5, <2>3
  <2>. QED
    BY <1>6, <2>1, <2>2, <2>3
<1>8. /\ restored => new \in posts'
      /\ \A p \in posts : p.tab # t => p \in posts'
  BY <1>3
<1>9. /\ call' \in [Tabs -> [Calls -> Session!Requests]]
      /\ \A u \in Tabs, d \in Calls : call'[u][d] = IF u = t THEN Session!Idle ELSE call[u][d]
      /\ Session!Idle.state = "idle" /\ Session!Idle.with = Session!NoNumber /\
           Session!Idle.refused = Session!NoNumber
  <2>1. Session!Idle \in Session!Requests /\ Session!Idle.state = "idle" /\
          Session!Idle.with = Session!NoNumber /\ Session!Idle.refused = Session!NoNumber
    BY DEF Session!Idle, Session!Requests
  <2>. QED
    BY <1>1, <1>2, <2>1 DEF Session!TypeOK
<1>10. /\ store' \in [Tabs -> Session!Stores]
       /\ \A u \in Tabs : /\ store'[u].csrf = store[u].csrf
                          /\ store'[u].token \in {store[u].token, Session!NoNumber}
  <2>1. store[t] \in Session!Stores
    BY <1>1 DEF Session!TypeOK
  <2>2. CASE restored
    BY <1>1, <1>3, <2>1, <2>2 DEF Session!TypeOK, Session!Stores
  <2>3. CASE ~restored
    <3>. DEFINE s == [store[t] EXCEPT !.token = Session!NoNumber]
    <3>1. s \in Session!Stores /\ s.csrf = store[t].csrf /\ s.token = Session!NoNumber
      BY <2>1 DEF Session!Stores
    <3>. HIDE DEF s
    <3>2. /\ Session!MarkInitialized(s) \in Session!Stores /\
               Session!MarkInitialized(s).csrf = s.csrf
          /\ Session!MarkInitialized(s).token = s.token
      BY <3>1 DEF Session!Stores, Session!MarkInitialized
    <3>3. store' = [store EXCEPT ![t] = Session!MarkInitialized(s)]
      BY <1>3, <2>3 DEF s
    <3>. QED
      BY <1>1, <3>1, <3>2, <3>3 DEF Session!TypeOK
  <2>. QED
    BY <2>2, <2>3
<1>11. \A u \in Tabs : waiting'[u] = IF u # t THEN waiting[u] ELSE IF restored THEN {"mount"}
         ELSE {}
  BY <1>1, <1>3 DEF Session!TypeOK
<1>12. Session!TypeOK'
  <2>1. waiting' \in [Tabs -> SUBSET (Calls \cup {"mount"})]
    BY <1>1, <1>3 DEF Session!TypeOK
  <2>2. lost' \in 0..MaxLost
    BY <1>1, <1>2 DEF Session!TypeOK, Session!ConstantsAssumption
  <2>. QED
    BY <1>1, <1>2, <1>7, <1>9, <1>10, <2>1, <2>2 DEF Session!TypeOK
<1>13. Session!NobodyWaitsInVain'
  <2>1. ASSUME NEW u \in Tabs
        PROVE  (waiting'[u] # {}) <=> \E p \in posts' : p.tab = u /\ p.kind = "refresh" /\ p.page
    BY <1>1, <1>4, <1>7, <1>8, <1>11 DEF Session!NobodyWaitsInVain
  <2>2. ASSUME NEW u \in Tabs
        PROVE  {d \in Calls : call'[u][d].state = "waiting"} = waiting'[u] \ {"mount"}
    <3>1. CASE u = t
      BY <1>9, <1>11, <3>1
    <3>2. CASE u # t
      BY <1>1, <1>9, <1>11, <3>2 DEF Session!NobodyWaitsInVain
    <3>. QED
      BY <3>1, <3>2
  <2>. QED
    BY <2>1, <2>2 DEF Session!NobodyWaitsInVain
<1>14. OneRestore'
  BY <1>1, <1>7 DEF OneRestore
<1>15. Session!RetriesAreRenewed'
  BY <1>1, <1>9 DEF Session!RetriesAreRenewed
<1>16. \A n \in Session!Numbers : Unseen(n) => Unseen(n)'
  <2>. SUFFICES ASSUME NEW n \in Session!Numbers, Unseen(n) PROVE Unseen(n)'
    OBVIOUS
  <2>1. n # Session!NoNumber
    BY DEF Session!Numbers, Session!NoNumber
  <2>2. \A p \in posts' : p.cookie # n /\ p.header # n
    BY <1>4, <1>7 DEF Unseen
  <2>. QED
    BY <1>2, <1>9, <1>10, <2>1, <2>2 DEF Unseen
<1>17. NumbersAreIssued'
  <2>1. \A p \in posts' : p.answer <= issued
    BY <1>1, <1>4, <1>7 DEF NumbersAreIssued, Session!Pending, Session!TypeOK
  <2>. QED
    BY <1>1, <1>2, <1>16, <2>1 DEF NumbersAreIssued
<1>18. AnswersAreNew'
  <2>. SUFFICES ASSUME NEW p \in posts', p.answer \in Session!Numbers
                PROVE  /\ p.answer \in current /\ Unseen(p.answer)'
                       /\ \A q \in posts' : q.answer = p.answer => q = p
    BY <1>2 DEF AnswersAreNew
  <2>0. Session!Pending \notin Session!Numbers
    BY DEF Session!Pending, Session!Numbers
  <2>1. p # new
    BY <1>4, <2>0
  <2>2. p.answer \in current /\ Unseen(p.answer)'
    BY <1>1, <1>7, <1>16, <2>1 DEF AnswersAreNew
  <2>3. ASSUME NEW q \in posts', q.answer = p.answer PROVE q = p
    <3>0. \A x \in posts : [x EXCEPT !.page = FALSE].answer = x.answer
      BY <1>5
    <3>1. q # new
      BY <1>4, <2>0, <2>3
    <3>2. PICK x \in posts : x.answer = p.answer /\ ((p = x /\ x.tab # t)
                                \/ (x.tab = t /\ p = [x EXCEPT !.page = FALSE]))
      BY <1>6, <2>1, <3>0
    <3>3. PICK y \in posts : y.answer = q.answer /\ ((q = y /\ y.tab # t)
                                \/ (y.tab = t /\ q = [y EXCEPT !.page = FALSE]))
      BY <1>6, <3>0, <3>1
    <3>4. x = y
      BY <1>1, <2>3, <3>2, <3>3 DEF AnswersAreNew
    <3>. QED
      BY <3>2, <3>3, <3>4
  <2>. QED
    BY <2>2, <2>3
<1>19. Lossless'
  BY <1>1, <1>2 DEF Lossless, Session!TypeOK
<1>. QED
  BY <1>12, <1>13, <1>14, <1>15, <1>17, <1>18, <1>19 DEF SessionInv

-----------------------------------------------------------------------------
(* The server answers.                                                     *)

\* p is answered with n: a new number, or a refusal.
Answered(p, n) ==
  /\ Session!Answer(p, n)
  /\ \/ /\ n = issued + 1 /\ n \in Session!Numbers /\ issued' = n
        /\ current' = (current \ (IF p.kind = "refresh" THEN Session!Spent(p) ELSE {})) \cup {n}
        /\ p.kind = "refresh" => Session!Valid(p)
     \/ /\ n = Session!Denied /\ UNCHANGED <<issued, current>>
        /\ p.kind = "refresh" => ~Session!Valid(p)

LEMMA ServeAnswers ==
  ASSUME Session!ConstantsAssumption, Session!TypeOK, NEW p \in posts, Session!ServeLogin(p) \/
         Session!ServeRefresh(p)
  PROVE  \E n \in Session!Numbers \cup {Session!Denied} : Answered(p, n)
<1>1. ASSUME NEW gone, Session!Issue(p, gone)
      PROVE  /\ issued + 1 \in Session!Numbers /\ issued' = issued + 1 /\
                  Session!Answer(p, issued + 1)
             /\ current' = (current \ gone) \cup {issued + 1}
  BY <1>1 DEF Session!Issue, Session!ConstantsAssumption, Session!TypeOK, Session!Numbers,
     Session!Answer
<1>2. CASE Session!ServeLogin(p)
  <2>1. p.kind = "login"
    BY <1>2 DEF Session!ServeLogin
  <2>2. CASE Session!Issue(p, {})
    BY <1>1, <2>1, <2>2 DEF Answered
  <2>3. CASE Session!Answer(p, Session!Denied) /\ UNCHANGED <<issued, current>>
    BY <2>1, <2>3 DEF Answered
  <2>. QED
    BY <1>2, <2>2, <2>3 DEF Session!ServeLogin
<1>3. CASE Session!ServeRefresh(p)
  <2>1. p.kind = "refresh"
    BY <1>3 DEF Session!ServeRefresh
  <2>2. CASE Session!Valid(p)
    <3>1. Session!Issue(p, Session!Spent(p))
      BY <1>3, <2>2 DEF Session!ServeRefresh
    <3>. QED
      BY <1>1, <2>1, <2>2, <3>1 DEF Answered
  <2>3. CASE ~Session!Valid(p)
    BY <1>3, <2>1, <2>3 DEF Session!ServeRefresh, Answered
  <2>. QED
    BY <2>2, <2>3
<1>. QED
  BY <1>2, <1>3

LEMMA AnswerKeeps ==
  ASSUME Session!ConstantsAssumption, SessionInv, NEW p \in posts,
         NEW n \in Session!Numbers \cup {Session!Denied},
         p.answer = Session!Pending, Answered(p, n), UNCHANGED <<cookie, store, waiting, call, lost>>
  PROVE  SessionInv'
<1>. DEFINE a == [p EXCEPT !.answer = n]
<1>1. /\ Session!TypeOK /\ Session!NobodyWaitsInVain /\ OneRestore /\ Session!RetriesAreRenewed
      /\ NumbersAreIssued /\ AnswersAreNew /\ Lossless
  BY DEF SessionInv
<1>2. posts' = (posts \ {p}) \cup {a}
  BY DEF Answered, Session!Answer
<1>3. /\ a \in Session!Posts /\ a.kind = p.kind /\ a.tab = p.tab /\ a.page = p.page
      /\ a.cookie = p.cookie /\ a.header = p.header /\ a.answer = n
  BY <1>1 DEF Session!TypeOK, Session!Posts
<1>. HIDE DEF a
<1>4. /\ issued' \in 0..MaxIssued /\ issued <= issued' /\ n <= issued'
      /\ n \in Session!Numbers => issued < n
      /\ \A m \in Session!Numbers : m \in current' => m \in current \/ m = n
      /\ current' \subseteq Session!Numbers /\ (n \in Session!Numbers => n \in current')
      /\ \A m \in current : m # p.cookie => m \in current'
      /\ n = Session!Denied => issued' = issued /\ current' = current
  <2>0. issued \in 0..MaxIssued /\ MaxIssued \in Nat /\ current \subseteq Session!Numbers
    BY <1>1 DEF Session!TypeOK, Session!ConstantsAssumption
  <2>1. CASE n = Session!Denied
    <3>1. n \notin Session!Numbers /\ n <= issued
      BY <2>0, <2>1 DEF Session!Denied, Session!Numbers
    <3>2. issued' = issued /\ current' = current
      BY <3>1 DEF Answered
    <3>. QED
      BY <2>0, <3>1, <3>2
  <2>2. CASE n \in Session!Numbers
    <3>1. /\ n = issued + 1 /\ issued' = n
          /\ current' = (current \ (IF p.kind = "refresh" THEN {p.cookie} ELSE {})) \cup {n}
      BY <2>2 DEF Answered, Session!Denied, Session!Numbers, Session!Spent
    <3>2. issued' \in 0..MaxIssued /\ issued <= issued' /\ n <= issued' /\ issued < n /\
            n # Session!Denied
      BY <2>0, <2>2, <3>1 DEF Session!Numbers, Session!Denied
    <3>. QED
      BY <2>0, <2>2, <3>1, <3>2
  <2>. QED
    BY <2>1, <2>2
<1>5. Session!TypeOK'
  BY <1>1, <1>2, <1>3, <1>4 DEF Session!TypeOK
<1>6. Session!NobodyWaitsInVain' /\ OneRestore' /\ Session!RetriesAreRenewed'
  <2>1. \A t \in Tabs : (\E q \in posts' : q.tab = t /\ q.kind = "refresh" /\ q.page)
                      <=> \E q \in posts : q.tab = t /\ q.kind = "refresh" /\ q.page
    BY <1>2, <1>3
  <2>2. Session!NobodyWaitsInVain'
    BY <1>1, <2>1 DEF Session!NobodyWaitsInVain
  <2>3. OneRestore'
    BY <1>1, <1>2, <1>3 DEF OneRestore
  <2>4. Session!RetriesAreRenewed'
    BY <1>1 DEF Session!RetriesAreRenewed
  <2>. QED
    BY <2>2, <2>3, <2>4
<1>7. \A m \in Session!Numbers : Unseen(m) => Unseen(m)'
  BY <1>2, <1>3 DEF Unseen
<1>8. NumbersAreIssued'
  <2>1. \A m \in Session!Numbers : m > issued' => Unseen(m) /\ m \notin current /\ m # n
    BY <1>1, <1>4 DEF NumbersAreIssued, Session!TypeOK, Session!Numbers, Session!ConstantsAssumption
  <2>2. \A m \in Session!Numbers : m > issued' => m \notin current'
    BY <1>4, <2>1
  <2>3. \A q \in posts' : q.answer <= issued'
    <3>1. ASSUME NEW q \in posts PROVE q.answer <= issued'
      <4>1. q.answer \in Int /\ q.answer <= issued /\ issued \in Int /\ issued' \in Int
        BY <1>1, <1>4 DEF NumbersAreIssued, Session!TypeOK, Session!Posts, Session!Numbers,
           Session!Pending, Session!Denied
      <4>. QED
        BY <1>4, <4>1
    <3>. QED
      BY <1>2, <1>3, <1>4, <3>1
  <2>. QED
    BY <1>7, <2>1, <2>2, <2>3 DEF NumbersAreIssued
<1>9. AnswersAreNew'
  <2>0. Session!Denied \notin Session!Numbers /\ Session!Pending \notin Session!Numbers
    BY DEF Session!Denied, Session!Pending, Session!Numbers
  <2>1. n \in Session!Numbers => /\ Unseen(n)
                       /\ \A q \in posts : q.answer # n
    BY <1>1, <1>4 DEF NumbersAreIssued, Session!TypeOK, Session!Numbers, Session!ConstantsAssumption
  <2>2. ASSUME NEW q \in posts, q.answer \in Session!Numbers
        PROVE  q.answer \in current' /\ Unseen(q.answer)' /\ q # p /\ q.answer # n
    BY <1>1, <1>4, <1>7, <2>0, <2>1, <2>2 DEF AnswersAreNew, Unseen
  <2>3. ASSUME NEW q \in posts', q.answer \in Session!Numbers
        PROVE  q.answer \in current' /\ Unseen(q.answer)'
    BY <1>2, <1>3, <1>4, <1>7, <2>1, <2>2, <2>3
  <2>4. ASSUME NEW q \in posts', NEW r \in posts', q.answer \in Session!Numbers, r.answer = q.answer
        PROVE  r = q
    BY <1>1, <1>2, <1>3, <2>2, <2>4 DEF AnswersAreNew
  <2>. QED
    BY <2>3, <2>4 DEF AnswersAreNew
<1>10. ASSUME lost' = 0 PROVE TabsApart' /\ RestoresAreValid' /\ CookieIsLive'
  <2>1. TabsApart /\ RestoresAreValid /\ CookieIsLive
    BY <1>1, <1>10 DEF Lossless
  <2>2. TabsApart'
    BY <1>2, <1>3, <2>1 DEF TabsApart
  <2>3. ASSUME n \in Session!Numbers, p.kind = "refresh"
        PROVE  /\ p.header = p.cookie
               /\ \A q \in posts : q.kind = "refresh" /\ q.header = p.cookie => q = p
    <3>1. p.header = p.cookie
      BY <2>3 DEF Answered, Session!Valid, Session!Denied, Session!Numbers
    <3>2. ASSUME NEW q \in posts, q.kind = "refresh", q.header = p.cookie
          PROVE  q = p
      <4>1. q.tab = p.tab /\ q.page /\ p.page
        BY <1>1, <2>1, <2>3, <3>1, <3>2 DEF TabsApart, Session!TypeOK, Session!Posts
      <4>. QED
        BY <1>1, <2>3, <3>2, <4>1 DEF OneRestore
    <3>. QED
      BY <3>1, <3>2
  <2>4. p.kind # "refresh" \/ n = Session!Denied => \A m \in current : m \in current'
    BY DEF Answered, Session!Denied, Session!Numbers
  <2>5. ASSUME NEW q \in posts', q.kind = "refresh", q.header = q.cookie
        PROVE  q.answer # Session!Denied /\ (q.answer = Session!Pending => q.cookie \in current')
    <3>1. CASE q = a
      <4>1. p.cookie \in current /\ p.cookie # Session!NoNumber /\ p.kind = "refresh" /\
              p.header = p.cookie
        BY <1>3, <2>1, <2>5, <3>1 DEF RestoresAreValid, TabsApart
      <4>2. n # Session!Denied
        BY <4>1 DEF Answered, Session!Valid, Session!Denied, Session!Numbers
      <4>. QED
        BY <1>3, <3>1, <4>2 DEF Session!Pending, Session!Numbers
    <3>2. CASE q # a
      <4>1. q \in posts /\ q # p
        BY <1>2, <3>2
      <4>2. q.answer # Session!Denied /\ (q.answer = Session!Pending => q.cookie \in current)
        BY <2>1, <2>5, <4>1 DEF RestoresAreValid
      <4>3. p.kind = "refresh" /\ n \in Session!Numbers => q.cookie # p.cookie
        BY <2>3, <2>5, <4>1
      <4>. QED
        BY <1>4, <2>4, <4>2, <4>3
    <3>. QED
      BY <3>1, <3>2
  <2>6. CookieIsLive'
    <3>. SUFFICES ASSUME cookie # Session!NoNumber
                  PROVE  CookieIsLive'
      BY DEF CookieIsLive
    <3>1. CASE cookie \in current /\ cookie \in current'
      BY <3>1 DEF CookieIsLive
    <3>2. CASE cookie \in current /\ cookie \notin current'
      <4>1. p.kind = "refresh" /\ n \in Session!Numbers /\ p.cookie = cookie
        BY <1>4, <2>4, <3>2
      <4>2. a \in posts' /\ a.header = cookie /\ a.cookie = cookie /\ a.answer \in current'
        BY <1>2, <1>3, <1>4, <2>3, <4>1
      <4>. QED
        BY <1>3, <4>1, <4>2 DEF CookieIsLive
    <3>3. CASE cookie \notin current
      <4>1. PICK q \in posts : /\ q.kind = "refresh" /\ q.cookie = cookie /\ q.header = cookie
                              /\ q.answer \in current
        BY <2>1, <3>3 DEF CookieIsLive
      <4>2. q.answer \in Session!Numbers
        BY <1>1, <4>1 DEF Session!TypeOK
      <4>3. q # p /\ q.answer # p.cookie
        BY <1>1, <4>2 DEF AnswersAreNew, Unseen, Session!Pending, Session!Numbers
      <4>. QED
        BY <1>2, <1>4, <4>1, <4>3 DEF CookieIsLive
    <3>. QED
      BY <3>1, <3>2, <3>3
  <2>. QED
    BY <2>2, <2>5, <2>6 DEF RestoresAreValid
<1>11. Lossless'
  BY <1>10 DEF Lossless
<1>. QED
  BY <1>5, <1>6, <1>8, <1>9, <1>11 DEF SessionInv

-----------------------------------------------------------------------------
(* The answer, or none, at the browser.                                    *)

\* What the page that sent p learns: a number that nobody has seen, or an error.
LEMMA LearnKeeps ==
  ASSUME Session!ConstantsAssumption, SessionInv, NEW p \in posts,
         NEW n \in {Session!NoNumber, p.answer},
         n \in Session!Numbers \cup {Session!NoNumber},
         Session!Learn(p, n), posts' = posts \ {p}, UNCHANGED <<issued, current>>,
         cookie' \in {cookie, n}, cookie' \in Session!Numbers \cup {Session!NoNumber}, lost' \in 0..MaxLost
  PROVE  /\ Session!TypeOK' /\ Session!NobodyWaitsInVain' /\ OneRestore' /\
              Session!RetriesAreRenewed'
         /\ NumbersAreIssued' /\ AnswersAreNew'
         /\ \A t \in Tabs : store'[t] # store[t] =>
              t = p.tab /\ store'[t].token = n /\ store'[t].csrf = n
         /\ \A t \in Tabs : waiting'[t] = waiting[t] \/ waiting'[t] = {}
<1>. DEFINE t == p.tab
<1>1. /\ Session!TypeOK /\ Session!NobodyWaitsInVain /\ OneRestore /\ Session!RetriesAreRenewed
      /\ NumbersAreIssued /\ AnswersAreNew
  BY DEF SessionInv
<1>2. p \in Session!Posts /\ t \in Tabs /\ p.kind \in {"login", "refresh"}
  BY <1>1 DEF Session!TypeOK, Session!Posts
<1>3. n \in Session!Numbers => Unseen(n) /\ n <= issued /\ \A q \in posts \ {p} : q.answer # n
  BY <1>1 DEF AnswersAreNew, NumbersAreIssued, Session!Numbers, Session!NoNumber
<1>. HIDE DEF t
<1>4. /\ store' \in [Tabs -> Session!Stores]
      /\ \A u \in Tabs : store'[u] # store[u] =>
           u = t /\ store'[u].token = n /\ store'[u].csrf = n
  <2>1. CASE store' = store
    BY <1>1, <2>1 DEF Session!TypeOK
  <2>2. CASE store' # store
    <3>1. store' = [store EXCEPT ![t] = IF n # Session!NoNumber THEN Session!SetAuth(n)
            ELSE Session!Logout]
      BY <2>2, <1>1 DEF Session!Learn, t, Session!TypeOK
    <3>2. /\ Session!SetAuth(n) \in Session!Stores /\ Session!SetAuth(n).token = n /\
               Session!SetAuth(n).csrf = n
          /\ Session!Logout \in Session!Stores /\ Session!Logout.token = Session!NoNumber /\
               Session!Logout.csrf = Session!NoNumber
      BY DEF Session!SetAuth, Session!Logout, Session!Stores
    <3>. QED
      BY <1>1, <3>1, <3>2 DEF Session!TypeOK
  <2>. QED
    BY <2>1, <2>2
<1>5. \/ UNCHANGED <<waiting, call>> /\ ~ (p.page /\ p.kind = "refresh")
      \/ Session!Wake(t, n) /\ p.page /\ p.kind = "refresh"
  BY <1>2 DEF Session!Learn, t
<1>6. ASSUME Session!Wake(t, n), p.page, p.kind = "refresh"
      PROVE  /\ \A u \in Tabs : waiting'[u] = IF u = t THEN {} ELSE waiting[u]
             /\ waiting' \in [Tabs -> SUBSET (Calls \cup {"mount"})]
             /\ call' \in [Tabs -> [Calls -> Session!Requests]]
             /\ \A u \in Tabs, c \in Calls :
                  /\ u # t \/ c \notin waiting[t] => call'[u][c] = call[u][c]
                  /\ u = t /\ c \in waiting[t] =>
                       \/ /\ call'[u][c].state = "idle" /\ call'[u][c].with = Session!NoNumber
                          /\ call'[u][c].refused = Session!NoNumber
                       \/ /\ n # Session!NoNumber /\ call'[u][c].state = "sent" /\
                               call'[u][c].with = n
                          /\ call'[u][c].refused = call[u][c].refused
  <2>. DEFINE wake(c) == IF c \notin waiting[t] THEN call[t][c]
                         ELSE IF n = Session!NoNumber THEN Session!Idle
                           ELSE Session!Retry(call[t][c], n)
  <2>1. /\ waiting' = [waiting EXCEPT ![t] = {}]
        /\ call' = [call EXCEPT ![t] = [c \in Calls |-> wake(c)]]
    BY <1>6 DEF Session!Wake
  <2>2. ASSUME NEW c \in Calls
        PROVE  /\ wake(c) \in Session!Requests
               /\ c \notin waiting[t] => wake(c) = call[t][c]
               /\ c \in waiting[t] =>
                       \/ wake(c).state = "idle" /\ wake(c).with = Session!NoNumber /\
                            wake(c).refused = Session!NoNumber
                       \/ /\ n # Session!NoNumber /\ wake(c).state = "sent" /\ wake(c).with = n
                          /\ wake(c).refused = call[t][c].refused
    <3>1. call[t][c] \in Session!Requests
      BY <1>1, <1>2 DEF Session!TypeOK, t
    <3>2. Session!Idle \in Session!Requests /\ Session!Idle.state = "idle" /\
            Session!Idle.with = Session!NoNumber /\ Session!Idle.refused = Session!NoNumber
      BY DEF Session!Idle, Session!Requests
    <3>3. /\ Session!Retry(call[t][c], n) \in Session!Requests /\
               Session!Retry(call[t][c], n).state = "sent"
          /\ Session!Retry(call[t][c], n).with = n /\
               Session!Retry(call[t][c], n).refused = call[t][c].refused
      BY <3>1 DEF Session!Retry, Session!Requests
    <3>. QED
      BY <3>1, <3>2, <3>3
  <2>. HIDE DEF wake
  <2>3. /\ waiting' \in [Tabs -> SUBSET (Calls \cup {"mount"})]
        /\ \A u \in Tabs : waiting'[u] = IF u = t THEN {} ELSE waiting[u]
    BY <1>1, <2>1 DEF Session!TypeOK
  <2>4. /\ call' \in [Tabs -> [Calls -> Session!Requests]]
        /\ \A u \in Tabs, c \in Calls : call'[u][c] = IF u = t THEN wake(c) ELSE call[u][c]
    BY <1>1, <2>1, <2>2 DEF Session!TypeOK
  <2>. QED
    BY <2>2, <2>3, <2>4
<1>7. /\ waiting' \in [Tabs -> SUBSET (Calls \cup {"mount"})]
      /\ call' \in [Tabs -> [Calls -> Session!Requests]]
  BY <1>1, <1>5, <1>6 DEF Session!TypeOK
<1>8. Session!TypeOK'
  BY <1>1, <1>4, <1>7 DEF Session!TypeOK
<1>9. Session!NobodyWaitsInVain'
  <2>1. CASE UNCHANGED <<waiting, call>> /\ ~ (p.page /\ p.kind = "refresh")
    BY <1>1, <2>1 DEF Session!NobodyWaitsInVain
  <2>2. CASE Session!Wake(t, n) /\ p.page /\ p.kind = "refresh"
    <3>1. ASSUME NEW u \in Tabs
          PROVE  (waiting'[u] # {}) <=> \E q \in posts' : q.tab = u /\ q.kind = "refresh" /\ q.page
      <4>1. CASE u = t
        BY <1>1, <1>6, <2>2, <4>1 DEF OneRestore, t
      <4>2. CASE u # t
        BY <1>1, <1>6, <2>2, <4>2 DEF Session!NobodyWaitsInVain, t
      <4>. QED
        BY <4>1, <4>2
    <3>2. ASSUME NEW u \in Tabs
          PROVE  {c \in Calls : call'[u][c].state = "waiting"} = waiting'[u] \ {"mount"}
      <4>1. CASE u # t
        BY <1>1, <1>6, <2>2, <4>1 DEF Session!NobodyWaitsInVain
      <4>2. CASE u = t
        <5>1. \A c \in Calls : call[t][c].state = "waiting" => c \in waiting[t]
          BY <1>1, <1>2 DEF Session!NobodyWaitsInVain, t
        <5>2. \A c \in Calls : call'[t][c].state # "waiting"
          BY <1>2, <1>6, <2>2, <5>1 DEF t
        <5>. QED
          BY <1>6, <2>2, <4>2, <5>2
      <4>. QED
        BY <4>1, <4>2
    <3>. QED
      BY <3>1, <3>2 DEF Session!NobodyWaitsInVain
  <2>. QED
    BY <1>5, <2>1, <2>2
<1>10. OneRestore'
  BY <1>1 DEF OneRestore
<1>11. Session!RetriesAreRenewed'
  <2>1. CASE UNCHANGED <<waiting, call>>
    BY <1>1, <2>1 DEF Session!RetriesAreRenewed
  <2>2. CASE Session!Wake(t, n) /\ p.page /\ p.kind = "refresh"
    <3>. SUFFICES ASSUME NEW u \in Tabs, NEW c \in Calls, call'[u][c].state = "sent"
                  PROVE  call'[u][c].with # call'[u][c].refused
      BY DEF Session!RetriesAreRenewed
    <3>1. CASE u = t /\ c \in waiting[t]
      <4>1. n # Session!NoNumber /\ call'[u][c].with = n /\ call'[u][c].refused = call[u][c].refused
        BY <1>6, <2>2, <3>1
      <4>2. call[u][c].refused # n
        BY <1>3, <4>1 DEF Unseen
      <4>. QED
        BY <4>1, <4>2
    <3>2. CASE u # t \/ c \notin waiting[t]
      <4>1. call'[u][c] = call[u][c]
        BY <1>6, <2>2, <3>2
      <4>. QED
        BY <1>1, <4>1 DEF Session!RetriesAreRenewed
    <3>. QED
      BY <3>1, <3>2
  <2>. QED
    BY <1>5, <2>1, <2>2
<1>12. \A m \in Session!Numbers : Unseen(m) /\ m # n => Unseen(m)'
  <2>. SUFFICES ASSUME NEW m \in Session!Numbers, Unseen(m), m # n PROVE Unseen(m)'
    OBVIOUS
  <2>1. cookie' # m /\ m # Session!NoNumber
    BY DEF Unseen, Session!Numbers, Session!NoNumber
  <2>2. \A u \in Tabs : store'[u].token # m /\ store'[u].csrf # m
    BY <1>4 DEF Unseen
  <2>3. \A u \in Tabs, c \in Calls : call'[u][c].with # m /\ call'[u][c].refused # m
    BY <1>5, <1>6, <2>1 DEF Unseen
  <2>4. \A q \in posts' : q.cookie # m /\ q.header # m
    BY DEF Unseen
  <2>. QED
    BY <2>1, <2>2, <2>3, <2>4 DEF Unseen
<1>13. NumbersAreIssued'
  <2>1. \A m \in Session!Numbers : m > issued => m # n
    BY <1>1, <1>3 DEF Session!Numbers, Session!NoNumber, Session!TypeOK, Session!ConstantsAssumption
  <2>. QED
    BY <1>1, <1>12, <2>1 DEF NumbersAreIssued
<1>14. AnswersAreNew'
  BY <1>1, <1>3, <1>12 DEF AnswersAreNew
<1>15. \A u \in Tabs : waiting'[u] = waiting[u] \/ waiting'[u] = {}
  BY <1>5, <1>6
<1>. QED
  BY <1>4, <1>8, <1>9, <1>10, <1>11, <1>13, <1>14, <1>15 DEF t

LEMMA DeliverKeeps ==
  ASSUME Session!ConstantsAssumption, SessionInv, NEW p \in posts, Session!Deliver(p)
  PROVE  SessionInv'
<1>. DEFINE n == IF p.answer = Session!Denied THEN Session!NoNumber ELSE p.answer
            t == p.tab
<1>1. /\ Session!TypeOK /\ Session!NobodyWaitsInVain /\ OneRestore /\ Session!RetriesAreRenewed
      /\ NumbersAreIssued /\ AnswersAreNew /\ Lossless
  BY DEF SessionInv
<1>2. /\ p \in Session!Posts /\ t \in Tabs /\ p.kind \in {"login", "refresh"}
      /\ cookie \in Session!Numbers \cup {Session!NoNumber} /\ lost \in 0..MaxLost
      /\ p.answer \in Session!Numbers \cup {Session!Pending, Session!Denied}
  BY <1>1 DEF Session!TypeOK, Session!Posts
<1>3. /\ p.answer # Session!Pending /\ Session!Learn(p, n) /\ posts' = posts \ {p}
      /\ cookie' = IF p.answer = Session!Denied THEN cookie ELSE p.answer
      /\ UNCHANGED <<issued, current, lost>>
  BY DEF Session!Deliver
<1>4. /\ n \in Session!Numbers \cup {Session!NoNumber} /\ Session!Denied \notin Session!Numbers /\
           Session!NoNumber \notin Session!Numbers
      /\ Session!Pending \notin Session!Numbers /\ (p.answer \in Session!Numbers => n = p.answer /\
           cookie' = n)
      /\ (p.answer = Session!Denied => n = Session!NoNumber /\ cookie' = cookie)
  BY <1>2, <1>3 DEF Session!Denied, Session!Pending, Session!NoNumber, Session!Numbers
<1>. HIDE DEF n, t
<1>5. n \in {Session!NoNumber, p.answer} /\ cookie' \in {cookie, n} /\
        cookie' \in Session!Numbers \cup {Session!NoNumber}
  BY <1>2, <1>3, <1>4
<1>6. /\ Session!TypeOK' /\ Session!NobodyWaitsInVain' /\ OneRestore' /\ Session!RetriesAreRenewed'
      /\ NumbersAreIssued' /\ AnswersAreNew'
      /\ \A u \in Tabs : store'[u] # store[u] => u = t /\ store'[u].token = n /\ store'[u].csrf = n
      /\ \A u \in Tabs : waiting'[u] = waiting[u] \/ waiting'[u] = {}
  BY <1>2, <1>3, <1>4, <1>5, LearnKeeps DEF t
<1>7. ASSUME lost' = 0 PROVE TabsApart' /\ RestoresAreValid' /\ CookieIsLive'
  <2>1. TabsApart /\ RestoresAreValid /\ CookieIsLive
    BY <1>1, <1>3, <1>7 DEF Lossless
  <2>2. p.page /\ \A q \in posts : q.page /\ q.tab \in Tabs /\ q.kind \in {"login", "refresh"}
    BY <1>1, <2>1 DEF TabsApart, Session!TypeOK, Session!Posts
  <2>3. \A q \in posts' : q \in posts /\ q # p /\ (q.kind = p.kind => q.tab # t)
    BY <1>1, <1>3, <2>2 DEF OneRestore, t
  <2>4. \A q \in posts' : q.tab # t
    <3>1. ASSUME NEW q \in posts, q.kind # p.kind, q.tab = t PROVE FALSE
      BY <1>1, <1>2, <2>1, <2>2, <3>1 DEF TabsApart, Session!NobodyWaitsInVain, t
    <3>. QED
      BY <2>3, <3>1
  <2>5. \A u \in Tabs : u # t => store'[u] = store[u]
    BY <1>6
  <2>6. p.answer \in Session!Numbers => store'[t].csrf = n
    <3>1. store' = [store EXCEPT ![t] =
            IF n # Session!NoNumber THEN Session!SetAuth(n) ELSE IF p.kind = "login" THEN @
              ELSE Session!Logout]
      BY <1>3, <2>2 DEF Session!Learn, t
    <3>2. Session!SetAuth(n).csrf = n
      BY DEF Session!SetAuth
    <3>3. ASSUME n \in Session!Numbers PROVE store'[t].csrf = n
      <4>1. store' = [store EXCEPT ![t] = Session!SetAuth(n)]
        BY <1>4, <3>1, <3>3
      <4>. QED
        BY <1>1, <1>2, <3>2, <4>1 DEF Session!TypeOK
    <3>. QED
      BY <1>4, <3>3
  <2>7. TabsApart'
    <3>1. \A u \in Tabs : store'[u].token = store'[u].csrf
      BY <1>6, <2>1 DEF TabsApart
    <3>2. n # Session!NoNumber => \A u \in Tabs : store[u].csrf # n
      BY <1>1, <1>4, <1>5 DEF AnswersAreNew, Unseen
    <3>3. ASSUME NEW u \in Tabs, NEW v \in Tabs, store'[u].csrf = store'[v].csrf,
                 store'[u].csrf # Session!NoNumber
          PROVE  u = v
      BY <1>6, <2>1, <3>2, <3>3 DEF TabsApart
    <3>4. ASSUME NEW q \in posts'
          PROVE  /\ q.page
                 /\ q.kind = "login" => store'[q.tab].csrf = Session!NoNumber /\
                      waiting'[q.tab] = {}
                 /\ q.kind = "refresh" => q.header = store'[q.tab].csrf /\
                      q.header # Session!NoNumber
      <4>1. q \in posts /\ q.tab \in Tabs /\ store'[q.tab] = store[q.tab]
        BY <2>2, <2>3, <2>4, <2>5
      <4>2. q.kind = "login" => waiting'[q.tab] = {}
        BY <1>6, <2>1, <4>1 DEF TabsApart
      <4>. QED
        BY <2>1, <4>1, <4>2 DEF TabsApart
    <3>. QED
      BY <3>1, <3>3, <3>4 DEF TabsApart
  <2>8. RestoresAreValid'
    BY <1>3, <2>1, <2>3 DEF RestoresAreValid
  <2>9. CookieIsLive'
    <3>1. CASE p.answer \in Session!Numbers
      BY <1>1, <1>3, <1>4, <3>1 DEF AnswersAreNew, CookieIsLive
    <3>2. CASE p.answer = Session!Denied
      BY <1>1, <1>3, <1>4, <2>1, <3>2 DEF CookieIsLive, Session!TypeOK
    <3>. QED
      BY <1>2, <1>3, <3>1, <3>2
  <2>. QED
    BY <2>7, <2>8, <2>9
<1>8. Lossless'
  BY <1>7 DEF Lossless
<1>. QED
  BY <1>6, <1>8 DEF SessionInv

LEMMA LoseKeeps ==
  ASSUME Session!ConstantsAssumption, SessionInv, NEW p \in posts, Session!Lose(p)
  PROVE  SessionInv'
<1>1. Session!TypeOK
  BY DEF SessionInv
<1>2. /\ Session!Learn(p, Session!NoNumber) /\ posts' = posts \ {p} /\
           UNCHANGED <<issued, current, cookie>>
      /\ lost' = lost + 1 /\ lost < MaxLost
  BY DEF Session!Lose
<1>3. /\ lost' \in 0..MaxLost /\ lost' # 0 /\ cookie' \in {cookie, Session!NoNumber}
      /\ cookie' \in Session!Numbers \cup {Session!NoNumber}
  BY <1>1, <1>2 DEF Session!TypeOK, Session!ConstantsAssumption
<1>4. /\ Session!TypeOK' /\ Session!NobodyWaitsInVain' /\ OneRestore' /\ Session!RetriesAreRenewed'
      /\ NumbersAreIssued' /\ AnswersAreNew'
  BY <1>2, <1>3, LearnKeeps
<1>. QED
  BY <1>3, <1>4 DEF SessionInv, Lossless

-----------------------------------------------------------------------------
LEMMA SessionStep ==
  ASSUME Session!ConstantsAssumption, SessionInv, [Session!Next]_Session!vars
  PROVE  SessionInv'
<1>0. Session!TypeOK
  BY DEF SessionInv
<1>1. CASE UNCHANGED Session!vars
  <2>. QED
    BY <1>1 DEF Session!vars, SessionInv, Session!TypeOK, Session!NobodyWaitsInVain, OneRestore,
       Session!RetriesAreRenewed,
                NumbersAreIssued, AnswersAreNew, Unseen, Lossless, TabsApart, RestoresAreValid,
                CookieIsLive
<1>2. ASSUME NEW t \in Tabs, Session!Load(t) \/ Session!Login(t) PROVE SessionInv'
  BY <1>2, LoadKeeps, LoginKeeps
<1>3. ASSUME NEW t \in Tabs, NEW c \in Calls, Session!Send(t, c) \/ Session!Settled(t, c) \/
             Session!Unauthorized(t, c)
      PROVE  SessionInv'
  BY <1>3, RequestKeeps, UnauthorizedKeeps
<1>4. ASSUME NEW p \in posts, Session!ServeLogin(p) \/ Session!ServeRefresh(p) PROVE SessionInv'
  <2>1. p.answer = Session!Pending /\ UNCHANGED <<cookie, store, waiting, call, lost>>
    BY <1>4 DEF Session!ServeLogin, Session!ServeRefresh
  <2>2. PICK n \in Session!Numbers \cup {Session!Denied} : Answered(p, n)
    BY <1>0, <1>4, ServeAnswers
  <2>. QED
    BY <2>1, <2>2, AnswerKeeps
<1>5. ASSUME NEW p \in posts, Session!Deliver(p) \/ Session!Lose(p) PROVE SessionInv'
  BY <1>5, DeliverKeeps, LoseKeeps
<1>. QED
  BY <1>1, <1>2, <1>3, <1>4, <1>5 DEF Session!Next

LEMMA SessionSafe ==
  ASSUME Session!ConstantsAssumption, SessionInv
  PROVE  Session!SessionHolds
<1>1. /\ Session!TypeOK /\ Session!NobodyWaitsInVain /\ OneRestore /\ Session!RetriesAreRenewed
      /\ NumbersAreIssued /\ AnswersAreNew /\ Lossless
  BY DEF SessionInv
<1>2. Session!SpentOnlyAfterLoss
  BY <1>1 DEF Session!SpentOnlyAfterLoss, Lossless, RestoresAreValid, Session!TypeOK
<1>3. Session!CookieIsCurrent
  BY <1>1 DEF Session!CookieIsCurrent, Lossless, CookieIsLive
<1>. QED
  BY <1>1, <1>2, <1>3 DEF Session!SessionHolds

\* The session of the browser is kept for every number of tabs, requests and losses.
THEOREM SessionIsKept ==
  ASSUME Session!ConstantsAssumption
  PROVE  Session!Spec => [](Session!TypeOK /\ Session!SessionHolds)
<1>1. Session!Init => SessionInv
  BY SessionInit
<1>2. SessionInv /\ [Session!Next]_Session!vars => SessionInv'
  BY SessionStep
<1>3. SessionInv => Session!TypeOK /\ Session!SessionHolds
  BY SessionSafe DEF SessionInv
<1>. QED
  BY <1>1, <1>2, <1>3, PTL DEF Session!Spec

-----------------------------------------------------------------------------
(* The application a page works on: ConsoleNavigation.                     *)

NavigationInv ==
  /\ Navigation!TypeOK
  /\ Navigation!FormsStayInTheirApplication /\ Navigation!LoadingEnds
  /\ \A a \in Apps : overview[a] \in {None, a}

LEMMA InitNavigation ==
  ASSUME Navigation!ConstantsAssumption, Navigation!Init
  PROVE  NavigationInv
BY DEF Navigation!Init, NavigationInv, Navigation!TypeOK, Navigation!Lists,
  Navigation!FormsStayInTheirApplication, Navigation!LoadingEnds

\* A render selects the application of the url, or leaves it; a form that it does not show goes.
LEMMA RenderKeeps ==
  ASSUME Navigation!ConstantsAssumption, NavigationInv,
         NEW u \in Apps \cup {None}, NEW list \in Navigation!Lists, NEW error \in BOOLEAN,
         Navigation!Render(u, list, error),
         granted' \in SUBSET Apps, fetched' \in Navigation!Lists, UNCHANGED <<asked, overview>>
  PROVE  NavigationInv'
<1>1. /\ cached' = list /\ broken' = error /\ url' \in {u, None}
      /\ url' # None => u # None /\ ~Navigation!Left(u, list, error)
      /\ draft' \in {draft, None} /\ (draft' # None => Navigation!Shown(u, list, error))
  BY DEF Navigation!Render
<1>2. /\ products' \in SUBSET Apps /\ chosen' \in Apps \cup {None}
      /\ u # None /\ list # None => chosen' = IF u \in list THEN u ELSE None
      /\ ~(u # None /\ list # None) => chosen' = chosen
  BY DEF Navigation!Render, Navigation!SetThenSelect, Navigation!Found, Navigation!Lists,
    NavigationInv, Navigation!TypeOK
<1>3. Navigation!TypeOK'
  BY <1>1, <1>2 DEF NavigationInv, Navigation!TypeOK
<1>4. Navigation!FormsStayInTheirApplication'
  BY <1>1, <1>2 DEF Navigation!FormsStayInTheirApplication, Navigation!Shown, Navigation!Render,
    Navigation!Left, NavigationInv
<1>5. Navigation!LoadingEnds'
  BY <1>1, <1>2 DEF Navigation!LoadingEnds, Navigation!Left
<1>. QED
  BY <1>3, <1>4, <1>5 DEF NavigationInv

LEMMA NavigationStep ==
  ASSUME Navigation!ConstantsAssumption, NavigationInv, [Navigation!Next]_Navigation!vars
  PROVE  NavigationInv'
<1>. USE DEF Navigation!overviewVars
<1>1. ASSUME \/ Navigation!Fetch \/ \E a \in Apps : Navigation!Regrant(a) \/ Navigation!Register(a)
             \/ UNCHANGED Navigation!vars
      PROVE  NavigationInv'
  <2>1. /\ UNCHANGED <<cached, broken, url, products, chosen, draft, asked, overview>>
        /\ granted' \in SUBSET Apps /\ fetched' \in Navigation!Lists
    BY <1>1 DEF Navigation!Fetch, Navigation!Regrant, Navigation!Register, Navigation!vars,
      NavigationInv, Navigation!TypeOK, Navigation!Lists
  <2>. QED
    BY <2>1 DEF NavigationInv, Navigation!TypeOK, Navigation!FormsStayInTheirApplication,
      Navigation!LoadingEnds
<1>2. ASSUME Navigation!FetchDone \/ Navigation!FetchFailed PROVE NavigationInv'
  BY <1>2, RenderKeeps DEF Navigation!FetchDone, Navigation!FetchFailed, NavigationInv,
    Navigation!TypeOK, Navigation!Lists
<1>3. ASSUME NEW a \in Apps \cup {None},
             Navigation!Open(a) \/ Navigation!Switch(a) \/ Navigation!GoBack(a)
      PROVE  NavigationInv'
  BY <1>3, RenderKeeps DEF Navigation!Open, Navigation!Switch, Navigation!GoBack, NavigationInv,
    Navigation!TypeOK, Navigation!Lists
<1>4. CASE Navigation!OpenForm
  BY <1>4 DEF Navigation!OpenForm, Navigation!Shown, NavigationInv, Navigation!TypeOK,
    Navigation!FormsStayInTheirApplication, Navigation!LoadingEnds
<1>5. CASE Navigation!AskOverview
  BY <1>5 DEF Navigation!AskOverview, Navigation!Shown, NavigationInv, Navigation!TypeOK,
    Navigation!FormsStayInTheirApplication, Navigation!LoadingEnds
<1>6. ASSUME NEW a \in Apps, Navigation!OverviewComes(a) PROVE NavigationInv'
  BY <1>6 DEF Navigation!OverviewComes, Navigation!OverviewKey, NavigationInv, Navigation!TypeOK,
    Navigation!FormsStayInTheirApplication, Navigation!LoadingEnds
<1>. QED
  BY <1>1, <1>2, <1>3, <1>4, <1>5, <1>6 DEF Navigation!Next

LEMMA NavigationSafe ==
  ASSUME Navigation!ConstantsAssumption, NavigationInv
  PROVE  Navigation!NavigationHolds
BY DEF NavigationInv, Navigation!NavigationHolds, Navigation!CountsAreTheirs,
  Navigation!OverviewShown, Navigation!OverviewKey, Navigation!Shown, Navigation!TypeOK

-----------------------------------------------------------------------------
(* The key of a new application: ConsoleRegistration.                      *)

\* While an answer is awaited, no key is on the screen, and no other answer is awaited.
OneAnswer ==
  \A s \in Slugs : requests[s] \in {"sent", "made"} =>
    /\ pending /\ keyShown = None
    /\ \A u \in Slugs : requests[u] \in {"sent", "made"} => u = s

RegistrationInv == Registration!TypeOK /\ OneAnswer /\ Registration!NoKeyUnseen

LEMMA InitRegistration ==
  ASSUME Registration!ConstantsAssumption, Registration!Init
  PROVE  RegistrationInv
BY DEF Registration!Init, RegistrationInv, Registration!TypeOK, OneAnswer, Registration!NoKeyUnseen,
  Registration!Forms, Registration!Secrets

LEMMA RegistrationStep ==
  ASSUME Registration!ConstantsAssumption, RegistrationInv, [Registration!Next]_Registration!vars
  PROVE  RegistrationInv'
<1>. USE DEF RegistrationInv, Registration!TypeOK, OneAnswer, Registration!NoKeyUnseen,
       Registration!Forms, Registration!Secrets
<1>1. ASSUME NEW s \in Slugs, Registration!Elsewhere(s) \/ Registration!Fill(s)
      PROVE  RegistrationInv'
  BY <1>1 DEF Registration!Elsewhere, Registration!Fill
<1>2. ASSUME NEW s \in Slugs, Registration!Serve(s) PROVE RegistrationInv'
  BY <1>2 DEF Registration!Serve
<1>3. ASSUME NEW s \in Slugs, Registration!Answer(s) PROVE RegistrationInv'
  <2>1. /\ keyShown = None /\ requests[s] = "made" /\ requests' = [requests EXCEPT ![s] = "none"]
        /\ keyShown' = s /\ showForm' = FALSE /\ slugTyped' = None
        /\ UNCHANGED <<registered, pending, copied, unseen>>
        /\ \A u \in Slugs : u # s => requests[u] \notin {"sent", "made"}
    BY <1>3 DEF Registration!Answer
  <2>2. \A u \in Slugs : requests'[u] \notin {"sent", "made"} /\ keyShown # u
    BY <2>1 DEF Registration!ConstantsAssumption
  <2>3. Registration!NoKeyUnseen'
    BY <2>1, <2>2
  <2>. QED
    BY <2>1, <2>2, <2>3
<1>4. ASSUME NEW s \in Slugs, Registration!Lose(s) PROVE RegistrationInv'
  BY <1>4 DEF Registration!Lose
<1>5. ASSUME NEW open \in BOOLEAN, Registration!ShowForm(open) PROVE RegistrationInv'
  BY <1>5 DEF Registration!ShowForm
<1>6. CASE Registration!Submit
  BY <1>6 DEF Registration!Submit, Registration!Ready, Registration!Covered
<1>7. CASE Registration!Refetched
  BY <1>7 DEF Registration!Refetched
<1>8. CASE Registration!Done
  BY <1>8 DEF Registration!Done, Registration!Covered
<1>9. CASE Registration!Leave
  BY <1>9 DEF Registration!Leave
<1>10. CASE UNCHANGED Registration!vars
  BY <1>10 DEF Registration!vars
<1>. QED
  BY <1>1, <1>2, <1>3, <1>4, <1>5, <1>6, <1>7, <1>8, <1>9, <1>10 DEF Registration!Next

-----------------------------------------------------------------------------
(* Dialogs and their partner: ConsolePartners.                             *)

PartnersInv ==
  /\ PartnersPage!TypeOK /\ PartnersPage!DialogsKeepTheirPartner
  /\ partnerDialog # "none" => openedFor \in Partners

LEMMA InitPartners ==
  ASSUME PartnersPage!Init
  PROVE  PartnersInv
<1>1. partner \in [Partners -> PartnersPage!Statuses]
  BY DEF PartnersPage!Init, PartnersPage!Statuses
<1>2. sent = <<>> /\ sent \in Seq([from : Partners, to : Partners, steady : BOOLEAN])
  BY DEF PartnersPage!Init
<1>3. PartnersPage!TypeOK
  BY <1>1, <1>2 DEF PartnersPage!Init, PartnersPage!TypeOK, PartnersPage!Statuses
<1>4. DOMAIN sent = {}
  BY <1>2
<1>. QED
  BY <1>3, <1>4 DEF PartnersPage!Init, PartnersInv, PartnersPage!DialogsKeepTheirPartner

\* The partner worked on is another only after a selection, or with the list while there is none.
LEMMA ListKeeps ==
  ASSUME PartnersInv, NEW id \in Partners \cup {None}, NEW rows \in [Partners -> PartnersPage!Statuses],
         PartnersPage!Moved(id, rows),
         partner' \in [Partners -> PartnersPage!Statuses], creating' \in BOOLEAN,
         UNCHANGED <<partnerDialog, openedFor, sent>>
  PROVE  PartnersInv'
<1>1. selectedId' = id /\ listedPartner' = rows /\ shaken' \in BOOLEAN
  BY DEF PartnersPage!Moved
<1>2. partnerDialog # "none" /\ ~shaken' => ~shaken /\ PartnersPage!Active' = PartnersPage!Active
  BY <1>1 DEF PartnersPage!Moved, PartnersPage!Active, PartnersPage!ActiveId
<1>. QED
  BY <1>1, <1>2 DEF PartnersInv, PartnersPage!TypeOK, PartnersPage!DialogsKeepTheirPartner

LEMMA PartnersStep ==
  ASSUME PartnersInv, [PartnersPage!Next]_PartnersPage!vars
  PROVE  PartnersInv'
<1>1. ASSUME \/ \E p \in Partners, s \in PartnersPage!Statuses : PartnersPage!Elsewhere(p, s)
             \/ \E archive \in BOOLEAN : PartnersPage!SetStatus(archive)
             \/ PartnersPage!Create \/ PartnersPage!NotCreated \/ UNCHANGED PartnersPage!vars
      PROVE  PartnersInv'
  <2>1. UNCHANGED <<listedPartner, selectedId, partnerDialog, openedFor, shaken, sent>>
    BY <1>1 DEF PartnersPage!Elsewhere, PartnersPage!SetStatus, PartnersPage!Create,
      PartnersPage!NotCreated, PartnersPage!vars
  <2>2. partner' \in [Partners -> PartnersPage!Statuses] /\ creating' \in BOOLEAN
    BY <1>1 DEF PartnersPage!Elsewhere, PartnersPage!SetStatus, PartnersPage!Create,
      PartnersPage!NotCreated, PartnersPage!vars, PartnersInv, PartnersPage!TypeOK,
      PartnersPage!Statuses
  <2>. QED
    BY <2>1, <2>2 DEF PartnersInv, PartnersPage!TypeOK, PartnersPage!DialogsKeepTheirPartner,
      PartnersPage!Active
<1>2. CASE PartnersPage!List
  <2>. DEFINE rows == [p \in Partners |-> IF partner[p] = "archived" THEN "none" ELSE partner[p]]
  <2>1. rows \in [Partners -> PartnersPage!Statuses]
    BY DEF PartnersInv, PartnersPage!TypeOK, PartnersPage!Statuses
  <2>. QED
    BY <1>2, <2>1, ListKeeps DEF PartnersPage!List, PartnersInv, PartnersPage!TypeOK
<1>3. ASSUME NEW p \in Partners, PartnersPage!Select(p) \/ PartnersPage!Created(p)
      PROVE  PartnersInv'
  <2>1. /\ PartnersPage!Moved(p, listedPartner) /\ creating' \in BOOLEAN
        /\ partner' \in [Partners -> PartnersPage!Statuses]
        /\ UNCHANGED <<partnerDialog, openedFor, sent>>
    BY <1>3 DEF PartnersPage!Select, PartnersPage!Created, PartnersInv, PartnersPage!TypeOK,
      PartnersPage!Statuses
  <2>. QED
    BY <2>1, ListKeeps DEF PartnersInv, PartnersPage!TypeOK
<1>4. ASSUME NEW kind \in {"payout", "edit"}, PartnersPage!OpenDialog(kind) PROVE PartnersInv'
  BY <1>4 DEF PartnersPage!OpenDialog, PartnersPage!Selected, PartnersPage!OnList, PartnersInv,
    PartnersPage!TypeOK, PartnersPage!DialogsKeepTheirPartner, PartnersPage!Active
<1>5. CASE PartnersPage!CloseDialog
  BY <1>5 DEF PartnersPage!CloseDialog, PartnersInv, PartnersPage!TypeOK,
    PartnersPage!DialogsKeepTheirPartner
<1>6. ASSUME NEW kind \in {"payout", "edit"}, PartnersPage!Send(kind) PROVE PartnersInv'
  <2>. DEFINE x == [from |-> openedFor, to |-> PartnersPage!Active, steady |-> ~shaken]
  <2>1. /\ x \in [from : Partners, to : Partners, steady : BOOLEAN]
        /\ x.steady => x.to = x.from
    BY <1>6 DEF PartnersPage!Send, PartnersPage!OnScreen, PartnersPage!Selected,
      PartnersPage!OnList, PartnersInv, PartnersPage!TypeOK, PartnersPage!DialogsKeepTheirPartner
  <2>2. sent' = Append(sent, x)
    BY <1>6 DEF PartnersPage!Send
  <2>. HIDE DEF x
  <2>3. /\ sent' \in Seq([from : Partners, to : Partners, steady : BOOLEAN])
        /\ \A i \in DOMAIN sent' : sent'[i].steady => sent'[i].to = sent'[i].from
    BY <2>1, <2>2 DEF PartnersInv, PartnersPage!TypeOK, PartnersPage!DialogsKeepTheirPartner
  <2>. QED
    BY <1>6, <2>3 DEF PartnersPage!Send, PartnersInv, PartnersPage!TypeOK,
      PartnersPage!DialogsKeepTheirPartner, PartnersPage!Active
<1>. QED
  BY <1>1, <1>2, <1>3, <1>4, <1>5, <1>6 DEF PartnersPage!Next, PartnersPage!SendPayout,
    PartnersPage!SendEdit

-----------------------------------------------------------------------------
(* Lists and their filters: ConsoleUserList.                               *)

\* A page after the first was reached by Next, on a total that had it.
PagesWerePromised == key.page > 0 => key.page < relied

\* What is known of the filters is shown.
KnownIsShown == key \in UserList!Answered => shown = key

UserListInv ==
  UserList!TypeOK /\ UserList!RowsMatchFilters /\ PagesWerePromised /\ KnownIsShown

LEMMA PageKeys ==
  ASSUME NEW k \in UserList!ListKeys
  PROVE  /\ k.q \in Searches /\ k.filter \in Filters /\ k.page \in 0..1
         /\ \A s \in Searches : [k EXCEPT !.q = s] \in UserList!ListKeys
         /\ \A f \in Filters : [k EXCEPT !.filter = f] \in UserList!ListKeys
         /\ \A p \in 0..1 : [k EXCEPT !.page = p] \in UserList!ListKeys
BY DEF UserList!ListKeys, UserList!MaxPage

LEMMA TotalsAreFew ==
  ASSUME UserList!ConstantsAssumption
  PROVE  Totals \subseteq 0..2
BY DEF UserList!ConstantsAssumption, UserList!MaxPage

LEMMA InitUserList ==
  ASSUME UserList!ConstantsAssumption, UserList!Init
  PROVE  UserListInv
<1>1. PICK s \in Searches, f \in Filters :
        /\ searchTyped = s /\ key = [q |-> s, filter |-> f, page |-> 0]
        /\ usersAsked = {key} /\ counted = [k \in UserList!ListKeys |-> -1]
        /\ shown = None /\ failed = FALSE /\ relied = 0
  BY DEF UserList!Init
<1>2. key \in UserList!ListKeys /\ key.page = 0
  BY <1>1 DEF UserList!ListKeys, UserList!MaxPage
<1>3. UserList!Answered = {}
  BY <1>1 DEF UserList!Answered
<1>4. counted \in [UserList!ListKeys -> Totals \cup {-1}]
  BY <1>1
<1>5. UserList!TypeOK
  BY <1>1, <1>2, <1>4 DEF UserList!TypeOK
<1>. QED
  BY <1>1, <1>2, <1>3, <1>5 DEF UserListInv, UserList!RowsMatchFilters, PagesWerePromised,
    KnownIsShown

\* A render shows the answer of its filters, or awaits it.
LEMMA ObserveKeeps ==
  ASSUME UserList!ConstantsAssumption, UserListInv, NEW k \in UserList!ListKeys,
         UserList!Observe(k), searchTyped' \in Searches, relied' \in Totals \cup {0},
         UNCHANGED counted, k.page > 0 => k.page < relied'
  PROVE  UserListInv'
<1>1. /\ key' = k /\ usersAsked' \subseteq UserList!ListKeys
      /\ k # key => k \in usersAsked' \/ k \in UserList!Answered
      /\ k = key => usersAsked' = usersAsked
      /\ shown' = IF k \in UserList!Answered THEN k ELSE shown
      /\ failed' = (failed /\ k = key)
  BY DEF UserList!Observe, UserList!ShowPrevious, UserListInv, UserList!TypeOK
<1>2. /\ UserList!Answered' = UserList!Answered
      /\ shown # None => shown \in UserList!Answered
      /\ key \notin usersAsked /\ ~failed => shown = key
      /\ shown \in UserList!ListKeys \cup {None} /\ None \notin UserList!ListKeys
      /\ key \in UserList!ListKeys
  BY DEF UserList!Answered, UserListInv, UserList!TypeOK, UserList!RowsMatchFilters,
    UserList!ConstantsAssumption
<1>3. UserList!RowsMatchFilters'
  BY <1>1, <1>2 DEF UserList!RowsMatchFilters
<1>4. UserList!TypeOK'
  BY <1>1, <1>2 DEF UserList!TypeOK, UserListInv
<1>5. PagesWerePromised'
  BY <1>1 DEF PagesWerePromised
<1>6. KnownIsShown'
  BY <1>1, <1>2 DEF KnownIsShown
<1>. QED
  BY <1>3, <1>4, <1>5, <1>6 DEF UserListInv

LEMMA UserListStep ==
  ASSUME UserList!ConstantsAssumption, UserListInv, [UserList!Next]_UserList!vars
  PROVE  UserListInv'
<1>1. /\ key \in UserList!ListKeys /\ key.q \in Searches /\ key.filter \in Filters
      /\ key.page \in 0..1 /\ searchTyped \in Searches /\ relied \in Totals \cup {0}
      /\ shown \in UserList!ListKeys \cup {None} /\ usersAsked \subseteq UserList!ListKeys
      /\ counted \in [UserList!ListKeys -> Totals \cup {-1}] /\ failed \in BOOLEAN
  BY PageKeys DEF UserListInv, UserList!TypeOK
<1>2. /\ shown # None => shown \in UserList!Answered
      /\ key \notin usersAsked /\ ~failed => shown = key
      /\ key \in UserList!Answered => shown = key
      /\ PagesWerePromised
  BY DEF UserListInv, UserList!RowsMatchFilters, KnownIsShown
<1>3. ASSUME NEW s \in Searches, UserList!Type(s) PROVE UserListInv'
  <2>. DEFINE k == [key EXCEPT !.page = 0]
  <2>1. k \in UserList!ListKeys /\ k.page = 0
    BY <1>1 DEF UserList!ListKeys, UserList!MaxPage
  <2>2. UserList!Observe(k) /\ searchTyped' = s /\ relied' = 0 /\ UNCHANGED counted
    BY <1>3 DEF UserList!Type, UserList!FirstPage
  <2>. HIDE DEF k
  <2>. QED
    BY <2>1, <2>2, ObserveKeeps
<1>4. CASE UserList!Debounce
  <2>. DEFINE k == [key EXCEPT !.q = searchTyped]
  <2>1. k \in UserList!ListKeys /\ k.page = key.page
    BY <1>1, PageKeys DEF UserList!ListKeys
  <2>2. UserList!Observe(k) /\ UNCHANGED <<searchTyped, relied, counted>>
    BY <1>4 DEF UserList!Debounce
  <2>. HIDE DEF k
  <2>. QED
    BY <1>1, <1>2, <2>1, <2>2, ObserveKeeps DEF PagesWerePromised
<1>5. ASSUME NEW f \in Filters, UserList!SelectFilter(f) PROVE UserListInv'
  <2>. DEFINE j == [key EXCEPT !.filter = f]
              k == [j EXCEPT !.page = 0]
  <2>1. j \in UserList!ListKeys
    BY <1>1, PageKeys
  <2>2. UserList!Observe(k) /\ relied' = 0 /\ UNCHANGED <<searchTyped, counted>>
    BY <1>5 DEF UserList!SelectFilter, UserList!FirstPage
  <2>. HIDE DEF j
  <2>3. k \in UserList!ListKeys /\ k.page = 0
    BY <2>1 DEF UserList!ListKeys, UserList!MaxPage
  <2>. HIDE DEF k
  <2>. QED
    BY <1>1, <2>2, <2>3, ObserveKeeps
<1>6. CASE UserList!NextPage
  <2>. DEFINE k == [key EXCEPT !.page = key.page + 1]
  <2>1. /\ shown # None /\ key.page + 1 < counted[shown] /\ relied' = counted[shown]
    BY <1>6 DEF UserList!NextPage, UserList!HasNext, UserList!TotalPages
  <2>2. counted[shown] \in Totals /\ counted[shown] \in 0..2
    BY <1>1, <1>2, <2>1, TotalsAreFew DEF UserList!Answered
  <2>3. k \in UserList!ListKeys /\ k.page = key.page + 1
    <3>1. key.page + 1 \in 0..1
      BY <1>1, <2>1, <2>2
    <3>. QED
      BY <1>1, <3>1, PageKeys DEF UserList!ListKeys
  <2>4. UserList!Observe(k) /\ UNCHANGED <<searchTyped, counted>>
    BY <1>6 DEF UserList!NextPage
  <2>. HIDE DEF k
  <2>. QED
    BY <1>1, <2>1, <2>2, <2>3, <2>4, ObserveKeeps
<1>7. CASE UserList!PreviousPage
  <2>. DEFINE k == [key EXCEPT !.page = key.page - 1]
  <2>1. k \in UserList!ListKeys /\ k.page = key.page - 1 /\ key.page > 0
    <3>1. key.page - 1 \in 0..1 /\ key.page > 0
      BY <1>1, <1>7 DEF UserList!PreviousPage
    <3>. QED
      BY <1>1, <3>1, PageKeys DEF UserList!ListKeys
  <2>2. UserList!Observe(k) /\ UNCHANGED <<searchTyped, counted, relied>>
    BY <1>7 DEF UserList!PreviousPage
  <2>3. key.page - 1 < relied
    BY <1>1, <1>2, <2>1, TotalsAreFew DEF PagesWerePromised
  <2>. HIDE DEF k
  <2>. QED
    BY <1>1, <2>1, <2>2, <2>3, ObserveKeeps
<1>8. ASSUME NEW k \in usersAsked, NEW n \in Totals, UserList!Answer(k, n) PROVE UserListInv'
  <2>1. /\ k \in UserList!ListKeys /\ counted'[k] = n /\ n >= 0
        /\ \A j \in UserList!ListKeys : j # k => counted'[j] = counted[j]
        /\ counted' \in [UserList!ListKeys -> Totals \cup {-1}]
    BY <1>1, <1>8, TotalsAreFew DEF UserList!Answer
  <2>2. UserList!Answered' = UserList!Answered \cup {k}
    BY <2>1 DEF UserList!Answered
  <2>3. UserList!RowsMatchFilters'
    BY <1>2, <1>8, <2>2 DEF UserList!Answer, UserList!RowsMatchFilters
  <2>4. UserList!TypeOK' /\ PagesWerePromised' /\ KnownIsShown'
    BY <1>1, <1>2, <1>8, <2>1, <2>2 DEF UserList!Answer, UserList!TypeOK, PagesWerePromised,
      KnownIsShown
  <2>. QED
    BY <2>3, <2>4 DEF UserListInv
<1>9. ASSUME NEW k \in usersAsked, UserList!Error(k) PROVE UserListInv'
  <2>1. UserList!Answered' = UserList!Answered
    BY <1>9 DEF UserList!Error, UserList!Answered
  <2>2. /\ usersAsked' = usersAsked \ {k}
        /\ failed' = (failed \/ (k = key /\ k \notin UserList!Answered))
        /\ UNCHANGED <<searchTyped, key, counted, shown, relied>>
    BY <1>9 DEF UserList!Error
  <2>. QED
    BY <1>1, <1>2, <2>1, <2>2
    DEF UserListInv, UserList!TypeOK, UserList!RowsMatchFilters, PagesWerePromised, KnownIsShown
<1>10. CASE UserList!Refetch
  <2>1. UserList!Answered' = UserList!Answered
    BY <1>10 DEF UserList!Refetch, UserList!Answered
  <2>. QED
    BY <1>1, <1>2, <1>10, <2>1 DEF UserList!Refetch, UserListInv, UserList!TypeOK,
      UserList!RowsMatchFilters, PagesWerePromised, KnownIsShown
<1>11. ASSUME NEW k \in UserList!ListKeys, UserList!Forget(k) PROVE UserListInv'
  <2>1. /\ counted' = [counted EXCEPT ![k] = -1] /\ k # key /\ k # shown
        /\ UNCHANGED <<searchTyped, key, usersAsked, shown, failed, relied>>
    BY <1>11 DEF UserList!Forget
  <2>2. /\ counted' \in [UserList!ListKeys -> Totals \cup {-1}]
        /\ \A j \in UserList!ListKeys : j # k => counted'[j] = counted[j]
    BY <1>1, <2>1
  <2>3. \A j \in UserList!ListKeys : j # k => (j \in UserList!Answered' <=> j \in UserList!Answered)
    BY <2>2 DEF UserList!Answered
  <2>4. shown # None => shown \in UserList!Answered'
    BY <1>1, <1>2, <2>1, <2>3
  <2>. QED
    BY <1>1, <1>2, <2>1, <2>2, <2>3, <2>4
    DEF UserListInv, UserList!TypeOK, UserList!RowsMatchFilters, PagesWerePromised, KnownIsShown
<1>12. CASE UNCHANGED UserList!vars
  <2>1. /\ UNCHANGED <<searchTyped, key, usersAsked, counted, shown, failed, relied>>
        /\ UserList!Answered' = UserList!Answered
    BY <1>12 DEF UserList!vars, UserList!Answered
  <2>. QED
    BY <2>1 DEF UserListInv, UserList!TypeOK, UserList!RowsMatchFilters, PagesWerePromised,
      KnownIsShown
<1>. QED
  BY <1>3, <1>4, <1>5, <1>6, <1>7, <1>8, <1>9, <1>10, <1>11, <1>12 DEF UserList!Next

\* An answer that tells fewer pages than the one on the screen tells fewer than Next relied on.
LEMMA UserListSafe ==
  ASSUME UserList!ConstantsAssumption, UserListInv
  PROVE  UserList!UserListHolds
<1>1. key \in UserList!ListKeys /\ None \notin UserList!ListKeys /\ relied \in 0..2
  BY TotalsAreFew DEF UserListInv, UserList!TypeOK, UserList!ConstantsAssumption
<1>2. counted \in [UserList!ListKeys -> Totals \cup {-1}]
  BY DEF UserListInv, UserList!TypeOK
<1>3. shown = key => counted[key] \in 0..2
  BY <1>1, <1>2, TotalsAreFew DEF UserListInv, UserList!RowsMatchFilters, UserList!Answered
<1>4. key.page \in 0..1
  BY <1>1, PageKeys
<1>5. UserList!EmptyPageWasPromised
  BY <1>1, <1>3, <1>4 DEF UserListInv, PagesWerePromised, UserList!EmptyPageWasPromised
<1>. QED
  BY <1>5 DEF UserListInv, UserList!UserListHolds

-----------------------------------------------------------------------------
(* Notices and their banner: ConsoleNotices.                               *)

NoticeCalls ==
  [action : {"none", "create", "dispatch", "cancel"}, kind : NoticesPage!Kinds,
   notice : Notices \cup {0}, answer : {"none", "awaited", "ok", "refused"}, count : 0..MaxAudience]

\* What has been sent to somebody stays sent.
SentIsSent == \A n \in Notices : notices[n].deliveries > 0 => notices[n].status = "sent"

\* n was sent to so many.
SentIn(rows, n, k) == n \in Notices /\ rows[n].status = "sent" /\ rows[n].deliveries = k

\* An answer on its way tells a sending, and so does the banner it leaves.
AnswersTellASend ==
  \A c \in Clicks :
    /\ noticeCall[c].action = "create" => noticeCall[c].kind \in NoticesPage!Open
    /\ noticeCall[c].action \in {"dispatch", "cancel"} => noticeCall[c].notice \in Notices
    /\ noticeCall[c].action = "dispatch" /\ noticeCall[c].answer = "ok" =>
         SentIn(notices, noticeCall[c].notice, noticeCall[c].count)

BannerInv ==
  banner # None =>
    banner \in [notice : Notices, count : 0..MaxAudience] /\ SentIn(notices, banner.notice, banner.count)

NoticesPageInv ==
  /\ NoticesPage!TypeOK /\ noticeCall \in [Clicks -> NoticeCalls]
  /\ SentIsSent /\ AnswersTellASend /\ BannerInv

LEMMA InitNotices ==
  ASSUME NoticesPage!ConstantsAssumption, NoticesPage!Init
  PROVE  NoticesPageInv
<1>1. NoticesPage!Idle \in NoticeCalls
  BY DEF NoticesPage!Idle, NoticeCalls, NoticesPage!Kinds, NoticesPage!ConstantsAssumption
<1>2. NoticesPage!TypeOK
  BY DEF NoticesPage!Init, NoticesPage!TypeOK, NoticesPage!Statuses, NoticesPage!Unmade,
    NoticesPage!Kinds, NoticesPage!ConstantsAssumption
<1>. QED
  BY <1>1, <1>2 DEF NoticesPage!Init, NoticesPageInv, SentIsSent, AnswersTellASend, BannerInv,
    NoticesPage!Idle, NoticesPage!Unmade

\* A row that is not sent may change; what was said of one that is stands.
LEMMA RowChanges ==
  ASSUME NoticesPageInv, NEW n \in Notices, notices[n].status # "sent",
         NEW row \in [status : NoticesPage!Statuses, deliveries : 0..MaxAudience],
         row.deliveries > 0 => row.status = "sent", notices' = [notices EXCEPT ![n] = row]
  PROVE  /\ notices' \in [Notices -> [status : NoticesPage!Statuses, deliveries : 0..MaxAudience]]
         /\ SentIsSent'
         /\ \A m, k : SentIn(notices, m, k) => SentIn(notices', m, k)
BY DEF NoticesPageInv, NoticesPage!TypeOK, SentIsSent, SentIn

\* The server's rows stay, and what is said of them.
LEMMA SayingStays ==
  ASSUME NoticesPageInv, \A m, k : SentIn(notices, m, k) => SentIn(notices', m, k), UNCHANGED <<noticeCall, banner>>
  PROVE  AnswersTellASend' /\ BannerInv'
BY DEF NoticesPageInv, AnswersTellASend, BannerInv

\* A request, or its answer, in the place of c.
LEMMA CallChanges ==
  ASSUME NoticesPageInv, \A m, k : SentIn(notices, m, k) => SentIn(notices', m, k),
         NEW c \in Clicks, NEW x \in NoticeCalls, noticeCall' = [noticeCall EXCEPT ![c] = x],
         x.action = "create" => x.kind \in NoticesPage!Open,
         x.action \in {"dispatch", "cancel"} => x.notice \in Notices,
         x.action = "dispatch" /\ x.answer = "ok" => SentIn(notices', x.notice, x.count)
  PROVE  noticeCall' \in [Clicks -> NoticeCalls] /\ AnswersTellASend'
BY DEF NoticesPageInv, AnswersTellASend

LEMMA NoticesStep ==
  ASSUME NoticesPage!ConstantsAssumption, NoticesPageInv, [NoticesPage!Next]_NoticesPage!vars
  PROVE  NoticesPageInv'
<1>1. /\ notices \in [Notices -> [status : NoticesPage!Statuses, deliveries : 0..MaxAudience]]
      /\ noticesListed \in [Notices -> NoticesPage!Statuses] /\ audience \in 0..MaxAudience
      /\ noticeForm \in [open : BOOLEAN, kind : NoticesPage!Kinds] /\ MaxAudience \in Nat
      /\ noticeCall \in [Clicks -> NoticeCalls]
      /\ \A n \in Notices : notices[n].status = "sent" => ~NoticesPage!Pending(n)
      /\ SentIsSent /\ AnswersTellASend /\ BannerInv
  BY DEF NoticesPageInv, NoticesPage!TypeOK, NoticesPage!Pending, NoticesPage!Open,
    NoticesPage!ConstantsAssumption
<1>. DEFINE Rows == [status : NoticesPage!Statuses, deliveries : 0..MaxAudience]
<1>2. ASSUME UNCHANGED <<notices, noticeCall, banner>>,
             noticesListed' \in [Notices -> NoticesPage!Statuses], audience' \in 0..MaxAudience,
             noticeForm' \in [open : BOOLEAN, kind : NoticesPage!Kinds]
      PROVE  NoticesPageInv'
  BY <1>1, <1>2 DEF NoticesPageInv, NoticesPage!TypeOK, SentIsSent, AnswersTellASend, BannerInv,
    SentIn
<1>3. ASSUME \/ NoticesPage!List \/ \E b \in BOOLEAN : NoticesPage!ShowForm(b)
             \/ \E k \in 0..MaxAudience : NoticesPage!SubscribersChange(k)
             \/ \E kind \in NoticesPage!Open : NoticesPage!Fill(kind)
             \/ UNCHANGED NoticesPage!vars
      PROVE  NoticesPageInv'
  <2>1. UNCHANGED <<notices, noticeCall, banner>>
    BY <1>3 DEF NoticesPage!List, NoticesPage!ShowForm, NoticesPage!SubscribersChange,
      NoticesPage!Fill, NoticesPage!vars
  <2>2. noticesListed' \in [Notices -> NoticesPage!Statuses] /\ audience' \in 0..MaxAudience
    BY <1>1, <1>3 DEF NoticesPage!List, NoticesPage!ShowForm, NoticesPage!SubscribersChange,
      NoticesPage!Fill, NoticesPage!vars
  <2>3. noticeForm' \in [open : BOOLEAN, kind : NoticesPage!Kinds]
    BY <1>1, <1>3 DEF NoticesPage!List, NoticesPage!ShowForm, NoticesPage!SubscribersChange,
      NoticesPage!Fill, NoticesPage!vars, NoticesPage!Kinds
  <2>. QED
    BY <1>2, <2>1, <2>2, <2>3
\* A dispatch or a cancellation of an open row, and what it says.
<1>4. ASSUME NEW n \in Notices, NoticesPage!Pending(n),
             notices' \in {NoticesPage!Dispatched(n), NoticesPage!Cancelled(n)}
      PROVE  /\ notices' \in [Notices -> Rows] /\ SentIsSent'
             /\ \A m, k : SentIn(notices, m, k) => SentIn(notices', m, k)
             /\ notices' = NoticesPage!Dispatched(n) => SentIn(notices', n, audience)
  <2>1. notices[n].status # "sent" /\ notices[n] \in Rows /\ notices[n].deliveries = 0
    BY <1>1, <1>4 DEF SentIsSent
  <2>2. PICK row \in Rows : /\ row.deliveries > 0 => row.status = "sent"
                            /\ notices' = [notices EXCEPT ![n] = row]
    <3>1. CASE notices' = NoticesPage!Dispatched(n)
      <4>1. [status |-> "sent", deliveries |-> audience] \in Rows
        BY <1>1 DEF NoticesPage!Statuses
      <4>. QED
        BY <3>1, <4>1 DEF NoticesPage!Dispatched
    <3>2. CASE notices' = NoticesPage!Cancelled(n)
      <4>. DEFINE taken == [notices[n] EXCEPT !.status = "cancelled"]
      <4>1. taken \in Rows /\ taken.deliveries = 0
        BY <2>1 DEF NoticesPage!Statuses
      <4>2. notices' = [notices EXCEPT ![n] = taken]
        BY <3>2 DEF NoticesPage!Cancelled
      <4>3. taken.deliveries > 0 => taken.status = "sent"
        BY <4>1
      <4>. HIDE DEF taken, Rows
      <4>. QED
        BY <4>1, <4>2, <4>3
    <3>. QED
      BY <1>4, <3>1, <3>2
  <2>3. notices' = NoticesPage!Dispatched(n) => SentIn(notices', n, audience)
    BY <1>1, <1>4 DEF NoticesPage!Dispatched, SentIn
  <2>. QED
    BY <2>1, <2>2, <2>3, RowChanges
<1>5. ASSUME NEW n \in Notices, NoticesPage!Elsewhere(n) PROVE NoticesPageInv'
  <2>1. AnswersTellASend' /\ BannerInv'
    BY <1>4, <1>5, SayingStays DEF NoticesPage!Elsewhere
  <2>. QED
    BY <1>1, <1>4, <1>5, <2>1 DEF NoticesPage!Elsewhere, NoticesPageInv, NoticesPage!TypeOK
<1>6. ASSUME NEW c \in Clicks, NoticesPage!Save(c) \/
               \E n \in Notices, a \in {"dispatch", "cancel"} : NoticesPage!Press(c, n, a)
      PROVE  NoticesPageInv'
  <2>1. UNCHANGED <<notices, audience, noticesListed, noticeForm, banner>>
    BY <1>6 DEF NoticesPage!Save, NoticesPage!Press
  <2>2. \E x \in NoticeCalls :
          /\ noticeCall' = [noticeCall EXCEPT ![c] = x] /\ x.answer = "awaited"
          /\ x.action = "create" => x.kind \in NoticesPage!Open
          /\ x.action \in {"dispatch", "cancel"} => x.notice \in Notices
    <3>1. CASE NoticesPage!Save(c)
      <4>. DEFINE x == [action |-> "create", kind |-> noticeForm.kind, notice |-> 0,
                        answer |-> "awaited", count |-> 0]
      <4>1. x \in NoticeCalls /\ noticeForm.kind \in NoticesPage!Open
        BY <1>1, <3>1 DEF NoticeCalls, NoticesPage!Save, NoticesPage!Kinds
      <4>2. noticeCall' = [noticeCall EXCEPT ![c] = x]
        BY <3>1 DEF NoticesPage!Save, NoticesPage!Asked
      <4>. QED
        BY <4>1, <4>2
    <3>2. ASSUME NEW n \in Notices, NEW a \in {"dispatch", "cancel"}, NoticesPage!Press(c, n, a)
          PROVE  <2>2
      <4>. DEFINE x == [action |-> a, kind |-> "empty", notice |-> n, answer |-> "awaited",
                        count |-> 0]
      <4>1. x \in NoticeCalls
        BY <1>1 DEF NoticeCalls, NoticesPage!Kinds
      <4>2. noticeCall' = [noticeCall EXCEPT ![c] = x]
        BY <3>2 DEF NoticesPage!Press, NoticesPage!Asked
      <4>. QED
        BY <4>1, <4>2
    <3>. QED
      BY <1>6, <3>1, <3>2
  <2>3. \A m, k : SentIn(notices, m, k) => SentIn(notices', m, k)
    BY <2>1 DEF SentIn
  <2>4. noticeCall' \in [Clicks -> NoticeCalls] /\ AnswersTellASend'
    BY <2>2, <2>3, CallChanges
  <2>. QED
    BY <1>1, <2>1, <2>4 DEF NoticesPageInv, NoticesPage!TypeOK, SentIsSent, BannerInv, SentIn
<1>7. ASSUME NEW c \in Clicks, NoticesPage!Serve(c) PROVE NoticesPageInv'
  <2>. DEFINE n == noticeCall[c].notice
              said(answer, k) == [noticeCall[c] EXCEPT !.answer = answer, !.count = k]
  <2>1. UNCHANGED <<audience, noticesListed, noticeForm, banner>> /\ noticeCall[c] \in NoticeCalls
    BY <1>1, <1>7 DEF NoticesPage!Serve
  <2>2. ASSUME NEW answer \in {"ok", "refused"}, NEW k \in 0..MaxAudience,
               NoticesPage!Answered(c, answer, k)
        PROVE  /\ said(answer, k) \in NoticeCalls
               /\ noticeCall' = [noticeCall EXCEPT ![c] = said(answer, k)]
               /\ said(answer, k).answer = answer /\ said(answer, k).count = k
               /\ said(answer, k).action = noticeCall[c].action
               /\ said(answer, k).kind = noticeCall[c].kind
               /\ said(answer, k).notice = n
    BY <1>1, <2>1, <2>2 DEF NoticesPage!Answered, NoticeCalls
  <2>3. /\ notices' \in [Notices -> Rows] /\ SentIsSent'
        /\ \A m, k : SentIn(notices, m, k) => SentIn(notices', m, k)
        /\ \E answer \in {"ok", "refused"}, k \in 0..MaxAudience :
             /\ NoticesPage!Answered(c, answer, k)
             /\ noticeCall[c].action = "dispatch" /\ answer = "ok" => SentIn(notices', n, k)
    <3>1. ASSUME UNCHANGED notices PROVE /\ notices' \in [Notices -> Rows] /\ SentIsSent'
                                         /\ \A m, k : SentIn(notices, m, k) => SentIn(notices', m, k)
      BY <1>1, <3>1 DEF SentIsSent, SentIn
    <3>2. CASE NoticesPage!ServeCreate(c)
      <4>1. noticeCall[c].action # "dispatch" /\ 0 \in 0..MaxAudience
        BY <1>1, <3>2 DEF NoticesPage!ServeCreate
      <4>2. CASE NoticesPage!Answered(c, "refused", 0) /\ UNCHANGED notices
        BY <3>1, <4>1, <4>2
      <4>3. ASSUME NEW m \in Notices, notices[m] = NoticesPage!Unmade,
                   notices' = [notices EXCEPT ![m].status = noticeCall[c].kind],
                   NoticesPage!Answered(c, "ok", 0)
            PROVE  <2>3
        <5>. DEFINE row == [notices[m] EXCEPT !.status = noticeCall[c].kind]
        <5>1. noticeCall[c].kind \in NoticesPage!Open
          BY <1>1, <3>2 DEF NoticesPage!ServeCreate, AnswersTellASend
        <5>2. row \in Rows /\ row.deliveries = 0 /\ notices[m].status # "sent"
          BY <1>1, <4>3, <5>1 DEF NoticesPage!Unmade, NoticesPage!Statuses, NoticesPage!Open
        <5>3. notices' = [notices EXCEPT ![m] = row] /\ (row.deliveries > 0 => row.status = "sent")
          BY <4>3, <5>2
        <5>. HIDE DEF row
        <5>4. /\ notices' \in [Notices -> Rows] /\ SentIsSent'
              /\ \A i, k : SentIn(notices, i, k) => SentIn(notices', i, k)
          BY <5>2, <5>3, RowChanges
        <5>. QED
          BY <4>1, <4>3, <5>4
      <4>. QED
        BY <3>2, <4>2, <4>3 DEF NoticesPage!ServeCreate
    <3>3. CASE NoticesPage!ServeDispatch(c)
      <4>1. noticeCall[c].action = "dispatch" /\ n \in Notices
        BY <1>1, <3>3 DEF NoticesPage!ServeDispatch, AnswersTellASend
      <4>2. CASE /\ notices[n].deliveries > 0
                 /\ NoticesPage!Answered(c, "ok", notices[n].deliveries) /\ UNCHANGED notices
        <5>1. notices[n].deliveries \in 0..MaxAudience /\ SentIn(notices', n, notices[n].deliveries)
          BY <1>1, <4>1, <4>2 DEF SentIsSent, SentIn
        <5>. QED
          BY <3>1, <4>2, <5>1
      <4>3. CASE /\ NoticesPage!Pending(n) /\ NoticesPage!Answered(c, "ok", audience)
                 /\ notices' = NoticesPage!Dispatched(n)
        BY <1>1, <1>4, <4>1, <4>3
      <4>4. CASE NoticesPage!Answered(c, "refused", 0) /\ UNCHANGED notices
        BY <1>1, <3>1, <4>4
      <4>. QED
        BY <3>3, <4>1, <4>2, <4>3, <4>4 DEF NoticesPage!ServeDispatch, NoticesPage!Recorded
    <3>4. CASE NoticesPage!ServeCancel(c)
      <4>1. noticeCall[c].action = "cancel" /\ n \in Notices /\ 0 \in 0..MaxAudience
        BY <1>1, <3>4 DEF NoticesPage!ServeCancel, AnswersTellASend
      <4>2. CASE /\ NoticesPage!Pending(n) /\ NoticesPage!Answered(c, "ok", 0)
                 /\ notices' = NoticesPage!Cancelled(n)
        BY <1>4, <4>1, <4>2
      <4>3. CASE NoticesPage!Answered(c, "refused", 0) /\ UNCHANGED notices
        BY <3>1, <4>1, <4>3
      <4>. QED
        BY <3>4, <4>2, <4>3 DEF NoticesPage!ServeCancel
    <3>. QED
      BY <1>7, <3>2, <3>3, <3>4 DEF NoticesPage!Serve
  <2>4. noticeCall' \in [Clicks -> NoticeCalls] /\ AnswersTellASend'
    <3>1. PICK answer \in {"ok", "refused"}, k \in 0..MaxAudience :
             /\ NoticesPage!Answered(c, answer, k)
             /\ noticeCall[c].action = "dispatch" /\ answer = "ok" => SentIn(notices', n, k)
      BY <2>3
    <3>2. /\ noticeCall[c].action = "create" => noticeCall[c].kind \in NoticesPage!Open
          /\ noticeCall[c].action \in {"dispatch", "cancel"} => n \in Notices
      BY <1>1 DEF AnswersTellASend
    <3>. HIDE DEF said
    <3>. DEFINE x == said(answer, k)
    <3>0. /\ x \in NoticeCalls /\ noticeCall' = [noticeCall EXCEPT ![c] = x]
          /\ x.answer = answer /\ x.count = k /\ x.action = noticeCall[c].action
          /\ x.kind = noticeCall[c].kind /\ x.notice = n
      BY <2>2, <3>1
    <3>. HIDE DEF x, n
    <3>3. /\ x \in NoticeCalls /\ noticeCall' = [noticeCall EXCEPT ![c] = x]
          /\ x.action = "create" => x.kind \in NoticesPage!Open
          /\ x.action \in {"dispatch", "cancel"} => x.notice \in Notices
          /\ x.action = "dispatch" /\ x.answer = "ok" => SentIn(notices', x.notice, x.count)
      BY <3>0, <3>1, <3>2
    <3>. QED
      BY <2>3, <3>3, CallChanges
  <2>5. BannerInv'
    BY <1>1, <2>1, <2>3 DEF BannerInv
  <2>. QED
    BY <1>1, <2>1, <2>3, <2>4, <2>5 DEF NoticesPageInv, NoticesPage!TypeOK
<1>8. ASSUME NEW c \in Clicks, NoticesPage!Answer(c) PROVE NoticesPageInv'
  <2>1. UNCHANGED <<notices, audience, noticesListed>> /\ \A m, k : SentIn(notices, m, k) => SentIn(notices', m, k)
    BY <1>8 DEF NoticesPage!Answer, SentIn
  <2>2. NoticesPage!Idle \in NoticeCalls /\ NoticesPage!Idle.action = "none"
    BY <1>1 DEF NoticesPage!Idle, NoticeCalls, NoticesPage!Kinds
  <2>3. noticeCall' \in [Clicks -> NoticeCalls] /\ AnswersTellASend'
    BY <1>8, <2>1, <2>2, CallChanges DEF NoticesPage!Answer
  <2>4. noticeForm' \in [open : BOOLEAN, kind : NoticesPage!Kinds]
    BY <1>1, <1>8 DEF NoticesPage!Answer, NoticesPage!Kinds
  <2>5. BannerInv'
    <3>1. CASE noticeCall[c].answer = "ok" /\ noticeCall[c].action = "dispatch"
      <4>1. banner' = [notice |-> noticeCall[c].notice, count |-> noticeCall[c].count]
        BY <1>8, <3>1 DEF NoticesPage!Answer
      <4>2. /\ noticeCall[c].notice \in Notices /\ noticeCall[c].count \in 0..MaxAudience
            /\ SentIn(notices, noticeCall[c].notice, noticeCall[c].count)
        BY <1>1, <3>1 DEF AnswersTellASend, NoticeCalls
      <4>. QED
        BY <2>1, <4>1, <4>2 DEF BannerInv
    <3>2. CASE ~(noticeCall[c].answer = "ok" /\ noticeCall[c].action = "dispatch")
      <4>1. banner' = banner
        BY <1>8, <3>2 DEF NoticesPage!Answer
      <4>. QED
        BY <1>1, <2>1, <4>1 DEF BannerInv
    <3>. QED
      BY <3>1, <3>2
  <2>. QED
    BY <1>1, <2>1, <2>3, <2>4, <2>5 DEF NoticesPageInv, NoticesPage!TypeOK, SentIsSent
<1>. QED
  BY <1>3, <1>5, <1>6, <1>7, <1>8 DEF NoticesPage!Next

LEMMA NoticesSafe ==
  ASSUME NoticesPage!ConstantsAssumption, NoticesPageInv
  PROVE  NoticesPage!NoticesHold
BY DEF NoticesPageInv, NoticesPage!NoticesHold, NoticesPage!BannerTellsASend, BannerInv, SentIn,
  NoticesPage!CancelledIsSilent, SentIsSent, NoticesPage!TypeOK, NoticesPage!ConstantsAssumption

-----------------------------------------------------------------------------
(* Payments of a form: ConsolePayments.                                    *)

\* There is something to pay, or to review.
Payable(o) == orders[o] \notin {"none", "creating"}

\* What was listed is there, and what was there to be paid does not go back.
ListedIsThere ==
  \A o \in Orders :
    /\ ordersListed[o] # "none" => orders[o] # "none"
    /\ ordersListed[o] \notin {"none", "creating"} => Payable(o)

\* An order is made under a key of the form.
TriesHaveKeys == \A j \in tries : j.at = "create" => j.order \in forms

PaymentsInv ==
  /\ PaymentsPanel!TypeOK /\ PaymentsPanel!BusyWhileTrying /\ PaymentsPanel!OneOrderPerForm
  /\ requestKey \in forms /\ ListedIsThere /\ TriesHaveKeys

LEMMA InitPayments ==
  ASSUME PaymentsPanel!ConstantsAssumption, PaymentsPanel!Init
  PROVE  PaymentsInv
<1>a. [o \in Orders |-> "none"] \in [Orders -> PaymentsPanel!Statuses]
  BY DEF PaymentsPanel!Statuses
<1>b. 0 \in 0..MaxTries
  BY DEF PaymentsPanel!ConstantsAssumption
<1>c. busy \in BOOLEAN
  BY DEF PaymentsPanel!Init
<1>0. /\ orders \in [Orders -> PaymentsPanel!Statuses] /\ ordersListed = orders
      /\ requestKey \in Orders /\ forms = {requestKey}
      /\ captured = {} /\ tries = {} /\ tried = 0 /\ script = "absent"
  BY <1>a DEF PaymentsPanel!Init
<1>1. PaymentsPanel!TypeOK
  BY <1>0, <1>b, <1>c DEF PaymentsPanel!TypeOK
<1>2. PaymentsPanel!Mine = {}
  BY DEF PaymentsPanel!Init, PaymentsPanel!Mine
<1>. QED
  BY <1>1, <1>2 DEF PaymentsInv, PaymentsPanel!Init, PaymentsPanel!BusyWhileTrying,
    PaymentsPanel!OneOrderPerForm, ListedIsThere, TriesHaveKeys

\* What a step does to the tries: those of the panel are none or one, as it is busy or not, and
\* each stays what it was or is as the step has made it.
TriesAreInOrder ==
  /\ tries' \subseteq PaymentsPanel!Tries /\ busy' \in BOOLEAN
  /\ PaymentsPanel!BusyWhileTrying'

\* The rows of the server: of a key of the form, and never back.
RowsGoOn ==
  /\ orders' \in [Orders -> PaymentsPanel!Statuses]
  /\ \A o \in Orders : orders[o] # "none" => orders'[o] # "none"
  /\ \A o \in Orders : Payable(o) => Payable(o)'
  /\ {o \in Orders : orders'[o] # "none"} \subseteq forms'

LEMMA RowsAndTriesKeep ==
  ASSUME PaymentsInv, RowsGoOn, TriesAreInOrder,
         forms \subseteq forms', forms' \subseteq Orders, requestKey' \in forms',
         captured' \subseteq Orders, tried' \in 0..MaxTries,
         script' \in {"absent", "loading", "loaded"}, ordersListed' \in {ordersListed, orders'},
         \A j \in tries' :
           /\ j.at = "create" => j.order \in forms'
           /\ j.at \in {"script", "window", "verify"} => Payable(j.order)'
  PROVE  PaymentsInv'
<1>1. PaymentsPanel!TypeOK'
  BY DEF PaymentsInv, PaymentsPanel!TypeOK, RowsGoOn, TriesAreInOrder
<1>2. ListedIsThere'
  BY DEF PaymentsInv, ListedIsThere, RowsGoOn, Payable
<1>. QED
  BY <1>1, <1>2 DEF PaymentsInv, PaymentsPanel!OneOrderPerForm, RowsGoOn, TriesAreInOrder, Payable,
    TriesHaveKeys

\* A try goes on, or ends.
LEMMA TryMoves ==
  ASSUME PaymentsInv, NEW j \in tries,
         \/ PaymentsPanel!End(j)
         \/ \E at \in {"create", "script", "window", "verify", "reconcile"} :
              PaymentsPanel!Go(j, at)
  PROVE  /\ TriesAreInOrder
         /\ \A i \in tries' : i \in tries \/
              \E at \in {"create", "script", "window", "verify", "reconcile"} :
                PaymentsPanel!Go(j, at) /\ i = [j EXCEPT !.at = at]
<1>1. /\ j \in PaymentsPanel!Tries /\ busy \in BOOLEAN /\ tries \subseteq PaymentsPanel!Tries
      /\ busy <=> PaymentsPanel!Mine # {}
      /\ \A i, k \in PaymentsPanel!Mine : i = k
  BY DEF PaymentsInv, PaymentsPanel!TypeOK, PaymentsPanel!BusyWhileTrying
<1>2. CASE PaymentsPanel!End(j)
  <2>1. tries' = tries \ {j} /\ busy' = IF j.mine THEN FALSE ELSE busy
    BY <1>2 DEF PaymentsPanel!End, PaymentsPanel!NotBusy
  <2>2. PaymentsPanel!Mine' = PaymentsPanel!Mine \ {j}
    BY <2>1 DEF PaymentsPanel!Mine
  <2>3. j \in PaymentsPanel!Mine <=> j.mine
    BY DEF PaymentsPanel!Mine
  <2>4. CASE j.mine
    <3>1. PaymentsPanel!Mine' = {} /\ busy' = FALSE
      BY <1>1, <2>1, <2>2, <2>3, <2>4
    <3>. QED
      BY <1>1, <2>1, <3>1 DEF TriesAreInOrder, PaymentsPanel!BusyWhileTrying
  <2>5. CASE ~j.mine
    <3>1. PaymentsPanel!Mine' = PaymentsPanel!Mine /\ busy' = busy
      BY <1>1, <2>1, <2>2, <2>3, <2>5
    <3>. QED
      BY <1>1, <2>1, <3>1 DEF TriesAreInOrder, PaymentsPanel!BusyWhileTrying, PaymentsInv
  <2>. QED
    BY <2>1, <2>4, <2>5
<1>3. ASSUME NEW at \in {"create", "script", "window", "verify", "reconcile"},
             PaymentsPanel!Go(j, at)
      PROVE  TriesAreInOrder /\ \A i \in tries' : i \in tries \/ i = [j EXCEPT !.at = at]
  <2>. DEFINE k == [j EXCEPT !.at = at]
  <2>1. k \in PaymentsPanel!Tries /\ k.mine = j.mine
    BY <1>1 DEF PaymentsPanel!Tries
  <2>2. tries' = (tries \ {j}) \cup {k} /\ busy' = busy
    BY <1>3 DEF PaymentsPanel!Go
  <2>. HIDE DEF k
  <2>0. tries' \subseteq PaymentsPanel!Tries /\ busy' \in BOOLEAN /\ (busy' <=> busy)
    BY <1>1, <2>1, <2>2
  <2>3. ASSUME j.mine PROVE TriesAreInOrder
    <3>1. PaymentsPanel!Mine = {j}
      BY <1>1, <2>3 DEF PaymentsPanel!Mine
    <3>2. PaymentsPanel!Mine' = {k}
      BY <2>1, <2>2, <2>3, <3>1 DEF PaymentsPanel!Mine
    <3>3. busy /\ busy'
      BY <1>1, <2>0, <3>1
    <3>4. busy' = (PaymentsPanel!Mine' # {})
      BY <2>0, <3>2, <3>3
    <3>5. \A i, l \in PaymentsPanel!Mine' : i = l
      BY <3>2
    <3>6. PaymentsPanel!BusyWhileTrying'
      BY <3>4, <3>5, Zenon DEF PaymentsPanel!BusyWhileTrying
    <3>. QED
      BY <2>0, <3>6 DEF TriesAreInOrder
  <2>4. ASSUME ~j.mine PROVE TriesAreInOrder
    <3>1. PaymentsPanel!Mine' = PaymentsPanel!Mine
      BY <2>1, <2>2, <2>4 DEF PaymentsPanel!Mine
    <3>2. (busy' <=> PaymentsPanel!Mine' # {}) /\ \A i, l \in PaymentsPanel!Mine' : i = l
      BY <1>1, <2>0, <3>1
    <3>3. busy' = (PaymentsPanel!Mine' # {})
      BY <2>0, <3>2
    <3>4. PaymentsPanel!BusyWhileTrying'
      BY <3>2, <3>3, Zenon DEF PaymentsPanel!BusyWhileTrying
    <3>. QED
      BY <2>0, <3>4 DEF TriesAreInOrder
  <2>5. \A i \in tries' : i \in tries \/ i = k
    BY <2>2
  <2>. QED
    BY <2>1, <2>3, <2>4, <2>5 DEF k
<1>. QED
  BY <1>2, <1>3

\* A status the server may give an order next.
LEMMA OrderMoves ==
  ASSUME PaymentsInv, NEW o \in Orders, NEW st \in PaymentsPanel!Statuses,
         st # "none", Payable(o) => st # "creating",
         orders[o] # "none" \/ o \in forms, orders' = [orders EXCEPT ![o] = st],
         UNCHANGED forms
  PROVE  RowsGoOn /\ (st # "creating" => Payable(o)')
BY DEF PaymentsInv, PaymentsPanel!TypeOK, PaymentsPanel!OneOrderPerForm, RowsGoOn, Payable

LEMMA OrdersStay ==
  ASSUME PaymentsInv, UNCHANGED orders, forms \subseteq forms'
  PROVE  RowsGoOn
BY DEF PaymentsInv, PaymentsPanel!TypeOK, PaymentsPanel!OneOrderPerForm, RowsGoOn, Payable

LEMMA SettleMoves ==
  ASSUME PaymentsInv, NEW o \in Orders, PaymentsPanel!Settle(o), UNCHANGED forms
  PROVE  RowsGoOn
<1>1. PICK st \in {"paid", "review"} : orders' = [orders EXCEPT ![o] = st]
  BY DEF PaymentsPanel!Settle
<1>. QED
  BY <1>1, OrderMoves DEF PaymentsPanel!Settle, PaymentsPanel!Statuses

\* No try begins or ends.
LEMMA TriesStay ==
  ASSUME PaymentsInv, UNCHANGED <<tries, busy>>
  PROVE  TriesAreInOrder
BY DEF PaymentsInv, PaymentsPanel!TypeOK, TriesAreInOrder, PaymentsPanel!BusyWhileTrying,
  PaymentsPanel!Mine

\* A try begins, of a panel that has none.
LEMMA BeginKeeps ==
  ASSUME PaymentsPanel!ConstantsAssumption, PaymentsInv, NEW o \in Orders,
         NEW at \in {"create", "script", "reconcile"}, PaymentsPanel!Begin(o, at),
         at = "create" => o \in forms, at = "script" => Payable(o),
         UNCHANGED <<orders, captured, ordersListed, requestKey, forms, script>>
  PROVE  PaymentsInv'
<1>. DEFINE k == [id |-> tried', order |-> o, mine |-> TRUE, at |-> at]
<1>1. /\ tries' = tries \cup {k} /\ tried' \in 1..MaxTries /\ ~busy /\ busy' = TRUE
      /\ tried' \in 0..MaxTries
  BY DEF PaymentsPanel!Begin, PaymentsInv, PaymentsPanel!TypeOK, PaymentsPanel!ConstantsAssumption
<1>2. k \in PaymentsPanel!Tries /\ k.mine /\ k.at = at /\ k.order = o
  BY <1>1 DEF PaymentsPanel!Tries
<1>. HIDE DEF k
<1>3. PaymentsPanel!Mine = {}
  BY <1>1 DEF PaymentsInv, PaymentsPanel!BusyWhileTrying
<1>4. PaymentsPanel!Mine' = {k}
  BY <1>1, <1>2, <1>3 DEF PaymentsPanel!Mine
<1>5. tries' \subseteq PaymentsPanel!Tries
  BY <1>1, <1>2 DEF PaymentsInv, PaymentsPanel!TypeOK
<1>6. TriesAreInOrder
  BY <1>1, <1>4, <1>5 DEF TriesAreInOrder, PaymentsPanel!BusyWhileTrying
<1>7. RowsGoOn
  BY OrdersStay
<1>8. \A j \in tries' :
        /\ j.at = "create" => j.order \in forms'
        /\ j.at \in {"script", "window", "verify"} => Payable(j.order)'
  BY <1>1, <1>2 DEF PaymentsInv, TriesHaveKeys, PaymentsPanel!OneOrderPerForm, Payable
<1>. QED
  BY <1>1, <1>6, <1>7, <1>8, RowsAndTriesKeep DEF PaymentsInv, PaymentsPanel!TypeOK

\* What is payable, and whose key a form has, stays so.
LEMMA TriesStayTrue ==
  ASSUME PaymentsInv, RowsGoOn, forms \subseteq forms'
  PROVE  \A j \in tries :
           /\ j.at = "create" => j.order \in forms'
           /\ j.at \in {"script", "window", "verify"} => Payable(j.order)'
BY DEF PaymentsInv, PaymentsPanel!TypeOK, TriesHaveKeys, PaymentsPanel!OneOrderPerForm, Payable,
  RowsGoOn, PaymentsPanel!Tries

LEMMA PaymentsStep ==
  ASSUME PaymentsPanel!ConstantsAssumption, PaymentsInv, [PaymentsPanel!Next]_PaymentsPanel!vars
  PROVE  PaymentsInv'
<1>1. /\ orders \in [Orders -> PaymentsPanel!Statuses] /\ captured \subseteq Orders
      /\ forms \subseteq Orders /\ requestKey \in forms /\ tried \in 0..MaxTries
      /\ tries \subseteq PaymentsPanel!Tries /\ busy \in BOOLEAN
      /\ script \in {"absent", "loading", "loaded"}
      /\ \A j \in tries : j.order \in Orders
  BY DEF PaymentsInv, PaymentsPanel!TypeOK, PaymentsPanel!Tries
\* The tries and their panel stay as they are.
<1>2. ASSUME UNCHANGED <<tries, busy, tried>>, RowsGoOn, forms \subseteq forms',
             forms' \subseteq Orders, requestKey' \in forms', captured' = captured,
             script' \in {"absent", "loading", "loaded"}, ordersListed' \in {ordersListed, orders'}
      PROVE  PaymentsInv'
  BY <1>1, <1>2, TriesStay, TriesStayTrue, RowsAndTriesKeep
<1>3. ASSUME \/ \E o \in Orders : PaymentsPanel!Edit(o)
             \/ PaymentsPanel!List \/ PaymentsPanel!ScriptLoads
             \/ \E j \in tries : PaymentsPanel!LoadCheckout(j)
             \/ UNCHANGED PaymentsPanel!vars
      PROVE  PaymentsInv'
  <2>1. /\ UNCHANGED <<tries, busy, tried, orders, captured>> /\ forms \subseteq forms'
        /\ forms' \subseteq Orders /\ requestKey' \in forms'
        /\ script' \in {"absent", "loading", "loaded"} /\ ordersListed' \in {ordersListed, orders'}
    BY <1>1, <1>3 DEF PaymentsPanel!Edit, PaymentsPanel!Draw, PaymentsPanel!List,
      PaymentsPanel!ScriptLoads, PaymentsPanel!LoadCheckout, PaymentsPanel!vars
  <2>. QED
    BY <1>2, <2>1, OrdersStay
<1>4. ASSUME NEW o \in Orders, PaymentsPanel!Remount(o) PROVE PaymentsInv'
  <2>1. /\ requestKey' = o /\ forms' = forms \cup {o} /\ busy' = FALSE
        /\ tries' = {[j EXCEPT !.mine = FALSE] : j \in tries}
        /\ UNCHANGED <<orders, captured, ordersListed, tried, script>>
    BY <1>4 DEF PaymentsPanel!Remount, PaymentsPanel!Draw
  <2>2. \A j \in tries : /\ [j EXCEPT !.mine = FALSE] \in PaymentsPanel!Tries
                         /\ [j EXCEPT !.mine = FALSE].mine = FALSE
                         /\ [j EXCEPT !.mine = FALSE].at = j.at
                         /\ [j EXCEPT !.mine = FALSE].order = j.order
    BY <1>1 DEF PaymentsPanel!Tries
  <2>3. /\ tries' \subseteq PaymentsPanel!Tries /\ \A k \in tries' : ~k.mine
        /\ \A k \in tries' : \E j \in tries : k.at = j.at /\ k.order = j.order
    BY <2>1, <2>2
  <2>4. PaymentsPanel!Mine' = {}
    BY <2>3 DEF PaymentsPanel!Mine
  <2>5. TriesAreInOrder
    BY <2>1, <2>3, <2>4 DEF TriesAreInOrder, PaymentsPanel!BusyWhileTrying
  <2>6. RowsGoOn
    BY <2>1, OrdersStay
  <2>7. \A j \in tries' :
          /\ j.at = "create" => j.order \in forms'
          /\ j.at \in {"script", "window", "verify"} => Payable(j.order)'
    BY <2>1, <2>3, <2>6, TriesStayTrue
  <2>. QED
    BY <1>1, <2>1, <2>5, <2>6, <2>7, RowsAndTriesKeep
<1>5. CASE PaymentsPanel!Pay
  <2>1. requestKey \in Orders
    BY <1>1
  <2>. QED
    BY <1>1, <1>5, <2>1, BeginKeeps DEF PaymentsPanel!Pay
<1>6. ASSUME NEW o \in Orders, PaymentsPanel!Resume(o) PROVE PaymentsInv'
  <2>1. Payable(o)
    BY <1>6 DEF PaymentsPanel!Resume, PaymentsInv, ListedIsThere
  <2>. QED
    BY <1>6, <2>1, BeginKeeps DEF PaymentsPanel!Resume
<1>7. ASSUME NEW o \in Orders, PaymentsPanel!Reconcile(o) PROVE PaymentsInv'
  BY <1>7, BeginKeeps DEF PaymentsPanel!Reconcile
<1>8. ASSUME NEW o \in Orders, PaymentsPanel!Webhook(o) PROVE PaymentsInv'
  <2>1. RowsGoOn
    <3>1. CASE PaymentsPanel!Settle(o)
      BY <1>8, <3>1, SettleMoves DEF PaymentsPanel!Webhook
    <3>2. ASSUME NEW st \in {"refunded", "expired"}, orders[o] # "none",
                 orders' = [orders EXCEPT ![o] = st]
          PROVE  RowsGoOn
      BY <1>8, <3>2, OrderMoves DEF PaymentsPanel!Webhook, PaymentsPanel!Statuses
    <3>. QED
      BY <1>8, <3>1, <3>2 DEF PaymentsPanel!Webhook
  <2>. QED
    BY <1>1, <1>2, <1>8, <2>1 DEF PaymentsPanel!Webhook
<1>9. CASE PaymentsPanel!ScriptFails
  <2>1. /\ script' = "absent" /\ tries' = {j \in tries : j.at # "script"}
        /\ busy' = IF \E j \in PaymentsPanel!Mine : j.at = "script" THEN FALSE ELSE busy
        /\ UNCHANGED <<orders, captured, ordersListed, requestKey, forms, tried>>
    BY <1>9 DEF PaymentsPanel!ScriptFails
  <2>2. PaymentsPanel!Mine' = {j \in PaymentsPanel!Mine : j.at # "script"}
    BY <2>1 DEF PaymentsPanel!Mine
  <2>3. (busy <=> PaymentsPanel!Mine # {}) /\ \A i, k \in PaymentsPanel!Mine : i = k
    BY <1>1 DEF PaymentsInv, PaymentsPanel!BusyWhileTrying
  <2>4. TriesAreInOrder
    <3>1. CASE \E j \in PaymentsPanel!Mine : j.at = "script"
      <4>1. PaymentsPanel!Mine' = {} /\ busy' = FALSE
        BY <2>1, <2>2, <2>3, <3>1
      <4>. QED
        BY <1>1, <2>1, <4>1 DEF TriesAreInOrder, PaymentsPanel!BusyWhileTrying
    <3>2. CASE ~ \E j \in PaymentsPanel!Mine : j.at = "script"
      <4>1. PaymentsPanel!Mine' = PaymentsPanel!Mine /\ busy' = busy
        BY <2>1, <2>2, <3>2
      <4>. QED
        BY <1>1, <2>1, <4>1 DEF TriesAreInOrder, PaymentsPanel!BusyWhileTrying, PaymentsInv
    <3>. QED
      BY <3>1, <3>2
  <2>. QED
    BY <1>1, <2>1, <2>4, OrdersStay, TriesStayTrue, RowsAndTriesKeep
<1>10. ASSUME NEW j \in tries,
              \/ PaymentsPanel!Created(j) \/ PaymentsPanel!NotCreated(j)
              \/ PaymentsPanel!OpenWindow(j) \/ PaymentsPanel!Dismiss(j)
              \/ PaymentsPanel!Capture(j) \/ PaymentsPanel!Verified(j)
       PROVE  PaymentsInv'
  <2>. DEFINE Places == {"create", "script", "window", "verify", "reconcile"}
  <2>1. /\ UNCHANGED <<ordersListed, forms, tried, script>> /\ requestKey' = requestKey
        /\ captured' \subseteq Orders
    BY <1>1, <1>10 DEF PaymentsPanel!Created, PaymentsPanel!NotCreated, PaymentsPanel!OpenWindow,
      PaymentsPanel!Dismiss, PaymentsPanel!Capture, PaymentsPanel!Verified, PaymentsPanel!SameKey
  <2>2. RowsGoOn /\ \/ PaymentsPanel!End(j)
                    \/ \E at \in {"script", "window", "verify"} :
                         PaymentsPanel!Go(j, at) /\ Payable(j.order)'
    <3>1. CASE PaymentsPanel!Created(j)
      <4>1. j.order \in forms
        BY <3>1 DEF PaymentsPanel!Created, PaymentsInv, TriesHaveKeys
      <4>2. PICK st \in IF orders[j.order] \in {"none", "creating"} THEN {"creating", "ready"}
                        ELSE {orders[j.order]} :
              /\ orders' = [orders EXCEPT ![j.order] = st]
              /\ IF st = "ready" THEN PaymentsPanel!Go(j, "script") ELSE PaymentsPanel!End(j)
        BY <3>1 DEF PaymentsPanel!Created
      <4>3. st \in PaymentsPanel!Statuses /\ st # "none" /\ (Payable(j.order) => st # "creating")
        BY <1>1, <4>2 DEF PaymentsPanel!Statuses, Payable
      <4>4. RowsGoOn /\ (st # "creating" => Payable(j.order)')
        BY <1>1, <2>1, <4>1, <4>2, <4>3, OrderMoves
      <4>. QED
        BY <4>2, <4>4
    <3>2. CASE PaymentsPanel!NotCreated(j)
      <4>1. j.order \in forms /\ PaymentsPanel!End(j)
        BY <3>2 DEF PaymentsPanel!NotCreated, PaymentsInv, TriesHaveKeys
      <4>2. \/ orders' = orders
            \/ \E st \in {"creating", "ready"} :
                 orders[j.order] = "none" /\ orders' = [orders EXCEPT ![j.order] = st]
        BY <3>2 DEF PaymentsPanel!NotCreated
      <4>3. CASE orders' = orders
        BY <2>1, <4>1, <4>3, OrdersStay
      <4>4. ASSUME NEW st \in {"creating", "ready"}, orders[j.order] = "none",
                   orders' = [orders EXCEPT ![j.order] = st]
            PROVE  RowsGoOn
        BY <1>1, <2>1, <4>1, <4>4, OrderMoves DEF PaymentsPanel!Statuses, Payable
      <4>. QED
        BY <4>1, <4>2, <4>3, <4>4
    <3>3. CASE PaymentsPanel!OpenWindow(j) \/ PaymentsPanel!Capture(j)
      <4>1. /\ orders' = orders /\ j.at \in {"script", "window", "verify"}
            /\ \E at \in {"script", "window", "verify"} : PaymentsPanel!Go(j, at)
        BY <3>3 DEF PaymentsPanel!OpenWindow, PaymentsPanel!Capture
      <4>2. RowsGoOn
        BY <2>1, <4>1, OrdersStay
      <4>3. Payable(j.order)'
        BY <2>1, <4>1, <4>2, TriesStayTrue
      <4>. QED
        BY <4>1, <4>2, <4>3
    <3>4. CASE PaymentsPanel!Dismiss(j)
      BY <2>1, <3>4, OrdersStay DEF PaymentsPanel!Dismiss
    <3>5. CASE PaymentsPanel!Verified(j)
      BY <1>1, <2>1, <3>5, OrdersStay, SettleMoves DEF PaymentsPanel!Verified
    <3>. QED
      BY <1>10, <3>1, <3>2, <3>3, <3>4, <3>5
  <2>3. TriesAreInOrder
    BY <2>2, TryMoves
  <2>4. \A i \in tries' :
          /\ i.at = "create" => i.order \in forms'
          /\ i.at \in {"script", "window", "verify"} => Payable(i.order)'
    <3>1. CASE PaymentsPanel!End(j)
      BY <2>1, <2>2, <3>1, TriesStayTrue DEF PaymentsPanel!End
    <3>2. ASSUME NEW at \in {"script", "window", "verify"}, PaymentsPanel!Go(j, at),
                 Payable(j.order)'
          PROVE  <2>4
      <4>. DEFINE k == [j EXCEPT !.at = at]
      <4>1. k.at = at /\ k.order = j.order
        BY <1>1 DEF PaymentsPanel!Tries
      <4>2. tries' = (tries \ {j}) \cup {k}
        BY <3>2 DEF PaymentsPanel!Go
      <4>. HIDE DEF k
      <4>. QED
        BY <2>1, <2>2, <3>2, <4>1, <4>2, TriesStayTrue
    <3>. QED
      BY <2>2, <3>1, <3>2
  <2>. QED
    BY <1>1, <2>1, <2>2, <2>3, <2>4, RowsAndTriesKeep
<1>. QED
  BY <1>3, <1>4, <1>5, <1>6, <1>7, <1>8, <1>9, <1>10 DEF PaymentsPanel!Next

LEMMA PaymentsSafe == PaymentsInv => PaymentsPanel!PaymentsPanelHolds
BY DEF PaymentsInv, PaymentsPanel!PaymentsPanelHolds

-----------------------------------------------------------------------------
(* A user's panel: ConsoleUserPanel.                                       *)

\* The server has made the change.
Made(c) == c.answer \in BOOLEAN

\* The panel has one request at most, and its form comes from a detail.
OneIsMine ==
  /\ \A c, d \in changing : c.mine /\ d.mine => c = d
  /\ panel.confirming # None => detail # None

\* What this administrator knows while nobody disturbs: the state of the user, except while
\* the answer of a change is on its way, which is that state.
AloneKnows ==
  /\ \A i \in 1..Len(userAudit) : userAudit[i].meant = userAudit[i].restrict
  /\ reading \in {None, restrictedAt}
  /\ \A c \in changing : Made(c) => c.answer = restrictedAt /\ (c.mine => changing = {c})
  /\ (\A c \in changing : ~Made(c)) =>
       /\ detail \in {None, restrictedAt} /\ panel.confirming \in {None, restrictedAt}
       /\ \A c \in changing : c.answer = None => c.meant = c.restrict

UserPanelInv ==
  /\ UserPanel!TypeOK /\ UserPanel!AuditTellsTheState /\ OneIsMine
  /\ ~disturbed => AloneKnows

LEMMA InitUserPanel ==
  ASSUME UserPanel!ConstantsAssumption, UserPanel!Init PROVE UserPanelInv
<1>1. /\ restrictedAt \in BOOLEAN /\ disturbed \in BOOLEAN /\ restrictedAt = FALSE
      /\ panel \in UserPanel!Panels
  BY DEF UserPanel!Init, UserPanel!Closed, UserPanel!Panels, UserPanel!Known
<1>2. /\ userAudit = <<>> /\ Len(userAudit) = 0 /\ userAudit \in Seq(UserPanel!Entries)
      /\ changing = {} /\ panel.confirming = None /\ detail = None /\ reading = None
      /\ flights = 0
  BY DEF UserPanel!Init, UserPanel!Closed
<1>3. flights \in 0..MaxFlights /\ Len(userAudit) <= MaxAudit
  BY <1>2 DEF UserPanel!ConstantsAssumption
<1>4. UserPanel!AuditTellsTheState
  BY <1>1, <1>2 DEF UserPanel!AuditTellsTheState
<1>5. UserPanel!TypeOK
  BY <1>1, <1>2, <1>3 DEF UserPanel!TypeOK, UserPanel!Known
<1>6. OneIsMine /\ AloneKnows
  BY <1>1, <1>2 DEF OneIsMine, AloneKnows
<1>. QED
  BY <1>4, <1>5, <1>6 DEF UserPanelInv

\* A change that is compared with the state turns it, in the log as in the row.
LEMMA SetTurns ==
  ASSUME UserPanel!ConstantsAssumption, UserPanelInv, NEW restrict \in BOOLEAN, NEW meant \in BOOLEAN, NEW exclusive,
         restrict # restrictedAt, UserPanel!Set(restrict, meant, exclusive)
  PROVE  /\ UserPanel!AuditTellsTheState'
         /\ restrictedAt' = restrict
         /\ userAudit' \in Seq(UserPanel!Entries) /\ Len(userAudit') <= MaxAudit
         /\ \/ disturbed'
            \/ /\ ~disturbed /\ exclusive
               /\ (\A i \in 1..Len(userAudit) : userAudit[i].meant = userAudit[i].restrict)
                    /\ meant = restrict
                  => \A i \in 1..Len(userAudit') : userAudit'[i].meant = userAudit'[i].restrict
<1>. DEFINE e == [restrict |-> restrict, meant |-> meant]
<1>1. /\ userAudit \in Seq(UserPanel!Entries) /\ restrictedAt \in BOOLEAN
      /\ disturbed \in BOOLEAN /\ Len(userAudit) \in Nat
  BY DEF UserPanelInv, UserPanel!TypeOK
<1>2. /\ userAudit' = Append(userAudit, e) /\ restrictedAt' = restrict
      /\ Len(userAudit) < MaxAudit
  BY DEF UserPanel!Set
<1>3. e \in UserPanel!Entries /\ e.restrict = restrict /\ e.meant = meant
  BY DEF UserPanel!Entries
<1>. HIDE DEF e
<1>4. /\ userAudit' \in Seq(UserPanel!Entries) /\ Len(userAudit') = Len(userAudit) + 1
      /\ userAudit'[Len(userAudit) + 1] = e
      /\ \A i \in 1..Len(userAudit) : userAudit'[i] = userAudit[i]
  BY <1>1, <1>2, <1>3
<1>5. Len(userAudit') <= MaxAudit
  BY <1>1, <1>2, <1>4 DEF UserPanel!ConstantsAssumption
<1>6. \A i \in 1..Len(userAudit') : i \in 1..Len(userAudit) \/ i = Len(userAudit) + 1
  BY <1>1, <1>4
<1>7. UserPanel!AuditTellsTheState'
  <2>1. /\ \A i \in 1..Len(userAudit) : userAudit[i].restrict <=> i % 2 = 1
        /\ restrictedAt <=> Len(userAudit) % 2 = 1
    BY DEF UserPanelInv, UserPanel!AuditTellsTheState
  <2>2. restrict <=> (Len(userAudit) + 1) % 2 = 1
    <3>1. restrict <=> ~restrictedAt
      BY <1>1
    <3>2. (Len(userAudit) + 1) % 2 = 1 <=> ~ (Len(userAudit) % 2 = 1)
      BY <1>1
    <3>. QED
      BY <2>1, <3>1, <3>2
  <2>3. \A i \in 1..Len(userAudit') : userAudit'[i].restrict <=> i % 2 = 1
    BY <1>3, <1>4, <1>6, <2>1, <2>2
  <2>4. restrictedAt' <=> Len(userAudit') % 2 = 1
    BY <1>2, <1>4, <2>2
  <2>5. /\ \A i \in 1..Len(userAudit') : userAudit'[i].restrict \in BOOLEAN
        /\ restrictedAt' \in BOOLEAN
    <3>1. \A i \in 1..Len(userAudit') : userAudit'[i] \in UserPanel!Entries
      BY <1>4
    <3>2. \A x \in UserPanel!Entries : x.restrict \in BOOLEAN
      BY DEF UserPanel!Entries
    <3>. QED
      BY <1>2, <3>1, <3>2
  <2>6. /\ \A i \in 1..Len(userAudit') : userAudit'[i].restrict = (i % 2 = 1)
        /\ restrictedAt' = (Len(userAudit') % 2 = 1)
    BY <2>3, <2>4, <2>5
  <2>. QED
    BY <2>6, Zenon DEF UserPanel!AuditTellsTheState
<1>8. disturbed' <=> disturbed \/ ~exclusive
  BY <1>1 DEF UserPanel!Set
<1>9. (\A i \in 1..Len(userAudit) : userAudit[i].meant = userAudit[i].restrict)
        /\ meant = restrict
      => \A i \in 1..Len(userAudit') : userAudit'[i].meant = userAudit'[i].restrict
  BY <1>3, <1>4, <1>6
<1>. QED
  BY <1>2, <1>4, <1>5, <1>7, <1>8, <1>9

\* The user stays as it was.
LEMMA RowStays ==
  ASSUME UserPanelInv, UNCHANGED <<restrictedAt, userAudit>>
  PROVE  UserPanel!AuditTellsTheState'
BY DEF UserPanelInv, UserPanel!AuditTellsTheState

LEMMA UserPanelStep ==
  ASSUME UserPanel!ConstantsAssumption, UserPanelInv, [UserPanel!Next]_UserPanel!vars
  PROVE  UserPanelInv'
<1>1. /\ restrictedAt \in BOOLEAN /\ disturbed \in BOOLEAN
      /\ userAudit \in Seq(UserPanel!Entries) /\ Len(userAudit) <= MaxAudit
      /\ detail \in UserPanel!Known /\ reading \in UserPanel!Known
      /\ panel \in UserPanel!Panels /\ changing \subseteq UserPanel!Changes
      /\ flights \in 0..MaxFlights
      /\ UserPanel!AuditTellsTheState /\ OneIsMine
  BY DEF UserPanelInv, UserPanel!TypeOK
<1>2. /\ None \notin BOOLEAN /\ Refused \notin BOOLEAN /\ None # Refused
      /\ \A x \in UserPanel!Known : x = None \/ x \in BOOLEAN
      /\ restrictedAt \in UserPanel!Known /\ None \in UserPanel!Known
  BY <1>1 DEF UserPanel!ConstantsAssumption, UserPanel!Known
<1>3. /\ panel.confirming \in UserPanel!Known /\ panel.open \in BOOLEAN
      /\ \A c \in changing : /\ c.restrict \in BOOLEAN /\ c.meant \in BOOLEAN
                             /\ c.mine \in BOOLEAN
                             /\ c.answer \in UserPanel!Known \cup {Refused}
  BY <1>1 DEF UserPanel!Panels, UserPanel!Changes
\* The user, the requests and their panel stay as they are.
<1>4. ASSUME UNCHANGED <<restrictedAt, userAudit, changing, flights, disturbed>>,
             detail' \in {detail, reading}, detail # None => detail' # None,
             reading' \in {reading, None, restrictedAt},
             panel' \in UserPanel!Panels,
             panel'.confirming \in {panel.confirming, None, detail'}
      PROVE  UserPanelInv'
  <2>1. UserPanel!TypeOK'
    BY <1>1, <1>2, <1>4 DEF UserPanel!TypeOK
  <2>2. OneIsMine'
    BY <1>1, <1>4 DEF OneIsMine
  <2>3. ASSUME AloneKnows PROVE AloneKnows'
    BY <1>4, <2>3 DEF AloneKnows, Made
  <2>. QED
    BY <1>4, <2>1, <2>2, <2>3, RowStays DEF UserPanelInv
<1>5. CASE UserPanel!Open \/ UserPanel!Refetch \/ UserPanel!Read \/ UserPanel!Confirm
           \/ UserPanel!Cancel \/ UNCHANGED UserPanel!vars
  <2>1. /\ UNCHANGED <<restrictedAt, userAudit, changing, flights, disturbed>>
        /\ detail' \in {detail, reading} /\ (detail # None => detail' # None)
        /\ reading' \in {reading, None, restrictedAt}
    BY <1>5 DEF UserPanel!Open, UserPanel!Refetch, UserPanel!Read, UserPanel!Confirm,
      UserPanel!Cancel, UserPanel!vars
  <2>2. /\ panel' \in UserPanel!Panels
        /\ panel'.confirming \in {panel.confirming, None, detail'}
    BY <1>1, <1>2, <1>5 DEF UserPanel!Open, UserPanel!Refetch, UserPanel!Read, UserPanel!Confirm,
      UserPanel!Cancel, UserPanel!vars, UserPanel!Panels, UserPanel!Closed
  <2>. QED
    BY <1>4, <2>1, <2>2
<1>6. CASE UserPanel!Elsewhere
  <2>. DEFINE r == ~restrictedAt
  <2>1. /\ r \in BOOLEAN /\ r # restrictedAt /\ UserPanel!Set(r, r, FALSE)
        /\ UNCHANGED <<detail, reading, panel, changing, flights>>
    BY <1>1, <1>6 DEF UserPanel!Elsewhere
  <2>. HIDE DEF r
  <2>2. /\ UserPanel!AuditTellsTheState' /\ restrictedAt' \in BOOLEAN /\ disturbed'
        /\ userAudit' \in Seq(UserPanel!Entries) /\ Len(userAudit') <= MaxAudit
    BY <2>1, SetTurns
  <2>3. disturbed' \in BOOLEAN
    BY <2>1 DEF UserPanel!Set
  <2>4. UserPanel!TypeOK'
    BY <1>1, <2>1, <2>2, <2>3 DEF UserPanel!TypeOK
  <2>5. OneIsMine'
    BY <1>1, <2>1 DEF OneIsMine
  <2>. QED
    BY <2>2, <2>4, <2>5 DEF UserPanelInv
<1>7. CASE UserPanel!Close
  <2>1. /\ panel' = UserPanel!Closed
        /\ changing' = {[c EXCEPT !.mine = FALSE] : c \in changing}
        /\ UNCHANGED <<restrictedAt, userAudit, detail, reading, flights, disturbed>>
    BY <1>7 DEF UserPanel!Close
  <2>2. panel' \in UserPanel!Panels /\ panel'.confirming = None
    BY <1>2, <2>1 DEF UserPanel!Closed, UserPanel!Panels
  <2>3. \A c \in changing :
          LET d == [c EXCEPT !.mine = FALSE] IN
            /\ d \in UserPanel!Changes /\ d.mine = FALSE /\ d.answer = c.answer
            /\ d.meant = c.meant /\ d.restrict = c.restrict
    BY <1>1 DEF UserPanel!Changes
  <2>4. /\ changing' \subseteq UserPanel!Changes
        /\ \A d \in changing' : d.mine = FALSE
        /\ \A d \in changing' : \E c \in changing :
             d.answer = c.answer /\ d.meant = c.meant /\ d.restrict = c.restrict
        /\ \A c \in changing : \E d \in changing' : d.answer = c.answer
    BY <2>1, <2>3
  <2>5. UserPanel!TypeOK'
    BY <1>1, <2>1, <2>2, <2>4 DEF UserPanel!TypeOK
  <2>6. OneIsMine'
    BY <2>2, <2>4 DEF OneIsMine
  <2>7. ASSUME AloneKnows PROVE AloneKnows'
    <3>1. \A d \in changing' : Made(d) => d.answer = restrictedAt' /\ ~d.mine
      BY <2>1, <2>4, <2>7 DEF AloneKnows, Made
    <3>2. ASSUME \A d \in changing' : ~Made(d)
          PROVE  /\ detail' \in {None, restrictedAt'}
                 /\ \A d \in changing' : d.answer = None => d.meant = d.restrict
      <4>1. \A c \in changing : ~Made(c)
        BY <2>4, <3>2 DEF Made
      <4>. QED
        BY <2>1, <2>4, <2>7, <4>1 DEF AloneKnows
    <3>. QED
      BY <2>1, <2>2, <2>7, <3>1, <3>2 DEF AloneKnows, Made
  <2>. QED
    BY <2>1, <2>5, <2>6, <2>7, RowStays DEF UserPanelInv
<1>8. CASE UserPanel!Submit
  <2>. DEFINE c == [restrict |-> ~detail, meant |-> ~panel.confirming, number |-> flights',
                    mine |-> TRUE, answer |-> None]
  <2>1. /\ changing' = changing \cup {c} /\ flights' = flights + 1 /\ flights < MaxFlights
        /\ panel.confirming # None /\ \A d \in changing : ~d.mine
        /\ UNCHANGED <<restrictedAt, userAudit, detail, reading, panel, disturbed>>
    BY <1>8 DEF UserPanel!Submit
  <2>2. detail \in BOOLEAN /\ panel.confirming \in BOOLEAN
    BY <1>1, <1>2, <1>3, <2>1 DEF OneIsMine
  <2>3. flights' \in 1..MaxFlights /\ flights' \in 0..MaxFlights
    BY <1>1, <2>1 DEF UserPanel!ConstantsAssumption
  <2>4. /\ c \in UserPanel!Changes /\ c.answer = None
        /\ (detail = panel.confirming => c.meant = c.restrict)
    BY <1>2, <2>2, <2>3 DEF UserPanel!Changes
  <2>. HIDE DEF c
  <2>5. UserPanel!TypeOK'
    BY <1>1, <2>1, <2>3, <2>4 DEF UserPanel!TypeOK
  <2>6. OneIsMine'
    BY <1>1, <2>1 DEF OneIsMine
  <2>7. ~Made(c)
    BY <1>2, <2>4 DEF Made
  <2>8. ASSUME AloneKnows PROVE AloneKnows'
    <3>1. \A d \in changing' : Made(d) => d \in changing /\ d.answer = restrictedAt' /\ ~d.mine
      BY <2>1, <2>7, <2>8 DEF AloneKnows
    <3>2. ASSUME \A d \in changing' : ~Made(d)
          PROVE  /\ detail \in {None, restrictedAt} /\ panel.confirming \in {None, restrictedAt}
                 /\ \A d \in changing' : d.answer = None => d.meant = d.restrict
      <4>1. /\ detail \in {None, restrictedAt} /\ panel.confirming \in {None, restrictedAt}
            /\ \A d \in changing : d.answer = None => d.meant = d.restrict
        BY <2>1, <2>8, <3>2 DEF AloneKnows
      <4>2. c.meant = c.restrict
        BY <1>2, <2>2, <2>4, <4>1
      <4>. QED
        BY <2>1, <4>1, <4>2
    <3>. QED
      BY <2>1, <2>8, <3>1, <3>2 DEF AloneKnows, Made
  <2>. QED
    BY <2>1, <2>5, <2>6, <2>8, RowStays DEF UserPanelInv
<1>9. ASSUME NEW c \in changing, UserPanel!Serve(c) PROVE UserPanelInv'
  <2>1. c.answer = None /\ UNCHANGED <<detail, reading, panel, flights>>
    BY <1>9 DEF UserPanel!Serve
  <2>2. ~Made(c)
    BY <1>2, <2>1 DEF Made
  <2>3. CASE UserPanel!Changeable(c.restrict)
    <3>. DEFINE d == [c EXCEPT !.answer = c.restrict]
                alone == reading = None /\ changing = {c}
    <3>1. changing' = (changing \ {c}) \cup {d} /\ UserPanel!Set(c.restrict, c.meant, alone)
      BY <1>9, <2>3 DEF UserPanel!Serve
    <3>2. /\ d \in UserPanel!Changes /\ d.mine = c.mine /\ d.answer = c.restrict
          /\ d.meant = c.meant /\ d.restrict = c.restrict
      BY <1>1, <1>3 DEF UserPanel!Changes, UserPanel!Known
    <3>3. c.restrict # restrictedAt
      BY <2>3 DEF UserPanel!Changeable
    <3>4. disturbed' \in BOOLEAN
      BY <3>1 DEF UserPanel!Set
    <3>. HIDE DEF d, alone
    <3>5. /\ UserPanel!AuditTellsTheState' /\ restrictedAt' = c.restrict
          /\ userAudit' \in Seq(UserPanel!Entries) /\ Len(userAudit') <= MaxAudit
          /\ \/ disturbed'
             \/ /\ ~disturbed /\ alone
                /\ (\A i \in 1..Len(userAudit) : userAudit[i].meant = userAudit[i].restrict)
                     /\ c.meant = c.restrict
                   => \A i \in 1..Len(userAudit') : userAudit'[i].meant = userAudit'[i].restrict
      BY <1>3, <3>1, <3>3, SetTurns
    <3>6. UserPanel!TypeOK'
      BY <1>1, <1>3, <2>1, <3>1, <3>2, <3>4, <3>5 DEF UserPanel!TypeOK
    <3>7. OneIsMine'
      BY <1>1, <2>1, <3>1, <3>2 DEF OneIsMine
    <3>8. ASSUME ~disturbed' PROVE AloneKnows'
      <4>1. /\ AloneKnows /\ reading = None /\ changing = {c}
        BY <3>5, <3>8 DEF UserPanelInv, alone
      <4>2. c.meant = c.restrict
        BY <2>1, <2>2, <4>1 DEF AloneKnows
      <4>3. changing' = {d} /\ reading' = None /\ d.answer = restrictedAt' /\ Made(d)
        BY <1>3, <2>1, <3>1, <3>2, <3>5, <4>1 DEF Made
      <4>4. \A i \in 1..Len(userAudit') : userAudit'[i].meant = userAudit'[i].restrict
        BY <3>5, <3>8, <4>1, <4>2 DEF AloneKnows
      <4>. QED
        BY <4>3, <4>4 DEF AloneKnows, Made
    <3>. QED
      BY <3>5, <3>6, <3>7, <3>8 DEF UserPanelInv
  <2>4. CASE ~UserPanel!Changeable(c.restrict)
    <3>. DEFINE d == [c EXCEPT !.answer = Refused]
    <3>1. changing' = (changing \ {c}) \cup {d} /\ UNCHANGED <<restrictedAt, userAudit, disturbed>>
      BY <1>9, <2>4 DEF UserPanel!Serve
    <3>2. d \in UserPanel!Changes /\ d.mine = c.mine /\ d.answer = Refused
      BY <1>1 DEF UserPanel!Changes
    <3>. HIDE DEF d
    <3>3. UserPanel!TypeOK'
      BY <1>1, <2>1, <3>1, <3>2 DEF UserPanel!TypeOK
    <3>4. OneIsMine'
      BY <1>1, <2>1, <3>1, <3>2 DEF OneIsMine
    <3>5. ~Made(d) /\ d.answer # None
      BY <1>2, <3>2 DEF Made
    <3>6. ASSUME AloneKnows PROVE AloneKnows'
      <4>1. \A e \in changing' : Made(e) => e \in changing /\ e # c
        BY <3>1, <3>5
      <4>2. \A e \in changing' : Made(e) => e.answer = restrictedAt' /\ ~e.mine
        BY <3>1, <3>6, <4>1 DEF AloneKnows
      <4>3. ASSUME \A e \in changing' : ~Made(e) PROVE \A e \in changing : ~Made(e)
        BY <2>2, <3>1, <4>3
      <4>. QED
        BY <2>1, <3>1, <3>5, <3>6, <4>2, <4>3 DEF AloneKnows, Made
    <3>. QED
      BY <3>1, <3>3, <3>4, <3>6, RowStays DEF UserPanelInv
  <2>. QED
    BY <2>3, <2>4
<1>10. ASSUME NEW c \in changing, UserPanel!Deliver(c) PROVE UserPanelInv'
  <2>1. /\ Made(c) /\ detail' = c.answer /\ changing' = changing \ {c}
        /\ panel' = IF c.mine THEN UserPanel!NotConfirming(panel) ELSE panel
        /\ UNCHANGED <<restrictedAt, userAudit, reading, flights>>
    BY <1>10 DEF UserPanel!Deliver, Made
  <2>2. disturbed' \in BOOLEAN /\ (~disturbed' => ~disturbed /\ c.mine)
    BY <1>1, <1>3, <1>10 DEF UserPanel!Deliver
  <2>3. panel' \in UserPanel!Panels /\ (c.mine => panel'.confirming = None)
    BY <1>1, <1>2, <1>3, <2>1 DEF UserPanel!NotConfirming, UserPanel!Panels
  <2>4. detail' \in UserPanel!Known /\ detail' # None
    BY <1>2, <2>1 DEF Made, UserPanel!Known
  <2>5. UserPanel!TypeOK'
    BY <1>1, <2>1, <2>2, <2>3, <2>4 DEF UserPanel!TypeOK
  <2>6. OneIsMine'
    BY <1>1, <2>1, <2>4 DEF OneIsMine
  <2>7. ASSUME ~disturbed' PROVE AloneKnows'
    <3>1. AloneKnows /\ c.mine
      BY <2>2, <2>7 DEF UserPanelInv
    <3>2. changing' = {} /\ detail' = restrictedAt'
      BY <2>1, <3>1 DEF AloneKnows
    <3>. QED
      BY <2>1, <2>3, <3>1, <3>2 DEF AloneKnows
  <2>. QED
    BY <2>1, <2>5, <2>6, <2>7, RowStays DEF UserPanelInv
<1>11. ASSUME NEW c \in changing, UserPanel!Error(c) PROVE UserPanelInv'
  <2>1. /\ c.answer # None /\ changing' = changing \ {c}
        /\ UNCHANGED <<restrictedAt, userAudit, detail, reading, panel, flights>>
    BY <1>11 DEF UserPanel!Error
  <2>2. disturbed' \in BOOLEAN /\ (~disturbed' => ~disturbed /\ c.answer = Refused)
    BY <1>1, <1>11 DEF UserPanel!Error
  <2>3. UserPanel!TypeOK' /\ OneIsMine'
    BY <1>1, <2>1, <2>2 DEF UserPanel!TypeOK, OneIsMine
  <2>4. ASSUME ~disturbed' PROVE AloneKnows'
    <3>1. AloneKnows /\ ~Made(c)
      BY <1>2, <2>2, <2>4 DEF UserPanelInv, Made
    <3>2. ASSUME \A e \in changing' : ~Made(e) PROVE \A e \in changing : ~Made(e)
      BY <2>1, <3>1, <3>2
    <3>3. \A e \in changing' : Made(e) => e.answer = restrictedAt' /\ ~e.mine
      BY <2>1, <3>1 DEF AloneKnows
    <3>. QED
      BY <2>1, <3>1, <3>2, <3>3 DEF AloneKnows, Made
  <2>. QED
    BY <2>1, <2>3, <2>4, RowStays DEF UserPanelInv
<1>. QED
  BY <1>5, <1>6, <1>7, <1>8, <1>9, <1>10, <1>11 DEF UserPanel!Next

LEMMA UserPanelSafe == UserPanelInv => UserPanel!UserPanelHolds
<1>. SUFFICES ASSUME UserPanelInv PROVE UserPanel!UserPanelHolds
  OBVIOUS
<1>1. UserPanel!AloneIsRight
  BY DEF UserPanelInv, AloneKnows, UserPanel!AloneIsRight
<1>. QED
  BY <1>1 DEF UserPanelInv, UserPanel!UserPanelHolds

-----------------------------------------------------------------------------
(* The reports: ConsoleReports.                                            *)

\* A summary, and a file.
Summaries == [total : Nat, trend : Nat,
              left : {Reports!Statements, Tail(Reports!Statements), <<>>}]
Files == [range : Reports!Ranges, saved : BOOLEAN, rows : Nat, all : Nat, truncated : BOOLEAN]

\* The trend is at least the total, and what is there for the range is, until it is read.
TrendWillHold ==
  \A r \in Reports!Ranges : reports[r] # None =>
    /\ reports[r].left = <<>> => reports[r].total <= reports[r].trend
    /\ reports[r].left = Tail(Reports!Statements) => reports[r].total <= Reports!Within(r)

ReportsInv ==
  /\ today \in Reports!Days /\ made \in [Reports!Days -> 0..MaxRows] /\ range \in Reports!Ranges
  /\ reports \in [Reports!Ranges -> {None} \cup Summaries]
  /\ file \in {None} \cup Files
  /\ TrendWillHold /\ Reports!FileIsWholeOrMarked

LEMMA StatementsAre ==
  /\ Reports!Statements = <<"total", "trend">> /\ Tail(Reports!Statements) = <<"trend">>
  /\ Head(Reports!Statements) = "total" /\ Head(<<"trend">>) = "trend"
  /\ Tail(<<"trend">>) = <<>>
  /\ <<"total", "trend">> # <<"trend">> /\ <<"total", "trend">> # <<>> /\ <<"trend">> # <<>>
BY DEF Reports!Statements

\* Rows are counted, and more of them are not fewer.
LEMMA WithinIsSum ==
  ASSUME Reports!ConstantsAssumption, NEW r \in Reports!Ranges
  PROVE  \E S \in SUBSET Reports!Days :
           /\ IsFiniteSet(S)
           /\ Reports!Within(r) = SumOf(made, S)
           /\ Reports!Within(r)' = SumOf(made', S)
<1>. DEFINE S == {d \in Reports!Days : r.from <= d /\ d <= r.to}
<1>1. IsFiniteSet(S)
  <2>1. IsFiniteSet(Reports!Days)
    BY FS_Interval DEF Reports!Days, Reports!ConstantsAssumption
  <2>. QED
    BY <2>1, FS_Subset
<1>2. Reports!Within(r) = SumOf(made, S)
  BY Zenon DEF Reports!Within, Reports!MapThenSumSet, Reports!MapThenFoldSet, SumOf,
    MapThenSumSet, MapThenFoldSet
<1>3. Reports!Within(r)' = SumOf(made', S)
  BY Zenon DEF Reports!Within, Reports!MapThenSumSet, Reports!MapThenFoldSet, SumOf,
    MapThenSumSet, MapThenFoldSet
<1>. QED
  BY <1>1, <1>2, <1>3

LEMMA WithinGrows ==
  ASSUME Reports!ConstantsAssumption, made \in [Reports!Days -> 0..MaxRows],
         made' \in [Reports!Days -> 0..MaxRows],
         \A d \in Reports!Days : made[d] <= made'[d],
         NEW r \in Reports!Ranges
  PROVE  /\ Reports!Within(r) \in Nat /\ Reports!Within(r)' \in Nat
         /\ Reports!Within(r) <= Reports!Within(r)'
<1>1. PICK S \in SUBSET Reports!Days :
           /\ IsFiniteSet(S)
           /\ Reports!Within(r) = SumOf(made, S)
           /\ Reports!Within(r)' = SumOf(made', S)
  BY WithinIsSum
<1>2. \A k \in S : made[k] \in Nat /\ made'[k] \in Nat /\ made[k] <= made'[k]
  OBVIOUS
<1>. QED
  BY <1>1, <1>2, SumIsNat, SumOfMore

LEMMA MinOfTwo ==
  ASSUME NEW a \in Nat, NEW b \in Nat
  PROVE  Reports!Min({a, b}) = IF a <= b THEN a ELSE b
BY DEF Reports!Min

LEMMA InitReports ==
  ASSUME Reports!ConstantsAssumption, Reports!Init PROVE ReportsInv
<1>1. 0 \in Reports!Days /\ 0 \in 0..MaxRows
  BY DEF Reports!Days, Reports!ConstantsAssumption
<1>2. /\ today \in Reports!Days /\ made \in [Reports!Days -> 0..MaxRows]
      /\ range \in Reports!Ranges /\ reports \in [Reports!Ranges -> {None} \cup Summaries]
      /\ file = None
  BY <1>1 DEF Reports!Init, Reports!Ranges
<1>3. TrendWillHold
  BY DEF Reports!Init, TrendWillHold
<1>. QED
  BY <1>2, <1>3 DEF ReportsInv, Reports!FileIsWholeOrMarked

LEMMA ReportsStep ==
  ASSUME Reports!ConstantsAssumption, ReportsInv, [Reports!Next]_Reports!vars
  PROVE  ReportsInv'
<1>1. /\ today \in Reports!Days /\ made \in [Reports!Days -> 0..MaxRows]
      /\ range \in Reports!Ranges /\ reports \in [Reports!Ranges -> {None} \cup Summaries]
      /\ file \in {None} \cup Files /\ TrendWillHold /\ Reports!FileIsWholeOrMarked
  BY DEF ReportsInv
<1>2. None \notin Summaries /\ None \notin Files
  BY DEF Reports!ConstantsAssumption, Summaries, Files, Reports!Statements
<1>3. CASE Reports!Subscribe
  <2>1. /\ made[today] < MaxRows /\ made' = [made EXCEPT ![today] = made[today] + 1]
        /\ UNCHANGED <<today, range, reports, file>>
    BY <1>3 DEF Reports!Subscribe
  <2>2. made[today] \in 0..MaxRows /\ made[today] + 1 \in 0..MaxRows
    BY <1>1, <2>1 DEF Reports!ConstantsAssumption
  <2>3. /\ made' \in [Reports!Days -> 0..MaxRows]
        /\ \A d \in Reports!Days : made[d] <= made'[d]
    BY <1>1, <2>1, <2>2
  <2>4. TrendWillHold'
    <3>1. \A r \in Reports!Ranges : /\ Reports!Within(r) \in Nat /\ Reports!Within(r)' \in Nat
                                   /\ Reports!Within(r) <= Reports!Within(r)'
      BY <1>1, <2>3, WithinGrows
    <3>2. \A r \in Reports!Ranges : reports[r] # None => reports[r].total \in Nat
      BY <1>1 DEF Summaries
    <3>. QED
      BY <1>1, <2>1, <3>1, <3>2 DEF TrendWillHold
  <2>. QED
    BY <1>1, <2>1, <2>3, <2>4 DEF ReportsInv, Reports!FileIsWholeOrMarked
\* The rows, and what is told of them, stay.
<1>4. ASSUME UNCHANGED made, today' \in Reports!Days, range' \in Reports!Ranges,
             reports' \in [Reports!Ranges -> {None} \cup Summaries],
             \A r \in Reports!Ranges :
               reports'[r] = reports[r] \/
                 (reports'[r] # None =>
                    /\ reports'[r].left = <<>> => reports'[r].total <= reports'[r].trend
                    /\ reports'[r].left = <<"trend">> => reports'[r].total <= Reports!Within(r)),
             file' \in {None} \cup Files, Reports!FileIsWholeOrMarked'
      PROVE  ReportsInv'
  <2>1. \A r \in Reports!Ranges : Reports!Within(r)' = Reports!Within(r)
    BY <1>4, WithinIsSum
  <2>2. TrendWillHold'
    BY <1>1, <1>4, <2>1, StatementsAre DEF TrendWillHold
  <2>. QED
    BY <1>1, <1>4, <2>2 DEF ReportsInv
<1>5. CASE UNCHANGED Reports!vars \/ Reports!Tick \/ \E r \in Reports!Ranges : Reports!ChooseRange(r)
  <2>1. /\ UNCHANGED <<made, reports, file>> /\ today' \in Reports!Days
        /\ range' \in Reports!Ranges
    BY <1>1, <1>5 DEF Reports!vars, Reports!Tick, Reports!ChooseRange, Reports!Days,
      Reports!ConstantsAssumption
  <2>. QED
    BY <1>1, <1>4, <2>1 DEF Reports!FileIsWholeOrMarked
<1>6. CASE Reports!Ask
  <2>1. Reports!Unread \in Summaries /\ Reports!Unread.left = <<"total", "trend">>
    BY StatementsAre DEF Reports!Unread, Summaries
  <2>2. /\ UNCHANGED <<made, today, range, file>>
        /\ reports' = [reports EXCEPT ![range] = Reports!Unread]
    BY <1>6 DEF Reports!Ask
  <2>3. /\ reports' \in [Reports!Ranges -> {None} \cup Summaries]
        /\ \A r \in Reports!Ranges : reports'[r] = reports[r] \/ reports'[r] = Reports!Unread
    BY <1>1, <2>1, <2>2
  <2>4. \A r \in Reports!Ranges : reports'[r] = reports[r] \/
                 (reports'[r] # None =>
                    /\ reports'[r].left = <<>> => reports'[r].total <= reports'[r].trend
                    /\ reports'[r].left = <<"trend">> => reports'[r].total <= Reports!Within(r))
    BY <2>1, <2>3, StatementsAre
  <2>. QED
    BY <1>1, <1>4, <2>2, <2>3, <2>4 DEF Reports!FileIsWholeOrMarked
<1>7. ASSUME NEW r \in Reports!Ranges, Reports!Read(r) PROVE ReportsInv'
  <2>. DEFINE n == Reports!Within(r)
              old == reports[r]
              new == [old EXCEPT ![Head(old.left)] = n, !.left = Tail(old.left)]
  <2>1. /\ old # None /\ old.left # <<>>
        /\ UNCHANGED <<made, today, range, file>>
        /\ reports' = [reports EXCEPT ![r] = new]
    BY <1>7 DEF Reports!Read
  <2>2. old \in Summaries /\ n \in Nat
    <3>1. \A d \in Reports!Days : made[d] \in Nat
      BY <1>1
    <3>2. n \in Nat
      BY <1>1, <3>1, WithinIsSum, SumIsNat
    <3>. QED
      BY <1>1, <2>1, <3>2
  <2>3. new \in Summaries /\ new.left \in {<<"trend">>, <<>>}
        /\ (new.left = <<"trend">> => new.total <= n)
        /\ (new.left = <<>> => new.total <= new.trend)
    <3>1. CASE old.left = <<"total", "trend">>
      <4>1. Head(old.left) = "total" /\ Tail(old.left) = <<"trend">>
        BY <3>1, StatementsAre
      <4>. HIDE DEF n
      <4>a. new = [old EXCEPT !["total"] = n, !["left"] = <<"trend">>]
        BY <4>1
      <4>. HIDE DEF new
      <4>2. new = [total |-> n, trend |-> old.trend, left |-> <<"trend">>]
        BY <2>2, <4>a DEF Summaries
      <4>. QED
        BY <2>2, <4>2, StatementsAre DEF Summaries
    <3>2. CASE old.left = <<"trend">>
      <4>1. Head(old.left) = "trend" /\ Tail(old.left) = <<>>
        BY <3>2, StatementsAre
      <4>2. old.total <= n
        BY <1>1, <2>1, <3>2, StatementsAre DEF TrendWillHold
      <4>. HIDE DEF n
      <4>a. new = [old EXCEPT !["trend"] = n, !["left"] = <<>>]
        BY <4>1
      <4>. HIDE DEF new
      <4>3. new = [total |-> old.total, trend |-> n, left |-> <<>>]
        BY <2>2, <4>a DEF Summaries
      <4>. QED
        BY <2>2, <4>2, <4>3, StatementsAre DEF Summaries
    <3>. QED
      BY <2>1, <2>2, <3>1, <3>2, StatementsAre DEF Summaries
  <2>. HIDE DEF n, old, new
  <2>4. /\ reports' \in [Reports!Ranges -> {None} \cup Summaries]
        /\ \A s \in Reports!Ranges : reports'[s] = reports[s] \/
                 (reports'[s] # None =>
                    /\ reports'[s].left = <<>> => reports'[s].total <= reports'[s].trend
                    /\ reports'[s].left = <<"trend">> => reports'[s].total <= Reports!Within(s))
    BY <1>1, <2>1, <2>3 DEF n
  <2>. QED
    BY <1>1, <1>4, <2>1, <2>4 DEF Reports!FileIsWholeOrMarked
\* The file: what there was to save, and whether the limit held some back.
<1>8. CASE Reports!Export \/ Reports!ExportFails
  <2>. DEFINE new == [range |-> range, saved |-> FALSE, rows |-> 0, all |-> 0, truncated |-> FALSE]
  <2>3. file' = None \/ file' = new
    BY <1>8 DEF Reports!Export, Reports!ExportFails
  <2>4. new \in Files /\ ~new.saved
    BY <1>1 DEF Files
  <2>. HIDE DEF new
  <2>1. file' \in {None} \cup Files /\ Reports!FileIsWholeOrMarked'
    BY <2>3, <2>4 DEF Reports!FileIsWholeOrMarked
  <2>2. UNCHANGED <<made, today, range, reports>>
    BY <1>8 DEF Reports!Export, Reports!ExportFails
  <2>. QED
    BY <1>1, <1>4, <2>1, <2>2
<1>9. CASE Reports!Save
  <2>. DEFINE all == Reports!Within(file.range)
              n == Reports!Fetched(all)
              new == [file EXCEPT !.saved = TRUE, !.rows = Reports!Min({n, ExportLimit}),
                                  !.all = all, !.truncated = n > ExportLimit]
  <2>1. file # None /\ file' = new /\ UNCHANGED <<made, today, range, reports>>
    BY <1>9 DEF Reports!Save
  <2>2. file \in Files /\ file.range \in Reports!Ranges
    BY <1>1, <2>1 DEF Files
  <2>3. all \in Nat
    <3>1. \A d \in Reports!Days : made[d] \in Nat
      BY <1>1
    <3>. QED
      BY <1>1, <2>2, <3>1, WithinIsSum, SumIsNat
  <2>. HIDE DEF all
  <2>4. ExportLimit \in Nat /\ ExportLimit + 1 \in Nat
    BY DEF Reports!ConstantsAssumption
  <2>5. n = IF all <= ExportLimit + 1 THEN all ELSE ExportLimit + 1
    BY <2>3, <2>4, MinOfTwo DEF Reports!Fetched
  <2>. HIDE DEF n
  <2>6. n \in Nat
    BY <2>3, <2>4, <2>5
  <2>7. Reports!Min({n, ExportLimit}) = IF n <= ExportLimit THEN n ELSE ExportLimit
    BY <2>4, <2>6, MinOfTwo
  <2>. DEFINE m == Reports!Min({n, ExportLimit})
  <2>10. m \in Nat
    BY <2>4, <2>6, <2>7
  <2>. DEFINE more == n > ExportLimit
  <2>12. more \in BOOLEAN
    OBVIOUS
  <2>14. new = [file EXCEPT !.saved = TRUE, !.rows = m, !.all = all, !.truncated = more]
    OBVIOUS
  <2>. HIDE DEF m, more, new
  <2>11. new = [range |-> file.range, saved |-> TRUE, rows |-> m, all |-> all,
                truncated |-> more]
    BY <2>2, <2>14 DEF Files
  <2>13. new \in Files
    BY <2>2, <2>3, <2>10, <2>11, <2>12 DEF Files
  <2>8. /\ new \in Files /\ new.all = all /\ new.saved = TRUE
        /\ new.rows = (IF n <= ExportLimit THEN n ELSE ExportLimit)
        /\ (new.truncated <=> n > ExportLimit)
    BY <2>7, <2>11, <2>13 DEF m, more
  <2>. HIDE DEF new
  <2>9. Reports!FileIsWholeOrMarked'
    BY <2>1, <2>3, <2>4, <2>5, <2>6, <2>8 DEF Reports!FileIsWholeOrMarked
  <2>. QED
    BY <1>1, <1>4, <2>1, <2>8, <2>9
<1>. QED
  BY <1>3, <1>5, <1>6, <1>7, <1>8, <1>9 DEF Reports!Next

LEMMA ReportsSafe ==
  ASSUME ReportsInv PROVE Reports!TypeOK /\ Reports!ReportsHold
<1>1. Reports!TrendHoldsTheTotal
  BY DEF ReportsInv, TrendWillHold, Reports!TrendHoldsTheTotal
<1>2. Reports!TypeOK
  BY DEF ReportsInv, Reports!TypeOK, Summaries
<1>. QED
  BY <1>1, <1>2 DEF ReportsInv, Reports!ReportsHold

-----------------------------------------------------------------------------
(* The SDK's cache: SdkEntitlements.                                       *)

\* No token is issued for longer than its life.
ExpiresInTime(p) == p.exp <= clock + TTL

ExpiriesAreNear ==
  /\ \A p \in tokens : ExpiresInTime(p)
  /\ \A t \in CachedTenants : cache[t] # None => ExpiresInTime(cache[t])
  /\ \A f \in fetches : f.answer # None => ExpiresInTime(f.answer)

\* What had effect is remembered, or longer ago than the window.
EffectsAreKnown ==
  /\ \A e \in DOMAIN processed : processed[e] \in Sdk!Clock
  /\ \A x \in effects :
       /\ x[2] <= clock
       /\ \/ x[1] \in DOMAIN processed /\ x[2] <= processed[x[1]]
          \/ clock - x[2] > Replay

SdkInv ==
  /\ Sdk!TypeOK /\ Sdk!FreshOnceTold /\ Sdk!EffectOnce /\ Sdk!AdmittedInGrace
  /\ ExpiriesAreNear /\ EffectsAreKnown

LEMMA SdkConstants ==
  ASSUME Sdk!ConstantsAssumption
  PROVE  /\ TTL \in Nat /\ TTL > 0 /\ Grace \in Nat /\ Replay \in Nat /\ Skew \in Nat
         /\ LastEdition \in Nat /\ MaxClock \in Nat /\ None \notin Sdk!Payloads
BY DEF Sdk!ConstantsAssumption

LEMMA SdkTypes ==
  ASSUME Sdk!ConstantsAssumption, Sdk!TypeOK
  PROVE  /\ clock \in Nat /\ clock <= MaxClock /\ admitted \in Int
         /\ \A p \in Sdk!Payloads : /\ p.tenant \in CachedTenants /\ p.edition \in Nat
                                    /\ p.exp \in Nat /\ p.edition \in Sdk!Editions
         /\ \A t \in CachedTenants : cache[t] # None => cache[t] \in Sdk!Payloads
         /\ \A f \in fetches : /\ f.tenant \in CachedTenants
                               /\ f.answer # None => f.answer \in Sdk!Payloads
         /\ \A e \in Sdk!Events : /\ e.tenant \in CachedTenants /\ e.edition \in Sdk!Editions
                                  /\ e.timestamp \in Int
BY SdkConstants DEF Sdk!TypeOK, Sdk!Clock, Sdk!Payloads, Sdk!Editions, Sdk!Events

LEMMA InitSdk ==
  ASSUME Sdk!ConstantsAssumption, Sdk!Init PROVE SdkInv
<1>1. 0 \in Sdk!Clock /\ 0 \in Sdk!Editions /\ -TTL \in -TTL..MaxClock /\ -TTL < Grace
  BY SdkConstants DEF Sdk!Clock, Sdk!Editions
<1>2. issuer \in [CachedTenants -> [edition : Sdk!Editions, status : Sdk!Statuses]]
  BY <1>1 DEF Sdk!Init, Sdk!Statuses
<1>3. DOMAIN processed = {}
  BY DEF Sdk!Init
<1>4. Sdk!TypeOK
  BY <1>1, <1>2, <1>3 DEF Sdk!Init, Sdk!TypeOK
<1>. QED
  BY <1>1, <1>3, <1>4 DEF Sdk!Init, SdkInv, Sdk!FreshOnceTold, Sdk!EffectOnce,
    Sdk!AdmittedInGrace, ExpiriesAreNear, EffectsAreKnown

\* The webhooks stand still.
LEMMA EffectsStay ==
  ASSUME Sdk!ConstantsAssumption, SdkInv, UNCHANGED <<clock, processed, effects>>
  PROVE  EffectsAreKnown' /\ Sdk!EffectOnce'
BY DEF SdkInv, EffectsAreKnown, Sdk!EffectOnce

\* What is fetched, or cached, expires in time.
LEMMA FetchKeeps ==
  ASSUME Sdk!ConstantsAssumption, SdkInv, NEW t \in CachedTenants,
         Sdk!Fetch(t), clock' = clock
  PROVE  /\ fetches' \subseteq [tenant : CachedTenants, answer : Sdk!Payloads \cup {None}]
         /\ \A f \in fetches' : f.answer # None => ExpiresInTime(f.answer)'
<1>. DEFINE new == [tenant |-> t, answer |-> None]
<1>1. fetches' = fetches \cup {new}
  BY DEF Sdk!Fetch
<1>2. new \in [tenant : CachedTenants, answer : Sdk!Payloads \cup {None}] /\ new.answer = None
  OBVIOUS
<1>. HIDE DEF new
<1>. QED
  BY <1>1, <1>2 DEF SdkInv, Sdk!TypeOK, ExpiriesAreNear, ExpiresInTime

\* A payload is cached: it is late, or as new as the events.
LEMMA CachedKeeps ==
  ASSUME Sdk!ConstantsAssumption, SdkInv, NEW p \in Sdk!Payloads, ExpiresInTime(p),
         Sdk!Cached(p), UNCHANGED <<clock, told>>
  PROVE  /\ cache' \in [CachedTenants -> Sdk!Payloads \cup {None}] /\ late' \subseteq CachedTenants
         /\ Sdk!FreshOnceTold'
         /\ (\A t \in CachedTenants : cache[t] # None => ExpiresInTime(cache[t]))'
<1>1. p.tenant \in CachedTenants /\ p.edition \in Nat
  BY SdkTypes DEF SdkInv
<1>2. /\ cache \in [CachedTenants -> Sdk!Payloads \cup {None}] /\ late \subseteq CachedTenants
      /\ told[p.tenant] \in Nat
  BY <1>1, SdkConstants DEF SdkInv, Sdk!TypeOK, Sdk!Editions
<1>3. /\ cache' = [cache EXCEPT ![p.tenant] = p]
      /\ late' = IF p.edition < told[p.tenant] THEN late \cup {p.tenant} ELSE late \ {p.tenant}
  BY DEF Sdk!Cached
<1>4. Sdk!FreshOnceTold'
  BY <1>1, <1>2, <1>3 DEF SdkInv, Sdk!FreshOnceTold
<1>5. (\A t \in CachedTenants : cache[t] # None => ExpiresInTime(cache[t]))'
  BY <1>1, <1>2, <1>3 DEF SdkInv, ExpiriesAreNear, ExpiresInTime
<1>. QED
  BY <1>1, <1>2, <1>3, <1>4, <1>5

\* A webhook.
LEMMA ReceiveKeeps ==
  ASSUME Sdk!ConstantsAssumption, SdkInv, NEW e \in events, Sdk!Receive(e)
  PROVE  SdkInv'
<1>1. /\ e \in Sdk!Events /\ e.tenant \in CachedTenants /\ e.edition \in Sdk!Editions
      /\ e.timestamp \in Int /\ clock \in Nat /\ clock \in Sdk!Clock
      /\ cache \in [CachedTenants -> Sdk!Payloads \cup {None}] /\ late \subseteq CachedTenants
      /\ told \in [CachedTenants -> Sdk!Editions] /\ events \subseteq Sdk!Events
      /\ effects \subseteq events \X Sdk!Clock /\ DOMAIN processed \subseteq events
  BY SdkTypes DEF SdkInv, Sdk!TypeOK
<1>2. /\ UNCHANGED <<clock, issuer, events, tokens, admitted>>
      /\ Sdk!Timely(e)
  BY DEF Sdk!Receive
<1>3. \A x \in DOMAIN processed : processed[x] \in Sdk!Clock /\ processed[x] \in Int
  BY SdkConstants DEF SdkInv, EffectsAreKnown, Sdk!Clock
<1>4. /\ Sdk!Remembered \subseteq DOMAIN processed
      /\ \A x \in DOMAIN processed : x \in Sdk!Remembered <=> ~ (clock - processed[x] > Replay)
  BY DEF Sdk!Remembered, Sdk!Forgotten
\* What is forgotten is longer ago than the window, and so is what it had effect before.
<1>5. \A x \in effects : /\ x[2] \in Int /\ x[2] <= clock
                         /\ \/ x[1] \in Sdk!Remembered /\ x[2] <= processed[x[1]]
                            \/ clock - x[2] > Replay
  <2>1. \A x \in effects : x[2] \in Int
    BY <1>1, SdkConstants DEF Sdk!Clock
  <2>. QED
    BY <1>1, <1>3, <1>4, <2>1, SdkConstants DEF SdkInv, EffectsAreKnown
<1>6. CASE e \in Sdk!Remembered
  <2>1. /\ processed' = [x \in Sdk!Remembered |-> processed[x]]
        /\ UNCHANGED <<cache, fetches, effects, told, late>>
    BY <1>6 DEF Sdk!Receive
  <2>2. Sdk!TypeOK'
    BY <1>1, <1>2, <1>4, <2>1 DEF SdkInv, Sdk!TypeOK
  <2>3. EffectsAreKnown'
    BY <1>2, <1>3, <1>4, <1>5, <2>1 DEF EffectsAreKnown
  <2>. QED
    BY <1>2, <2>1, <2>2, <2>3 DEF SdkInv, Sdk!FreshOnceTold, Sdk!EffectOnce,
      Sdk!AdmittedInGrace, ExpiriesAreNear, ExpiresInTime
<1>7. CASE e \notin Sdk!Remembered
  <2>. DEFINE new == <<e, clock>>
  <2>1. /\ processed' = [x \in Sdk!Remembered \cup {e} |-> IF x = e THEN clock ELSE processed[x]]
        /\ effects' = effects \cup {new}
        /\ cache' = [cache EXCEPT ![e.tenant] = None]
        /\ told' = [told EXCEPT ![e.tenant] =
                      IF e.edition > told[e.tenant] THEN e.edition ELSE told[e.tenant]]
        /\ late' = late \ {e.tenant} /\ Sdk!Fetch(e.tenant)
    BY <1>7 DEF Sdk!Receive, Sdk!Deleted
  <2>2. /\ fetches' \subseteq [tenant : CachedTenants, answer : Sdk!Payloads \cup {None}]
        /\ \A f \in fetches' : f.answer # None => ExpiresInTime(f.answer)'
    BY <1>1, <1>2, <2>1, FetchKeeps
  <2>3. new \in events \X Sdk!Clock /\ new[1] = e /\ new[2] = clock
    BY <1>1
  <2>. HIDE DEF new
  <2>4. DOMAIN processed' = Sdk!Remembered \cup {e}
    BY <2>1
  <2>5. told' \in [CachedTenants -> Sdk!Editions]
    BY <1>1, <2>1
  <2>6. cache' \in [CachedTenants -> Sdk!Payloads \cup {None}] /\ late' \subseteq CachedTenants
    BY <1>1, <2>1
  <2>7. effects' \subseteq events \X Sdk!Clock /\ DOMAIN processed' \subseteq events
    BY <1>1, <1>4, <2>1, <2>3, <2>4
  <2>8. Sdk!TypeOK'
    BY <1>1, <1>2, <2>2, <2>5, <2>6, <2>7 DEF SdkInv, Sdk!TypeOK
  <2>9. Sdk!FreshOnceTold'
    BY <1>1, <2>1 DEF SdkInv, Sdk!FreshOnceTold
  <2>10. EffectsAreKnown'
    <3>1. \A x \in DOMAIN processed' : processed'[x] \in Sdk!Clock
      BY <1>1, <1>3, <1>4, <2>1, <2>4
    <3>2. \A x \in effects : x[1] \in Sdk!Remembered => processed'[x[1]] \in {clock, processed[x[1]]}
      BY <2>1
    <3>3. \A x \in effects :
             \/ x[1] \in DOMAIN processed' /\ x[2] <= processed'[x[1]]
             \/ clock - x[2] > Replay
      BY <1>5, <2>4, <3>2
    <3>4. e \in DOMAIN processed' /\ processed'[e] = clock
      BY <2>1
    <3>5. clock <= clock
      BY <1>1
    <3>6. \A x \in effects' :
            /\ x[2] <= clock'
            /\ \/ x[1] \in DOMAIN processed' /\ x[2] <= processed'[x[1]]
               \/ clock' - x[2] > Replay
      BY <1>2, <1>5, <2>1, <2>3, <3>3, <3>4, <3>5
    <3>. QED
      BY <3>1, <3>6 DEF EffectsAreKnown
  <2>11. Sdk!EffectOnce'
    <3>1. clock - e.timestamp <= Replay
      BY <1>1, <1>2, SdkConstants DEF Sdk!Timely
    <3>2. \A x \in effects : x[1] = e => clock - x[2] > Replay
      BY <1>5, <1>7
    <3>3. \A x \in effects : x[1] = new[1] /\ x[2] < new[2] => x[1].timestamp > x[2]
      BY <1>1, <1>5, <2>3, <3>1, <3>2, SdkConstants
    <3>4. \A y \in effects : ~ (new[2] < y[2])
      BY <1>1, <1>5, <2>3
    <3>5. ~ (new[2] < new[2])
      BY <1>1, <2>3
    <3>. QED
      BY <2>1, <3>3, <3>4, <3>5 DEF SdkInv, Sdk!EffectOnce
  <2>12. ExpiriesAreNear'
    BY <1>1, <1>2, <2>1, <2>2 DEF SdkInv, ExpiriesAreNear, ExpiresInTime
  <2>. QED
    BY <1>2, <2>8, <2>9, <2>10, <2>11, <2>12 DEF SdkInv, Sdk!AdmittedInGrace
<1>. QED
  BY <1>6, <1>7

LEMMA SdkStep ==
  ASSUME Sdk!ConstantsAssumption, SdkInv, [Sdk!Next]_Sdk!vars
  PROVE  SdkInv'
<1>. USE SdkConstants
<1>1. /\ clock \in Sdk!Clock /\ clock \in Nat /\ admitted \in -TTL..MaxClock
      /\ issuer \in [CachedTenants -> [edition : Sdk!Editions, status : Sdk!Statuses]]
      /\ events \subseteq Sdk!Events /\ cache \in [CachedTenants -> Sdk!Payloads \cup {None}]
      /\ fetches \subseteq [tenant : CachedTenants, answer : Sdk!Payloads \cup {None}]
      /\ tokens \subseteq Sdk!Payloads /\ DOMAIN processed \subseteq events
      /\ effects \subseteq events \X Sdk!Clock
      /\ told \in [CachedTenants -> Sdk!Editions] /\ late \subseteq CachedTenants
  BY SdkTypes DEF SdkInv, Sdk!TypeOK
<1>2. CASE UNCHANGED Sdk!vars
  BY <1>2 DEF Sdk!vars, SdkInv, Sdk!TypeOK, Sdk!FreshOnceTold, Sdk!EffectOnce,
    Sdk!AdmittedInGrace, ExpiriesAreNear, ExpiresInTime, EffectsAreKnown
<1>3. ASSUME NEW t \in CachedTenants, Sdk!Change(t) PROVE SdkInv'
  <2>1. PICK s \in Sdk!Statuses, ahead \in 0..Skew :
          /\ issuer' = [issuer EXCEPT ![t] = [edition |-> issuer[t].edition + 1, status |-> s]]
          /\ events' = events \cup {[tenant |-> t, edition |-> issuer[t].edition + 1,
                                     timestamp |-> clock + ahead]}
    BY <1>3 DEF Sdk!Change
  <2>2. /\ issuer[t].edition < LastEdition /\ issuer[t].edition \in Sdk!Editions
        /\ UNCHANGED <<clock, cache, fetches, tokens, processed, effects, told, late, admitted>>
    BY <1>1, <1>3 DEF Sdk!Change
  <2>3. issuer[t].edition + 1 \in Sdk!Editions \ {0}
    BY <2>2 DEF Sdk!Editions
  <2>4. clock + ahead \in 0..(MaxClock + Skew)
    BY <1>1 DEF Sdk!Clock
  <2>5. [tenant |-> t, edition |-> issuer[t].edition + 1, timestamp |-> clock + ahead] \in Sdk!Events
    BY <2>3, <2>4 DEF Sdk!Events
  <2>6. /\ issuer' \in [CachedTenants -> [edition : Sdk!Editions, status : Sdk!Statuses]]
        /\ events' \subseteq Sdk!Events /\ events \subseteq events'
    BY <1>1, <2>1, <2>3, <2>5
  <2>7. Sdk!TypeOK'
    BY <1>1, <2>2, <2>6 DEF Sdk!TypeOK
  <2>. QED
    BY <2>2, <2>7, EffectsStay DEF SdkInv, Sdk!FreshOnceTold, Sdk!AdmittedInGrace,
      ExpiriesAreNear, ExpiresInTime
\* A request looks at the cache, and may fetch.
<1>4. ASSUME NEW t \in CachedTenants, cache' \in {cache, [cache EXCEPT ![t] = None]},
             Sdk!Fetch(t) \/ fetches' = fetches, admitted' \in -TTL..MaxClock, admitted' < Grace,
             UNCHANGED <<clock, issuer, events, tokens, processed, effects, told, late>>
      PROVE  SdkInv'
  <2>1. /\ fetches' \subseteq [tenant : CachedTenants, answer : Sdk!Payloads \cup {None}]
        /\ \A f \in fetches' : f.answer # None => ExpiresInTime(f.answer)'
    BY <1>1, <1>4, FetchKeeps DEF SdkInv, ExpiriesAreNear, ExpiresInTime
  <2>2. /\ cache' \in [CachedTenants -> Sdk!Payloads \cup {None}]
        /\ \A u \in CachedTenants : cache'[u] \in {cache[u], None}
    BY <1>1, <1>4
  <2>3. Sdk!TypeOK'
    BY <1>1, <1>4, <2>1, <2>2 DEF Sdk!TypeOK
  <2>. QED
    BY <1>4, <2>1, <2>2, <2>3, EffectsStay DEF SdkInv, Sdk!FreshOnceTold,
      Sdk!AdmittedInGrace, ExpiriesAreNear, ExpiresInTime
<1>5. ASSUME NEW t \in CachedTenants, Sdk!Authorize(t) PROVE SdkInv'
  <2>1. CASE cache[t] # None /\ Sdk!Serves(cache[t])
    <3>1. /\ cache[t] \in Sdk!Payloads /\ cache[t].exp \in 0..(MaxClock + TTL)
          /\ cache[t].exp <= clock + TTL /\ clock < cache[t].exp + Grace
      BY <1>1, <2>1 DEF SdkInv, ExpiriesAreNear, ExpiresInTime, Sdk!Serves, Sdk!Payloads
    <3>2. clock - cache[t].exp \in -TTL..MaxClock /\ clock - cache[t].exp < Grace
      BY <1>1, <3>1 DEF Sdk!Clock
    <3>3. /\ admitted' \in {clock - cache[t].exp, admitted} /\ cache' = cache
          /\ Sdk!Fetch(t) \/ fetches' = fetches
          /\ UNCHANGED <<clock, issuer, events, tokens, processed, effects, told, late>>
      BY <1>5, <2>1 DEF Sdk!Authorize
    <3>. QED
      BY <1>1, <1>4, <3>2, <3>3 DEF SdkInv, Sdk!AdmittedInGrace
  <2>2. CASE ~ (cache[t] # None /\ Sdk!Serves(cache[t]))
    BY <1>1, <1>4, <1>5, <2>2 DEF Sdk!Authorize, SdkInv, Sdk!AdmittedInGrace
  <2>. QED
    BY <2>1, <2>2
<1>6. ASSUME NEW t \in CachedTenants, Sdk!EnforceLicense(t) PROVE SdkInv'
  BY <1>1, <1>4, <1>6 DEF Sdk!EnforceLicense, SdkInv, Sdk!AdmittedInGrace
<1>7. ASSUME NEW f \in fetches, Sdk!Issue(f) PROVE SdkInv'
  <2>. DEFINE p == [tenant |-> f.tenant, edition |-> issuer[f.tenant].edition,
                    status |-> issuer[f.tenant].status, exp |-> clock + TTL]
              g == [f EXCEPT !.answer = p]
  <2>1. /\ fetches' = (fetches \ {f}) \cup {g} /\ tokens' = tokens \cup {p}
        /\ UNCHANGED <<clock, issuer, events, cache, processed, effects, told, late, admitted>>
    BY <1>7 DEF Sdk!Issue
  <2>2. f.tenant \in CachedTenants /\ clock + TTL \in 0..(MaxClock + TTL)
    BY <1>1 DEF Sdk!Clock
  <2>3. p \in Sdk!Payloads /\ p.exp = clock + TTL
    BY <1>1, <2>2 DEF Sdk!Payloads
  <2>. HIDE DEF p
  <2>4. g \in [tenant : CachedTenants, answer : Sdk!Payloads \cup {None}] /\ g.answer = p
    BY <1>1, <2>3
  <2>. HIDE DEF g
  <2>5. Sdk!TypeOK'
    BY <1>1, <2>1, <2>3, <2>4 DEF Sdk!TypeOK
  <2>6. p.exp <= clock + TTL
    BY <1>1, <2>3
  <2>7. ExpiriesAreNear'
    BY <2>1, <2>4, <2>6 DEF SdkInv, ExpiriesAreNear, ExpiresInTime
  <2>. QED
    BY <2>1, <2>5, <2>7, EffectsStay DEF SdkInv, Sdk!FreshOnceTold, Sdk!AdmittedInGrace
<1>8. ASSUME NEW f \in fetches, Sdk!Arrive(f) PROVE SdkInv'
  <2>1. /\ Sdk!Cached(f.answer) /\ fetches' = fetches \ {f} /\ f.answer # None
        /\ UNCHANGED <<clock, issuer, events, tokens, processed, effects, told, admitted>>
    BY <1>8 DEF Sdk!Arrive
  <2>2. f.answer \in Sdk!Payloads /\ ExpiresInTime(f.answer)
    BY <1>1, <2>1 DEF SdkInv, ExpiriesAreNear
  <2>3. /\ cache' \in [CachedTenants -> Sdk!Payloads \cup {None}] /\ late' \subseteq CachedTenants
        /\ Sdk!FreshOnceTold'
        /\ (\A t \in CachedTenants : cache[t] # None => ExpiresInTime(cache[t]))'
    BY <2>1, <2>2, CachedKeeps
  <2>4. Sdk!TypeOK'
    BY <1>1, <2>1, <2>3 DEF Sdk!TypeOK
  <2>5. ExpiriesAreNear'
    BY <2>1, <2>3 DEF SdkInv, ExpiriesAreNear, ExpiresInTime
  <2>. QED
    BY <2>1, <2>3, <2>4, <2>5, EffectsStay DEF SdkInv, Sdk!AdmittedInGrace
<1>9. ASSUME NEW p \in tokens, Sdk!Present(p) PROVE SdkInv'
  <2>1. /\ Sdk!Cached(p)
        /\ UNCHANGED <<clock, issuer, events, fetches, tokens, processed, effects, told, admitted>>
    BY <1>9 DEF Sdk!Present
  <2>2. p \in Sdk!Payloads /\ ExpiresInTime(p)
    BY <1>1 DEF SdkInv, ExpiriesAreNear
  <2>3. /\ cache' \in [CachedTenants -> Sdk!Payloads \cup {None}] /\ late' \subseteq CachedTenants
        /\ Sdk!FreshOnceTold'
        /\ (\A t \in CachedTenants : cache[t] # None => ExpiresInTime(cache[t]))'
    BY <2>1, <2>2, CachedKeeps
  <2>4. Sdk!TypeOK'
    BY <1>1, <2>1, <2>3 DEF Sdk!TypeOK
  <2>5. ExpiriesAreNear'
    BY <2>1, <2>3 DEF SdkInv, ExpiriesAreNear, ExpiresInTime
  <2>. QED
    BY <2>1, <2>3, <2>4, <2>5, EffectsStay DEF SdkInv, Sdk!AdmittedInGrace
<1>10. ASSUME NEW f \in fetches, Sdk!Lose(f) PROVE SdkInv'
  <2>1. /\ fetches' = fetches \ {f}
        /\ UNCHANGED <<clock, issuer, events, cache, tokens, processed, effects, told, late, admitted>>
    BY <1>10 DEF Sdk!Lose
  <2>2. Sdk!TypeOK'
    BY <1>1, <2>1 DEF Sdk!TypeOK
  <2>. QED
    BY <2>1, <2>2, EffectsStay DEF SdkInv, Sdk!FreshOnceTold, Sdk!AdmittedInGrace,
      ExpiriesAreNear, ExpiresInTime
<1>11. CASE Sdk!Restart
  <2>1. /\ cache' = [t \in CachedTenants |-> None] /\ fetches' = {} /\ DOMAIN processed' = {}
        /\ effects' = {} /\ told' = [t \in CachedTenants |-> 0] /\ late' = {} /\ admitted' = -TTL
        /\ UNCHANGED <<clock, issuer, events, tokens>>
    BY <1>11 DEF Sdk!Restart
  <2>2. 0 \in Sdk!Editions /\ -TTL \in -TTL..MaxClock /\ -TTL < Grace
    BY DEF Sdk!Editions
  <2>3. Sdk!TypeOK'
    BY <1>1, <2>1, <2>2 DEF Sdk!TypeOK
  <2>. QED
    BY <2>1, <2>2, <2>3 DEF SdkInv, Sdk!FreshOnceTold, Sdk!AdmittedInGrace,
      ExpiriesAreNear, ExpiresInTime, EffectsAreKnown, Sdk!EffectOnce
<1>12. CASE Sdk!Tick
  <2>1. /\ clock < MaxClock /\ clock' = clock + 1
        /\ UNCHANGED <<issuer, events, cache, fetches, tokens, processed, effects, told, late,
                       admitted>>
    BY <1>12 DEF Sdk!Tick
  <2>2. clock' \in Sdk!Clock
    BY <1>1, <2>1 DEF Sdk!Clock
  <2>3. Sdk!TypeOK'
    BY <1>1, <2>1, <2>2 DEF Sdk!TypeOK
  <2>4. \A p \in Sdk!Payloads : p.exp \in Int
    BY DEF Sdk!Payloads
  <2>5. ExpiriesAreNear'
    BY <1>1, <2>1, <2>4 DEF SdkInv, ExpiriesAreNear, ExpiresInTime
  <2>6. \A x \in effects : x[2] \in Int
    BY <1>1 DEF Sdk!Clock
  <2>7. EffectsAreKnown'
    BY <1>1, <2>1, <2>6 DEF SdkInv, EffectsAreKnown
  <2>. QED
    BY <2>1, <2>3, <2>5, <2>7 DEF SdkInv, Sdk!FreshOnceTold, Sdk!AdmittedInGrace, Sdk!EffectOnce
<1>. QED
  BY <1>2, <1>3, <1>5, <1>6, <1>7, <1>8, <1>9, <1>10, <1>11, <1>12, ReceiveKeeps DEF Sdk!Next

LEMMA SdkSafe == SdkInv => Sdk!TypeOK /\ Sdk!SdkHolds
BY DEF SdkInv, Sdk!SdkHolds

-----------------------------------------------------------------------------
(* The adapter's subscriptions and tokens: AdapterSubscriptions.           *)

\* The steps of each kind of request.
Fits(s) ==
  /\ s \in Adapter!Served
  /\ s.step = "free" => s = Adapter!Idle
  /\ s.step \in {"find", "insert"} => s.kind = "create"
  /\ s.step = "activate" => s.kind \in {"create", "activate"}
  /\ s.step = "cancel" => s.kind = "cancel"
  /\ s.step = "record" => s.kind # "token"
  /\ s.step = "sign" => s.kind = "token"

\* A request on the status of i, and the status a request gives.
IsOn(s, i) == s.step # "free" /\ s.kind # "token" /\ s.id = i
Given(kind) == IF kind = "cancel" THEN "CANCELLED" ELSE "ACTIVE"

\* A subscription undisturbed has one request at most, which records what it has done; without
\* one, its last event is its status.
Undisturbed(i) == i \notin statusMoved =>
  /\ \A v, w \in Workers : IsOn(serving[v], i) /\ IsOn(serving[w], i) => v = w
  /\ \A w \in Workers : IsOn(serving[w], i) /\ serving[w].step = "record" =>
       subscription[i] = Given(serving[w].kind)
  /\ (\A w \in Workers : ~IsOn(serving[w], i)) =>
       IF trail[i] = "none" THEN subscription[i] \in {None, "PENDING"}
       ELSE subscription[i] = trail[i]

\* Events are of rows, and rows are there before they are recorded.
RowsComeFirst ==
  /\ \A i \in Ids : subscription[i] = None => trail[i] = "none"
  /\ \A w \in Workers : serving[w].step = "record" => subscription[serving[w].id] # None

\* What is active has been until now, and what a token was read of was active then.
ActiveWhenRead ==
  /\ \A i \in Ids : subscription[i] = "ACTIVE" => lastActive[i] = hour
  /\ \A i \in Ids : lastActive[i] <= hour
  /\ \A w \in Workers : serving[w].step = "sign" => serving[w].at <= lastActive[serving[w].id]

TokenIsRead == token # None =>
  /\ token.id \in Ids /\ token.read \in Adapter!Hours /\ token.signed \in Adapter!Hours
  /\ token.read <= lastActive[token.id]
  /\ token.feature = Grants[token.id].enabled
  /\ token.limit = Adapter!TokenLimit(Grants[token.id])

AdapterInv ==
  /\ Adapter!TypeOK /\ \A w \in Workers : Fits(serving[w])
  /\ \A i \in Ids : Undisturbed(i)
  /\ RowsComeFirst /\ ActiveWhenRead /\ TokenIsRead

LEMMA IdleFits ==
  ASSUME Adapter!ConstantsAssumption
  PROVE  Fits(Adapter!Idle) /\ Adapter!Idle.step = "free"
<1>1. (CHOOSE i \in Ids : TRUE) \in Ids
  BY DEF Adapter!ConstantsAssumption
<1>2. 0 \in Adapter!Hours
  BY DEF Adapter!ConstantsAssumption, Adapter!Hours
<1>. QED
  BY <1>1, <1>2 DEF Fits, Adapter!Idle, Adapter!Served, Adapter!Steps

LEMMA InitAdapter ==
  ASSUME Adapter!ConstantsAssumption, Adapter!Init PROVE AdapterInv
<1>1. /\ 0 \in Adapter!Hours /\ -1 <= 0 /\ None \notin Adapter!RowStatuses
  BY DEF Adapter!ConstantsAssumption, Adapter!Hours
<1>2. /\ hour = 0 /\ subscribers = {} /\ subscription = [i \in Ids |-> None]
      /\ trail = [i \in Ids |-> "none"] /\ serving = [w \in Workers |-> Adapter!Idle]
      /\ statusMoved = {} /\ lastActive = [i \in Ids |-> -1] /\ token = None
  BY DEF Adapter!Init
<1>3. \A w \in Workers : Fits(serving[w]) /\ serving[w].step = "free"
  BY <1>2, IdleFits
<1>4. Adapter!TypeOK
  BY <1>1, <1>2, IdleFits DEF Adapter!TypeOK, Fits
<1>5. \A i \in Ids : Undisturbed(i)
  BY <1>2, <1>3 DEF Undisturbed, IsOn
<1>6. RowsComeFirst /\ ActiveWhenRead /\ TokenIsRead
  BY <1>1, <1>2, <1>3 DEF RowsComeFirst, ActiveWhenRead, TokenIsRead, Adapter!RowStatuses
<1>. QED
  BY <1>3, <1>4, <1>5, <1>6 DEF AdapterInv

\* Who is on a subscription.
LEMMA OnIs ==
  ASSUME Adapter!ConstantsAssumption, AdapterInv, NEW i
  PROVE  Adapter!On(i) = {w \in Workers : IsOn(serving[w], i)}
<1>1. \A w \in Workers : Adapter!Free(w) <=> serving[w].step = "free"
  BY IdleFits DEF AdapterInv, Fits, Adapter!Free
<1>. QED
  BY <1>1 DEF Adapter!On, IsOn

\* What a step of a request changes for the others: nothing.
LEMMA WorkerMoves ==
  ASSUME Adapter!ConstantsAssumption, AdapterInv, NEW w \in Workers, NEW s, Fits(s),
         serving' = [serving EXCEPT ![w] = s]
  PROVE  /\ serving' \in [Workers -> Adapter!Served] /\ serving'[w] = s
         /\ \A v \in Workers : Fits(serving'[v])
         /\ \A v \in Workers : v # w => serving'[v] = serving[v]
BY DEF AdapterInv, Adapter!TypeOK, Fits

\* A subscription this request is not on stays undisturbed if it is left alone.
LEMMA OthersStay ==
  ASSUME Adapter!ConstantsAssumption, AdapterInv, NEW w \in Workers, NEW s, Fits(s),
         serving' = [serving EXCEPT ![w] = s],
         NEW i \in Ids, ~IsOn(s, i), ~IsOn(serving[w], i), i \in statusMoved => i \in statusMoved',
         subscription'[i] = subscription[i], trail'[i] = trail[i]
  PROVE  Undisturbed(i)'
<1>1. \A v \in Workers : v # w => serving'[v] = serving[v]
  BY WorkerMoves
<1>2. serving'[w] = s
  BY WorkerMoves
<1>3. \A v \in Workers : IsOn(serving'[v], i) <=> IsOn(serving[v], i)
  BY <1>1, <1>2
<1>4. \A v \in Workers : IsOn(serving[v], i) => serving'[v] = serving[v]
  BY <1>1
<1>. QED
  BY <1>3, <1>4 DEF AdapterInv, Undisturbed

\* No request moves.
LEMMA NoneMoves ==
  ASSUME AdapterInv, UNCHANGED <<serving, statusMoved, subscription, trail>>
  PROVE  /\ \A w \in Workers : Fits(serving'[w])
         /\ \A i \in Ids : Undisturbed(i)'
         /\ RowsComeFirst'
BY DEF AdapterInv, Undisturbed, RowsComeFirst

\* A step of w's request, on its own subscription: the rest is as it was.
LEMMA RequestMoves ==
  ASSUME Adapter!ConstantsAssumption, AdapterInv, NEW w \in Workers, NEW s, Fits(s),
         serving' = [serving EXCEPT ![w] = s],
         s.id = serving[w].id \/ serving[w].step = "free" \/ s.step = "free",
         hour' = hour, token' = token \/ TokenIsRead', subscribers' \subseteq Adapter!Tenants,
         statusMoved' \subseteq Ids,
         NEW k \in Ids, serving[w].step # "free" => k = serving[w].id,
         s.step # "free" => k = s.id,
         \A i \in Ids \ {k} : i \in statusMoved => i \in statusMoved',
         subscription' \in [Ids -> Adapter!RowStatuses \cup {None}],
         trail' \in [Ids -> {"none", "ACTIVE", "CANCELLED"}],
         lastActive' \in [Ids -> Adapter!Hours \cup {-1}],
         \A i \in Ids \ {k} : /\ subscription'[i] = subscription[i] /\ trail'[i] = trail[i]
                              /\ lastActive'[i] = lastActive[i],
         subscription[k] # None => subscription'[k] # None,
         subscription'[k] = None => trail'[k] = "none",
         s.step = "record" => subscription'[k] # None,
         lastActive[k] <= lastActive'[k], lastActive'[k] <= hour,
         subscription'[k] = "ACTIVE" => lastActive'[k] = hour,
         s.step = "sign" => s.at <= lastActive'[k],
         Undisturbed(k)'
  PROVE  AdapterInv'
<1>1. /\ serving' \in [Workers -> Adapter!Served] /\ serving'[w] = s
      /\ \A v \in Workers : Fits(serving'[v])
      /\ \A v \in Workers : v # w => serving'[v] = serving[v]
  BY WorkerMoves
<1>2. Adapter!TypeOK'
  BY <1>1 DEF AdapterInv, Adapter!TypeOK
<1>3. ASSUME NEW i \in Ids, i # k PROVE Undisturbed(i)'
  <2>1. ~IsOn(s, i) /\ ~IsOn(serving[w], i)
    BY <1>3 DEF IsOn
  <2>2. /\ i \in statusMoved => i \in statusMoved'
        /\ subscription'[i] = subscription[i] /\ trail'[i] = trail[i]
    BY <1>3
  <2>. QED
    BY <2>1, <2>2, OthersStay
<1>4. RowsComeFirst'
  <2>1. \A i \in Ids : subscription'[i] = None => trail'[i] = "none"
    BY DEF AdapterInv, RowsComeFirst
  <2>2. \A v \in Workers : serving'[v].step = "record" => subscription'[serving'[v].id] # None
    <3>. SUFFICES ASSUME NEW v \in Workers, serving'[v].step = "record"
                  PROVE  subscription'[serving'[v].id] # None
      OBVIOUS
    <3>1. CASE v = w
      BY <1>1, <3>1
    <3>2. CASE v # w
      <4>1. serving[v].id \in Ids /\ subscription[serving[v].id] # None
        BY <1>1, <3>2 DEF AdapterInv, RowsComeFirst, Fits, Adapter!Served
      <4>. QED
        BY <1>1, <3>2, <4>1
    <3>. QED
      BY <3>1, <3>2
  <2>. QED
    BY <2>1, <2>2 DEF RowsComeFirst
<1>5. \A i \in Ids : /\ lastActive[i] <= lastActive'[i]
                     /\ lastActive[i] \in Int /\ lastActive'[i] \in Int
  BY DEF AdapterInv, Adapter!TypeOK, Adapter!Hours
<1>6. ActiveWhenRead'
  <2>1. \A i \in Ids : /\ subscription'[i] = "ACTIVE" => lastActive'[i] = hour'
                       /\ lastActive'[i] <= hour'
    BY DEF AdapterInv, ActiveWhenRead
  <2>2. \A v \in Workers : serving'[v].step = "sign" => serving'[v].at <= lastActive'[serving'[v].id]
    <3>. SUFFICES ASSUME NEW v \in Workers, serving'[v].step = "sign"
                  PROVE  serving'[v].at <= lastActive'[serving'[v].id]
      OBVIOUS
    <3>1. CASE v = w
      BY <1>1, <3>1
    <3>2. CASE v # w
      <4>1. /\ serving[v].id \in Ids /\ serving[v].at \in Int
            /\ serving[v].at <= lastActive[serving[v].id]
        BY <1>1, <3>2 DEF AdapterInv, ActiveWhenRead, Fits, Adapter!Served, Adapter!Hours
      <4>. QED
        BY <1>1, <1>5, <3>2, <4>1
    <3>. QED
      BY <3>1, <3>2
  <2>. QED
    BY <2>1, <2>2 DEF ActiveWhenRead
<1>7. TokenIsRead'
  <2>1. \A h \in Adapter!Hours : h \in Int
    BY DEF Adapter!Hours
  <2>2. CASE token' = token
    BY <1>5, <2>1, <2>2 DEF AdapterInv, TokenIsRead
  <2>. QED
    BY <2>2
<1>. QED
  BY <1>1, <1>2, <1>3, <1>4, <1>6, <1>7 DEF AdapterInv

\* A request goes on, on its subscription, or leaves it.
LEMMA StaysOn ==
  ASSUME Adapter!ConstantsAssumption, AdapterInv, NEW w \in Workers, NEW s, Fits(s),
         serving' = [serving EXCEPT ![w] = s],
         NEW k \in Ids, IsOn(serving[w], k), IsOn(s, k), statusMoved' = statusMoved,
         s.step = "record" => subscription'[k] = Given(s.kind)
  PROVE  Undisturbed(k)'
<1>1. /\ serving'[w] = s
      /\ \A v \in Workers : v # w => serving'[v] = serving[v]
  BY WorkerMoves
<1>. SUFFICES ASSUME k \notin statusMoved' PROVE Undisturbed(k)'
  BY DEF Undisturbed
<1>2. \A v \in Workers : IsOn(serving[v], k) => v = w
  BY DEF AdapterInv, Undisturbed
<1>3. \A v \in Workers : IsOn(serving'[v], k) <=> v = w
  BY <1>1, <1>2
<1>. QED
  BY <1>1, <1>3 DEF Undisturbed

LEMMA Leaves ==
  ASSUME Adapter!ConstantsAssumption, AdapterInv, NEW w \in Workers,
         serving' = [serving EXCEPT ![w] = Adapter!Idle],
         NEW k \in Ids, IsOn(serving[w], k), statusMoved' = statusMoved,
         k \notin statusMoved =>
           IF trail'[k] = "none" THEN subscription'[k] \in {None, "PENDING"}
           ELSE subscription'[k] = trail'[k]
  PROVE  Undisturbed(k)'
<1>1. /\ serving'[w] = Adapter!Idle
      /\ \A v \in Workers : v # w => serving'[v] = serving[v]
  BY WorkerMoves, IdleFits
<1>. SUFFICES ASSUME k \notin statusMoved' PROVE Undisturbed(k)'
  BY DEF Undisturbed
<1>2. \A v \in Workers : IsOn(serving[v], k) => v = w
  BY DEF AdapterInv, Undisturbed
<1>3. \A v \in Workers : ~IsOn(serving'[v], k)
  BY <1>1, <1>2, IdleFits DEF IsOn
<1>. QED
  BY <1>3 DEF Undisturbed

LEMMA AdapterStep ==
  ASSUME Adapter!ConstantsAssumption, AdapterInv, [Adapter!Next]_Adapter!vars
  PROVE  AdapterInv'
<1>1. /\ hour \in Adapter!Hours /\ hour \in Nat /\ subscribers \subseteq Adapter!Tenants
      /\ subscription \in [Ids -> Adapter!RowStatuses \cup {None}]
      /\ trail \in [Ids -> {"none", "ACTIVE", "CANCELLED"}]
      /\ serving \in [Workers -> Adapter!Served] /\ statusMoved \subseteq Ids
      /\ lastActive \in [Ids -> Adapter!Hours \cup {-1}]
      /\ \A h \in Adapter!Hours : h \in Int
  BY DEF AdapterInv, Adapter!TypeOK, Adapter!Hours
<1>2. /\ None \notin Adapter!RowStatuses
      /\ "ACTIVE" \in Adapter!RowStatuses /\ "PENDING" \in Adapter!RowStatuses
      /\ "CANCELLED" \in Adapter!RowStatuses
      /\ "ACTIVE" # None /\ "PENDING" # None /\ "CANCELLED" # None
  BY DEF Adapter!ConstantsAssumption, Adapter!RowStatuses
<1>3. /\ \A w \in Workers : /\ Fits(serving[w]) /\ serving[w].id \in Ids
                            /\ serving[w] \in Adapter!Served
      /\ \A i \in Ids : lastActive[i] \in Int /\ lastActive[i] <= hour
                        /\ lastActive[i] <= lastActive[i]
      /\ \A i \in Ids : subscription[i] = "ACTIVE" => lastActive[i] = hour
      /\ \A i \in Ids : subscription[i] = None => trail[i] = "none"
      /\ \A i \in Ids : Undisturbed(i)
  <2>1. \A w \in Workers : /\ Fits(serving[w]) /\ serving[w].id \in Ids
                          /\ serving[w] \in Adapter!Served
    BY <1>1 DEF AdapterInv, Adapter!Served
  <2>4. \A h \in Adapter!Hours \cup {-1} : h \in Int
    BY <1>1
  <2>2. \A i \in Ids : lastActive[i] \in Int
    BY <1>1, <2>4
  <2>3. \A i \in Ids : lastActive[i] <= hour /\ (subscription[i] = "ACTIVE" => lastActive[i] = hour)
    BY DEF AdapterInv, ActiveWhenRead
  <2>. QED
    BY <2>1, <2>2, <2>3 DEF AdapterInv, RowsComeFirst
<1>4. CASE UNCHANGED Adapter!vars
  <2>1. /\ UNCHANGED <<hour, subscribers, subscription, trail, serving, statusMoved, lastActive, token>>
    BY <1>4 DEF Adapter!vars
  <2>. QED
    BY <2>1, NoneMoves DEF AdapterInv, Adapter!TypeOK, ActiveWhenRead, TokenIsRead
<1>5. CASE Adapter!Drop
  <2>1. /\ UNCHANGED <<hour, subscribers, subscription, trail, serving, statusMoved, lastActive>>
        /\ token' = None
    BY <1>5 DEF Adapter!Drop
  <2>. QED
    BY <2>1, NoneMoves DEF AdapterInv, Adapter!TypeOK, ActiveWhenRead, TokenIsRead
<1>6. CASE Adapter!Tick
  <2>1. /\ hour < MaxHour /\ hour' = hour + 1
        /\ lastActive' = [i \in Ids |-> IF subscription[i] = "ACTIVE" THEN hour + 1 ELSE lastActive[i]]
        /\ UNCHANGED <<subscribers, subscription, trail, serving, statusMoved, token>>
    BY <1>6 DEF Adapter!Tick
  <2>2. hour' \in Adapter!Hours
    BY <1>1, <2>1 DEF Adapter!Hours, Adapter!ConstantsAssumption
  <2>3. /\ lastActive' \in [Ids -> Adapter!Hours \cup {-1}]
        /\ \A i \in Ids : lastActive'[i] \in Int /\ lastActive[i] <= lastActive'[i]
                          /\ lastActive'[i] <= hour'
                          /\ (subscription'[i] = "ACTIVE" => lastActive'[i] = hour')
    BY <1>1, <1>3, <2>1, <2>2
  <2>4. Adapter!TypeOK'
    BY <1>1, <2>1, <2>2, <2>3 DEF Adapter!TypeOK
  <2>5. ActiveWhenRead'
    <3>1. \A w \in Workers : serving[w].at \in Int
      BY <1>1, <1>3 DEF Adapter!Served
    <3>. QED
      BY <1>3, <2>1, <2>3, <3>1 DEF AdapterInv, ActiveWhenRead
  <2>6. TokenIsRead'
    <3>1. token # None => token.id \in Ids /\ token.read \in Int /\ token.read <= lastActive[token.id]
      BY <1>1 DEF AdapterInv, TokenIsRead
    <3>2. token # None => token.read <= lastActive'[token.id]
      BY <1>3, <2>3, <3>1
    <3>. QED
      BY <2>1, <3>2 DEF AdapterInv, TokenIsRead
  <2>. QED
    BY <2>1, <2>4, <2>5, <2>6, NoneMoves DEF AdapterInv
\* A request that leaves subscriptions and events alone.
<1>7. ASSUME NEW w \in Workers, NEW s, Fits(s), serving' = [serving EXCEPT ![w] = s],
             NEW k \in Ids, serving[w].step # "free" => k = serving[w].id,
             s.step # "free" => k = s.id,
             UNCHANGED <<hour, token, subscription, trail, lastActive>>,
             subscribers' \subseteq Adapter!Tenants, statusMoved' \subseteq Ids,
             \A i \in Ids \ {k} : i \in statusMoved => i \in statusMoved',
             s.step # "record", s.step = "sign" => s.at <= lastActive[k],
             Undisturbed(k)'
      PROVE  AdapterInv'
  <2>1. s.id = serving[w].id \/ serving[w].step = "free" \/ s.step = "free"
    BY <1>7
  <2>. QED
    BY <1>1, <1>3, <1>7, <2>1, RequestMoves
<1>8. ASSUME NEW w \in Workers, NEW i \in Ids, NEW kind \in {"create", "activate", "cancel"},
             Adapter!Request(w, kind, i)
      PROVE  AdapterInv'
  <2>. DEFINE s == [step |-> IF kind = "create" THEN "find" ELSE kind, kind |-> kind, id |-> i,
                    found |-> FALSE, at |-> 0]
  <2>1. /\ Adapter!Free(w) /\ serving' = [serving EXCEPT ![w] = s]
        /\ statusMoved' = IF Adapter!On(i) = {} THEN statusMoved \ {i} ELSE statusMoved \cup {i}
        /\ UNCHANGED <<hour, subscribers, subscription, trail, lastActive, token>>
    BY <1>8 DEF Adapter!Request, Adapter!Begin
  <2>2. 0 \in Adapter!Hours
    BY DEF Adapter!Hours, Adapter!ConstantsAssumption
  <2>3. Fits(s) /\ s.step \in {"find", "activate", "cancel"} /\ s.id = i
    BY <2>2 DEF Fits, Adapter!Served, Adapter!Steps
  <2>. HIDE DEF s
  <2>4. serving[w].step = "free"
    BY <2>1, IdleFits DEF Adapter!Free
  <2>5. Undisturbed(i)'
    <3>. SUFFICES ASSUME i \notin statusMoved' PROVE Undisturbed(i)'
      BY DEF Undisturbed
    <3>1. \A v \in Workers : ~IsOn(serving[v], i)
      BY <2>1, OnIs
    <3>2. /\ serving'[w] = s /\ \A v \in Workers : v # w => serving'[v] = serving[v]
      BY <2>1, <2>3, WorkerMoves
    <3>3. IsOn(serving'[w], i) /\ serving'[w].step # "record"
      BY <2>3, <3>2 DEF IsOn, Fits
    <3>4. \A v \in Workers : IsOn(serving'[v], i) <=> v = w
      BY <3>1, <3>2, <3>3
    <3>. QED
      BY <3>3, <3>4 DEF Undisturbed
  <2>6. statusMoved' \subseteq Ids /\ \A j \in Ids \ {i} : j \in statusMoved => j \in statusMoved'
    BY <1>1, <2>1
  <2>. QED
    BY <1>1, <1>7, <2>1, <2>3, <2>4, <2>5, <2>6
<1>9. ASSUME NEW w \in Workers, Adapter!FindSubscriber(w) \/ Adapter!InsertSubscriber(w)
      PROVE  AdapterInv'
  <2>0. PICK k \in Ids : k = serving[w].id
    BY <1>3
  <2>1. \E f \in BOOLEAN :
          serving' = [serving EXCEPT ![w] = [serving[w] EXCEPT !.step = "insert", !.found = f]]
    <3>1. CASE Adapter!FindSubscriber(w)
      <4>. DEFINE f == TenantOf[serving[w].id] \in subscribers
      <4>1. f \in BOOLEAN
        OBVIOUS
      <4>2. serving' = [serving EXCEPT ![w].step = "insert", ![w].found = f]
        BY <3>1 DEF Adapter!FindSubscriber
      <4>. HIDE DEF f
      <4>. QED
        BY <1>1, <4>1, <4>2
    <3>2. CASE Adapter!InsertSubscriber(w)
      <4>1. /\ serving' = [serving EXCEPT ![w].found = TRUE] /\ serving[w].step = "insert"
            /\ serving[w] \in Adapter!Served
        BY <1>3, <3>2 DEF Adapter!InsertSubscriber, Adapter!At
      <4>2. [serving[w] EXCEPT !.found = TRUE] = [serving[w] EXCEPT !.step = "insert", !.found = TRUE]
        BY <4>1 DEF Adapter!Served
      <4>. QED
        BY <1>1, <4>1, <4>2
    <3>. QED
      BY <1>9, <3>1, <3>2
  <2>2. /\ UNCHANGED <<hour, subscription, trail, lastActive, token, statusMoved>>
        /\ subscribers' \in {subscribers, subscribers \cup {TenantOf[k]}}
        /\ serving[w].step \in {"find", "insert"}
    BY <1>9, <2>0 DEF Adapter!FindSubscriber, Adapter!InsertSubscriber, Adapter!At
  <2>3. subscribers' \subseteq Adapter!Tenants
    BY <1>1, <2>2 DEF Adapter!Tenants
  <2>4. serving[w].kind = "create" /\ serving[w].step \notin {"free", "record", "sign"}
    BY <1>3, <2>2 DEF Fits
  <2>5. PICK s : /\ serving' = [serving EXCEPT ![w] = s] /\ s \in Adapter!Served
                 /\ s.step = "insert" /\ s.kind = "create" /\ s.id = k
    <3>1. PICK f \in BOOLEAN :
            serving' = [serving EXCEPT ![w] = [serving[w] EXCEPT !.step = "insert", !.found = f]]
      BY <2>1
    <3>. DEFINE s == [serving[w] EXCEPT !.step = "insert", !.found = f]
    <3>2. /\ s \in Adapter!Served /\ s.step = "insert" /\ s.id = serving[w].id
          /\ s.kind = serving[w].kind
      BY <1>3 DEF Adapter!Served, Adapter!Steps
    <3>. HIDE DEF s
    <3>. QED
      BY <2>0, <2>4, <3>1, <3>2 DEF s
  <2>6. Fits(s) /\ IsOn(serving[w], k) /\ IsOn(s, k) /\ s.step \notin {"free", "record", "sign"}
    BY <2>0, <2>4, <2>5 DEF Fits, IsOn
  <2>7. Undisturbed(k)'
    BY <2>2, <2>5, <2>6, StaysOn
  <2>. QED
    BY <1>1, <1>7, <2>0, <2>2, <2>3, <2>5, <2>6, <2>7
\* The steps that write the subscription.
<1>10. ASSUME NEW w \in Workers, Adapter!Activate(w) \/ Adapter!Cancel(w) PROVE AdapterInv'
  <2>1. PICK k \in Ids : k = serving[w].id
    BY <1>3
  <2>2. /\ serving[w].step \in {"activate", "cancel"}
        /\ (serving[w].step = "activate" <=> Adapter!Activate(w))
        /\ UNCHANGED <<hour, subscribers, trail, statusMoved, token>>
        /\ serving' = [serving EXCEPT ![w] = [serving[w] EXCEPT !.step = "record"]]
    BY <1>10 DEF Adapter!Activate, Adapter!Cancel, Adapter!At, Adapter!Go, Adapter!AfterUpdate
  <2>3. PICK s : /\ serving' = [serving EXCEPT ![w] = s] /\ Fits(s) /\ s.step = "record"
                 /\ s.id = k /\ s.kind = serving[w].kind /\ s.kind # "token"
                 /\ IsOn(s, k) /\ IsOn(serving[w], k)
    <3>. DEFINE s == [serving[w] EXCEPT !.step = "record"]
    <3>1. serving[w].kind # "token" /\ serving[w] \in Adapter!Served
      BY <1>3, <2>2 DEF Fits
    <3>2. /\ s \in Adapter!Served /\ s.step = "record" /\ s.id = k /\ s.kind = serving[w].kind
      BY <2>1, <3>1 DEF Adapter!Served, Adapter!Steps
    <3>. HIDE DEF s
    <3>3. Fits(s) /\ IsOn(s, k) /\ IsOn(serving[w], k)
      BY <2>1, <2>2, <3>1, <3>2 DEF Fits, IsOn
    <3>. QED
      BY <2>2, <3>1, <3>2, <3>3 DEF s
  <2>4. /\ subscription' = [subscription EXCEPT ![k] = Given(s.kind)]
        /\ lastActive' = (IF Given(s.kind) = "ACTIVE" THEN [lastActive EXCEPT ![k] = hour]
                          ELSE lastActive)
    <3>1. Adapter!Activate(w) => s.kind # "cancel"
      BY <1>3, <2>2, <2>3 DEF Fits
    <3>2. ~Adapter!Activate(w) => s.kind = "cancel" /\ Adapter!Cancel(w)
      BY <1>3, <1>10, <2>2, <2>3 DEF Fits
    <3>. QED
      BY <1>10, <2>1, <3>1, <3>2 DEF Adapter!Activate, Adapter!Cancel, Given
  <2>5. Given(s.kind) \in {"ACTIVE", "CANCELLED"}
    BY DEF Given
  <2>6. /\ subscription' \in [Ids -> Adapter!RowStatuses \cup {None}]
        /\ subscription'[k] = Given(s.kind) /\ subscription'[k] # None
        /\ lastActive' \in [Ids -> Adapter!Hours \cup {-1}]
        /\ lastActive'[k] \in {lastActive[k], hour}
        /\ subscription'[k] = "ACTIVE" => lastActive'[k] = hour
        /\ \A i \in Ids \ {k} : subscription'[i] = subscription[i] /\ lastActive'[i] = lastActive[i]
    BY <1>1, <1>2, <2>4, <2>5
  <2>7. Undisturbed(k)'
    BY <2>2, <2>3, <2>6, StaysOn
  <2>8. lastActive[k] <= lastActive'[k] /\ lastActive'[k] <= hour
    BY <1>1, <1>3, <2>6
  <2>9. /\ hour' = hour /\ token' = token /\ subscribers' \subseteq Adapter!Tenants
        /\ statusMoved' = statusMoved /\ statusMoved' \subseteq Ids /\ trail' = trail
        /\ trail' \in [Ids -> {"none", "ACTIVE", "CANCELLED"}] /\ s.step # "sign"
        /\ \A i \in Ids \ {k} : /\ subscription'[i] = subscription[i] /\ trail'[i] = trail[i]
                               /\ lastActive'[i] = lastActive[i]
    BY <1>1, <2>2, <2>3, <2>6
  <2>10. /\ s.id = serving[w].id \/ serving[w].step = "free" \/ s.step = "free"
         /\ serving[w].step # "free" => k = serving[w].id
         /\ s.step # "free" => k = s.id
         /\ \A i \in Ids \ {k} : i \in statusMoved => i \in statusMoved'
         /\ subscription[k] # None => subscription'[k] # None
         /\ subscription'[k] = None => trail'[k] = "none"
         /\ s.step = "record" => subscription'[k] # None
         /\ s.step = "sign" => s.at <= lastActive'[k]
         /\ token' = token \/ TokenIsRead'
    BY <2>1, <2>3, <2>6, <2>9
  <2>. QED
    BY <2>3, <2>6, <2>7, <2>8, <2>9, <2>10, RequestMoves
<1>11. ASSUME NEW w \in Workers, Adapter!CreateSubscription(w) PROVE AdapterInv'
  <2>1. PICK k \in Ids : k = serving[w].id
    BY <1>3
  <2>2. /\ serving[w].step = "insert" /\ subscription[k] = None
        /\ subscription' = [subscription EXCEPT ![k] = "PENDING"]
        /\ serving' = [serving EXCEPT ![w] =
             IF Adapter!Due(k) THEN [serving[w] EXCEPT !.step = "activate"] ELSE Adapter!Idle]
        /\ UNCHANGED <<hour, subscribers, trail, statusMoved, lastActive, token>>
    BY <1>11, <2>1 DEF Adapter!CreateSubscription, Adapter!At, Adapter!Go
  <2>3. serving[w].kind = "create" /\ serving[w] \in Adapter!Served /\ IsOn(serving[w], k)
    BY <1>3, <2>1, <2>2 DEF Fits, IsOn
  <2>4. /\ subscription' \in [Ids -> Adapter!RowStatuses \cup {None}]
        /\ subscription'[k] = "PENDING" /\ subscription'[k] # None /\ trail'[k] = "none"
        /\ \A i \in Ids \ {k} : subscription'[i] = subscription[i]
    BY <1>1, <1>2, <1>3, <2>2
  <2>5. PICK s : /\ serving' = [serving EXCEPT ![w] = s] /\ Fits(s)
                 /\ s.step \in {"activate", "free"} /\ (s.step # "free" => s.id = k)
                 /\ Undisturbed(k)'
    <3>1. CASE Adapter!Due(k)
      <4>. DEFINE s == [serving[w] EXCEPT !.step = "activate"]
      <4>1. /\ s \in Adapter!Served /\ s.step = "activate" /\ s.id = k /\ s.kind = "create"
        BY <2>1, <2>3 DEF Adapter!Served, Adapter!Steps
      <4>2. serving' = [serving EXCEPT ![w] = s]
        BY <2>2, <3>1
      <4>. HIDE DEF s
      <4>3. Fits(s) /\ IsOn(s, k)
        BY <4>1 DEF Fits, IsOn
      <4>4. Undisturbed(k)'
        BY <2>2, <2>3, <4>1, <4>2, <4>3, StaysOn
      <4>. QED
        BY <4>1, <4>2, <4>3, <4>4
    <3>2. CASE ~Adapter!Due(k)
      <4>1. serving' = [serving EXCEPT ![w] = Adapter!Idle]
        BY <2>2, <3>2
      <4>2. Undisturbed(k)'
        BY <2>2, <2>3, <2>4, <4>1, Leaves
      <4>. QED
        BY <4>1, <4>2, IdleFits
    <3>. QED
      BY <3>1, <3>2
  <2>6. /\ hour' = hour /\ token' = token /\ subscribers' \subseteq Adapter!Tenants
        /\ statusMoved' \subseteq Ids /\ lastActive' \in [Ids -> Adapter!Hours \cup {-1}]
        /\ trail' \in [Ids -> {"none", "ACTIVE", "CANCELLED"}]
        /\ \A i \in Ids \ {k} : /\ subscription'[i] = subscription[i] /\ trail'[i] = trail[i]
                                /\ lastActive'[i] = lastActive[i]
        /\ lastActive[k] <= lastActive'[k] /\ lastActive'[k] <= hour
    BY <1>1, <1>3, <2>2, <2>4
  <2>7. /\ s.id = serving[w].id \/ serving[w].step = "free" \/ s.step = "free"
        /\ serving[w].step # "free" => k = serving[w].id
        /\ s.step # "free" => k = s.id
        /\ \A i \in Ids \ {k} : i \in statusMoved => i \in statusMoved'
        /\ subscription[k] # None => subscription'[k] # None
        /\ subscription'[k] = None => trail'[k] = "none"
        /\ s.step = "record" => subscription'[k] # None
        /\ s.step = "sign" => s.at <= lastActive'[k]
        /\ subscription'[k] = "ACTIVE" => lastActive'[k] = hour
        /\ token' = token \/ TokenIsRead'
    BY <2>1, <2>2, <2>4, <2>5, <2>6
  <2>. QED
    BY <2>4, <2>5, <2>6, <2>7, RequestMoves
\* The steps that end a request.
<1>12. ASSUME NEW w \in Workers,
              Adapter!Record(w) \/ Adapter!Fail(w) \/ Adapter!Sign(w)
       PROVE  AdapterInv'
  <2>. DEFINE s == Adapter!Idle
  <2>0. PICK k \in Ids : k = serving[w].id
    BY <1>3
  <2>1. Fits(s) /\ s.step = "free" /\ ~IsOn(s, k)
    BY IdleFits DEF IsOn
  <2>2. /\ serving' = [serving EXCEPT ![w] = s]
        /\ UNCHANGED <<hour, subscribers, subscription, lastActive>>
        /\ \A i \in Ids : i \in statusMoved => i \in statusMoved'
        /\ statusMoved' \subseteq Ids /\ \A i \in Ids \ {k} : trail'[i] = trail[i]
        /\ trail' \in [Ids -> {"none", "ACTIVE", "CANCELLED"}]
    BY <1>1, <1>12, <2>0 DEF Adapter!Record, Adapter!Fail, Adapter!Sign, Adapter!Go
  <2>. HIDE DEF s
  <2>3. CASE Adapter!Record(w)
    <3>1. /\ serving[w].step = "record" /\ statusMoved' = statusMoved /\ token' = token
          /\ trail' = [trail EXCEPT ![k] = Given(serving[w].kind)]
      BY <2>0, <2>3 DEF Adapter!Record, Adapter!At, Given
    <3>2. IsOn(serving[w], k) /\ subscription[k] # None
      BY <1>3, <2>0, <3>1 DEF IsOn, Fits, AdapterInv, RowsComeFirst
    <3>3. k \notin statusMoved => subscription[k] = Given(serving[w].kind)
      BY <1>3, <3>1, <3>2 DEF Undisturbed
    <3>4. trail'[k] = Given(serving[w].kind) /\ trail'[k] # "none"
      BY <1>1, <3>1 DEF Given
    <3>5. Undisturbed(k)'
      BY <2>2, <3>1, <3>2, <3>3, <3>4, Leaves DEF s
    <3>6. /\ serving[w].step # "free" => k = serving[w].id
          /\ subscription' \in [Ids -> Adapter!RowStatuses \cup {None}]
          /\ lastActive' \in [Ids -> Adapter!Hours \cup {-1}]
          /\ subscription[k] # None => subscription'[k] # None
          /\ subscription'[k] = None => trail'[k] = "none"
          /\ lastActive[k] <= lastActive'[k] /\ lastActive'[k] <= hour
          /\ subscription'[k] = "ACTIVE" => lastActive'[k] = hour
          /\ subscribers' \subseteq Adapter!Tenants
          /\ \A i \in Ids \ {k} : /\ subscription'[i] = subscription[i] /\ trail'[i] = trail[i]
                                  /\ lastActive'[i] = lastActive[i]
      BY <1>1, <1>3, <2>0, <2>2, <3>2
    <3>. QED
      BY <2>1, <2>2, <3>1, <3>5, <3>6, RequestMoves
  <2>4. CASE ~Adapter!Record(w)
    <3>1. trail' = trail /\ serving[w].step # "free"
      BY <1>3, <1>12, <2>4, IdleFits DEF Adapter!Fail, Adapter!Sign, Adapter!At, Adapter!Free, Fits
    <3>2. token' = token \/ TokenIsRead'
      <4>1. CASE Adapter!Fail(w)
        BY <4>1 DEF Adapter!Fail
      <4>2. CASE Adapter!Sign(w)
        <5>1. /\ token' = [id |-> k, read |-> serving[w].at, signed |-> hour,
                           feature |-> Grants[k].enabled, limit |-> Adapter!TokenLimit(Grants[k])]
              /\ serving[w].step = "sign"
          BY <2>0, <4>2 DEF Adapter!Sign, Adapter!At
        <5>2. serving[w].at \in Adapter!Hours /\ serving[w].at <= lastActive[k]
          BY <1>3, <2>0, <5>1 DEF AdapterInv, ActiveWhenRead, Adapter!Served
        <5>. QED
          BY <1>1, <2>2, <5>1, <5>2 DEF TokenIsRead
      <4>. QED
        BY <1>12, <2>4, <4>1, <4>2
    <3>3. Undisturbed(k)'
      <4>1. CASE serving[w].kind = "token"
        <5>1. ~IsOn(serving[w], k)
          BY <4>1 DEF IsOn
        <5>. QED
          BY <2>1, <2>2, <3>1, <5>1, OthersStay
      <4>2. CASE serving[w].kind # "token"
        <5>1. k \in statusMoved'
          BY <1>3, <1>12, <2>0, <2>4, <4>2 DEF Adapter!Fail, Adapter!Sign, Adapter!At, Fits
        <5>. QED
          BY <5>1 DEF Undisturbed
      <4>. QED
        BY <4>1, <4>2
    <3>4. /\ serving[w].step # "free" => k = serving[w].id
          /\ subscription' \in [Ids -> Adapter!RowStatuses \cup {None}]
          /\ lastActive' \in [Ids -> Adapter!Hours \cup {-1}]
          /\ subscription[k] # None => subscription'[k] # None
          /\ subscription'[k] = None => trail'[k] = "none"
          /\ lastActive[k] <= lastActive'[k] /\ lastActive'[k] <= hour
          /\ subscription'[k] = "ACTIVE" => lastActive'[k] = hour
          /\ subscribers' \subseteq Adapter!Tenants
          /\ \A i \in Ids \ {k} : /\ subscription'[i] = subscription[i] /\ trail'[i] = trail[i]
                                  /\ lastActive'[i] = lastActive[i]
      BY <1>1, <1>3, <2>0, <2>2, <3>1
    <3>. QED
      BY <2>1, <2>2, <3>2, <3>3, <3>4, RequestMoves
  <2>. QED
    BY <2>3, <2>4
<1>13. ASSUME NEW w \in Workers, NEW t \in Adapter!Tenants, Adapter!ReadEntitlement(w, t)
       PROVE  AdapterInv'
  <2>1. PICK k \in Adapter!Newest(Adapter!OfTenant(t)) : Adapter!Begin(w, "token", k, "sign")
    BY <1>13 DEF Adapter!ReadEntitlement
  <2>2. k \in Ids /\ subscription[k] = "ACTIVE"
    BY <2>1 DEF Adapter!Newest, Adapter!OfTenant
  <2>. DEFINE s == [step |-> "sign", kind |-> "token", id |-> k, found |-> FALSE, at |-> hour]
  <2>3. /\ serving' = [serving EXCEPT ![w] = s] /\ serving[w].step = "free"
        /\ UNCHANGED <<hour, subscribers, subscription, trail, statusMoved, lastActive, token>>
    BY <1>13, <2>1, IdleFits DEF Adapter!ReadEntitlement, Adapter!Begin, Adapter!Free
  <2>4. Fits(s) /\ s.step = "sign" /\ s.id = k /\ s.at = hour /\ ~IsOn(s, k)
    BY <1>1, <2>2 DEF Fits, Adapter!Served, Adapter!Steps, IsOn
  <2>. HIDE DEF s
  <2>5. ~IsOn(serving[w], k)
    BY <2>3 DEF IsOn
  <2>6. Undisturbed(k)'
    BY <2>2, <2>3, <2>4, <2>5, OthersStay
  <2>7. s.at <= lastActive[k]
    BY <1>1, <1>3, <2>2, <2>4
  <2>. QED
    BY <1>1, <1>7, <2>2, <2>3, <2>4, <2>6, <2>7
<1>. QED
  BY <1>4, <1>5, <1>6, <1>8, <1>9, <1>10, <1>11, <1>12, <1>13 DEF Adapter!Next

LEMMA AdapterSafe ==
  ASSUME Adapter!ConstantsAssumption, AdapterInv
  PROVE  Adapter!TypeOK /\ Adapter!AdapterHolds
<1>1. Adapter!TrailTellsTheStatus
  BY OnIs DEF AdapterInv, Undisturbed, Adapter!TrailTellsTheStatus
<1>2. Adapter!TokensLapse
  <2>1. /\ hour \in Int /\ TTL \in Int /\ lastActive \in [Ids -> Int]
        /\ \A h \in Adapter!Hours : h \in Int
    BY DEF AdapterInv, Adapter!TypeOK, Adapter!Hours, Adapter!ConstantsAssumption
  <2>. QED
    BY <2>1 DEF AdapterInv, TokenIsRead, Adapter!TokensLapse
<1>3. Adapter!TokensGrantNoMore
  <2>. SUFFICES ASSUME token # None, NEW amount \in 1..3, token.feature,
                       \/ token.limit = Adapter!Unlimited
                       \/ token.limit # Adapter!Null /\ amount <= token.limit
                PROVE  LET e == Grants[token.id] IN
                       e.enabled /\ (e.unlimited \/ (e.value # Adapter!Null /\ amount <= e.value))
    BY DEF Adapter!TokensGrantNoMore
  <2>. DEFINE e == Grants[token.id]
  <2>1. token.feature = e.enabled /\ token.limit = Adapter!TokenLimit(e) /\ token.id \in Ids
    BY DEF AdapterInv, TokenIsRead
  <2>2. e \in Adapter!Entitlements
    BY <2>1 DEF Adapter!ConstantsAssumption
  <2>. HIDE DEF e
  <2>3. e.enabled
    BY <2>1
  <2>4. e.value \in Nat \cup {-9}
    BY <2>2 DEF Adapter!Entitlements, Adapter!Null
  <2>5. token.limit = IF e.unlimited THEN -1 ELSE e.value
    BY <2>1 DEF Adapter!TokenLimit, Adapter!Unlimited
  <2>6. e.unlimited \/ (e.value # Adapter!Null /\ amount <= e.value)
    BY <2>4, <2>5 DEF Adapter!Null, Adapter!Unlimited
  <2>. QED
    BY <2>3, <2>6 DEF e
<1>. QED
  BY <1>1, <1>2, <1>3 DEF AdapterInv, Adapter!AdapterHolds

-----------------------------------------------------------------------------
(* All of them, whichever side moves.                                      *)

SidesInv ==
  /\ side \in Sides
  /\ Of("login", ThrottleInv) /\ Of("session", SessionInv)
  /\ Of("navigation", NavigationInv) /\ Of("registration", RegistrationInv)
  /\ Of("users", UserListInv) /\ Of("user", UserPanelInv) /\ Of("payments", PaymentsInv)
  /\ Of("partners", PartnersInv) /\ Of("notices", NoticesPageInv) /\ Of("reports", ReportsInv)
  /\ Of("adapter", AdapterInv) /\ Of("sdk", SdkInv)

\* The side that moves takes a step of its own, or none; it stays the side that moves.
LEMMA SideMoves ==
  ASSUME [ClientsNext]_clientsVars
  PROVE  /\ side' = side
         /\ side = "login" => [Throttle!Next]_Throttle!vars
         /\ side = "session" => [Session!Next]_Session!vars
         /\ side = "navigation" => [Navigation!Next]_Navigation!vars
         /\ side = "registration" => [Registration!Next]_Registration!vars
         /\ side = "users" => [UserList!Next]_UserList!vars
         /\ side = "user" => [UserPanel!Next]_UserPanel!vars
         /\ side = "payments" => [PaymentsPanel!Next]_PaymentsPanel!vars
         /\ side = "partners" => [PartnersPage!Next]_PartnersPage!vars
         /\ side = "notices" => [NoticesPage!Next]_NoticesPage!vars
         /\ side = "reports" => [Reports!Next]_Reports!vars
         /\ side = "adapter" => [Adapter!Next]_Adapter!vars
         /\ side = "sdk" => [Sdk!Next]_Sdk!vars
<1>1. CASE UNCHANGED clientsVars
  BY <1>1 DEF clientsVars, throttleVars, sessionVars, navigationVars, registrationVars,
    userListVars, userPanelVars, paymentsVars, partnersVars, noticesVars, reportsVars,
    adapterVars, sdkVars, Throttle!vars, Session!vars, Navigation!vars, Navigation!overviewVars,
    Registration!vars, UserList!vars, UserPanel!vars, PaymentsPanel!vars, PartnersPage!vars,
    NoticesPage!vars, Reports!vars, Adapter!vars, Sdk!vars
<1>2. CASE ClientsNext
  BY <1>2 DEF ClientsNext, Moves
<1>. QED
  BY <1>1, <1>2

LEMMA SidesStart == ClientsInit => SidesInv
<1>. USE ClientsAssumption
<1>1. ClientsInit => side \in Sides /\ ThrottleInv /\ SessionInv
  BY InitThrottle, SessionInit DEF ClientsInit
<1>2. ClientsInit => NavigationInv /\ RegistrationInv /\ UserListInv /\ UserPanelInv
  BY InitNavigation, InitRegistration, InitUserList, InitUserPanel DEF ClientsInit
<1>3. ClientsInit => PaymentsInv /\ PartnersInv /\ NoticesPageInv /\ ReportsInv
  BY InitPayments, InitPartners, InitNotices, InitReports DEF ClientsInit
<1>4. ClientsInit => AdapterInv /\ SdkInv
  BY InitAdapter, InitSdk DEF ClientsInit
<1>. QED
  BY <1>1, <1>2, <1>3, <1>4 DEF SidesInv, Of

LEMMA SidesStep == SidesInv /\ [ClientsNext]_clientsVars => SidesInv'
<1>. USE ClientsAssumption
<1>. SUFFICES ASSUME SidesInv, [ClientsNext]_clientsVars PROVE SidesInv'
  OBVIOUS
<1>1. Of("login", ThrottleInv)' /\ Of("session", SessionInv)'
  BY SideMoves, ThrottleStep, SessionStep DEF SidesInv, Of
<1>2. Of("navigation", NavigationInv)' /\ Of("registration", RegistrationInv)'
  BY SideMoves, NavigationStep, RegistrationStep DEF SidesInv, Of
<1>3. Of("users", UserListInv)' /\ Of("user", UserPanelInv)' /\ Of("payments", PaymentsInv)'
  BY SideMoves, UserListStep, UserPanelStep, PaymentsStep DEF SidesInv, Of
<1>4. Of("partners", PartnersInv)' /\ Of("notices", NoticesPageInv)' /\ Of("reports", ReportsInv)'
  BY SideMoves, PartnersStep, NoticesStep, ReportsStep DEF SidesInv, Of
<1>5. Of("adapter", AdapterInv)' /\ Of("sdk", SdkInv)'
  BY SideMoves, AdapterStep, SdkStep DEF SidesInv, Of
<1>. QED
  BY SideMoves, <1>1, <1>2, <1>3, <1>4, <1>5 DEF SidesInv

\* Who is locked out, what a tab may send and what the browser holds, whichever side moves
\* (ThrottleHolds and SessionHolds of the two modules).
THEOREM SessionsHold == ClientsSpec => []SessionHolds
<1>1. SidesInv => SessionHolds
  BY ClientsAssumption, SessionSafe DEF SidesInv, Of, SessionHolds, ThrottleInv,
    Throttle!ThrottleHolds
<1>. QED
  BY SidesStart, SidesStep, <1>1, PTL DEF ClientsSpec

\* What a page shows and sends belongs to what it was opened on: forms to their application, a
\* key to the eyes it was made for, rows to their filters, a page without rows to a total that had
\* it, a reason to its change, a payment to one order, dialogs to their partner, a banner to a
\* sending, a file to its rows (ScreensHold).
THEOREM ScreensAreRight == ClientsSpec => []ScreensHold
<1>1. SidesInv => ScreensHold
  <2>. USE ClientsAssumption
  <2>. SUFFICES ASSUME SidesInv PROVE ScreensHold
    OBVIOUS
  <2>1. /\ Of("navigation", Navigation!NavigationHolds)
        /\ Of("registration", Registration!NoKeyUnseen)
        /\ Of("users", UserList!UserListHolds)
    BY NavigationSafe, UserListSafe DEF SidesInv, Of, RegistrationInv
  <2>2. Of("user", UserPanel!UserPanelHolds) /\ Of("payments", PaymentsPanel!PaymentsPanelHolds)
    BY UserPanelSafe, PaymentsSafe DEF SidesInv, Of
  <2>3. /\ Of("partners", PartnersPage!DialogsKeepTheirPartner)
        /\ Of("notices", NoticesPage!NoticesHold) /\ Of("reports", Reports!ReportsHold)
    BY NoticesSafe, ReportsSafe DEF SidesInv, Of, PartnersInv
  <2>. QED
    BY <2>1, <2>2, <2>3 DEF ScreensHold
<1>. QED
  BY SidesStart, SidesStep, <1>1, PTL DEF ClientsSpec

\* The adapter's events tell the status unless two requests met or one failed half-way, its
\* tokens lapse and grant no more than it serves, and the SDK's cache is as new as the events it
\* has seen, but for late answers; an event has effect once, and a grace ends (AccessHolds).
THEOREM AccessIsBounded == ClientsSpec => []AccessHolds
<1>1. SidesInv => AccessHolds
  BY ClientsAssumption, AdapterSafe, SdkSafe DEF SidesInv, Of, AccessHolds
<1>. QED
  BY SidesStart, SidesStep, <1>1, PTL DEF ClientsSpec

\* Every variable of every side has its type (ClientsTypeOK).
THEOREM ClientsAreTyped == ClientsSpec => []ClientsTypeOK
<1>1. SidesInv /\ RowsInv => ClientsTypeOK
  <2>. USE ClientsAssumption
  <2>. SUFFICES ASSUME SidesInv, RowsInv PROVE ClientsTypeOK
    OBVIOUS
  <2>1. /\ side \in Sides
        /\ Of("login", Throttle!TypeOK) /\ Of("session", Session!TypeOK)
        /\ Of("navigation", Navigation!TypeOK) /\ Of("registration", Registration!TypeOK)
        /\ Of("users", UserList!TypeOK) /\ Of("user", UserPanel!TypeOK)
        /\ Of("payments", PaymentsPanel!TypeOK) /\ Of("partners", PartnersPage!TypeOK)
        /\ Of("notices", NoticesPage!TypeOK)
    BY DEF SidesInv, Of, ThrottleInv, SessionInv, NavigationInv, RegistrationInv, UserListInv,
      UserPanelInv, PaymentsInv, PartnersInv, NoticesPageInv
  <2>2. Of("reports", Reports!TypeOK) /\ Of("adapter", Adapter!TypeOK) /\ Of("sdk", Sdk!TypeOK)
    BY ReportsSafe, AdapterSafe, SdkSafe DEF SidesInv, Of
  <2>3. PlanEditor!TypeOK /\ CouponEditor!TypeOK /\ TermEditor!TypeOK
    BY DEF RowsInv, PlansInv, CouponsInv, TermsInv
  <2>4. Credentials!TypeOK /\ Settings!TypeOK /\ Storefront!TypeOK
    BY DEF RowsInv, KeysInv, FormsArePast, Settings!TypeOK, StorefrontInv
  <2>. QED
    BY <2>1, <2>2, <2>3, <2>4 DEF ClientsTypeOK, Of
<1>. QED
  BY SidesStart, SidesStep, RowsStart, RowsStep, <1>1, PTL DEF ClientsSpec
=============================================================================
