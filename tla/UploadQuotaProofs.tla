------------------------- MODULE UploadQuotaProofs -------------------------
(***************************************************************************)
(* The quota sets agree with the sessions, and a limit holds wherever the  *)
(* scripts run in the second their clock was read, for all uploads,        *)
(* devices, collectors, limits, lifetimes and delays.                      *)
(***************************************************************************)
EXTENDS UploadQuota, FiniteSetTheorems, TLAPS

-----------------------------------------------------------------------------
(* The inductive invariant.                                                *)

SessionRec ==
  [state : {"UPLOADING", "VERIFYING", "FAILED", "ARCHIVED"}, left : Int, life : Nat \ {0},
   finished : Nat]

QType ==
  /\ session \in [UploadIds -> SessionRec \cup {NoUpload}]
  /\ quota \in [Scopes -> [UploadIds -> Int]]

\* What one session and the three sets agree on.
Counted(x, q, u) ==
  x # NoUpload =>
    /\ x.state # "ARCHIVED" /\ x.left > 0 => \A s \in ScopesOf(u) : q[s][u] = x.left
    /\ x.state = "ARCHIVED" => \A s \in ScopesOf(u) : q[s][u] = NotCounted

\* Without delay expires_at and the life of the keys end together, so no
\* session outlives its member in the sets.
Prompt(x) == x # NoUpload /\ x.state # "ARCHIVED" => x.left = x.life

QInv ==
  /\ QType
  /\ \A u \in UploadIds : Counted(session[u], quota, u)
  /\ \A u \in UploadIds \ Tardy : Prompt(session[u])
  /\ LimitHolds

-----------------------------------------------------------------------------
(* Lemmas about the operators.                                             *)

LEMMA MaxFacts ==
  ASSUME NEW a \in Int, NEW b \in Int
  PROVE  Max({a, b}) = IF a >= b THEN a ELSE b
BY DEF Max

LEMMA ConstantFacts ==
  /\ SessionTtl \in Nat \ {0} /\ TerminalTtl \in Nat \ {0} /\ MaxDelay \in Nat
  /\ MaxDelay < SessionTtl /\ NotCounted \in Int /\ Oldest \in Int /\ NotCounted < 0 /\ Oldest < 0
  /\ NotCounted < Oldest
BY TtlAssumption DEF NotCounted, Oldest

LEMMA DelayFacts ==
  ASSUME NEW u \in UploadIds, NEW delay \in Delays(u)
  PROVE  delay \in Nat /\ delay <= MaxDelay /\ (u \notin Tardy => delay = 0)
BY ConstantFacts DEF Delays

LEMMA ScopeFacts ==
  ASSUME NEW u \in UploadIds
  PROVE  ScopesOf(u) \subseteq Scopes
BY DEF Scopes

LEMMA LimitFacts ==
  ASSUME NEW s
  PROVE  LimitOf(s) \in Nat
BY LimitAssumption DEF LimitOf

LEMMA NoneIsNoRec ==
  NoUpload \notin SessionRec
<1>1. NoUpload.state = "none"
  BY DEF NoUpload
<1>2. \A x \in SessionRec : x.state # "none"
  BY DEF SessionRec
<1> QED BY <1>1, <1>2

\* The ZADD of a script moves one member of three sets.
LEMMA ScoredFacts ==
  ASSUME NEW q \in [Scopes -> [UploadIds -> Int]], NEW u \in UploadIds, NEW n \in Int
  PROVE  /\ Scored(q, u, n) \in [Scopes -> [UploadIds -> Int]]
         /\ \A s \in ScopesOf(u) : Scored(q, u, n)[s][u] = n
         /\ \A s \in Scopes, v \in UploadIds \ {u} : Scored(q, u, n)[s][v] = q[s][v]
BY ScopeFacts DEF Scored

\* clean takes out what has expired by the clock of the handler.
LEMMA CleanFacts ==
  ASSUME QType, NEW u \in UploadIds, NEW delay \in Nat
  PROVE  /\ Clean(u, delay) \in [Scopes -> [UploadIds -> Int]]
         /\ \A s \in Scopes, v \in UploadIds :
              /\ Clean(u, delay)[s][v] \in {quota[s][v], NotCounted}
              /\ quota[s][v] > 0 => Clean(u, delay)[s][v] = quota[s][v]
<1>1. quota \in [Scopes -> [UploadIds -> Int]] /\ NotCounted \in Int
  BY ConstantFacts DEF QType
<1> DEFINE C(s) == [v \in UploadIds |-> IF quota[s][v] <= -delay THEN NotCounted ELSE quota[s][v]]
<1>2. \A s \in Scopes : C(s) \in [UploadIds -> Int]
  BY <1>1
<1>3. \A s \in Scopes, v \in UploadIds :
        C(s)[v] \in {quota[s][v], NotCounted} /\ (quota[s][v] > 0 => C(s)[v] = quota[s][v])
  BY <1>1
<1>4. Clean(u, delay) = [s \in Scopes |-> IF s \notin ScopesOf(u) THEN quota[s] ELSE C(s)]
  BY DEF Clean
<1> HIDE DEF C
<1> QED BY <1>1, <1>2, <1>3, <1>4

\* A session that still counts is kept by clean.
LEMMA CleanCounted ==
  ASSUME QType, NEW u \in UploadIds, NEW delay \in Nat, NEW v \in UploadIds,
         Counted(session[v], quota, v)
  PROVE  Counted(session[v], Clean(u, delay), v)
<1>1. \A s \in ScopesOf(v) :
        /\ Clean(u, delay)[s][v] \in {quota[s][v], NotCounted}
        /\ quota[s][v] > 0 => Clean(u, delay)[s][v] = quota[s][v]
  BY CleanFacts, ScopeFacts
<1> QED BY <1>1 DEF Counted

\* Counted depends on the session's own members only.
LEMMA CountedSame ==
  ASSUME NEW x, NEW q, NEW r, NEW v \in UploadIds, Counted(x, q, v),
         \A s \in ScopesOf(v) : r[s][v] = q[s][v]
  PROVE  Counted(x, r, v)
BY DEF Counted

-----------------------------------------------------------------------------
(* The limit.  Only createSession adds a session in flight to a scope of   *)
(* prompt uploads, and it counts them first.                               *)

Racing(s) == {u \in UploadIds : s \in ScopesOf(u) /\ InFlight(u)}

PromptScope(s) == {u \in UploadIds : s \in ScopesOf(u)} \cap Tardy = {}
RacingLimited == \A s \in Scopes : PromptScope(s) => Cardinality(Racing(s)) <= LimitOf(s)

LEMMA LimitByRacing == LimitHolds <=> RacingLimited
<1>1. \A s : {u \in {v \in UploadIds : s \in ScopesOf(v)} : InFlight(u)} = Racing(s)
  BY DEF Racing
<1> QED BY <1>1 DEF LimitHolds, RacingLimited, PromptScope

LEMMA RacingFinite ==
  ASSUME NEW s
  PROVE  IsFiniteSet(Racing(s)) /\ Cardinality(Racing(s)) \in Nat
<1>1. Racing(s) \in SUBSET UploadIds
  BY DEF Racing
<1>2. IsFiniteSet(Racing(s))
  BY <1>1, FS_Subset, LimitAssumption
<1> QED BY <1>2, FS_CardinalityType

LEMMA LimitStays ==
  ASSUME LimitHolds, \A u \in UploadIds \ Tardy : InFlight(u)' => InFlight(u)
  PROVE  LimitHolds'
<1>1. RacingLimited
  BY LimitByRacing
<1>2. ASSUME NEW s \in Scopes, PromptScope(s) PROVE Cardinality(Racing(s)') <= LimitOf(s)
  <2>1. Racing(s)' \in SUBSET Racing(s)
    BY <1>2 DEF Racing, PromptScope
  <2>2. Cardinality(Racing(s)') <= Cardinality(Racing(s)) /\ IsFiniteSet(Racing(s)')
    BY <2>1, RacingFinite, FS_Subset
  <2>3. Cardinality(Racing(s)') \in Nat
    BY <2>2, FS_CardinalityType
  <2> QED BY <1>1, <1>2, <2>2, <2>3, RacingFinite, LimitFacts DEF RacingLimited
<1>3. RacingLimited'
  BY <1>2 DEF RacingLimited
<1> QED BY <1>3, LimitByRacing, PTL

\* What createSession counts in a scope covers every session in flight there.
LEMMA RacingCounted ==
  ASSUME QType, \A v \in UploadIds : Counted(session[v], quota, v), NEW u \in UploadIds,
         NEW delay \in Nat, NEW s \in Scopes
  PROVE  Racing(s) \subseteq Members(Clean(u, delay), s)
<1> SUFFICES ASSUME NEW v \in Racing(s) PROVE v \in Members(Clean(u, delay), s)
  OBVIOUS
<1>1. v \in UploadIds /\ s \in ScopesOf(v) /\ session[v] # NoUpload
      /\ session[v].state # "ARCHIVED" /\ session[v].left > 0
  BY DEF Racing, InFlight, Live
<1>2. quota[s][v] = session[v].left
  BY <1>1 DEF Counted
<1>3. Clean(u, delay)[s][v] = quota[s][v]
  BY <1>1, <1>2, CleanFacts
<1>4. session[v].left \in Int
  BY <1>1 DEF QType, SessionRec
<1>5. Clean(u, delay)[s][v] # NotCounted
  BY <1>1, <1>2, <1>3, <1>4, ConstantFacts
<1> QED BY <1>1, <1>5 DEF Members

LEMMA LimitAdmits ==
  ASSUME QType, \A v \in UploadIds : Counted(session[v], quota, v), LimitHolds,
         NEW u \in UploadIds, NEW delay \in Nat, Fits(Clean(u, delay), u),
         \A v \in UploadIds \ {u} : InFlight(v)' => InFlight(v)
  PROVE  LimitHolds'
<1>1. RacingLimited
  BY LimitByRacing
<1>2. ASSUME NEW s \in Scopes, PromptScope(s) PROVE Cardinality(Racing(s)') <= LimitOf(s)
  <2> DEFINE M == Members(Clean(u, delay), s)
  <2>1. CASE s \in ScopesOf(u)
    <3>1. Racing(s)' \in SUBSET (M \cup {u})
      <4>1. Racing(s)' \subseteq Racing(s) \cup {u}
        BY DEF Racing
      <4> QED BY <4>1, RacingCounted
    <3>2. IsFiniteSet(M)
      <4>1. M \in SUBSET UploadIds
        BY DEF Members
      <4> QED BY <4>1, FS_Subset, LimitAssumption
    <3>3. Cardinality(M) < LimitOf(s) /\ Cardinality(M) \in Nat
      BY <2>1, <3>2, FS_CardinalityType DEF Fits
    <3> HIDE DEF M
    <3>4. IsFiniteSet(M \cup {u}) /\ Cardinality(M \cup {u}) <= Cardinality(M) + 1
      <4>1. IsFiniteSet(M \cup {u})
            /\ Cardinality(M \cup {u}) = IF u \in M THEN Cardinality(M) ELSE Cardinality(M) + 1
        BY <3>2, FS_AddElement
      <4> QED BY <3>3, <4>1
    <3>7. Cardinality(M \cup {u}) \in Nat
      BY <3>4, FS_CardinalityType
    <3>5. IsFiniteSet(Racing(s)') /\ Cardinality(Racing(s)') <= Cardinality(M \cup {u})
      BY <3>1, <3>4, FS_Subset
    <3>6. Cardinality(Racing(s)') \in Nat
      BY <3>5, FS_CardinalityType
    <3> QED BY <3>3, <3>4, <3>5, <3>6, <3>7, LimitFacts
  <2>2. CASE s \notin ScopesOf(u)
    <3>1. Racing(s)' \in SUBSET Racing(s)
      BY <2>2 DEF Racing
    <3>2. Cardinality(Racing(s)') <= Cardinality(Racing(s)) /\ IsFiniteSet(Racing(s)')
      BY <3>1, RacingFinite, FS_Subset
    <3>3. Cardinality(Racing(s)') \in Nat
      BY <3>2, FS_CardinalityType
    <3> QED BY <1>1, <1>2, <3>2, <3>3, RacingFinite, LimitFacts DEF RacingLimited
  <2> QED BY <2>1, <2>2
<1>3. RacingLimited'
  BY <1>2 DEF RacingLimited
<1> QED BY <1>3, LimitByRacing, PTL

-----------------------------------------------------------------------------
(* The actions.  One of them changes the session of one upload; what that  *)
(* takes to keep the invariant is the same for all.                        *)

\* A script that replaces one session and its score.
LEMMA SetKeeps ==
  ASSUME QInv, NEW u \in UploadIds, NEW x \in SessionRec \cup {NoUpload},
         session' = [session EXCEPT ![u] = x],
         quota' \in [Scopes -> [UploadIds -> Int]],
         Counted(x, quota', u),
         \A v \in UploadIds \ {u} : Counted(session[v], quota', v),
         u \notin Tardy => Prompt(x)
  PROVE  /\ QType' /\ \A v \in UploadIds : Counted(session'[v], quota', v)
         /\ \A v \in UploadIds \ Tardy : Prompt(session'[v])
         /\ \A v \in UploadIds \ {u} : InFlight(v)' => InFlight(v)
<1>1. session \in [UploadIds -> SessionRec \cup {NoUpload}]
  BY DEF QInv, QType
<1>2. session' \in [UploadIds -> SessionRec \cup {NoUpload}] /\ session'[u] = x
      /\ \A v \in UploadIds \ {u} : session'[v] = session[v]
  BY <1>1
<1>3. QType'
  BY <1>2 DEF QType
<1>4. \A v \in UploadIds : Counted(session'[v], quota', v)
  BY <1>2
<1>5. \A v \in UploadIds \ Tardy : Prompt(session'[v])
  BY <1>2 DEF QInv
<1>6. \A v \in UploadIds \ {u} : InFlight(v)' => InFlight(v)
  BY <1>2 DEF InFlight, Live
<1> QED BY <1>3, <1>4, <1>5, <1>6

LEMMA LiveFacts ==
  ASSUME QInv, NEW u \in UploadIds, Live(u)
  PROVE  /\ session[u] \in SessionRec /\ Counted(session[u], quota, u)
         /\ session[u].left \in Int /\ session[u].life \in Nat \ {0} /\ session[u].finished \in Nat
         /\ quota \in [Scopes -> [UploadIds -> Int]]
         /\ u \notin Tardy => Prompt(session[u])
<1>1. session[u] \in SessionRec
  BY DEF QInv, QType, Live
<1> QED BY <1>1 DEF QInv, QType, SessionRec

\* The other sessions do not notice the new score of one.
LEMMA OthersCounted ==
  ASSUME NEW q \in [Scopes -> [UploadIds -> Int]], NEW u \in UploadIds, NEW n \in Int,
         NEW v \in UploadIds \ {u}, NEW x, Counted(x, q, v)
  PROVE  Counted(x, Scored(q, u, n), v)
<1>1. \A s \in ScopesOf(v) : Scored(q, u, n)[s][v] = q[s][v]
  BY ScoredFacts, ScopeFacts
<1> QED BY <1>1, CountedSame

LEMMA CreateAdmittedKeeps ==
  ASSUME QInv, NEW u \in UploadIds, CreateAdmitted(u)
  PROVE  QInv'
<1>1. PICK delay \in Delays(u), before \in Delays(u) :
        /\ Fits(Clean(u, delay), u)
        /\ quota' = Scored(Clean(u, delay), u, SessionTtl - before)
        /\ session' = [session EXCEPT ![u] =
             [state |-> "UPLOADING", left |-> SessionTtl - before, life |-> SessionTtl,
              finished |-> 0]]
  BY DEF CreateAdmitted
<1> DEFINE x == [state |-> "UPLOADING", left |-> SessionTtl - before, life |-> SessionTtl,
                 finished |-> 0]
           c == Clean(u, delay)
           n == SessionTtl - before
<1>2. delay \in Nat /\ before \in Nat /\ (u \notin Tardy => before = 0)
  BY DelayFacts
<1>3. n \in Int /\ x \in SessionRec /\ x.state = "UPLOADING" /\ x.left = n /\ x.life = SessionTtl
  BY <1>2, ConstantFacts DEF SessionRec
<1>4. QType /\ \A v \in UploadIds : Counted(session[v], quota, v)
  BY DEF QInv
<1>5. c \in [Scopes -> [UploadIds -> Int]]
  BY <1>2, <1>4, CleanFacts
<1>6. \A v \in UploadIds : Counted(session[v], c, v)
  BY <1>2, <1>4, CleanCounted
<1>7. session' = [session EXCEPT ![u] = x] /\ quota' = Scored(c, u, n)
  BY <1>1
<1> HIDE DEF x, c, n
<1>8. /\ quota' \in [Scopes -> [UploadIds -> Int]] /\ \A s \in ScopesOf(u) : quota'[s][u] = n
  BY <1>3, <1>5, <1>7, ScoredFacts
<1>9. Counted(x, quota', u)
  BY <1>3, <1>8 DEF Counted
<1>10. \A v \in UploadIds \ {u} : Counted(session[v], quota', v)
  BY <1>3, <1>5, <1>6, <1>7, OthersCounted
<1>11. u \notin Tardy => Prompt(x)
  BY <1>2, <1>3, ConstantFacts DEF Prompt, n
<1>12. /\ QType' /\ \A v \in UploadIds : Counted(session'[v], quota', v)
       /\ \A v \in UploadIds \ Tardy : Prompt(session'[v])
       /\ \A v \in UploadIds \ {u} : InFlight(v)' => InFlight(v)
  BY <1>3, <1>7, <1>8, <1>9, <1>10, <1>11, SetKeeps
<1>13. LimitHolds'
  <2>1. Fits(Clean(u, delay), u)
    BY <1>1
  <2> QED BY <1>2, <1>4, <1>12, <2>1, LimitAdmits DEF QInv
<1> QED BY <1>12, <1>13 DEF QInv

\* Every other action leaves the in-flight sessions of prompt uploads alone
\* or makes them fewer.
LEMMA SetKeepsInv ==
  ASSUME QInv, NEW u \in UploadIds, NEW x \in SessionRec \cup {NoUpload},
         session' = [session EXCEPT ![u] = x],
         quota' \in [Scopes -> [UploadIds -> Int]],
         Counted(x, quota', u),
         \A v \in UploadIds \ {u} : Counted(session[v], quota', v),
         u \notin Tardy => Prompt(x),
         u \notin Tardy /\ x # NoUpload /\ x.state \in {"UPLOADING", "VERIFYING"} => InFlight(u)
  PROVE  QInv'
<1>1. /\ QType' /\ \A v \in UploadIds : Counted(session'[v], quota', v)
      /\ \A v \in UploadIds \ Tardy : Prompt(session'[v])
      /\ \A v \in UploadIds \ {u} : InFlight(v)' => InFlight(v)
  BY SetKeeps
<1>2. session'[u] = x
  BY DEF QInv, QType
<1>3. u \notin Tardy => (InFlight(u)' => InFlight(u))
  BY <1>2 DEF InFlight, Live
<1>4. \A v \in UploadIds \ Tardy : InFlight(v)' => InFlight(v)
  BY <1>1, <1>3
<1>5. LimitHolds'
  BY <1>4, LimitStays DEF QInv
<1> QED BY <1>1, <1>5 DEF QInv

\* A prompt session that may still change is in flight.
LEMMA PromptInFlight ==
  ASSUME QInv, NEW u \in UploadIds \ Tardy, Live(u), session[u].state \in {"UPLOADING", "VERIFYING"}
  PROVE  InFlight(u)
<1>1. session[u].life \in Nat \ {0} /\ Prompt(session[u])
  BY LiveFacts
<1>2. session[u].left = session[u].life
  BY <1>1 DEF Prompt, Live
<1> QED BY <1>1, <1>2 DEF InFlight

LEMMA CreateRefusedKeeps ==
  ASSUME QInv, NEW u \in UploadIds, CreateRefused(u)
  PROVE  QInv'
<1>1. PICK delay \in Delays(u) : quota' = Clean(u, delay) /\ session' = session
  BY DEF CreateRefused
<1>2. delay \in Nat
  BY DelayFacts
<1>3. QType /\ (\A v \in UploadIds : Counted(session[v], quota, v)) /\ LimitHolds
  BY DEF QInv
<1>4. quota' \in [Scopes -> [UploadIds -> Int]] /\ \A v \in UploadIds : Counted(session[v], quota', v)
  BY <1>1, <1>2, <1>3, CleanFacts, CleanCounted
<1>5. \A v \in UploadIds : InFlight(v)' => InFlight(v)
  BY <1>1 DEF InFlight, Live
<1>6. LimitHolds'
  BY <1>3, <1>5, LimitStays
<1>7. QType'
  BY <1>1, <1>3, <1>4 DEF QType
<1>8. \A v \in UploadIds \ Tardy : Prompt(session'[v])
  BY <1>1 DEF QInv
<1> QED BY <1>1, <1>4, <1>6, <1>7, <1>8 DEF QInv

LEMMA FinishChunkKeeps ==
  ASSUME QInv, NEW u \in UploadIds, FinishChunk(u)
  PROVE  QInv'
<1>1. PICK delay \in Delays(u) :
        /\ Live(u) /\ session[u].state = "UPLOADING"
        /\ session' = [session EXCEPT ![u] =
             [session[u] EXCEPT !.left = SessionTtl - delay, !.life = SessionTtl,
                                !.finished = session[u].finished + 1]]
        /\ quota' = Scored(quota, u, SessionTtl - delay)
  BY DEF FinishChunk
<1> DEFINE n == SessionTtl - delay
           x == [session[u] EXCEPT !.left = n, !.life = SessionTtl,
                                   !.finished = session[u].finished + 1]
<1>2. n \in Int /\ SessionTtl \in Nat \ {0} /\ (u \notin Tardy => n = SessionTtl)
  BY DelayFacts, ConstantFacts
<1>3. /\ session[u] \in SessionRec /\ session[u].finished \in Nat
      /\ quota \in [Scopes -> [UploadIds -> Int]]
  BY <1>1, LiveFacts
<1>4. x \in SessionRec /\ x.state = "UPLOADING" /\ x.left = n /\ x.life = SessionTtl
  <2> DEFINE r == session[u]
             f == r.finished + 1
  <2>1. r \in SessionRec /\ f \in Nat /\ r.state = "UPLOADING"
    BY <1>1, <1>3
  <2>2. x = [r EXCEPT !.left = n, !.life = SessionTtl, !.finished = f]
    OBVIOUS
  <2> HIDE DEF n, r, f, x
  <2> QED BY <1>2, <2>1, <2>2 DEF SessionRec
<1>5. session' = [session EXCEPT ![u] = x] /\ quota' = Scored(quota, u, n)
  BY <1>1
<1> HIDE DEF x, n
<1>6. /\ quota' \in [Scopes -> [UploadIds -> Int]] /\ \A s \in ScopesOf(u) : quota'[s][u] = n
  BY <1>2, <1>3, <1>5, ScoredFacts
<1>7. Counted(x, quota', u)
  BY <1>4, <1>6 DEF Counted
<1>8. \A v \in UploadIds \ {u} : Counted(session[v], quota', v)
  BY <1>2, <1>3, <1>5, OthersCounted DEF QInv
<1>9. u \notin Tardy => Prompt(x)
  BY <1>2, <1>4 DEF Prompt
<1>10. u \notin Tardy => InFlight(u)
  BY <1>1, PromptInFlight
<1> QED BY <1>4, <1>5, <1>6, <1>7, <1>8, <1>9, <1>10, SetKeepsInv

LEMMA MarkFailedKeeps ==
  ASSUME QInv, NEW u \in UploadIds, MarkFailed(u)
  PROVE  QInv'
<1>1. PICK delay \in Delays(u) :
        /\ Live(u) /\ session[u].state = "VERIFYING"
        /\ session' = [session EXCEPT ![u] =
             [session[u] EXCEPT !.state = "FAILED", !.left = TerminalTtl - delay,
                                !.life = TerminalTtl]]
        /\ quota' = Scored(quota, u, TerminalTtl - delay)
  BY DEF MarkFailed
<1> DEFINE n == TerminalTtl - delay
           x == [session[u] EXCEPT !.state = "FAILED", !.left = n, !.life = TerminalTtl]
<1>2. n \in Int /\ TerminalTtl \in Nat \ {0} /\ (u \notin Tardy => n = TerminalTtl)
  BY DelayFacts, ConstantFacts
<1>3. session[u] \in SessionRec /\ quota \in [Scopes -> [UploadIds -> Int]]
  BY <1>1, LiveFacts
<1>4. x \in SessionRec /\ x.state = "FAILED" /\ x.left = n /\ x.life = TerminalTtl
  BY <1>1, <1>2, <1>3 DEF SessionRec
<1>5. session' = [session EXCEPT ![u] = x] /\ quota' = Scored(quota, u, n)
  BY <1>1
<1> HIDE DEF x, n
<1>6. /\ quota' \in [Scopes -> [UploadIds -> Int]] /\ \A s \in ScopesOf(u) : quota'[s][u] = n
  BY <1>2, <1>3, <1>5, ScoredFacts
<1>7. Counted(x, quota', u)
  BY <1>4, <1>6 DEF Counted
<1>8. \A v \in UploadIds \ {u} : Counted(session[v], quota', v)
  BY <1>2, <1>3, <1>5, OthersCounted DEF QInv
<1>9. u \notin Tardy => Prompt(x)
  BY <1>2, <1>4 DEF Prompt
<1>10. x.state \notin {"UPLOADING", "VERIFYING"}
  BY <1>4
<1> QED BY <1>4, <1>5, <1>6, <1>7, <1>8, <1>9, <1>10, SetKeepsInv

LEMMA MarkArchivedKeeps ==
  ASSUME QInv, NEW u \in UploadIds, MarkArchived(u)
  PROVE  QInv'
<1> DEFINE x == [session[u] EXCEPT !.state = "ARCHIVED", !.life = TerminalTtl]
<1>1. /\ Live(u) /\ session' = [session EXCEPT ![u] = x] /\ quota' = Scored(quota, u, NotCounted)
  BY DEF MarkArchived
<1>2. NotCounted \in Int /\ TerminalTtl \in Nat \ {0}
  BY ConstantFacts
<1>3. session[u] \in SessionRec /\ quota \in [Scopes -> [UploadIds -> Int]]
  BY <1>1, LiveFacts
<1>4. x \in SessionRec /\ x.state = "ARCHIVED"
  BY <1>2, <1>3 DEF SessionRec
<1> HIDE DEF x
<1>6. /\ quota' \in [Scopes -> [UploadIds -> Int]] /\ \A s \in ScopesOf(u) : quota'[s][u] = NotCounted
  BY <1>1, <1>2, <1>3, ScoredFacts
<1>7. Counted(x, quota', u)
  BY <1>4, <1>6 DEF Counted
<1>8. \A v \in UploadIds \ {u} : Counted(session[v], quota', v)
  BY <1>1, <1>2, <1>3, OthersCounted DEF QInv
<1>9. Prompt(x)
  BY <1>4 DEF Prompt
<1>10. x.state \notin {"UPLOADING", "VERIFYING"}
  BY <1>4
<1> QED BY <1>1, <1>4, <1>6, <1>7, <1>8, <1>9, <1>10, SetKeepsInv

LEMMA BeginCompleteKeeps ==
  ASSUME QInv, NEW u \in UploadIds, BeginComplete(u)
  PROVE  QInv'
<1> DEFINE x == [session[u] EXCEPT !.state = "VERIFYING"]
<1>1. /\ Live(u) /\ session[u].state = "UPLOADING" /\ session' = [session EXCEPT ![u] = x]
      /\ quota' = quota
  BY DEF BeginComplete
<1>3. session[u] \in SessionRec /\ quota \in [Scopes -> [UploadIds -> Int]]
      /\ Counted(session[u], quota, u) /\ (u \notin Tardy => Prompt(session[u]))
  BY <1>1, LiveFacts
<1>4. x \in SessionRec /\ x.state = "VERIFYING" /\ x.left = session[u].left
      /\ x.life = session[u].life
  BY <1>3 DEF SessionRec
<1> HIDE DEF x
<1>7. Counted(x, quota', u)
  BY <1>1, <1>3, <1>4 DEF Counted, Live
<1>8. \A v \in UploadIds \ {u} : Counted(session[v], quota', v)
  BY <1>1 DEF QInv
<1>9. u \notin Tardy => Prompt(x)
  BY <1>1, <1>3, <1>4 DEF Prompt, Live
<1>10. u \notin Tardy => InFlight(u)
  BY <1>1, PromptInFlight
<1> QED BY <1>1, <1>3, <1>4, <1>7, <1>8, <1>9, <1>10, SetKeepsInv

LEMMA CleanUpKeeps ==
  ASSUME QInv, NEW u \in UploadIds, CleanUp(u)
  PROVE  QInv'
<1>1. session' = [session EXCEPT ![u] = NoUpload] /\ quota' = quota
  BY DEF CleanUp
<1>2. Counted(NoUpload, quota', u) /\ Prompt(NoUpload)
  BY DEF Counted, Prompt
<1>3. \A v \in UploadIds \ {u} : Counted(session[v], quota', v)
  BY <1>1 DEF QInv
<1>4. quota' \in [Scopes -> [UploadIds -> Int]]
  BY <1>1 DEF QInv, QType
<1> QED BY <1>1, <1>2, <1>3, <1>4, SetKeepsInv

\* A second that passes: scores and expiries age together, so a session
\* still counts while its expires_at lies ahead.
LEMMA TickKeeps ==
  ASSUME QInv, Tick
  PROVE  QInv'
<1> DEFINE Aged(u) == [session[u] EXCEPT !.life = session[u].life - 1,
                                         !.left = Max({session[u].left - 1, Oldest})]
<1>1. session' = [u \in UploadIds |-> IF ~Live(u) \/ session[u].life = 1 THEN NoUpload ELSE Aged(u)]
  BY DEF Tick
<1>2. quota' = [s \in Scopes |-> [u \in UploadIds |->
        IF quota[s][u] = NotCounted THEN NotCounted ELSE Max({quota[s][u] - 1, Oldest})]]
  BY DEF Tick
<1>3. quota \in [Scopes -> [UploadIds -> Int]] /\ Oldest \in Int /\ NotCounted \in Int
      /\ NotCounted < 0 /\ Oldest < 0
  BY ConstantFacts DEF QInv, QType
<1>4. ASSUME NEW s \in Scopes, NEW u \in UploadIds
      PROVE  /\ quota'[s][u] \in Int
             /\ quota[s][u] = NotCounted => quota'[s][u] = NotCounted
             /\ quota[s][u] > 0 => quota'[s][u] = quota[s][u] - 1
  <2>1. quota[s][u] \in Int /\ quota[s][u] - 1 \in Int
    BY <1>3
  <2>2. Max({quota[s][u] - 1, Oldest}) =
          IF quota[s][u] - 1 >= Oldest THEN quota[s][u] - 1 ELSE Oldest
    BY <1>3, <2>1, MaxFacts
  <2>3. quota'[s][u] = IF quota[s][u] = NotCounted THEN NotCounted ELSE Max({quota[s][u] - 1, Oldest})
    BY <1>2
  <2> QED BY <1>3, <2>1, <2>2, <2>3
<1>5. quota' \in [Scopes -> [UploadIds -> Int]]
  <2> DEFINE Q(s) == [u \in UploadIds |->
               IF quota[s][u] = NotCounted THEN NotCounted ELSE Max({quota[s][u] - 1, Oldest})]
  <2>1. quota' = [s \in Scopes |-> Q(s)]
    BY <1>2
  <2>2. \A s \in Scopes : Q(s) \in [UploadIds -> Int]
    BY <1>4, <2>1
  <2> HIDE DEF Q
  <2> QED BY <2>1, <2>2
<1>6. ASSUME NEW u \in UploadIds
      PROVE  \/ session'[u] = NoUpload
             \/ /\ Live(u) /\ session[u] \in SessionRec /\ session'[u] \in SessionRec
                /\ session'[u].state = session[u].state
                /\ session'[u].life = session[u].life - 1
                /\ session[u].left \in Int /\ session[u].life \in Nat \ {0, 1}
                /\ session'[u].left = IF session[u].left - 1 >= Oldest THEN session[u].left - 1 ELSE Oldest
  <2>1. CASE ~Live(u) \/ session[u].life = 1
    BY <1>1, <2>1
  <2>2. CASE Live(u) /\ session[u].life # 1
    <3>1. /\ session[u] \in SessionRec /\ session[u].left \in Int
          /\ session[u].life \in Nat \ {0, 1}
      BY <2>2, LiveFacts
    <3> DEFINE m == Max({session[u].left - 1, Oldest})
               l == session[u].life - 1
               r == session[u]
    <3>2. m = IF session[u].left - 1 >= Oldest THEN session[u].left - 1 ELSE Oldest
      BY <1>3, <3>1, MaxFacts
    <3>3. m \in Int /\ l \in Nat \ {0}
      BY <1>3, <3>1, <3>2
    <3>4. session'[u] = [r EXCEPT !.life = l, !.left = m]
      BY <1>1, <2>2
    <3>5. r \in SessionRec
      BY <3>1
    <3> HIDE DEF m, l, r
    <3>6. session'[u] \in SessionRec /\ session'[u].state = r.state
          /\ session'[u].life = l /\ session'[u].left = m
      BY <3>3, <3>4, <3>5 DEF SessionRec
    <3> QED BY <2>2, <3>1, <3>2, <3>6 DEF r, l
  <2> QED BY <2>1, <2>2
<1> HIDE DEF Aged
<1>7. QType'
  <2>1. session' = [u \in UploadIds |-> session'[u]]
    BY <1>1
  <2>2. \A u \in UploadIds : session'[u] \in SessionRec \cup {NoUpload}
    BY <1>6
  <2>3. session' \in [UploadIds -> SessionRec \cup {NoUpload}]
    BY <2>1, <2>2
  <2> QED BY <1>5, <2>3 DEF QType
<1>8. ASSUME NEW u \in UploadIds PROVE Counted(session'[u], quota', u)
  <2> SUFFICES ASSUME session'[u] # NoUpload PROVE Counted(session'[u], quota', u)
    BY DEF Counted
  <2>1. /\ Live(u) /\ session'[u].state = session[u].state /\ session[u].left \in Int
        /\ session'[u].left = IF session[u].left - 1 >= Oldest THEN session[u].left - 1 ELSE Oldest
    BY <1>6
  <2>2. /\ session[u].state # "ARCHIVED" /\ session[u].left > 0 =>
             \A s \in ScopesOf(u) : quota[s][u] = session[u].left
        /\ session[u].state = "ARCHIVED" => \A s \in ScopesOf(u) : quota[s][u] = NotCounted
    BY <2>1 DEF QInv, Counted, Live
  <2>3. ASSUME session'[u].left > 0 PROVE session[u].left > 0 /\ session'[u].left = session[u].left - 1
    BY <1>3, <2>1, <2>3
  <2>4. ScopesOf(u) \subseteq Scopes
    BY ScopeFacts
  <2>5. session'[u].state # "ARCHIVED" /\ session'[u].left > 0 =>
          \A s \in ScopesOf(u) : quota'[s][u] = session'[u].left
    BY <1>4, <2>1, <2>2, <2>3, <2>4
  <2>6. session'[u].state = "ARCHIVED" => \A s \in ScopesOf(u) : quota'[s][u] = NotCounted
    BY <1>4, <2>1, <2>2, <2>4
  <2> QED BY <2>5, <2>6 DEF Counted
<1>9. ASSUME NEW u \in UploadIds \ Tardy PROVE Prompt(session'[u])
  <2> SUFFICES ASSUME session'[u] # NoUpload, session'[u].state # "ARCHIVED"
               PROVE  session'[u].left = session'[u].life
    BY DEF Prompt
  <2>1. /\ Live(u) /\ session[u].state # "ARCHIVED" /\ session[u].life \in Nat \ {0, 1}
        /\ session'[u].life = session[u].life - 1
        /\ session'[u].left = IF session[u].left - 1 >= Oldest THEN session[u].left - 1 ELSE Oldest
    BY <1>6
  <2>2. session[u].left = session[u].life
    BY <2>1 DEF QInv, Prompt, Live
  <2> QED BY <1>3, <2>1, <2>2
<1>10. ASSUME NEW u \in UploadIds, InFlight(u)' PROVE InFlight(u)
  <2>1. session'[u] # NoUpload /\ session'[u].state \in {"UPLOADING", "VERIFYING"} /\ session'[u].left > 0
    BY <1>10 DEF InFlight, Live
  <2>2. /\ Live(u) /\ session'[u].state = session[u].state /\ session[u].left \in Int
        /\ session'[u].left = IF session[u].left - 1 >= Oldest THEN session[u].left - 1 ELSE Oldest
    BY <1>6, <2>1
  <2>3. session[u].left > 0
    BY <1>3, <2>1, <2>2
  <2> QED BY <2>1, <2>2, <2>3 DEF InFlight
<1>11. LimitHolds'
  BY <1>10, LimitStays DEF QInv
<1> QED BY <1>7, <1>8, <1>9, <1>11 DEF QInv

-----------------------------------------------------------------------------
(* The theorems.                                                           *)

LEMMA InitQInv == QuotaInit => QInv
<1> SUFFICES ASSUME QuotaInit PROVE QInv
  OBVIOUS
<1>1. /\ session = [u \in UploadIds |-> NoUpload]
      /\ quota = [s \in Scopes |-> [u \in UploadIds |-> NotCounted]] /\ NotCounted \in Int
  BY ConstantFacts DEF QuotaInit
<1>2. QType
  BY <1>1 DEF QType
<1>3. \A u \in UploadIds : session[u] = NoUpload
  BY <1>1
<1>4. \A u \in UploadIds : Counted(session[u], quota, u) /\ Prompt(session[u])
  BY <1>3 DEF Counted, Prompt
<1>5. \A s : Racing(s) = {}
  BY <1>3 DEF Racing, InFlight, Live
<1>6. RacingLimited
  BY <1>5, FS_EmptySet, LimitFacts DEF RacingLimited
<1> QED BY <1>2, <1>4, <1>6, LimitByRacing DEF QInv

LEMMA NextQInv ==
  ASSUME QInv, [QuotaNext]_quotaVars
  PROVE  QInv'
<1>1. ASSUME NEW u \in UploadIds,
             \/ CreateAdmitted(u) \/ CreateRefused(u) \/ FinishChunk(u) \/ BeginComplete(u)
             \/ MarkFailed(u) \/ MarkArchived(u) \/ CleanUp(u)
      PROVE  QInv'
  BY <1>1, CreateAdmittedKeeps, CreateRefusedKeeps, FinishChunkKeeps, BeginCompleteKeeps,
     MarkFailedKeeps, MarkArchivedKeeps, CleanUpKeeps
<1>2. CASE Tick
  BY <1>2, TickKeeps
<1>3. CASE UNCHANGED quotaVars
  <2>1. session' = session /\ quota' = quota
    BY <1>3 DEF quotaVars
  <2> QED BY <2>1 DEF QInv, QType, Counted, Prompt, LimitHolds, InFlight, Live
<1> QED BY <1>1, <1>2, <1>3 DEF QuotaNext

\* Sessions and sets keep agreeing, whatever expires, is archived, cleaned up
\* or admitted.
THEOREM QuotaInductive == QuotaSpec => []QInv
<1>1. QuotaInit => QInv
  BY InitQInv
<1>2. QInv /\ [QuotaNext]_quotaVars => QInv'
  BY NextQInv
<1> QED BY <1>1, <1>2, PTL DEF QuotaSpec

\* A session that has not expired by its own expires_at counts in its three
\* sets with that expiry until it is archived, and an archived one in none,
\* however late the scripts run, for all lifetimes and numbers of uploads.
THEOREM AlwaysCountedInAll == QuotaSpec => []CountedInAll
<1>1. QInv => CountedInAll
  BY DEF QInv, Counted, CountedInAll, Live
<1> QED BY <1>1, QuotaInductive, PTL

\* No device, no collector and not the server have more sessions in flight
\* than their limit where the scripts run in the second their clock was read.
THEOREM LimitAlwaysHolds == QuotaSpec => []LimitHolds
<1>1. QInv => LimitHolds
  BY DEF QInv
<1> QED BY <1>1, QuotaInductive, PTL
=============================================================================
