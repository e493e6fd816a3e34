---------------------------- MODULE ProxyProofs -----------------------------
(***************************************************************************)
(* Theorems about Proxy, for any number of sessions, any queries and       *)
(* translations, any cache and channel size and any number of attempts.    *)
(*                                                                         *)
(* TypeOK is not inductive alone: that a fix carries a type and that the   *)
(* attempts stay below MAX_ATTEMPTS depends on where HandleQuery is, which *)
(* is what Stages says. TypeOK /\ Stages is inductive. CacheSteps says how *)
(* the cache may change in one step; the other invariants follow from it   *)
(* and from TypeOK /\ Stages.                                              *)
(***************************************************************************)
EXTENDS Proxy, SequenceTheorems, TLAPS

(* What looking up and setting a key do to the LRU cache *)

\* No two entries have the same key.
KeysDistinct(c) == \A i, j \in DOMAIN c : c[i].key = c[j].key => i = j

\* What the cache holds after promoting e is e and entries it held before.
LEMMA PromoteProperties ==
    ASSUME NEW E, NEW c \in Seq(E), NEW e \in E, NEW i \in 1 .. Len(c) + 1
    PROVE  LET d == Promote(c, i, e)
           IN  /\ d \in Seq(E)
               /\ Len(d) = IF i > Len(c) THEN i ELSE Len(c)
               /\ d[1] = e
               /\ \A j \in DOMAIN d :
                    j # 1 => \E m \in DOMAIN c :
                                /\ m = IF j <= i THEN j - 1 ELSE j
                                /\ m # i
                                /\ d[j] = c[m]
<1> DEFINE n == IF i > Len(c) THEN i ELSE Len(c)
           F(j) == CASE j = 1            -> e
                     [] j > 1 /\ j <= i  -> c[j - 1]
                     [] j > 1 /\ j > i   -> c[j]
           d == [j \in 1 .. n |-> F(j)]
<1>1. Len(c) \in Nat /\ n \in Nat /\ n >= 1 /\ n >= Len(c) /\ DOMAIN c = 1 .. Len(c)
  BY LenProperties
<1>2. ASSUME NEW j \in 1 .. n, j # 1
      PROVE  \E m \in DOMAIN c : /\ m = IF j <= i THEN j - 1 ELSE j
                                 /\ m # i
                                 /\ F(j) = c[m]
  <2>1. CASE j <= i
    <3>1. j - 1 \in DOMAIN c /\ j - 1 # i  BY <1>1, <1>2, <2>1
    <3>2. F(j) = c[j - 1]  BY <1>1, <1>2, <2>1
    <3> QED  BY <2>1, <3>1, <3>2
  <2>2. CASE ~(j <= i)
    <3>1. j \in DOMAIN c /\ j # i  BY <1>1, <1>2, <2>2
    <3>2. F(j) = c[j]  BY <1>1, <1>2, <2>2
    <3> QED  BY <2>2, <3>1, <3>2
  <2> QED  BY <2>1, <2>2
<1>3. \A m \in DOMAIN c : c[m] \in E
  BY ElementOfSeq, <1>1
<1>4. F(1) = e
  OBVIOUS
<1>5. \A j \in 1 .. n : F(j) \in E
  BY <1>2, <1>3, <1>4
<1> HIDE DEF F
<1>6. d \in Seq(E) /\ Len(d) = n /\ DOMAIN d = 1 .. n
  BY <1>1, <1>5, IsASeq, LenProperties
<1>7. \A j \in 1 .. n : d[j] = F(j)
  OBVIOUS
<1>8. Promote(c, i, e) = d
  BY DEF Promote, F
<1> QED
  BY <1>1, <1>2, <1>4, <1>6, <1>7, <1>8

\* An entry that is not displaced moves one place back at most.
LEMMA PromoteKeeps ==
    ASSUME NEW E, NEW c \in Seq(E), NEW e \in E, NEW i \in 1 .. Len(c) + 1,
           NEW m \in DOMAIN c, m # i
    PROVE  \E j \in DOMAIN Promote(c, i, e) : j <= m + 1 /\ Promote(c, i, e)[j] = c[m]
<1> DEFINE n == IF i > Len(c) THEN i ELSE Len(c)
           F(j) == CASE j = 1            -> e
                     [] j > 1 /\ j <= i  -> c[j - 1]
                     [] j > 1 /\ j > i   -> c[j]
           d == [j \in 1 .. n |-> F(j)]
<1>1. Len(c) \in Nat /\ m \in 1 .. Len(c) /\ n \in Nat /\ n >= Len(c) /\ n >= i
  BY LenProperties
<1>2. CASE m < i
  <2>1. m + 1 \in 1 .. n /\ m + 1 > 1 /\ m + 1 <= i /\ m + 1 <= m + 1
    BY <1>1, <1>2
  <2>2. F(m + 1) = c[m]
    BY <1>1, <2>1
  <2>3. d[m + 1] = c[m]
    BY <2>1, <2>2
  <2> QED  BY <2>1, <2>3 DEF Promote
<1>3. CASE ~(m < i)
  <2>1. m \in 1 .. n /\ m > 1 /\ m > i /\ m <= m + 1
    BY <1>1, <1>3
  <2>2. F(m) = c[m]
    BY <1>1, <2>1
  <2>3. d[m] = c[m]
    BY <2>1, <2>2
  <2> QED  BY <2>1, <2>3 DEF Promote
<1> QED  BY <1>2, <1>3

\* A cached key has a position.
LEMMA PositionProperties ==
    ASSUME NEW E, NEW c \in Seq(E), NEW k, Has(c, k)
    PROVE  /\ Position(c, k) \in 1 .. Len(c)
           /\ c[Position(c, k)].key = k
BY LenProperties DEF Has, Position

\* The displaced position exists or is the next free one, and is free only if
\* the cache is not full.
LEMMA SlotProperties ==
    ASSUME NEW E, NEW c \in Seq(E), NEW k
    PROVE  /\ Slot(c, k) \in 1 .. Len(c) + 1
           /\ Slot(c, k) > Len(c) => Len(c) < CacheSize
           /\ Has(c, k) => Slot(c, k) \in DOMAIN c /\ c[Slot(c, k)].key = k
<1>1. Len(c) \in Nat /\ DOMAIN c = 1 .. Len(c)
  BY LenProperties
<1>2. CASE Has(c, k)
  BY <1>1, <1>2, PositionProperties DEF Slot
<1>3. CASE ~Has(c, k)
  BY <1>1, <1>3, CacheSizeAssumption DEF Slot
<1> QED  BY <1>2, <1>3

\* Cache.Get keeps the cache well formed and its contents as they were.
LEMMA TouchProperties ==
    ASSUME NEW E, NEW c \in Seq(E), NEW k, Has(c, k)
    PROVE  /\ Touch(c, k) \in Seq(E)
           /\ Len(Touch(c, k)) = Len(c)
           /\ KeysDistinct(c) => KeysDistinct(Touch(c, k))
           /\ \A j \in DOMAIN Touch(c, k) : \E m \in DOMAIN c : Touch(c, k)[j] = c[m]
           /\ \E m \in DOMAIN c : c[m].key = k /\ c[m].sql = Lookup(c, k)
<1> DEFINE p == Position(c, k)
           d == Promote(c, p, c[p])
<1>1. p \in 1 .. Len(c) /\ c[p].key = k /\ DOMAIN c = 1 .. Len(c) /\ Len(c) \in Nat
  BY PositionProperties, LenProperties
<1>2. c[p] \in E
  BY <1>1, ElementOfSeq
<1>3. p \in 1 .. Len(c) + 1
  BY <1>1
<1> HIDE DEF p
<1>4. /\ d \in Seq(E)
      /\ Len(d) = Len(c)
      /\ d[1] = c[p]
      /\ \A j \in DOMAIN d :
            j # 1 => \E m \in DOMAIN c :
                        /\ m = IF j <= p THEN j - 1 ELSE j
                        /\ m # p
                        /\ d[j] = c[m]
  BY <1>1, <1>2, <1>3, PromoteProperties
<1>5. DOMAIN d = 1 .. Len(c)
  BY <1>4, LenProperties
<1> HIDE DEF d
<1>6. ASSUME KeysDistinct(c), NEW i \in DOMAIN d, NEW j \in DOMAIN d,
             d[i].key = d[j].key
      PROVE  i = j
  <2>1. CASE i = 1 /\ j = 1
    BY <2>1
  <2>2. CASE i = 1 /\ j # 1
    BY <1>1, <1>4, <1>6, <2>2 DEF KeysDistinct
  <2>3. CASE i # 1 /\ j = 1
    BY <1>1, <1>4, <1>6, <2>3 DEF KeysDistinct
  <2>4. CASE i # 1 /\ j # 1
    <3>1. PICK m \in DOMAIN c : /\ m = IF i <= p THEN i - 1 ELSE i
                                /\ m # p
                                /\ d[i] = c[m]
      BY <1>4, <2>4
    <3>2. PICK l \in DOMAIN c : /\ l = IF j <= p THEN j - 1 ELSE j
                                /\ l # p
                                /\ d[j] = c[l]
      BY <1>4, <2>4
    <3>3. m = l
      BY <1>6, <3>1, <3>2 DEF KeysDistinct
    <3> QED  BY <1>1, <1>5, <1>6, <3>1, <3>2, <3>3
  <2> QED  BY <2>1, <2>2, <2>3, <2>4
<1>7. Touch(c, k) = d /\ Lookup(c, k) = c[p].sql
  BY DEF Touch, Lookup, d, p
<1>8. KeysDistinct(c) => KeysDistinct(d)
  BY <1>6 DEF KeysDistinct
<1>9. \A j \in DOMAIN d : \E m \in DOMAIN c : d[j] = c[m]
  BY <1>1, <1>4
<1> QED
  BY <1>1, <1>4, <1>7, <1>8, <1>9

\* A lookup leaves the entry it has found in front.
LEMMA TouchFront ==
    ASSUME NEW E, \A e \in E : e = [key |-> e.key, sql |-> e.sql],
           NEW c \in Seq(E), NEW k, Has(c, k)
    PROVE  /\ Touch(c, k) # <<>>
           /\ Touch(c, k)[1] = [key |-> k, sql |-> Lookup(c, k)]
<1> DEFINE p == Position(c, k)
<1>1. p \in 1 .. Len(c) /\ c[p].key = k /\ Len(c) \in Nat
  BY PositionProperties, LenProperties
<1>2. c[p] \in E
  BY <1>1, ElementOfSeq
<1>3. p \in 1 .. Len(c) + 1 /\ ~(p > Len(c))
  BY <1>1
<1>4. c[p] = [key |-> k, sql |-> c[p].sql]
  BY <1>1, <1>2
<1> HIDE DEF p
<1>5. /\ Promote(c, p, c[p])[1] = c[p]
      /\ Promote(c, p, c[p]) \in Seq(E)
      /\ Len(Promote(c, p, c[p])) = Len(c)
  BY <1>2, <1>3, PromoteProperties
<1>6. Promote(c, p, c[p]) # <<>>
  BY <1>1, <1>5, EmptySeq
<1> QED  BY <1>4, <1>5, <1>6 DEF Touch, Lookup, p

\* Cache.Set keeps the cache within its size and its keys distinct; it holds
\* the new entry, in front, and otherwise only entries it held before.
LEMMA AddProperties ==
    ASSUME NEW E, NEW c \in Seq(E), NEW k, NEW v, [key |-> k, sql |-> v] \in E
    PROVE  /\ Add(c, k, v) \in Seq(E)
           /\ Add(c, k, v) # <<>>
           /\ Add(c, k, v)[1] = [key |-> k, sql |-> v]
           /\ Len(c) <= CacheSize => Len(Add(c, k, v)) <= CacheSize
           /\ KeysDistinct(c) => KeysDistinct(Add(c, k, v))
           /\ \A j \in DOMAIN Add(c, k, v) :
                \/ Add(c, k, v)[j] = [key |-> k, sql |-> v]
                \/ \E m \in DOMAIN c : Add(c, k, v)[j] = c[m]
<1> DEFINE e == [key |-> k, sql |-> v]
           p == Slot(c, k)
           d == Promote(c, p, e)
<1>1. /\ p \in 1 .. Len(c) + 1
      /\ p > Len(c) => Len(c) < CacheSize
      /\ Has(c, k) => p \in DOMAIN c /\ c[p].key = k
      /\ DOMAIN c = 1 .. Len(c)
      /\ Len(c) \in Nat
  BY SlotProperties, LenProperties
<1>2. e \in E /\ e.key = k
  OBVIOUS
<1> HIDE DEF p, e
<1>3. /\ d \in Seq(E)
      /\ Len(d) = IF p > Len(c) THEN p ELSE Len(c)
      /\ d[1] = e
      /\ \A j \in DOMAIN d :
            j # 1 => \E m \in DOMAIN c :
                        /\ m = IF j <= p THEN j - 1 ELSE j
                        /\ m # p
                        /\ d[j] = c[m]
  BY <1>1, <1>2, PromoteProperties
<1>4. DOMAIN d = 1 .. Len(d)
  BY <1>3, LenProperties
<1> HIDE DEF d
<1>5. ASSUME KeysDistinct(c), NEW m \in DOMAIN c, m # p
      PROVE  c[m].key # k
  BY <1>1, <1>5 DEF KeysDistinct, Has
<1>6. ASSUME KeysDistinct(c), NEW i \in DOMAIN d, NEW j \in DOMAIN d,
             d[i].key = d[j].key
      PROVE  i = j
  <2>1. CASE i = 1 /\ j = 1
    BY <2>1
  <2>2. CASE i = 1 /\ j # 1
    BY <1>2, <1>3, <1>5, <1>6, <2>2
  <2>3. CASE i # 1 /\ j = 1
    BY <1>2, <1>3, <1>5, <1>6, <2>3
  <2>4. CASE i # 1 /\ j # 1
    <3>1. PICK m \in DOMAIN c : /\ m = IF i <= p THEN i - 1 ELSE i
                                /\ m # p
                                /\ d[i] = c[m]
      BY <1>3, <2>4
    <3>2. PICK l \in DOMAIN c : /\ l = IF j <= p THEN j - 1 ELSE j
                                /\ l # p
                                /\ d[j] = c[l]
      BY <1>3, <2>4
    <3>3. m = l
      BY <1>6, <3>1, <3>2 DEF KeysDistinct
    <3> QED  BY <1>1, <1>3, <1>4, <1>6, <3>1, <3>2, <3>3
  <2> QED  BY <2>1, <2>2, <2>3, <2>4
<1>7. Add(c, k, v) = d
  BY DEF Add, d, p, e
<1>8. KeysDistinct(c) => KeysDistinct(d)
  BY <1>6 DEF KeysDistinct
<1>9. \A j \in DOMAIN d : d[j] = e \/ \E m \in DOMAIN c : d[j] = c[m]
  BY <1>3
<1>10. Len(c) <= CacheSize => Len(d) <= CacheSize
  BY <1>1, <1>3, CacheSizeAssumption
<1>11. d # <<>>
  BY <1>1, <1>3, LenProperties
<1> QED
  BY <1>3, <1>7, <1>8, <1>9, <1>10, <1>11 DEF e

-----------------------------------------------------------------------------
(* What the proofs about Proxy speak of *)

Before == {"idle", "dispatch", "parse", "mysql", "lookup", "translate"}
During == {"exec", "fix", "update", "save", "respond"}

\* What a session's locals are, by the place it is at: nothing before there is
\* SQL to run, then SQL, and from the success on SQL that Redshift executed.
Stages ==
    \A s \in Session :
        /\ pc[s] \in Before =>
            rs[s] = NoSQL /\ cur[s] = NoSQL /\ attempt[s] = 0 /\ calls[s] = 0
        /\ pc[s] \in During =>
            rs[s] \in SQL /\ cur[s] \in SQL /\ calls[s] \in {attempt[s], attempt[s] + 1}
        /\ pc[s] = "fix" => attempt[s] + 1 < MaxAttempts
        /\ pc[s] \in {"update", "save", "respond"} => cur[s] \in Accepted

Entry == [key : Shape, sql : SQL]

-----------------------------------------------------------------------------
(* Types and stages *)

LEMMA InitTyped == Init => TypeOK /\ Stages
<1> SUFFICES ASSUME Init PROVE TypeOK /\ Stages
  OBVIOUS
<1>1. (CHOOSE q \in Query : TRUE) \in Query
  BY ProxyAssumption
<1>2. Plain("none") \in Reply
  BY DEF Reply, PlainKind
<1>3. TypeOK
  BY <1>1, <1>2, MaxAttemptsAssumption
  DEF Init, TypeOK, KnowledgeInit, Step
<1>4. Stages
  BY DEF Init, Stages, Before, During
<1> QED  BY <1>3, <1>4

\* A session's return resets its locals and leaves the others' alone.
LEMMA ReturnTyped ==
    ASSUME TypeOK, Stages, NEW s \in Session, NEW r \in Reply, Return(s, r),
           UNCHANGED <<up, cache, queue, saving>>
    PROVE  TypeOK' /\ Stages'
<1>1. TypeOK'
  BY MaxAttemptsAssumption DEF TypeOK, Return, Go, Step
<1>2. Stages'
  BY DEF TypeOK, Stages, Return, Go, Before, During
<1> QED  BY <1>1, <1>2

\* A step in front of the first SQL moves pc and nothing that is typed.
LEMMA MoveTyped ==
    ASSUME TypeOK, Stages, NEW s \in Session, NEW p \in Before,
           pc[s] \in Before, Go(s, p), raced' \subseteq Session,
           UNCHANGED <<up, cache, queue, saving, sessionVars>>
    PROVE  TypeOK' /\ Stages'
<1>1. TypeOK'
  BY DEF TypeOK, Go, Step, Before, sessionVars
<1>2. Stages'
  BY DEF TypeOK, Stages, Go, Before, During, sessionVars
<1> QED  BY <1>1, <1>2

LEMMA PlainTyped == ASSUME NEW k \in PlainKind PROVE Plain(k) \in Reply
BY DEF Reply

LEMMA NextTyped == TypeOK /\ Stages /\ [Next]_vars => TypeOK' /\ Stages'
<1> SUFFICES ASSUME TypeOK, Stages, [Next]_vars PROVE TypeOK' /\ Stages'
  OBVIOUS
<1>1. ASSUME NEW s \in Session, NEW q \in Query, Ask(s, q)
      PROVE  TypeOK' /\ Stages'
  <2>1. Plain("none") \in Reply  BY PlainTyped DEF PlainKind
  <2>2. TypeOK'
    BY <1>1, <2>1 DEF TypeOK, Ask, Go, Step
  <2>3. Stages'
    BY <1>1 DEF TypeOK, Stages, Ask, Go, Before, During
  <2> QED  BY <2>2, <2>3
<1>2. ASSUME NEW s \in Session, Noop(s)
      PROVE  TypeOK' /\ Stages'
  BY <1>2, PlainTyped, ReturnTyped DEF Noop, PlainKind
<1>3. ASSUME NEW s \in Session, StartRoute(s)
      PROVE  TypeOK' /\ Stages'
  <2>1. raced' \subseteq Session
    BY <1>3 DEF StartRoute, TypeOK
  <2>2. CASE Whitelist = {}
    BY <1>3, <2>1, <2>2, MoveTyped DEF StartRoute, Before
  <2>3. CASE Whitelist # {}
    BY <1>3, <2>1, <2>3, MoveTyped DEF StartRoute, Before
  <2> QED  BY <2>2, <2>3
<1>4. ASSUME NEW s \in Session, ToRedshift(s)
      PROVE  TypeOK' /\ Stages'
  BY <1>4, MoveTyped DEF ToRedshift, Before, TypeOK
<1>5. ASSUME NEW s \in Session, ToMySQL(s)
      PROVE  TypeOK' /\ Stages'
  <2>1. CASE MySQLConfigured
    BY <1>5, <2>1, MoveTyped DEF ToMySQL, Before, TypeOK
  <2>2. CASE ~MySQLConfigured
    BY <1>5, <2>2, PlainTyped, ReturnTyped DEF ToMySQL, PlainKind
  <2> QED  BY <2>1, <2>2
<1>6. ASSUME NEW s \in Session, MySQLAnswers(s)
      PROVE  TypeOK' /\ Stages'
  BY <1>6, PlainTyped, ReturnTyped DEF MySQLAnswers, PlainKind
<1>7. ASSUME NEW s \in Session, CacheHit(s)
      PROVE  TypeOK' /\ Stages'
  <2> DEFINE k == Key(asked[s])
  <2>1. Has(cache, k) /\ cache' = Touch(cache, k)
    BY <1>7 DEF CacheHit
  <2>2. cache \in Seq(Entry)
    BY DEF TypeOK, Entry
  <2>3. cache' \in Seq(Entry) /\ Lookup(cache, k) \in SQL
    <3>1. \A m \in DOMAIN cache : cache[m] \in Entry
      BY <2>2, ElementOfSeq, LenProperties
    <3> HIDE DEF k
    <3>2. /\ Touch(cache, k) \in Seq(Entry)
          /\ \E m \in DOMAIN cache : cache[m].key = k /\ cache[m].sql = Lookup(cache, k)
      BY <2>1, <2>2, TouchProperties
    <3> QED  BY <2>1, <3>1, <3>2 DEF Entry
  <2>4. /\ pc[s] = "lookup"
        /\ rs' = [rs EXCEPT ![s] = Lookup(cache, k)]
        /\ cur' = [cur EXCEPT ![s] = Lookup(cache, k)]
        /\ Go(s, "exec")
        /\ UNCHANGED <<up, queue, saving, asked, attempt, calls, rows, reply, raced>>
    BY <1>7 DEF CacheHit
  <2> HIDE DEF k
  <2>5. TypeOK'
    BY <2>3, <2>4 DEF TypeOK, Go, Step, Entry
  <2>6. Stages'
    BY <2>3, <2>4 DEF TypeOK, Stages, Go, Before, During
  <2> QED  BY <2>5, <2>6
<1>8. ASSUME NEW s \in Session, CacheMiss(s)
      PROVE  TypeOK' /\ Stages'
  BY <1>8, MoveTyped DEF CacheMiss, Before, TypeOK
<1>9. ASSUME NEW s \in Session, Translated(s)
       PROVE  TypeOK' /\ Stages'
  <2>1. PICK t \in FirstTranslations(asked[s]) :
          /\ rs' = [rs EXCEPT ![s] = t]
          /\ cur' = [cur EXCEPT ![s] = t]
          /\ cache' = Add(cache, Key(asked[s]), t)
    BY <1>9 DEF Translated
  <2>2. asked[s] \in Query /\ Key(asked[s]) \in Shape /\ t \in SQL
    BY ProxyAssumption DEF TypeOK, Key, FirstTranslations, Query, SQL
  <2>3. cache' \in Seq(Entry)
    <3>1. [key |-> Key(asked[s]), sql |-> t] \in Entry
      BY <2>2 DEF Entry
    <3>2. cache \in Seq(Entry)
      BY DEF TypeOK, Entry
    <3> QED  BY <2>1, <3>1, <3>2, AddProperties
  <2>4. /\ pc[s] = "translate"
        /\ calls' = [calls EXCEPT ![s] = @ + 1]
        /\ Go(s, "exec")
        /\ UNCHANGED <<up, queue, saving, asked, attempt, rows, reply, raced>>
    BY <1>9 DEF Translated
  <2>5. TypeOK'
    BY <2>1, <2>2, <2>3, <2>4 DEF TypeOK, Go, Step, Entry
  <2>6. Stages'
    BY <2>1, <2>2, <2>4 DEF TypeOK, Stages, Go, Before, During
  <2> QED  BY <2>5, <2>6
<1>10. ASSUME NEW s \in Session, TranslateFails(s)
       PROVE  TypeOK' /\ Stages'
  BY <1>10, PlainTyped, ReturnTyped DEF TranslateFails, PlainKind
<1>11. ASSUME NEW s \in Session, ExecSucceeds(s)
       PROVE  TypeOK' /\ Stages'
  <2>1. TypeOK'
    BY <1>11 DEF TypeOK, ExecSucceeds, Go, Step
  <2>2. Stages'
    BY <1>11 DEF TypeOK, Stages, ExecSucceeds, ExecSelect, Go, Before, During
  <2> QED  BY <2>1, <2>2
<1>12. ASSUME NEW s \in Session, ExecFails(s)
       PROVE  TypeOK' /\ Stages'
  <2>1. CASE attempt[s] + 1 >= MaxAttempts
    BY <1>12, <2>1, PlainTyped, ReturnTyped DEF ExecFails, PlainKind
  <2>2. CASE ~(attempt[s] + 1 >= MaxAttempts)
    <3>1. /\ pc[s] = "exec"
          /\ Go(s, "fix")
          /\ UNCHANGED <<up, cache, queue, saving, raced, sessionVars>>
      BY <1>12, <2>2 DEF ExecFails
    <3>2. TypeOK'
      BY <3>1 DEF TypeOK, Go, Step, sessionVars
    <3>3. attempt[s] + 1 < MaxAttempts
      BY <2>2, MaxAttemptsAssumption DEF TypeOK
    <3>4. Stages'
      BY <3>1, <3>3 DEF TypeOK, Stages, Go, Before, During, sessionVars
    <3> QED  BY <3>2, <3>4
  <2> QED  BY <2>1, <2>2
<1>13. ASSUME NEW s \in Session, Fixed(s)
       PROVE  TypeOK' /\ Stages'
  <2>1. PICK t \in FixTranslations(asked[s], cur[s]) : cur' = [cur EXCEPT ![s] = t]
    BY <1>13 DEF Fixed
  <2>2. /\ pc[s] = "fix"
        /\ attempt' = [attempt EXCEPT ![s] = @ + 1]
        /\ calls' = [calls EXCEPT ![s] = @ + 1]
        /\ Go(s, "exec")
        /\ UNCHANGED <<up, cache, queue, saving, asked, rs, rows, reply, raced>>
    BY <1>13 DEF Fixed
  <2>3. asked[s] \in Query /\ cur[s] \in SQL /\ rs[s] \in SQL
    BY <2>2 DEF TypeOK, Stages, During
  <2>4. t \in SQL
    BY <2>3, ProxyAssumption DEF FixTranslations, SQL
  <2>5. attempt[s] + 1 \in 0 .. MaxAttempts - 1 /\ calls[s] \in {attempt[s], attempt[s] + 1}
    BY <2>2, MaxAttemptsAssumption DEF TypeOK, Stages, During
  <2>6. TypeOK'
    BY <2>1, <2>2, <2>4, <2>5 DEF TypeOK, Go, Step
  <2>7. Stages'
    BY <2>1, <2>2, <2>3, <2>4, <2>5, MaxAttemptsAssumption
    DEF TypeOK, Stages, Go, Before, During
  <2> QED  BY <2>6, <2>7
<1>14. ASSUME NEW s \in Session, FixFails(s)
       PROVE  TypeOK' /\ Stages'
  BY <1>14, PlainTyped, ReturnTyped DEF FixFails, PlainKind
<1>15. ASSUME NEW s \in Session, UpdateCache(s)
       PROVE  TypeOK' /\ Stages'
  <2>1. asked[s] \in Query /\ Key(asked[s]) \in Shape /\ cur[s] \in SQL
    BY <1>15 DEF UpdateCache, TypeOK, Stages, During, Key, Query
  <2>2. cache \in Seq(Entry)
    BY DEF TypeOK, Entry
  <2>3. cache' \in Seq(Entry)
    <3>1. [key |-> Key(asked[s]), sql |-> cur[s]] \in Entry
      BY <2>1 DEF Entry
    <3>2. Add(cache, Key(asked[s]), cur[s]) \in Seq(Entry)
      BY <2>2, <3>1, AddProperties
    <3> QED  BY <1>15, <2>2, <3>2 DEF UpdateCache
  <2>4. /\ pc[s] = "update"
        /\ Go(s, "save")
        /\ UNCHANGED <<up, queue, saving, raced, sessionVars>>
    BY <1>15 DEF UpdateCache
  <2>5. TypeOK'
    BY <2>3, <2>4 DEF TypeOK, Go, Step, Entry, sessionVars
  <2>6. Stages'
    BY <2>4 DEF TypeOK, Stages, Go, Before, During, sessionVars
  <2> QED  BY <2>5, <2>6
<1>16. ASSUME NEW s \in Session, SaveExample(s)
       PROVE  TypeOK' /\ Stages'
  <2>1. asked[s] \in Query /\ cur[s] \in SQL
    BY <1>16 DEF SaveExample, TypeOK, Stages, During
  <2>2. queue' \in Seq(Example)
    <3>1. [query |-> asked[s], sql |-> cur[s]] \in Example
      BY <2>1 DEF Example
    <3>2. queue \in Seq(Example)
      BY DEF TypeOK
    <3>3. Append(queue, [query |-> asked[s], sql |-> cur[s]]) \in Seq(Example)
      BY <3>1, <3>2, AppendProperties
    <3> QED  BY <1>16, <3>2, <3>3 DEF SaveExample, Enqueue
  <2>3. /\ pc[s] = "save"
        /\ Go(s, "respond")
        /\ UNCHANGED <<up, cache, saving, raced, sessionVars>>
    BY <1>16 DEF SaveExample
  <2>4. TypeOK'
    BY <2>2, <2>3 DEF TypeOK, Go, Step, sessionVars
  <2>5. Stages'
    BY <2>3 DEF TypeOK, Stages, Go, Before, During, sessionVars
  <2> QED  BY <2>4, <2>5
<1>17. ASSUME NEW s \in Session, Respond(s)
       PROVE  TypeOK' /\ Stages'
  <2>1. RowsOf(cur[s]) \in Reply /\ Plain("error") \in Reply
    BY <1>17, PlainTyped DEF Respond, Stages, During, Reply, PlainKind
  <2> QED  BY <1>17, <2>1, ReturnTyped DEF Respond
<1>18. CASE Worker
  <2>1. queue \in Seq(Example)
    BY DEF TypeOK
  <2>2. queue' \in Seq(Example) /\ saving' \in Example \union {NoExample}
    <3>1. CASE SaveWorkerTake
      <4>1. queue # <<>> /\ saving' = Head(queue) /\ queue' = Tail(queue)
        BY <3>1 DEF SaveWorkerTake, Take
      <4> QED  BY <2>1, <4>1, HeadTailProperties
    <3>2. CASE SaveWorkerDone
      BY <2>1, <3>2 DEF SaveWorkerDone, PostDone
    <3> QED  BY <1>18, <3>1, <3>2 DEF Worker
  <2>3. UNCHANGED <<up, cache, pc, raced, sessionVars>>
    BY <1>18 DEF Worker, SaveWorkerTake, SaveWorkerDone
  <2>4. TypeOK'
    BY <2>2, <2>3 DEF TypeOK, sessionVars
  <2>5. Stages'
    BY <2>3 DEF Stages, sessionVars
  <2> QED  BY <2>4, <2>5
<1>19. CASE Shutdown
  <2>1. \A s \in Session :
          (IF pc[s] = "idle" THEN reply[s] ELSE Plain("lost")) \in Reply
    BY PlainTyped DEF TypeOK, PlainKind
  <2>2. TypeOK'
    <3>1. cache' \in Seq([key : Shape, sql : SQL]) /\ queue' \in Seq(Example)
      BY <1>19 DEF Shutdown, KnowledgeLost
    <3>2. reply' \in [Session -> Reply]
      BY <1>19, <2>1 DEF Shutdown
    <3>3. attempt' \in [Session -> 0 .. MaxAttempts - 1] /\ calls' \in [Session -> Nat]
      BY <1>19, MaxAttemptsAssumption DEF Shutdown
    <3>4. /\ pc' \in [Session -> Step]
          /\ rs' \in [Session -> SQL \union {NoSQL}]
          /\ cur' \in [Session -> SQL \union {NoSQL}]
          /\ rows' \in [Session -> BOOLEAN]
      BY <1>19 DEF Shutdown, Step
    <3> QED
      BY <1>19, <3>1, <3>2, <3>3, <3>4 DEF TypeOK, Shutdown, KnowledgeLost
  <2>3. Stages'
    BY <1>19 DEF Shutdown, Stages, Before, During
  <2> QED  BY <2>2, <2>3
<1>20. CASE Startup
  <2>1. TypeOK'
    BY <1>20 DEF Startup, TypeOK, sessionVars
  <2>2. Stages'
    BY <1>20 DEF Startup, Stages, sessionVars
  <2> QED  BY <2>1, <2>2
<1>21. CASE UNCHANGED vars
  <2>1. TypeOK'
    BY <1>21 DEF vars, TypeOK, sessionVars
  <2>2. Stages'
    BY <1>21 DEF vars, Stages, sessionVars
  <2> QED  BY <2>1, <2>2
<1>22. ASSUME NEW s \in Session, Serve(s)
       PROVE  TypeOK' /\ Stages'
  BY <1>2, <1>3, <1>4, <1>5, <1>6, <1>7, <1>8, <1>9, <1>10, <1>11, <1>12,
     <1>13, <1>14, <1>15, <1>16, <1>17, <1>22 DEF Serve
<1> QED  BY <1>1, <1>18, <1>19, <1>20, <1>21, <1>22 DEF Next

LEMMA Typed == Spec => [](TypeOK /\ Stages)
BY InitTyped, NextTyped, PTL DEF Spec

\* Every variable of the proxy keeps its type.
THEOREM TypeCorrect == Spec => []TypeOK
BY Typed, PTL

-----------------------------------------------------------------------------
(* Bounded cost *)

\* No query has MAX_ATTEMPTS fixes, and each fix is one call of the agent.
THEOREM AgentCallsCorrect == Spec => []AgentCallsBounded
<1>1. TypeOK /\ Stages => AgentCallsBounded
  <2> SUFFICES ASSUME TypeOK, Stages, NEW s \in Session
               PROVE  /\ attempt[s] < MaxAttempts
                      /\ calls[s] \in {attempt[s], attempt[s] + 1}
    BY DEF AgentCallsBounded
  <2>1. pc[s] \in Before \union During /\ attempt[s] \in 0 .. MaxAttempts - 1
    BY DEF TypeOK, Step, Before, During
  <2>2. calls[s] \in {attempt[s], attempt[s] + 1}
    BY <2>1 DEF Stages
  <2> QED  BY <2>1, <2>2, MaxAttemptsAssumption
<1> QED  BY <1>1, Typed, PTL

\* A query never has more than 2 * MAX_ATTEMPTS + 6 steps left.
LEMMA StepsLeftTyped ==
    TypeOK => \A s \in Session : StepsLeft(s) \in 0 .. (2 * MaxAttempts + 6)
<1> SUFFICES ASSUME TypeOK, NEW s \in Session
             PROVE  StepsLeft(s) \in 0 .. (2 * MaxAttempts + 6)
  OBVIOUS
<1> DEFINE attempts == 2 * (MaxAttempts - 1 - attempt[s])
<1>1. attempts \in Nat /\ attempts + 8 <= 2 * MaxAttempts + 6 /\ MaxAttempts \in Nat
  BY MaxAttemptsAssumption DEF TypeOK
<1>2. pc[s] \in Step
  BY DEF TypeOK
<1>3. StepsLeft(s) \in {0, 1, 2, 3} \union {n + attempts : n \in 3 .. 8}
  BY <1>2 DEF StepsLeft, Step
<1> HIDE DEF attempts
<1> QED  BY <1>1, <1>3

\* The server's own step for a session brings its query nearer to the answer.
LEMMA ServeGetsOn ==
    ASSUME TypeOK, Stages, NEW s \in Session, Serve(s)
    PROVE  StepsLeft(s)' < StepsLeft(s)
<1> DEFINE a == attempt[s]
<1>1. a \in Nat /\ a <= MaxAttempts - 1 /\ MaxAttempts \in Nat
  BY MaxAttemptsAssumption DEF TypeOK
<1>2. pc[s] \in Before => a = 0
  BY DEF Stages
<1> HIDE DEF a
<1>3. ASSUME NEW r, Return(s, r), pc[s] # "idle" PROVE StepsLeft(s)' < StepsLeft(s)
  <2>1. pc'[s] = "idle"
    BY <1>3 DEF Return, Go, TypeOK
  <2>2. StepsLeft(s)' = 0
    BY <2>1 DEF StepsLeft
  <2>3. pc[s] \in Step
    BY DEF TypeOK
  <2>4. StepsLeft(s) > 0
    BY <1>1, <1>3, <2>3 DEF StepsLeft, Step, a
  <2> QED  BY <2>2, <2>4
<1>4. CASE Noop(s) \/ MySQLAnswers(s) \/ TranslateFails(s) \/ FixFails(s) \/ Respond(s)
  BY <1>3, <1>4 DEF Noop, MySQLAnswers, TranslateFails, FixFails, Respond
<1>5. ASSUME NEW step \in Step, Go(s, step), attempt' = attempt
      PROVE  pc'[s] = step /\ attempt'[s] = a
  BY <1>5 DEF Go, TypeOK, a
<1>6. CASE StartRoute(s) \/ ToRedshift(s) \/ (ToMySQL(s) /\ MySQLConfigured)
  <2>1. /\ attempt' = attempt
        /\ \/ pc[s] = "dispatch" /\ (Go(s, "lookup") \/ Go(s, "parse"))
           \/ pc[s] = "parse" /\ (Go(s, "lookup") \/ Go(s, "mysql"))
    BY <1>6 DEF StartRoute, ToRedshift, ToMySQL, sessionVars
  <2>2. /\ attempt'[s] = a
        /\ \/ pc[s] = "dispatch" /\ pc'[s] \in {"lookup", "parse"}
           \/ pc[s] = "parse" /\ pc'[s] \in {"lookup", "mysql"}
    BY <1>5, <2>1 DEF Step
  <2> QED  BY <1>1, <2>2 DEF StepsLeft, a
<1>7. CASE ToMySQL(s) /\ ~MySQLConfigured
  BY <1>3, <1>7 DEF ToMySQL
<1>8. CASE CacheHit(s) \/ CacheMiss(s) \/ Translated(s)
  <2>1. /\ attempt' = attempt
        /\ \/ pc[s] = "lookup" /\ (Go(s, "exec") \/ Go(s, "translate"))
           \/ pc[s] = "translate" /\ Go(s, "exec")
    BY <1>8 DEF CacheHit, CacheMiss, Translated, sessionVars
  <2>2. /\ attempt'[s] = a
        /\ \/ pc[s] = "lookup" /\ pc'[s] \in {"exec", "translate"}
           \/ pc[s] = "translate" /\ pc'[s] = "exec"
    BY <1>5, <2>1 DEF Step
  <2> QED  BY <1>1, <2>2 DEF StepsLeft, a
<1>9. CASE ExecSucceeds(s) \/ UpdateCache(s) \/ SaveExample(s)
  <2>1. /\ attempt' = attempt
        /\ \/ pc[s] = "exec" /\ Go(s, "update")
           \/ pc[s] = "update" /\ Go(s, "save")
           \/ pc[s] = "save" /\ Go(s, "respond")
    BY <1>9 DEF ExecSucceeds, UpdateCache, SaveExample, sessionVars
  <2>2. \/ pc[s] = "exec" /\ pc'[s] = "update"
        \/ pc[s] = "update" /\ pc'[s] = "save"
        \/ pc[s] = "save" /\ pc'[s] = "respond"
    BY <1>5, <2>1 DEF Step
  <2> QED  BY <1>1, <2>2 DEF StepsLeft, a
<1>10. CASE ExecFails(s)
  <2>1. CASE Return(s, Plain("error"))
    BY <1>3, <1>10, <2>1 DEF ExecFails
  <2>2. CASE Go(s, "fix") /\ attempt' = attempt
    <3>1. pc[s] = "exec" /\ pc'[s] = "fix" /\ attempt'[s] = a
      BY <1>5, <1>10, <2>2 DEF ExecFails, Step
    <3> QED  BY <1>1, <3>1 DEF StepsLeft, a
  <2> QED  BY <1>10, <2>1, <2>2 DEF ExecFails, sessionVars
<1>11. CASE Fixed(s)
  <2>1. pc[s] = "fix" /\ pc'[s] = "exec" /\ attempt'[s] = a + 1
    BY <1>11 DEF Fixed, Go, TypeOK, a
  <2> QED  BY <1>1, <2>1 DEF StepsLeft, a
<1> QED  BY <1>4, <1>6, <1>7, <1>8, <1>9, <1>10, <1>11 DEF Serve

\* What goes on elsewhere leaves a query where it is, or ends it.
LEMMA OthersLeaveSteps ==
    ASSUME TypeOK, NEW s \in Session, [Next]_vars, ~Serve(s), pc[s] # "idle"
    PROVE  StepsLeft(s)' <= StepsLeft(s)
<1>1. StepsLeft(s) \in Nat
  BY StepsLeftTyped
<1>2. ASSUME pc'[s] = pc[s], attempt'[s] = attempt[s]
      PROVE  StepsLeft(s)' <= StepsLeft(s)
  <2>1. StepsLeft(s)' = StepsLeft(s)
    BY <1>2 DEF StepsLeft
  <2> QED  BY <1>1, <2>1
<1>3. ASSUME NEW o \in Session, o # s, Serve(o)
      PROVE  pc'[s] = pc[s] /\ attempt'[s] = attempt[s]
  <2>1. /\ \E step : pc' = [pc EXCEPT ![o] = step]
        /\ attempt' = attempt \/ \E n : attempt' = [attempt EXCEPT ![o] = n]
    <3>1. ASSUME NEW r, Return(o, r)
          PROVE  /\ pc' = [pc EXCEPT ![o] = "idle"]
                 /\ attempt' = [attempt EXCEPT ![o] = 0]
      BY <3>1 DEF Return, Go
    <3>2. CASE \/ Noop(o) \/ StartRoute(o) \/ ToRedshift(o) \/ ToMySQL(o)
               \/ MySQLAnswers(o) \/ CacheHit(o) \/ CacheMiss(o)
      BY <3>1, <3>2 DEF Noop, StartRoute, ToRedshift, ToMySQL, MySQLAnswers, CacheHit,
                        CacheMiss, Go, sessionVars
    <3>3. CASE \/ Translated(o) \/ TranslateFails(o) \/ ExecSucceeds(o) \/ ExecFails(o)
               \/ FixFails(o) \/ UpdateCache(o) \/ SaveExample(o) \/ Respond(o)
      BY <3>1, <3>3 DEF Translated, TranslateFails, ExecSucceeds, ExecFails, FixFails,
                        UpdateCache, SaveExample, Respond, Go, sessionVars
    <3>4. CASE Fixed(o)
      BY <3>4 DEF Fixed, Go
    <3> QED  BY <1>3, <3>2, <3>3, <3>4 DEF Serve
  <2> QED  BY <1>3, <2>1 DEF TypeOK
<1>4. ASSUME NEW o \in Session, NEW q \in Query, Ask(o, q)
      PROVE  pc'[s] = pc[s] /\ attempt'[s] = attempt[s]
  BY <1>4 DEF Ask, Go, TypeOK
<1>5. CASE Worker \/ Startup \/ UNCHANGED vars
  BY <1>2, <1>5 DEF Worker, SaveWorkerTake, SaveWorkerDone, Startup, vars, sessionVars
<1>6. CASE Shutdown
  <2>1. StepsLeft(s)' = 0
    BY <1>6 DEF Shutdown, StepsLeft
  <2> QED  BY <1>1, <2>1
<1> QED  BY <1>2, <1>3, <1>4, <1>5, <1>6 DEF Next

\* For any MAX_ATTEMPTS and any number of sessions, a query is answered after
\* at most 2 * MAX_ATTEMPTS + 6 steps of the server: no session can go round
\* the retry loop for ever, or be sent back by another one.
THEOREM QueriesGetOnCorrect == Spec => QueriesGetOn
<1> DEFINE GetsOn == \A s \in Session :
                        /\ Serve(s) => StepsLeft(s)' < StepsLeft(s)
                        /\ pc[s] # "idle" => StepsLeft(s)' <= StepsLeft(s)
<1>1. TypeOK' => (\A s \in Session : StepsLeft(s) \in 0 .. (2 * MaxAttempts + 6))'
  BY StepsLeftTyped, PTL
<1>2. TypeOK /\ TypeOK' /\ Stages /\ [Next]_vars => [GetsOn]_vars
  <2> SUFFICES ASSUME TypeOK, TypeOK', Stages, [Next]_vars, NEW s \in Session,
                      pc[s] # "idle"
               PROVE  StepsLeft(s)' <= StepsLeft(s)
    BY ServeGetsOn
  <2>1. CASE Serve(s)
    <3>1. StepsLeft(s) \in Nat /\ StepsLeft(s)' \in Nat
      BY <1>1, StepsLeftTyped
    <3>2. StepsLeft(s)' < StepsLeft(s)
      BY <2>1, ServeGetsOn
    <3> QED  BY <3>1, <3>2
  <2>2. CASE ~Serve(s)
    BY <2>2, OthersLeaveSteps
  <2> QED  BY <2>1, <2>2
<1> QED  BY <1>2, Typed, PTL DEF Spec, QueriesGetOn

-----------------------------------------------------------------------------
(* The cache *)

\* How one step may change the cache: it is lost, looked up, or set, to a first
\* translation of the session's query or to the SQL that has just worked.
LEMMA CacheSteps ==
    ASSUME TypeOK, Stages, [Next]_vars
    PROVE  \/ cache' = cache
           \/ cache' = <<>>
           \/ \E k : Has(cache, k) /\ cache' = Touch(cache, k)
           \/ \E s \in Session, t \in SQL :
                /\ cache' = Add(cache, Key(asked[s]), t)
                /\ \/ t \in FirstTranslations(asked[s])
                   \/ t = cur[s] /\ t \in Accepted
<1> DEFINE Changes == \/ cache' = cache
                      \/ cache' = <<>>
                      \/ \E k : Has(cache, k) /\ cache' = Touch(cache, k)
                      \/ \E s \in Session, t \in SQL :
                            /\ cache' = Add(cache, Key(asked[s]), t)
                            /\ \/ t \in FirstTranslations(asked[s])
                               \/ t = cur[s] /\ t \in Accepted
<1>1. ASSUME NEW s \in Session, CacheHit(s) PROVE Changes
  BY <1>1 DEF CacheHit
<1>2. ASSUME NEW s \in Session, Translated(s) PROVE Changes
  <2>1. PICK t \in FirstTranslations(asked[s]) : cache' = Add(cache, Key(asked[s]), t)
    BY <1>2 DEF Translated
  <2>2. t \in SQL
    BY ProxyAssumption DEF TypeOK, FirstTranslations, SQL
  <2> QED  BY <2>1, <2>2
<1>3. ASSUME NEW s \in Session, UpdateCache(s) PROVE Changes
  <2>1. cur[s] \in SQL /\ cur[s] \in Accepted
    BY <1>3 DEF UpdateCache, Stages, During
  <2> QED  BY <1>3, <2>1 DEF UpdateCache
<1>4. ASSUME NEW s \in Session, Serve(s) PROVE Changes
  <2>1. CASE Noop(s) \/ StartRoute(s) \/ ToRedshift(s) \/ ToMySQL(s)
             \/ MySQLAnswers(s) \/ CacheMiss(s) \/ TranslateFails(s)
    BY <2>1 DEF Noop, StartRoute, ToRedshift, ToMySQL, MySQLAnswers,
                CacheMiss, TranslateFails
  <2>2. CASE ExecSucceeds(s) \/ ExecFails(s) \/ Fixed(s) \/ FixFails(s)
             \/ SaveExample(s) \/ Respond(s)
    BY <2>2 DEF ExecSucceeds, ExecFails, Fixed, FixFails, SaveExample, Respond
  <2> QED  BY <1>1, <1>2, <1>3, <1>4, <2>1, <2>2 DEF Serve
<1>5. CASE Worker \/ Shutdown \/ Startup \/ UNCHANGED vars
  BY <1>5 DEF Worker, SaveWorkerTake, SaveWorkerDone, Shutdown, Startup, vars
<1>6. ASSUME NEW s \in Session, NEW q \in Query, Ask(s, q) PROVE Changes
  BY <1>6 DEF Ask
<1> QED  BY <1>4, <1>5, <1>6 DEF Next

\* A cache that satisfies TypeOK is a sequence of entries, and what Add puts
\* into it for a session's query is one.
LEMMA CacheTyped ==
    ASSUME TypeOK
    PROVE  /\ cache \in Seq(Entry)
           /\ \A s \in Session, t \in SQL : [key |-> Key(asked[s]), sql |-> t] \in Entry
BY DEF TypeOK, Entry, Key, Query

\* Every step keeps the cache within CACHE_SIZE and its keys apart.
LEMMA CacheWellFormedSteps ==
    ASSUME TypeOK, Stages, CacheWellFormed, [Next]_vars
    PROVE  CacheWellFormed'
<1>1. Len(cache) <= CacheSize /\ KeysDistinct(cache)
  BY DEF CacheWellFormed, KeysDistinct
<1>2. Len(cache') <= CacheSize /\ KeysDistinct(cache')
  <2>1. CASE cache' = cache
    BY <1>1, <2>1
  <2>2. CASE cache' = <<>>
    BY <2>2, CacheSizeAssumption DEF KeysDistinct
  <2>3. ASSUME NEW k, Has(cache, k), cache' = Touch(cache, k)
        PROVE  Len(cache') <= CacheSize /\ KeysDistinct(cache')
    BY <1>1, <2>3, CacheTyped, TouchProperties
  <2>4. ASSUME NEW s \in Session, NEW t \in SQL,
               cache' = Add(cache, Key(asked[s]), t)
        PROVE  Len(cache') <= CacheSize /\ KeysDistinct(cache')
    <3>1. cache \in Seq(Entry) /\ [key |-> Key(asked[s]), sql |-> t] \in Entry
      BY CacheTyped
    <3> QED  BY <1>1, <2>4, <3>1, AddProperties
  <2> QED  BY <2>1, <2>2, <2>3, <2>4, CacheSteps
<1> QED  BY <1>2 DEF CacheWellFormed, KeysDistinct

LEMMA CacheWellFormedInit == Init => CacheWellFormed
BY CacheSizeAssumption DEF Init, CacheWellFormed

\* The cache stays within CACHE_SIZE and holds a key once.
THEOREM CacheCorrect == Spec => []CacheWellFormed
<1>1. TypeOK /\ Stages /\ CacheWellFormed /\ [Next]_vars => CacheWellFormed'
  BY CacheWellFormedSteps
<1> QED  BY <1>1, CacheWellFormedInit, Typed, PTL DEF Spec

\* What remains of the entries of c in d, if k is the key that was used last.
Remains(c, d, k) ==
    \A i \in DOMAIN c :
        \/ \E j \in DOMAIN d : j <= i + 1 /\ d[j].key = c[i].key
        \/ i = CacheSize /\ ~Has(c, k)

\* A lookup puts its own entry in front and displaces none.
LEMMA TouchRemains ==
    ASSUME NEW E, NEW c \in Seq(E), NEW k, Has(c, k)
    PROVE  Remains(c, Touch(c, k), k)
<1> DEFINE p == Position(c, k)
<1>1. p \in 1 .. Len(c) /\ DOMAIN c = 1 .. Len(c) /\ Len(c) \in Nat /\ p \in 1 .. Len(c) + 1
  BY PositionProperties, LenProperties
<1>2. c[p] \in E
  BY <1>1, ElementOfSeq
<1> HIDE DEF p
<1>3. /\ Promote(c, p, c[p]) \in Seq(E)
      /\ Len(Promote(c, p, c[p])) = Len(c)
      /\ Promote(c, p, c[p])[1] = c[p]
  BY <1>1, <1>2, PromoteProperties
<1>4. DOMAIN Promote(c, p, c[p]) = 1 .. Len(c)
  BY <1>3, LenProperties
<1>5. ASSUME NEW i \in DOMAIN c
      PROVE  \E j \in DOMAIN Promote(c, p, c[p]) :
                j <= i + 1 /\ Promote(c, p, c[p])[j].key = c[i].key
  <2>1. CASE i = p
    BY <1>1, <1>3, <1>4, <2>1
  <2>2. CASE i # p
    BY <1>1, <1>2, <2>2, PromoteKeeps
  <2> QED  BY <2>1, <2>2
<1> QED  BY <1>5 DEF Remains, Touch, p

\* Setting a key displaces its own entry, or none, or the last of a full cache.
LEMMA AddRemains ==
    ASSUME NEW E, NEW c \in Seq(E), NEW k, NEW v, [key |-> k, sql |-> v] \in E,
           Len(c) <= CacheSize
    PROVE  Remains(c, Add(c, k, v), k)
<1> DEFINE e == [key |-> k, sql |-> v]
           p == Slot(c, k)
<1>1. /\ p \in 1 .. Len(c) + 1
      /\ Has(c, k) => p \in DOMAIN c /\ c[p].key = k
      /\ DOMAIN c = 1 .. Len(c)
      /\ Len(c) \in Nat
  BY SlotProperties, LenProperties
<1>2. ASSUME p \in DOMAIN c, ~Has(c, k)
      PROVE  p = CacheSize
  <2>1. p = IF Len(c) < CacheSize THEN Len(c) + 1 ELSE Len(c)
    BY <1>2 DEF Slot
  <2> HIDE DEF p
  <2>2. Len(c) <= CacheSize /\ Len(c) \in Nat /\ CacheSize \in Nat /\ p \in 1 .. Len(c)
    BY <1>1, <1>2, CacheSizeAssumption
  <2> QED  BY <2>1, <2>2
<1>3. e \in E /\ e.key = k
  OBVIOUS
<1> HIDE DEF p, e
<1>4. /\ Promote(c, p, e) \in Seq(E)
      /\ Len(Promote(c, p, e)) = IF p > Len(c) THEN p ELSE Len(c)
      /\ Promote(c, p, e)[1] = e
  BY <1>1, <1>3, PromoteProperties
<1>5. 1 \in DOMAIN Promote(c, p, e)
  BY <1>1, <1>4, LenProperties
<1>6. ASSUME NEW i \in DOMAIN c
      PROVE  \/ \E j \in DOMAIN Promote(c, p, e) :
                    j <= i + 1 /\ Promote(c, p, e)[j].key = c[i].key
             \/ i = CacheSize /\ ~Has(c, k)
  <2>1. CASE i # p
    BY <1>1, <1>3, <2>1, PromoteKeeps
  <2>2. CASE i = p /\ Has(c, k)
    BY <1>1, <1>3, <1>4, <1>5, <2>2
  <2>3. CASE i = p /\ ~Has(c, k)
    BY <1>2, <2>3
  <2> QED  BY <2>1, <2>2, <2>3
<1> QED  BY <1>6 DEF Remains, Add, e, p

\* Only a hit takes a session from the lookup to Redshift.
LEMMA HitsOnly ==
    ASSUME TypeOK, [Next]_vars, NEW s \in Session, pc[s] = "lookup", pc'[s] = "exec"
    PROVE  CacheHit(s)
<1>1. CASE Serve(s)
  <2>1. CASE Noop(s) \/ StartRoute(s) \/ ToRedshift(s) \/ ToMySQL(s)
             \/ MySQLAnswers(s) \/ Translated(s) \/ TranslateFails(s)
    BY <2>1 DEF Noop, StartRoute, ToRedshift, ToMySQL, MySQLAnswers, Translated,
                TranslateFails
  <2>2. CASE ExecSucceeds(s) \/ ExecFails(s) \/ Fixed(s) \/ FixFails(s)
             \/ UpdateCache(s) \/ SaveExample(s) \/ Respond(s)
    BY <2>2 DEF ExecSucceeds, ExecFails, Fixed, FixFails, UpdateCache, SaveExample, Respond
  <2>3. CASE CacheMiss(s)
    BY <2>3 DEF CacheMiss, Go, TypeOK
  <2> QED  BY <1>1, <2>1, <2>2, <2>3 DEF Serve
<1>2. ASSUME NEW o \in Session, o # s, Serve(o)
      PROVE  FALSE
  <2>1. \A p \in Step : Go(o, p) => pc'[s] = pc[s]
    BY <1>2 DEF Go, TypeOK
  <2>2. \A r : Return(o, r) => pc'[s] = pc[s]
    BY <1>2 DEF Return, Go, TypeOK
  <2>3. CASE Noop(o) \/ StartRoute(o) \/ ToRedshift(o) \/ ToMySQL(o) \/ MySQLAnswers(o)
             \/ CacheHit(o) \/ CacheMiss(o)
    BY <2>1, <2>2, <2>3 DEF Noop, StartRoute, ToRedshift, ToMySQL, MySQLAnswers, CacheHit,
                            CacheMiss, Step
  <2>4. CASE Translated(o) \/ TranslateFails(o) \/ ExecSucceeds(o) \/ ExecFails(o)
             \/ Fixed(o) \/ FixFails(o) \/ UpdateCache(o) \/ SaveExample(o) \/ Respond(o)
    BY <2>1, <2>2, <2>4 DEF Translated, TranslateFails, ExecSucceeds, ExecFails, Fixed,
                            FixFails, UpdateCache, SaveExample, Respond, Step
  <2> QED  BY <1>2, <2>3, <2>4 DEF Serve
<1>3. ASSUME NEW o \in Session, NEW q \in Query, Ask(o, q)
      PROVE  FALSE
  BY <1>3 DEF Ask, Go, TypeOK
<1>4. CASE Worker \/ Shutdown \/ Startup \/ UNCHANGED vars
  BY <1>4 DEF Worker, SaveWorkerTake, SaveWorkerDone, Shutdown, Startup, vars
<1> QED  BY <1>1, <1>2, <1>3, <1>4 DEF Next

\* The cache forgets what was not used for longest, whatever its size: an entry
\* survives the next n insertions of other keys if n entries fit behind it.
THEOREM EvictsLeastRecentCorrect == Spec => EvictsLeastRecent
<1> DEFINE Used == \A s \in Session :
                      pc[s] = "lookup" /\ pc'[s] = "exec" => cache'[1].key = Key(asked[s])
           Kept == cache' # <<>> => Remains(cache, cache', cache'[1].key)
<1>1. ASSUME TypeOK, Stages, CacheWellFormed, [Next]_vars
      PROVE  Used /\ Kept
  <2>1. cache \in Seq(Entry) /\ (\A e \in Entry : e = [key |-> e.key, sql |-> e.sql])
    BY <1>1, CacheTyped DEF Entry
  <2>2. Used
    <3> SUFFICES ASSUME NEW s \in Session, pc[s] = "lookup", pc'[s] = "exec"
                 PROVE  cache'[1].key = Key(asked[s])
      OBVIOUS
    <3>1. Has(cache, Key(asked[s])) /\ cache' = Touch(cache, Key(asked[s]))
      BY <1>1, HitsOnly DEF CacheHit
    <3>2. cache'[1] = [key |-> Key(asked[s]), sql |-> Lookup(cache, Key(asked[s]))]
      BY <2>1, <3>1, TouchFront
    <3> QED  BY <3>2
  <2>3. Kept
    <3>1. CASE cache' = cache
      <4>1. DOMAIN cache = 1 .. Len(cache) /\ Len(cache) \in Nat
        BY <2>1, LenProperties
      <4>2. \A i \in DOMAIN cache : i <= i + 1
        BY <4>1
      <4> QED  BY <3>1, <4>2 DEF Remains
    <3>2. CASE cache' = <<>>
      BY <3>2
    <3>3. ASSUME NEW k, Has(cache, k), cache' = Touch(cache, k)
          PROVE  Kept
      <4>1. cache'[1] = [key |-> k, sql |-> Lookup(cache, k)]
        BY <2>1, <3>3, TouchFront
      <4>2. Remains(cache, cache', k)
        BY <2>1, <3>3, TouchRemains
      <4> QED  BY <4>1, <4>2
    <3>4. ASSUME NEW s \in Session, NEW t \in SQL, cache' = Add(cache, Key(asked[s]), t)
          PROVE  Kept
      <4>1. [key |-> Key(asked[s]), sql |-> t] \in Entry /\ Len(cache) <= CacheSize
        BY <1>1, CacheTyped DEF CacheWellFormed
      <4>2. cache' # <<>> /\ cache'[1] = [key |-> Key(asked[s]), sql |-> t]
        BY <1>1, <3>4, CacheTyped, AddProperties
      <4>3. Remains(cache, cache', Key(asked[s]))
        BY <2>1, <3>4, <4>1, AddRemains
      <4> QED  BY <4>2, <4>3
    <3> HIDE DEF Kept
    <3> QED  BY <1>1, <3>1, <3>2, <3>3, <3>4, CacheSteps
  <2> QED  BY <2>2, <2>3
<1>2. TypeOK /\ Stages /\ CacheWellFormed /\ [Next]_vars => [Used /\ Kept]_<<cache, pc>>
  BY <1>1
<1>3. (Used /\ Kept) =>
        /\ \A s \in Session :
             pc[s] = "lookup" /\ pc'[s] = "exec" => cache'[1].key = Key(asked[s])
        /\ cache' # <<>> =>
             \A i \in DOMAIN cache :
                \/ \E j \in DOMAIN cache' : j <= i + 1 /\ cache'[j].key = cache[i].key
                \/ i = CacheSize /\ ~Has(cache, cache'[1].key)
  BY DEF Remains
<1> HIDE DEF Used, Kept
<1> QED  BY <1>2, <1>3, Typed, CacheCorrect, PTL DEF Spec, EvictsLeastRecent

\* A fix is cached only after Redshift has executed it.
THEOREM RepairsCorrect == Spec => []RepairsProven
<1> DEFINE Fine(e) == e.sql \in Accepted \/ e.sql.ver \in Drafts
<1>1. Init => RepairsProven
  BY DEF Init, RepairsProven
<1>2. TypeOK /\ Stages /\ RepairsProven /\ [Next]_vars => RepairsProven'
  <2> SUFFICES ASSUME TypeOK, Stages, RepairsProven, [Next]_vars,
                      NEW j \in DOMAIN cache'
               PROVE  Fine(cache'[j])
    BY DEF RepairsProven
  <2>1. \A m \in DOMAIN cache : Fine(cache[m])
    BY DEF RepairsProven
  <2>2. CASE cache' = cache
    BY <2>1, <2>2
  <2>3. CASE cache' = <<>>
    BY <2>3
  <2>4. ASSUME NEW k, Has(cache, k), cache' = Touch(cache, k)
        PROVE  Fine(cache'[j])
    <3>1. \E m \in DOMAIN cache : cache'[j] = cache[m]
      BY <2>4, CacheTyped, TouchProperties
    <3> QED  BY <2>1, <3>1
  <2>5. ASSUME NEW s \in Session, NEW t \in SQL,
               cache' = Add(cache, Key(asked[s]), t),
               t \in FirstTranslations(asked[s]) \/ (t = cur[s] /\ t \in Accepted)
        PROVE  Fine(cache'[j])
    <3>1. cache \in Seq(Entry) /\ [key |-> Key(asked[s]), sql |-> t] \in Entry
      BY CacheTyped
    <3>2. \/ cache'[j] = [key |-> Key(asked[s]), sql |-> t]
          \/ \E m \in DOMAIN cache : cache'[j] = cache[m]
      BY <2>5, <3>1, AddProperties
    <3>3. t \in Accepted \/ t.ver \in Drafts
      BY <2>5 DEF FirstTranslations
    <3> QED  BY <2>1, <3>2, <3>3
  <2> HIDE DEF Fine
  <2> QED  BY <2>2, <2>3, <2>4, <2>5, CacheSteps
<1> QED  BY <1>1, <1>2, Typed, PTL DEF Spec

-----------------------------------------------------------------------------
(* What sessions run and answer *)

\* The SQL a step may give session s to run, as the first one.
Given(s) == {rs[s], NoSQL} \union FirstTranslations(asked[s])
            \union {cache[m].sql : m \in {x \in DOMAIN cache : cache[x].key = Key(asked[s])}}

\* How one step may change what session s has asked, runs and is answered.
SessionStep(s) ==
    /\ \/ asked'[s] = asked[s]
       \/ rs'[s] = NoSQL /\ cur'[s] = NoSQL /\ reply'[s].sql = NoSQL
    /\ rs'[s] \in Given(s)
    /\ \/ cur'[s] \in {cur[s], rs'[s]}
       \/ cur[s] \in SQL /\ cur'[s] \in FixTranslations(asked[s], cur[s])
    /\ reply'[s].sql \in {NoSQL, reply[s].sql, cur[s]}

\* What a step of session o does to the locals of another one: nothing.
LEMMA ReturnSteps ==
    ASSUME TypeOK, NEW o \in Session, NEW r \in Reply, Return(o, r),
           r.sql \in {NoSQL, cur[o]}, NEW s \in Session
    PROVE  SessionStep(s)
<1>1. CASE s = o
  BY <1>1 DEF TypeOK, Return, SessionStep, Given
<1>2. CASE s # o
  BY <1>2 DEF TypeOK, Return, SessionStep, Given
<1> QED  BY <1>1, <1>2

LEMMA PlainSQL == ASSUME NEW k PROVE Plain(k).sql = NoSQL
BY DEF Plain

LEMMA SameSteps ==
    ASSUME NEW s \in Session, UNCHANGED <<asked, rs, cur, reply>>
    PROVE  SessionStep(s)
BY DEF SessionStep, Given

LEMMA SessionSteps ==
    ASSUME TypeOK, Stages, [Next]_vars, NEW s \in Session
    PROVE  SessionStep(s)
<1>1. ASSUME NEW o \in Session, NEW q \in Query, Ask(o, q) PROVE SessionStep(s)
  <2>1. rs[o] = NoSQL /\ cur[o] = NoSQL
    BY <1>1 DEF Ask, Stages, Before
  <2>2. CASE s = o
    BY <1>1, <2>1, <2>2, PlainSQL DEF TypeOK, Ask, SessionStep, Given
  <2>3. CASE s # o
    BY <1>1, <2>3 DEF TypeOK, Ask, SessionStep, Given
  <2> QED  BY <2>2, <2>3
<1>2. ASSUME NEW o \in Session, NEW k \in PlainKind, Return(o, Plain(k))
      PROVE  SessionStep(s)
  BY <1>2, PlainTyped, PlainSQL, ReturnSteps
<1>3. ASSUME NEW o \in Session, Noop(o) \/ MySQLAnswers(o) \/ TranslateFails(o) \/ FixFails(o)
      PROVE  SessionStep(s)
  BY <1>2, <1>3 DEF Noop, MySQLAnswers, TranslateFails, FixFails, PlainKind
<1>4. ASSUME NEW o \in Session,
             StartRoute(o) \/ ToRedshift(o) \/ CacheMiss(o)
                \/ UpdateCache(o) \/ SaveExample(o)
      PROVE  SessionStep(s)
  BY <1>4, SameSteps
  DEF StartRoute, ToRedshift, CacheMiss, UpdateCache, SaveExample, sessionVars
<1>5. ASSUME NEW o \in Session, ToMySQL(o) \/ ExecFails(o)
      PROVE  SessionStep(s)
  <2>1. \/ Return(o, Plain("unconfigured"))
        \/ Return(o, Plain("error"))
        \/ UNCHANGED <<asked, rs, cur, reply>>
    BY <1>5 DEF ToMySQL, ExecFails, sessionVars
  <2>2. "unconfigured" \in PlainKind /\ "error" \in PlainKind
    BY DEF PlainKind
  <2> QED  BY <1>2, <2>1, <2>2, SameSteps
<1>6. ASSUME NEW o \in Session, CacheHit(o)
      PROVE  SessionStep(s)
  <2> DEFINE k == Key(asked[o])
  <2>1. \E m \in DOMAIN cache : cache[m].key = k /\ cache[m].sql = Lookup(cache, k)
    <3>1. cache \in Seq(Entry) /\ Has(cache, k)
      BY <1>6, CacheTyped DEF CacheHit
    <3> HIDE DEF k
    <3> QED  BY <3>1, TouchProperties
  <2>2. /\ rs' = [rs EXCEPT ![o] = Lookup(cache, k)]
        /\ cur' = [cur EXCEPT ![o] = Lookup(cache, k)]
        /\ UNCHANGED <<asked, reply>>
    BY <1>6 DEF CacheHit
  <2>3. CASE s = o
    <3>1. rs'[s] \in Given(s)
      BY <2>1, <2>2, <2>3 DEF TypeOK, Given
    <3> QED  BY <2>2, <2>3, <3>1 DEF TypeOK, SessionStep
  <2>4. CASE s # o
    BY <2>2, <2>4 DEF TypeOK, SessionStep, Given
  <2> QED  BY <2>3, <2>4
<1>7. ASSUME NEW o \in Session, Translated(o)
      PROVE  SessionStep(s)
  <2>1. PICK t \in FirstTranslations(asked[o]) :
          /\ rs' = [rs EXCEPT ![o] = t]
          /\ cur' = [cur EXCEPT ![o] = t]
    BY <1>7 DEF Translated
  <2>2. UNCHANGED <<asked, reply>>
    BY <1>7 DEF Translated
  <2>3. CASE s = o
    BY <2>1, <2>2, <2>3 DEF TypeOK, SessionStep, Given
  <2>4. CASE s # o
    BY <2>1, <2>2, <2>4 DEF TypeOK, SessionStep, Given
  <2> QED  BY <2>3, <2>4
<1>8. ASSUME NEW o \in Session, ExecSucceeds(o)
      PROVE  SessionStep(s)
  BY <1>8, SameSteps DEF ExecSucceeds
<1>9. ASSUME NEW o \in Session, Fixed(o)
      PROVE  SessionStep(s)
  <2>1. PICK t \in FixTranslations(asked[o], cur[o]) : cur' = [cur EXCEPT ![o] = t]
    BY <1>9 DEF Fixed
  <2>2. cur[o] \in SQL /\ UNCHANGED <<asked, rs, reply>>
    BY <1>9 DEF Fixed, Stages, During
  <2>3. CASE s = o
    BY <2>1, <2>2, <2>3 DEF TypeOK, SessionStep, Given
  <2>4. CASE s # o
    BY <2>1, <2>2, <2>4 DEF TypeOK, SessionStep, Given
  <2> QED  BY <2>3, <2>4
<1>10. ASSUME NEW o \in Session, Respond(o)
       PROVE  SessionStep(s)
  <2>1. PICK r \in {RowsOf(cur[o]), Plain("error")} : Return(o, r)
    BY <1>10 DEF Respond
  <2>2. r \in Reply /\ r.sql \in {NoSQL, cur[o]}
    BY <1>10, PlainTyped DEF Respond, Stages, During, Reply, PlainKind, RowsOf, Plain
  <2> QED  BY <2>1, <2>2, ReturnSteps
<1>11. CASE Worker \/ Startup \/ UNCHANGED vars
  BY <1>11, SameSteps DEF Worker, SaveWorkerTake, SaveWorkerDone, Startup, vars, sessionVars
<1>12. CASE Shutdown
  BY <1>12, PlainSQL DEF Shutdown, SessionStep, Given
<1>13. ASSUME NEW o \in Session, Serve(o) PROVE SessionStep(s)
  BY <1>3, <1>4, <1>5, <1>6, <1>7, <1>8, <1>9, <1>10, <1>13 DEF Serve
<1> QED  BY <1>1, <1>11, <1>12, <1>13 DEF Next

\* Every step keeps statements of different shape apart.
LEMMA ShapesSteps ==
    TypeOK /\ Stages /\ ShapesNeverMix /\ [Next]_vars => ShapesNeverMix'
<1> SUFFICES ASSUME TypeOK, Stages, ShapesNeverMix, [Next]_vars
             PROVE  ShapesNeverMix'
  OBVIOUS
<1>1. ASSUME NEW j \in DOMAIN cache'
      PROVE  cache'[j].sql.for.shape = cache'[j].key
  <2> DEFINE Fine(e) == e.sql.for.shape = e.key
  <2>1. \A m \in DOMAIN cache : Fine(cache[m])
    BY DEF ShapesNeverMix
  <2>2. ASSUME cache' = cache \/ cache' = <<>>
        PROVE  Fine(cache'[j])
    BY <1>1, <2>1, <2>2
  <2>3. ASSUME NEW k, Has(cache, k), cache' = Touch(cache, k)
        PROVE  Fine(cache'[j])
    <3>1. \E m \in DOMAIN cache : cache'[j] = cache[m]
      BY <1>1, <2>3, CacheTyped, TouchProperties
    <3> QED  BY <2>1, <3>1
  <2>4. ASSUME NEW s \in Session, NEW t \in SQL,
               cache' = Add(cache, Key(asked[s]), t),
               t \in FirstTranslations(asked[s]) \/ (t = cur[s] /\ t \in Accepted)
        PROVE  Fine(cache'[j])
    <3>1. cache \in Seq(Entry) /\ [key |-> Key(asked[s]), sql |-> t] \in Entry
      BY CacheTyped
    <3>2. \/ cache'[j] = [key |-> Key(asked[s]), sql |-> t]
          \/ \E m \in DOMAIN cache : cache'[j] = cache[m]
      BY <1>1, <2>4, <3>1, AddProperties
    <3>3. t.for.shape = Key(asked[s])
      BY <2>4, ProxyAssumption DEF FirstTranslations, Key, ShapesNeverMix
    <3> QED  BY <2>1, <3>2, <3>3
  <2> HIDE DEF Fine
  <2>5. Fine(cache'[j])
    BY <2>2, <2>3, <2>4, CacheSteps
  <2> QED  BY <2>5 DEF Fine
<1>2. ASSUME NEW s \in Session
      PROVE  /\ rs'[s] # NoSQL => rs'[s].for.shape = asked'[s].shape
             /\ cur'[s] # NoSQL => cur'[s].for.shape = asked'[s].shape
             /\ reply'[s].sql # NoSQL => reply'[s].sql.for.shape = asked'[s].shape
  <2> DEFINE Fits(x) == x # NoSQL => x.for.shape = asked[s].shape
  <2>1. Fits(rs[s]) /\ Fits(cur[s]) /\ Fits(reply[s].sql)
    BY DEF ShapesNeverMix
  <2>2. SessionStep(s)
    BY SessionSteps
  <2>3. Fits(rs'[s])
    <3>1. \A x \in Given(s) : Fits(x)
      BY <2>1 DEF ShapesNeverMix, Given, FirstTranslations, Key
    <3> QED  BY <2>2, <3>1 DEF SessionStep
  <2>4. Fits(cur'[s])
    <3>1. ASSUME cur[s] \in SQL, NEW x \in FixTranslations(asked[s], cur[s])
          PROVE  Fits(x)
      BY <2>1, <3>1, ProxyAssumption DEF FixTranslations
    <3> QED  BY <2>1, <2>2, <2>3, <3>1 DEF SessionStep
  <2>5. Fits(reply'[s].sql)
    BY <2>1, <2>2 DEF SessionStep
  <2>6. CASE asked'[s] = asked[s]
    BY <2>3, <2>4, <2>5, <2>6
  <2>7. CASE rs'[s] = NoSQL /\ cur'[s] = NoSQL /\ reply'[s].sql = NoSQL
    BY <2>7
  <2> QED  BY <2>2, <2>6, <2>7 DEF SessionStep
<1> QED  BY <1>1, <1>2 DEF ShapesNeverMix

\* Statements of different shape never mix.
THEOREM ShapesCorrect == Spec => []ShapesNeverMix
<1>1. Init => ShapesNeverMix
  BY PlainSQL DEF Init, ShapesNeverMix
<1>2. TypeOK /\ Stages /\ ShapesNeverMix /\ [Next]_vars => ShapesNeverMix'
  BY ShapesSteps
<1> QED  BY <1>1, <1>2, Typed, PTL DEF Spec

-----------------------------------------------------------------------------
(* What reaches the knowledge base *)

\* The examples on their way to the agent.
OnTheWay == {queue[i] : i \in DOMAIN queue} \union ({saving} \ {NoExample})

\* How one step may change them: an example is added for a session whose SQL
\* has worked, and never otherwise.
LEMMA ExampleSteps ==
    ASSUME TypeOK, Stages, [Next]_vars, NEW e \in OnTheWay'
    PROVE  \/ e \in OnTheWay
           \/ \E s \in Session : /\ pc[s] = "save"
                                 /\ cur[s] \notin LongSQL
                                 /\ e = [query |-> asked[s], sql |-> cur[s]]
<1> DEFINE Came == \/ e \in OnTheWay
                   \/ \E s \in Session : /\ pc[s] = "save"
                                         /\ cur[s] \notin LongSQL
                                         /\ e = [query |-> asked[s], sql |-> cur[s]]
<1>1. queue \in Seq(Example) /\ DOMAIN queue = 1 .. Len(queue) /\ Len(queue) \in Nat
  BY LenProperties DEF TypeOK
<1>2. CASE UNCHANGED <<queue, saving>>
  BY <1>2 DEF OnTheWay
<1>3. ASSUME NEW s \in Session, SaveExample(s) PROVE Came
  <2> DEFINE new == [query |-> asked[s], sql |-> cur[s]]
  <2>1. CASE queue' = queue
    BY <1>2, <1>3, <2>1 DEF SaveExample
  <2>2. CASE queue' = Append(queue, new) /\ cur[s] \notin LongSQL
    <3>1. new \in Example
      BY <1>3 DEF SaveExample, TypeOK, Stages, During, Example
    <3>2. /\ DOMAIN queue' = 1 .. Len(queue) + 1
          /\ \A i \in 1 .. Len(queue) : queue'[i] = queue[i]
          /\ queue'[Len(queue) + 1] = new
      <4> HIDE DEF new
      <4> QED  BY <1>1, <2>2, <3>1, AppendProperties, LenProperties
    <3>3. saving' = saving /\ pc[s] = "save"
      BY <1>3 DEF SaveExample
    <3> QED  BY <1>1, <2>2, <3>2, <3>3 DEF OnTheWay
  <2> QED  BY <1>3, <2>1, <2>2 DEF SaveExample, Enqueue
<1>4. CASE SaveWorkerTake
  <2>1. queue # <<>> /\ saving' = Head(queue) /\ queue' = Tail(queue)
    BY <1>4 DEF SaveWorkerTake, Take
  <2>2. /\ Len(queue) >= 1
        /\ saving' = queue[1]
        /\ DOMAIN queue' = 1 .. Len(queue) - 1
        /\ \A i \in 1 .. Len(queue) - 1 : queue'[i] = queue[i + 1]
    <3>1. queue' \in Seq(Example) /\ Len(queue') = Len(queue) - 1
      BY <1>1, <2>1, HeadTailProperties
    <3> QED  BY <1>1, <2>1, <3>1, HeadTailProperties, LenProperties
  <2> QED  BY <1>1, <2>2 DEF OnTheWay
<1>5. CASE SaveWorkerDone
  BY <1>5 DEF SaveWorkerDone, PostDone, OnTheWay
<1>6. CASE Shutdown
  BY <1>6 DEF Shutdown, KnowledgeLost, OnTheWay
<1>7. CASE Startup \/ UNCHANGED vars
  BY <1>2, <1>7 DEF Startup, vars
<1>8. ASSUME NEW s \in Session, Serve(s) PROVE Came
  <2>1. CASE Noop(s) \/ StartRoute(s) \/ ToRedshift(s) \/ ToMySQL(s)
             \/ MySQLAnswers(s) \/ CacheHit(s) \/ CacheMiss(s) \/ Translated(s)
    BY <1>2, <2>1 DEF Noop, StartRoute, ToRedshift, ToMySQL, MySQLAnswers,
                      CacheHit, CacheMiss, Translated
  <2>2. CASE TranslateFails(s) \/ ExecSucceeds(s) \/ ExecFails(s) \/ Fixed(s)
             \/ FixFails(s) \/ UpdateCache(s) \/ Respond(s)
    BY <1>2, <2>2 DEF TranslateFails, ExecSucceeds, ExecFails, Fixed, FixFails,
                      UpdateCache, Respond
  <2> QED  BY <1>3, <1>8, <2>1, <2>2 DEF Serve
<1>9. ASSUME NEW s \in Session, NEW q \in Query, Ask(s, q) PROVE Came
  BY <1>2, <1>9 DEF Ask
<1> QED  BY <1>4, <1>5, <1>6, <1>7, <1>8, <1>9 DEF Next, Worker

\* The knowledge base learns only SQL that Redshift executed.
THEOREM ExamplesCorrect == Spec => []ExamplesProven
<1>1. Init => ExamplesProven
  BY DEF Init, KnowledgeInit, ExamplesProven
<1>2. TypeOK /\ Stages /\ ShapesNeverMix /\ ExamplesProven /\ [Next]_vars
        => ExamplesProven'
  <2> SUFFICES ASSUME TypeOK, Stages, ShapesNeverMix, ExamplesProven, [Next]_vars,
                      NEW e \in OnTheWay'
               PROVE  e.sql \in Accepted \ LongSQL /\ e.sql.for.shape = e.query.shape
    BY DEF ExamplesProven, OnTheWay
  <2>1. CASE e \in OnTheWay
    BY <2>1 DEF ExamplesProven, OnTheWay
  <2>2. ASSUME NEW s \in Session, pc[s] = "save", cur[s] \notin LongSQL,
               e = [query |-> asked[s], sql |-> cur[s]]
        PROVE  e.sql \in Accepted \ LongSQL /\ e.sql.for.shape = e.query.shape
    <3>1. cur[s] \in Accepted /\ cur[s] # NoSQL
      BY <2>2, ProxyAssumption DEF Stages, During
    <3> QED  BY <2>2, <3>1 DEF ShapesNeverMix
  <2> QED  BY <2>1, <2>2, ExampleSteps
<1> QED  BY <1>1, <1>2, Typed, ShapesCorrect, PTL DEF Spec
=============================================================================
