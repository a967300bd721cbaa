-------------------------- MODULE Pipeline_proofs ---------------------------
(***************************************************************************)
(* What Pipeline promises, for every set of claims, runs and requests,     *)
(* every size of the cache and every number of restarts.                   *)
(***************************************************************************)
EXTENDS Pipeline, SequenceTheorems, FiniteSetTheorems, TLAPS

-----------------------------------------------------------------------------
(* The inductive invariant.                                                *)

(* The lock is held while a save is going on, and at no other time. *)
LockedWhileSaving == CacheFree <=> saving = "no"

(* A run has no answer before the formalizer or the prover gave one. *)
Undecided ==
  \A r \in Runs :
    rpc[r] \in {"idle", "looking", "formalizing", "proving"} =>
      answer[r] = NoResult

Inv ==
  /\ TypeOK
  /\ LockedWhileSaving
  /\ Undecided
  /\ CacheIsGenuine
  /\ ReplaysAreProved
  /\ CacheIsBounded
  /\ RestartLosesNothing

-----------------------------------------------------------------------------
(* Sequences of entries.                                                   *)

(* Taking one place out of a sequence keeps the others, in order. *)
LEMMA WithoutFacts ==
  ASSUME NEW S, NEW q \in Seq(S), NEW i \in 1 .. Len(q)
  PROVE  /\ Without(q, i) \in Seq(S)
         /\ Len(Without(q, i)) = Len(q) - 1
         /\ \A n \in 1 .. Len(q) - 1 :
              Without(q, i)[n] = IF n < i THEN q[n] ELSE q[n + 1]
<1> DEFINE a == SubSeq(q, 1, i - 1)
           b == SubSeq(q, i + 1, Len(q))
<1>1. a \in Seq(S) /\ Len(a) = i - 1 /\ \A n \in 1 .. i - 1 : a[n] = q[n]
  OBVIOUS
<1>2. b \in Seq(S) /\ Len(b) = Len(q) - i
      /\ \A n \in 1 .. Len(q) - i : b[n] = q[n + i]
  OBVIOUS
<1> HIDE DEF a, b
<1>3. a \o b \in Seq(S) /\ Len(a \o b) = Len(q) - 1
  <2>1. a \o b \in Seq(S) /\ Len(a \o b) = Len(a) + Len(b)
    BY <1>1, <1>2, ConcatProperties
  <2> QED
    BY <1>1, <1>2, <2>1
<1>4. \A n \in 1 .. Len(q) - 1 :
        (a \o b)[n] = IF n < i THEN q[n] ELSE q[n + 1]
  BY <1>1, <1>2
<1> QED
  BY <1>3, <1>4 DEF Without, a, b

(* The entry the dictionary has under a key it holds. *)
LEMMA PlaceFacts ==
  ASSUME NEW k, Holds(k)
  PROVE  Place(k) \in 1 .. Len(cache) /\ cache[Place(k)].key = k
BY DEF Holds, Place

(* put() makes room: what stays was there, the key is gone, and one more   *)
(* entry fits.                                                             *)
LEMMA RoomFacts ==
  ASSUME cache \in Seq(Entry), Bounded(cache), NEW k \in Keys
  PROVE  /\ Room(k) \in Seq(Entry)
         /\ Len(Room(k)) < MaxSize
         /\ \A n \in 1 .. Len(Room(k)) :
              /\ Room(k)[n].key # k
              /\ \E i \in 1 .. Len(cache) : Room(k)[n] = cache[i]
         /\ \A m, n \in 1 .. Len(Room(k)) :
              Room(k)[m].key = Room(k)[n].key => m = n
<1> USE MaxSizeAssumption DEF Bounded
<1>1. CASE Holds(k)
  <2> DEFINE i == Place(k)
             w == Without(cache, i)
  <2>1. i \in 1 .. Len(cache) /\ cache[i].key = k
    BY <1>1, PlaceFacts
  <2>2. /\ w \in Seq(Entry)
        /\ Len(w) = Len(cache) - 1
        /\ \A n \in 1 .. Len(cache) - 1 :
             w[n] = IF n < i THEN cache[n] ELSE cache[n + 1]
    BY <2>1, WithoutFacts
  <2>3. Room(k) = w
    BY <1>1 DEF Room
  <2> HIDE DEF i, w
  <2>4. \A n \in 1 .. Len(w) :
          \E c \in 1 .. Len(cache) :
            c # i /\ c = (IF n < i THEN n ELSE n + 1) /\ w[n] = cache[c]
    BY <2>1, <2>2
  <2>5. \A n \in 1 .. Len(w) : w[n].key # k
    BY <2>1, <2>4
  <2>6. \A m, n \in 1 .. Len(w) : w[m].key = w[n].key => m = n
    BY <2>1, <2>2, <2>4
  <2>7. Len(w) < MaxSize
    BY <2>1, <2>2
  <2>8. \A n \in 1 .. Len(w) : \E c \in 1 .. Len(cache) : w[n] = cache[c]
    BY <2>4
  <2> QED
    BY <2>2, <2>3, <2>5, <2>6, <2>7, <2>8
<1>2. CASE ~Holds(k) /\ Len(cache) >= MaxSize
  <2>1. Room(k) = Tail(cache) /\ cache # <<>>
    BY <1>2 DEF Room
  <2>2. /\ Tail(cache) \in Seq(Entry)
        /\ Len(Tail(cache)) = Len(cache) - 1
        /\ \A n \in 1 .. Len(cache) - 1 : Tail(cache)[n] = cache[n + 1]
    BY <2>1
  <2> QED
    BY <1>2, <2>1, <2>2 DEF Holds
<1>3. CASE ~Holds(k) /\ ~(Len(cache) >= MaxSize)
  <2>1. Room(k) = cache
    BY <1>3 DEF Room
  <2> QED
    BY <1>3, <2>1 DEF Holds
<1> QED
  BY <1>1, <1>2, <1>3

(* What put() leaves in the dictionary. *)
LEMMA PutFacts ==
  ASSUME Inv, NEW r \in Runs, NEW k \in Keys, NEW result \in Result,
         Put(r, k, result)
  PROVE  /\ cache' \in Seq(Entry)
         /\ Bounded(cache')
         /\ \A n \in 1 .. Len(cache') :
              \/ cache'[n] = [key |-> k, result |-> result]
              \/ \E i \in 1 .. Len(cache) : cache'[n] = cache[i]
<1> DEFINE room == Room(k)
           new  == [key |-> k, result |-> result]
<1>1. cache \in Seq(Entry) /\ Bounded(cache)
  BY DEF Inv, TypeOK, CacheTypeOK, CacheIsBounded
<1>2. /\ room \in Seq(Entry)
      /\ Len(room) < MaxSize
      /\ \A n \in 1 .. Len(room) :
           /\ room[n].key # k
           /\ \E i \in 1 .. Len(cache) : room[n] = cache[i]
      /\ \A m, n \in 1 .. Len(room) : room[m].key = room[n].key => m = n
  BY <1>1, RoomFacts
<1>3. cache' = Append(room, new) /\ new \in Entry /\ new.key = k
  BY DEF Put, Entry
<1> HIDE DEF room, new
<1>4. /\ cache' \in Seq(Entry) /\ Len(cache') = Len(room) + 1
      /\ cache'[Len(room) + 1] = new
      /\ \A n \in 1 .. Len(room) : cache'[n] = room[n]
  BY <1>2, <1>3
<1>5. Bounded(cache')
  BY <1>2, <1>3, <1>4, MaxSizeAssumption DEF Bounded
<1> QED
  BY <1>2, <1>4, <1>5 DEF new

-----------------------------------------------------------------------------
(* The steps.                                                              *)

(* A run gets its answer once, and never another claim. *)
LEMMA AnswersOnce ==
  ASSUME Inv, [Next]_vars
  PROVE  /\ claim' = claim
         /\ \A q \in Runs : answer[q] # NoResult => answer'[q] = answer[q]
<1> USE DEF Inv, Undecided
<1>1. ASSUME NEW r \in Runs, Begin(r)
      PROVE  claim' = claim /\ answer' = answer
  BY <1>1 DEF Begin
<1>2. ASSUME NEW r \in Runs, Run(r)
      PROVE  /\ claim' = claim
             /\ \/ answer' = answer
                \/ /\ answer[r] = NoResult
                   /\ \A q \in Runs \ {r} : answer'[q] = answer[q]
  <2>1. CASE Hit(r)
    BY <2>1 DEF Hit, RunAt, TypeOK
  <2>2. CASE NotFormalized(r)
    BY <2>2 DEF NotFormalized, RunAt, Answers, TypeOK
  <2>3. CASE Proved(r)
    BY <2>3 DEF Proved, RunAt, Answers, TypeOK
  <2>4. CASE NotProved(r)
    BY <2>4 DEF NotProved, RunAt, Answers, TypeOK
  <2>5. CASE Miss(r) \/ Formalized(r) \/ Stored(r) \/ Raises(r) \/ LogRun(r)
    BY <2>5 DEF Miss, Formalized, Stored, Raises, LogRun
  <2> QED
    BY <1>2, <2>1, <2>2, <2>3, <2>4, <2>5 DEF Run
<1>3. ASSUME NEW c \in Clears, ClearCache(c)
      PROVE  claim' = claim /\ answer' = answer
  BY <1>3 DEF ClearCache, runVars
<1>4. CASE Save
  BY <1>4 DEF Save, runVars
<1>5. CASE Restart
  BY <1>5 DEF Restart
<1>6. CASE UNCHANGED vars
  BY <1>6 DEF vars, runVars
<1> QED
  BY <1>1, <1>2, <1>3, <1>4, <1>5, <1>6 DEF Next

(* So an entry that is genuine stays genuine. *)
LEMMA GenuineForGood ==
  ASSUME Inv, [Next]_vars, NEW e \in Entry, Genuine(e)
  PROVE  Genuine(e)'
<1>1. e.result.by \in Runs
  BY DEF Entry, Result
<1>2. answer[e.result.by] # NoResult
  BY DEF Genuine, NoResult
<1> QED
  BY <1>1, <1>2, AnswersOnce DEF Genuine

(* What a run that finds its claim in the cache gets. *)
LEMMA HitFacts ==
  ASSUME Inv, NEW r \in Runs, Hit(r)
  PROVE  LET found == Found(claim[r]) IN
         /\ found \in Result /\ found.by \in Runs
         /\ found = answer[found.by] /\ claim[found.by] = claim[r]
         /\ found.success /\ found.by # r
         /\ answer'[r] = [found EXCEPT !.fromCache = TRUE]
         /\ \A q \in Runs \ {r} : answer'[q] = answer[q]
<1> DEFINE e == cache[Place(claim[r])]
<1>1. Place(claim[r]) \in 1 .. Len(cache) /\ e.key = claim[r]
  BY PlaceFacts DEF Hit, Get
<1>2. e \in Entry /\ Genuine(e)
  BY <1>1 DEF Inv, TypeOK, CacheTypeOK, CacheIsGenuine
<1>3. answer[r] = NoResult
  BY DEF Hit, RunAt, Inv, Undecided
<1>4. e.result \in Result /\ Found(claim[r]) = e.result
  BY <1>2 DEF Entry, Found
<1>5. answer' = [answer EXCEPT ![r] = [Found(claim[r]) EXCEPT !.fromCache = TRUE]]
  BY DEF Hit
<1> HIDE DEF e
<1>6. e.result.by \in Runs /\ e.result.by # r
  BY <1>2, <1>3, <1>4 DEF Genuine, NoResult, Result
<1> QED
  BY <1>1, <1>2, <1>4, <1>5, <1>6 DEF Genuine, Inv, TypeOK

(* The result a run builds itself. *)
LEMMA AnswersFacts ==
  ASSUME Inv, NEW r \in Runs, NEW success \in BOOLEAN, NEW refused \in BOOLEAN,
         Answers(r, success, refused)
  PROVE  /\ answer'[r] \in Result
         /\ answer'[r] = [by |-> r, success |-> success, refused |-> refused,
                          fromCache |-> FALSE]
         /\ \A q \in Runs \ {r} : answer'[q] = answer[q]
         /\ answer' \in [Runs -> Answer]
BY DEF Answers, Inv, TypeOK, Result, Answer

(* A success on its way into the cache. *)
Success(r) ==
  [by |-> r, success |-> TRUE, refused |-> FALSE, fromCache |-> FALSE]

LEMMA ProvedFacts ==
  ASSUME Inv, NEW r \in Runs, Proved(r)
  PROVE  LET new == [key |-> claim[r], result |-> Success(r)] IN
         /\ answer' \in [Runs -> Answer]
         /\ new \in Entry /\ Genuine(new)'
         /\ cache' \in Seq(Entry) /\ Bounded(cache')
         /\ \A n \in 1 .. Len(cache') :
              cache'[n] = new \/ \E i \in 1 .. Len(cache) : cache'[n] = cache[i]
         /\ claim' = claim /\ file' = file
<1>1. Answers(r, TRUE, FALSE) /\ Put(r, claim[r], answer'[r]) /\ claim' = claim
  BY DEF Proved
<1>2. claim[r] \in Keys
  BY DEF Inv, TypeOK
<1>3. /\ answer'[r] \in Result /\ answer' \in [Runs -> Answer]
      /\ answer'[r] = Success(r)
  BY <1>1, AnswersFacts DEF Success
<1>4. Genuine([key |-> claim[r], result |-> Success(r)])'
  BY <1>1, <1>3 DEF Genuine, Success
<1>5. Put(r, claim[r], Success(r)) /\ Success(r) \in Result
  BY <1>1, <1>3
<1> QED
  BY <1>1, <1>2, <1>3, <1>4, <1>5, PutFacts DEF Entry, Put

(* The types hold after every step. *)
LEMMA TypeStep ==
  ASSUME Inv, [Next]_vars
  PROVE  TypeOK'
<1> USE DEF Inv, TypeOK, CacheTypeOK
<1>0. UNCHANGED cacheVars => CacheTypeOK'
  BY DEF cacheVars
<1>2. ASSUME NEW r \in Runs, NEW from, NEW to \in RunPC, RunAt(r, from, to)
      PROVE  rpc' \in [Runs -> RunPC]
  BY <1>2 DEF RunAt
<1>3. ASSUME NEW r \in Runs, Begin(r) PROVE TypeOK'
  BY <1>0, <1>2, <1>3 DEF Begin, RunPC
<1>4. ASSUME NEW r \in Runs, Run(r) PROVE TypeOK'
  <2>1. CASE Hit(r)
    <3>1. CacheTypeOK'
      BY <2>1 DEF Hit, Get
    <3>2. answer' \in [Runs -> Answer]
      <4>1. answer'[r] \in Answer
        <5>1. Found(claim[r]) \in Result
          BY <2>1, HitFacts
        <5>2. [Found(claim[r]) EXCEPT !.fromCache = TRUE] \in Result
          BY <5>1 DEF Result
        <5> QED
          BY <2>1, <5>2, HitFacts DEF Answer
      <4> QED
        BY <2>1, <4>1 DEF Hit
    <3> QED
      BY <2>1, <3>1, <3>2, <1>2 DEF Hit, RunPC
  <2>2. CASE Miss(r)
    BY <1>0, <1>2, <2>2 DEF Miss, RunPC
  <2>3. CASE Formalized(r)
    BY <1>0, <1>2, <2>3 DEF Formalized, RunPC
  <2>4. CASE NotFormalized(r)
    BY <1>0, <1>2, <2>4, AnswersFacts DEF NotFormalized, RunPC
  <2>5. CASE Proved(r)
    <3>1. CacheTypeOK'
      BY <2>5, ProvedFacts DEF Proved, Put
    <3> QED
      BY <2>5, <3>1, <1>2, ProvedFacts DEF Proved, RunPC
  <2>6. CASE NotProved(r)
    BY <1>0, <1>2, <2>6, AnswersFacts DEF NotProved, RunPC
  <2>7. CASE Stored(r)
    BY <1>0, <1>2, <2>7 DEF Stored, RunPC
  <2>8. CASE Raises(r)
    BY <1>0, <1>2, <2>8 DEF Raises, RunPC
  <2>9. CASE LogRun(r)
    <3>1. ASSUME NEW whole \in BOOLEAN
          PROVE  Append(log, [whole |-> whole, result |-> answer[r]]) \in Seq(Line)
      BY DEF Line
    <3>2. log' \in Seq(Line)
      BY <2>9, <3>1 DEF LogRun
    <3> QED
      BY <1>0, <1>2, <2>9, <3>2 DEF LogRun, RunPC
  <2> QED
    BY <1>4, <2>1, <2>2, <2>3, <2>4, <2>5, <2>6, <2>7, <2>8, <2>9 DEF Run
<1>5. ASSUME NEW c \in Clears, ClearCache(c) PROVE TypeOK'
  BY <1>5 DEF ClearCache, Clear, runVars
<1>6. CASE Save
  <2>1. CASE Truncate
    BY <1>6, <2>1 DEF Save, Truncate, File, runVars
  <2>2. CASE Dump
    BY <1>6, <2>2 DEF Save, Dump, File, runVars
  <2>3. CASE SaveFails
    BY <1>6, <2>3 DEF Save, SaveFails, runVars
  <2> QED
    BY <1>6, <2>1, <2>2, <2>3 DEF Save
<1>7. CASE Restart
  <2>1. CacheTypeOK'
    BY <1>7 DEF Restart, Load, Loaded, File
  <2>2. rpc' \in [Runs -> RunPC] /\ restarts' \in 0 .. MaxRestarts
    BY <1>7, MaxRestartsAssumption DEF Restart, RunPC
  <2> QED
    BY <1>7, <2>1, <2>2 DEF Restart
<1>8. CASE UNCHANGED vars
  BY <1>0, <1>8 DEF vars, runVars
<1> QED
  BY <1>3, <1>4, <1>5, <1>6, <1>7, <1>8 DEF Next

(* Between two saves the lock is free, and during one it is not. *)
LEMMA LockStep ==
  ASSUME Inv, [Next]_vars
  PROVE  LockedWhileSaving'
<1> USE CacheNobodyAssumption DEF Inv, LockedWhileSaving, CacheFree
<1>1. UNCHANGED <<cacheLock, saving>> => LockedWhileSaving'
  OBVIOUS
<1>2. ASSUME NEW r \in Runs, Begin(r) PROVE LockedWhileSaving'
  BY <1>1, <1>2 DEF Begin, cacheVars
<1>3. ASSUME NEW r \in Runs, Run(r) PROVE LockedWhileSaving'
  BY <1>1, <1>3 DEF Run, Hit, Get, Miss, Formalized, NotFormalized, Proved, Put,
                    NotProved, Stored, Raises, LogRun, cacheVars
<1>4. ASSUME NEW c \in Clears, ClearCache(c) PROVE LockedWhileSaving'
  BY <1>4 DEF ClearCache, Clear
<1>5. CASE Save
  BY <1>5 DEF Save, Truncate, Dump, SaveFails
<1>6. CASE Restart
  BY <1>6 DEF Restart, Load
<1>7. CASE UNCHANGED vars
  BY <1>1, <1>7 DEF vars, cacheVars
<1> QED
  BY <1>2, <1>3, <1>4, <1>5, <1>6, <1>7 DEF Next

(* A run that has no answer yet goes on having none until it is given one. *)
LEMMA UndecidedStep ==
  ASSUME Inv, [Next]_vars
  PROVE  Undecided'
<1> USE DEF Inv, Undecided, TypeOK, RunAt
<1>1. ASSUME NEW r \in Runs, Begin(r) PROVE Undecided'
  BY <1>1 DEF Begin
<1>2. ASSUME NEW r \in Runs, Run(r) PROVE Undecided'
  <2>1. CASE Hit(r)
    BY <2>1, HitFacts DEF Hit
  <2>2. CASE NotFormalized(r)
    BY <2>2 DEF NotFormalized, Answers
  <2>3. CASE Proved(r)
    BY <2>3 DEF Proved, Answers
  <2>4. CASE NotProved(r)
    BY <2>4 DEF NotProved, Answers
  <2>5. CASE Miss(r) \/ Formalized(r)
    BY <2>5 DEF Miss, Formalized
  <2>6. CASE Stored(r) \/ Raises(r) \/ LogRun(r)
    BY <2>6 DEF Stored, Raises, LogRun
  <2> QED
    BY <1>2, <2>1, <2>2, <2>3, <2>4, <2>5, <2>6 DEF Run
<1>3. ASSUME NEW c \in Clears, ClearCache(c) PROVE Undecided'
  BY <1>3 DEF ClearCache, runVars
<1>4. CASE Save
  BY <1>4 DEF Save, runVars
<1>5. CASE Restart
  BY <1>5 DEF Restart, Ended
<1>6. CASE UNCHANGED vars
  BY <1>6 DEF vars, runVars
<1> QED
  BY <1>1, <1>2, <1>3, <1>4, <1>5, <1>6 DEF Next

(* Every entry of the dictionary and of the file is an old one of either,  *)
(* or the success that a run stores in this step.                          *)
LEMMA EntriesStep ==
  ASSUME Inv, [Next]_vars
  PROVE  CacheIsGenuine' /\ CacheIsBounded'
<1> DEFINE Genuinely(e) ==
             /\ e.result = answer'[e.result.by]
             /\ e.key = claim'[e.result.by]
             /\ e.result.success /\ ~e.result.fromCache
           Good(q) == Bounded(q) /\ \A i \in 1 .. Len(q) : Genuinely(q[i])
<1>1. cache \in Seq(Entry) /\ file.held \in Seq(Entry)
  BY DEF Inv, TypeOK, CacheTypeOK, File
<1>2. ASSUME NEW e \in Entry, Genuine(e) PROVE Genuinely(e)
  BY <1>2, GenuineForGood DEF Genuine
<1>3. Good(cache) /\ Good(file.held)
  BY <1>1, <1>2 DEF Inv, CacheIsGenuine, CacheIsBounded
<1>4. Good(<<>>)
  BY MaxSizeAssumption DEF Bounded
<1>5. ASSUME Good(cache'), Good(file'.held)
      PROVE  CacheIsGenuine' /\ CacheIsBounded'
  BY <1>5 DEF CacheIsGenuine, CacheIsBounded, Genuine, Bounded
<1> HIDE DEF Good
<1>6. UNCHANGED <<cache, file>> => Good(cache') /\ Good(file'.held)
  BY <1>3
<1>7. ASSUME NEW r \in Runs, Begin(r) PROVE UNCHANGED <<cache, file>>
  BY <1>7 DEF Begin, cacheVars
<1>8. ASSUME NEW r \in Runs, Run(r) PROVE Good(cache') /\ Good(file'.held)
  <2>1. CASE Proved(r)
    <3>1. PICK new \in Entry :
            /\ Genuine(new)'
            /\ cache' \in Seq(Entry) /\ Bounded(cache')
            /\ \A n \in 1 .. Len(cache') :
                 cache'[n] = new \/ \E i \in 1 .. Len(cache) : cache'[n] = cache[i]
            /\ file' = file
      BY <2>1, ProvedFacts
    <3>2. Genuinely(new)
      BY <3>1 DEF Genuine
    <3>3. \A i \in 1 .. Len(cache) : Genuinely(cache[i])
      BY <1>3 DEF Good
    <3> HIDE DEF Genuinely
    <3>4. Good(cache')
      BY <3>1, <3>2, <3>3 DEF Good
    <3> QED
      BY <1>3, <3>1, <3>4
  <2>2. ASSUME ~Proved(r) PROVE UNCHANGED <<cache, file>>
    BY <1>8, <2>2 DEF Run, Hit, Get, Miss, Formalized, NotFormalized, NotProved,
                      Stored, Raises, LogRun, cacheVars
  <2> QED
    BY <1>6, <2>1, <2>2
<1>9. ASSUME NEW c \in Clears, ClearCache(c)
      PROVE  Good(cache') /\ Good(file'.held)
  BY <1>3, <1>4, <1>9 DEF ClearCache, Clear
<1>10. CASE Save
  <2>1. CASE Truncate
    BY <1>3, <1>4, <1>5, <2>1 DEF Truncate
  <2>2. CASE Dump
    BY <1>3, <1>5, <2>2 DEF Dump
  <2>3. CASE SaveFails
    BY <1>5, <1>6, <2>3 DEF SaveFails
  <2> QED
    BY <1>10, <2>1, <2>2, <2>3 DEF Save
<1>11. CASE Restart
  BY <1>3, <1>4, <1>5, <1>11 DEF Restart, Load, Loaded
<1>12. CASE UNCHANGED vars
  BY <1>5, <1>6, <1>12 DEF vars, cacheVars
<1> QED
  BY <1>5, <1>6, <1>7, <1>8, <1>9, <1>10, <1>11, <1>12 DEF Next

(* A replay keeps pointing at the success it came from. *)
LEMMA ReplayStep ==
  ASSUME Inv, [Next]_vars
  PROVE  ReplaysAreProved'
<1> DEFINE Replay(q) ==
             LET origin == answer[q].by IN
               /\ origin \in Runs /\ origin # q
               /\ claim[origin] = claim[q]
               /\ answer[q] = [answer[origin] EXCEPT !.fromCache = TRUE]
               /\ answer[origin].success
<1>1. claim' = claim
      /\ \A q \in Runs : answer[q] # NoResult => answer'[q] = answer[q]
  BY AnswersOnce
<1>2. ASSUME NEW q \in Runs, answer'[q] = answer[q], answer'[q].fromCache
      PROVE  Replay(q)'
  <2>1. answer[q] # NoResult /\ answer[q] \in Result
    BY <1>2 DEF NoResult, Inv, TypeOK, Answer
  <2>2. answer[q].by \in Runs
    BY <2>1 DEF Result
  <2>3. Replay(q)
    BY <1>2, <2>2 DEF Inv, ReplaysAreProved
  <2>4. answer[answer[q].by] # NoResult
    BY <2>3 DEF NoResult
  <2> QED
    BY <1>1, <1>2, <2>2, <2>3, <2>4
<1>3. ASSUME NEW q \in Runs, answer'[q] # answer[q], answer'[q].fromCache
      PROVE  Replay(q)'
  <2>1. Hit(q)
    <3>1. ASSUME NEW r \in Runs, Begin(r) PROVE FALSE
      BY <1>3, <3>1 DEF Begin
    <3>2. ASSUME NEW r \in Runs, Run(r) PROVE Hit(q)
      <4>1. CASE Hit(r)
        BY <1>3, <4>1, HitFacts
      <4>2. CASE NotFormalized(r) \/ Proved(r) \/ NotProved(r)
        <5>1. ASSUME NEW success \in BOOLEAN, NEW refused \in BOOLEAN,
                     Answers(r, success, refused)
              PROVE  FALSE
          <6>1. answer'[q] = answer[q] \/ ~answer'[q].fromCache
            <7>1. CASE q = r
              <8>1. answer'[r] = [by |-> r, success |-> success,
                                  refused |-> refused, fromCache |-> FALSE]
                BY <5>1, AnswersFacts
              <8>2. ~answer'[r].fromCache
                BY <8>1
              <8> QED
                BY <7>1, <8>2
            <7>2. CASE q # r
              BY <5>1, <7>2, AnswersFacts
            <7> QED
              BY <7>1, <7>2
          <6> QED
            BY <1>3, <6>1
        <5> QED
          BY <4>2, <5>1 DEF NotFormalized, Proved, NotProved
      <4>3. CASE Miss(r) \/ Formalized(r) \/ Stored(r) \/ Raises(r) \/ LogRun(r)
        BY <1>3, <4>3 DEF Miss, Formalized, Stored, Raises, LogRun
      <4> QED
        BY <3>2, <4>1, <4>2, <4>3 DEF Run
    <3>3. ASSUME NEW c \in Clears, ClearCache(c) PROVE FALSE
      BY <1>3, <3>3 DEF ClearCache, runVars
    <3>4. ~Save /\ ~Restart /\ ~UNCHANGED vars
      BY <1>3 DEF Save, Restart, vars, runVars
    <3> QED
      BY <3>1, <3>2, <3>3, <3>4 DEF Next
  <2> DEFINE found == Found(claim[q])
  <2>2. /\ found \in Result /\ found.by \in Runs
        /\ found = answer[found.by] /\ claim[found.by] = claim[q]
        /\ found.success /\ found.by # q
        /\ answer'[q] = [found EXCEPT !.fromCache = TRUE]
        /\ \A p \in Runs \ {q} : answer'[p] = answer[p]
    BY <2>1, HitFacts
  <2> HIDE DEF found
  <2>3. answer'[q].by = found.by
    BY <2>2 DEF Result
  <2> QED
    BY <1>1, <2>2, <2>3
<1> QED
  BY <1>2, <1>3 DEF ReplaysAreProved

(* Without disk errors the file holds what the memory does when no save is *)
(* going on.                                                               *)
LEMMA RestartStep ==
  ASSUME Inv, [Next]_vars
  PROVE  RestartLosesNothing'
<1> USE CacheNobodyAssumption
    DEF Inv, RestartLosesNothing, Loaded, LockedWhileSaving, CacheFree
<1>1. UNCHANGED <<cache, file, cacheLock>> => RestartLosesNothing'
  OBVIOUS
<1>2. ASSUME NEW r \in Runs, Begin(r) PROVE RestartLosesNothing'
  BY <1>1, <1>2 DEF Begin, cacheVars
<1>3. ASSUME NEW r \in Runs, Run(r) PROVE RestartLosesNothing'
  BY <1>1, <1>3 DEF Run, Hit, Get, Miss, Formalized, NotFormalized, Proved, Put,
                    NotProved, Stored, Raises, LogRun, cacheVars
<1>4. ASSUME NEW c \in Clears, ClearCache(c) PROVE RestartLosesNothing'
  BY <1>4 DEF ClearCache, Clear
<1>5. CASE Save
  BY <1>5 DEF Save, Truncate, Dump, SaveFails
<1>6. CASE Restart
  BY <1>6 DEF Restart, Load
<1>7. CASE UNCHANGED vars
  BY <1>1, <1>7 DEF vars, cacheVars
<1> QED
  BY <1>2, <1>3, <1>4, <1>5, <1>6, <1>7 DEF Next

-----------------------------------------------------------------------------
(* The theorems.                                                           *)

(* The inductive invariant holds at the start. *)
LEMMA InvInit == Init => Inv
<1> SUFFICES ASSUME Init PROVE Inv
  OBVIOUS
<1> USE MaxSizeAssumption, MaxRestartsAssumption DEF Init, CacheInit
<1>1. TypeOK
  BY DEF TypeOK, CacheTypeOK, File, RunPC, Answer
<1>2. CacheIsGenuine /\ CacheIsBounded
  BY DEF CacheIsGenuine, CacheIsBounded, Bounded
<1>3. LockedWhileSaving /\ Undecided /\ ReplaysAreProved /\ RestartLosesNothing
  BY DEF LockedWhileSaving, CacheFree, Undecided, ReplaysAreProved, NoResult,
         RestartLosesNothing, Loaded
<1> QED
  BY <1>1, <1>2, <1>3 DEF Inv

(* The inductive invariant of concurrent pipeline runs, requests to clear  *)
(* the cache and restarts (run_pipeline, _JsonBackedCache).                *)
THEOREM Invariance == Spec => []Inv
<1>1. Inv /\ [Next]_vars => Inv'
  BY TypeStep, LockStep, UndecidedStep, EntriesStep, ReplayStep, RestartStep
     DEF Inv
<1> QED
  BY InvInit, <1>1, PTL DEF Spec

(* Every variable keeps its type. *)
THEOREM TypeCorrect == Spec => []TypeOK
BY Invariance, PTL DEF Inv

(* Whatever interleaves, what is cached, in memory or on disk, is a success *)
(* its run really had for that claim, and is not marked as a replay.        *)
THEOREM OnlyGenuineResults == Spec => []CacheIsGenuine
BY Invariance, PTL DEF Inv

(* A replayed answer is the success of another run of the same claim.      *)
THEOREM ReplaysAreReal == Spec => []ReplaysAreProved
BY Invariance, PTL DEF Inv

(* The dictionary and the file never outgrow MAX_CACHE_SIZE and have a key *)
(* once, for every size.                                                   *)
THEOREM NeverTooLarge == Spec => []CacheIsBounded
BY Invariance, PTL DEF Inv

(* Unless the disk fails, a restart outside a save loses nothing.          *)
THEOREM SavedIsLoaded == Spec => []RestartLosesNothing
BY Invariance, PTL DEF Inv

-----------------------------------------------------------------------------
(* The run log and the numbers of /metrics.                                *)

(* A result is no success and refusal at once, and a replayed one is a     *)
(* success. *)
Coherent(result) ==
  /\ ~(result.success /\ result.refused)
  /\ result.fromCache => result.success

LogIsCoherent ==
  /\ \A r \in Runs : Coherent(answer[r])
  /\ \A i \in 1 .. Len(log) : Coherent(log[i].result)

Returned == {r \in Runs : rpc[r] = "done"}

(* Unless the disk fails, each run that returned has left one whole line. *)
LogIsComplete ==
  ~DiskErrors =>
    /\ \A i \in 1 .. Len(log) : log[i].whole
    /\ IsFiniteSet(Returned) /\ Cardinality(Returned) = Len(log)
    /\ \A r \in Returned : \E i \in 1 .. Len(log) : log[i].result = answer[r]

(* Who returns has logged its answer, and a step that logs nothing lets no *)
(* run return; the answer of a run that returned stays. *)
LEMMA Returns ==
  ASSUME Inv, [Next]_vars
  PROVE  \/ \E r \in Runs : LogRun(r)
         \/ /\ UNCHANGED log /\ Returned' = Returned
            /\ \A q \in Returned : answer'[q] = answer[q]
<1> DEFINE Quiet == /\ UNCHANGED log /\ Returned' = Returned
                    /\ \A q \in Returned : answer'[q] = answer[q]
<1> USE DEF Inv, TypeOK, RunAt, Returned
<1>1. ASSUME NEW r \in Runs, Begin(r) PROVE Quiet
  BY <1>1 DEF Begin
<1>2. ASSUME NEW r \in Runs, Run(r), ~LogRun(r) PROVE Quiet
  <2>1. CASE Hit(r)
    BY <2>1 DEF Hit
  <2>2. CASE NotFormalized(r) \/ Proved(r) \/ NotProved(r)
    BY <2>2 DEF NotFormalized, Proved, NotProved, Answers
  <2>3. CASE Miss(r) \/ Formalized(r) \/ Stored(r) \/ Raises(r)
    BY <2>3 DEF Miss, Formalized, Stored, Raises
  <2> QED
    BY <1>2, <2>1, <2>2, <2>3 DEF Run
<1>3. ASSUME NEW c \in Clears, ClearCache(c) PROVE Quiet
  BY <1>3 DEF ClearCache, runVars
<1>4. CASE Save
  BY <1>4 DEF Save, runVars
<1>5. CASE Restart
  BY <1>5 DEF Restart, Ended
<1>6. CASE UNCHANGED vars
  BY <1>6 DEF vars, runVars
<1> QED
  BY <1>1, <1>2, <1>3, <1>4, <1>5, <1>6 DEF Next

(* What log_run() leaves at the end of the log. *)
LEMMA LogRunFacts ==
  ASSUME TypeOK, NEW r \in Runs, LogRun(r)
  PROVE  /\ answer' = answer
         /\ \/ log' = log /\ DiskErrors
            \/ /\ Len(log') = Len(log) + 1
               /\ \A i \in 1 .. Len(log) : log'[i] = log[i]
               /\ log'[Len(log) + 1].result = answer[r]
               /\ log'[Len(log) + 1].whole \/ DiskErrors
<1>1. ASSUME NEW whole \in BOOLEAN,
             log' = Append(log, [whole |-> whole, result |-> answer[r]])
      PROVE  /\ Len(log') = Len(log) + 1
             /\ \A i \in 1 .. Len(log) : log'[i] = log[i]
             /\ log'[Len(log) + 1].result = answer[r]
             /\ log'[Len(log) + 1].whole = whole
  BY <1>1 DEF TypeOK
<1> QED
  BY <1>1 DEF LogRun

(* Every answer a run gives, and every line, is coherent. *)
LEMMA CoherentStep ==
  ASSUME Inv, LogIsCoherent, [Next]_vars
  PROVE  LogIsCoherent'
<1> DEFINE AllCoherent == \A q \in Runs : Coherent(answer'[q])
<1>1. ASSUME NEW r \in Runs, Run(r) PROVE AllCoherent
  <2>1. CASE Hit(r)
    <3>1. /\ Coherent(answer[Found(claim[r]).by])
          /\ Found(claim[r]) = answer[Found(claim[r]).by]
          /\ Found(claim[r]) \in Result /\ Found(claim[r]).success
      BY <2>1, HitFacts DEF LogIsCoherent
    <3>2. Coherent([Found(claim[r]) EXCEPT !.fromCache = TRUE])
      BY <3>1 DEF Coherent, Result
    <3> QED
      BY <2>1, <3>2, HitFacts DEF LogIsCoherent
  <2>2. ASSUME NEW success \in BOOLEAN, NEW refused \in BOOLEAN,
               ~(success /\ refused), Answers(r, success, refused)
        PROVE  AllCoherent
    <3>1. Coherent([by |-> r, success |-> success, refused |-> refused,
                    fromCache |-> FALSE])
      BY <2>2 DEF Coherent
    <3> QED
      BY <2>2, <3>1, AnswersFacts DEF LogIsCoherent
  <2>3. CASE NotFormalized(r) \/ Proved(r) \/ NotProved(r)
    BY <2>2, <2>3 DEF NotFormalized, Proved, NotProved
  <2>4. CASE Miss(r) \/ Formalized(r) \/ Stored(r) \/ Raises(r) \/ LogRun(r)
    BY <2>4 DEF Miss, Formalized, Stored, Raises, LogRun, LogIsCoherent
  <2> QED
    BY <1>1, <2>1, <2>3, <2>4 DEF Run
<1>2. ASSUME ~\E r \in Runs : Run(r) PROVE UNCHANGED answer
  BY <1>2 DEF Next, Begin, ClearCache, Save, Restart, vars, runVars
<1>3. AllCoherent
  BY <1>1, <1>2 DEF LogIsCoherent
<1>4. \A i \in 1 .. Len(log') : Coherent(log'[i].result)
  <2>1. CASE UNCHANGED log
    BY <2>1 DEF LogIsCoherent
  <2>2. ASSUME NEW r \in Runs, LogRun(r)
        PROVE  \A i \in 1 .. Len(log') : Coherent(log'[i].result)
    <3>1. Len(log) \in Nat
      BY DEF Inv, TypeOK
    <3> QED
      BY <2>1, <2>2, <3>1, LogRunFacts DEF LogIsCoherent, Inv
  <2> QED
    BY <2>1, <2>2, Returns
<1> QED
  BY <1>3, <1>4 DEF LogIsCoherent

(* Each return goes with one more whole line. *)
LEMMA CompleteStep ==
  ASSUME Inv, LogIsComplete, [Next]_vars
  PROVE  LogIsComplete'
<1> SUFFICES ASSUME ~DiskErrors PROVE LogIsComplete'
  BY DEF LogIsComplete
<1>1. /\ \A i \in 1 .. Len(log) : log[i].whole
      /\ IsFiniteSet(Returned) /\ Cardinality(Returned) = Len(log)
      /\ \A r \in Returned : \E i \in 1 .. Len(log) : log[i].result = answer[r]
      /\ Len(log) \in Nat
  BY DEF LogIsComplete, Inv, TypeOK
<1>2. ASSUME NEW r \in Runs, LogRun(r) PROVE LogIsComplete'
  <2>1. /\ answer' = answer
        /\ Len(log') = Len(log) + 1
        /\ \A i \in 1 .. Len(log) : log'[i] = log[i]
        /\ log'[Len(log) + 1].result = answer[r]
        /\ log'[Len(log) + 1].whole
    BY <1>2, LogRunFacts DEF Inv
  <2>2. r \notin Returned /\ Returned' = Returned \union {r}
    BY <1>2 DEF LogRun, RunAt, Returned, Inv, TypeOK
  <2>3. IsFiniteSet(Returned') /\ Cardinality(Returned') = Len(log')
    <3>1. /\ IsFiniteSet(Returned \union {r})
          /\ Cardinality(Returned \union {r}) = Cardinality(Returned) + 1
      BY <1>1, <2>2, FS_AddElement
    <3> QED
      BY <1>1, <2>1, <2>2, <3>1
  <2>4. \A q \in Returned' : \E i \in 1 .. Len(log') : log'[i].result = answer'[q]
    <3>1. Len(log) + 1 \in 1 .. Len(log') /\ \A i \in 1 .. Len(log) : i \in 1 .. Len(log')
      BY <1>1, <2>1
    <3> QED
      BY <1>1, <2>1, <2>2, <3>1
  <2>5. \A i \in 1 .. Len(log') : log'[i].whole
    BY <1>1, <2>1
  <2> QED
    BY <2>3, <2>4, <2>5 DEF LogIsComplete
<1>3. ASSUME UNCHANGED log, Returned' = Returned,
             \A q \in Returned : answer'[q] = answer[q]
      PROVE  LogIsComplete'
  BY <1>1, <1>3 DEF LogIsComplete
<1> QED
  BY <1>2, <1>3, Returns

(* The numbers of /metrics add up for any number of runs, replays, torn    *)
(* lines and restarts.                                                     *)
THEOREM MetricsAlwaysAddUp == Spec => []MetricsAddUp
<1>1. Init => LogIsCoherent
  BY DEF Init, LogIsCoherent, Coherent, NoResult
<1>2. Inv /\ LogIsCoherent /\ [Next]_vars => LogIsCoherent'
  BY CoherentStep
<1>3. Inv /\ LogIsCoherent => MetricsAddUp
  <2> SUFFICES ASSUME Inv, LogIsCoherent PROVE MetricsAddUp
    OBVIOUS
  <2> DEFINE Verified == {i \in Readable : log[i].result.success}
             Refused  == {i \in Readable : log[i].result.refused}
             Replayed == {i \in Readable : log[i].result.fromCache}
  <2>1. Len(log) \in Nat /\ IsFiniteSet(1 .. Len(log))
    BY FS_Interval DEF Inv, TypeOK
  <2>2. IsFiniteSet(Readable)
    BY <2>1, FS_Subset DEF Readable
  <2>3. /\ Verified \intersect Refused = {}
        /\ Replayed \subseteq Verified
    BY DEF LogIsCoherent, Coherent, Readable
  <2>4. Verified \subseteq Readable /\ Refused \subseteq Readable
    OBVIOUS
  <2> HIDE DEF Verified, Refused, Replayed
  <2>5. IsFiniteSet(Verified) /\ IsFiniteSet(Refused)
    BY <2>2, <2>4, FS_Subset
  <2>6. Cardinality(Verified \union Refused)
          = Cardinality(Verified) + Cardinality(Refused)
    <3>1. Cardinality(Verified \intersect Refused) = 0
      BY <2>3, FS_EmptySet
    <3>2. Cardinality(Verified \union Refused)
            = Cardinality(Verified) + Cardinality(Refused)
                - Cardinality(Verified \intersect Refused)
      BY <2>5, FS_Union
    <3>3. Cardinality(Verified) \in Nat /\ Cardinality(Refused) \in Nat
      BY <2>5, FS_CardinalityType
    <3> QED
      BY <3>1, <3>2, <3>3
  <2>7. Cardinality(Verified \union Refused) <= Cardinality(Readable)
    BY <2>2, <2>4, FS_Subset
  <2>8. Cardinality(Replayed) <= Cardinality(Verified)
    BY <2>3, <2>5, FS_Subset
  <2> QED
    BY <2>6, <2>7, <2>8 DEF MetricsAddUp, Verified, Refused, Replayed
<1> QED
  BY <1>1, <1>2, <1>3, Invariance, PTL DEF Spec

(* A log of n rows has n rows to read.                                     *)
LEMMA RowsOfLog ==
  ASSUME NEW n \in Nat
  PROVE  Cardinality(1 .. n) = n
<1>1. 1 \in Int /\ n \in Int
  OBVIOUS
<1>2. Cardinality(1 .. n) = IF 1 > n THEN 0 ELSE n - 1 + 1
  BY <1>1, FS_Interval
<1> QED
  BY <1>2

(* Unless the disk fails, /metrics counts every run that returned, once,   *)
(* for any number of runs and restarts.                                    *)
THEOREM EveryReturnIsCounted == Spec => []ReturnedRunsCounted
<1>1. Init => LogIsComplete
  <2> SUFFICES ASSUME Init PROVE LogIsComplete
    OBVIOUS
  <2>1. Returned = {} /\ Len(log) = 0
    BY DEF Init, Returned
  <2> QED
    BY <2>1, FS_EmptySet DEF LogIsComplete
<1>2. Inv /\ LogIsComplete /\ [Next]_vars => LogIsComplete'
  BY CompleteStep
<1>3. Inv /\ LogIsComplete => ReturnedRunsCounted
  <2> SUFFICES ASSUME Inv, LogIsComplete, ~DiskErrors PROVE ReturnedRunsCounted
    BY DEF ReturnedRunsCounted
  <2>1. Len(log) \in Nat
    BY DEF Inv, TypeOK
  <2>2. Readable = 1 .. Len(log)
    BY <2>1 DEF Readable, LogIsComplete
  <2>3. Cardinality(1 .. Len(log)) = Len(log)
    BY <2>1, RowsOfLog
  <2>4. Cardinality(Returned) = Cardinality(Readable)
    BY <2>2, <2>3 DEF LogIsComplete
  <2>5. \A r \in Returned : Counted(r)
    BY <2>2 DEF LogIsComplete, Counted
  <2>6. \A r \in Runs : rpc[r] = "done" => Counted(r)
    BY <2>5 DEF Returned
  <2>7. Cardinality({r \in Runs : rpc[r] = "done"}) = Cardinality(Readable)
    BY <2>4 DEF Returned
  <2> QED
    BY <2>6, <2>7 DEF ReturnedRunsCounted
<1> QED
  BY <1>1, <1>2, <1>3, Invariance, PTL DEF Spec
=============================================================================
