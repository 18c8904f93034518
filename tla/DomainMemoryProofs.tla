------------------------- MODULE DomainMemoryProofs -------------------------
(***************************************************************************)
(* Proofs about DomainMemory, for any classes that MemoryPolicy accepts,   *)
(* any keys, values, sizes and limits, and any faults; and, in the second  *)
(* part, about ColdStore, for any keys, values, lengths and quotas.        *)
(***************************************************************************)
EXTENDS DomainMemory, ColdStore, FoldProofs, TLAPS

\* What a class is, as far as the levels are concerned.
LEMMA ClassTypes ==
  ASSUME policy \in Policies, NEW k \in Keys
  PROVE  /\ Class(k) \in ClassPolicy /\ policy.backends \subseteq Tiers
         /\ Home(k) \in Tiers \cup {"nowhere"}
         /\ Mirrored(k) => Home(k) = "warm"
         /\ Class(k).temperature = "frozen" <=> Home(k) = "frozen"
         /\ Class(k).temperature = "frozen" => "frozen" \in policy.backends
         /\ Class(k).policy = "deferred" => Home(k) \in {"frozen", "nowhere"}
<1>1. policy \in PolicyType /\ ValidClass(Class(k), policy.backends)
  BY DomainMemoryAssumption DEF DomainMemoryAssumption, Class
<1>2. Class(k) \in ClassPolicy /\ policy.backends \subseteq Tiers
  BY <1>1 DEF PolicyType, Class
<1>3. Home(k) \in Tiers \cup {"nowhere"} /\ (Mirrored(k) => Home(k) = "warm")
      /\ (Class(k).temperature = "frozen" <=> Home(k) = "frozen")
      /\ (Class(k).policy = "deferred" => Home(k) \in {"frozen", "nowhere"})
  BY DEF Home, Mirrored, Tiers
<1>. QED BY <1>1, <1>2, <1>3 DEF ValidClass

\* The live entries, and those that may go.
LEMMA LiveTypes ==
  ASSUME TypeOK
  PROVE  /\ Live \subseteq Keys /\ Evictable \subseteq Live /\ Demotable \subseteq Live
         /\ \A k \in Live : hot[k] \in Entry /\ hot[k].value \in Values
         /\ \A k \in Keys : \A v : \A victims \in VictimSets(k, v) :
              victims \subseteq Live \ {k} /\ Fits(k, v, victims)
<1>1. \A k \in Live : hot[k] \in Entry
  BY DEF TypeOK, Live
<1>2. \A k \in Keys : \A v : \A victims \in VictimSets(k, v) : Fits(k, v, victims)
  BY DEF VictimSets
<1>. QED BY <1>1, <1>2 DEF Live, Evictable, Demotable, VictimSets, Entry

\* What Hot is after a call.
LEMMA HotTypes ==
  ASSUME TypeOK, NEW ks \in SUBSET Keys
  PROVE  /\ Without(ks) \in [Keys -> Entry \cup {NoEntry}]
         /\ \A k \in Keys, v \in Values : Commit(k, v, ks) \in [Keys -> Entry \cup {NoEntry}]
<1>1. Without(ks) \in [Keys -> Entry \cup {NoEntry}]
  BY DEF Without, TypeOK
<1>2. \A v \in Values : [value |-> v, expired |-> FALSE] \in Entry
  BY DEF Entry
<1>. QED BY <1>1, <1>2 DEF Commit

\* What goes down goes home, and nothing else moves.
LEMMA DemotedTypes ==
  ASSUME TypeOK, NEW ks \in SUBSET Live
  PROVE  /\ Demoted(ks) \in [Tiers -> [Keys -> Values \cup {NoValue}]]
         /\ \A t \in Tiers, k \in Keys :
              Demoted(ks)[t][k] = IF k \in ks /\ Home(k) = t /\ t \in policy.backends
                                    THEN hot[k].value ELSE store[t][k]
<1>1. \A t \in Tiers, k \in Keys :
        (IF k \in ks /\ Home(k) = t /\ t \in policy.backends THEN hot[k].value ELSE store[t][k])
          \in Values \cup {NoValue}
  BY LiveTypes DEF TypeOK
<1>. QED BY <1>1 DEF Demoted

\* A value that is put in a level.
LEMMA PutTypes ==
  ASSUME NEW s \in [Tiers -> [Keys -> Values \cup {NoValue}]], NEW t \in Tiers, NEW k \in Keys,
         NEW v \in Values
  PROVE  /\ Put(s, t, k, v) \in [Tiers -> [Keys -> Values \cup {NoValue}]]
         /\ \A u \in Tiers, j \in Keys :
              Put(s, t, k, v)[u][j] = IF u = t /\ j = k /\ t \in policy.backends THEN v ELSE s[u][j]
BY DEF Put

\* What a flush does to the file and the queue.
LEMMA PersistedTypes ==
  ASSUME TypeOK, NEW q \in [Keys -> Values \cup {NoValue}], NEW ks \in SUBSET Keys,
         \A k \in ks : q[k] \in Values
  PROVE  /\ Persisted(q, ks) \in [Keys -> [last : Values \cup {NoValue}, all : SUBSET Values]]
         /\ \A k \in Keys : /\ Persisted(q, ks)[k].last = IF k \in ks THEN q[k] ELSE sink[k].last
                            /\ sink[k].all \subseteq Persisted(q, ks)[k].all
                            /\ k \in ks => q[k] \in Persisted(q, ks)[k].all
<1>1. \A k \in Keys : sink[k] \in [last : Values \cup {NoValue}, all : SUBSET Values]
  BY DEF TypeOK
<1>2. \A k \in Keys :
        (IF k \in ks THEN [last |-> q[k], all |-> sink[k].all \cup {q[k]}] ELSE sink[k])
          \in [last : Values \cup {NoValue}, all : SUBSET Values]
  BY <1>1
<1>. QED BY <1>1, <1>2 DEF Persisted

----------------------------------------------------------------------------
(* What a step does to the levels. *)

\* Values go down, and those of gone leave Hot.
Lowers(down, gone) ==
  /\ (hot' = hot /\ gone = {}) \/ hot' = Without(gone)
  /\ store' = Demoted(down)
  /\ UNCHANGED ghosts

\* The value found below comes back to Hot.
Restores(k, victims) ==
  /\ Holding(k) # {} /\ Fits(k, store[Nearest(k)][k], victims)
  /\ hot' = Commit(k, store[Nearest(k)][k], victims)
  /\ store' = Demoted(victims)
  /\ UNCHANGED ghosts

\* A new value is in Hot, and may be at its home.
Writes(k, v, victims) ==
  /\ Fits(k, v, victims)
  /\ hot' = Commit(k, v, victims)
  /\ store' \in [Tiers -> [Keys -> Values \cup {NoValue}]]
  /\ \A t \in Tiers, j \in Keys :
       \/ store'[t][j] = Demoted(victims)[t][j]
       \/ j = k /\ t = Home(k) /\ t \in policy.backends /\ store'[t][j] = v
  /\ \/ /\ Told(k, v)
        /\ \A t \in Tiers \cap policy.backends : t = Home(k) /\ t # "cold" => store'[t][k] = v
     \/ TriedTo(k, v)
  /\ Class(k).policy = "immediate" => v \in sink'[k].all

\* Nothing is demoted.
LEMMA NoneDemoted == TypeOK => Demoted({}) = store
<1> SUFFICES ASSUME TypeOK PROVE Demoted({}) = store
  OBVIOUS
<1>1. store \in [Tiers -> [Keys -> Values \cup {NoValue}]]
  BY DEF TypeOK
<1>2. Demoted({}) = [t \in Tiers |-> [k \in Keys |-> store[t][k]]]
  BY Zenon DEF Demoted
<1>. QED BY <1>1, <1>2

\* A copy in Frozen at the end of an upsert.
LEMMA Archives ==
  ASSUME TypeOK, NEW k \in Keys, NEW v \in Values,
         NEW s \in [Tiers -> [Keys -> Values \cup {NoValue}]], Archive(k, v, s)
  PROVE  /\ store' \in [Tiers -> [Keys -> Values \cup {NoValue}]]
         /\ \A t \in Tiers, j \in Keys :
              \/ store'[t][j] = s[t][j]
              \/ j = k /\ t = Home(k) /\ t \in policy.backends /\ store'[t][j] = v
         /\ Told(k, v) \/ TriedTo(k, v)
         /\ Told(k, v) \/ Home(k) = "frozen"
         /\ Home(k) # "frozen" => store' = s
         /\ Home(k) = "frozen" => TriedTo(k, v) \/ store'["frozen"][k] = v
<1>1. /\ Class(k).temperature = "frozen" <=> Home(k) = "frozen"
      /\ Home(k) = "frozen" => "frozen" \in policy.backends
  BY ClassTypes DEF TypeOK
<1>2. "frozen" \in Tiers
  BY DEF Tiers
<1>3. CASE Home(k) # "frozen"
  BY <1>1, <1>3 DEF Archive
<1>4. CASE Home(k) = "frozen" /\ store' = Put(s, "frozen", k, v) /\ Told(k, v)
  BY <1>1, <1>2, <1>4, PutTypes
<1>5. CASE Home(k) = "frozen" /\ store' = s /\ TriedTo(k, v)
  BY <1>5
<1>. QED BY <1>1, <1>3, <1>4, <1>5 DEF Archive

\* A flush writes records of the queue, and takes out those it knows written.
LEMMA Flushes ==
  ASSUME TypeOK, NEW q \in [Keys -> Values \cup {NoValue}],
         NEW due, due \subseteq {k \in Keys : q[k] # NoValue}, NEW force, Flush(q, due, force)
  PROVE  \E landed \in SUBSET Keys : \E written \in SUBSET landed :
           /\ \A k \in landed : q[k] \in Values
           /\ sink' = Persisted(q, landed)
           /\ queue' = [k \in Keys |-> IF k \in written THEN NoValue ELSE q[k]]
           /\ overdue' \subseteq {k \in Keys : queue'[k] # NoValue}
<1> DEFINE batch == Batch(q, due, force)
<1>1. batch \in SUBSET Keys /\ due \subseteq Keys /\ \A k \in batch \cup due : q[k] \in Values
  BY DEF Batch
<1>2. \E written : written \subseteq batch /\ FlushWrites(q, due, batch, written)
  BY DEF Flush, FlushDone, FlushFails
<1>3. PICK landed \in SUBSET batch, written \in SUBSET batch :
        /\ written \subseteq landed
        /\ sink' = Persisted(q, landed)
        /\ queue' = [k \in Keys |-> IF k \in written THEN NoValue ELSE q[k]]
        /\ overdue' = (due \cup batch) \ written
  BY <1>2 DEF FlushWrites
<1> HIDE DEF batch
<1>4. overdue' \subseteq {k \in Keys : queue'[k] # NoValue}
  BY <1>1, <1>3, DomainMemoryAssumption DEF DomainMemoryAssumption
<1>. QED BY <1>1, <1>3, <1>4

\* An accepted value is in Hot, with what gave way to it below.
LEMMA Upserts ==
  ASSUME TypeOK, NEW k \in Keys, NEW v \in Values,
         UpsertImmediate(k, v) \/ UpsertDeferred(k, v) \/ UpsertBuffered(k, v)
  PROVE  \E victims \in SUBSET (Live \ {k}) :
           \/ Writes(k, v, victims)
           \/ Lowers(victims, {})
<1> DEFINE S == [Tiers -> [Keys -> Values \cup {NoValue}]]
<1>0. \A victims \in VictimSets(k, v) :
        victims \in SUBSET (Live \ {k}) /\ victims \in SUBSET Live /\ Fits(k, v, victims)
  BY LiveTypes
<1>1. \A victims \in SUBSET Live : Demoted(victims) \in S
  BY DemotedTypes
<1>2. Mirrored(k) => Home(k) = "warm"
  BY ClassTypes DEF TypeOK
<1>3. CASE UpsertImmediate(k, v)
  <2>1. PICK victims \in VictimSets(k, v) :
          \/ /\ sink' = Persisted([queue EXCEPT ![k] = v], {k})
             /\ hot' = Commit(k, v, victims)
             /\ Archive(k, v, Demoted(victims))
          \/ /\ store' = Demoted(victims)
             /\ UNCHANGED <<hot, ghosts>>
    BY <1>3 DEF UpsertImmediate
  <2>2. CASE store' = Demoted(victims) /\ UNCHANGED <<hot, ghosts>>
    BY <1>0, <2>2 DEF Lowers
  <2>3. CASE /\ sink' = Persisted([queue EXCEPT ![k] = v], {k})
             /\ hot' = Commit(k, v, victims)
             /\ Archive(k, v, Demoted(victims))
    <3>1. v \in sink'[k].all
      <4>1. PICK q \in [Keys -> Values \cup {NoValue}] : q = [queue EXCEPT ![k] = v]
        BY DEF TypeOK
      <4>2. q[k] = v /\ {k} \in SUBSET Keys /\ sink' = Persisted(q, {k})
        BY <2>3, <4>1 DEF TypeOK
      <4>3. \A j \in {k} : q[j] \in Values
        BY <4>2
      <4>4. q[k] \in Persisted(q, {k})[k].all
        BY <4>2, <4>3, PersistedTypes
      <4>. QED BY <4>2, <4>4
    <3>2. Demoted(victims) \in S
      BY <1>0, <1>1
    <3>3. /\ store' \in S
          /\ \A t \in Tiers, j \in Keys :
               \/ store'[t][j] = Demoted(victims)[t][j]
               \/ j = k /\ t = Home(k) /\ t \in policy.backends /\ store'[t][j] = v
          /\ Told(k, v) \/ TriedTo(k, v)
          /\ Home(k) = "frozen" => TriedTo(k, v) \/ store'["frozen"][k] = v
      BY <2>3, <3>2, Archives
    <3>4. Home(k) \in {"frozen", "nowhere"}
      BY <1>3, ClassTypes DEF UpsertImmediate, TypeOK, Home, Mirrored
    <3>. QED BY <1>0, <2>3, <3>1, <3>3, <3>4 DEF Writes, Tiers
  <2>. QED BY <2>1, <2>2, <2>3
<1>4. CASE UpsertDeferred(k, v)
  <2>1. PICK victims \in VictimSets(k, v) :
          /\ hot' = Commit(k, v, victims)
          /\ \/ Archive(k, v, Demoted(victims))
             \/ store' = Demoted(victims) /\ TriedTo(k, v)
    BY <1>4 DEF UpsertDeferred
  <2>2. Class(k).policy = "deferred" /\ Home(k) \in {"frozen", "nowhere"}
    BY <1>4, ClassTypes DEF UpsertDeferred, TypeOK
  <2>3. Demoted(victims) \in S
    BY <1>0, <1>1
  <2>4. CASE store' = Demoted(victims) /\ TriedTo(k, v)
    BY <1>0, <2>1, <2>2, <2>3, <2>4 DEF Writes
  <2>5. CASE Archive(k, v, Demoted(victims))
    <3>1. /\ store' \in S
          /\ \A t \in Tiers, j \in Keys :
               \/ store'[t][j] = Demoted(victims)[t][j]
               \/ j = k /\ t = Home(k) /\ t \in policy.backends /\ store'[t][j] = v
          /\ Told(k, v) \/ TriedTo(k, v)
          /\ Home(k) = "frozen" => TriedTo(k, v) \/ store'["frozen"][k] = v
      BY <2>3, <2>5, Archives
    <3>. QED BY <1>0, <2>1, <2>2, <3>1 DEF Writes, Tiers
  <2>. QED BY <2>1, <2>4, <2>5
<1>5. CASE UpsertBuffered(k, v)
  <2> DEFINE mirror(victims) ==
        IF Mirrored(k) THEN Put(Demoted(victims), "warm", k, v) ELSE Demoted(victims)
  <2>1. PICK victims \in VictimSets(k, v) :
          /\ hot' = Commit(k, v, victims)
          /\ \/ Archive(k, v, mirror(victims))
             \/ store' \in {Demoted(victims), mirror(victims)} /\ TriedTo(k, v)
    BY <1>5 DEF UpsertBuffered
  <2>2. Class(k).policy # "immediate"
    BY <1>5 DEF UpsertBuffered
  <2>3. Demoted(victims) \in S
    BY <1>0, <1>1
  <2>4. /\ mirror(victims) \in S
        /\ \A t \in Tiers, j \in Keys :
             mirror(victims)[t][j] = IF Mirrored(k) /\ j = k /\ t = "warm" /\ t \in policy.backends
                                       THEN v ELSE Demoted(victims)[t][j]
    <3>1. "warm" \in Tiers
      BY DEF Tiers
    <3>. QED BY <2>3, <3>1, PutTypes
  <2> HIDE DEF mirror
  <2>5. CASE store' \in {Demoted(victims), mirror(victims)} /\ TriedTo(k, v)
    BY <1>0, <1>2, <2>1, <2>2, <2>3, <2>4, <2>5 DEF Writes
  <2>6. CASE Archive(k, v, mirror(victims))
    <3>1. /\ store' \in S
          /\ \A t \in Tiers, j \in Keys :
               \/ store'[t][j] = mirror(victims)[t][j]
               \/ j = k /\ t = Home(k) /\ t \in policy.backends /\ store'[t][j] = v
          /\ Told(k, v) \/ TriedTo(k, v)
          /\ Home(k) # "frozen" => store' = mirror(victims)
          /\ Home(k) = "frozen" => TriedTo(k, v) \/ store'["frozen"][k] = v
      BY <2>4, <2>6, Archives
    <3>2. Home(k) = "warm" => Mirrored(k)
      BY DEF Home
    <3>3. \A t \in Tiers, j \in Keys :
            \/ store'[t][j] = Demoted(victims)[t][j]
            \/ j = k /\ t = Home(k) /\ t \in policy.backends /\ store'[t][j] = v
      BY <1>2, <2>4, <3>1
    <3>4. TriedTo(k, v) \/ \A t \in Tiers \cap policy.backends : t = Home(k) /\ t # "cold" => store'[t][k] = v
      BY <2>4, <3>1, <3>2 DEF Tiers
    <3>. QED BY <1>0, <2>1, <2>2, <3>1, <3>3, <3>4 DEF Writes
  <2>. QED BY <2>1, <2>5, <2>6
<1>. QED BY <1>3, <1>4, <1>5

\* What any step does to the levels.
LEMMA LevelSteps ==
  ASSUME TypeOK, [MemoryNext]_memoryVars
  PROVE  /\ policy' = policy
         /\ \/ \E down \in SUBSET Live : \E gone \in SUBSET down : Lowers(down, gone)
            \/ \E k \in Keys \ Live : \E victims \in SUBSET (Live \ {k}) : Restores(k, victims)
            \/ \E k \in Keys, v \in Values : \E victims \in SUBSET (Live \ {k}) : Writes(k, v, victims)
            \/ \E k \in Keys : RemoveKey(k) \/ Expire(k)
            \/ Reopen
<1> DEFINE lowers == \E down \in SUBSET Live : \E gone \in SUBSET down : Lowers(down, gone)
           restores == \E k \in Keys \ Live : \E victims \in SUBSET (Live \ {k}) : Restores(k, victims)
<1>0. \A down \in SUBSET Live : Lowers(down, {}) => lowers
  OBVIOUS
<1>1. /\ Demoted({}) = store /\ Evictable \subseteq Live /\ Demotable \subseteq Live
      /\ \A k \in Keys : \A v : \A victims \in VictimSets(k, v) :
           victims \in SUBSET (Live \ {k}) /\ Fits(k, v, victims)
  BY NoneDemoted, LiveTypes
<1>2. UNCHANGED <<hot, store, ghosts>> => lowers
  <2> SUFFICES ASSUME UNCHANGED <<hot, store, ghosts>> PROVE Lowers({}, {})
    BY <1>0
  <2>. QED BY <1>1 DEF Lowers
<1>3. hot' = Without({}) /\ UNCHANGED <<store, ghosts>> => lowers
  <2> SUFFICES ASSUME hot' = Without({}), UNCHANGED <<store, ghosts>> PROVE Lowers({}, {})
    BY <1>0
  <2>. QED BY <1>1 DEF Lowers
<1>4. ASSUME NEW k \in Keys, Get(k) PROVE lowers \/ restores
  <2>1. UNCHANGED ghosts
    BY <1>4 DEF Get
  <2>2. \/ hot' = Without({}) /\ UNCHANGED store
        \/ k \notin Live /\ Holding(k) # {} /\ Promote(k, store[Nearest(k)][k])
    BY <1>4 DEF Get
  <2>3. ASSUME k \notin Live, Holding(k) # {}, Promote(k, store[Nearest(k)][k]) PROVE lowers \/ restores
    <3> DEFINE v == store[Nearest(k)][k]
    <3>1. \/ hot' = Without({}) /\ UNCHANGED store
          \/ \E victims \in VictimSets(k, v) : \E done \in SUBSET victims :
               store' = Demoted(done) /\ hot' = Without({})
          \/ \E victims \in VictimSets(k, v) : hot' = Commit(k, v, victims) /\ store' = Demoted(victims)
      BY <2>3 DEF Promote
    <3>2. ASSUME NEW victims \in VictimSets(k, v), NEW done \in SUBSET victims,
                 store' = Demoted(done), hot' = Without({})
          PROVE  lowers
      <4>1. done \in SUBSET Live
        BY <1>1
      <4>2. Lowers(done, {})
        BY <2>1, <3>2 DEF Lowers
      <4>. QED BY <1>0, <4>1, <4>2
    <3>3. ASSUME NEW victims \in VictimSets(k, v), hot' = Commit(k, v, victims), store' = Demoted(victims)
          PROVE  restores
      <4>1. Restores(k, victims)
        BY <1>1, <2>1, <2>3, <3>3 DEF Restores
      <4>. QED BY <1>1, <2>3, <4>1
    <3>. QED BY <1>3, <2>1, <3>1, <3>2, <3>3
  <2>. QED BY <1>3, <2>1, <2>2, <2>3
<1>5. ASSUME Pressure PROVE lowers
  <2>1. \/ UNCHANGED <<hot, store, ghosts>>
        \/ hot' = Without({}) /\ UNCHANGED <<store, ghosts>>
        \/ \E k \in Evictable : hot' = Without({k}) /\ store' = Demoted({k}) /\ UNCHANGED ghosts
    BY <1>5 DEF Pressure
  <2>2. ASSUME NEW k \in Evictable, hot' = Without({k}), store' = Demoted({k}), UNCHANGED ghosts
        PROVE  lowers
    <3>1. Lowers({k}, {k}) /\ {k} \in SUBSET Live
      BY <1>1, <2>2 DEF Lowers
    <3>. QED BY <3>1
  <2>. QED BY <1>2, <1>3, <2>1, <2>2
<1>6. ASSUME Poll PROVE lowers
  <2>1. PICK idle \in SUBSET Demotable : \E done \in SUBSET idle : store' = Demoted(done) /\ hot' = Without(done)
    BY <1>6 DEF Poll
  <2>2. PICK done \in SUBSET idle : store' = Demoted(done) /\ hot' = Without(done)
    BY <2>1
  <2>3. Lowers(done, done) /\ done \in SUBSET Live
    BY <1>1, <1>6, <2>2 DEF Lowers, Poll
  <2>. QED BY <2>3
<1>7. ASSUME NEW k \in Keys, NEW v \in Values, UpsertDemotionFails(k, v) PROVE lowers
  <2>1. PICK victims \in VictimSets(k, v) : \E done \in SUBSET victims : store' = Demoted(done)
    BY <1>7 DEF UpsertDemotionFails
  <2>2. PICK done \in SUBSET victims : store' = Demoted(done)
    BY <2>1
  <2>3. Lowers(done, {}) /\ done \in SUBSET Live
    BY <1>1, <1>7, <2>2 DEF Lowers, UpsertDemotionFails
  <2>. QED BY <1>0, <2>3
<1>8. ASSUME NEW k \in Keys, NEW v \in Values, UpsertRefused(k, v) PROVE lowers
  BY <1>2, <1>8 DEF UpsertRefused, memoryVars, ghosts
<1>9. ASSUME NEW k \in Keys, NEW v \in Values,
             UpsertImmediate(k, v) \/ UpsertDeferred(k, v) \/ UpsertBuffered(k, v)
      PROVE  lowers \/ \E victims \in SUBSET (Live \ {k}) : Writes(k, v, victims)
  <2>1. PICK victims \in SUBSET (Live \ {k}) : Writes(k, v, victims) \/ Lowers(victims, {})
    BY <1>9, Upserts
  <2>. QED BY <1>0, <2>1
<1>10. ASSUME NEW k \in Keys, FallsDue(k) PROVE lowers
  BY <1>2, <1>10 DEF FallsDue
<1>11. UNCHANGED memoryVars => lowers
  BY <1>2 DEF memoryVars, ghosts
<1> HIDE DEF lowers, restores
<1>12. policy' = policy
  BY DEF MemoryNext, Get, RemoveKey, Expire, FallsDue, Upsert, UpsertRefused, UpsertDemotionFails,
     UpsertImmediate, UpsertDeferred, UpsertBuffered, Pressure, Poll, Close, Crash, Reopen, memoryVars
<1>13. CASE MemoryNext
  <2>1. \/ lowers \/ restores
        \/ \E k \in Keys, v \in Values : \E victims \in SUBSET (Live \ {k}) : Writes(k, v, victims)
        \/ \E k \in Keys : RemoveKey(k) \/ Expire(k)
        \/ Reopen
    BY <1>13, <1>4, <1>5, <1>6, <1>7, <1>8, <1>9, <1>10 DEF MemoryNext, Upsert, Close, Crash
  <2>. QED BY <1>12, <2>1 DEF lowers, restores
<1>. QED BY <1>11, <1>12, <1>13 DEF lowers

----------------------------------------------------------------------------
(* What a step does to the queue and the file. *)

FileTypes ==
  /\ queue \in [Keys -> Values \cup {NoValue}]
  /\ overdue \subseteq {k \in Keys : queue[k] # NoValue}
  /\ sink \in [Keys -> [last : Values \cup {NoValue}, all : SUBSET Values]]

Grows == \A k \in Keys : sink[k].all \subseteq sink'[k].all

\* The record q has of a key stays in the queue, or it is the last one written.
FileMoves(q, k) ==
  IF q[k] = NoValue THEN queue'[k] = NoValue /\ sink'[k].last = sink[k].last
  ELSE queue'[k] = q[k] \/ (queue'[k] = NoValue /\ sink'[k].last = q[k])

\* A flush moves records, whatever fails.
LEMMA FlushMoves ==
  ASSUME TypeOK, NEW q \in [Keys -> Values \cup {NoValue}],
         NEW due, due \subseteq {k \in Keys : q[k] # NoValue}, NEW force, Flush(q, due, force)
  PROVE  FileTypes' /\ Grows /\ \A k \in Keys : FileMoves(q, k)
<1>1. PICK landed \in SUBSET Keys : \E written \in SUBSET landed :
        /\ \A k \in landed : q[k] \in Values
        /\ sink' = Persisted(q, landed)
        /\ queue' = [k \in Keys |-> IF k \in written THEN NoValue ELSE q[k]]
        /\ overdue' \subseteq {k \in Keys : queue'[k] # NoValue}
  BY Flushes
<1>2. PICK written \in SUBSET landed :
        /\ \A k \in landed : q[k] \in Values
        /\ sink' = Persisted(q, landed)
        /\ queue' = [k \in Keys |-> IF k \in written THEN NoValue ELSE q[k]]
        /\ overdue' \subseteq {k \in Keys : queue'[k] # NoValue}
  BY <1>1
<1>3. /\ sink' \in [Keys -> [last : Values \cup {NoValue}, all : SUBSET Values]]
      /\ \A k \in Keys : /\ sink'[k].last = IF k \in landed THEN q[k] ELSE sink[k].last
                         /\ sink[k].all \subseteq sink'[k].all
  BY <1>2, PersistedTypes
<1>4. FileTypes' /\ Grows
  BY <1>2, <1>3 DEF FileTypes, Grows
<1>5. ASSUME NEW k \in Keys PROVE FileMoves(q, k)
  <2>1. NoValue \notin Values
    BY DomainMemoryAssumption DEF DomainMemoryAssumption
  <2>. QED BY <1>2, <1>3, <2>1 DEF FileMoves
<1>. QED BY <1>4, <1>5

\* Some of the records of q are written, and the queue stays.
LEMMA WritesKeep ==
  ASSUME TypeOK, NEW q \in [Keys -> Values \cup {NoValue}], NEW ks \in SUBSET Keys,
         \A k \in ks : q[k] \in Values, sink' = Persisted(q, ks)
  PROVE  /\ sink' \in [Keys -> [last : Values \cup {NoValue}, all : SUBSET Values]]
         /\ Grows
         /\ \A k \in Keys \ ks : sink'[k].last = sink[k].last
BY PersistedTypes DEF Grows

\* What a step does to the queue, the file and what a reader may find.
LEMMA FileSteps ==
  ASSUME TypeOK, [MemoryNext]_memoryVars
  PROVE  /\ FileTypes' /\ Grows
         /\ \A k \in Keys : Class(k).policy = "deferred" =>
              \/ FileMoves(queue, k) /\ allowed'[k] = allowed[k]
              \/ allowed'[k] = {}
              \/ Reopen
              \/ \E v \in Values : FileMoves([queue EXCEPT ![k] = v], k) /\ v \in allowed'[k]
<1> DEFINE steps(k) == \/ FileMoves(queue, k) /\ allowed'[k] = allowed[k]
                       \/ allowed'[k] = {}
                       \/ Reopen
                       \/ \E v \in Values : FileMoves([queue EXCEPT ![k] = v], k) /\ v \in allowed'[k]
           goal == /\ FileTypes' /\ Grows
                   /\ \A k \in Keys : Class(k).policy = "deferred" => steps(k)
<1>0. /\ FileTypes /\ allowed \in [Keys -> SUBSET Values]
      /\ \A k \in Keys : queue[k] \in Values <=> queue[k] # NoValue
  BY DomainMemoryAssumption DEF DomainMemoryAssumption, TypeOK, FileTypes
<1>1. ASSUME UNCHANGED <<queue, overdue, sink>> PROVE FileTypes' /\ Grows /\ \A k \in Keys : FileMoves(queue, k)
  <2>1. FileTypes'
    BY <1>0, <1>1 DEF FileTypes
  <2>. QED BY <1>1, <2>1 DEF Grows, FileMoves
<1>2. ASSUME UNCHANGED <<queue, overdue, sink, allowed>> PROVE goal
  BY <1>1, <1>2
<1>3. ASSUME NEW force, Flush(queue, overdue, force), UNCHANGED allowed PROVE goal
  BY <1>0, <1>3, FlushMoves DEF FileTypes
<1>4. ASSUME NEW k \in Keys, Get(k) PROVE goal
  BY <1>3, <1>4 DEF Get, ghosts
<1>5. ASSUME NEW k \in Keys, RemoveKey(k) PROVE goal
  <2>1. UNCHANGED <<queue, overdue, sink>> /\ allowed' = [allowed EXCEPT ![k] = {}]
    BY <1>5 DEF RemoveKey
  <2>2. \A j \in Keys : allowed'[j] = {} \/ allowed'[j] = allowed[j]
    BY <1>0, <2>1
  <2>. QED BY <1>1, <2>1, <2>2
<1>6. ASSUME NEW k \in Keys, Expire(k) PROVE goal
  BY <1>2, <1>6 DEF Expire
<1>7. ASSUME NEW k \in Keys, FallsDue(k) PROVE goal
  <2>1. UNCHANGED <<queue, sink, allowed>> /\ overdue' = overdue \cup {k} /\ queue[k] # NoValue
    BY <1>7 DEF FallsDue, ghosts
  <2>2. FileTypes'
    BY <1>0, <2>1 DEF FileTypes
  <2>3. Grows /\ \A j \in Keys : FileMoves(queue, j)
    BY <2>1 DEF Grows, FileMoves
  <2>. QED BY <2>1, <2>2, <2>3
<1>8. ASSUME NEW k \in Keys, NEW v \in Values, UpsertRefused(k, v) \/ UpsertDemotionFails(k, v) PROVE goal
  BY <1>2, <1>8 DEF UpsertRefused, UpsertDemotionFails, memoryVars, ghosts
<1>9. ASSUME NEW k \in Keys, NEW v \in Values, UpsertImmediate(k, v) PROVE goal
  <2>1. /\ Class(k).policy = "immediate" /\ UNCHANGED <<queue, overdue>>
        /\ sink' = sink \/ sink' = Persisted([queue EXCEPT ![k] = v], {k})
    BY <1>9 DEF UpsertImmediate
  <2>2. \A j \in Keys : j # k => allowed'[j] = allowed[j]
    BY <1>0, <1>9 DEF UpsertImmediate, Archive, Told, TriedTo, ghosts
  <2>3. CASE sink' = sink
    <3>1. Class(k).policy # "deferred"
      BY <2>1
    <3>. QED BY <1>1, <2>1, <2>2, <2>3, <3>1
  <2>4. CASE sink' = Persisted([queue EXCEPT ![k] = v], {k})
    <3>1. PICK q \in [Keys -> Values \cup {NoValue}] : q = [queue EXCEPT ![k] = v]
      BY <1>0 DEF FileTypes
    <3>2. \A j \in {k} : q[j] \in Values
      BY <1>0, <3>1 DEF FileTypes
    <3>3. /\ sink' \in [Keys -> [last : Values \cup {NoValue}, all : SUBSET Values]]
          /\ Grows
          /\ \A j \in Keys \ {k} : sink'[j].last = sink[j].last
      <4>1. {k} \in SUBSET Keys /\ sink' = Persisted(q, {k})
        BY <2>4, <3>1
      <4>. QED BY <3>2, <4>1, WritesKeep
    <3>4. FileTypes'
      BY <1>0, <2>1, <3>3 DEF FileTypes
    <3>5. \A j \in Keys : j # k => FileMoves(queue, j)
      BY <2>1, <3>3 DEF FileMoves
    <3>. QED BY <2>1, <2>2, <3>3, <3>4, <3>5
  <2>. QED BY <2>1, <2>3, <2>4
<1>10. ASSUME NEW k \in Keys, NEW v \in Values, UpsertDeferred(k, v) PROVE goal
  <2>1. PICK q \in [Keys -> Values \cup {NoValue}] : q = [queue EXCEPT ![k] = v]
    BY <1>0 DEF FileTypes
  <2>2. \E force : Flush(q, overdue \ {k}, force)
    BY <1>10, <2>1 DEF UpsertDeferred, Flush
  <2>3. Told(k, v) \/ TriedTo(k, v)
    BY <1>10 DEF UpsertDeferred, Archive
  <2>4. v \in allowed'[k] /\ \A j \in Keys : j # k => allowed'[j] = allowed[j]
    BY <1>0, <2>3 DEF Told, TriedTo
  <2>5. overdue \ {k} \subseteq {j \in Keys : q[j] # NoValue}
    BY <1>0, <2>1 DEF FileTypes
  <2>6. FileTypes' /\ Grows /\ \A j \in Keys : FileMoves(q, j)
    BY <2>2, <2>5, FlushMoves
  <2>7. \A j \in Keys : j # k => FileMoves(queue, j)
    <3>1. \A j \in Keys : j # k => q[j] = queue[j]
      BY <2>1
    <3>. QED BY <2>6, <3>1 DEF FileMoves
  <2>8. FileMoves([queue EXCEPT ![k] = v], k)
    BY <2>1, <2>6
  <2>. QED BY <2>4, <2>6, <2>7, <2>8
<1>11. ASSUME NEW k \in Keys, NEW v \in Values, UpsertBuffered(k, v) PROVE goal
  <2>1. /\ Class(k).policy # "deferred"
        /\ (\E force : Flush(queue, overdue, force)) \/ UNCHANGED <<queue, overdue, sink>>
    BY <1>11 DEF UpsertBuffered, Flush
  <2>2. Told(k, v) \/ TriedTo(k, v)
    BY <1>11 DEF UpsertBuffered, Archive
  <2>3. \A j \in Keys : j # k => allowed'[j] = allowed[j]
    BY <1>0, <2>2 DEF Told, TriedTo
  <2>4. FileTypes' /\ Grows /\ \A j \in Keys : FileMoves(queue, j)
    <3>1. CASE UNCHANGED <<queue, overdue, sink>>
      BY <1>1, <3>1
    <3>2. CASE \E force : Flush(queue, overdue, force)
      BY <1>0, <3>2, FlushMoves DEF FileTypes
    <3>. QED BY <2>1, <3>1, <3>2
  <2>. QED BY <2>1, <2>3, <2>4
<1>12. ASSUME Pressure PROVE goal
  BY <1>3, <1>12 DEF Pressure, Flush, ghosts
<1>13. ASSUME Poll PROVE goal
  BY <1>3, <1>13 DEF Poll, Flush, ghosts
<1>14. ASSUME Close \/ Crash PROVE goal
  <2>1. Reopen /\ queue' = [k \in Keys |-> NoValue] /\ overdue' = {}
    BY <1>14 DEF Close, Crash, Reopen
  <2>2. sink' \in [Keys -> [last : Values \cup {NoValue}, all : SUBSET Values]] /\ Grows
    <3>1. CASE sink' = sink
      BY <1>0, <3>1 DEF FileTypes, Grows
    <3>2. CASE Close
      <4>1. PICK written \in SUBSET {k \in Keys : queue[k] # NoValue} : sink' = Persisted(queue, written)
        BY <3>2 DEF Close
      <4>2. written \in SUBSET Keys /\ \A k \in written : queue[k] \in Values
        BY <1>0, <4>1
      <4>3. queue \in [Keys -> Values \cup {NoValue}]
        BY <1>0 DEF FileTypes
      <4>. QED BY <4>1, <4>2, <4>3, WritesKeep
    <3>. QED BY <1>14, <3>1, <3>2 DEF Crash
  <2>3. FileTypes'
    BY <2>1, <2>2 DEF FileTypes
  <2>. QED BY <2>1, <2>2, <2>3
<1>15. ASSUME UNCHANGED memoryVars PROVE goal
  BY <1>2, <1>15 DEF memoryVars, ghosts
<1> HIDE DEF goal
<1>16. goal
  BY <1>4, <1>5, <1>6, <1>7, <1>8, <1>9, <1>10, <1>11, <1>12, <1>13, <1>14, <1>15 DEF MemoryNext, Upsert
<1>. QED BY <1>16 DEF goal

----------------------------------------------------------------------------
(* Types. *)

\* The initial state is well typed.
LEMMA TypesInit == MemoryInit => TypeOK
<1> SUFFICES ASSUME MemoryInit PROVE TypeOK
  OBVIOUS
<1>1. /\ policy \in Policies /\ hot \in [Keys -> Entry \cup {NoEntry}]
      /\ store \in [Tiers -> [Keys -> Values \cup {NoValue}]]
  BY DEF MemoryInit
<1>2. /\ queue \in [Keys -> Values \cup {NoValue}] /\ overdue \subseteq {k \in Keys : queue[k] # NoValue}
      /\ sink \in [Keys -> [last : Values \cup {NoValue}, all : SUBSET Values]]
  BY DEF MemoryInit
<1>3. allowed \in [Keys -> SUBSET Values] /\ lapsed \subseteq Keys
  BY DEF MemoryInit
<1>. QED BY <1>1, <1>2, <1>3 DEF TypeOK

\* What lookups find is a value.
LEMMA NearestTypes ==
  ASSUME TypeOK, NEW k \in Keys, Holding(k) # {}
  PROVE  Nearest(k) \in Holding(k) /\ Nearest(k) \in Tiers /\ store[Nearest(k)][k] \in Values
<1>1. Nearest(k) \in Holding(k)
  BY DEF Nearest, Holding, Tiers
<1>. QED BY <1>1 DEF Holding, TypeOK

\* The types of the levels, after any step.
LEMMA LevelTypesStep ==
  ASSUME TypeOK, [MemoryNext]_memoryVars
  PROVE  /\ policy' \in Policies
         /\ hot' \in [Keys -> Entry \cup {NoEntry}]
         /\ store' \in [Tiers -> [Keys -> Values \cup {NoValue}]]
         /\ allowed' \in [Keys -> SUBSET Values]
         /\ lapsed' \subseteq Keys
<1> DEFINE goal == /\ hot' \in [Keys -> Entry \cup {NoEntry}]
                   /\ store' \in [Tiers -> [Keys -> Values \cup {NoValue}]]
                   /\ allowed' \in [Keys -> SUBSET Values]
                   /\ lapsed' \subseteq Keys
<1>0. /\ policy \in Policies /\ hot \in [Keys -> Entry \cup {NoEntry}]
      /\ store \in [Tiers -> [Keys -> Values \cup {NoValue}]]
      /\ allowed \in [Keys -> SUBSET Values] /\ lapsed \subseteq Keys /\ Live \subseteq Keys
  BY LiveTypes DEF TypeOK
<1>1. ASSUME NEW down \in SUBSET Live, NEW gone \in SUBSET down, Lowers(down, gone) PROVE goal
  <2>1. hot' \in [Keys -> Entry \cup {NoEntry}]
    BY <1>0, <1>1, HotTypes DEF Lowers
  <2>. QED BY <1>0, <1>1, <2>1, DemotedTypes DEF Lowers, ghosts
<1>2. ASSUME NEW k \in Keys, NEW victims \in SUBSET (Live \ {k}), Restores(k, victims) PROVE goal
  <2>1. store[Nearest(k)][k] \in Values
    BY <1>2, NearestTypes DEF Restores
  <2>2. hot' \in [Keys -> Entry \cup {NoEntry}]
    BY <1>0, <1>2, <2>1, HotTypes DEF Restores
  <2>. QED BY <1>0, <1>2, <2>2, DemotedTypes DEF Restores, ghosts
<1>3. ASSUME NEW k \in Keys, NEW v \in Values, NEW victims \in SUBSET (Live \ {k}), Writes(k, v, victims)
      PROVE goal
  <2>1. hot' \in [Keys -> Entry \cup {NoEntry}]
    BY <1>0, <1>3, HotTypes DEF Writes
  <2>2. allowed' \in [Keys -> SUBSET Values] /\ lapsed' \subseteq Keys
    BY <1>0, <1>3 DEF Writes, Told, TriedTo
  <2>. QED BY <1>3, <2>1, <2>2 DEF Writes
<1>4. ASSUME NEW k \in Keys, RemoveKey(k) PROVE goal
  <2>1. PICK kept \in SUBSET Tiers :
          store' = [t \in Tiers |-> IF t \in kept THEN store[t] ELSE [store[t] EXCEPT ![k] = NoValue]]
    BY <1>4 DEF RemoveKey, Holding
  <2>2. store' \in [Tiers -> [Keys -> Values \cup {NoValue}]]
    BY <1>0, <2>1
  <2>3. hot' \in [Keys -> Entry \cup {NoEntry}]
    BY <1>0, <1>4 DEF RemoveKey
  <2>. QED BY <1>0, <1>4, <2>2, <2>3 DEF RemoveKey
<1>5. ASSUME NEW k \in Keys, Expire(k) PROVE goal
  <2>1. hot[k] \in Entry
    BY <1>5, LiveTypes DEF Expire
  <2>2. [hot[k] EXCEPT !.expired = TRUE] \in Entry
    BY <2>1 DEF Entry
  <2>3. hot' \in [Keys -> Entry \cup {NoEntry}]
    BY <1>0, <1>5, <2>2 DEF Expire
  <2>. QED BY <1>0, <1>5, <2>3 DEF Expire
<1>6. ASSUME Reopen PROVE goal
  <2>1. hot' \in [Keys -> Entry \cup {NoEntry}]
    BY <1>6 DEF Reopen
  <2>2. allowed' \in [Keys -> SUBSET Values] /\ lapsed' \subseteq Keys
    BY <1>6 DEF Reopen
  <2>. QED BY <1>0, <1>6, <2>1, <2>2 DEF Reopen
<1> HIDE DEF goal
<1>7. policy' = policy /\ goal
  BY <1>1, <1>2, <1>3, <1>4, <1>5, <1>6, LevelSteps
<1>. QED BY <1>0, <1>7 DEF goal

\* Every step keeps the types.
LEMMA TypesStep == TypeOK /\ [MemoryNext]_memoryVars => TypeOK'
<1> SUFFICES ASSUME TypeOK, [MemoryNext]_memoryVars PROVE TypeOK'
  OBVIOUS
<1>1. FileTypes'
  BY FileSteps
<1>. QED BY <1>1, LevelTypesStep DEF TypeOK, FileTypes

\* The levels, the queue, the file and what a reader may find keep their
\* types, whatever the classes, the limits and the faults.
THEOREM MemoryTypes == MemorySpec => []TypeOK
<1>. QED BY TypesInit, TypesStep, PTL DEF MemorySpec

----------------------------------------------------------------------------
(* What a step does to one key. *)

\* Its value stays where it is, goes home, or comes back from below; when it
\* leaves Hot for a level below, it is there.
Moves(j) ==
  /\ allowed'[j] = allowed[j] /\ (j \in lapsed' <=> j \in lapsed)
  /\ j \in Live' => \/ j \in Live /\ hot'[j].value = hot[j].value
                    \/ j \notin Live /\ Holding(j) # {} /\ hot'[j].value = store[Nearest(j)][j]
  /\ \A t \in Tiers : \/ store'[t][j] = store[t][j]
                      \/ /\ j \in Live /\ t = Home(j) /\ t \in policy.backends
                         /\ store'[t][j] = hot[j].value
  /\ j \in Live /\ j \notin Live' /\ Home(j) \in policy.backends => store'[Home(j)][j] = hot[j].value

\* It has a new value.
Rewritten(j, v) ==
  /\ j \in Live' /\ hot'[j].value = v /\ j \notin lapsed'
  /\ \A t \in Tiers : \/ store'[t][j] = store[t][j]
                      \/ t = Home(j) /\ t \in policy.backends /\ store'[t][j] = v
  /\ \/ /\ allowed'[j] = {v}
        /\ \A t \in Tiers \cap policy.backends : t = Home(j) /\ t # "cold" => store'[t][j] = v
     \/ allowed'[j] = allowed[j] \cup {v}
  /\ Class(j).policy = "immediate" => v \in sink'[j].all

\* It is removed, from every level unless a removal may fail.
Removed(j) ==
  /\ j \notin Live' /\ j \notin lapsed' /\ allowed'[j] = {}
  /\ \A t \in Tiers : \/ store'[t][j] = NoValue
                      \/ May("remove") /\ store'[t][j] = store[t][j]

\* It expires in Hot.
Expired(j) ==
  /\ j \notin Live' /\ j \in lapsed' /\ allowed'[j] = allowed[j]
  /\ \A t \in Tiers : store'[t][j] = store[t][j]

\* The manager is opened again.
Reopened(j) ==
  /\ j \notin Live' /\ j \notin lapsed' /\ allowed'[j] = {store[t][j] : t \in Tiers} \cap Values
  /\ \A t \in Tiers : store'[t][j] = store[t][j]

\* What is live when entries leave Hot, and when one is put there.
LEMMA LiveAfter ==
  ASSUME TypeOK, NEW ks \in SUBSET Keys
  PROVE  /\ hot' = Without(ks) => Live' = Live \ ks /\ \A j \in Live' : hot'[j] = hot[j]
         /\ \A k \in Keys, v \in Values : hot' = Commit(k, v, ks) =>
              /\ Live' = (Live \ ks) \cup {k} /\ hot'[k].value = v
              /\ \A j \in Live' : j # k => hot'[j] = hot[j]
<1>0. NoValue \notin Values /\ hot \in [Keys -> Entry \cup {NoEntry}]
  BY DomainMemoryAssumption DEF DomainMemoryAssumption, TypeOK
<1>1. ASSUME hot' = Without(ks) PROVE Live' = Live \ ks /\ \A j \in Live' : hot'[j] = hot[j]
  <2>1. \A j \in Keys : hot'[j] = IF j \in Live \ ks THEN hot[j] ELSE NoEntry
    BY <1>1 DEF Without
  <2>2. \A j \in Live : hot[j] # NoEntry /\ ~hot[j].expired
    BY DEF Live
  <2>. QED BY <2>1, <2>2 DEF Live
<1>2. ASSUME NEW k \in Keys, NEW v \in Values, hot' = Commit(k, v, ks)
      PROVE  /\ Live' = (Live \ ks) \cup {k} /\ hot'[k].value = v
             /\ \A j \in Live' : j # k => hot'[j] = hot[j]
  <2>1. \A j \in Keys : hot'[j] = IF j = k THEN [value |-> v, expired |-> FALSE]
                                  ELSE IF j \in Live \ ks THEN hot[j] ELSE NoEntry
    BY <1>2 DEF Commit, Without
  <2>2. \A j \in Live : hot[j] # NoEntry /\ ~hot[j].expired
    BY DEF Live
  <2>3. [value |-> v, expired |-> FALSE] # NoEntry
    <3>1. [value |-> v, expired |-> FALSE].value # NoEntry.value
      BY <1>0 DEF NoEntry
    <3>. QED BY <3>1
  <2>4. Live' = {j \in Keys : hot'[j] # NoEntry /\ ~hot'[j].expired}
    BY DEF Live, NoEntry
  <2>5. Live' = (Live \ ks) \cup {k}
    <3>1. \A j \in Keys : j \in Live' <=> j \in (Live \ ks) \cup {k}
      BY <2>1, <2>2, <2>3, <2>4
    <3>. QED BY <2>4, <3>1 DEF Live
  <2>6. hot'[k] = [value |-> v, expired |-> FALSE]
    BY <2>1
  <2>7. hot'[k].value = v
    BY <2>6
  <2>8. \A j \in Live' : j \in Keys /\ (j # k => j \in Live \ ks)
    BY <2>5 DEF Live
  <2>9. \A j \in Live' : j # k => hot'[j] = hot[j]
    BY <2>1, <2>8
  <2>. QED BY <2>5, <2>7, <2>9
<1>. QED BY <1>1, <1>2

\* A step does one of these to each key.
LEMMA KeySteps ==
  ASSUME TypeOK, [MemoryNext]_memoryVars, NEW j \in Keys
  PROVE  \/ Moves(j) \/ (\E v \in Values : Rewritten(j, v))
         \/ Removed(j) \/ Expired(j) \/ Reopened(j)
<1> DEFINE goal == \/ Moves(j) \/ (\E v \in Values : Rewritten(j, v))
                   \/ Removed(j) \/ Expired(j) \/ Reopened(j)
<1>0. /\ hot \in [Keys -> Entry \cup {NoEntry}] /\ Live \subseteq Keys
      /\ store \in [Tiers -> [Keys -> Values \cup {NoValue}]]
      /\ allowed \in [Keys -> SUBSET Values] /\ lapsed \subseteq Keys
      /\ Home(j) \in Tiers \cup {"nowhere"} /\ policy.backends \subseteq Tiers
  BY LiveTypes, ClassTypes DEF TypeOK
<1>1. ASSUME NEW down \in SUBSET Live, NEW gone \in SUBSET down, Lowers(down, gone) PROVE Moves(j)
  <2>1. gone \in SUBSET Keys
    BY <1>0
  <2>2. Live' = Live \ gone /\ \A k \in Live' : hot'[k] = hot[k]
    <3>1. CASE hot' = Without(gone)
      BY <2>1, <3>1, LiveAfter
    <3>2. CASE hot' = hot /\ gone = {}
      BY <3>2 DEF Live
    <3>. QED BY <1>1, <3>1, <3>2 DEF Lowers
  <2>3. \A t \in Tiers : store'[t][j] = IF j \in down /\ Home(j) = t /\ t \in policy.backends
                                          THEN hot[j].value ELSE store[t][j]
    BY <1>1, DemotedTypes DEF Lowers
  <2>4. UNCHANGED <<allowed, lapsed>>
    BY <1>1 DEF Lowers, ghosts
  <2>. QED BY <1>0, <2>2, <2>3, <2>4 DEF Moves
<1>2. ASSUME NEW k \in Keys \ Live, NEW victims \in SUBSET (Live \ {k}), Restores(k, victims) PROVE Moves(j)
  <2>1. victims \in SUBSET Keys /\ victims \in SUBSET Live
    BY <1>0
  <2>2. /\ Live' = (Live \ victims) \cup {k} /\ hot'[k].value = store[Nearest(k)][k]
        /\ \A i \in Live' : i # k => hot'[i] = hot[i]
    <3>1. store[Nearest(k)][k] \in Values /\ hot' = Commit(k, store[Nearest(k)][k], victims)
      BY <1>2, NearestTypes DEF Restores
    <3>. QED BY <2>1, <3>1, LiveAfter
  <2>3. \A t \in Tiers : store'[t][j] = IF j \in victims /\ Home(j) = t /\ t \in policy.backends
                                          THEN hot[j].value ELSE store[t][j]
    BY <1>2, <2>1, DemotedTypes DEF Restores
  <2>4. UNCHANGED <<allowed, lapsed>> /\ Holding(k) # {}
    BY <1>2 DEF Restores, ghosts
  <2>. QED BY <1>0, <2>1, <2>2, <2>3, <2>4 DEF Moves
<1>3. ASSUME NEW k \in Keys, NEW v \in Values, NEW victims \in SUBSET (Live \ {k}), Writes(k, v, victims)
      PROVE  Moves(j) \/ Rewritten(j, v)
  <2>1. victims \in SUBSET Keys /\ victims \in SUBSET Live
    BY <1>0
  <2>2. /\ Live' = (Live \ victims) \cup {k} /\ hot'[k].value = v
        /\ \A i \in Live' : i # k => hot'[i] = hot[i]
    <3>1. hot' = Commit(k, v, victims)
      BY <1>3 DEF Writes
    <3>. QED BY <2>1, <3>1, LiveAfter
  <2>3. \A t \in Tiers :
          \/ store'[t][j] = IF j \in victims /\ Home(j) = t /\ t \in policy.backends
                              THEN hot[j].value ELSE store[t][j]
          \/ j = k /\ t = Home(k) /\ t \in policy.backends /\ store'[t][j] = v
    <3>1. \A t \in Tiers : \/ store'[t][j] = Demoted(victims)[t][j]
                           \/ j = k /\ t = Home(k) /\ t \in policy.backends /\ store'[t][j] = v
      BY <1>3 DEF Writes
    <3>. QED BY <2>1, <3>1, DemotedTypes
  <2>4. \/ /\ Told(k, v)
           /\ \A t \in Tiers \cap policy.backends : t = Home(k) /\ t # "cold" => store'[t][k] = v
        \/ TriedTo(k, v)
    BY <1>3 DEF Writes
  <2>5. lapsed' = lapsed \ {k} /\ (j # k => allowed'[j] = allowed[j])
    BY <1>0, <2>4 DEF Told, TriedTo
  <2>6. ASSUME j # k PROVE Moves(j)
    BY <1>0, <2>1, <2>2, <2>3, <2>5, <2>6 DEF Moves
  <2>7. ASSUME j = k PROVE Rewritten(j, v)
    <3>1. Class(j).policy = "immediate" => v \in sink'[j].all
      BY <1>3, <2>7 DEF Writes
    <3>2. \/ /\ allowed'[j] = {v}
             /\ \A t \in Tiers \cap policy.backends : t = Home(j) /\ t # "cold" => store'[t][j] = v
          \/ allowed'[j] = allowed[j] \cup {v}
      BY <1>0, <2>4, <2>7 DEF Told, TriedTo
    <3>3. \A t \in Tiers : \/ store'[t][j] = store[t][j]
                           \/ t = Home(j) /\ t \in policy.backends /\ store'[t][j] = v
      BY <2>3, <2>7
    <3>. QED BY <2>2, <2>5, <2>7, <3>1, <3>2, <3>3 DEF Rewritten
  <2>. QED BY <2>6, <2>7
<1>4. ASSUME NEW k \in Keys, RemoveKey(k) PROVE Moves(j) \/ Removed(j)
  <2>1. PICK kept \in SUBSET Holding(k) :
          /\ kept # {} => May("remove")
          /\ store' = [t \in Tiers |-> IF t \in kept THEN store[t] ELSE [store[t] EXCEPT ![k] = NoValue]]
    BY <1>4 DEF RemoveKey
  <2>2. \A t \in Tiers : /\ j # k => store'[t][j] = store[t][j]
                         /\ j = k => store'[t][j] = NoValue \/ (May("remove") /\ store'[t][j] = store[t][j])
    BY <1>0, <2>1
  <2>3. hot' = [hot EXCEPT ![k] = NoEntry] /\ allowed' = [allowed EXCEPT ![k] = {}] /\ lapsed' = lapsed \ {k}
    BY <1>4 DEF RemoveKey
  <2>4. hot'[k] = NoEntry /\ (j # k => hot'[j] = hot[j])
    BY <1>0, <2>3
  <2>5. (j = k => j \notin Live') /\ (j # k => (j \in Live' <=> j \in Live))
    BY <2>4 DEF Live, NoEntry
  <2>6. allowed'[k] = {} /\ (j # k => allowed'[j] = allowed[j])
    BY <1>0, <2>3
  <2>. QED BY <1>0, <2>2, <2>3, <2>4, <2>5, <2>6 DEF Moves, Removed
<1>5. ASSUME NEW k \in Keys, Expire(k) PROVE Moves(j) \/ Expired(j)
  <2>1. hot' = [hot EXCEPT ![k].expired = TRUE] /\ lapsed' = lapsed \cup {k} /\ UNCHANGED <<store, allowed>>
    BY <1>5 DEF Expire
  <2>2. hot[k] \in Entry
    BY <1>5, LiveTypes DEF Expire
  <2>3. hot'[k].expired /\ (j # k => hot'[j] = hot[j])
    BY <1>0, <2>1, <2>2 DEF Entry
  <2>4. (j = k => j \notin Live') /\ (j # k => (j \in Live' <=> j \in Live))
    BY <2>3 DEF Live, NoEntry
  <2>. QED BY <1>0, <2>1, <2>3, <2>4 DEF Moves, Expired
<1>6. ASSUME Reopen PROVE Reopened(j)
  <2>1. /\ hot' = [k \in Keys |-> NoEntry] /\ lapsed' = {} /\ store' = store
        /\ allowed' = [k \in Keys |-> {store[t][k] : t \in Tiers} \cap Values]
    BY <1>6 DEF Reopen
  <2>2. j \notin Live'
    BY <2>1 DEF Live, NoEntry
  <2>. QED BY <2>1, <2>2 DEF Reopened
<1> HIDE DEF goal
<1>7. goal
  BY <1>1, <1>2, <1>3, <1>4, <1>5, <1>6, LevelSteps DEF goal
<1>. QED BY <1>7 DEF goal

----------------------------------------------------------------------------
(* Nothing is lost, and reads are the newest. *)

\* A level below Hot holds the keys whose home it is.
HomeInv ==
  \A t \in Tiers, k \in Keys : store[t][k] # NoValue => Home(k) = t /\ t \in policy.backends

\* A key whose class has a level below Hot is in Hot or below.
KeptInv ==
  \A k \in Keys \ lapsed :
    allowed[k] # {} /\ Home(k) \in policy.backends => k \in Live \/ Holding(k) # {}

\* What Hot and the levels below hold of an immediate class is in the file.
DurableInv ==
  \A k \in Keys : Class(k).policy = "immediate" =>
    /\ k \in Live => hot[k].value \in sink[k].all
    /\ \A t \in Tiers : store[t][k] # NoValue => store[t][k] \in sink[k].all

\* The last deferred value is queued, or it is the last one in the file.
QueuedInv ==
  \A k \in Keys : Class(k).policy = "deferred" /\ Home(k) = "nowhere" /\ allowed[k] # {} =>
    IF queue[k] # NoValue THEN queue[k] \in allowed[k] ELSE sink[k].last \in allowed[k]

\* Hot holds the newest value, and so does a level below: Cold only once the
\* entry has left Hot for it.
NewestInv ==
  ~May("remove") => \A k \in Keys :
    /\ k \in Live /\ (k \in lapsed => Home(k) # "cold") => hot[k].value \in allowed[k]
    /\ \A t \in Tiers : store[t][k] # NoValue /\ (t = "cold" => k \notin Live \cup lapsed) =>
         store[t][k] \in allowed[k]

LossInv == HomeInv /\ KeptInv /\ DurableInv /\ QueuedInv

\* All of them hold in the initial state.
LEMMA LossInit == MemoryInit => LossInv /\ NewestInv
<1> SUFFICES ASSUME MemoryInit PROVE LossInv /\ NewestInv
  OBVIOUS
<1>1. \A k \in Keys : k \notin Live /\ allowed[k] = {} /\ \A t \in Tiers : store[t][k] = NoValue
  BY DEF MemoryInit, Live
<1>. QED BY <1>1 DEF LossInv, HomeInv, KeptInv, DurableInv, QueuedInv, NewestInv

\* The classes of the keys do not change.
LEMMA SamePolicy ==
  ASSUME TypeOK, [MemoryNext]_memoryVars
  PROVE  /\ policy' = policy
         /\ \A k : Home(k)' = Home(k) /\ Class(k)' = Class(k)
<1>1. policy' = policy
  BY LevelSteps
<1>. QED BY <1>1 DEF Home, Mirrored, Class

\* No value is found in a level that is not its home.
LEMMA HomeStep == TypeOK /\ HomeInv /\ [MemoryNext]_memoryVars => HomeInv'
<1> SUFFICES ASSUME TypeOK, HomeInv, [MemoryNext]_memoryVars, NEW t \in Tiers, NEW k \in Keys,
                    store'[t][k] # NoValue
             PROVE  Home(k) = t /\ t \in policy.backends
  BY SamePolicy DEF HomeInv
<1>1. store'[t][k] = store[t][k] \/ (t = Home(k) /\ t \in policy.backends)
  BY KeySteps DEF Moves, Rewritten, Removed, Expired, Reopened
<1>. QED BY <1>1 DEF HomeInv

\* No move loses the last copy.
LEMMA KeptStep == TypeOK /\ KeptInv /\ [MemoryNext]_memoryVars => KeptInv'
<1> SUFFICES ASSUME TypeOK, KeptInv, [MemoryNext]_memoryVars, NEW k \in Keys, k \notin lapsed',
                    allowed'[k] # {}, Home(k) \in policy.backends
             PROVE  k \in Live' \/ Holding(k)' # {}
  BY SamePolicy DEF KeptInv
<1>1. NoValue \notin Values /\ (k \in Live => hot[k].value \in Values)
  BY LiveTypes, DomainMemoryAssumption DEF DomainMemoryAssumption
<1>2. policy.backends \subseteq Tiers
  BY ClassTypes DEF TypeOK
<1>3. \A t \in Tiers : store'[t][k] # NoValue => Holding(k)' # {}
  BY DEF Holding
<1>4. CASE Moves(k)
  <2>1. k \in Live \/ \E t \in Tiers : store[t][k] # NoValue
    BY <1>4 DEF Moves, KeptInv, Holding
  <2>2. \A t \in Tiers : store[t][k] # NoValue => store'[t][k] # NoValue
    BY <1>1, <1>4 DEF Moves
  <2>3. k \in Live => k \in Live' \/ store'[Home(k)][k] # NoValue
    BY <1>1, <1>4 DEF Moves
  <2>. QED BY <1>2, <1>3, <2>1, <2>2, <2>3
<1>5. CASE \E v \in Values : Rewritten(k, v)
  BY <1>5 DEF Rewritten
<1>6. CASE Removed(k) \/ Expired(k)
  BY <1>6 DEF Removed, Expired
<1>7. CASE Reopened(k)
  <2>1. \E t \in Tiers : store'[t][k] \in Values
    BY <1>7 DEF Reopened
  <2>. QED BY <1>1, <1>3, <2>1
<1>. QED BY <1>4, <1>5, <1>6, <1>7, KeySteps

\* Nothing of an immediate class is anywhere before it is in the file.
LEMMA DurableStep == TypeOK /\ DurableInv /\ [MemoryNext]_memoryVars => DurableInv'
<1> SUFFICES ASSUME TypeOK, DurableInv, [MemoryNext]_memoryVars, NEW k \in Keys,
                    Class(k).policy = "immediate"
             PROVE  /\ k \in Live' => hot'[k].value \in sink'[k].all
                    /\ \A t \in Tiers : store'[t][k] # NoValue => store'[t][k] \in sink'[k].all
  BY SamePolicy DEF DurableInv
<1>1. sink[k].all \subseteq sink'[k].all
  BY FileSteps DEF Grows
<1>2. /\ k \in Live => hot[k].value \in sink[k].all
      /\ \A t \in Tiers : store[t][k] # NoValue => store[t][k] \in sink[k].all
  BY DEF DurableInv
<1>3. CASE Moves(k)
  <2>1. Holding(k) # {} => Nearest(k) \in Tiers /\ store[Nearest(k)][k] # NoValue
    BY NearestTypes DEF Holding
  <2>. QED BY <1>1, <1>2, <1>3, <2>1 DEF Moves
<1>4. CASE \E v \in Values : Rewritten(k, v)
  BY <1>1, <1>2, <1>4 DEF Rewritten
<1>5. CASE Removed(k) \/ Expired(k) \/ Reopened(k)
  BY <1>1, <1>2, <1>5 DEF Removed, Expired, Reopened
<1>. QED BY <1>3, <1>4, <1>5, KeySteps

\* No failed flush and no later write loses a deferred value.
LEMMA QueuedStep == TypeOK /\ HomeInv /\ QueuedInv /\ [MemoryNext]_memoryVars => QueuedInv'
<1> SUFFICES ASSUME TypeOK, HomeInv, QueuedInv, [MemoryNext]_memoryVars, NEW k \in Keys,
                    Class(k).policy = "deferred", Home(k) = "nowhere", allowed'[k] # {}
             PROVE  IF queue'[k] # NoValue THEN queue'[k] \in allowed'[k] ELSE sink'[k].last \in allowed'[k]
  BY SamePolicy DEF QueuedInv
<1>1. NoValue \notin Values /\ "nowhere" \notin Tiers /\ queue \in [Keys -> Values \cup {NoValue}]
  BY DomainMemoryAssumption DEF DomainMemoryAssumption, TypeOK, Tiers
<1>2. ~Reopen
  <2> SUFFICES ASSUME Reopen PROVE FALSE
    OBVIOUS
  <2>1. allowed'[k] = {store[t][k] : t \in Tiers} \cap Values
    BY DEF Reopen
  <2>2. \A t \in Tiers : store[t][k] = NoValue
    BY <1>1 DEF HomeInv
  <2>. QED BY <1>1, <2>1, <2>2
<1>3. CASE FileMoves(queue, k) /\ allowed'[k] = allowed[k]
  BY <1>3 DEF FileMoves, QueuedInv
<1>4. ASSUME NEW v \in Values, FileMoves([queue EXCEPT ![k] = v], k), v \in allowed'[k]
      PROVE  IF queue'[k] # NoValue THEN queue'[k] \in allowed'[k] ELSE sink'[k].last \in allowed'[k]
  <2>1. [queue EXCEPT ![k] = v][k] = v
    BY <1>1
  <2>. QED BY <1>1, <1>4, <2>1 DEF FileMoves
<1>. QED BY <1>2, <1>3, <1>4, FileSteps

\* The newest value is the one a reader finds.
LEMMA NewestStep == TypeOK /\ HomeInv /\ NewestInv /\ [MemoryNext]_memoryVars => NewestInv'
<1> SUFFICES ASSUME TypeOK, HomeInv, NewestInv, [MemoryNext]_memoryVars, ~May("remove"), NEW k \in Keys
             PROVE  /\ k \in Live' /\ (k \in lapsed' => Home(k) # "cold") => hot'[k].value \in allowed'[k]
                    /\ \A t \in Tiers : store'[t][k] # NoValue /\ (t = "cold" => k \notin Live' \cup lapsed') =>
                         store'[t][k] \in allowed'[k]
  BY SamePolicy DEF NewestInv, May
<1>1. /\ k \in Live /\ (k \in lapsed => Home(k) # "cold") => hot[k].value \in allowed[k]
      /\ \A t \in Tiers : store[t][k] # NoValue /\ (t = "cold" => k \notin Live \cup lapsed) =>
           store[t][k] \in allowed[k]
  BY DEF NewestInv
<1>2. /\ \A t \in Tiers : store[t][k] # NoValue => Home(k) = t /\ t \in policy.backends
      /\ \A t \in Tiers : store'[t][k] # NoValue => Home(k) = t /\ t \in policy.backends
  BY HomeStep, SamePolicy DEF HomeInv
<1>3. CASE Moves(k)
  <2>1. Holding(k) # {} => Nearest(k) \in Tiers /\ store[Nearest(k)][k] # NoValue
    BY NearestTypes DEF Holding
  <2>2. k \in Live' /\ (k \in lapsed' => Home(k) # "cold") => hot'[k].value \in allowed'[k]
    BY <1>1, <1>2, <1>3, <2>1 DEF Moves
  <2>3. ASSUME NEW t \in Tiers, store'[t][k] # NoValue, t = "cold" => k \notin Live' \cup lapsed'
        PROVE  store'[t][k] \in allowed'[k]
    <3>1. Home(k) = t /\ t \in policy.backends
      BY <1>2, <2>3
    <3>2. CASE k \in Live
      BY <1>1, <1>3, <2>3, <3>1, <3>2 DEF Moves
    <3>3. CASE k \notin Live
      BY <1>1, <1>3, <2>3, <3>1, <3>3 DEF Moves
    <3>. QED BY <3>2, <3>3
  <2>. QED BY <2>2, <2>3
<1>4. CASE \E v \in Values : Rewritten(k, v)
  <2>1. PICK v \in Values : Rewritten(k, v)
    BY <1>4
  <2>2. v \in allowed'[k] /\ hot'[k].value = v /\ k \in Live'
    BY <2>1 DEF Rewritten
  <2>3. ASSUME NEW t \in Tiers, store'[t][k] # NoValue, t # "cold" PROVE store'[t][k] \in allowed'[k]
    <3>1. Home(k) = t /\ t \in policy.backends
      BY <1>2, <2>3
    <3>. QED BY <1>1, <2>1, <2>2, <2>3, <3>1 DEF Rewritten
  <2>. QED BY <2>2, <2>3
<1>5. CASE Removed(k)
  BY <1>5 DEF Removed
<1>6. CASE Expired(k)
  BY <1>1, <1>6 DEF Expired
<1>7. CASE Reopened(k)
  <2>1. \A t \in Tiers : store[t][k] \in Values \cup {NoValue}
    BY DEF TypeOK
  <2>. QED BY <1>7, <2>1 DEF Reopened
<1>. QED BY <1>3, <1>4, <1>5, <1>6, <1>7, KeySteps

\* What get returns, in terms of where the key is.
LEMMA VisibleTypes ==
  ASSUME TypeOK, NEW k \in Keys
  PROVE  /\ k \in Live => Visible(k) = hot[k].value /\ Visible(k) \in Values
         /\ k \notin Live /\ Holding(k) # {} =>
              /\ Visible(k) = store[Nearest(k)][k] /\ Visible(k) \in Values
              /\ Nearest(k) \in Tiers /\ store[Nearest(k)][k] # NoValue
         /\ k \notin Live /\ Holding(k) = {} => Visible(k) = NoValue
BY LiveTypes, NearestTypes DEF Visible, Holding

\* The invariant is what the properties say.
LEMMA LossMeaning == TypeOK /\ LossInv => NothingLost
<1> SUFFICES ASSUME TypeOK, LossInv PROVE NothingLost
  OBVIOUS
<1>1. NoValue \notin Values
  BY DomainMemoryAssumption DEF DomainMemoryAssumption
<1>2. KeptSomewhere
  BY <1>1, VisibleTypes DEF KeptSomewhere, LossInv, KeptInv
<1>3. DurableBeforeVisible
  BY LiveTypes DEF DurableBeforeVisible, LossInv, DurableInv
<1>4. DeferredNotLost
  BY DEF DeferredNotLost, LossInv, QueuedInv
<1>. QED BY <1>2, <1>3, <1>4 DEF NothingLost

\* What is read is the newest value.
LEMMA NewestMeaning == TypeOK /\ HomeInv /\ NewestInv => ReadsNewest
<1> SUFFICES ASSUME TypeOK, HomeInv, NewestInv, NEW k \in Keys,
                    k \in lapsed => Home(k) # "cold", ~May("remove")
             PROVE  Visible(k) \in allowed[k] \cup {NoValue}
  BY DEF ReadsNewest
<1>1. CASE k \in Live
  BY <1>1, VisibleTypes DEF NewestInv
<1>2. CASE k \notin Live /\ Holding(k) # {}
  <2>1. Nearest(k) = "cold" => k \notin lapsed
    BY <1>2, VisibleTypes DEF HomeInv
  <2>. QED BY <1>2, <2>1, VisibleTypes DEF NewestInv
<1>3. CASE k \notin Live /\ Holding(k) = {}
  BY <1>3, VisibleTypes
<1>. QED BY <1>1, <1>2, <1>3

\* A value whose class has a level below Hot is lost in no move between the
\* levels, an immediate one is in the file before a reader sees it, and a
\* deferred one stays queued until it is the last one in the file: whatever
\* the classes, the limits and the faults.
THEOREM NothingIsLost == MemorySpec => []NothingLost
<1>1. LossInv <=> HomeInv /\ KeptInv /\ DurableInv /\ QueuedInv
  BY DEF LossInv
<1>2. TypeOK /\ LossInv /\ [MemoryNext]_memoryVars => LossInv'
  BY HomeStep, KeptStep, DurableStep, QueuedStep DEF LossInv
<1>. QED BY <1>2, MemoryTypes, LossInit, LossMeaning, PTL DEF MemorySpec

\* get returns no value older than the last one written, through every move
\* between the levels, unless a removal has failed or the entry of a class that
\* goes to Cold has expired in Hot.
THEOREM ReadsAreNewest == MemorySpec => []ReadsNewest
<1>1. LossInv => HomeInv
  BY DEF LossInv
<1>2. MemoryInit => HomeInv /\ NewestInv
  BY <1>1, LossInit
<1>. QED BY <1>2, MemoryTypes, HomeStep, NewestStep, NewestMeaning, PTL DEF MemorySpec

\* What the live entries weigh is a total.
LEMMA BytesTotal ==
  ASSUME TypeOK, IsFiniteSet(Live)
  PROVE  /\ Weights \in [Live -> Nat]
         /\ \A ks \in SUBSET Live : Bytes(ks) = Total(Weights, ks)
<1>1. Weights \in [Live -> Nat]
  BY LiveTypes, DomainMemoryAssumption DEF DomainMemoryAssumption, Weights
<1>2. \A ks : Bytes(ks) = Total(Weights, ks)
  BY Zenon DEF Bytes, Total
<1>. QED BY <1>1, <1>2

\* What leaves Hot only makes room.
LEMMA FewerAreBounded ==
  ASSUME TypeOK, TypeOK', HotBounded, Live' \subseteq Live,
         \A j \in Live' : hot'[j].value = hot[j].value
  PROVE  HotBounded'
<1>0. IsFiniteSet(Live) /\ Cardinality(Live) \in Nat /\ Cardinality(Live) <= MaxEntries
      /\ MaxEntries \in Nat /\ MaxBytes \in Nat /\ Bytes(Live) <= MaxBytes
  BY FS_CardinalityType, DomainMemoryAssumption DEF HotBounded, EntriesBounded, DomainMemoryAssumption
<1>1. IsFiniteSet(Live') /\ Cardinality(Live') <= Cardinality(Live) /\ Cardinality(Live') \in Nat
  BY <1>0, FS_Subset, FS_CardinalityType
<1> DEFINE w == Weights  w2 == Weights'  n == Total(Weights, Live)  m == Total(Weights, Live')
<1>2. w \in [Live -> Nat] /\ Bytes(Live) = n
  BY <1>0, BytesTotal
<1>3. w2 \in [Live' -> Nat] /\ Bytes(Live)' = Total(w2, Live')
  <2>1. \A j \in Live' : hot'[j].value \in Values
    BY DEF TypeOK, Live, Entry
  <2>2. w2 \in [Live' -> Nat]
    BY <2>1, DomainMemoryAssumption DEF DomainMemoryAssumption, Weights
  <2>3. Bytes(Live)' = Total(w2, Live')
    BY Zenon DEF Bytes, Total, MapThenSumSet, MapThenFoldSet
  <2>. QED BY <2>2, <2>3
<1>4. \A j \in Live' : w[j] = w2[j]
  BY DEF Weights
<1>5. Total(w, Live') = Total(w2, Live')
  <2> HIDE DEF w, w2
  <2>. QED BY <1>0, <1>1, <1>2, <1>3, <1>4, TotalSame
<1>6. m <= n /\ m \in Nat /\ n \in Nat
  <2> HIDE DEF w
  <2>1. Total(w, Live') <= Total(w, Live) /\ Total(w, Live') \in Nat /\ Total(w, Live) \in Nat
    BY <1>0, <1>2, TotalGrows, TotalAdds
  <2>. QED BY <2>1 DEF w
<1>7. Bytes(Live)' = m
  BY <1>3, <1>5
<1> HIDE DEF w, w2, n, m
<1>8. Bytes(Live)' <= MaxBytes
  BY <1>0, <1>2, <1>6, <1>7
<1>. QED BY <1>0, <1>1, <1>8 DEF HotBounded, EntriesBounded

\* What is put in Hot takes the room that is free, or that its victims leave.
LEMMA OneMoreIsBounded ==
  ASSUME TypeOK, TypeOK', HotBounded, NEW k \in Keys, NEW v \in Values,
         NEW victims \in SUBSET (Live \ {k}), Fits(k, v, victims),
         Live' = (Live \ victims) \cup {k}, hot'[k].value = v,
         \A j \in Live' : j # k => hot'[j] = hot[j]
  PROVE  HotBounded'
<1>0. IsFiniteSet(Live) /\ Cardinality(Live) \in Nat /\ Cardinality(Live) <= MaxEntries
      /\ MaxEntries \in Nat /\ MaxBytes \in Nat
  BY FS_CardinalityType, DomainMemoryAssumption DEF HotBounded, EntriesBounded, DomainMemoryAssumption
<1>1. IsFiniteSet(victims) /\ victims \in SUBSET Live
  BY <1>0, FS_Subset
<1>2. PICK rest \in SUBSET Live : rest = Live \ victims
  OBVIOUS
<1>3. PICK n \in Nat, m \in Nat : n = Cardinality(Live) /\ m = Cardinality(victims)
  BY <1>0, <1>1, FS_CardinalityType
<1>4. IsFiniteSet(rest) /\ Cardinality(rest) = n - m
  <2>1. Live \cap victims = victims
    BY <1>1
  <2>2. Cardinality(rest) = Cardinality(Live) - Cardinality(Live \cap victims)
    BY <1>0, <1>2, FS_Difference
  <2>3. IsFiniteSet(rest)
    BY <1>0, FS_Subset
  <2>. QED BY <1>3, <2>1, <2>2, <2>3
<1>5. /\ IsFiniteSet(rest \cup {k})
      /\ Cardinality(rest \cup {k}) = IF k \in rest THEN n - m ELSE (n - m) + 1
  BY <1>4, FS_AddElement
<1>6. k \in Live => k \in rest
  BY <1>2
<1>7. Live' = rest \cup {k}
  BY <1>2
<1>8. Cardinality(rest \cup {k}) <= MaxEntries
  <2>1. k \notin Live => n + 1 <= MaxEntries + m
    BY <1>3 DEF Fits
  <2>2. n <= MaxEntries
    BY <1>0, <1>3
  <2>. QED BY <1>0, <1>3, <1>5, <1>6, <2>1, <2>2
<1>9. EntriesBounded'
  BY <1>5, <1>7, <1>8 DEF EntriesBounded
<1> DEFINE w == Weights  w2 == Weights'  others == Live \ (victims \cup {k})
<1>10. w \in [Live -> Nat] /\ Bytes(others) = Total(w, others)
  BY <1>0, BytesTotal
<1>11. w2 \in [Live' -> Nat] /\ Bytes(Live)' = Total(w2, Live')
  <2>1. \A j \in Live' : hot'[j].value \in Values
    BY DEF TypeOK, Live, Entry
  <2>2. w2 \in [Live' -> Nat]
    BY <2>1, DomainMemoryAssumption DEF DomainMemoryAssumption, Weights
  <2>3. Bytes(Live)' = Total(w2, Live')
    BY Zenon DEF Bytes, Total, MapThenSumSet, MapThenFoldSet
  <2>. QED BY <2>2, <2>3
<1>12. others \in SUBSET Live /\ others \in SUBSET Live' /\ Live' \ {k} = others /\ k \in Live'
  OBVIOUS
<1>13. \A j \in others : w[j] = w2[j]
  BY <1>12 DEF Weights
<1>14. w2[k] = Size[v]
  BY <1>12 DEF Weights
<1>15. Bytes(others) + Size[v] <= MaxBytes
  BY DEF Fits
<1>16. Size[v] \in Nat
  BY DomainMemoryAssumption DEF DomainMemoryAssumption
<1> HIDE DEF w, w2, others
<1>17. IsFiniteSet(Live')
  BY <1>5, <1>7
<1>18. Total(w, others) = Total(w2, others)
  BY <1>0, <1>10, <1>11, <1>12, <1>13, <1>17, TotalSame
<1>19. Total(w2, Live') = w2[k] + Total(w2, others) /\ Total(w2, others) \in Nat
  <2>1. Live' \in SUBSET Live'
    OBVIOUS
  <2>. QED BY <1>11, <1>12, <1>17, <2>1, TotalAdds
<1>20. Bytes(Live)' <= MaxBytes
  <2> DEFINE t == Total(w2, others)  z == Size[v]
  <2>1. t \in Nat /\ z \in Nat /\ t + z <= MaxBytes /\ Bytes(Live)' = z + t
    BY <1>10, <1>11, <1>14, <1>15, <1>16, <1>18, <1>19
  <2> HIDE DEF t, z
  <2>. QED BY <1>0, <2>1
<1>. QED BY <1>9, <1>20 DEF HotBounded

\* A key takes a place that is free, or that a victim leaves.
LEMMA HotStep == TypeOK /\ HotBounded /\ [MemoryNext]_memoryVars => HotBounded'
<1> SUFFICES ASSUME TypeOK, HotBounded, [MemoryNext]_memoryVars PROVE HotBounded'
  OBVIOUS
<1>0. TypeOK'
  BY TypesStep
<1>1. ASSUME NEW down \in SUBSET Live, NEW gone \in SUBSET down, Lowers(down, gone) PROVE HotBounded'
  <2>1. gone \in SUBSET Keys
    BY LiveTypes
  <2>2. Live' \subseteq Live /\ \A j \in Live' : hot'[j].value = hot[j].value
    <3>1. CASE hot' = Without(gone)
      BY <2>1, <3>1, LiveAfter
    <3>2. CASE hot' = hot
      BY <3>2 DEF Live
    <3>. QED BY <1>1, <3>1, <3>2 DEF Lowers
  <2>. QED BY <1>0, <2>2, FewerAreBounded
<1>2. ASSUME NEW k \in Keys, NEW victims \in SUBSET (Live \ {k}), Restores(k, victims) PROVE HotBounded'
  <2>1. PICK v \in Values : v = store[Nearest(k)][k]
    BY <1>2, NearestTypes DEF Restores
  <2>2. victims \in SUBSET Keys /\ Fits(k, v, victims) /\ hot' = Commit(k, v, victims)
    BY <1>2, <2>1, LiveTypes DEF Restores
  <2>3. /\ Live' = (Live \ victims) \cup {k} /\ hot'[k].value = v
        /\ \A j \in Live' : j # k => hot'[j] = hot[j]
    BY <2>2, LiveAfter
  <2>. QED BY <1>0, <2>2, <2>3, OneMoreIsBounded
<1>3. ASSUME NEW k \in Keys, NEW v \in Values, NEW victims \in SUBSET (Live \ {k}), Writes(k, v, victims)
      PROVE  HotBounded'
  <2>1. victims \in SUBSET Keys /\ Fits(k, v, victims) /\ hot' = Commit(k, v, victims)
    BY <1>3, LiveTypes DEF Writes
  <2>2. /\ Live' = (Live \ victims) \cup {k} /\ hot'[k].value = v
        /\ \A j \in Live' : j # k => hot'[j] = hot[j]
    BY <2>1, LiveAfter
  <2>. QED BY <1>0, <2>1, <2>2, OneMoreIsBounded
<1>4. ASSUME NEW k \in Keys, RemoveKey(k) \/ Expire(k) PROVE HotBounded'
  <2>1. hot \in [Keys -> Entry \cup {NoEntry}]
    BY DEF TypeOK
  <2>2. hot' = [hot EXCEPT ![k] = NoEntry] \/ (k \in Live /\ hot' = [hot EXCEPT ![k].expired = TRUE])
    BY <1>4 DEF RemoveKey, Expire
  <2>3. \A j \in Keys : j # k => hot'[j] = hot[j]
    BY <2>1, <2>2
  <2>4. hot'[k] = NoEntry \/ (hot'[k].expired /\ k \in Live)
    BY <2>1, <2>2, LiveTypes DEF Entry
  <2>5. Live' \subseteq Live /\ k \notin Live'
    BY <2>3, <2>4 DEF Live, NoEntry
  <2>6. \A j \in Live' : hot'[j].value = hot[j].value
    BY <2>3, <2>5 DEF Live
  <2>. QED BY <1>0, <2>5, <2>6, FewerAreBounded
<1>5. ASSUME Reopen PROVE HotBounded'
  <2>1. Live' = {}
    BY <1>5 DEF Reopen, Live, NoEntry
  <2>. QED BY <1>0, <2>1, FewerAreBounded
<1>. QED BY <1>1, <1>2, <1>3, <1>4, <1>5, LevelSteps

\* Hot keeps to max_entries and to max_hot_bytes, whatever is demoted, restored
\* or promoted.
THEOREM HotIsBounded == MemorySpec => []HotBounded
<1>1. MemoryInit => HotBounded
  <2> SUFFICES ASSUME MemoryInit PROVE HotBounded
    OBVIOUS
  <2>1. Live = {}
    BY DEF MemoryInit, Live
  <2>2. IsFiniteSet({}) /\ Cardinality({}) = 0
    BY FS_EmptySet
  <2>3. MaxEntries \in Nat /\ MaxBytes \in Nat
    BY DomainMemoryAssumption DEF DomainMemoryAssumption
  <2>4. Bytes(Live) = 0
    <3> DEFINE w == Weights
    <3>1. w \in [Live -> Nat] /\ Bytes(Live) = Total(w, Live)
      BY <2>1, <2>2, TypesInit, BytesTotal
    <3> HIDE DEF w
    <3>. QED BY <2>1, <2>2, <3>1, TotalAdds
  <2>. QED BY <2>1, <2>2, <2>3, <2>4 DEF HotBounded, EntriesBounded
<1>. QED BY <1>1, MemoryTypes, HotStep, PTL DEF MemorySpec

\* Hot keeps its limits, and a lookup finds nothing older than the last value
\* that was written.
THEOREM HotServesReaders == MemorySpec => []HotServes
<1>1. HotBounded /\ ReadsNewest => HotServes
  BY DEF HotServes
<1>. QED BY <1>1, HotIsBounded, ReadsAreNewest, PTL

----------------------------------------------------------------------------
(* The files of the Cold level. *)

ColdRecords == ColdValues \cup {Tombstone}
Cell == [key : ColdKeys \cup {"bad"}, value : ColdRecords, part : Nat]
Files == Seq(Seq(Cell))

\* The place behind the record at a place.
NextAt(file, at) == at + Length[file[at].value]
EndAt(file, at) == at + Length[file[at].value] - 1

\* In a file that can be read, no record begins within another.
Clean(file) ==
  \A p \in DOMAIN file : IsRecord(file, p) =>
    \A j \in p + 1 .. NextAt(file, p) - 1 : file[j].part # 1
InRecord(file, j) == \E p \in 1 .. j : IsRecord(file, p) /\ j < NextAt(file, p)

\* What scan_segment reaches: the beginning, and the end of each record reached.
Scans(file) ==
  /\ 1 \in Scanned(file) /\ Scanned(file) \subseteq 1 .. Len(file) + 1
  /\ \A at \in Scanned(file) : IsRecord(file, at) => NextAt(file, at) \in Scanned(file)
  /\ \A at \in Scanned(file) : at # 1 =>
       \E from \in Scanned(file) : from < at /\ IsRecord(file, from) /\ at = NextAt(file, from)

\* Two sequences, one after the other.
JoinedAs(a, b, c, S) ==
  /\ c \in Seq(S) /\ Len(c) = Len(a) + Len(b) /\ Len(a) \in Nat /\ Len(b) \in Nat
  /\ \A i \in 1 .. Len(a) : i \in 1 .. Len(a) + Len(b) /\ c[i] = a[i]
  /\ \A i \in Len(a) + 1 .. Len(a) + Len(b) : i - Len(a) \in 1 .. Len(b) /\ c[i] = b[i - Len(a)]
  /\ \A i \in 1 .. Len(b) : /\ Len(a) + i \in Len(a) + 1 .. Len(a) + Len(b)
                           /\ Len(a) + i \in 1 .. Len(a) + Len(b) /\ c[Len(a) + i] = b[i]
  /\ \A i \in 1 .. Len(a) + Len(b) : i \in 1 .. Len(a) \/ i \in Len(a) + 1 .. Len(a) + Len(b)
LEMMA Joined == ASSUME NEW S, NEW a \in Seq(S), NEW b \in Seq(S) PROVE JoinedAs(a, b, a \o b, S)
BY DEF JoinedAs

\* Lengths are positive.
LEMMA Lengths ==
  ASSUME NEW file \in Seq(Cell)
  PROVE  /\ \A at \in 1 .. Len(file) : Length[file[at].value] \in Nat /\ Length[file[at].value] >= 1
         /\ \A at \in Nat : at >= 1 /\ IsRecord(file, at) =>
              /\ at \in 1 .. Len(file) /\ file[at].part = 1
              /\ NextAt(file, at) \in at + 1 .. Len(file) + 1 /\ EndAt(file, at) = NextAt(file, at) - 1
<1>1. \A at \in 1 .. Len(file) : Length[file[at].value] \in Nat /\ Length[file[at].value] >= 1
  <2> SUFFICES ASSUME NEW at \in 1 .. Len(file) PROVE Length[file[at].value] \in Nat \ {0}
    OBVIOUS
  <2>1. file[at] \in Cell
    OBVIOUS
  <2>. QED BY <2>1, ColdAssumption DEF ColdAssumption, Cell, ColdRecords
<1>2. ASSUME NEW at \in Nat, at >= 1, IsRecord(file, at)
      PROVE  /\ at \in 1 .. Len(file) /\ file[at].part = 1 /\ NextAt(file, at) \in at + 1 .. Len(file) + 1
             /\ EndAt(file, at) = NextAt(file, at) - 1
  <2>1. at \in 1 .. Len(file) /\ file[at].part = 1 /\ at + Length[file[at].value] - 1 <= Len(file)
    BY <1>2 DEF IsRecord
  <2>2. Length[file[at].value] \in Nat /\ Length[file[at].value] >= 1
    BY <1>1, <2>1
  <2>3. PICK m : m = Length[file[at].value]
    OBVIOUS
  <2>. QED BY <2>1, <2>2, <2>3 DEF NextAt, EndAt
<1>. QED BY <1>1, <1>2

\* The places reached are defined.
LEMMA ScanIsDefined == ASSUME NEW file \in Seq(Cell) PROVE Scans(file)
<1> DEFINE n == Len(file)
           Closed(S) == 1 \in S /\ \A from \in S : IsRecord(file, from) => NextAt(file, from) \in S
           T == {at \in 1 .. n + 1 : \A S \in SUBSET (1 .. n + 1) : Closed(S) => at \in S}
           reached == CHOOSE r : r = [at \in 1 .. n + 1 |->
                        at = 1 \/ \E from \in 1 .. at - 1 :
                                    r[from] /\ IsRecord(file, from) /\ at = from + Length[file[from].value]]
<1>1. n \in Nat
  OBVIOUS
<1>2. Scanned(file) = {at \in 1 .. n + 1 : reached[at]}
  BY DEF Scanned
<1> HIDE DEF n
<1>3. \A at \in 1 .. n + 1 : IsRecord(file, at) =>
        at \in 1 .. n /\ NextAt(file, at) \in at + 1 .. n + 1
  BY <1>1, Lengths DEF n
<1>4. Closed(T) /\ T \subseteq 1 .. n + 1
  <2>1. 1 \in T
    BY <1>1
  <2>2. ASSUME NEW from \in T, IsRecord(file, from) PROVE NextAt(file, from) \in T
    <3>1. NextAt(file, from) \in 1 .. n + 1
      BY <1>1, <1>3, <2>2
    <3>. QED BY <2>2, <3>1
  <2>. QED BY <2>1, <2>2
<1>5. ASSUME NEW at \in T, at # 1
      PROVE  \E from \in T : from < at /\ IsRecord(file, from) /\ at = NextAt(file, from)
  <2> SUFFICES ASSUME ~ \E from \in T : from < at /\ IsRecord(file, from) /\ at = NextAt(file, from)
               PROVE  FALSE
    OBVIOUS
  <2>1. Closed(T \ {at})
    <3>1. 1 \in T \ {at}
      BY <1>4, <1>5
    <3>2. ASSUME NEW from \in T \ {at}, IsRecord(file, from) PROVE NextAt(file, from) \in T \ {at}
      <4>1. NextAt(file, from) \in T
        BY <1>4, <3>2
      <4>2. from \in 1 .. n + 1 /\ NextAt(file, from) \in from + 1 .. n + 1
        BY <1>3, <3>2
      <4>3. from < NextAt(file, from)
        BY <1>1, <4>2
      <4>. QED BY <3>2, <4>1, <4>3
    <3>. QED BY <3>1, <3>2
  <2>2. T \ {at} \in SUBSET (1 .. n + 1)
    BY <1>4
  <2>. QED BY <1>5, <2>1, <2>2
<1> HIDE DEF T
<1> DEFINE r0 == [at \in 1 .. n + 1 |-> at \in T]
<1>6. r0 = [at \in 1 .. n + 1 |->
              at = 1 \/ \E from \in 1 .. at - 1 :
                          r0[from] /\ IsRecord(file, from) /\ at = from + Length[file[from].value]]
  <2> SUFFICES ASSUME NEW at \in 1 .. n + 1
               PROVE  (at \in T) <=> (at = 1 \/ \E from \in 1 .. at - 1 :
                          r0[from] /\ IsRecord(file, from) /\ at = from + Length[file[from].value])
    OBVIOUS
  <2>0. \A from \in 1 .. at - 1 : from \in 1 .. n + 1
    BY <1>1
  <2>1. \A from \in 1 .. at - 1 : r0[from] <=> from \in T
    BY <2>0, Zenon
  <2>2. \A from \in T : from < at => from \in 1 .. at - 1
    BY <1>1, <1>4
  <2>. QED BY <1>4, <1>5, <2>1, <2>2 DEF NextAt
<1>7. reached = [at \in 1 .. n + 1 |->
                   at = 1 \/ \E from \in 1 .. at - 1 :
                               reached[from] /\ IsRecord(file, from) /\ at = from + Length[file[from].value]]
  BY <1>6, Zenon DEF reached
<1> HIDE DEF reached, r0
<1>8. \A at \in 1 .. n + 1 :
        reached[at] <=> (at = 1 \/ \E from \in 1 .. at - 1 :
                               reached[from] /\ IsRecord(file, from) /\ at = from + Length[file[from].value])
  BY <1>7
<1>9. 1 \in Scanned(file) /\ Scanned(file) \subseteq 1 .. n + 1
  BY <1>1, <1>2, <1>8
<1>10. ASSUME NEW at \in Scanned(file), IsRecord(file, at) PROVE NextAt(file, at) \in Scanned(file)
  <2>1. at \in 1 .. n + 1 /\ reached[at]
    BY <1>2, <1>10
  <2>2. NextAt(file, at) \in at + 1 .. n + 1
    BY <1>3, <1>10, <2>1
  <2>3. NextAt(file, at) \in 1 .. n + 1 /\ at \in 1 .. NextAt(file, at) - 1
    BY <1>1, <2>1, <2>2
  <2>4. reached[NextAt(file, at)]
    BY <1>8, <1>10, <2>1, <2>3 DEF NextAt
  <2>. QED BY <1>2, <2>3, <2>4
<1>11. ASSUME NEW at \in Scanned(file), at # 1
       PROVE  \E from \in Scanned(file) : from < at /\ IsRecord(file, from) /\ at = NextAt(file, from)
  <2>1. at \in 1 .. n + 1 /\ reached[at]
    BY <1>2, <1>11
  <2>2. PICK from \in 1 .. at - 1 : reached[from] /\ IsRecord(file, from) /\ at = from + Length[file[from].value]
    BY <1>8, <1>11, <2>1
  <2>3. from \in 1 .. n + 1 /\ from < at
    BY <1>1, <2>1
  <2>. QED BY <1>2, <2>2, <2>3 DEF NextAt
<1>. QED BY <1>9, <1>10, <1>11 DEF Scans, n

\* What comes before a place that is reached is in records.
LEMMA ScanCovers ==
  ASSUME NEW file \in Seq(Cell)
  PROVE  \A at \in Scanned(file) : \A j \in 1 .. at - 1 :
           \E p \in Scanned(file) : p <= j /\ IsRecord(file, p) /\ j < NextAt(file, p)
<1> DEFINE Covered(at) == \A j \in 1 .. at - 1 :
             \E p \in Scanned(file) : p <= j /\ IsRecord(file, p) /\ j < NextAt(file, p)
           S == {m \in Nat : \A at \in Scanned(file) : at <= m => Covered(at)}
<1>1. Scanned(file) \subseteq 1 .. Len(file) + 1 /\ Len(file) \in Nat
  BY ScanIsDefined DEF Scans
<1>2. \A at \in Scanned(file) : at \in Nat /\ at >= 1
  BY <1>1
<1>3. 0 \in S
  BY <1>2
<1>4. ASSUME NEW m \in S PROVE m + 1 \in S
  <2> SUFFICES ASSUME NEW at \in Scanned(file), at <= m + 1, NEW j \in 1 .. at - 1
               PROVE  \E p \in Scanned(file) : p <= j /\ IsRecord(file, p) /\ j < NextAt(file, p)
    BY <1>4
  <2>1. at \in Nat /\ at # 1
    BY <1>2
  <2>2. PICK from \in Scanned(file) : from < at /\ IsRecord(file, from) /\ at = NextAt(file, from)
    BY <2>1, ScanIsDefined DEF Scans
  <2>3. from \in Nat /\ from <= m
    BY <1>2, <1>4, <2>1, <2>2
  <2>4. Covered(from)
    BY <1>4, <2>3
  <2>5. CASE j < from
    BY <2>3, <2>4, <2>5
  <2>6. CASE from <= j
    BY <2>1, <2>2, <2>6
  <2>. QED BY <2>3, <2>5, <2>6
<1>5. S = Nat
  <2>1. S \in SUBSET Nat
    OBVIOUS
  <2> HIDE DEF S
  <2>. QED BY <1>3, <1>4, <2>1, Inductive
<1>6. ASSUME NEW at \in Scanned(file) PROVE Covered(at)
  <2>1. at \in S /\ at <= at
    BY <1>2, <1>5
  <2>. QED BY <2>1
<1>. QED BY <1>6

\* The scan stops at the last place it reaches.
LEMMA StopIsLast ==
  ASSUME NEW file \in Seq(Cell)
  PROVE  Stop(file) \in Scanned(file) /\ \A other \in Scanned(file) : other <= Stop(file)
<1>1. Scanned(file) \subseteq 1 .. Len(file) + 1 /\ Len(file) + 1 \in Nat /\ Scanned(file) # {}
  BY ScanIsDefined DEF Scans
<1>2. \E at \in Scanned(file) : \A other \in Scanned(file) : other <= at
  <2>1. PICK n, s : n = Len(file) + 1 /\ s = Scanned(file)
    OBVIOUS
  <2>2. n \in Nat /\ s \in SUBSET (1 .. n) /\ s # {}
    BY <1>1, <2>1
  <2>3. Max(s) \in s /\ \A m \in s : m <= Max(s)
    BY <2>2, MaxOfNumbers
  <2>. QED BY <2>1, <2>3
<1>. QED BY <1>2 DEF Stop

\* A sequence that is what was left of a file from a place on, in its order:
\* of a file that can be read, what is in records.
InRecordFrom(file, at, j) == \E p \in at .. j : IsRecord(file, p) /\ j < NextAt(file, p)
Increasing(e, n) == \A i, j \in 1 .. n : i < j => e[i] < e[j]
PlacesOf(e, file, at, s) ==
  /\ Increasing(e, Len(s)) /\ \A i \in 1 .. Len(s) : s[i] = file[e[i]]
  /\ Clean(file) => \A j \in at .. Len(file) :
       (\E i \in 1 .. Len(s) : e[i] = j) <=> InRecordFrom(file, at, j)
Left(file, at, s) == \E e \in [1 .. Len(s) -> at .. Len(file)] : PlacesOf(e, file, at, s)

\* A place where no record begins is left out.
LEMMA LeavesOut ==
  ASSUME NEW file \in Seq(Cell), NEW at \in 1 .. Len(file), ~IsRecord(file, at),
         NEW s \in Seq(Cell), Left(file, at + 1, s)
  PROVE  Left(file, at, s)
<1>1. PICK e \in [1 .. Len(s) -> at + 1 .. Len(file)] : PlacesOf(e, file, at + 1, s)
  BY DEF Left
<1>2. Len(file) \in Nat /\ Len(s) \in Nat /\ at + 1 .. Len(file) \subseteq at .. Len(file)
  OBVIOUS
<1>3. e \in [1 .. Len(s) -> at .. Len(file)]
  BY <1>1, <1>2
<1>4. ASSUME Clean(file), NEW j \in at .. Len(file)
      PROVE  (\E i \in 1 .. Len(s) : e[i] = j) <=> InRecordFrom(file, at, j)
  <2>1. CASE j = at
    <3>1. \A i \in 1 .. Len(s) : e[i] # at
      <4>1. \A m \in at + 1 .. Len(file) : m # at
        OBVIOUS
      <4>. QED BY <1>1, <4>1
    <3>2. at .. j = {at}
      BY <2>1
    <3>. QED BY <2>1, <3>1, <3>2 DEF InRecordFrom
  <2>2. CASE j # at
    <3>1. j \in at + 1 .. Len(file)
      BY <2>2
    <3>2. \A p : p \in at .. j <=> p = at \/ p \in at + 1 .. j
      BY <3>1
    <3>3. InRecordFrom(file, at, j) <=> InRecordFrom(file, at + 1, j)
      BY <3>2 DEF InRecordFrom
    <3>. QED BY <1>1, <1>4, <3>1, <3>3 DEF PlacesOf
  <2>. QED BY <2>1, <2>2
<1>. QED BY <1>1, <1>3, <1>4 DEF Left, PlacesOf

\* A record is kept.
LEMMA KeepsRecord ==
  ASSUME NEW file \in Seq(Cell), NEW at \in 1 .. Len(file), IsRecord(file, at),
         NEW s \in Seq(Cell), Left(file, NextAt(file, at), s)
  PROVE  /\ SubSeq(file, at, NextAt(file, at) - 1) \o s \in Seq(Cell)
         /\ Left(file, at, SubSeq(file, at, NextAt(file, at) - 1) \o s)
<1> DEFINE n == Len(file)
           t == NextAt(file, at)
           r == SubSeq(file, at, t - 1)
           L == t - at
           all == r \o s
<1>1. t \in at + 1 .. n + 1 /\ n \in Nat /\ L \in Nat /\ L >= 1 /\ t - 1 \in at .. n /\ t = at + L
  BY Lengths
<1>2. PICK e \in [1 .. Len(s) -> t .. n] : PlacesOf(e, file, t, s)
  BY DEF Left
<1> HIDE DEF t, L
<1>3. r \in Seq(Cell) /\ Len(r) = L /\ \A i \in 1 .. L : r[i] = file[at + i - 1]
  <2>1. \A i \in at .. t - 1 : file[i] \in Cell
    BY <1>1
  <2>. QED BY <1>1, <2>1
<1> HIDE DEF n, r
<1>4. /\ all \in Seq(Cell) /\ Len(all) = L + Len(s) /\ Len(s) \in Nat
      /\ \A i \in 1 .. L : all[i] = file[at + i - 1]
      /\ \A i \in L + 1 .. L + Len(s) : all[i] = s[i - L] /\ i - L \in 1 .. Len(s)
      /\ \A i \in 1 .. L : i \in 1 .. L + Len(s)
      /\ \A i \in 1 .. L + Len(s) : i \in 1 .. L \/ i \in L + 1 .. L + Len(s)
      /\ \A i \in L + 1 .. L + Len(s) : i \in 1 .. L + Len(s) /\ ~(i <= L)
  <2>1. /\ all \in Seq(Cell) /\ Len(all) = Len(r) + Len(s) /\ Len(s) \in Nat
        /\ \A i \in 1 .. Len(r) : i \in 1 .. Len(r) + Len(s) /\ all[i] = r[i]
        /\ \A i \in Len(r) + 1 .. Len(r) + Len(s) :
              i - Len(r) \in 1 .. Len(s) /\ all[i] = s[i - Len(r)]
        /\ \A i \in 1 .. Len(r) + Len(s) : i \in 1 .. Len(r) \/ i \in Len(r) + 1 .. Len(r) + Len(s)
    <3> HIDE DEF all
    <3>1. PICK a, b : a = r /\ b = s /\ all = a \o b
      BY DEF all
    <3>2. a \in Seq(Cell) /\ b \in Seq(Cell)
      BY <1>3, <3>1
    <3>3. JoinedAs(a, b, a \o b, Cell)
      BY <3>2, Joined
    <3>. QED BY <3>1, <3>3 DEF JoinedAs
  <2>2. \A i \in L + 1 .. L + Len(s) : i \in 1 .. L + Len(s) /\ ~(i <= L)
    BY <1>1, <2>1
  <2>. QED BY <1>3, <2>1, <2>2
<1> HIDE DEF all
<1> DEFINE d == [i \in 1 .. L + Len(s) |-> IF i <= L THEN at + i - 1 ELSE e[i - L]]
<1>5. /\ \A i \in 1 .. L : i \in 1 .. L + Len(s) /\ d[i] = at + i - 1 /\ d[i] \in at .. t - 1 /\ d[i] \in at .. n
      /\ \A i \in L + 1 .. L + Len(s) : i - L \in 1 .. Len(s) /\ d[i] = e[i - L] /\ d[i] \in t .. n /\ d[i] \in at .. n
      /\ \A i \in 1 .. L + Len(s) : i \in 1 .. L \/ i \in L + 1 .. L + Len(s)
  <2>1. ASSUME NEW i \in 1 .. L
        PROVE  i \in 1 .. L + Len(s) /\ d[i] = at + i - 1 /\ d[i] \in at .. t - 1 /\ d[i] \in at .. n
    <3>1. i \in 1 .. L + Len(s) /\ i <= L
      BY <1>1, <1>4
    <3>2. d[i] = at + i - 1
      BY <3>1
    <3>3. at + i - 1 \in at .. t - 1 /\ at + i - 1 \in at .. n
      BY <1>1
    <3>. QED BY <3>1, <3>2, <3>3
  <2>2. ASSUME NEW i \in L + 1 .. L + Len(s)
        PROVE  i - L \in 1 .. Len(s) /\ d[i] = e[i - L] /\ d[i] \in t .. n /\ d[i] \in at .. n
    <3>1. i - L \in 1 .. Len(s) /\ i \in 1 .. L + Len(s) /\ ~(i <= L)
      BY <1>4
    <3>2. d[i] = e[i - L]
      BY <3>1
    <3>3. e[i - L] \in t .. n
      BY <1>2, <3>1
    <3>4. e[i - L] \in at .. n
      BY <1>1, <3>3
    <3>. QED BY <3>1, <3>2, <3>3, <3>4
  <2> HIDE DEF d
  <2>. QED BY <1>4, <2>1, <2>2
<1>6. d \in [1 .. Len(all) -> at .. n]
  BY <1>4, <1>5
<1> HIDE DEF d
<1>7. Increasing(d, Len(all))
  <2> SUFFICES ASSUME NEW i \in 1 .. L + Len(s), NEW j \in 1 .. L + Len(s), i < j PROVE d[i] < d[j]
    BY <1>4 DEF Increasing
  <2>1. CASE i \in 1 .. L /\ j \in 1 .. L
    BY <1>1, <1>5, <2>1
  <2>2. CASE i \in 1 .. L /\ j \in L + 1 .. L + Len(s)
    BY <1>1, <1>5, <2>2
  <2>3. CASE i \in L + 1 .. L + Len(s) /\ j \in L + 1 .. L + Len(s)
    <3>1. i - L \in 1 .. Len(s) /\ j - L \in 1 .. Len(s) /\ i - L < j - L
      BY <1>1, <1>5, <2>3
    <3>2. e[i - L] < e[j - L]
      BY <1>2, <3>1 DEF PlacesOf, Increasing
    <3>. QED BY <1>5, <2>3, <3>2
  <2>4. CASE i \in L + 1 .. L + Len(s) /\ j \in 1 .. L
    BY <1>1, <2>4
  <2>. QED BY <1>5, <2>1, <2>2, <2>3, <2>4
<1>8. ASSUME NEW i \in 1 .. Len(all) PROVE all[i] = file[d[i]]
  <2>1. CASE i \in 1 .. L
    BY <1>4, <1>5, <2>1
  <2>2. CASE i \in L + 1 .. L + Len(s)
    BY <1>2, <1>4, <1>5, <2>2 DEF PlacesOf
  <2>. QED BY <1>4, <1>5, <2>1, <2>2
<1>9. ASSUME Clean(file), NEW j \in at .. n
      PROVE  (\E i \in 1 .. Len(all) : d[i] = j) <=> InRecordFrom(file, at, j)
  <2>1. CASE j \in at .. t - 1
    <3>1. j - at + 1 \in 1 .. L /\ j = at + (j - at + 1) - 1
      BY <1>1, <2>1
    <3>2. j - at + 1 \in 1 .. Len(all) /\ d[j - at + 1] = j
      BY <1>4, <1>5, <3>1
    <3>3. at \in at .. j /\ j < t
      BY <1>1, <2>1
    <3>. QED BY <3>2, <3>3 DEF InRecordFrom, t
  <2>2. CASE j \in t .. n
    <3>1. (\E i \in 1 .. Len(all) : d[i] = j) <=> (\E i \in 1 .. Len(s) : e[i] = j)
      <4>1. ASSUME NEW i \in 1 .. Len(all), d[i] = j PROVE \E m \in 1 .. Len(s) : e[m] = j
        <5>1. i \notin 1 .. L
          BY <1>1, <1>5, <2>2, <4>1
        <5>. QED BY <1>4, <1>5, <4>1, <5>1
      <4>2. ASSUME NEW i \in 1 .. Len(s), e[i] = j PROVE \E m \in 1 .. Len(all) : d[m] = j
        <5>1. i + L \in L + 1 .. L + Len(s) /\ (i + L) - L = i /\ i + L \in 1 .. L + Len(s)
          BY <1>1, <1>4
        <5>2. PICK m \in L + 1 .. L + Len(s) : m = i + L /\ m - L = i /\ m \in 1 .. L + Len(s)
          BY <5>1
        <5>3. d[m] = e[m - L]
          BY <1>5, <5>2
        <5>. QED BY <1>4, <4>2, <5>2, <5>3
      <4>. QED BY <4>1, <4>2
    <3>2. InRecordFrom(file, at, j) <=> InRecordFrom(file, t, j)
      <4>1. ASSUME NEW p \in at .. j, IsRecord(file, p), j < NextAt(file, p) PROVE p \in t .. j
        <5>1. p # at
          BY <1>1, <2>2, <4>1 DEF t
        <5>2. p \in 1 .. n /\ file[p].part = 1
          BY <1>1, <2>2, <4>1 DEF IsRecord, n
        <5>3. p \notin at + 1 .. t - 1
          BY <1>9, <5>2 DEF Clean, t, n
        <5>. QED BY <1>1, <4>1, <5>1, <5>3
      <4>2. \A p \in t .. j : p \in at .. j
        BY <1>1
      <4>. QED BY <4>1, <4>2 DEF InRecordFrom
    <3>3. (\E i \in 1 .. Len(s) : e[i] = j) <=> InRecordFrom(file, t, j)
      BY <1>2, <1>9, <2>2 DEF PlacesOf, n
    <3>. QED BY <3>1, <3>2, <3>3
  <2>. QED BY <1>1, <2>1, <2>2
<1>10. Left(file, at, all)
  BY <1>6, <1>7, <1>8, <1>9 DEF Left, PlacesOf, n
<1>. QED BY <1>4, <1>10 DEF all, r, t

\* What is kept from a place on: salvage_segment.
KeepsFrom(g, file, at) ==
  g[at] = IF at > Len(file) THEN <<>>
          ELSE IF IsRecord(file, at)
          THEN SubSeq(file, at, EndAt(file, at)) \o g[NextAt(file, at)]
          ELSE g[at + 1]

LEMMA KeptExists ==
  ASSUME NEW file \in Seq(Cell)
  PROVE  \E g \in [1 .. Len(file) + 1 -> Seq(Cell)] : \A at \in 1 .. Len(file) + 1 : KeepsFrom(g, file, at)
<1> DEFINE n == Len(file)
           S == {m \in Nat : m <= n =>
                   \E g \in [n + 1 - m .. n + 1 -> Seq(Cell)] : \A at \in n + 1 - m .. n + 1 : KeepsFrom(g, file, at)}
<1>1. n \in Nat
  OBVIOUS
<1>2. 0 \in S
  <2> DEFINE g == [at \in n + 1 - 0 .. n + 1 |-> <<>>]
  <2>1. n + 1 - 0 .. n + 1 = {n + 1} /\ n + 1 > n
    BY <1>1
  <2>2. g \in [n + 1 - 0 .. n + 1 -> Seq(Cell)]
    OBVIOUS
  <2>3. \A at \in n + 1 - 0 .. n + 1 : KeepsFrom(g, file, at)
    BY <2>1 DEF KeepsFrom
  <2> HIDE DEF g
  <2>. QED BY <1>1, <2>2, <2>3
<1>3. ASSUME NEW m \in S PROVE m + 1 \in S
  <2> SUFFICES ASSUME m + 1 <= n
               PROVE  \E g \in [n + 1 - (m + 1) .. n + 1 -> Seq(Cell)] :
                        \A at \in n + 1 - (m + 1) .. n + 1 : KeepsFrom(g, file, at)
    BY <1>3
  <2>0. m \in Nat /\ m <= n
    BY <1>1, <1>3
  <2>1. PICK g \in [n + 1 - m .. n + 1 -> Seq(Cell)] : \A at \in n + 1 - m .. n + 1 : KeepsFrom(g, file, at)
    BY <1>3, <2>0
  <2> DEFINE lo == n - m
             value == IF IsRecord(file, lo)
                      THEN SubSeq(file, lo, EndAt(file, lo)) \o g[NextAt(file, lo)]
                      ELSE g[lo + 1]
             h == [at \in lo .. n + 1 |-> IF at = lo THEN value ELSE g[at]]
  <2>2. lo \in 1 .. n /\ n + 1 - (m + 1) = lo /\ n + 1 - m = lo + 1 /\ lo + 1 \in lo + 1 .. n + 1
    BY <1>1, <2>0
  <2>3. g \in [lo + 1 .. n + 1 -> Seq(Cell)] /\ \A at \in lo + 1 .. n + 1 : KeepsFrom(g, file, at)
    BY <2>1, <2>2
  <2> HIDE DEF lo
  <2>4. IsRecord(file, lo) => NextAt(file, lo) \in lo + 1 .. n + 1 /\ EndAt(file, lo) = NextAt(file, lo) - 1
    BY <1>1, <2>2, Lengths
  <2>5. value \in Seq(Cell)
    <3>1. CASE IsRecord(file, lo)
      <4>1. g[NextAt(file, lo)] \in Seq(Cell)
        BY <2>3, <2>4, <3>1
      <4>2. \A i \in lo .. EndAt(file, lo) : file[i] \in Cell
        BY <1>1, <2>2, <2>4, <3>1
      <4>3. SubSeq(file, lo, EndAt(file, lo)) \in Seq(Cell)
        BY <1>1, <2>2, <2>4, <3>1, <4>2
      <4>4. value = SubSeq(file, lo, EndAt(file, lo)) \o g[NextAt(file, lo)]
        BY <3>1
      <4>5. PICK a, b : a = SubSeq(file, lo, EndAt(file, lo)) /\ b = g[NextAt(file, lo)]
        OBVIOUS
      <4> HIDE DEF value
      <4>6. a \in Seq(Cell) /\ b \in Seq(Cell) /\ value = a \o b
        BY <4>1, <4>3, <4>4, <4>5
      <4>. QED BY <4>6
    <3>2. CASE ~IsRecord(file, lo)
      BY <2>2, <2>3, <3>2
    <3>. QED BY <3>1, <3>2
  <2>6. h \in [lo .. n + 1 -> Seq(Cell)]
    <3>1. \A at \in lo .. n + 1 : at = lo \/ at \in lo + 1 .. n + 1
      BY <1>1, <2>2
    <3> HIDE DEF value
    <3>. QED BY <2>3, <2>5, <3>1
  <2>7. h[lo] = value /\ \A at \in lo + 1 .. n + 1 : h[at] = g[at]
    <3>0. lo \in lo .. n + 1
      BY <1>1, <2>2
    <3>1. lo \in lo .. n + 1 /\ \A at \in lo + 1 .. n + 1 : at \in lo .. n + 1 /\ at # lo
      BY <1>1, <2>2, <3>0
    <3> HIDE DEF value
    <3>. QED BY <3>1
  <2> HIDE DEF h
  <2>8. ASSUME NEW at \in lo .. n + 1 PROVE KeepsFrom(h, file, at)
    <3>1. CASE at = lo
      <4>0. ~(lo > n) /\ lo + 1 \in lo + 1 .. n + 1
        BY <1>1, <2>2
      <4>1. ~(lo > n) /\ h[lo + 1] = g[lo + 1]
        BY <2>7, <4>0
      <4>2. IsRecord(file, lo) => h[NextAt(file, lo)] = g[NextAt(file, lo)]
        BY <2>4, <2>7
      <4>3. h[lo] = IF IsRecord(file, lo)
                    THEN SubSeq(file, lo, EndAt(file, lo)) \o h[NextAt(file, lo)]
                    ELSE h[lo + 1]
        BY <2>7, <4>1, <4>2
      <4>. QED BY <3>1, <4>1, <4>3, Zenon DEF KeepsFrom
    <3>2. CASE at # lo
      <4>1. at \in lo + 1 .. n + 1 /\ at \in Nat /\ at >= 1
        BY <1>1, <2>2, <3>2
      <4>2. KeepsFrom(g, file, at) /\ h[at] = g[at]
        BY <2>3, <2>7, <4>1
      <4>3. ~(at > n) => at + 1 \in lo + 1 .. n + 1
        BY <1>1, <2>2, <4>1
      <4>4. IsRecord(file, at) => NextAt(file, at) \in lo + 1 .. n + 1
        <5>1. IsRecord(file, at) => NextAt(file, at) \in at + 1 .. n + 1
          BY <4>1, Lengths
        <5>. QED BY <1>1, <2>2, <4>1, <5>1
      <4>5. /\ ~(at > n) => h[at + 1] = g[at + 1]
            /\ IsRecord(file, at) => h[NextAt(file, at)] = g[NextAt(file, at)]
        BY <2>7, <4>3, <4>4
      <4>. QED BY <4>2, <4>5 DEF KeepsFrom
    <3>. QED BY <3>1, <3>2
  <2>. QED BY <2>2, <2>6, <2>8
<1>4. S = Nat
  <2>1. S \in SUBSET Nat
    OBVIOUS
  <2> HIDE DEF S
  <2>. QED BY <1>2, <1>3, <2>1, Inductive
<1>5. n \in S /\ n <= n /\ n + 1 - n = 1
  BY <1>1, <1>4
<1>. QED BY <1>5

\* What is kept of a file is what was in its records, in its order.
LEMMA KeptIsLeft ==
  ASSUME NEW file \in Seq(Cell)
  PROVE  Kept(file) \in Seq(Cell) /\ Left(file, 1, Kept(file))
<1> DEFINE n == Len(file)
           from == CHOOSE g : g = [at \in 1 .. Len(file) + 1 |->
                     IF at > Len(file) THEN <<>>
                     ELSE IF IsRecord(file, at)
                     THEN SubSeq(file, at, at + Length[file[at].value] - 1) \o g[at + Length[file[at].value]]
                     ELSE g[at + 1]]
<1>1. n \in Nat
  OBVIOUS
<1>2. Kept(file) = from[1]
  BY Zenon DEF Kept
<1>3. PICK f \in [1 .. Len(file) + 1 -> Seq(Cell)] : \A at \in 1 .. Len(file) + 1 : KeepsFrom(f, file, at)
  BY KeptExists
<1>4. f = [at \in 1 .. Len(file) + 1 |->
             IF at > Len(file) THEN <<>>
             ELSE IF IsRecord(file, at)
             THEN SubSeq(file, at, at + Length[file[at].value] - 1) \o f[at + Length[file[at].value]]
             ELSE f[at + 1]]
  <2> DEFINE h == [at \in 1 .. Len(file) + 1 |->
             IF at > Len(file) THEN <<>>
             ELSE IF IsRecord(file, at)
             THEN SubSeq(file, at, at + Length[file[at].value] - 1) \o f[at + Length[file[at].value]]
             ELSE f[at + 1]]
  <2>1. \A at \in 1 .. Len(file) + 1 : f[at] = h[at]
    BY <1>3, Zenon DEF KeepsFrom, NextAt, EndAt
  <2>. QED BY <1>3, <2>1, Zenon
<1>5. from = [at \in 1 .. Len(file) + 1 |->
             IF at > Len(file) THEN <<>>
             ELSE IF IsRecord(file, at)
             THEN SubSeq(file, at, at + Length[file[at].value] - 1) \o from[at + Length[file[at].value]]
             ELSE from[at + 1]]
  BY <1>4, Zenon DEF from
<1> HIDE DEF from
<1>6. \A at \in 1 .. n + 1 : KeepsFrom(from, file, at)
  BY <1>5, Zenon DEF KeepsFrom, NextAt, EndAt
<1> DEFINE Good(at) == from[at] \in Seq(Cell) /\ Left(file, at, from[at])
           S == {m \in Nat : \A at \in 1 .. n + 1 : n + 1 - m <= at => Good(at)}
<1> HIDE DEF n
<1>7. Good(n + 1)
  <2>1. n + 1 \in 1 .. n + 1 /\ n + 1 > n
    BY <1>1
  <2>2. from[n + 1] = <<>>
    BY <1>6, <2>1 DEF KeepsFrom, n
  <2>3. n + 1 .. n = {} /\ 1 .. 0 = {} /\ Len(<<>>) = 0
    BY <1>1
  <2>4. Left(file, n + 1, <<>>)
    <3> DEFINE e == [i \in 1 .. 0 |-> 0]
    <3>1. e \in [1 .. Len(<<>>) -> n + 1 .. Len(file)]
      BY <2>3
    <3>2. PlacesOf(e, file, n + 1, <<>>)
      BY <2>3 DEF PlacesOf, Increasing, n
    <3>. QED BY <3>1, <3>2 DEF Left
  <2>. QED BY <2>2, <2>4
<1>8. 0 \in S
  <2>1. \A at \in 1 .. n + 1 : n + 1 - 0 <= at => at = n + 1
    BY <1>1
  <2>. QED BY <1>7, <2>1
<1>9. ASSUME NEW m \in S PROVE m + 1 \in S
  <2> SUFFICES ASSUME NEW at \in 1 .. n + 1, n + 1 - (m + 1) <= at PROVE Good(at)
    BY <1>9
  <2>0. m \in Nat
    BY <1>9
  <2>1. CASE at = n + 1
    BY <1>7, <2>1
  <2>2. CASE at # n + 1
    <3>1. at \in 1 .. n /\ at \in Nat /\ at >= 1 /\ ~(at > n) /\ at + 1 \in 1 .. n + 1 /\ n + 1 - m <= at + 1
      BY <1>1, <2>0, <2>2
    <3>2. CASE ~IsRecord(file, at)
      <4>1. from[at] = from[at + 1]
        BY <1>6, <3>1, <3>2 DEF KeepsFrom, n
      <4>2. Good(at + 1)
        BY <1>9, <3>1
      <4>3. PICK s \in Seq(Cell) : s = from[at + 1] /\ Left(file, at + 1, s)
        BY <4>2
      <4>4. Left(file, at, s)
        BY <3>1, <3>2, <4>3, LeavesOut DEF n
      <4>. QED BY <4>1, <4>3, <4>4
    <3>3. CASE IsRecord(file, at)
      <4>1. NextAt(file, at) \in at + 1 .. n + 1
        BY <3>1, <3>3, Lengths DEF n
      <4>2. NextAt(file, at) \in 1 .. n + 1 /\ n + 1 - m <= NextAt(file, at)
        BY <1>1, <2>0, <3>1, <4>1
      <4>3. from[at] = SubSeq(file, at, NextAt(file, at) - 1) \o from[NextAt(file, at)]
        <5>1. KeepsFrom(from, file, at) /\ ~(at > Len(file))
          BY <1>6, <3>1 DEF n
        <5>2. from[at] = SubSeq(file, at, EndAt(file, at)) \o from[NextAt(file, at)]
          BY <3>3, <5>1, Zenon DEF KeepsFrom
        <5>. QED BY <3>1, <3>3, <5>2, Lengths
      <4>4. Good(NextAt(file, at))
        BY <1>9, <4>2
      <4>5. PICK s \in Seq(Cell) : s = from[NextAt(file, at)] /\ Left(file, NextAt(file, at), s)
        BY <4>4
      <4>6. /\ SubSeq(file, at, NextAt(file, at) - 1) \o s \in Seq(Cell)
            /\ Left(file, at, SubSeq(file, at, NextAt(file, at) - 1) \o s)
        BY <3>1, <3>3, <4>5, KeepsRecord DEF n
      <4>. QED BY <4>3, <4>5, <4>6
    <3>. QED BY <3>2, <3>3
  <2>. QED BY <2>1, <2>2
<1>10. S = Nat
  <2>1. S \in SUBSET Nat
    OBVIOUS
  <2> HIDE DEF S
  <2>. QED BY <1>8, <1>9, <2>1, Inductive
<1>11. Good(1)
  <2>1. n \in S /\ 1 \in 1 .. n + 1 /\ n + 1 - n <= 1
    <3> HIDE DEF S
    <3>. QED BY <1>1, <1>10
  <2> HIDE DEF Good
  <2>. QED BY <2>1
<1>. QED BY <1>2, <1>11

\* What is recovered of a file is what was in its records, in its order.
LEMMA RecoveredIsLeft ==
  ASSUME NEW file \in Seq(Cell)
  PROVE  Recovered(file) \in Seq(Cell) /\ Left(file, 1, Recovered(file))
<1>1. CASE Corrupt(file)
  BY <1>1, KeptIsLeft DEF Recovered
<1>2. CASE ~Corrupt(file)
  <2> DEFINE n == Len(file)  stop == Stop(file)  s == SubSeq(file, 1, stop - 1)
  <2>1. n \in Nat /\ stop \in Scanned(file) /\ stop \in 1 .. n + 1 /\ \A other \in Scanned(file) : other <= stop
    BY StopIsLast, ScanIsDefined DEF Scans
  <2>2. Recovered(file) = s
    BY <1>2 DEF Recovered
  <2> HIDE DEF stop
  <2>3. s \in Seq(Cell) /\ Len(s) = stop - 1 /\ \A i \in 1 .. stop - 1 : s[i] = file[i] /\ i \in 1 .. n
    <3>1. \A i \in 1 .. stop - 1 : file[i] \in Cell
      BY <2>1
    <3>. QED BY <2>1, <3>1
  <2> HIDE DEF s, n
  <2> DEFINE e == [i \in 1 .. stop - 1 |-> i]
  <2>4. e \in [1 .. Len(s) -> 1 .. n]
    BY <2>3
  <2>5. Increasing(e, Len(s)) /\ \A i \in 1 .. Len(s) : s[i] = file[e[i]]
    BY <2>3 DEF Increasing
  <2>6. ASSUME Clean(file), NEW j \in 1 .. n
        PROVE  (\E i \in 1 .. Len(s) : e[i] = j) <=> InRecordFrom(file, 1, j)
    <3>1. (\E i \in 1 .. Len(s) : e[i] = j) <=> j \in 1 .. stop - 1
      BY <2>3
    <3>2. ASSUME j \in 1 .. stop - 1 PROVE InRecordFrom(file, 1, j)
      <4>1. PICK p \in Scanned(file) : p <= j /\ IsRecord(file, p) /\ j < NextAt(file, p)
        BY <2>1, <3>2, ScanCovers
      <4>2. p \in 1 .. j
        BY <2>1, <4>1, ScanIsDefined DEF Scans
      <4>. QED BY <4>1, <4>2 DEF InRecordFrom
    <3>3. ASSUME NEW p \in 1 .. j, IsRecord(file, p), j < NextAt(file, p) PROVE j \in 1 .. stop - 1
      <4>1. p \in 1 .. n /\ file[p].part = 1 /\ NextAt(file, p) \in p + 1 .. n + 1
        BY <2>1, <2>6, <3>3, Lengths DEF n
      <4>2. p <= stop
        <5>1. p > stop => p \in stop + 1 .. Len(file)
          BY <2>1, <4>1 DEF n
        <5>. QED BY <1>2, <2>1, <3>3, <4>1, <5>1 DEF Corrupt, stop
      <4>3. p # stop
        <5>1. p = stop => NextAt(file, stop) \in Scanned(file)
          BY <2>1, <3>3, ScanIsDefined DEF Scans
        <5>. QED BY <2>1, <4>1, <5>1
      <4>4. p \in 1 .. stop - 1
        BY <2>1, <4>1, <4>2, <4>3
      <4>5. PICK c \in Scanned(file) : c <= p /\ IsRecord(file, c) /\ p < NextAt(file, c)
        BY <2>1, <4>4, ScanCovers
      <4>6. c \in 1 .. n + 1 /\ c \in 1 .. n /\ NextAt(file, c) \in c + 1 .. n + 1
        <5>1. c \in 1 .. n + 1
          BY <4>5, ScanIsDefined DEF Scans, n
        <5>. QED BY <2>1, <4>5, <5>1, Lengths DEF n
      <4>7. p = c
        <5>1. p \notin c + 1 .. NextAt(file, c) - 1
          BY <2>6, <4>1, <4>5, <4>6 DEF Clean, n
        <5>. QED BY <2>1, <4>1, <4>5, <4>6, <5>1
      <4>8. NextAt(file, p) \in Scanned(file)
        BY <3>3, <4>5, <4>7, ScanIsDefined DEF Scans
      <4>. QED BY <2>1, <2>6, <3>3, <4>1, <4>8
    <3>. QED BY <3>1, <3>2, <3>3 DEF InRecordFrom
  <2> HIDE DEF e
  <2>7. PlacesOf(e, file, 1, s)
    BY <2>5, <2>6 DEF PlacesOf, n
  <2>8. Left(file, 1, s)
    BY <2>4, <2>7 DEF Left, n
  <2>. QED BY <2>2, <2>3, <2>8
<1>. QED BY <1>1, <1>2

\* No record is torn; a record is as it was written; every cell is in a record.
Whole(file) == \A p \in 1 .. Len(file) : file[p].part = 1 => IsRecord(file, p)
Intact(file, k) ==
  \A p \in 1 .. Len(file) : IsRecord(file, p) /\ file[p].key = k =>
    \A j \in p .. NextAt(file, p) - 1 : file[j] = [key |-> k, value |-> file[p].value, part |-> j - p + 1]
Filled(file) == \A j \in 1 .. Len(file) : InRecord(file, j)

\* The records of a file and those of what was recovered of it.
SameRecords(e, file, s) ==
  /\ \A i \in 1 .. Len(s) : IsRecord(s, i) <=> IsRecord(file, e[i])
  /\ \A p \in 1 .. Len(file) : IsRecord(file, p) => \E i \in 1 .. Len(s) : e[i] = p

\* The cells of a record stay together.
LEMMA StayTogether ==
  ASSUME NEW file \in Seq(Cell), Clean(file), NEW s \in Seq(Cell),
         NEW e \in [1 .. Len(s) -> 1 .. Len(file)], PlacesOf(e, file, 1, s),
         NEW i \in 1 .. Len(s), IsRecord(file, e[i])
  PROVE  \A j \in e[i] .. NextAt(file, e[i]) - 1 : i + (j - e[i]) \in 1 .. Len(s) /\ e[i + (j - e[i])] = j
<1> DEFINE p == e[i]
           t == NextAt(file, p)
           Good(q) == i + q \in 1 .. Len(s) /\ e[i + q] = p + q
           S == {q \in Nat : p + q < t => Good(q)}
<1>1. p \in 1 .. Len(file) /\ t \in p + 1 .. Len(file) + 1 /\ Len(s) \in Nat /\ Len(file) \in Nat
  <2>1. p \in 1 .. Len(file)
    OBVIOUS
  <2>2. PICK a \in 1 .. Len(file) : a = p
    BY <2>1
  <2>3. IsRecord(file, a) /\ a \in Nat /\ a >= 1
    BY <2>2
  <2>4. NextAt(file, a) \in a + 1 .. Len(file) + 1
    BY <2>3, Lengths
  <2>. QED BY <2>2, <2>4
<1> HIDE DEF t
<1>2. ASSUME NEW j \in p .. t - 1 PROVE \E m \in 1 .. Len(s) : e[m] = j
  <2>1. j \in 1 .. Len(file) /\ p \in 1 .. j /\ j < t
    BY <1>1
  <2>2. InRecordFrom(file, 1, j)
    BY <2>1 DEF InRecordFrom, t
  <2>. QED BY <2>1, <2>2 DEF PlacesOf
<1>3. \A m, l \in 1 .. Len(s) : e[m] < e[l] => m < l
  <2> SUFFICES ASSUME NEW m \in 1 .. Len(s), NEW l \in 1 .. Len(s), e[m] < e[l], ~(m < l) PROVE FALSE
    OBVIOUS
  <2>1. e[m] \in Nat /\ e[l] \in Nat /\ m # l
    BY <1>1
  <2>2. l < m
    BY <2>1
  <2>3. e[l] < e[m]
    BY <2>2 DEF PlacesOf, Increasing
  <2>. QED BY <2>1, <2>3
<1> HIDE DEF p
<1>4. 0 \in S
  <2>1. i + 0 = i /\ p + 0 = p
    BY <1>1
  <2>. QED BY <2>1 DEF p
<1>5. ASSUME NEW q \in S PROVE q + 1 \in S
  <2> SUFFICES ASSUME p + (q + 1) < t PROVE Good(q + 1)
    BY <1>5
  <2>0. q \in Nat
    BY <1>5
  <2>1. p + q < t
    BY <1>1, <2>0
  <2>2. i + q \in 1 .. Len(s) /\ e[i + q] = p + q
    BY <1>5, <2>0, <2>1
  <2>3. PICK m \in 1 .. Len(s) : e[m] = p + (q + 1)
    <3>1. p + (q + 1) \in p .. t - 1
      BY <1>1, <2>0
    <3>. QED BY <1>2, <3>1
  <2>4. i + q < m
    BY <1>1, <1>3, <2>0, <2>2, <2>3
  <2>5. i + (q + 1) \in 1 .. Len(s) /\ i + (q + 1) <= m /\ i + q < i + (q + 1)
    BY <1>1, <2>0, <2>2, <2>4
  <2>6. e[i + q] < e[i + (q + 1)]
    BY <2>2, <2>5 DEF PlacesOf, Increasing
  <2>7. e[i + (q + 1)] <= e[m]
    <3>1. CASE i + (q + 1) = m
      BY <1>1, <2>3, <2>0, <3>1
    <3>2. CASE i + (q + 1) < m
      <4>1. e[i + (q + 1)] < e[m]
        BY <2>3, <2>5, <3>2 DEF PlacesOf, Increasing
      <4>2. PICK a, b \in 1 .. Len(file) : a = e[i + (q + 1)] /\ b = e[m]
        BY <2>3, <2>5
      <4>3. a < b
        BY <4>1, <4>2
      <4>4. a <= b
        BY <4>3
      <4>. QED BY <4>2, <4>4
    <3>. QED BY <2>0, <2>3, <2>5, <3>1, <3>2
  <2>8. e[i + (q + 1)] \in Nat
    <3>1. e[i + (q + 1)] \in 1 .. Len(file)
      BY <2>5
    <3>. QED BY <3>1
  <2>. QED BY <1>1, <2>0, <2>2, <2>3, <2>5, <2>6, <2>7, <2>8
<1>6. S = Nat
  <2>1. S \in SUBSET Nat
    OBVIOUS
  <2> HIDE DEF S
  <2>. QED BY <1>4, <1>5, <2>1, Inductive
<1>7. ASSUME NEW j \in p .. t - 1 PROVE i + (j - p) \in 1 .. Len(s) /\ e[i + (j - p)] = j
  <2>1. j - p \in Nat /\ p + (j - p) = j /\ j < t
    BY <1>1
  <2>2. j - p \in S
    <3> HIDE DEF S
    <3>. QED BY <1>6, <2>1
  <2>. QED BY <2>1, <2>2
<1>. QED BY <1>7 DEF p, t

\* What was recovered of a file that can be read has its records, whole.
LEMMA Recompacted ==
  ASSUME NEW file \in Seq(Cell), Clean(file), NEW s \in Seq(Cell),
         NEW e \in [1 .. Len(s) -> 1 .. Len(file)], PlacesOf(e, file, 1, s)
  PROVE  /\ Clean(s) /\ Whole(s) /\ Filled(s) /\ SameRecords(e, file, s)
         /\ \A k : Intact(file, k) => Intact(s, k)
<1>0. Len(s) \in Nat /\ Len(file) \in Nat /\ DOMAIN s = 1 .. Len(s) /\ DOMAIN file = 1 .. Len(file)
  OBVIOUS
<1>1. \A i \in 1 .. Len(s) : s[i] = file[e[i]] /\ e[i] \in 1 .. Len(file)
  BY DEF PlacesOf
<1>2. ASSUME NEW i \in 1 .. Len(s), s[i].part = 1 PROVE IsRecord(file, e[i])
  <2>1. InRecordFrom(file, 1, e[i])
    BY <1>1 DEF PlacesOf
  <2>2. PICK p \in 1 .. e[i] : IsRecord(file, p) /\ e[i] < NextAt(file, p)
    BY <2>1 DEF InRecordFrom
  <2>3. p \in 1 .. Len(file) /\ NextAt(file, p) \in p + 1 .. Len(file) + 1
    BY <1>0, <1>1, <2>2, Lengths
  <2>4. ~(e[i] \in p + 1 .. NextAt(file, p) - 1)
    BY <1>0, <1>1, <1>2, <2>2, <2>3 DEF Clean
  <2>5. e[i] = p
    BY <1>1, <2>2, <2>3, <2>4
  <2>. QED BY <2>2, <2>5
<1>3. ASSUME NEW i \in 1 .. Len(s), IsRecord(file, e[i])
      PROVE  /\ IsRecord(s, i) /\ NextAt(s, i) - 1 \in i .. Len(s) /\ s[i] = file[e[i]]
             /\ \A j \in i .. NextAt(s, i) - 1 : /\ s[j] = file[e[i] + (j - i)]
                                               /\ e[i] + (j - i) \in e[i] .. NextAt(file, e[i]) - 1
  <2>1. s[i] = file[e[i]] /\ e[i] \in 1 .. Len(file)
    BY <1>1
  <2>2. NextAt(file, e[i]) \in e[i] + 1 .. Len(file) + 1 /\ file[e[i]].part = 1
    BY <1>3, <2>1, Lengths
  <2>3. PICK l \in Nat : l = Length[file[e[i]].value] /\ l >= 1
    BY <2>1, Lengths
  <2>4. NextAt(file, e[i]) = e[i] + l /\ NextAt(s, i) = i + l
    BY <2>1, <2>3 DEF NextAt
  <2>5. \A j \in e[i] .. NextAt(file, e[i]) - 1 : i + (j - e[i]) \in 1 .. Len(s) /\ e[i + (j - e[i])] = j
    BY <1>3, StayTogether
  <2>6. i + (l - 1) \in i .. Len(s)
    <3>1. e[i] + (l - 1) \in e[i] .. NextAt(file, e[i]) - 1 /\ (e[i] + (l - 1)) - e[i] = l - 1
      BY <2>1, <2>3, <2>4
    <3>2. i + ((e[i] + (l - 1)) - e[i]) \in 1 .. Len(s)
      BY <2>5, <3>1
    <3>3. i + (l - 1) \in 1 .. Len(s)
      BY <3>1, <3>2
    <3>. QED BY <2>3, <3>3
  <2>7. NextAt(s, i) - 1 \in i .. Len(s) /\ i + l - 1 = i + (l - 1) /\ i <= Len(s)
    <3>1. (i + l) - 1 = i + (l - 1) /\ i + l - 1 = i + (l - 1)
      BY <1>0, <2>3
    <3>2. i <= Len(s)
      BY <1>0
    <3>. QED BY <2>4, <2>6, <3>1, <3>2
  <2>8. IsRecord(s, i)
    BY <1>0, <2>1, <2>2, <2>3, <2>6, <2>7 DEF IsRecord
  <2>9. ASSUME NEW j \in i .. NextAt(s, i) - 1
        PROVE  s[j] = file[e[i] + (j - i)] /\ e[i] + (j - i) \in e[i] .. NextAt(file, e[i]) - 1
    <3>1. e[i] + (j - i) \in e[i] .. NextAt(file, e[i]) - 1 /\ i + ((e[i] + (j - i)) - e[i]) = j
      <4>1. PICK a \in 1 .. Len(file) : a = e[i]
        BY <2>1
      <4>2. NextAt(file, e[i]) = a + l /\ j \in i .. i + l - 1
        BY <2>4, <4>1
      <4>3. a + (j - i) \in a .. a + l - 1 /\ i + ((a + (j - i)) - a) = j
        <5>1. a \in Int /\ i \in Int /\ j \in Int /\ i <= j /\ j <= i + l - 1
          BY <2>3, <4>2
        <5>2. PICK x \in Int : x = j - i
          BY <5>1
        <5>3. j = i + x /\ 0 <= x /\ x <= l - 1
          BY <2>3, <5>1, <5>2
        <5>4. a + x \in a .. a + l - 1 /\ (a + x) - a = x
          BY <2>3, <5>1, <5>3
        <5>. QED BY <5>2, <5>3, <5>4
      <4>4. PICK t : t = NextAt(file, e[i]) /\ t = a + l
        BY <4>2
      <4>5. a + (j - i) \in a .. t - 1
        BY <4>3, <4>4
      <4>. QED BY <4>1, <4>3, <4>4, <4>5
    <3>2. j \in 1 .. Len(s) /\ e[j] = e[i] + (j - i)
      BY <2>5, <3>1
    <3>. QED BY <1>1, <3>1, <3>2
  <2>10. \A j \in i .. NextAt(s, i) - 1 :
           s[j] = file[e[i] + (j - i)] /\ e[i] + (j - i) \in e[i] .. NextAt(file, e[i]) - 1
    BY <2>9
  <2>. QED BY <2>1, <2>7, <2>8, <2>10
<1>4. ASSUME NEW i \in 1 .. Len(s), IsRecord(s, i) PROVE IsRecord(file, e[i])
  BY <1>2, <1>4 DEF IsRecord
<1>5. ASSUME NEW p \in 1 .. Len(file), IsRecord(file, p) PROVE \E i \in 1 .. Len(s) : e[i] = p
  <2>1. p \in 1 .. p /\ p < NextAt(file, p)
    BY <1>5, Lengths
  <2>2. InRecordFrom(file, 1, p)
    BY <1>5, <2>1 DEF InRecordFrom
  <2>. QED BY <2>2 DEF PlacesOf
<1>6. SameRecords(e, file, s)
  BY <1>3, <1>4, <1>5 DEF SameRecords
<1>7. Whole(s)
  BY <1>2, <1>3 DEF Whole
<1>8. Clean(s)
  <2> SUFFICES ASSUME NEW i \in 1 .. Len(s), IsRecord(s, i), NEW j \in i + 1 .. NextAt(s, i) - 1
               PROVE  s[j].part # 1
    BY <1>0 DEF Clean
  <2>1. IsRecord(file, e[i])
    BY <1>4
  <2>2. NextAt(s, i) - 1 \in i .. Len(s) /\ e[i] \in 1 .. Len(file) /\ NextAt(file, e[i]) \in e[i] + 1 .. Len(file) + 1
    BY <1>1, <1>3, <2>1, Lengths
  <2>3. j \in i .. NextAt(s, i) - 1 /\ j - i >= 1
    BY <2>2
  <2>4. s[j] = file[e[i] + (j - i)] /\ e[i] + (j - i) \in e[i] .. NextAt(file, e[i]) - 1
    BY <1>3, <2>1, <2>3
  <2>5. e[i] + (j - i) \in e[i] + 1 .. NextAt(file, e[i]) - 1
    BY <2>2, <2>3, <2>4
  <2>. QED BY <1>0, <2>1, <2>2, <2>4, <2>5 DEF Clean
<1>9. Filled(s)
  <2> SUFFICES ASSUME NEW j \in 1 .. Len(s) PROVE InRecord(s, j)
    BY DEF Filled
  <2>1. e[j] \in 1 .. Len(file) /\ InRecordFrom(file, 1, e[j])
    BY <1>1 DEF PlacesOf
  <2>2. PICK p \in 1 .. e[j] : IsRecord(file, p) /\ e[j] < NextAt(file, p)
    BY <2>1 DEF InRecordFrom
  <2>3. p \in 1 .. Len(file) /\ NextAt(file, p) \in p + 1 .. Len(file) + 1
    BY <1>0, <2>1, <2>2, Lengths
  <2>4. PICK i \in 1 .. Len(s) : e[i] = p
    BY <1>5, <2>2, <2>3
  <2>5. e[j] \in e[i] .. NextAt(file, e[i]) - 1
    BY <2>1, <2>2, <2>3, <2>4
  <2>6. i + (e[j] - e[i]) \in 1 .. Len(s) /\ e[i + (e[j] - e[i])] = e[j]
    BY <2>2, <2>4, <2>5, StayTogether
  <2>7. j = i + (e[j] - e[i])
    <3> SUFFICES ASSUME NEW m \in 1 .. Len(s), e[m] = e[j], m # j PROVE FALSE
      BY <2>6
    <3>1. m < j \/ j < m
      OBVIOUS
    <3>. QED BY <2>1, <3>1 DEF PlacesOf, Increasing
  <2>8. IsRecord(s, i)
    BY <1>3, <2>2, <2>4
  <2>9. PICK l \in Nat : l = Length[file[p].value]
    BY <2>3, Lengths
  <2>10. NextAt(s, i) = i + l /\ NextAt(file, p) = p + l
    BY <1>1, <2>4, <2>9 DEF NextAt
  <2>11. i \in 1 .. j /\ j < NextAt(s, i)
    <3>1. PICK a, b \in 1 .. Len(file) : a = e[i] /\ b = e[j]
      BY <2>1, <2>3, <2>4
    <3>2. a <= b /\ b < a + l /\ j = i + (b - a)
      BY <2>1, <2>2, <2>4, <2>7, <2>10, <3>1
    <3>3. i <= j /\ j < i + l
      <4>1. b - a \in Nat /\ b - a < l
        BY <2>9, <3>2
      <4>2. PICK x \in Nat : x = b - a /\ x < l
        BY <4>1
      <4>3. j = i + x /\ i \in Nat
        BY <3>2, <4>2
      <4>. QED BY <2>9, <4>2, <4>3
    <3>. QED BY <2>10, <3>3
  <2>. QED BY <2>8, <2>11 DEF InRecord
<1>10. ASSUME NEW k, Intact(file, k) PROVE Intact(s, k)
  <2> SUFFICES ASSUME NEW i \in 1 .. Len(s), IsRecord(s, i), s[i].key = k, NEW j \in i .. NextAt(s, i) - 1
               PROVE  s[j] = [key |-> k, value |-> s[i].value, part |-> j - i + 1]
    BY DEF Intact
  <2>1. IsRecord(file, e[i]) /\ e[i] \in 1 .. Len(file) /\ s[i] = file[e[i]]
    BY <1>1, <1>4
  <2>2. s[j] = file[e[i] + (j - i)] /\ e[i] + (j - i) \in e[i] .. NextAt(file, e[i]) - 1
    BY <1>3, <2>1
  <2>3. file[e[i] + (j - i)] = [key |-> k, value |-> s[i].value, part |-> (e[i] + (j - i)) - e[i] + 1]
    BY <1>10, <2>1, <2>2 DEF Intact
  <2>4. NextAt(s, i) - 1 \in i .. Len(s)
    BY <1>3, <2>1
  <2>5. (e[i] + (j - i)) - e[i] + 1 = j - i + 1
    BY <2>1, <2>4
  <2>. QED BY <2>2, <2>3, <2>5
<1>. QED BY <1>6, <1>7, <1>8, <1>9, <1>10

\* The scan reaches every record of such a file.
LEMMA AllScanned ==
  ASSUME NEW file \in Seq(Cell), Clean(file), Filled(file), NEW q \in 1 .. Len(file), IsRecord(file, q)
  PROVE  q \in Scanned(file)
<1> DEFINE S == {m \in Nat : \A p \in 1 .. Len(file) : p <= m /\ IsRecord(file, p) => p \in Scanned(file)}
<1>1. 0 \in S /\ Len(file) \in Nat /\ DOMAIN file = 1 .. Len(file)
  OBVIOUS
<1>2. ASSUME NEW m \in S PROVE m + 1 \in S
  <2> SUFFICES ASSUME NEW p \in 1 .. Len(file), p <= m + 1, IsRecord(file, p) PROVE p \in Scanned(file)
    BY <1>2
  <2>0. m \in Nat
    BY <1>2
  <2>1. CASE p = 1
    BY <2>1, ScanIsDefined DEF Scans
  <2>2. CASE p # 1
    <3>1. p - 1 \in 1 .. Len(file)
      BY <2>2
    <3>2. PICK c \in 1 .. p - 1 : IsRecord(file, c) /\ p - 1 < NextAt(file, c)
      BY <3>1 DEF Filled, InRecord
    <3>3. c \in 1 .. Len(file) /\ c <= m /\ NextAt(file, c) \in c + 1 .. Len(file) + 1
      BY <1>1, <2>0, <3>1, <3>2, Lengths
    <3>4. c \in Scanned(file)
      BY <1>2, <3>2, <3>3
    <3>5. p \notin c + 1 .. NextAt(file, c) - 1
      <4>1. file[p].part = 1
        BY DEF IsRecord
      <4>. QED BY <1>1, <3>2, <3>3, <4>1 DEF Clean
    <3>6. p = NextAt(file, c)
      BY <3>2, <3>3, <3>5
    <3>. QED BY <3>2, <3>4, <3>6, ScanIsDefined DEF Scans
  <2>. QED BY <2>1, <2>2
<1>3. S = Nat
  <2>1. S \in SUBSET Nat
    OBVIOUS
  <2> HIDE DEF S
  <2>. QED BY <1>1, <1>2, <2>1, Inductive
<1>4. q \in S /\ q <= q
  <2> HIDE DEF S
  <2>. QED BY <1>3
<1>. QED BY <1>4

\* The cells of a record, or the first of them.
BeginningOf(c, k, v, n) ==
  /\ c \in Seq(Cell) /\ Len(c) = n
  /\ \A i \in 1 .. n : c[i] = [key |-> k, value |-> v, part |-> i]
LEMMA Beginnings ==
  ASSUME NEW k \in ColdKeys, NEW v \in ColdRecords
  PROVE  /\ BeginningOf(Cells(k, v), k, v, Length[v])
         /\ \A n \in 0 .. Length[v] : BeginningOf(SubSeq(Cells(k, v), 1, n), k, v, n)
<1>0. PICK l \in Nat : l = Length[v] /\ l >= 1
  BY ColdAssumption DEF ColdAssumption, ColdRecords
<1>1. PICK b : b = Cells(k, v)
  OBVIOUS
<1>2. b = [i \in 1 .. l |-> [key |-> k, value |-> v, part |-> i]]
  BY <1>0, <1>1 DEF Cells
<1>3. \A i \in 1 .. l : b[i] = [key |-> k, value |-> v, part |-> i] /\ b[i] \in Cell
  <2>1. \A i \in 1 .. l : [key |-> k, value |-> v, part |-> i] \in Cell
    BY <1>0 DEF Cell
  <2>. QED BY <1>2, <2>1
<1>4. b \in Seq(Cell) /\ Len(b) = l
  <2>1. b \in [1 .. l -> Cell]
    BY <1>2, <1>3
  <2>. QED BY <1>0, <2>1
<1>5. ASSUME NEW n \in 0 .. l PROVE BeginningOf(SubSeq(b, 1, n), k, v, n)
  <2>1. PICK c : c = SubSeq(b, 1, n)
    OBVIOUS
  <2>2. c \in Seq(Cell) /\ Len(c) = n /\ \A i \in 1 .. n : c[i] = b[i] /\ i \in 1 .. l
    <3>0. \A i \in 1 .. n : i \in 1 .. l
      BY <1>0
    <3>1. \A i \in 1 .. n : b[i] \in Cell /\ i \in 1 .. l
      BY <1>3, <3>0
    <3>. QED BY <1>0, <1>4, <2>1, <3>1
  <2>3. BeginningOf(c, k, v, n)
    BY <1>3, <2>2 DEF BeginningOf
  <2>. QED BY <2>1, <2>3
<1>6. BeginningOf(b, k, v, l)
  BY <1>3, <1>4 DEF BeginningOf
<1>. QED BY <1>0, <1>1, <1>5, <1>6

\* A record, or the beginning of one, behind whole records.
Behind(a, k, v, n, f) ==
  /\ \A p \in 1 .. Len(a) : p \in 1 .. Len(f) /\ f[p] = a[p] /\ NextAt(f, p) = NextAt(a, p) /\ (IsRecord(f, p) <=> IsRecord(a, p))
  /\ \A p \in 1 .. Len(f) : p \notin 1 .. Len(a) =>
       /\ IsRecord(f, p) <=> n = Length[v] /\ p = Len(a) + 1
       /\ f[p] = [key |-> k, value |-> v, part |-> p - Len(a)] /\ p - Len(a) \in 1 .. n
  /\ Len(f) = Len(a) + n
LEMMA RecordBehind ==
  ASSUME NEW a \in Seq(Cell), Whole(a), NEW k \in ColdKeys, NEW v \in ColdRecords,
         NEW n \in 0 .. Length[v], NEW c, BeginningOf(c, k, v, n), NEW f, JoinedAs(a, c, f, Cell)
  PROVE  Behind(a, k, v, n, f)
<1>0. PICK l \in Nat : l = Length[v] /\ l >= 1
  BY ColdAssumption DEF ColdAssumption, ColdRecords
<1>2. Len(c) = n /\ n \in Nat /\ n <= l /\ \A i \in 1 .. n : c[i] = [key |-> k, value |-> v, part |-> i]
  BY <1>0 DEF BeginningOf
<1>4. /\ f \in Seq(Cell) /\ Len(f) = Len(a) + n /\ Len(a) \in Nat
      /\ \A p \in 1 .. Len(a) : p \in 1 .. Len(f) /\ f[p] = a[p]
      /\ \A p \in 1 .. Len(f) : p \notin 1 .. Len(a) =>
           f[p] = [key |-> k, value |-> v, part |-> p - Len(a)] /\ p - Len(a) \in 1 .. n
  <2>1. /\ f \in Seq(Cell) /\ Len(f) = Len(a) + n /\ Len(a) \in Nat
        /\ \A p \in 1 .. Len(a) : p \in 1 .. Len(f) /\ f[p] = a[p]
        /\ \A p \in Len(a) + 1 .. Len(a) + n : p - Len(a) \in 1 .. n /\ f[p] = c[p - Len(a)]
    BY <1>2 DEF JoinedAs
  <2>2. \A p \in 1 .. Len(f) : p \notin 1 .. Len(a) => p \in Len(a) + 1 .. Len(a) + n
    BY <1>2, <2>1
  <2>. QED BY <1>2, <2>1, <2>2
<1>5. ASSUME NEW p \in 1 .. Len(a)
      PROVE  NextAt(f, p) = NextAt(a, p) /\ (IsRecord(f, p) <=> IsRecord(a, p))
  <2>1. f[p] = a[p] /\ p \in 1 .. Len(f)
    BY <1>4
  <2>2. NextAt(f, p) = NextAt(a, p)
    BY <2>1 DEF NextAt
  <2>3. PICK m \in Nat : m = Length[a[p].value]
    BY Lengths
  <2>4. IsRecord(a, p) => IsRecord(f, p)
    BY <1>2, <1>4, <2>1, <2>3 DEF IsRecord
  <2>5. IsRecord(f, p) => IsRecord(a, p)
    BY <2>1 DEF Whole, IsRecord
  <2>. QED BY <2>2, <2>4, <2>5
<1>6. ASSUME NEW p \in 1 .. Len(f), p \notin 1 .. Len(a)
      PROVE  IsRecord(f, p) <=> n = Length[v] /\ p = Len(a) + 1
  <2>1. f[p].part = p - Len(a) /\ f[p].value = v /\ p - Len(a) \in 1 .. n
    BY <1>4, <1>6
  <2>2. f[p].part = 1 <=> p = Len(a) + 1
    BY <1>4, <2>1
  <2>3. IsRecord(f, p) <=> p = Len(a) + 1 /\ p + l - 1 <= Len(f)
    BY <1>0, <2>1, <2>2 DEF IsRecord
  <2>. QED BY <1>0, <1>2, <1>4, <2>1, <2>3
<1>. QED BY <1>4, <1>5, <1>6 DEF Behind

\* What is behind them changes nothing of the records of a file, and reads as
\* one when it is whole.
LEMMA BehindIsLegible ==
  ASSUME NEW a \in Seq(Cell), Whole(a), Clean(a), NEW k \in ColdKeys, NEW v \in ColdRecords,
         NEW n \in 0 .. Length[v], NEW f \in Seq(Cell), Behind(a, k, v, n, f)
  PROVE  /\ Clean(f) /\ (n = Length[v] => Whole(f))
         /\ \A k2 : Intact(a, k2) => Intact(f, k2)
<1>0. PICK l \in Nat : l = Length[v] /\ l >= 1
  BY ColdAssumption DEF ColdAssumption, ColdRecords
<1>1. /\ DOMAIN f = 1 .. Len(f) /\ DOMAIN a = 1 .. Len(a) /\ Len(a) \in Nat /\ Len(f) \in Nat
      /\ Len(f) = Len(a) + n /\ n \in Nat
  BY <1>0 DEF Behind
<1>2. ASSUME NEW p \in 1 .. Len(a), IsRecord(a, p), NEW j \in p .. NextAt(a, p) - 1
      PROVE  j \in 1 .. Len(a) /\ f[j] = a[j] /\ NextAt(f, p) = NextAt(a, p) /\ f[p] = a[p]
  <2>1. NextAt(a, p) \in p + 1 .. Len(a) + 1
    BY <1>2, Lengths
  <2>2. j \in 1 .. Len(a)
    BY <1>1, <2>1
  <2>. QED BY <2>2 DEF Behind
<1>3. ASSUME NEW p \in 1 .. Len(f), IsRecord(f, p), p \notin 1 .. Len(a), NEW j \in p .. NextAt(f, p) - 1
      PROVE  /\ j \in 1 .. Len(f) /\ f[p].value = v /\ f[p].key = k /\ p \in Nat
             /\ f[j] = [key |-> k, value |-> v, part |-> j - p + 1]
  <2>1. p = Len(a) + 1 /\ f[p].value = v /\ f[p].key = k /\ p - Len(a) \in 1 .. n
    BY <1>3 DEF Behind
  <2>2. NextAt(f, p) = p + l
    BY <1>0, <2>1 DEF NextAt
  <2>3. NextAt(f, p) \in p + 1 .. Len(f) + 1
    BY <1>3, Lengths
  <2>4. j \in 1 .. Len(f) /\ j \notin 1 .. Len(a) /\ j - Len(a) = j - p + 1
    BY <1>1, <2>1, <2>2, <2>3
  <2>. QED BY <2>1, <2>4 DEF Behind
<1>4. Clean(f)
  <2> SUFFICES ASSUME NEW p \in 1 .. Len(f), IsRecord(f, p), NEW j \in p + 1 .. NextAt(f, p) - 1
               PROVE  f[j].part # 1
    BY <1>1 DEF Clean
  <2>0. NextAt(f, p) \in p + 1 .. Len(f) + 1
    BY Lengths
  <2>1. CASE p \in 1 .. Len(a)
    <3>1. IsRecord(a, p) /\ NextAt(f, p) = NextAt(a, p)
      BY <2>1 DEF Behind
    <3>2. j \in p .. NextAt(a, p) - 1 /\ j \in p + 1 .. NextAt(a, p) - 1
      BY <2>0, <3>1
    <3>3. f[j] = a[j] /\ a[j].part # 1
      BY <1>1, <1>2, <2>1, <3>1, <3>2 DEF Clean
    <3>. QED BY <3>3
  <2>2. CASE p \notin 1 .. Len(a)
    <3>1. j \in p .. NextAt(f, p) - 1 /\ j - p + 1 # 1
      BY <2>0
    <3>2. f[j] = [key |-> k, value |-> v, part |-> j - p + 1]
      BY <1>3, <2>2, <3>1
    <3>3. f[j].part = j - p + 1
      BY <3>2
    <3>. QED BY <3>1, <3>3
  <2>. QED BY <2>1, <2>2
<1>5. ASSUME n = Length[v] PROVE Whole(f)
  <2> SUFFICES ASSUME NEW p \in 1 .. Len(f), f[p].part = 1 PROVE IsRecord(f, p)
    BY DEF Whole
  <2>1. CASE p \in 1 .. Len(a)
    BY <2>1 DEF Behind, Whole
  <2>2. CASE p \notin 1 .. Len(a)
    <3>1. p - Len(a) = 1
      BY <2>2 DEF Behind
    <3>2. p = Len(a) + 1
      BY <1>1, <3>1
    <3>. QED BY <1>5, <2>2, <3>2 DEF Behind
  <2>. QED BY <2>1, <2>2
<1>6. ASSUME NEW k2, Intact(a, k2) PROVE Intact(f, k2)
  <2> SUFFICES ASSUME NEW p \in 1 .. Len(f), IsRecord(f, p), f[p].key = k2, NEW j \in p .. NextAt(f, p) - 1
               PROVE  f[j] = [key |-> k2, value |-> f[p].value, part |-> j - p + 1]
    BY DEF Intact
  <2>1. CASE p \in 1 .. Len(a)
    <3>1. IsRecord(a, p) /\ NextAt(f, p) = NextAt(a, p) /\ f[p] = a[p]
      BY <2>1 DEF Behind
    <3>2. j \in p .. NextAt(a, p) - 1
      BY <3>1
    <3>3. f[j] = a[j] /\ a[j] = [key |-> k2, value |-> a[p].value, part |-> j - p + 1]
      BY <1>2, <1>6, <2>1, <3>1, <3>2 DEF Intact
    <3>. QED BY <3>1, <3>3
  <2>2. CASE p \notin 1 .. Len(a)
    BY <1>3, <2>2
  <2>. QED BY <2>1, <2>2
<1>. QED BY <1>4, <1>5, <1>6

\* Files with cells behind the last one, or in a new one.
Old(F, s) == IF s <= Len(F) THEN F[s] ELSE <<>>
GrownBy(F, s, c, F2) ==
  /\ F2 \in Files /\ s \in Nat /\ s >= 1 /\ Len(F2) = s /\ Len(F) \in Nat /\ Len(F) <= s
  /\ \A i \in 1 .. s : i # s => i \in 1 .. Len(F) /\ F2[i] = F[i]
  /\ \A i \in 1 .. Len(F) : i \in 1 .. s
  /\ Old(F, s) \in Seq(Cell) /\ JoinedAs(Old(F, s), c, F2[s], Cell)
LEMMA Grown ==
  ASSUME segments \in Files, NEW w, w.segment = Len(segments) \/ w.segment = Len(segments) + 1,
         w.segment >= 1, NEW c \in Seq(Cell)
  PROVE  GrownBy(segments, w.segment, c, Append2(w, c))
<1> DEFINE F == segments
           s == w.segment
<1>0. F \in Seq(Seq(Cell)) /\ Len(F) \in Nat /\ s \in Nat /\ s >= 1
  BY DEF Files
<1>1. PICK F2 : F2 = Append2(w, c)
  OBVIOUS
<1>2. CASE s = Len(F)
  <2>1. ~(s > Len(F)) /\ s <= Len(F) /\ s \in 1 .. Len(F)
    BY <1>0, <1>2
  <2>2. F2 = [F EXCEPT ![s] = @ \o c] /\ Old(F, s) = F[s]
    BY <1>1, <2>1 DEF Append2, Old
  <2>3. F[s] \in Seq(Cell)
    BY <1>0, <2>1
  <2>4. PICK a, j : a = F[s] /\ j = a \o c
    OBVIOUS
  <2>5. JoinedAs(a, c, j, Cell) /\ j \in Seq(Cell)
    <3>1. JoinedAs(a, c, a \o c, Cell)
      BY <2>3, <2>4, Joined
    <3>. QED BY <2>4, <3>1 DEF JoinedAs
  <2>6. F2 = [F EXCEPT ![s] = j]
    BY <2>2, <2>4
  <2> HIDE DEF s
  <2>7. F2 \in Seq(Seq(Cell)) /\ Len(F2) = Len(F) /\ F2[s] = j /\ \A i \in 1 .. Len(F) : i # s => F2[i] = F[i]
    BY <1>0, <2>1, <2>5, <2>6
  <2>8. GrownBy(F, s, c, F2)
    BY <1>0, <1>2, <2>1, <2>2, <2>3, <2>4, <2>5, <2>7 DEF GrownBy, Files
  <2>. QED BY <1>1, <2>8 DEF s
<1>3. CASE s = Len(F) + 1
  <2>1. s > Len(F) /\ ~(s <= Len(F))
    BY <1>0, <1>3
  <2>2. F2 = Append(F, c) /\ Old(F, s) = <<>>
    BY <1>1, <2>1 DEF Append2, Old
  <2>3. PICK a, j : a = <<>> /\ j = c /\ a \in Seq(Cell) /\ Len(a) = 0
    <3>1. <<>> \in Seq(Cell) /\ Len(<<>>) = 0
      OBVIOUS
    <3>. QED BY <3>1, Zenon
  <2>4. JoinedAs(a, c, j, Cell)
    BY <2>3 DEF JoinedAs
  <2> HIDE DEF s
  <2>5. F2 \in Seq(Seq(Cell)) /\ Len(F2) = Len(F) + 1 /\ F2[s] = j /\ \A i \in 1 .. Len(F) : F2[i] = F[i]
    BY <1>0, <1>3, <2>2, <2>3
  <2>6. /\ \A i \in 1 .. s : i # s => i \in 1 .. Len(F)
        /\ \A i \in 1 .. Len(F) : i \in 1 .. s
    BY <1>0, <1>3
  <2>7. GrownBy(F, s, c, F2)
    <3>1. Old(F, s) = a /\ F2[s] = j
      BY <2>2, <2>3, <2>5
    <3>2. \A i \in 1 .. s : i # s => i \in 1 .. Len(F) /\ F2[i] = F[i]
      BY <2>5, <2>6
    <3>3. Len(F2) = s /\ Len(F) <= s
      BY <1>0, <1>3, <2>5
    <3> HIDE DEF F
    <3>. QED BY <1>0, <2>3, <2>4, <2>5, <2>6, <3>1, <3>2, <3>3 DEF GrownBy, Files
  <2>. QED BY <1>1, <2>7 DEF s
<1>. QED BY <1>2, <1>3

\* The records of a key in the files.
At(F, k, i, p) == i \in 1 .. Len(F) /\ p \in 1 .. Len(F[i]) /\ IsRecord(F[i], p) /\ F[i][p].key = k
Legible(F) == \A i \in 1 .. Len(F) : Clean(F[i])
AllWhole(F) == \A i \in 1 .. Len(F) : Whole(F[i])
IntactIn(F, k) == \A i \in 1 .. Len(F) : Intact(F[i], k)

\* What becomes of them when cells are appended.
Recorded(F, s, k, v, n, F2) ==
  /\ Legible(F2) /\ (n = Length[v] => AllWhole(F2))
  /\ \A k2 : IntactIn(F, k2) => IntactIn(F2, k2)
  /\ \A k2, i, p : At(F, k2, i, p) => At(F2, k2, i, p) /\ F2[i][p] = F[i][p] /\ (i = s => p <= Len(Old(F, s)))
  /\ \A k2, i, p : At(F2, k2, i, p) =>
       At(F, k2, i, p) \/ (n = Length[v] /\ k2 = k /\ i = s /\ p = Len(Old(F, s)) + 1)
  /\ n = Length[v] => At(F2, k, s, Len(Old(F, s)) + 1) /\ F2[s][Len(Old(F, s)) + 1].value = v
LEMMA AppendRecords ==
  ASSUME NEW F \in Files, Legible(F), AllWhole(F), NEW s, NEW c, NEW F2, GrownBy(F, s, c, F2),
         NEW k \in ColdKeys, NEW v \in ColdRecords, NEW n \in 0 .. Length[v], BeginningOf(c, k, v, n)
  PROVE  Recorded(F, s, k, v, n, F2)
<1>0. PICK a, f, l : a = Old(F, s) /\ f = F2[s] /\ l = Length[v]
  OBVIOUS
<1>1. l \in Nat /\ l >= 1 /\ n \in 0 .. l /\ n \in Nat
  BY <1>0, ColdAssumption DEF ColdAssumption, ColdRecords
<1>2. /\ F2 \in Seq(Seq(Cell)) /\ s \in Nat /\ s >= 1 /\ Len(F2) = s /\ s \in 1 .. s /\ Len(F) \in Nat /\ Len(F) <= s
      /\ \A i \in 1 .. s : i # s => i \in 1 .. Len(F) /\ F2[i] = F[i]
      /\ \A i \in 1 .. Len(F) : i \in 1 .. s
      /\ a \in Seq(Cell) /\ Len(a) \in Nat /\ f \in Seq(Cell) /\ JoinedAs(a, c, f, Cell)
  <2>1. /\ F2 \in Seq(Seq(Cell)) /\ s \in Nat /\ s >= 1 /\ Len(F2) = s /\ Len(F) \in Nat /\ Len(F) <= s
        /\ \A i \in 1 .. s : i # s => i \in 1 .. Len(F) /\ F2[i] = F[i]
        /\ \A i \in 1 .. Len(F) : i \in 1 .. s
        /\ a \in Seq(Cell) /\ JoinedAs(a, c, f, Cell)
    BY <1>0 DEF GrownBy, Files
  <2>2. s \in 1 .. s
    BY <2>1
  <2>3. Len(a) \in Nat /\ f \in Seq(Cell)
    BY <2>1 DEF JoinedAs
  <2>. QED BY <2>1, <2>2, <2>3
<1>3. (s \in 1 .. Len(F) => a = F[s]) /\ (s \notin 1 .. Len(F) => a = <<>>)
  BY <1>0, <1>2 DEF Old
<1>4. Clean(a) /\ Whole(a) /\ \A k2 : IntactIn(F, k2) => Intact(a, k2)
  <2>1. CASE s \in 1 .. Len(F)
    BY <1>3, <2>1 DEF Legible, AllWhole, IntactIn
  <2>2. CASE s \notin 1 .. Len(F)
    <3>1. a = <<>>
      BY <1>3, <2>2
    <3>2. Len(a) = 0 /\ 1 .. Len(a) = {} /\ DOMAIN a = 1 .. Len(a)
      BY <3>1
    <3>. QED BY <3>2 DEF Clean, Whole, Intact
  <2>. QED BY <2>1, <2>2
<1>5. Behind(a, k, v, n, f)
  BY <1>2, <1>4, RecordBehind
<1>6. Clean(f) /\ (n = Length[v] => Whole(f)) /\ \A k2 : Intact(a, k2) => Intact(f, k2)
  BY <1>2, <1>4, <1>5, BehindIsLegible
<1>7. Legible(F2) /\ (n = Length[v] => AllWhole(F2)) /\ \A k2 : IntactIn(F, k2) => IntactIn(F2, k2)
  BY <1>0, <1>2, <1>4, <1>6 DEF Legible, AllWhole, IntactIn
<1>8. ASSUME NEW k2, NEW i, NEW p, At(F, k2, i, p)
      PROVE  At(F2, k2, i, p) /\ F2[i][p] = F[i][p] /\ (i = s => p <= Len(a))
  <2>1. i \in 1 .. Len(F) /\ i \in 1 .. s /\ p \in 1 .. Len(F[i]) /\ IsRecord(F[i], p) /\ F[i][p].key = k2
    BY <1>2, <1>8 DEF At
  <2>2. CASE i # s
    BY <1>2, <2>1, <2>2 DEF At
  <2>3. CASE i = s
    <3>1. a = F[i]
      BY <1>3, <2>1, <2>3
    <3>2. p \in 1 .. Len(f) /\ f[p] = a[p] /\ IsRecord(f, p) /\ p <= Len(a)
      BY <1>2, <1>5, <2>1, <3>1 DEF Behind
    <3>. QED BY <1>0, <1>2, <2>1, <2>3, <3>1, <3>2 DEF At
  <2>. QED BY <2>2, <2>3
<1>9. ASSUME NEW k2, NEW i, NEW p, At(F2, k2, i, p), ~At(F, k2, i, p)
      PROVE  n = Length[v] /\ k2 = k /\ i = s /\ p = Len(a) + 1
  <2>1. i \in 1 .. s /\ p \in 1 .. Len(F2[i]) /\ IsRecord(F2[i], p) /\ F2[i][p].key = k2
    BY <1>2, <1>9 DEF At
  <2>2. i = s
    BY <1>2, <1>9, <2>1 DEF At
  <2>3. p \in 1 .. Len(f) /\ IsRecord(f, p) /\ f[p].key = k2
    BY <1>0, <2>1, <2>2
  <2>4. p \notin 1 .. Len(a)
    <3> SUFFICES ASSUME p \in 1 .. Len(a) PROVE FALSE
      OBVIOUS
    <3>1. s \in 1 .. Len(F)
      <4>1. a = <<>> => 1 .. Len(a) = {}
        OBVIOUS
      <4>. QED BY <1>3, <4>1
    <3>2. a = F[s] /\ IsRecord(a, p) /\ a[p] = f[p]
      BY <1>3, <1>5, <2>3, <3>1 DEF Behind
    <3>. QED BY <1>9, <2>2, <2>3, <3>1, <3>2 DEF At
  <2>. QED BY <1>5, <2>2, <2>3, <2>4 DEF Behind
<1>10. ASSUME n = Length[v] PROVE At(F2, k, s, Len(a) + 1) /\ F2[s][Len(a) + 1].value = v
  <2>1. Len(a) + 1 \in 1 .. Len(f) /\ Len(a) + 1 \notin 1 .. Len(a)
    BY <1>0, <1>1, <1>2, <1>5, <1>10 DEF Behind
  <2>2. IsRecord(f, Len(a) + 1) /\ f[Len(a) + 1] = [key |-> k, value |-> v, part |-> (Len(a) + 1) - Len(a)]
    BY <1>5, <1>10, <2>1 DEF Behind
  <2>3. f[Len(a) + 1].key = k /\ f[Len(a) + 1].value = v
    BY <2>2
  <2>. QED BY <1>0, <1>2, <2>1, <2>2, <2>3 DEF At
<1>. QED BY <1>0, <1>7, <1>8, <1>9, <1>10 DEF Recorded

\* What the files tell of a key: its last record, if there is one.
Means(v) == IF v = Tombstone THEN Absent ELSE v
IsLast(F, k, i, p) == At(F, k, i, p) /\ \A j, q : At(F, k, j, q) => j < i \/ (j = i /\ q <= p)
Tells(F, k, S) ==
  \/ (\A i, p : ~At(F, k, i, p)) /\ Absent \in S
  \/ \E i, p : IsLast(F, k, i, p) /\ Means(F[i][p].value) \in S

\* What an entry of the index may be.
Place(i, p, l) == [segment |-> i, offset |-> p - 1, length |-> l]
Points(F, k, at, S) ==
  \/ at = Nowhere /\ Absent \in S
  \/ \E i, p : /\ At(F, k, i, p) /\ F[i][p].value # Tombstone /\ F[i][p].value \in S
               /\ at = Place(i, p, Length[F[i][p].value])

\* The files after open_with_limit.
RecoveredAll(files) == [i \in DOMAIN files |-> Recovered(files[i])]
Embedded(E, F, G) ==
  \A i \in 1 .. Len(F) : E[i] \in [1 .. Len(G[i]) -> 1 .. Len(F[i])] /\ PlacesOf(E[i], F[i], 1, G[i])
LEMMA Embeds ==
  ASSUME NEW F \in Files
  PROVE  /\ RecoveredAll(F) \in Files /\ Len(RecoveredAll(F)) = Len(F) /\ Len(F) \in Nat
         /\ \A i \in 1 .. Len(F) : RecoveredAll(F)[i] = Recovered(F[i])
         /\ \E E : Embedded(E, F, RecoveredAll(F))
<1> DEFINE G == RecoveredAll(F)
<1>1. DOMAIN F = 1 .. Len(F) /\ Len(F) \in Nat /\ \A i \in 1 .. Len(F) : F[i] \in Seq(Cell)
  BY DEF Files
<1>2. ASSUME NEW i \in 1 .. Len(F)
      PROVE  /\ G[i] = Recovered(F[i]) /\ G[i] \in Seq(Cell)
             /\ \E e : e \in [1 .. Len(G[i]) -> 1 .. Len(F[i])] /\ PlacesOf(e, F[i], 1, G[i])
  <2>1. G[i] = Recovered(F[i])
    BY <1>1 DEF RecoveredAll
  <2>2. Recovered(F[i]) \in Seq(Cell) /\ Left(F[i], 1, Recovered(F[i]))
    BY <1>1, RecoveredIsLeft
  <2> HIDE DEF G
  <2>. QED BY <2>1, <2>2 DEF Left
<1>3. G \in [1 .. Len(F) -> Seq(Cell)]
  <2>1. G = [i \in 1 .. Len(F) |-> Recovered(F[i])]
    BY <1>1 DEF RecoveredAll
  <2>2. \A i \in 1 .. Len(F) : Recovered(F[i]) \in Seq(Cell)
    BY <1>2
  <2>. QED BY <2>1, <2>2, Zenon
<1>4. G \in Seq(Seq(Cell)) /\ Len(G) = Len(F)
  <2> HIDE DEF G
  <2>. QED BY <1>1, <1>3
<1> HIDE DEF G
<1> DEFINE E == [i \in 1 .. Len(F) |->
                   CHOOSE e : e \in [1 .. Len(G[i]) -> 1 .. Len(F[i])] /\ PlacesOf(e, F[i], 1, G[i])]
<1>5. Embedded(E, F, G)
  <2> SUFFICES ASSUME NEW i \in 1 .. Len(F)
               PROVE  E[i] \in [1 .. Len(G[i]) -> 1 .. Len(F[i])] /\ PlacesOf(E[i], F[i], 1, G[i])
    BY Zenon DEF Embedded
  <2>1. E[i] = CHOOSE e : e \in [1 .. Len(G[i]) -> 1 .. Len(F[i])] /\ PlacesOf(e, F[i], 1, G[i])
    BY Zenon
  <2> HIDE DEF E
  <2>. QED BY <1>2, <2>1, Zenon
<1>. QED BY <1>1, <1>2, <1>4, <1>5 DEF G, Files

\* Opening the store loses nothing of files that can be read.
Recovers(F, G) ==
  /\ Legible(G) /\ AllWhole(G) /\ \A i \in 1 .. Len(G) : Filled(G[i])
  /\ \A k : IntactIn(F, k) => IntactIn(G, k)
  /\ \A k, S : Tells(F, k, S) => Tells(G, k, S)
LEMMA Recovering ==
  ASSUME NEW F \in Files, Legible(F)
  PROVE  Recovers(F, RecoveredAll(F))
<1>1. PICK G, E : G = RecoveredAll(F) /\ Embedded(E, F, G)
  BY Embeds
<1>2. /\ G \in Files /\ Len(G) = Len(F) /\ Len(F) \in Nat
      /\ \A i \in 1 .. Len(F) : F[i] \in Seq(Cell) /\ G[i] \in Seq(Cell)
  <2>1. G \in Files /\ Len(G) = Len(F) /\ Len(F) \in Nat
    BY <1>1, Embeds
  <2>. QED BY <2>1 DEF Files
<1>3. ASSUME NEW i \in 1 .. Len(F)
      PROVE  /\ Clean(G[i]) /\ Whole(G[i]) /\ Filled(G[i]) /\ SameRecords(E[i], F[i], G[i])
             /\ \A k : Intact(F[i], k) => Intact(G[i], k)
             /\ \A p \in 1 .. Len(G[i]) : E[i][p] \in 1 .. Len(F[i]) /\ G[i][p] = F[i][E[i][p]]
             /\ Increasing(E[i], Len(G[i]))
  <2>1. PICK f, g, e : f = F[i] /\ g = G[i] /\ e = E[i]
    OBVIOUS
  <2>2. /\ f \in Seq(Cell) /\ g \in Seq(Cell) /\ Clean(f)
        /\ e \in [1 .. Len(g) -> 1 .. Len(f)] /\ PlacesOf(e, f, 1, g)
    BY <1>1, <1>2, <2>1 DEF Legible, Embedded
  <2>3. Clean(g) /\ Whole(g) /\ Filled(g) /\ SameRecords(e, f, g) /\ \A k : Intact(f, k) => Intact(g, k)
    BY <2>2, Recompacted
  <2>4. /\ \A p \in 1 .. Len(g) : e[p] \in 1 .. Len(f) /\ g[p] = f[e[p]]
        /\ Increasing(e, Len(g))
    BY <2>2 DEF PlacesOf
  <2>. QED BY <2>1, <2>3, <2>4
<1>4. ASSUME NEW k, NEW i, NEW p, At(G, k, i, p)
      PROVE  At(F, k, i, E[i][p]) /\ G[i][p] = F[i][E[i][p]]
  <2>1. i \in 1 .. Len(F) /\ p \in 1 .. Len(G[i]) /\ IsRecord(G[i], p) /\ G[i][p].key = k
    BY <1>2, <1>4 DEF At
  <2>2. SameRecords(E[i], F[i], G[i]) /\ E[i][p] \in 1 .. Len(F[i]) /\ G[i][p] = F[i][E[i][p]]
    BY <1>3, <2>1
  <2>. QED BY <2>1, <2>2 DEF At, SameRecords
<1>5. ASSUME NEW k, NEW i, NEW q, At(F, k, i, q)
      PROVE  \E p : At(G, k, i, p) /\ E[i][p] = q /\ G[i][p] = F[i][q]
  <2>1. i \in 1 .. Len(F) /\ q \in 1 .. Len(F[i]) /\ IsRecord(F[i], q) /\ F[i][q].key = k
    BY <1>5 DEF At
  <2>2. SameRecords(E[i], F[i], G[i])
    BY <1>3, <2>1
  <2>3. PICK p \in 1 .. Len(G[i]) : E[i][p] = q
    BY <2>1, <2>2 DEF SameRecords
  <2>4. IsRecord(G[i], p) /\ G[i][p] = F[i][q]
    BY <1>3, <2>1, <2>2, <2>3 DEF SameRecords
  <2>. QED BY <1>2, <2>1, <2>3, <2>4 DEF At
<1>6. ASSUME NEW k, NEW S, Tells(F, k, S) PROVE Tells(G, k, S)
  <2>1. CASE (\A i, p : ~At(F, k, i, p)) /\ Absent \in S
    BY <1>4, <2>1 DEF Tells
  <2>2. CASE \E i, p : IsLast(F, k, i, p) /\ Means(F[i][p].value) \in S
    <3>1. PICK i, q : IsLast(F, k, i, q) /\ Means(F[i][q].value) \in S
      BY <2>2
    <3>2. PICK p : At(G, k, i, p) /\ E[i][p] = q /\ G[i][p] = F[i][q]
      BY <1>5, <3>1 DEF IsLast
    <3>3. ASSUME NEW j, NEW r, At(G, k, j, r) PROVE j < i \/ (j = i /\ r <= p)
      <4>1. At(F, k, j, E[j][r])
        BY <1>4, <3>3
      <4>2. j < i \/ (j = i /\ E[j][r] <= q)
        BY <3>1, <4>1 DEF IsLast
      <4>3. CASE j = i /\ E[j][r] <= q
        <5>1. i \in 1 .. Len(F) /\ r \in 1 .. Len(G[i]) /\ p \in 1 .. Len(G[i])
          BY <1>2, <3>2, <3>3, <4>3 DEF At
        <5>2. Increasing(E[i], Len(G[i])) /\ E[i][r] \in 1 .. Len(F[i]) /\ E[i][p] \in 1 .. Len(F[i])
          BY <1>3, <5>1
        <5>3. PICK a, b \in 1 .. Len(F[i]) : a = E[i][r] /\ b = E[i][p]
          BY <5>2
        <5>4. a <= b /\ (p < r => b < a)
          BY <3>2, <4>3, <5>1, <5>2, <5>3 DEF Increasing
        <5>5. Len(F[i]) \in Nat /\ Len(G[i]) \in Nat
          BY <1>2, <5>1
        <5>. QED BY <4>3, <5>1, <5>4, <5>5
      <4>. QED BY <4>2, <4>3
    <3>. QED BY <3>1, <3>2, <3>3 DEF Tells, IsLast
  <2>. QED BY <1>6, <2>1, <2>2 DEF Tells
<1>7. Legible(G) /\ AllWhole(G) /\ \A i \in 1 .. Len(G) : Filled(G[i])
  BY <1>2, <1>3 DEF Legible, AllWhole
<1>8. \A k : IntactIn(F, k) => IntactIn(G, k)
  BY <1>2, <1>3 DEF IntactIn
<1>9. Recovers(F, G)
  BY <1>6, <1>7, <1>8 DEF Recovers
<1>. QED BY <1>1, <1>9

\* The index then has the last record of each key.
LEMMA Locates ==
  ASSUME NEW F \in Files, Legible(F), \A i \in 1 .. Len(F) : Filled(F[i]),
         NEW k, NEW S, Tells(F, k, S)
  PROVE  Points(F, k, Located(F, k), S)
<1>1. DOMAIN F = 1 .. Len(F) /\ Len(F) \in Nat /\ \A i \in 1 .. Len(F) : F[i] \in Seq(Cell)
  BY DEF Files
<1> DEFINE all == Records(F, k)
           Best(x) == \A y \in all : y[1] < x[1] \/ (y[1] = x[1] /\ y[2] <= x[2])
           last == CHOOSE x : x \in all /\ Best(x)
<1>2. \A x : x \in all <=> \E i, p : x = <<i, p>> /\ At(F, k, i, p)
  <2>1. ASSUME NEW x \in all PROVE \E i, p : x = <<i, p>> /\ At(F, k, i, p)
    <3>1. PICK i, p : /\ i \in 1 .. Len(F) /\ p \in Scanned(F[i]) /\ x = <<i, p>>
                      /\ IsRecord(F[i], p) /\ F[i][p].key = k
      BY <1>1, <2>1 DEF Records
    <3>2. p \in Nat /\ p >= 1
      <4>1. F[i] \in Seq(Cell)
        BY <1>1, <3>1
      <4>2. Scanned(F[i]) \subseteq 1 .. Len(F[i]) + 1 /\ Len(F[i]) \in Nat
        BY <4>1, ScanIsDefined DEF Scans
      <4>. QED BY <3>1, <4>2
    <3>3. p \in 1 .. Len(F[i])
      BY <1>1, <3>1, <3>2, Lengths
    <3>. QED BY <3>1, <3>3 DEF At
  <2>2. ASSUME NEW i, NEW p, At(F, k, i, p) PROVE <<i, p>> \in all
    <3>1. i \in 1 .. Len(F) /\ p \in 1 .. Len(F[i]) /\ IsRecord(F[i], p) /\ F[i][p].key = k
      BY <2>2 DEF At
    <3>2. p \in Scanned(F[i])
      BY <1>1, <3>1, AllScanned DEF Legible
    <3>. QED BY <1>1, <3>1, <3>2 DEF Records
  <2>. QED BY <2>1, <2>2
<1> HIDE DEF all
<1>3. Located(F, k) = IF all = {} THEN Nowhere
                      ELSE IF F[last[1]][last[2]].value = Tombstone THEN Nowhere
                      ELSE [segment |-> last[1], offset |-> last[2] - 1, length |-> Length[F[last[1]][last[2]].value]]
  BY DEF Located, all
<1> HIDE DEF last
<1>4. CASE (\A i, p : ~At(F, k, i, p)) /\ Absent \in S
  <2>1. all = {}
    BY <1>2, <1>4
  <2>. QED BY <1>3, <1>4, <2>1 DEF Points
<1>5. CASE \E i, p : IsLast(F, k, i, p) /\ Means(F[i][p].value) \in S
  <2>1. PICK i, p : IsLast(F, k, i, p) /\ Means(F[i][p].value) \in S
    BY <1>5
  <2>2. <<i, p>> \in all /\ all # {}
    BY <1>2, <2>1 DEF IsLast
  <2>3. Best(<<i, p>>)
    <3> SUFFICES ASSUME NEW y \in all PROVE y[1] < i \/ (y[1] = i /\ y[2] <= p)
      OBVIOUS
    <3>1. PICK j, q : y = <<j, q>> /\ At(F, k, j, q)
      BY <1>2
    <3>. QED BY <2>1, <3>1 DEF IsLast
  <2>4. last \in all /\ Best(last)
    <3> HIDE DEF Best
    <3>. QED BY <2>2, <2>3, Zenon DEF last
  <2>5. PICK j, q : last = <<j, q>> /\ At(F, k, j, q)
    BY <1>2, <2>4
  <2>6. i < j \/ (i = j /\ p <= q)
    BY <2>2, <2>4, <2>5
  <2>7. j < i \/ (j = i /\ q <= p)
    BY <2>1, <2>5 DEF IsLast
  <2>8. i \in Nat /\ j \in Nat /\ p \in Nat /\ q \in Nat
    BY <1>1, <2>1, <2>5 DEF IsLast, At
  <2>9. j = i /\ q = p
    BY <2>6, <2>7, <2>8
  <2>10. last[1] = i /\ last[2] = p
    BY <2>5, <2>9
  <2>11. CASE F[i][p].value = Tombstone
    BY <1>3, <2>1, <2>2, <2>10, <2>11 DEF Points, Means
  <2>12. CASE F[i][p].value # Tombstone
    <3>1. Located(F, k) = Place(i, p, Length[F[i][p].value])
      BY <1>3, <2>2, <2>10, <2>12 DEF Place
    <3>2. F[i][p].value \in S
      BY <2>1, <2>12 DEF Means
    <3>. QED BY <2>5, <2>9, <2>12, <3>1, <3>2 DEF Points
  <2>. QED BY <2>11, <2>12
<1>. QED BY <1>4, <1>5 DEF Tells

\* A read of what the index points to, when the record is as it was written.
LEMMA ReadsRecord ==
  ASSUME segments \in Files, NEW k \in ColdKeys, IntactIn(segments, k), NEW S,
         Points(segments, k, index[k], S)
  PROVE  Read(k) \in S
<1>1. CASE index[k] = Nowhere /\ Absent \in S
  BY <1>1 DEF Read
<1>2. CASE ~(index[k] = Nowhere /\ Absent \in S)
  <2>1. PICK i, p : /\ At(segments, k, i, p) /\ segments[i][p].value # Tombstone /\ segments[i][p].value \in S
                    /\ index[k] = Place(i, p, Length[segments[i][p].value])
    BY <1>2 DEF Points
  <2>2. PICK f, v : f = segments[i] /\ v = f[p].value
    OBVIOUS
  <2>3. /\ i \in 1 .. Len(segments) /\ i >= 1 /\ f \in Seq(Cell) /\ p \in 1 .. Len(f) /\ IsRecord(f, p)
        /\ f[p].key = k /\ v \in S /\ v # Tombstone /\ v \in ColdRecords
    <3>1. i \in 1 .. Len(segments) /\ p \in 1 .. Len(f) /\ IsRecord(f, p) /\ f[p].key = k
      BY <2>1, <2>2 DEF At
    <3>2. v \in S /\ v # Tombstone
      BY <2>1, <2>2
    <3>3. f \in Seq(Cell)
      BY <2>2, <3>1 DEF Files
    <3>4. f[p] \in Cell
      BY <3>1, <3>3
    <3>5. v \in ColdRecords
      BY <2>2, <3>4 DEF Cell
    <3>6. i >= 1
      BY <3>1 DEF Files
    <3>. QED BY <3>1, <3>2, <3>3, <3>5, <3>6
  <2>4. PICK l \in Nat : l = Length[v] /\ l >= 1 /\ NextAt(f, p) = p + l
    BY <2>2, <2>3, Lengths DEF NextAt
  <2>5. NextAt(f, p) \in p + 1 .. Len(f) + 1 /\ Len(f) \in Nat /\ f[p].part = 1 /\ p + (l - 1) <= Len(f)
    <3>1. p \in Nat /\ p >= 1
      BY <2>3
    <3>2. NextAt(f, p) \in p + 1 .. Len(f) + 1 /\ f[p].part = 1
      BY <2>3, <3>1, Lengths
    <3>3. Len(f) \in Nat
      BY <2>3
    <3>4. p + l \in p + 1 .. Len(f) + 1
      BY <2>4, <3>2
    <3>5. p + (l - 1) <= Len(f)
      BY <2>4, <3>1, <3>3, <3>4
    <3>. QED BY <3>2, <3>3, <3>5
  <2>6. PICK at : at = index[k] /\ at = Place(i, p, l)
    BY <2>1, <2>2, <2>4
  <2>7. at # Nowhere
    BY <2>3, <2>6 DEF Place, Nowhere
  <2>8. at.segment = i /\ at.offset + 1 = p /\ at.offset + at.length = p + (l - 1)
    BY <2>3, <2>4, <2>6 DEF Place
  <2>9. Read(k) = Decode(SubSeq(f, p, p + (l - 1)), k)
    <3>1. PICK o, e : o = at.offset + 1 /\ e = at.offset + at.length
      OBVIOUS
    <3>2. o = p /\ e = p + (l - 1) /\ at.segment = i
      BY <2>8, <3>1
    <3>3. ~(e > Len(f))
      <4>1. e \in Int /\ e <= Len(f)
        BY <2>3, <2>4, <2>5, <3>2
      <4>. QED BY <2>5, <4>1
    <3>4. Read(k) = Decode(SubSeq(segments[i], o, e), k)
      BY <2>2, <2>6, <2>7, <3>1, <3>2, <3>3, Zenon DEF Read
    <3>. QED BY <2>2, <3>2, <3>4
  <2>10. PICK c : c = SubSeq(f, p, p + (l - 1))
    OBVIOUS
  <2>11. \A j \in 1 .. l : p + (j - 1) \in p .. NextAt(f, p) - 1 /\ p + (j - 1) \in 1 .. Len(f)
    <3>1. p \in Nat /\ p >= 1 /\ Len(f) \in Nat
      BY <2>3
    <3> SUFFICES ASSUME NEW j \in 1 .. l
                 PROVE  p + (j - 1) \in p .. (p + l) - 1 /\ p + (j - 1) \in 1 .. Len(f)
      BY <2>4
    <3>2. p + (j - 1) <= p + (l - 1) /\ p + (j - 1) >= p /\ p + (l - 1) = (p + l) - 1 /\ p + (l - 1) \in Int
      BY <2>4, <3>1
    <3>3. p + (l - 1) <= Len(f)
      BY <2>5
    <3>. QED BY <3>1, <3>2, <3>3
  <2>12. Intact(f, k)
    BY <2>2, <2>3 DEF IntactIn
  <2>13. c \in Seq(Cell) /\ Len(c) = l /\ \A j \in 1 .. l : c[j] = [key |-> k, value |-> v, part |-> j]
    <3>0. \A j \in 1 .. Len(f) : f[j] \in Cell
      BY <2>3
    <3>1. \A j \in p .. p + (l - 1) : f[j] \in Cell
      <4>1. p \in Nat /\ p >= 1 /\ Len(f) \in Nat /\ p + (l - 1) <= Len(f)
        BY <2>3, <2>5
      <4>2. \A j \in p .. p + (l - 1) : j \in 1 .. Len(f)
        BY <2>4, <4>1
      <4>. QED BY <3>0, <4>2
    <3>2. c \in Seq(Cell) /\ Len(c) = l /\ \A j \in 1 .. l : c[j] = f[p + (j - 1)]
      <4>1. PICK e \in Nat : e = p + (l - 1) /\ e >= p /\ (e - p) + 1 = l
        BY <2>3, <2>4
      <4>2. c = SubSeq(f, p, e) /\ p \in Nat /\ p >= 1 /\ e <= Len(f) /\ \A j \in p .. e : f[j] \in Cell
        BY <2>3, <2>5, <2>10, <3>1, <4>1
      <4>3. c \in Seq(Cell) /\ Len(c) = (e - p) + 1 /\ \A j \in 1 .. (e - p) + 1 : c[j] = f[p + (j - 1)]
        BY <4>1, <4>2
      <4>. QED BY <4>1, <4>3
    <3>3. ASSUME NEW j \in 1 .. l PROVE f[p + (j - 1)] = [key |-> k, value |-> v, part |-> j]
      <4>1. p + (j - 1) \in p .. NextAt(f, p) - 1
        BY <2>11
      <4>2. f[p + (j - 1)] = [key |-> k, value |-> v, part |-> (p + (j - 1)) - p + 1]
        BY <2>2, <2>3, <2>12, <4>1 DEF Intact
      <4>3. (p + (j - 1)) - p + 1 = j
        BY <2>3, <2>4
      <4>. QED BY <4>2, <4>3
    <3>. QED BY <3>2, <3>3
  <2>14. SubSeq(c, 1, l) = Cells(k, v)
    <3>1. Cells(k, v) = [j \in 1 .. l |-> [key |-> k, value |-> v, part |-> j]]
      BY <2>4 DEF Cells
    <3>2. PICK d : d = SubSeq(c, 1, l)
      OBVIOUS
    <3>3. d \in Seq(Cell) /\ Len(d) = l /\ \A j \in 1 .. l : d[j] = c[j]
      <4>1. \A j \in 1 .. l : c[j] \in Cell
        BY <2>13
      <4>. QED BY <2>4, <2>13, <3>2, <4>1
    <3>4. d = [j \in 1 .. l |-> d[j]]
      BY <3>3
    <3>5. \A j \in 1 .. l : d[j] = [key |-> k, value |-> v, part |-> j]
      BY <2>13, <3>3
    <3>6. d = [j \in 1 .. l |-> [key |-> k, value |-> v, part |-> j]]
      BY <3>4, <3>5
    <3>. QED BY <3>1, <3>2, <3>6
  <2>15. c[1].part = 1 /\ c[1].key = k /\ c[1].value = v
    <3>1. 1 \in 1 .. l
      BY <2>4
    <3>2. c[1] = [key |-> k, value |-> v, part |-> 1]
      BY <2>13, <3>1
    <3>. QED BY <3>2
  <2>16. Decode(c, k) = v
    BY <2>3, <2>4, <2>13, <2>14, <2>15 DEF Decode
  <2>. QED BY <2>3, <2>9, <2>10, <2>16
<1>. QED BY <1>1, <1>2

\* Where the cells are, and those that are not of tombstones.
Spent(F) == {x \in Places(F) : F[x[1]][x[2]].value # Tombstone}
LEMMA PlacesAre ==
  ASSUME NEW F \in Files
  PROVE  /\ \A z : z \in Places(F) <=> \E i, p : z = <<i, p>> /\ i \in 1 .. Len(F) /\ p \in 1 .. Len(F[i])
         /\ \A z : z \in Spent(F) <=> \E i, p : /\ z = <<i, p>> /\ i \in 1 .. Len(F) /\ p \in 1 .. Len(F[i])
                                              /\ F[i][p].value # Tombstone
<1>1. DOMAIN F = 1 .. Len(F) /\ Len(F) \in Nat /\ \A i \in 1 .. Len(F) : DOMAIN F[i] = 1 .. Len(F[i]) /\ Len(F[i]) \in Nat
  <2>1. F \in Seq(Seq(Cell))
    BY DEF Files
  <2>. QED BY <2>1
<1>2. \A z : z \in Places(F) <=> \E i, p : z = <<i, p>> /\ i \in 1 .. Len(F) /\ p \in 1 .. Len(F[i])
  <2>1. ASSUME NEW z \in Places(F) PROVE \E i, p : z = <<i, p>> /\ i \in 1 .. Len(F) /\ p \in 1 .. Len(F[i])
    <3>1. PICK i \in 1 .. Len(F) : z \in {i} \X (1 .. Len(F[i]))
      BY <1>1, <2>1 DEF Places
    <3>. QED BY <3>1
  <2>2. ASSUME NEW i \in 1 .. Len(F), NEW p \in 1 .. Len(F[i]) PROVE <<i, p>> \in Places(F)
    <3>1. <<i, p>> \in {i} \X (1 .. Len(F[i]))
      OBVIOUS
    <3>. QED BY <1>1, <3>1 DEF Places
  <2>. QED BY <2>1, <2>2
<1>4. \A z : z \in Spent(F) <=> \E i, p : /\ z = <<i, p>> /\ i \in 1 .. Len(F) /\ p \in 1 .. Len(F[i])
                                        /\ F[i][p].value # Tombstone
  BY <1>2 DEF Spent
<1>. QED BY <1>2, <1>4

\* They can be counted.
LEMMA PlacesCounted ==
  ASSUME NEW F \in Files
  PROVE  /\ IsFiniteSet(Places(F)) /\ Sizes(F) \in Nat
         /\ IsFiniteSet(Spent(F)) /\ Cardinality(Spent(F)) \in Nat /\ Cardinality(Spent(F)) <= Sizes(F)
<1>1. DOMAIN F = 1 .. Len(F) /\ Len(F) \in Nat /\ \A i \in 1 .. Len(F) : DOMAIN F[i] = 1 .. Len(F[i]) /\ Len(F[i]) \in Nat
  <2>1. F \in Seq(Seq(Cell))
    BY DEF Files
  <2>. QED BY <2>1
<1>3. IsFiniteSet(Places(F))
  <2> DEFINE all == {{i} \X DOMAIN F[i] : i \in DOMAIN F}
  <2>1. IsFiniteSet(DOMAIN F)
    BY <1>1, FS_Interval
  <2>2. IsFiniteSet(all)
    <3> DEFINE f == [i \in DOMAIN F |-> {i} \X DOMAIN F[i]]
    <3>1. \A T \in all : \E i \in DOMAIN F : f[i] = T
      OBVIOUS
    <3>2. f \in [DOMAIN F -> all]
      OBVIOUS
    <3>3. f \in Surjection(DOMAIN F, all)
      <4> HIDE DEF f, all
      <4>. QED BY <3>1, <3>2 DEF Surjection
    <3> HIDE DEF f, all
    <3>. QED BY <2>1, <3>3, FS_Surjection
  <2>3. ASSUME NEW i \in DOMAIN F PROVE IsFiniteSet({i} \X DOMAIN F[i])
    <3>1. IsFiniteSet(DOMAIN F[i])
      <4>1. DOMAIN F[i] = 1 .. Len(F[i]) /\ Len(F[i]) \in Int
        BY <1>1
      <4>. QED BY <4>1, FS_Interval
    <3>2. IsFiniteSet({i})
      BY FS_Singleton
    <3>. QED BY <3>1, <3>2, FS_Product
  <2>4. \A T \in all : IsFiniteSet(T)
    BY <2>3
  <2>5. IsFiniteSet(UNION all)
    BY <2>2, <2>4, FS_UNION
  <2>. QED BY <2>5 DEF Places
<1>5. Spent(F) \in SUBSET Places(F)
  BY DEF Spent
<1>. QED BY <1>3, <1>5, FS_Subset, FS_CardinalityType DEF Sizes

\* What is appended adds its cells.
SpendsAtMost(c, m) == m <= Len(c) /\ \A i \in 1 .. Len(c) : c[i].value # Tombstone => i <= m
LEMMA PlacesGrow ==
  ASSUME NEW F \in Files, NEW s, NEW c \in Seq(Cell), NEW F2, GrownBy(F, s, c, F2),
         NEW m \in Nat, SpendsAtMost(c, m)
  PROVE  Sizes(F2) = Sizes(F) + Len(c) /\ Cardinality(Spent(F2)) <= Cardinality(Spent(F)) + m
<1>0. PICK a, f : a = Old(F, s) /\ f = F2[s]
  OBVIOUS
<1>1. /\ F2 \in Files /\ s \in Nat /\ s >= 1 /\ Len(F2) = s /\ s \in 1 .. s /\ Len(F) \in Nat
      /\ \A i \in 1 .. s : i # s => i \in 1 .. Len(F) /\ F2[i] = F[i]
      /\ \A i \in 1 .. Len(F) : i \in 1 .. s
      /\ a \in Seq(Cell) /\ Len(a) \in Nat /\ f \in Seq(Cell) /\ JoinedAs(a, c, f, Cell)
      /\ Len(f) = Len(a) + Len(c) /\ Len(c) \in Nat
  <2>1. /\ F2 \in Files /\ s \in Nat /\ s >= 1 /\ Len(F2) = s /\ Len(F) \in Nat
        /\ \A i \in 1 .. s : i # s => i \in 1 .. Len(F) /\ F2[i] = F[i]
        /\ \A i \in 1 .. Len(F) : i \in 1 .. s
        /\ a \in Seq(Cell) /\ JoinedAs(a, c, f, Cell)
    BY <1>0 DEF GrownBy
  <2>2. s \in 1 .. s
    BY <2>1
  <2>3. Len(a) \in Nat /\ f \in Seq(Cell) /\ Len(f) = Len(a) + Len(c) /\ Len(c) \in Nat
    BY <2>1 DEF JoinedAs
  <2>. QED BY <2>1, <2>2, <2>3
<1>2. (s \in 1 .. Len(F) => a = F[s]) /\ (s \notin 1 .. Len(F) => Len(a) = 0)
  <2>1. Len(<<>>) = 0
    OBVIOUS
  <2>. QED BY <1>0, <1>1, <2>1 DEF Old
<1> DEFINE New(n) == {s} \X (Len(a) + 1 .. Len(a) + n)
<1>3. ASSUME NEW n \in Nat PROVE IsFiniteSet(New(n)) /\ Cardinality(New(n)) = n
  <2>1. IsFiniteSet({s}) /\ Cardinality({s}) = 1
    BY FS_Singleton
  <2>2. IsFiniteSet(Len(a) + 1 .. Len(a) + n) /\ Cardinality(Len(a) + 1 .. Len(a) + n) = n
    <3>1. PICK x, y \in Int : x = Len(a) + 1 /\ y = Len(a) + n
      BY <1>1
    <3>2. IsFiniteSet(x .. y) /\ Cardinality(x .. y) = IF x > y THEN 0 ELSE y - x + 1
      BY FS_Interval
    <3>. QED BY <1>1, <3>1, <3>2
  <2>3. PICK I : I = Len(a) + 1 .. Len(a) + n
    OBVIOUS
  <2>4. IsFiniteSet({s} \X I) /\ Cardinality({s} \X I) = Cardinality({s}) * Cardinality(I)
    BY <2>1, <2>2, <2>3, FS_Product
  <2>5. Cardinality({s} \X I) = 1 * n
    BY <2>1, <2>2, <2>3, <2>4
  <2>. QED BY <2>3, <2>4, <2>5
<1>4. \A n \in Nat : \A z : z \in New(n) <=> \E p : z = <<s, p>> /\ p \in Len(a) + 1 .. Len(a) + n
  OBVIOUS
<1> HIDE DEF New
<1>5. ASSUME NEW i, NEW p
      PROVE  /\ i \in 1 .. Len(F2) /\ p \in 1 .. Len(F2[i]) <=>
                  \/ i \in 1 .. Len(F) /\ p \in 1 .. Len(F[i])
                  \/ i = s /\ p \in Len(a) + 1 .. Len(a) + Len(c)
             /\ i \in 1 .. Len(F) /\ p \in 1 .. Len(F[i]) =>
                  F2[i][p] = F[i][p] /\ ~(i = s /\ p \in Len(a) + 1 .. Len(a) + Len(c))
             /\ i = s /\ p \in Len(a) + 1 .. Len(a) + Len(c) => p - Len(a) \in 1 .. Len(c) /\ F2[i][p] = c[p - Len(a)]
  <2>1. CASE i # s
    BY <1>1, <2>1
  <2>2. CASE i = s
    <3>1. s \in 1 .. Len(F2)
      BY <1>1
    <3>2. s \in 1 .. Len(F) /\ p \in 1 .. Len(F[i]) <=> p \in 1 .. Len(a)
      <4>1. CASE s \in 1 .. Len(F)
        BY <1>2, <2>2, <4>1
      <4>2. CASE s \notin 1 .. Len(F)
        BY <1>2, <4>2
      <4>. QED BY <4>1, <4>2
    <3>3. p \in 1 .. Len(f) <=> p \in 1 .. Len(a) \/ p \in Len(a) + 1 .. Len(a) + Len(c)
      BY <1>1
    <3>4. /\ p \in 1 .. Len(a) => f[p] = a[p]
          /\ p \in Len(a) + 1 .. Len(a) + Len(c) => p - Len(a) \in 1 .. Len(c) /\ f[p] = c[p - Len(a)]
      BY <1>1 DEF JoinedAs
    <3>5. ~(p \in 1 .. Len(a) /\ p \in Len(a) + 1 .. Len(a) + Len(c))
      BY <1>1
    <3>6. p \in 1 .. Len(a) => s \in 1 .. Len(F)
      BY <1>2
    <3>. QED BY <1>0, <1>2, <2>2, <3>1, <3>2, <3>3, <3>4, <3>5, <3>6
  <2>. QED BY <2>1, <2>2
<1>6. Places(F2) = Places(F) \cup New(Len(c)) /\ Places(F) \cap New(Len(c)) = {}
  <2>1. \A z : z \in Places(F) <=> \E i, p : z = <<i, p>> /\ i \in 1 .. Len(F) /\ p \in 1 .. Len(F[i])
    BY PlacesAre
  <2>2. \A z : z \in Places(F2) <=> \E i, p : z = <<i, p>> /\ i \in 1 .. Len(F2) /\ p \in 1 .. Len(F2[i])
    BY <1>1, PlacesAre
  <2>3. \A z : z \in New(Len(c)) <=> \E p : z = <<s, p>> /\ p \in Len(a) + 1 .. Len(a) + Len(c)
    BY <1>1, <1>4
  <2>4. ASSUME NEW z PROVE z \in Places(F2) <=> z \in Places(F) \cup New(Len(c))
    <3>1. ASSUME z \in Places(F2) PROVE z \in Places(F) \cup New(Len(c))
      <4>1. PICK i, p : z = <<i, p>> /\ i \in 1 .. Len(F2) /\ p \in 1 .. Len(F2[i])
        BY <2>2, <3>1
      <4>2. \/ i \in 1 .. Len(F) /\ p \in 1 .. Len(F[i])
            \/ i = s /\ p \in Len(a) + 1 .. Len(a) + Len(c)
        BY <1>5, <4>1
      <4>. QED BY <2>1, <2>3, <4>1, <4>2
    <3>2. ASSUME z \in Places(F) PROVE z \in Places(F2)
      <4>1. PICK i, p : z = <<i, p>> /\ i \in 1 .. Len(F) /\ p \in 1 .. Len(F[i])
        BY <2>1, <3>2
      <4>2. i \in 1 .. Len(F2) /\ p \in 1 .. Len(F2[i])
        BY <1>5, <4>1
      <4>. QED BY <2>2, <4>1, <4>2
    <3>3. ASSUME z \in New(Len(c)) PROVE z \in Places(F2)
      <4>1. PICK p : z = <<s, p>> /\ p \in Len(a) + 1 .. Len(a) + Len(c)
        BY <2>3, <3>3
      <4>2. s \in 1 .. Len(F2) /\ p \in 1 .. Len(F2[s])
        BY <1>5, <4>1
      <4>. QED BY <2>2, <4>1, <4>2
    <3>. QED BY <3>1, <3>2, <3>3
  <2>5. ASSUME NEW z \in Places(F), z \in New(Len(c)) PROVE FALSE
    <3>1. PICK i, p : z = <<i, p>> /\ i \in 1 .. Len(F) /\ p \in 1 .. Len(F[i])
      BY <2>1
    <3>2. PICK q : z = <<s, q>> /\ q \in Len(a) + 1 .. Len(a) + Len(c)
      BY <2>3, <2>5
    <3>. QED BY <1>5, <3>1, <3>2
  <2>. QED BY <2>4, <2>5
<1>7. Spent(F2) \subseteq Spent(F) \cup New(m)
  <2> SUFFICES ASSUME NEW z \in Spent(F2), z \notin Spent(F) PROVE z \in New(m)
    OBVIOUS
  <2>1. PICK i, p : z = <<i, p>> /\ i \in 1 .. Len(F2) /\ p \in 1 .. Len(F2[i]) /\ F2[i][p].value # Tombstone
    BY <1>1, PlacesAre
  <2>2. ~(i \in 1 .. Len(F) /\ p \in 1 .. Len(F[i]))
    <3> SUFFICES ASSUME i \in 1 .. Len(F), p \in 1 .. Len(F[i]) PROVE FALSE
      OBVIOUS
    <3>1. F2[i][p] = F[i][p]
      BY <1>5
    <3>2. F[i][p].value # Tombstone
      BY <2>1, <3>1
    <3>3. z \in Spent(F)
      BY <2>1, <3>2, PlacesAre
    <3>. QED BY <3>3
  <2>3. i = s /\ p \in Len(a) + 1 .. Len(a) + Len(c) /\ p - Len(a) \in 1 .. Len(c) /\ c[p - Len(a)].value # Tombstone
    BY <1>5, <2>1, <2>2
  <2>4. p - Len(a) <= m
    BY <2>3 DEF SpendsAtMost
  <2>5. p \in Len(a) + 1 .. Len(a) + m
    BY <1>1, <2>3, <2>4
  <2>. QED BY <1>4, <2>1, <2>3, <2>5
<1>8. IsFiniteSet(Places(F)) /\ IsFiniteSet(Spent(F)) /\ Cardinality(Spent(F)) \in Nat /\ Sizes(F) \in Nat
  BY PlacesCounted
<1>9. Sizes(F2) = Sizes(F) + Len(c)
  <2>1. IsFiniteSet(New(Len(c))) /\ Cardinality(New(Len(c))) = Len(c)
    BY <1>1, <1>3
  <2>2. Cardinality(Places(F2)) = Cardinality(Places(F)) + Len(c) - Cardinality(Places(F) \cap New(Len(c)))
    BY <1>6, <1>8, <2>1, FS_Union
  <2>3. Cardinality(Places(F) \cap New(Len(c))) = 0
    BY <1>6, FS_EmptySet
  <2>. QED BY <1>1, <1>8, <2>2, <2>3 DEF Sizes
<1>10. Cardinality(Spent(F2)) <= Cardinality(Spent(F)) + m
  <2>1. IsFiniteSet(New(m)) /\ Cardinality(New(m)) = m
    BY <1>3
  <2>2. PICK u : u = Spent(F) \cup New(m)
    OBVIOUS
  <2>3. IsFiniteSet(u) /\ Cardinality(u) = Cardinality(Spent(F)) + m - Cardinality(Spent(F) \cap New(m))
    BY <1>8, <2>1, <2>2, FS_Union
  <2>4. Cardinality(Spent(F) \cap New(m)) \in Nat
    BY <1>8, FS_Intersection, FS_CardinalityType
  <2>5. Cardinality(Spent(F2)) <= Cardinality(u) /\ Cardinality(u) \in Nat /\ Cardinality(Spent(F2)) \in Nat
    BY <1>1, <1>7, <2>2, <2>3, FS_Subset, FS_CardinalityType
  <2>. QED BY <1>8, <2>3, <2>4, <2>5
<1>. QED BY <1>9, <1>10

\* Opening the store keeps no more cells than there were, of each kind.
LEMMA PlacesRecovered ==
  ASSUME NEW F \in Files
  PROVE  Cardinality(Spent(RecoveredAll(F))) <= Cardinality(Spent(F))
<1>1. PICK G, E : G = RecoveredAll(F) /\ Embedded(E, F, G)
  BY Embeds
<1>2. G \in Files /\ Len(G) = Len(F) /\ Len(F) \in Nat
  BY <1>1, Embeds
<1>3. ASSUME NEW i \in 1 .. Len(F)
      PROVE  /\ \A p \in 1 .. Len(G[i]) : E[i][p] \in 1 .. Len(F[i]) /\ G[i][p] = F[i][E[i][p]]
             /\ \A p, q \in 1 .. Len(G[i]) : E[i][p] = E[i][q] => p = q
  <2>1. /\ E[i] \in [1 .. Len(G[i]) -> 1 .. Len(F[i])] /\ Increasing(E[i], Len(G[i]))
        /\ \A p \in 1 .. Len(G[i]) : G[i][p] = F[i][E[i][p]]
    BY <1>1 DEF Embedded, PlacesOf
  <2>2. \A p \in 1 .. Len(G[i]) : E[i][p] \in 1 .. Len(F[i])
    BY <2>1
  <2>3. ASSUME NEW p \in 1 .. Len(G[i]), NEW q \in 1 .. Len(G[i]), E[i][p] = E[i][q] PROVE p = q
    <3>1. PICK a \in 1 .. Len(F[i]) : a = E[i][p] /\ a = E[i][q]
      BY <2>2, <2>3
    <3>2. PICK e, n : e = E[i] /\ n = Len(G[i]) /\ Increasing(e, n) /\ e[p] = a /\ e[q] = a
      BY <2>1, <3>1
    <3>3. p \in 1 .. n /\ q \in 1 .. n /\ ~(a < a)
      BY <3>2
    <3>4. ~(p < q) /\ ~(q < p)
      BY <3>2, <3>3 DEF Increasing
    <3>. QED BY <3>4
  <2>. QED BY <2>1, <2>2, <2>3
<1> DEFINE f == [z \in Spent(G) |-> <<z[1], E[z[1]][z[2]]>>]
<1>4. f \in Injection(Spent(G), Spent(F))
  <2>1. ASSUME NEW z \in Spent(G)
        PROVE  \E i, p : /\ z = <<i, p>> /\ i \in 1 .. Len(F) /\ p \in 1 .. Len(G[i]) /\ f[z] = <<i, E[i][p]>>
                         /\ f[z] \in Spent(F)
    <3>1. PICK i, p : z = <<i, p>> /\ i \in 1 .. Len(G) /\ p \in 1 .. Len(G[i]) /\ G[i][p].value # Tombstone
      BY <1>2, PlacesAre
    <3>2. z[1] = i /\ z[2] = p
      BY <3>1
    <3>3. f[z] = <<i, E[i][p]>>
      BY <3>2
    <3>4. i \in 1 .. Len(F) /\ E[i][p] \in 1 .. Len(F[i]) /\ G[i][p] = F[i][E[i][p]]
      BY <1>2, <1>3, <3>1
    <3>5. <<i, E[i][p]>> \in Spent(F)
      BY <3>1, <3>4, PlacesAre
    <3>. QED BY <1>2, <3>1, <3>3, <3>5
  <2>2. f \in [Spent(G) -> Spent(F)]
    BY <2>1
  <2>3. ASSUME NEW x \in Spent(G), NEW y \in Spent(G), f[x] = f[y] PROVE x = y
    <3> HIDE DEF f
    <3>1. PICK i, p : x = <<i, p>> /\ i \in 1 .. Len(F) /\ p \in 1 .. Len(G[i]) /\ f[x] = <<i, E[i][p]>>
      BY <2>1
    <3>2. PICK j, q : y = <<j, q>> /\ j \in 1 .. Len(F) /\ q \in 1 .. Len(G[j]) /\ f[y] = <<j, E[j][q]>>
      BY <2>1
    <3>3. i = j /\ E[i][p] = E[i][q]
      BY <2>3, <3>1, <3>2
    <3>. QED BY <1>3, <3>1, <3>2, <3>3
  <2> HIDE DEF f
  <2>. QED BY <2>2, <2>3 DEF Injection, IsInjective
<1> HIDE DEF f
<1>5. IsFiniteSet(Spent(F))
  BY PlacesCounted
<1>6. Cardinality(Spent(G)) <= Cardinality(Spent(F))
  BY <1>4, <1>5, FS_Injection
<1>. QED BY <1>1, <1>6

\* A record that is appended is the last one of its key, and no other moves.
LEMMA TellsNext ==
  ASSUME NEW F \in Files, NEW s, NEW c, NEW F2, GrownBy(F, s, c, F2), NEW k, NEW v, NEW n, Recorded(F, s, k, v, n, F2)
  PROVE  /\ \A k2, S : Tells(F, k2, S) /\ (k2 # k \/ n # Length[v]) => Tells(F2, k2, S)
         /\ n = Length[v] => Tells(F2, k, {Means(v)})
         /\ \A k2, at, S : Points(F, k2, at, S) => Points(F2, k2, at, S)
<1>1. /\ \A k2, i, p : At(F, k2, i, p) => At(F2, k2, i, p) /\ F2[i][p] = F[i][p] /\ (i = s => p <= Len(Old(F, s)))
      /\ \A k2, i, p : At(F2, k2, i, p) =>
           At(F, k2, i, p) \/ (n = Length[v] /\ k2 = k /\ i = s /\ p = Len(Old(F, s)) + 1)
      /\ n = Length[v] => At(F2, k, s, Len(Old(F, s)) + 1) /\ F2[s][Len(Old(F, s)) + 1].value = v
  BY DEF Recorded
<1>2. ASSUME NEW k2, NEW S, Tells(F, k2, S), k2 # k \/ n # Length[v] PROVE Tells(F2, k2, S)
  <2>1. \A i, p : (At(F2, k2, i, p) <=> At(F, k2, i, p)) /\ (At(F, k2, i, p) => F2[i][p] = F[i][p])
    BY <1>1, <1>2
  <2>. QED BY <1>2, <2>1 DEF Tells, IsLast
<1>3. ASSUME n = Length[v] PROVE Tells(F2, k, {Means(v)})
  <2>1. PICK q : q = Len(Old(F, s)) + 1
    OBVIOUS
  <2>2. At(F2, k, s, q) /\ F2[s][q].value = v
    BY <1>1, <1>3, <2>1
  <2>3. Len(Old(F, s)) \in Nat /\ s \in Nat /\ Len(F) \in Nat /\ Len(F) <= s
    BY DEF GrownBy
  <2>4. ASSUME NEW i, NEW p, At(F2, k, i, p) PROVE i < s \/ (i = s /\ p <= q)
    <3>1. CASE At(F, k, i, p)
      <4>1. i \in 1 .. Len(F) /\ p \in 1 .. Len(F[i]) /\ (i = s => p <= Len(Old(F, s)))
        BY <1>1, <3>1 DEF At
      <4>2. CASE i = s
        BY <2>1, <2>3, <4>1, <4>2
      <4>3. CASE i # s
        BY <2>3, <4>1, <4>3
      <4>. QED BY <4>2, <4>3
    <3>2. CASE ~At(F, k, i, p)
      BY <1>1, <2>1, <2>3, <2>4, <3>2
    <3>. QED BY <3>1, <3>2
  <2>. QED BY <2>2, <2>4 DEF Tells, IsLast
<1>4. ASSUME NEW k2, NEW at, NEW S, Points(F, k2, at, S) PROVE Points(F2, k2, at, S)
  BY <1>1, <1>4 DEF Points
<1>. QED BY <1>2, <1>3, <1>4

\* A cell that goes bad harms the record it was in, and no other.
RotLeaves(f, at, g) ==
  /\ g \in Seq(Cell) /\ Len(g) = Len(f)
  /\ Clean(f) => Clean(g)
  /\ Whole(f) => Whole(g)
  /\ \A k : Intact(f, k) /\ k # f[at].key => Intact(g, k)
  /\ \A p \in 1 .. Len(f) : IsRecord(g, p) => IsRecord(f, p) /\ g[p] = f[p]
  /\ \A p \in 1 .. Len(f) : IsRecord(f, p) /\ f[p].key # f[at].key => IsRecord(g, p) /\ g[p] = f[p]
  /\ \A p \in 1 .. Len(f) : g[p].value # Tombstone => f[p].value # Tombstone
LEMMA RotInFile ==
  ASSUME NEW f \in Seq(Cell), NEW at \in 1 .. Len(f), NEW g, g = [f EXCEPT ![at] = Bad]
  PROVE  RotLeaves(f, at, g)
<1>1. Bad \in Cell /\ Bad.part = 0 /\ Bad.value = Tombstone
  BY DEF Bad, Cell, ColdRecords
<1>2. /\ g \in Seq(Cell) /\ Len(g) = Len(f) /\ Len(f) \in Nat /\ DOMAIN f = 1 .. Len(f) /\ DOMAIN g = 1 .. Len(f)
      /\ g[at] = Bad /\ \A p \in 1 .. Len(f) : p # at => g[p] = f[p]
  BY <1>1
<1>3. ASSUME NEW p \in 1 .. Len(f), IsRecord(g, p) PROVE p # at /\ IsRecord(f, p) /\ g[p] = f[p] /\ NextAt(g, p) = NextAt(f, p)
  <2>1. p # at
    BY <1>1, <1>2, <1>3 DEF IsRecord
  <2>. QED BY <1>2, <1>3, <2>1 DEF IsRecord, NextAt
<1>4. ASSUME NEW p \in 1 .. Len(f), p # at, IsRecord(f, p) PROVE IsRecord(g, p) /\ g[p] = f[p]
  BY <1>2, <1>4 DEF IsRecord
<1>5. ASSUME Clean(f) PROVE Clean(g)
  <2> SUFFICES ASSUME NEW p \in 1 .. Len(f), IsRecord(g, p), NEW j \in p + 1 .. NextAt(g, p) - 1 PROVE g[j].part # 1
    BY <1>2 DEF Clean
  <2>1. IsRecord(f, p) /\ NextAt(g, p) = NextAt(f, p)
    BY <1>3
  <2>2. f[j].part # 1
    BY <1>2, <1>5, <2>1 DEF Clean
  <2>3. NextAt(f, p) \in p + 1 .. Len(f) + 1
    BY <2>1, Lengths
  <2>4. j \in 1 .. Len(f)
    BY <1>2, <2>1, <2>3
  <2>. QED BY <1>1, <1>2, <2>2, <2>4
<1>6. ASSUME Whole(f) PROVE Whole(g)
  <2> SUFFICES ASSUME NEW p \in 1 .. Len(f), g[p].part = 1 PROVE IsRecord(g, p)
    BY <1>2 DEF Whole
  <2>1. p # at
    BY <1>1, <1>2
  <2>2. IsRecord(f, p)
    BY <1>2, <1>6, <2>1 DEF Whole
  <2>. QED BY <1>4, <2>1, <2>2
<1>7. ASSUME NEW k, Intact(f, k), k # f[at].key PROVE Intact(g, k)
  <2> SUFFICES ASSUME NEW p \in 1 .. Len(f), IsRecord(g, p), g[p].key = k, NEW j \in p .. NextAt(g, p) - 1
               PROVE  g[j] = [key |-> k, value |-> g[p].value, part |-> j - p + 1]
    BY <1>2 DEF Intact
  <2>1. IsRecord(f, p) /\ NextAt(g, p) = NextAt(f, p) /\ g[p] = f[p]
    BY <1>3
  <2>2. f[j] = [key |-> k, value |-> f[p].value, part |-> j - p + 1]
    BY <1>7, <2>1 DEF Intact
  <2>3. f[j].key = k
    BY <2>2
  <2>4. NextAt(f, p) \in p + 1 .. Len(f) + 1
    BY <2>1, Lengths
  <2>5. j \in 1 .. Len(f) /\ j # at
    BY <1>2, <1>7, <2>1, <2>3, <2>4
  <2>. QED BY <1>2, <2>1, <2>2, <2>5
<1>8. ASSUME NEW p \in 1 .. Len(f), IsRecord(f, p), f[p].key # f[at].key PROVE IsRecord(g, p) /\ g[p] = f[p]
  BY <1>4, <1>8
<1>9. ASSUME NEW p \in 1 .. Len(f), g[p].value # Tombstone PROVE f[p].value # Tombstone
  BY <1>1, <1>2, <1>9
<1>. QED BY <1>2, <1>3, <1>5, <1>6, <1>7, <1>8, <1>9 DEF RotLeaves

\* The same for all files.
RotSpares(F, s, at, F2) ==
  /\ F2 \in Files /\ Len(F2) = Len(F)
  /\ Legible(F) => Legible(F2)
  /\ AllWhole(F) => AllWhole(F2)
  /\ \A k : k # F[s][at].key =>
       /\ IntactIn(F, k) => IntactIn(F2, k)
       /\ \A S : Tells(F, k, S) => Tells(F2, k, S)
       /\ \A x, S : Points(F, k, x, S) => Points(F2, k, x, S)
  /\ Sizes(F2) = Sizes(F) /\ Cardinality(Spent(F2)) <= Cardinality(Spent(F))
LEMMA RotInFiles ==
  ASSUME NEW F \in Files, NEW s \in 1 .. Len(F), NEW at \in 1 .. Len(F[s]),
         NEW F2, F2 = [F EXCEPT ![s][at] = Bad]
  PROVE  RotSpares(F, s, at, F2)
<1>0. PICK f, g : f = F[s] /\ g = [f EXCEPT ![at] = Bad]
  OBVIOUS
<1>1. F \in Seq(Seq(Cell)) /\ Len(F) \in Nat /\ f \in Seq(Cell) /\ at \in 1 .. Len(f)
  BY <1>0 DEF Files
<1>2. F2 = [F EXCEPT ![s] = g]
  BY <1>0
<1>3. RotLeaves(f, at, g)
  BY <1>0, <1>1, RotInFile
<1>4. F2 \in Seq(Seq(Cell)) /\ Len(F2) = Len(F) /\ F2[s] = g /\ \A i \in 1 .. Len(F) : i # s => F2[i] = F[i]
  BY <1>1, <1>2, <1>3 DEF RotLeaves
<1>5. (Legible(F) => Legible(F2)) /\ (AllWhole(F) => AllWhole(F2))
  BY <1>0, <1>3, <1>4 DEF Legible, AllWhole, RotLeaves
<1>6. ASSUME NEW k, k # F[s][at].key
      PROVE  /\ IntactIn(F, k) => IntactIn(F2, k)
             /\ \A S : Tells(F, k, S) => Tells(F2, k, S)
             /\ \A x, S : Points(F, k, x, S) => Points(F2, k, x, S)
  <2>1. IntactIn(F, k) => IntactIn(F2, k)
    BY <1>0, <1>3, <1>4, <1>6 DEF IntactIn, RotLeaves
  <2>2. ASSUME NEW i, NEW p PROVE (At(F2, k, i, p) <=> At(F, k, i, p)) /\ (At(F, k, i, p) => F2[i][p] = F[i][p])
    <3>1. CASE i # s
      BY <1>4, <3>1 DEF At
    <3>2. CASE i = s
      <4>0. /\ F2[i] = g /\ F[i] = f /\ k # f[at].key /\ Len(g) = Len(f)
            /\ i \in 1 .. Len(F2) /\ i \in 1 .. Len(F)
        BY <1>0, <1>3, <1>4, <1>6, <3>2 DEF RotLeaves
      <4>1. At(F, k, i, p) => At(F2, k, i, p) /\ F2[i][p] = F[i][p]
        <5> SUFFICES ASSUME p \in 1 .. Len(f), IsRecord(f, p), f[p].key = k
                     PROVE  IsRecord(g, p) /\ g[p] = f[p]
          BY <4>0 DEF At
        <5>. QED BY <1>3, <4>0 DEF RotLeaves
      <4>2. At(F2, k, i, p) => At(F, k, i, p)
        <5> SUFFICES ASSUME p \in 1 .. Len(f), IsRecord(g, p), g[p].key = k
                     PROVE  IsRecord(f, p) /\ g[p] = f[p]
          BY <4>0 DEF At
        <5>. QED BY <1>3 DEF RotLeaves
      <4>. QED BY <4>1, <4>2
    <3>. QED BY <3>1, <3>2
  <2>3. \A S : Tells(F, k, S) => Tells(F2, k, S)
    BY <2>2 DEF Tells, IsLast
  <2>4. ASSUME NEW x, NEW S, Points(F, k, x, S) PROVE Points(F2, k, x, S)
    <3>1. CASE x = Nowhere /\ Absent \in S
      BY <3>1 DEF Points
    <3>2. CASE ~(x = Nowhere /\ Absent \in S)
      <4>1. PICK i, p : /\ At(F, k, i, p) /\ F[i][p].value # Tombstone /\ F[i][p].value \in S
                        /\ x = Place(i, p, Length[F[i][p].value])
        BY <2>4, <3>2 DEF Points
      <4>2. At(F2, k, i, p) /\ F2[i][p] = F[i][p]
        BY <2>2, <4>1
      <4>. QED BY <4>1, <4>2 DEF Points
    <3>. QED BY <3>1, <3>2
  <2>. QED BY <2>1, <2>3, <2>4
<1>7. F2 \in Files
  BY <1>4 DEF Files
<1>8. \A i \in 1 .. Len(F) : Len(F2[i]) = Len(F[i])
  BY <1>0, <1>3, <1>4 DEF RotLeaves
<1>9. Places(F2) = Places(F)
  <2>1. \A z : z \in Places(F) <=> \E i, p : z = <<i, p>> /\ i \in 1 .. Len(F) /\ p \in 1 .. Len(F[i])
    BY PlacesAre
  <2>2. \A z : z \in Places(F2) <=> \E i, p : z = <<i, p>> /\ i \in 1 .. Len(F2) /\ p \in 1 .. Len(F2[i])
    BY <1>7, PlacesAre
  <2>3. ASSUME NEW i, NEW p
        PROVE  i \in 1 .. Len(F2) /\ p \in 1 .. Len(F2[i]) <=> i \in 1 .. Len(F) /\ p \in 1 .. Len(F[i])
    BY <1>4, <1>8
  <2>4. ASSUME NEW z PROVE z \in Places(F2) <=> z \in Places(F)
    <3>1. ASSUME z \in Places(F2) PROVE z \in Places(F)
      <4>1. PICK i, p : z = <<i, p>> /\ i \in 1 .. Len(F2) /\ p \in 1 .. Len(F2[i])
        BY <2>2, <3>1
      <4>. QED BY <2>1, <2>3, <4>1
    <3>2. ASSUME z \in Places(F) PROVE z \in Places(F2)
      <4>1. PICK i, p : z = <<i, p>> /\ i \in 1 .. Len(F) /\ p \in 1 .. Len(F[i])
        BY <2>1, <3>2
      <4>. QED BY <2>2, <2>3, <4>1
    <3>. QED BY <3>1, <3>2
  <2>. QED BY <2>4
<1>10. Spent(F2) \subseteq Spent(F)
  <2>0. \A z : z \in Spent(F2) <=> \E i, p : /\ z = <<i, p>> /\ i \in 1 .. Len(F2) /\ p \in 1 .. Len(F2[i])
                                             /\ F2[i][p].value # Tombstone
    BY <1>7, PlacesAre
  <2> SUFFICES ASSUME NEW z \in Spent(F2) PROVE z \in Spent(F)
    OBVIOUS
  <2>1. PICK i, p : z = <<i, p>> /\ i \in 1 .. Len(F2) /\ p \in 1 .. Len(F2[i]) /\ F2[i][p].value # Tombstone
    BY <2>0
  <2>2. i \in 1 .. Len(F) /\ p \in 1 .. Len(F[i])
    BY <1>4, <1>8, <2>1
  <2>3. F[i][p].value # Tombstone
    BY <1>0, <1>3, <1>4, <2>1, <2>2 DEF RotLeaves
  <2>. QED BY <2>1, <2>2, <2>3, PlacesAre
<1>11. Cardinality(Spent(F2)) <= Cardinality(Spent(F))
  <2>1. IsFiniteSet(Spent(F))
    BY PlacesCounted
  <2>. QED BY <1>10, <2>1, FS_Subset
<1>. QED BY <1>4, <1>5, <1>6, <1>7, <1>9, <1>11 DEF Sizes, RotSpares

\* The invariant.  The writer stands at the end of the last file, except after
\* a write that failed.
Writers == [segment : Nat, size : Nat]
ColdTypes ==
  /\ segments \in Files
  /\ DOMAIN index = ColdKeys /\ DOMAIN expected = ColdKeys
  /\ writer \in Writers /\ used \in Nat
WriterInv ==
  \/ writer = NotOpened
  \/ /\ writer.segment = Len(segments) /\ Len(segments) >= 1
     /\ "write" \notin broken => writer.size = Len(segments[Len(segments)])

\* What is counted is there, and what is no tombstone is within the quota.
DiskInv ==
  /\ "write" \notin broken \/ writer = NotOpened => used = Sizes(segments)
  /\ "write" \notin broken => Cardinality(Spent(segments)) <= Quota

\* Without torn or failed writes every file has whole records only; of each key
\* that has not rotted they are as written, the last one is what is expected,
\* and the index points to it.
KeyInv(k) ==
  /\ IntactIn(segments, k) /\ Tells(segments, k, expected[k])
  /\ Points(segments, k, index[k], expected[k])
ReadInv ==
  broken \subseteq {"rot"} =>
    Legible(segments) /\ AllWhole(segments) /\ \A k \in ColdKeys \ rotten : KeyInv(k)
RotInv == rotten # {} => "rot" \in broken
ColdInv == ColdTypes /\ WriterInv /\ DiskInv /\ ReadInv /\ RotInv

\* Where a record of n cells goes.
LEMMA WriterPlace ==
  ASSUME ColdTypes, WriterInv, NEW n
  PROVE  LET w == WriterFor(n) IN
         /\ w \in Writers /\ w.segment \in Nat /\ w.size \in Nat
         /\ w.segment = Len(segments) \/ w.segment = Len(segments) + 1
         /\ w.segment >= 1
         /\ "write" \notin broken => w.size = Len(Old(segments, w.segment))
<1>0. segments \in Seq(Seq(Cell)) /\ Len(segments) \in Nat
  BY DEF ColdTypes, Files
<1>1. PICK o : o = Opened
  OBVIOUS
<1>2. /\ o \in Writers
      /\ \/ o.segment = Len(segments) /\ Len(segments) >= 1
            /\ ("write" \notin broken => o.size = Len(segments[Len(segments)]))
         \/ o.segment = Len(segments) + 1 /\ o.size = 0
  <2>1. CASE writer # NotOpened
    BY <1>1, <2>1 DEF Opened, ColdTypes, WriterInv
  <2>2. CASE writer = NotOpened /\ segments = <<>>
    <3>1. o = [segment |-> 1, size |-> 0] /\ Len(segments) = 0
      BY <1>1, <2>2 DEF Opened
    <3>. QED BY <3>1 DEF Writers
  <2>3. CASE writer = NotOpened /\ segments # <<>>
    <3>1. o = [segment |-> Len(segments), size |-> Len(segments[Len(segments)])]
      BY <1>1, <2>3 DEF Opened, Last
    <3>2. Len(segments) >= 1
      BY <1>0, <2>3
    <3>3. segments[Len(segments)] \in Seq(Cell)
      BY <1>0, <3>2
    <3>4. Len(segments[Len(segments)]) \in Nat
      BY <3>3
    <3>. QED BY <1>0, <3>1, <3>2, <3>4 DEF Writers
  <2>. QED BY <2>1, <2>2, <2>3
<1>3. PICK w : w = WriterFor(n)
  OBVIOUS
<1>4. Len(<<>>) = 0
  OBVIOUS
<1>5. CASE w = o
  <2>1. \/ o.segment = Len(segments) /\ Len(segments) >= 1 /\ Old(segments, o.segment) = segments[Len(segments)]
        \/ o.segment = Len(segments) + 1 /\ Old(segments, o.segment) = <<>>
    BY <1>0, <1>2 DEF Old
  <2>. QED BY <1>0, <1>2, <1>3, <1>4, <1>5, <2>1 DEF Writers
<1>6. CASE w # o
  <2>1. o.size > 0 /\ w = [segment |-> o.segment + 1, size |-> 0]
    BY <1>1, <1>3, <1>6 DEF WriterFor
  <2>2. o.segment = Len(segments)
    BY <1>2, <2>1
  <2>3. Old(segments, Len(segments) + 1) = <<>>
    BY <1>0 DEF Old
  <2>. QED BY <1>0, <1>2, <1>3, <1>4, <2>1, <2>2, <2>3 DEF Writers
<1>. QED BY <1>5, <1>6, <1>3

\* What the invariant says means that the store is sound.
LEMMA ColdMeaning == ColdInv => ColdIsSound
<1> SUFFICES ASSUME ColdInv PROVE ColdIsSound
  OBVIOUS
<1>1. segments \in Files
  BY DEF ColdInv, ColdTypes
<1>2. ColdReads
  <2> SUFFICES ASSUME broken \subseteq {"rot"}, NEW k \in ColdKeys \ rotten PROVE Read(k) \in expected[k]
    BY DEF ColdReads
  <2>1. IntactIn(segments, k) /\ Points(segments, k, index[k], expected[k])
    BY DEF ColdInv, ReadInv, KeyInv
  <2>. QED BY <1>1, <2>1, ReadsRecord
<1>3. DiskAccounted
  <2> DEFINE tombs == {x \in Places(segments) : segments[x[1]][x[2]].value = Tombstone}
  <2>1. "write" \notin broken \/ writer = NotOpened => used = Sizes(segments)
    BY DEF ColdInv, DiskInv
  <2>2. ASSUME "write" \notin broken PROVE used <= Quota + Cardinality(tombs)
    <3>1. tombs = Places(segments) \ Spent(segments) /\ Places(segments) \cap Spent(segments) = Spent(segments)
      BY DEF Spent
    <3>2. IsFiniteSet(Places(segments)) /\ Cardinality(Spent(segments)) \in Nat /\ Sizes(segments) \in Nat
      BY <1>1, PlacesCounted
    <3>3. Cardinality(tombs) = Cardinality(Places(segments)) - Cardinality(Places(segments) \cap Spent(segments))
      BY <3>1, <3>2, FS_Difference
    <3>4. used = Cardinality(Places(segments)) /\ Cardinality(Spent(segments)) <= Quota
      BY <2>2 DEF ColdInv, DiskInv, Sizes
    <3>5. Quota \in Nat /\ Cardinality(Places(segments)) \in Nat
      BY <3>2, ColdAssumption DEF ColdAssumption, Sizes
    <3> HIDE DEF tombs
    <3>6. Cardinality(tombs) = Cardinality(Places(segments)) - Cardinality(Spent(segments))
      BY <3>1, <3>3
    <3>7. PICK a, b, c : /\ a = Cardinality(Places(segments)) /\ b = Cardinality(Spent(segments))
                         /\ c = Cardinality(tombs)
      OBVIOUS
    <3>8. a \in Nat /\ b \in Nat /\ c = a - b /\ used = a /\ b <= Quota /\ Quota \in Nat
      BY <3>2, <3>4, <3>5, <3>6, <3>7
    <3>9. used <= Quota + c
      BY <3>8
    <3>. QED BY <3>7, <3>9
  <2>. QED BY <2>1, <2>2 DEF DiskAccounted
<1>. QED BY <1>2, <1>3 DEF ColdIsSound

\* An empty directory satisfies it.
LEMMA ColdBegins == ColdInit => ColdInv
<1> SUFFICES ASSUME ColdInit PROVE ColdInv
  OBVIOUS
<1>1. segments \in Files /\ Len(segments) = 0 /\ 1 .. Len(segments) = {}
  <2>1. <<>> \in Seq(Seq(Cell)) /\ Len(<<>>) = 0 /\ 1 .. 0 = {}
    OBVIOUS
  <2>. QED BY <2>1 DEF ColdInit, Files
<1>2. Sizes(segments) = 0 /\ Cardinality(Spent(segments)) = 0
  <2>1. \A z : z \notin Places(segments)
    BY <1>1, PlacesAre
  <2>2. Places(segments) = {} /\ Spent(segments) = {}
    BY <2>1 DEF Spent
  <2>. QED BY <2>2, FS_EmptySet DEF Sizes
<1>3. ColdTypes
  BY <1>1 DEF ColdInit, ColdTypes, NotOpened, Writers
<1>4. Quota \in Nat
  BY ColdAssumption DEF ColdAssumption
<1>5. ASSUME NEW k \in ColdKeys PROVE KeyInv(k)
  <2>1. index[k] = Nowhere /\ Absent \in expected[k]
    BY <1>5 DEF ColdInit
  <2>. QED BY <1>1, <2>1 DEF KeyInv, IntactIn, Tells, Points, At
<1>6. ReadInv /\ RotInv /\ WriterInv
  BY <1>1, <1>5 DEF ReadInv, RotInv, WriterInv, ColdInit, Legible, AllWhole
<1>7. DiskInv
  BY <1>2, <1>4 DEF DiskInv, ColdInit
<1>. QED BY <1>3, <1>6, <1>7 DEF ColdInv

\* What the store is like when it has opened the files F.
Opens(F) ==
  /\ segments' \in Files /\ DOMAIN index' = ColdKeys
  /\ writer' = NotOpened /\ used' = Sizes(segments') /\ used' \in Nat
  /\ Cardinality(Spent(segments')) \in Nat /\ Cardinality(Spent(segments')) <= Cardinality(Spent(F))
  /\ Legible(F) =>
       /\ Legible(segments') /\ AllWhole(segments')
       /\ \A k, S : k \in ColdKeys /\ IntactIn(F, k) /\ Tells(F, k, S) =>
            IntactIn(segments', k) /\ Tells(segments', k, S) /\ Points(segments', k, index'[k], S)
LEMMA ReopensTo ==
  ASSUME NEW F \in Files, Reopens(F)
  PROVE  Opens(F)
<1>1. PICK G : G = RecoveredAll(F)
  OBVIOUS
<1>2. segments' = G /\ index' = [k \in ColdKeys |-> Located(G, k)] /\ writer' = NotOpened /\ used' = Sizes(G)
  BY <1>1 DEF Reopens, RecoveredAll
<1>3. G \in Files
  BY <1>1, Embeds
<1>4. Sizes(G) \in Nat /\ Cardinality(Spent(G)) \in Nat
  BY <1>3, PlacesCounted
<1>5. Cardinality(Spent(G)) <= Cardinality(Spent(F))
  BY <1>1, PlacesRecovered
<1>6. ASSUME Legible(F)
      PROVE  /\ Legible(G) /\ AllWhole(G)
             /\ \A k, S : k \in ColdKeys /\ IntactIn(F, k) /\ Tells(F, k, S) =>
                  IntactIn(G, k) /\ Tells(G, k, S) /\ Points(G, k, index'[k], S)
  <2>1. Recovers(F, G)
    BY <1>1, <1>6, Recovering
  <2>2. ASSUME NEW k, NEW S, k \in ColdKeys, IntactIn(F, k), Tells(F, k, S)
        PROVE  IntactIn(G, k) /\ Tells(G, k, S) /\ Points(G, k, index'[k], S)
    <3>1. IntactIn(G, k) /\ Tells(G, k, S)
      BY <2>1, <2>2 DEF Recovers
    <3>2. Points(G, k, Located(G, k), S)
      BY <1>3, <2>1, <3>1, Locates DEF Recovers
    <3>3. index'[k] = Located(G, k)
      BY <1>2, <2>2
    <3>. QED BY <3>1, <3>2, <3>3
  <2>. QED BY <2>1, <2>2 DEF Recovers
<1>7. DOMAIN index' = ColdKeys
  BY <1>2
<1>8. segments' \in Files /\ used' \in Nat /\ used' = Sizes(segments') /\ writer' = NotOpened
  BY <1>2, <1>3, <1>4
<1>9. Cardinality(Spent(segments')) \in Nat /\ Cardinality(Spent(segments')) <= Cardinality(Spent(F))
  BY <1>2, <1>4, <1>5
<1>. QED BY <1>2, <1>6, <1>7, <1>8, <1>9 DEF Opens

\* Any files that the store has opened satisfy the invariant, if they are
\* within the quota and tell what is expected.
LEMMA OpensWell ==
  ASSUME NEW F \in Files, Opens(F), DOMAIN expected' = ColdKeys, RotInv',
         "write" \notin broken' => Cardinality(Spent(F)) <= Quota /\ Cardinality(Spent(F)) \in Nat,
         broken' \subseteq {"rot"} =>
           Legible(F) /\ \A k \in ColdKeys \ rotten' : IntactIn(F, k) /\ Tells(F, k, expected'[k])
  PROVE  ColdInv'
<1>1. NotOpened \in Writers
  BY DEF NotOpened, Writers
<1>2. ColdTypes'
  BY <1>1 DEF Opens, ColdTypes
<1>3. WriterInv'
  BY DEF Opens, WriterInv
<1>4. DiskInv'
  <2>1. "write" \notin broken' => Cardinality(Spent(segments')) <= Quota
    <3>1. Quota \in Nat
      BY ColdAssumption DEF ColdAssumption
    <3>. QED BY <3>1 DEF Opens
  <2>. QED BY <2>1 DEF Opens, DiskInv
<1>5. ReadInv'
  <2> SUFFICES ASSUME broken' \subseteq {"rot"}
               PROVE  /\ Legible(segments') /\ AllWhole(segments')
                      /\ \A k \in ColdKeys \ rotten' : /\ IntactIn(segments', k) /\ Tells(segments', k, expected'[k])
                                                     /\ Points(segments', k, index'[k], expected'[k])
    BY DEF ReadInv, KeyInv
  <2>. QED BY DEF Opens
<1>. QED BY <1>2, <1>3, <1>4, <1>5 DEF ColdInv

\* open_with_limit, after the process has ended between two appends.
LEMMA ReopenStep == ASSUME ColdInv, ReopenStore PROVE ColdInv'
<1>1. segments \in Files /\ Reopens(segments) /\ UNCHANGED <<broken, expected, rotten>>
  BY DEF ColdInv, ColdTypes, ReopenStore
<1>2. Opens(segments)
  BY <1>1, ReopensTo
<1>3. DOMAIN expected' = ColdKeys /\ RotInv'
  BY <1>1 DEF ColdInv, ColdTypes, RotInv
<1>4. "write" \notin broken' => Cardinality(Spent(segments)) <= Quota /\ Cardinality(Spent(segments)) \in Nat
  BY <1>1, PlacesCounted DEF ColdInv, DiskInv
<1>5. broken' \subseteq {"rot"} =>
        Legible(segments) /\ \A k \in ColdKeys \ rotten' : IntactIn(segments, k) /\ Tells(segments, k, expected'[k])
  BY <1>1 DEF ColdInv, ReadInv, KeyInv
<1>. QED BY <1>1, <1>2, <1>3, <1>4, <1>5, OpensWell

\* A cell goes bad on the disk.
LEMMA RotStep == ASSUME ColdInv, Rots PROVE ColdInv'
<1>1. PICK s \in DOMAIN segments : \E at \in DOMAIN segments[s] :
        /\ segments' = [segments EXCEPT ![s][at] = Bad]
        /\ rotten' = {segments[s][at].key}
  BY DEF Rots
<1>2. PICK at \in DOMAIN segments[s] :
        segments' = [segments EXCEPT ![s][at] = Bad] /\ rotten' = {segments[s][at].key}
  BY <1>1
<1>3. /\ broken' = broken \cup {"rot"} /\ "rot" \notin broken /\ UNCHANGED <<index, writer, used, expected>>
      /\ rotten = {}
  BY DEF Rots, MayBreak, ColdInv, RotInv
<1>4. segments \in Files /\ s \in 1 .. Len(segments) /\ at \in 1 .. Len(segments[s]) /\ Len(segments) \in Nat
  BY <1>2 DEF ColdInv, ColdTypes, Files
<1>5. PICK F, F2 : F = segments /\ F2 = segments'
  OBVIOUS
<1>6. /\ F2 \in Files /\ Len(F2) = Len(F)
      /\ Legible(F) => Legible(F2)
      /\ AllWhole(F) => AllWhole(F2)
      /\ \A k : k # F[s][at].key =>
           /\ IntactIn(F, k) => IntactIn(F2, k)
           /\ \A S : Tells(F, k, S) => Tells(F2, k, S)
           /\ \A x, S : Points(F, k, x, S) => Points(F2, k, x, S)
      /\ Sizes(F2) = Sizes(F) /\ Cardinality(Spent(F2)) <= Cardinality(Spent(F))
  <2>1. /\ F \in Files /\ s \in 1 .. Len(F) /\ at \in 1 .. Len(F[s]) /\ F2 = [F EXCEPT ![s][at] = Bad]
    BY <1>2, <1>4, <1>5
  <2>2. RotSpares(F, s, at, F2)
    BY <2>1, RotInFiles
  <2>. QED BY <2>2 DEF RotSpares
<1>7. ColdTypes' /\ RotInv'
  BY <1>3, <1>5, <1>6 DEF ColdInv, ColdTypes, RotInv
<1>8. WriterInv'
  <2>1. Len(segments) >= 1 => Len(segments'[Len(segments)]) = Len(segments[Len(segments)])
    <3> SUFFICES ASSUME Len(segments) >= 1
                 PROVE  Len(segments'[Len(segments)]) = Len(segments[Len(segments)])
      OBVIOUS
    <3>1. PICK i, f, g : i = Len(segments) /\ f = segments[i] /\ g = [f EXCEPT ![at] = Bad]
      OBVIOUS
    <3>2. i \in 1 .. Len(segments)
      BY <1>4, <3>1
    <3>3. f \in Seq(Cell) /\ segments \in Seq(Seq(Cell))
      BY <1>4, <3>1, <3>2 DEF Files
    <3>4. CASE i = s
      <4>1. segments'[i] = g
        BY <1>2, <3>1, <3>2, <3>3, <3>4
      <4>2. Len(g) = Len(f)
        BY <3>1, <3>3
      <4>. QED BY <3>1, <4>1, <4>2
    <3>5. CASE i # s
      BY <1>2, <3>1, <3>2, <3>3, <3>5
    <3>. QED BY <3>4, <3>5
  <2>. QED BY <1>3, <1>5, <1>6, <2>1 DEF ColdInv, WriterInv
<1>9. DiskInv'
  <2>1. Cardinality(Spent(F)) \in Nat /\ Cardinality(Spent(F2)) \in Nat /\ Quota \in Nat
    BY <1>4, <1>5, <1>6, PlacesCounted, ColdAssumption DEF ColdAssumption
  <2>2. PICK a, b \in Nat : a = Cardinality(Spent(F)) /\ b = Cardinality(Spent(F2)) /\ b <= a
    BY <1>6, <2>1
  <2>3. "write" \notin broken => a <= Quota
    BY <1>5, <2>2 DEF ColdInv, DiskInv
  <2>4. "write" \notin broken => b <= Quota
    BY <2>1, <2>2, <2>3
  <2>. QED BY <1>3, <1>5, <1>6, <2>2, <2>4 DEF ColdInv, DiskInv
<1>10. ReadInv'
  <2> SUFFICES ASSUME broken' \subseteq {"rot"}
               PROVE  /\ Legible(segments') /\ AllWhole(segments')
                      /\ \A k \in ColdKeys \ rotten' : /\ IntactIn(segments', k) /\ Tells(segments', k, expected'[k])
                                                     /\ Points(segments', k, index'[k], expected'[k])
    BY DEF ReadInv, KeyInv
  <2>1. Legible(F) /\ AllWhole(F) /\ \A k \in ColdKeys : IntactIn(F, k) /\ Tells(F, k, expected[k]) /\ Points(F, k, index[k], expected[k])
    BY <1>3, <1>5 DEF ColdInv, ReadInv, KeyInv
  <2>2. \A k \in ColdKeys \ rotten' : k # F[s][at].key
    BY <1>2, <1>5
  <2>3. \A k \in ColdKeys \ rotten' : IntactIn(F2, k) /\ Tells(F2, k, expected[k]) /\ Points(F2, k, index[k], expected[k])
    BY <1>6, <2>1, <2>2
  <2>. QED BY <1>3, <1>5, <1>6, <2>1, <2>3
<1>. QED BY <1>7, <1>8, <1>9, <1>10 DEF ColdInv

\* What every append has in common.
LEMMA AppendGrows ==
  ASSUME ColdInv, NEW n, NEW w, w = WriterFor(n), NEW c \in Seq(Cell)
  PROVE  /\ GrownBy(segments, w.segment, c, Append2(w, c)) /\ Append2(w, c) \in Files
         /\ w \in Writers /\ w.segment \in Nat /\ w.segment >= 1 /\ w.size \in Nat
         /\ "write" \notin broken => w.size = Len(Old(segments, w.segment))
<1>1. /\ w \in Writers /\ w.segment \in Nat /\ w.size \in Nat
      /\ w.segment = Len(segments) \/ w.segment = Len(segments) + 1
      /\ w.segment >= 1
      /\ "write" \notin broken => w.size = Len(Old(segments, w.segment))
  BY WriterPlace DEF ColdInv
<1>2. segments \in Files
  BY DEF ColdInv, ColdTypes
<1>3. GrownBy(segments, w.segment, c, Append2(w, c))
  BY <1>1, <1>2, Grown
<1>. QED BY <1>1, <1>3 DEF GrownBy

\* append_record, written and synced.
LEMMA AppendedStep ==
  ASSUME ColdInv, NEW k \in ColdKeys, NEW v \in ColdRecords, Appended(k, v), v # Tombstone => InQuota(v)
  PROVE  ColdInv'
<1>0. PICK l \in Nat : l = Length[v] /\ l >= 1
  BY ColdAssumption DEF ColdAssumption, ColdRecords
<1>1. PICK w, c, s : w = WriterFor(Length[v]) /\ c = Cells(k, v) /\ s = w.segment
  OBVIOUS
<1>2. /\ segments' = Append2(w, c) /\ writer' = [w EXCEPT !.size = @ + l] /\ used' = used + l
      /\ index' = [index EXCEPT ![k] =
                 IF v = Tombstone THEN Nowhere ELSE [segment |-> w.segment, offset |-> w.size, length |-> l]]
      /\ expected' = [expected EXCEPT ![k] = {IF v = Tombstone THEN Absent ELSE v}]
      /\ broken' = broken /\ rotten' = rotten
  BY <1>0, <1>1 DEF Appended
<1>3. BeginningOf(c, k, v, Length[v]) /\ c \in Seq(Cell) /\ Len(c) = l /\ \A i \in 1 .. l : c[i].value = v
  <2>1. BeginningOf(c, k, v, Length[v])
    BY <1>1, Beginnings
  <2>2. c \in Seq(Cell) /\ Len(c) = l /\ \A i \in 1 .. l : c[i] = [key |-> k, value |-> v, part |-> i]
    BY <1>0, <2>1 DEF BeginningOf
  <2>3. \A i \in 1 .. l : c[i].value = v
    BY <2>2
  <2>. QED BY <2>1, <2>2, <2>3
<1>4. /\ GrownBy(segments, s, c, segments') /\ segments' \in Files
      /\ w \in Writers /\ s \in Nat /\ s >= 1 /\ w.size \in Nat
      /\ "write" \notin broken => w.size = Len(Old(segments, s))
  BY <1>1, <1>2, <1>3, AppendGrows
<1>5. PICK F, F2 : F = segments /\ F2 = segments' /\ F \in Files /\ F2 \in Files /\ GrownBy(F, s, c, F2)
  BY <1>4 DEF ColdInv, ColdTypes
<1>6. /\ Len(F2) = s /\ JoinedAs(Old(F, s), c, F2[s], Cell)
      /\ Len(F2[s]) = Len(Old(F, s)) + l /\ Len(Old(F, s)) \in Nat
  BY <1>3, <1>5 DEF GrownBy, JoinedAs
<1>7. writer' \in Writers /\ writer'.segment = s /\ writer'.size = w.size + l
  BY <1>1, <1>2, <1>4 DEF Writers
<1>8. ColdTypes'
  BY <1>0, <1>2, <1>4, <1>7 DEF ColdInv, ColdTypes
<1>9. WriterInv'
  <2>1. "write" \notin broken' => writer'.size = Len(segments'[Len(segments')])
    BY <1>2, <1>4, <1>5, <1>6, <1>7
  <2>. QED BY <1>4, <1>5, <1>6, <1>7, <2>1 DEF WriterInv
<1>10. writer' # NotOpened
  BY <1>4, <1>7 DEF NotOpened
<1>11. DiskInv'
  <2>0. PICK m \in Nat : m = IF v = Tombstone THEN 0 ELSE l
    BY <1>0
  <2>1. m <= Len(c) /\ \A i \in 1 .. Len(c) : c[i].value # Tombstone => i <= m
    BY <1>3, <2>0
  <2>2. Sizes(F2) = Sizes(F) + Len(c) /\ Cardinality(Spent(F2)) <= Cardinality(Spent(F)) + m
    <3>1. SpendsAtMost(c, m)
      BY <2>1 DEF SpendsAtMost
    <3>. QED BY <1>3, <1>5, <3>1, PlacesGrow
  <2>3. /\ Sizes(F) \in Nat /\ Cardinality(Spent(F)) \in Nat /\ Cardinality(Spent(F)) <= Sizes(F)
        /\ Cardinality(Spent(F2)) \in Nat
    BY <1>5, PlacesCounted
  <2>4. PICK a, b, x, y \in Nat : /\ a = Sizes(F) /\ b = Sizes(F2) /\ x = Cardinality(Spent(F)) /\ y = Cardinality(Spent(F2))
    BY <1>3, <2>2, <2>3
  <2>5. b = a + l /\ y <= x + m /\ x <= a /\ Quota \in Nat /\ used \in Nat
    BY <1>3, <2>2, <2>3, <2>4, ColdAssumption DEF ColdAssumption, ColdInv, ColdTypes
  <2>6. "write" \notin broken => used = a /\ x <= Quota /\ (v # Tombstone => used + l <= Quota)
    BY <1>0, <1>5, <2>4 DEF ColdInv, DiskInv, InQuota
  <2>7. "write" \notin broken => y <= Quota
    BY <2>0, <2>5, <2>6
  <2>8. "write" \notin broken => used' = b
    BY <1>2, <2>5, <2>6
  <2>. QED BY <1>2, <1>5, <1>10, <2>4, <2>7, <2>8 DEF DiskInv
<1>12. ReadInv'
  <2> SUFFICES ASSUME broken \subseteq {"rot"}
               PROVE  /\ Legible(F2) /\ AllWhole(F2)
                      /\ \A k2 \in ColdKeys \ rotten : /\ IntactIn(F2, k2) /\ Tells(F2, k2, expected'[k2])
                                                     /\ Points(F2, k2, index'[k2], expected'[k2])
    BY <1>2, <1>5 DEF ReadInv, KeyInv
  <2>1. /\ Legible(F) /\ AllWhole(F)
        /\ \A k2 \in ColdKeys \ rotten : IntactIn(F, k2) /\ Tells(F, k2, expected[k2]) /\ Points(F, k2, index[k2], expected[k2])
    BY <1>5 DEF ColdInv, ReadInv, KeyInv
  <2>2. Recorded(F, s, k, v, Length[v], F2)
    <3>1. Length[v] \in 0 .. Length[v]
      BY <1>0
    <3>. QED BY <1>3, <1>5, <2>1, <3>1, AppendRecords
  <2>3. /\ \A k2, S : Tells(F, k2, S) /\ k2 # k => Tells(F2, k2, S)
        /\ Tells(F2, k, {Means(v)})
        /\ \A k2, at, S : Points(F, k2, at, S) => Points(F2, k2, at, S)
    BY <1>5, <2>2, TellsNext
  <2>4. \A k2 \in ColdKeys : k2 # k => expected'[k2] = expected[k2] /\ index'[k2] = index[k2]
    BY <1>2 DEF ColdInv, ColdTypes
  <2>5. expected'[k] = {Means(v)}
    BY <1>2 DEF ColdInv, ColdTypes, Means
  <2>6. Points(F2, k, index'[k], expected'[k])
    <3>1. CASE v = Tombstone
      <4>1. index'[k] = Nowhere
        BY <1>2, <3>1 DEF ColdInv, ColdTypes
      <4>. QED BY <2>5, <3>1, <4>1 DEF Points, Means
    <3>2. CASE v # Tombstone
      <4>1. PICK p : p = Len(Old(F, s)) + 1
        OBVIOUS
      <4>2. At(F2, k, s, p) /\ F2[s][p].value = v
        BY <2>2, <4>1 DEF Recorded
      <4>3. w.size = p - 1
        BY <1>4, <1>5, <1>6, <4>1
      <4>4. index'[k] = Place(s, p, l)
        BY <1>1, <1>2, <3>2, <4>3 DEF ColdInv, ColdTypes, Place
      <4>. QED BY <1>0, <2>5, <3>2, <4>2, <4>4 DEF Points, Means
    <3>. QED BY <3>1, <3>2
  <2>7. Legible(F2) /\ AllWhole(F2) /\ \A k2 : IntactIn(F, k2) => IntactIn(F2, k2)
    BY <2>2 DEF Recorded
  <2>8. ASSUME NEW k2 \in ColdKeys \ rotten
        PROVE  /\ IntactIn(F2, k2) /\ Tells(F2, k2, expected'[k2])
               /\ Points(F2, k2, index'[k2], expected'[k2])
    <3>1. CASE k2 = k
      BY <2>1, <2>3, <2>5, <2>6, <2>7, <3>1
    <3>2. CASE k2 # k
      BY <2>1, <2>3, <2>4, <2>7, <3>2
    <3>. QED BY <3>1, <3>2
  <2>. QED BY <2>7, <2>8
<1>13. RotInv'
  BY <1>2 DEF ColdInv, RotInv
<1>. QED BY <1>8, <1>9, <1>11, <1>12, <1>13 DEF ColdInv

\* append_record, when the write or the fsync fails.
LEMMA FailsStep ==
  ASSUME ColdInv, NEW k \in ColdKeys, NEW v \in ColdRecords, AppendFails(k, v)
  PROVE  ColdInv'
<1>1. PICK w : w = WriterFor(Length[v])
  OBVIOUS
<1>2. /\ \E n \in 0 .. Length[v] : segments' = Append2(w, SubSeq(Cells(k, v), 1, n))
      /\ writer' = w /\ broken' = broken \cup {"write"} /\ UNCHANGED <<index, used, rotten>>
      /\ expected' = [expected EXCEPT ![k] = @ \cup {IF v = Tombstone THEN Absent ELSE v}]
  BY <1>1 DEF AppendFails
<1>3. PICK n, c : /\ n \in 0 .. Length[v] /\ c = SubSeq(Cells(k, v), 1, n)
                  /\ segments' = Append2(w, c)
  BY <1>2
<1>4. c \in Seq(Cell)
  BY <1>3, Beginnings DEF BeginningOf
<1>5. /\ GrownBy(segments, w.segment, c, segments') /\ segments' \in Files
      /\ w \in Writers /\ w.segment \in Nat /\ w.segment >= 1
  BY <1>1, <1>3, <1>4, AppendGrows
<1>6. Len(segments') = w.segment
  BY <1>5 DEF GrownBy
<1>7. "write" \in broken' /\ writer' # NotOpened
  BY <1>2, <1>5 DEF NotOpened
<1>8. ColdTypes' /\ WriterInv'
  BY <1>2, <1>5, <1>6, <1>7 DEF ColdInv, ColdTypes, WriterInv
<1>9. DiskInv' /\ ReadInv' /\ RotInv'
  BY <1>2, <1>7 DEF ColdInv, DiskInv, ReadInv, RotInv
<1>. QED BY <1>8, <1>9 DEF ColdInv

\* The process dies in append_record, and a new one opens the store.
LEMMA DiesStep ==
  ASSUME ColdInv, NEW k \in ColdKeys, NEW v \in ColdRecords, DiesAppending(k, v)
  PROVE  ColdInv'
<1>0. PICK l \in Nat : l = Length[v] /\ l >= 1
  BY ColdAssumption DEF ColdAssumption, ColdRecords
<1>1. PICK w, s : w = WriterFor(Length[v]) /\ s = w.segment
  OBVIOUS
<1>2. /\ v = Tombstone \/ InQuota(v)
      /\ \E n \in 0 .. Length[v], zeros \in {<<>>, <<Bad>>} :
           /\ broken' = IF zeros = <<>> THEN broken ELSE broken \cup {"power"}
           /\ Reopens(Append2(w, SubSeq(Cells(k, v), 1, n) \o zeros))
           /\ expected' = [expected EXCEPT ![k] = IF n < Length[v] THEN @
                                                  ELSE {IF v = Tombstone THEN Absent ELSE v}]
      /\ rotten' = rotten
  BY <1>1 DEF DiesAppending
<1>3. PICK n \in 0 .. Length[v], zeros \in {<<>>, <<Bad>>} :
           /\ broken' = IF zeros = <<>> THEN broken ELSE broken \cup {"power"}
           /\ Reopens(Append2(w, SubSeq(Cells(k, v), 1, n) \o zeros))
           /\ expected' = [expected EXCEPT ![k] = IF n < Length[v] THEN @
                                                  ELSE {IF v = Tombstone THEN Absent ELSE v}]
  BY <1>2
<1>4. PICK b, c : b = SubSeq(Cells(k, v), 1, n) /\ c = b \o zeros
  OBVIOUS
<1>5. /\ BeginningOf(b, k, v, n) /\ b \in Seq(Cell) /\ Len(b) = n /\ n \in Nat /\ n <= l
      /\ \A i \in 1 .. n : b[i].value = v
  <2>1. BeginningOf(b, k, v, n)
    BY <1>4, Beginnings
  <2>. QED BY <1>0, <2>1 DEF BeginningOf
<1>6. zeros \in Seq(Cell) /\ (zeros = <<>> => Len(zeros) = 0) /\ (zeros = <<Bad>> => Len(zeros) = 1 /\ zeros[1] = Bad)
  <2>1. Bad \in Cell
    BY DEF Bad, Cell, ColdRecords
  <2>2. <<>> \in Seq(Cell) /\ Len(<<>>) = 0
    OBVIOUS
  <2>3. <<Bad>> \in Seq(Cell) /\ Len(<<Bad>>) = 1 /\ <<Bad>>[1] = Bad
    BY <2>1
  <2>. QED BY <2>2, <2>3, Zenon
<1>7. JoinedAs(b, zeros, c, Cell) /\ c \in Seq(Cell)
  <2>1. JoinedAs(b, zeros, b \o zeros, Cell)
    BY <1>5, <1>6, Joined
  <2>. QED BY <1>4, <2>1 DEF JoinedAs
<1>8. PICK F, F2 : F = segments /\ F2 = Append2(w, c)
  OBVIOUS
<1>9. /\ GrownBy(F, s, c, F2) /\ F2 \in Files /\ F \in Files
  BY <1>1, <1>7, <1>8, AppendGrows DEF ColdInv, ColdTypes
<1>10. Opens(F2)
  <2>1. Reopens(F2)
    BY <1>3, <1>4, <1>8
  <2>. QED BY <1>9, <2>1, ReopensTo
<1>11. DOMAIN expected' = ColdKeys /\ RotInv'
  BY <1>2, <1>3 DEF ColdInv, ColdTypes, RotInv
<1>12. "write" \notin broken' => Cardinality(Spent(F2)) <= Quota /\ Cardinality(Spent(F2)) \in Nat
  <2>0. PICK m \in Nat : m = IF v = Tombstone THEN 0 ELSE n
    BY <1>5
  <2>1. m <= Len(c) /\ \A i \in 1 .. Len(c) : c[i].value # Tombstone => i <= m
    <3>1. Len(c) = n + Len(zeros) /\ Len(zeros) \in Nat
      BY <1>5, <1>7 DEF JoinedAs
    <3>2. \A i \in 1 .. Len(c) : i \in 1 .. n \/ i \in n + 1 .. n + Len(zeros)
      BY <1>5, <3>1
    <3>3. \A i \in 1 .. n : c[i].value = v
      BY <1>5, <1>7 DEF JoinedAs
    <3>4. \A i \in n + 1 .. n + Len(zeros) : c[i].value = Tombstone
      <4> SUFFICES ASSUME NEW i \in n + 1 .. n + Len(zeros) PROVE c[i].value = Tombstone
        OBVIOUS
      <4>1. i - n \in 1 .. Len(zeros) /\ c[i] = zeros[i - n]
        BY <1>5, <1>7 DEF JoinedAs
      <4>2. zeros = <<Bad>> /\ i - n = 1
        BY <1>6, <4>1
      <4>. QED BY <1>6, <4>1, <4>2 DEF Bad
    <3>. QED BY <1>5, <2>0, <3>1, <3>2, <3>3, <3>4
  <2>2. Cardinality(Spent(F2)) <= Cardinality(Spent(F)) + m
    <3>1. SpendsAtMost(c, m)
      BY <2>1 DEF SpendsAtMost
    <3>. QED BY <1>7, <1>9, <3>1, PlacesGrow
  <2>3. /\ Sizes(F) \in Nat /\ Cardinality(Spent(F)) \in Nat /\ Cardinality(Spent(F)) <= Sizes(F)
        /\ Cardinality(Spent(F2)) \in Nat
    BY <1>9, PlacesCounted
  <2>4. PICK a, x, y \in Nat : a = Sizes(F) /\ x = Cardinality(Spent(F)) /\ y = Cardinality(Spent(F2))
    BY <2>3
  <2>5. y <= x + m /\ x <= a /\ Quota \in Nat /\ used \in Nat
    BY <2>2, <2>3, <2>4, ColdAssumption DEF ColdAssumption, ColdInv, ColdTypes
  <2>6. "write" \notin broken => used = a /\ x <= Quota
    BY <1>8, <2>4 DEF ColdInv, DiskInv
  <2>7. v # Tombstone => used + l <= Quota
    BY <1>0, <1>2 DEF InQuota
  <2>8. "write" \notin broken => y <= Quota
    BY <1>5, <2>0, <2>5, <2>6, <2>7
  <2>9. "write" \notin broken' => "write" \notin broken
    BY <1>3
  <2>. QED BY <2>4, <2>8, <2>9
<1>13. ASSUME broken' \subseteq {"rot"}
       PROVE  Legible(F2) /\ \A k2 \in ColdKeys \ rotten' : IntactIn(F2, k2) /\ Tells(F2, k2, expected'[k2])
  <2>1. zeros = <<>> /\ broken \subseteq {"rot"}
    BY <1>3, <1>13
  <2>2. BeginningOf(c, k, v, n)
    <3>1. Len(c) = n /\ \A i \in 1 .. n : c[i] = b[i]
      BY <1>5, <1>6, <1>7, <2>1 DEF JoinedAs
    <3>. QED BY <1>5, <1>7, <3>1 DEF BeginningOf
  <2>3. Legible(F) /\ AllWhole(F) /\ \A k2 \in ColdKeys \ rotten : IntactIn(F, k2) /\ Tells(F, k2, expected[k2])
    BY <1>8, <2>1 DEF ColdInv, ReadInv, KeyInv
  <2>4. Recorded(F, s, k, v, n, F2)
    BY <1>9, <2>2, <2>3, AppendRecords
  <2>5. /\ \A k2, S : Tells(F, k2, S) /\ (k2 # k \/ n # Length[v]) => Tells(F2, k2, S)
        /\ n = Length[v] => Tells(F2, k, {Means(v)})
    BY <1>9, <2>4, TellsNext
  <2>6. \A k2 \in ColdKeys : k2 # k => expected'[k2] = expected[k2]
    BY <1>3 DEF ColdInv, ColdTypes
  <2>7. expected'[k] = IF n = l THEN {Means(v)} ELSE expected[k]
    <3>1. n < l <=> n # l
      BY <1>5
    <3>. QED BY <1>0, <1>3, <3>1 DEF ColdInv, ColdTypes, Means
  <2>8. Legible(F2) /\ \A k2 : IntactIn(F, k2) => IntactIn(F2, k2)
    BY <2>4 DEF Recorded
  <2>9. ASSUME NEW k2 \in ColdKeys \ rotten PROVE IntactIn(F2, k2) /\ Tells(F2, k2, expected'[k2])
    <3>1. CASE k2 = k
      BY <1>0, <2>3, <2>5, <2>7, <2>8, <3>1
    <3>2. CASE k2 # k
      BY <2>3, <2>5, <2>6, <2>8, <3>2
    <3>. QED BY <3>1, <3>2
  <2>. QED BY <1>2, <2>8, <2>9
<1>. QED BY <1>9, <1>10, <1>11, <1>12, <1>13, OpensWell

\* Every step preserves the invariant.
LEMMA ColdStep == ColdInv /\ [ColdNext]_coldVars => ColdInv'
<1> SUFFICES ASSUME ColdInv, [ColdNext]_coldVars PROVE ColdInv'
  OBVIOUS
<1>0. Tombstone \in ColdRecords /\ ColdValues \subseteq ColdRecords /\ Tombstone \notin ColdValues
  BY ColdAssumption DEF ColdRecords, ColdAssumption
<1>1. ASSUME NEW k \in ColdKeys, ColdRemove(k) PROVE ColdInv'
  BY <1>0, <1>1, AppendedStep, FailsStep DEF ColdRemove
<1>2. ASSUME NEW k \in ColdKeys, NEW v \in ColdValues, ColdPut(k, v) PROVE ColdInv'
  BY <1>0, <1>2, AppendedStep, FailsStep DEF ColdPut
<1>3. ASSUME NEW k \in ColdKeys, NEW v \in ColdRecords, DiesAppending(k, v) PROVE ColdInv'
  BY <1>3, DiesStep
<1>4. CASE UNCHANGED coldVars
  BY <1>4 DEF coldVars, ColdInv, ColdTypes, WriterInv, DiskInv, ReadInv, KeyInv, RotInv
<1>. QED BY <1>0, <1>1, <1>2, <1>3, <1>4, ReopenStep, RotStep DEF ColdNext

\* put, remove, open_with_limit (ColdIsSound): for all keys, values, lengths,
\* segments and quotas, a read of the Cold level returns the last value
\* acknowledged, or nothing after a removal, through rotations, torn writes,
\* restarts and the salvage of a segment with a rotten cell; and bytes_on_disk
\* is what the files hold, and takes no more than the quota but for tombstones.
THEOREM ColdAnswersForItsDisk == ColdSpec => []ColdIsSound
<1>1. ColdInit => ColdInv
  BY ColdBegins
<1>2. ColdInv /\ [ColdNext]_coldVars => ColdInv'
  BY ColdStep
<1>3. ColdInv => ColdIsSound
  BY ColdMeaning
<1>. QED BY <1>1, <1>2, <1>3, PTL DEF ColdSpec

=============================================================================
