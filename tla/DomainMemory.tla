---------------------------- MODULE DomainMemory ----------------------------
(***************************************************************************)
(* The domain memory of a flow (JME): MemoryManager over its levels Hot    *)
(* (RAM), Warm (Redis), Cold (segments on disk) and Frozen (files), the    *)
(* queue of deferred writes and the sink that makes values durable.        *)
(*                                                                         *)
(* Every call holds the manager's mutex to its end, so a call is one step. *)
(* Time is not counted: an entry with a ttl expires, a deferred write      *)
(* falls due and an entry turns idle whenever it may.  Of the order in     *)
(* which victims are picked only the priority is kept.                     *)
(***************************************************************************)
EXTENDS Naturals, FiniteSets, FiniteSetsExt

CONSTANTS
  Keys,        \* "class:id"
  Values,
  Size,        \* bytes of each value
  MaxEntries,  \* memory.max_entries
  MaxBytes,    \* memory.max_hot_bytes
  MaxPending,  \* memory.max_pending_deferred
  Policies,    \* the classes of the keys: see PolicyType
  NoValue

Tiers  == {"warm", "cold", "frozen"}
Faults == {"sink", "warm", "cold", "frozen", "read", "remove"}

Critical == 3

ClassPolicy == [policy : {"volatile", "cache", "deferred", "immediate"},
                temperature : Tiers \cup {"hot"},
                ttl : BOOLEAN, priority : 0 .. Critical]

PolicyType == [class : [Keys -> ClassPolicy], backends : SUBSET Tiers, faults : SUBSET Faults]

\* MemoryPolicy::from_file: what it refuses.
ValidClass(c, backends) ==
  /\ c.policy \in {"volatile", "cache"} => c.ttl
  /\ c.temperature = "frozen" => "frozen" \in backends
  /\ c.policy = "cache" /\ c.temperature = "cold" => "cold" \in backends

ASSUME DomainMemoryAssumption ==
  /\ MaxEntries \in Nat \ {0} /\ MaxBytes \in Nat \ {0} /\ MaxPending \in Nat \ {0}
  /\ Size \in [Values -> Nat]
  /\ NoValue \notin Values
  /\ Policies \subseteq PolicyType
  /\ \A p \in Policies, k \in Keys : ValidClass(p.class[k], p.backends)

VARIABLES
  policy,   \* chosen once
  hot,      \* HotStore: value of each entry, and whether its ttl is over
  store,    \* what Warm, Cold and Frozen hold
  queue,    \* DeferredQueue: the record of each key
  overdue,  \* its keys whose flush time is over
  sink,     \* the values of each key in persist.jsonl, and the last of them
  allowed,  \* what a reader may find: the last value written, and those of
            \* later writes that failed
  lapsed    \* keys whose entry has expired in Hot since it was last written

ghosts == <<allowed, lapsed>>
memoryVars == <<policy, hot, store, queue, overdue, sink, ghosts>>

Entry == [value : Values, expired : BOOLEAN]
NoEntry == [value |-> NoValue, expired |-> FALSE]

TypeOK ==
  /\ policy \in Policies
  /\ hot \in [Keys -> Entry \cup {NoEntry}]
  /\ store \in [Tiers -> [Keys -> Values \cup {NoValue}]]
  /\ queue \in [Keys -> Values \cup {NoValue}]
  /\ overdue \subseteq {k \in Keys : queue[k] # NoValue}
  /\ sink \in [Keys -> [last : Values \cup {NoValue}, all : SUBSET Values]]
  /\ allowed \in [Keys -> SUBSET Values]
  /\ lapsed \subseteq Keys

Class(k) == policy.class[k]
May(fault) == fault \in policy.faults

MemoryInit ==
  /\ policy \in Policies
  /\ hot = [k \in Keys |-> NoEntry]
  /\ store = [t \in Tiers |-> [k \in Keys |-> NoValue]]
  /\ queue = [k \in Keys |-> NoValue]
  /\ overdue = {}
  /\ sink = [k \in Keys |-> [last |-> NoValue, all |-> {}]]
  /\ allowed = [k \in Keys |-> {}]
  /\ lapsed = {}

----------------------------------------------------------------------------
(* Hot *)

Live == {k \in Keys : hot[k] # NoEntry /\ ~hot[k].expired}
Weights == [k \in Live |-> Size[hot[k].value]]
Bytes(ks) == MapThenSumSet(LAMBDA k : Weights[k], ks)

\* purge_expired, and the entries of ks out.
Without(ks) == [k \in Keys |-> IF k \in Live \ ks THEN hot[k] ELSE NoEntry]

Commit(k, v, victims) == [Without(victims) EXCEPT ![k] = [value |-> v, expired |-> FALSE]]

Evictable == {k \in Live : Class(k).priority < Critical}

LowestFirst(ks, from) == \A k \in ks, j \in from \ ks : Class(k).priority <= Class(j).priority

\* Room for v under k once the victims are out.
Fits(k, v, victims) ==
  /\ k \in Live \/ Cardinality(Live) + 1 <= MaxEntries + Cardinality(victims)
  /\ Bytes(Live \ (victims \cup {k})) + Size[v] <= MaxBytes

\* prepare_upsert: victims are added, lowest priority first, until v fits.
VictimSets(k, v) ==
  LET from == Evictable \ {k} IN
  {victims \in SUBSET from :
     /\ LowestFirst(victims, from)
     /\ Fits(k, v, victims)
     /\ victims = {} \/ \E last \in victims : /\ \A j \in victims : Class(j).priority <= Class(last).priority
                                              /\ ~Fits(k, v, victims \ {last})}

----------------------------------------------------------------------------
(* Warm, Cold, Frozen *)

\* A backend that is not configured takes everything and keeps nothing.
Put(s, t, k, v) == IF t \in policy.backends THEN [s EXCEPT ![t][k] = v] ELSE s

Mirrored(k) == Class(k).policy = "cache" /\ Class(k).temperature = "warm"

\* Where an entry goes when it leaves Hot.
Home(k) ==
  CASE Class(k).temperature = "frozen" -> "frozen"
    [] Class(k).policy = "cache" /\ Class(k).temperature = "cold" -> "cold"
    [] Mirrored(k) -> "warm"
    [] OTHER -> "nowhere"

Demoted(ks) ==
  [t \in Tiers |-> [k \in Keys |->
     IF k \in ks /\ Home(k) = t /\ t \in policy.backends THEN hot[k].value ELSE store[t][k]]]

\* demote_or_drop of one victim after another, as far as the first that fails.
DemotionFails(victims, done) ==
  /\ done \subseteq victims
  /\ \E k \in victims \ done : Home(k) \in policy.backends /\ May(Home(k))
  /\ LowestFirst(done, victims)

\* Where a key is found first, in the order of a lookup.
Holding(k) == {t \in Tiers : store[t][k] # NoValue}
Nearest(k) ==
  IF "warm" \in Holding(k) THEN "warm" ELSE IF "cold" \in Holding(k) THEN "cold" ELSE "frozen"

----------------------------------------------------------------------------
(* Deferred writes *)

\* The records of ks reach the file.
Persisted(q, ks) ==
  [k \in Keys |-> IF k \in ks THEN [last |-> q[k], all |-> sink[k].all \cup {q[k]}] ELSE sink[k]]

\* Mistake: the record the sink refused is not put back.
FlushForgets(q, due, batch, written) ==
  LET gone == IF written = batch THEN batch ELSE written \cup {CHOOSE k \in batch \ written : TRUE} IN
  /\ sink' = Persisted(q, written)
  /\ queue' = [k \in Keys |-> IF k \in gone THEN NoValue ELSE q[k]]
  /\ overdue' = (due \cup batch) \ gone

\* take_ready, persist of each, requeue_failed of those that were not written;
\* the one that failed may be in the file all the same.
FlushWrites(q, due, batch, written) ==
  /\ \E landed \in SUBSET batch :
       /\ written \subseteq landed /\ Cardinality(landed \ written) <= 1
       /\ sink' = Persisted(q, landed)
  /\ queue' = [k \in Keys |-> IF k \in written THEN NoValue ELSE q[k]]
  /\ overdue' = (due \cup batch) \ written

Batch(q, due, force) == IF force THEN {k \in Keys : q[k] # NoValue} ELSE due

FlushDone(q, due, force) == FlushWrites(q, due, Batch(q, due, force), Batch(q, due, force))

FlushFails(q, due, force) ==
  LET batch == Batch(q, due, force) IN
  /\ May("sink")
  /\ \E written \in SUBSET batch : written # batch /\ FlushWrites(q, due, batch, written)

Flush(q, due, force) == FlushDone(q, due, force) \/ FlushFails(q, due, force)

----------------------------------------------------------------------------
(* upsert *)

Told(k, v)    == allowed' = [allowed EXCEPT ![k] = {v}] /\ lapsed' = lapsed \ {k}
TriedTo(k, v) == allowed' = [allowed EXCEPT ![k] = @ \cup {v}] /\ lapsed' = lapsed \ {k}

\* CriticalCapacity, HotByteCapacity: nothing changes.
UpsertRefused(k, v) == VictimSets(k, v) = {} /\ UNCHANGED memoryVars

UpsertDemotionFails(k, v) ==
  /\ \E victims \in VictimSets(k, v) : \E done \in SUBSET victims :
       DemotionFails(victims, done) /\ store' = Demoted(done)
  /\ UNCHANGED <<policy, hot, queue, overdue, sink, ghosts>>

\* The end of every upsert that got so far: a copy in Frozen.
Archive(k, v, s) ==
  IF Class(k).temperature # "frozen" THEN store' = s /\ Told(k, v)
  ELSE \/ store' = Put(s, "frozen", k, v) /\ Told(k, v)
       \/ May("frozen") /\ store' = s /\ TriedTo(k, v)

\* immediate, persistent: the sink first.
UpsertImmediate(k, v) ==
  /\ Class(k).policy = "immediate"
  /\ \E victims \in VictimSets(k, v) :
       \/ /\ sink' = Persisted([queue EXCEPT ![k] = v], {k})
          /\ hot' = Commit(k, v, victims)
          /\ Archive(k, v, Demoted(victims))
       \/ /\ May("sink")
          /\ sink' \in {sink, Persisted([queue EXCEPT ![k] = v], {k})}
          /\ store' = Demoted(victims)
          /\ UNCHANGED <<hot, ghosts>>
  /\ UNCHANGED <<policy, queue, overdue>>

\* deferred: Hot, then the queue; a full queue is flushed at once.
UpsertDeferred(k, v) ==
  LET q == [queue EXCEPT ![k] = v]
      force == Cardinality({j \in Keys : q[j] # NoValue}) >= MaxPending IN
  /\ Class(k).policy = "deferred"
  /\ \E victims \in VictimSets(k, v) :
       /\ hot' = Commit(k, v, victims)
       /\ \/ FlushDone(q, overdue \ {k}, force) /\ Archive(k, v, Demoted(victims))
          \/ FlushFails(q, overdue \ {k}, force) /\ store' = Demoted(victims) /\ TriedTo(k, v)
  /\ UNCHANGED policy

\* Mistake: a new value of a mirrored class is not put in Warm.
UpsertUnmirrored(k, v) ==
  /\ Class(k).policy \in {"volatile", "cache"}
  /\ \E victims \in VictimSets(k, v) :
       /\ hot' = Commit(k, v, victims)
       /\ FlushDone(queue, overdue, FALSE)
       /\ Archive(k, v, Demoted(victims))
  /\ UNCHANGED policy

\* volatile, cache: Hot, and Warm when the class is mirrored there.
UpsertBuffered(k, v) ==
  /\ Class(k).policy \in {"volatile", "cache"}
  /\ \E victims \in VictimSets(k, v) :
       LET mirror == IF Mirrored(k) THEN Put(Demoted(victims), "warm", k, v) ELSE Demoted(victims) IN
       /\ hot' = Commit(k, v, victims)
       /\ \/ FlushDone(queue, overdue, FALSE) /\ Archive(k, v, mirror)
          \/ FlushFails(queue, overdue, FALSE) /\ store' = mirror /\ TriedTo(k, v)
          \/ /\ Mirrored(k) /\ "warm" \in policy.backends /\ May("warm")
             /\ store' \in {Demoted(victims), mirror} /\ TriedTo(k, v)
             /\ UNCHANGED <<queue, overdue, sink>>
  /\ UNCHANGED policy

Upsert(k, v) ==
  \/ UpsertRefused(k, v) \/ UpsertDemotionFails(k, v)
  \/ UpsertImmediate(k, v) \/ UpsertDeferred(k, v) \/ UpsertBuffered(k, v)

----------------------------------------------------------------------------
(* get, remove *)

\* hot_upsert of what was found below; it may fail, and the value is returned
\* all the same.
Promote(k, v) ==
  \/ VictimSets(k, v) = {} /\ hot' = Without({}) /\ UNCHANGED store
  \/ \E victims \in VictimSets(k, v) : \E done \in SUBSET victims :
       DemotionFails(victims, done) /\ store' = Demoted(done) /\ hot' = Without({})
  \/ \E victims \in VictimSets(k, v) :
       hot' = Commit(k, v, victims) /\ store' = Demoted(victims)

\* A level that cannot be read is passed over.  The runtime opens a manager
\* without a rebuild hook.
Get(k) ==
  /\ Flush(queue, overdue, FALSE)
  /\ \/ k \in Live /\ hot' = Without({}) /\ UNCHANGED store
     \/ /\ k \notin Live
        /\ IF Holding(k) # {} THEN Promote(k, store[Nearest(k)][k])
                              ELSE hot' = Without({}) /\ UNCHANGED store
     \/ k \notin Live /\ May("read") /\ hot' = Without({}) /\ UNCHANGED store
  /\ UNCHANGED <<policy, ghosts>>

\* From every level; an error of one is not told to the caller.  A deferred
\* write of the key stays in the queue.
RemoveKey(k) ==
  /\ hot' = [hot EXCEPT ![k] = NoEntry]
  /\ \E kept \in SUBSET Holding(k) :
       /\ kept # {} => May("remove")
       /\ store' = [t \in Tiers |-> IF t \in kept THEN store[t] ELSE [store[t] EXCEPT ![k] = NoValue]]
  /\ allowed' = [allowed EXCEPT ![k] = {}] /\ lapsed' = lapsed \ {k}
  /\ UNCHANGED <<policy, queue, overdue, sink>>

----------------------------------------------------------------------------
(* Pressure, maintenance, the end of the run *)

\* notify_pressure, which the limiter repeats: all deferred writes, then one
\* entry out of Hot, or back in it when it cannot be demoted.
Pressure ==
  /\ \/ /\ FlushFails(queue, overdue, TRUE) /\ UNCHANGED <<hot, store>>
     \/ /\ FlushDone(queue, overdue, TRUE)
        /\ IF Evictable = {} THEN hot' = Without({}) /\ UNCHANGED store
           ELSE \E k \in Evictable :
                  /\ LowestFirst({k}, Evictable)
                  /\ \/ hot' = Without({k}) /\ store' = Demoted({k})
                     \/ DemotionFails({k}, {}) /\ hot' = Without({}) /\ UNCHANGED store
  /\ UNCHANGED <<policy, ghosts>>

Demotable == {k \in Evictable : Class(k).policy = "cache" /\ Class(k).temperature # "hot"}

\* poll: deferred writes that are due, then the idle entries, as far as the
\* first that cannot be demoted; that one and the rest go back to Hot.
Poll ==
  /\ FlushDone(queue, overdue, FALSE)
  /\ \E idle \in SUBSET Demotable : \E done \in SUBSET idle :
       /\ done = idle \/ DemotionFails(idle, done)
       /\ store' = Demoted(done)
       /\ hot' = Without(done)
  /\ UNCHANGED <<policy, ghosts>>

Reopen ==
  /\ hot' = [k \in Keys |-> NoEntry]
  /\ queue' = [k \in Keys |-> NoValue] /\ overdue' = {}
  /\ allowed' = [k \in Keys |-> {store[t][k] : t \in Tiers} \cap Values] /\ lapsed' = {}
  /\ UNCHANGED <<policy, store>>

\* The run ends, also because a poll could not flush: Drop flushes what it can.
Close ==
  /\ \E written \in SUBSET {k \in Keys : queue[k] # NoValue} :
       /\ written # {k \in Keys : queue[k] # NoValue} => May("sink")
       /\ sink' = Persisted(queue, written)
  /\ Reopen

\* The process dies.
Crash == Reopen /\ UNCHANGED sink

\* Time.
Expire(k) ==
  /\ Class(k).ttl /\ k \in Live
  /\ hot' = [hot EXCEPT ![k].expired = TRUE]
  /\ lapsed' = lapsed \cup {k}
  /\ UNCHANGED <<policy, store, queue, overdue, sink, allowed>>

FallsDue(k) ==
  /\ queue[k] # NoValue /\ k \notin overdue
  /\ overdue' = overdue \cup {k}
  /\ UNCHANGED <<policy, hot, store, queue, sink, ghosts>>

MemoryNext ==
  \/ \E k \in Keys : \/ Get(k) \/ RemoveKey(k) \/ Expire(k) \/ FallsDue(k)
                     \/ \E v \in Values : Upsert(k, v)
  \/ Pressure \/ Poll \/ Close \/ Crash

MemorySpec == MemoryInit /\ [][MemoryNext]_memoryVars

----------------------------------------------------------------------------
(* Properties *)

\* What get returns.
Visible(k) ==
  IF k \in Live THEN hot[k].value
  ELSE IF Holding(k) # {} THEN store[Nearest(k)][k]
  ELSE NoValue

\* max_entries, max_hot_bytes: whatever is demoted, restored or promoted, what
\* is live in Hot stays within both limits.
EntriesBounded == IsFiniteSet(Live) /\ Cardinality(Live) <= MaxEntries
HotBounded == EntriesBounded /\ Bytes(Live) <= MaxBytes

\* get: no value older than the last one written, through every move between
\* the levels, unless a removal has failed; of a class that goes to Cold only
\* while the entry has not expired in Hot.
ReadsNewest ==
  \A k \in Keys :
    (k \in lapsed => Home(k) # "cold") /\ ~May("remove") =>
      Visible(k) \in allowed[k] \cup {NoValue}

\* Hot keeps its limits and answers with the newest value.
HotServes == HotBounded /\ ReadsNewest

\* demote_or_drop, apply_demotions, promote: a value whose class has a level
\* below Hot is lost in none of its moves, whatever fails.
KeptSomewhere ==
  \A k \in Keys \ lapsed : allowed[k] # {} /\ Home(k) \in policy.backends => Visible(k) # NoValue

\* immediate, persistent: what a reader sees is in the file.
DurableBeforeVisible ==
  \A k \in Live : Class(k).policy = "immediate" => hot[k].value \in sink[k].all

\* deferred: an accepted value is queued, or it is the last one in the file,
\* whatever batch has failed in between.
DeferredNotLost ==
  \A k \in Keys :
    Class(k).policy = "deferred" /\ Home(k) = "nowhere" /\ allowed[k] # {} =>
      queue[k] # NoValue \/ sink[k].last \in allowed[k]

\* No value is lost on its way down, before a reader sees it, or in the queue.
NothingLost == KeptSomewhere /\ DurableBeforeVisible /\ DeferredNotLost

=============================================================================
