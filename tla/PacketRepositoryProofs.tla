----------------------- MODULE PacketRepositoryProofs -----------------------
(***************************************************************************)
(* Proofs about PacketRepository, for any numbers of items, contents,      *)
(* flows, engines and administrators.                                      *)
(***************************************************************************)
EXTENDS PacketRepository, SequenceTheorems, TLAPS

\* Every variable stays in its type: the columns hold the values the queries
\* compare, and the engines' memory holds queue ids only.
THEOREM TypeCorrect == Spec => []TypeOK
<1>1. Init => TypeOK
  BY RepositoryAssumption DEF Init, TypeOK, Statuses, Phases, Actors
<1>2. TypeOK /\ [Next]_vars => TypeOK'
  <2> SUFFICES ASSUME TypeOK, [Next]_vars PROVE TypeOK'
    OBVIOUS
  <2> USE RepositoryAssumption
      DEF TypeOK, Statuses, Stored, Events, Phases, Actors, Goto, Record, Leave
  <2>1. ASSUME NEW a \in Actors, OpenSelect(a) PROVE TypeOK'
    BY <2>1 DEF OpenSelect, rowVars, engineVars, Referenced, Rows
  <2>2. ASSUME NEW a \in Actors, OpenList(a) PROVE TypeOK'
    BY <2>2 DEF OpenList, rowVars, engineVars
  <2>3. ASSUME NEW a \in Actors, NEW k \in Keys, OpenRemove(a, k) PROVE TypeOK'
    BY <2>3 DEF OpenRemove, rowVars, engineVars
  <2>21. ASSUME NEW a \in Actors, NEW k \in Keys, OpenRemoveFails(a, k) PROVE TypeOK'
    BY <2>21 DEF OpenRemoveFails, rowVars, engineVars
  <2>4. ASSUME NEW a \in Actors, OpenDone(a) PROVE TypeOK'
    <3>1. UNCHANGED <<status, flow, contentKey, claimedAt, completedAt, errorSet, log, blobs>>
      BY <2>4 DEF OpenDone, rowVars
    <3>2. CASE a \in Engines
      <4>1. /\ pc' = [pc EXCEPT ![a] = "recover"]
            /\ refs' = [refs EXCEPT ![a] = {}]
            /\ todo' = [todo EXCEPT ![a] = {}]
            /\ UNCHANGED <<key, aged, left, queue, running>>
        BY <2>4, <3>2 DEF OpenDone, engineVars
      <4>. QED BY <3>1, <4>1
    <3>3. CASE a \notin Engines
      <4>1. Leave(a)
        BY <2>4, <3>3 DEF OpenDone
      <4>. QED BY <3>1, <4>1
    <3>. QED BY <3>2, <3>3
  <2>5. ASSUME NEW e \in Engines, NEW old \in SUBSET Items, RecoverAbandoned(e, old)
        PROVE TypeOK'
    BY <2>5 DEF RecoverAbandoned, engineVars
  <2>6. ASSUME NEW e \in Engines, LoadPending(e) PROVE TypeOK'
    <3>1. UNCHANGED <<status, flow, contentKey, claimedAt, completedAt, errorSet, log, blobs>>
      BY <2>6 DEF LoadPending, rowVars
    <3>2. CASE \A i \in PendingOf(e) : contentKey[i] \in blobs
      <4>1. /\ pc' = [pc EXCEPT ![e] = "up"]
            /\ queue' = [queue EXCEPT ![e] = PendingOf(e)]
            /\ left' = [left EXCEPT ![e] = {}]
            /\ UNCHANGED <<key, refs, todo, aged, running>>
        BY <2>6, <3>2 DEF LoadPending
      <4>2. PendingOf(e) \in SUBSET Items
        BY DEF PendingOf
      <4>. QED BY <3>1, <4>1, <4>2
    <3>3. CASE ~ \A i \in PendingOf(e) : contentKey[i] \in blobs
      <4>1. Leave(e)
        BY <2>6, <3>3 DEF LoadPending
      <4>. QED BY <3>1, <4>1
    <3>. QED BY <3>2, <3>3
  <2>7. ASSUME NEW e \in Engines, NEW k \in Keys, EnqueuePut(e, k) PROVE TypeOK'
    BY <2>7 DEF EnqueuePut, rowVars, engineVars
  <2>8. ASSUME NEW e \in Engines, NEW i \in Items, EnqueueCommit(e, i) PROVE TypeOK'
    BY <2>8 DEF EnqueueCommit
  <2>9. ASSUME NEW e \in Engines, NEW i \in Items, Claim(e, i) PROVE TypeOK'
    BY <2>9 DEF Claim, actorVars
  <2>10. ASSUME NEW e \in Engines, NEW i \in Items, ClaimLost(e, i) PROVE TypeOK'
    BY <2>10 DEF ClaimLost, rowVars, actorVars
  <2>11. ASSUME NEW e \in Engines, NEW i \in Items, Complete(e, i) \/ Fail(e, i)
         PROVE TypeOK'
    <3>1. PICK to \in Statuses, event \in Events : Close(e, i, to, event)
      BY <2>11 DEF Complete, Fail
    <3>2. /\ running' = [running EXCEPT ![e] = @ \ {i}]
          /\ UNCHANGED <<flow, contentKey, claimedAt, blobs, pc, key, refs, todo, aged, left, queue>>
      BY <3>1 DEF Close, actorVars
    <3>3. CASE status[i] = "RUNNING"
      <4>1. /\ status' = [status EXCEPT ![i] = to]
            /\ completedAt' = [completedAt EXCEPT ![i] = TRUE]
            /\ errorSet' = [errorSet EXCEPT ![i] = (event = "FAILED")]
            /\ log' = [log EXCEPT ![i] = Append(@, event)]
        BY <3>1, <3>3 DEF Close
      <4>2. (event = "FAILED") \in BOOLEAN
        OBVIOUS
      <4>. QED BY <3>2, <4>1, <4>2
    <3>4. CASE status[i] # "RUNNING"
      BY <3>1, <3>2, <3>4 DEF Close
    <3>. QED BY <3>3, <3>4
  <2>12. ASSUME NEW i \in Items, RequeueDeadLetter(i) PROVE TypeOK'
    BY <2>12 DEF RequeueDeadLetter, actorVars, engineVars
  <2>13. ASSUME NEW e \in Engines, NEW old \in SUBSET Items, CleanupSelect(e, old)
         PROVE TypeOK'
    BY <2>13 DEF CleanupSelect, rowVars
  <2>14. ASSUME NEW e \in Engines, NEW more \in SUBSET Items, CleanupDelete(e, more)
         PROVE TypeOK'
    BY <2>14 DEF CleanupDelete, engineVars
  <2>15. ASSUME NEW e \in Engines, NEW k \in Keys, CleanupCount(e, k) PROVE TypeOK'
    <3>1. /\ todo' = [todo EXCEPT ![e] = @ \ {k}]
          /\ UNCHANGED <<status, flow, contentKey, claimedAt, completedAt, errorSet, log, blobs,
                         refs, aged, left, queue, running>>
      BY <2>15 DEF CleanupCount, rowVars, engineVars
    <3>2. \/ UNCHANGED <<pc, key>>
          \/ /\ pc' = [pc EXCEPT ![e] = "unlink"]
             /\ key' = [key EXCEPT ![e] = k]
      BY <2>15 DEF CleanupCount
    <3>3. todo' \in [Actors -> SUBSET (Keys \cup {NoKey})]
      BY <3>1
    <3>4. pc' \in [Actors -> Phases] /\ key' \in [Actors -> Keys \cup {NoKey}]
      <4>1. CASE UNCHANGED <<pc, key>>
        BY <4>1
      <4>2. CASE pc' = [pc EXCEPT ![e] = "unlink"] /\ key' = [key EXCEPT ![e] = k]
        BY <4>2
      <4>. QED BY <3>2, <4>1, <4>2
    <3>. QED BY <3>1, <3>3, <3>4
  <2>16. ASSUME NEW e \in Engines, CleanupUnlink(e) PROVE TypeOK'
    BY <2>16 DEF CleanupUnlink, rowVars, engineVars
  <2>17. ASSUME NEW e \in Engines, CleanupCounted(e) PROVE TypeOK'
    BY <2>17 DEF CleanupCounted, rowVars, engineVars
  <2>18. ASSUME NEW e \in Engines, NEW cut \in [Items -> 0 .. MaxEvents + 3],
                CleanupProvenance(e, cut)
         PROVE TypeOK'
    BY <2>18 DEF CleanupProvenance, rowVars
  <2>19. ASSUME NEW a \in Actors, Crash(a) PROVE TypeOK'
    BY <2>19 DEF Crash, rowVars
  <2>20. CASE UNCHANGED vars
    BY <2>20 DEF vars, rowVars, actorVars, engineVars
  <2>. QED
    BY <2>1, <2>2, <2>3, <2>4, <2>5, <2>6, <2>7, <2>8, <2>9, <2>10, <2>11, <2>12,
       <2>13, <2>14, <2>15, <2>16, <2>17, <2>18, <2>19, <2>20, <2>21
       DEF Next, OpenStep, WorkStep, CleanupStep
<1>. QED
  BY <1>1, <1>2, PTL DEF Spec

----------------------------------------------------------------------------
(* What a step does to the rows and to the provenance. *)

\* The row of a task that was still RUNNING is closed.
Closed(i, to, event) ==
  /\ status[i] = "RUNNING"
  /\ status' = [status EXCEPT ![i] = to]
  /\ completedAt' = [completedAt EXCEPT ![i] = TRUE]
  /\ errorSet' = [errorSet EXCEPT ![i] = (event = "FAILED")]
  /\ log' = [log EXCEPT ![i] = Append(@, event)]
  /\ UNCHANGED <<flow, contentKey, claimedAt>>

\* Only seven kinds of step touch a row or its provenance.
LEMMA RowSteps ==
  ASSUME TypeOK, [Next]_vars
  PROVE  \/ UNCHANGED <<rowVars, log>>
         \/ \E e \in Engines, i \in Items : EnqueueCommit(e, i)
         \/ \E e \in Engines, i \in Items : Claim(e, i)
         \/ \E i \in Items : \/ Closed(i, "COMPLETED", "COMPLETED")
                            \/ Closed(i, "DEAD_LETTER", "FAILED")
         \/ \E i \in Items : RequeueDeadLetter(i)
         \/ \E e \in Engines, old \in SUBSET Items : RecoverAbandoned(e, old)
         \/ \E e \in Engines, more \in SUBSET Items : CleanupDelete(e, more)
         \/ \E e \in Engines, cut \in [Items -> 0 .. MaxEvents + 3] : CleanupProvenance(e, cut)
<1> DEFINE Quiet == UNCHANGED <<rowVars, log>>
<1>1. ASSUME NEW a \in Actors, OpenStep(a) \/ Crash(a) PROVE Quiet
  BY <1>1 DEF OpenStep, OpenSelect, OpenList, OpenRemove, OpenRemoveFails, OpenDone, Crash
<1>2. ASSUME NEW e \in Engines, LoadPending(e) PROVE Quiet
  BY <1>2 DEF LoadPending
<1>3. ASSUME NEW e \in Engines, NEW k \in Keys, EnqueuePut(e, k) PROVE Quiet
  BY <1>3 DEF EnqueuePut
<1>4. ASSUME NEW e \in Engines, NEW i \in Items, ClaimLost(e, i) PROVE Quiet
  BY <1>4 DEF ClaimLost
<1>5. ASSUME NEW e \in Engines, NEW i \in Items, Complete(e, i) \/ Fail(e, i)
      PROVE  Quiet \/ Closed(i, "COMPLETED", "COMPLETED") \/ Closed(i, "DEAD_LETTER", "FAILED")
  <2>1. ASSUME NEW to, NEW event, Close(e, i, to, event) PROVE Quiet \/ Closed(i, to, event)
    BY <2>1 DEF Close, Closed, Record, rowVars
  <2>. QED BY <1>5, <2>1 DEF Complete, Fail
<1>6. ASSUME NEW e \in Engines,
             \/ \E old \in SUBSET Items : CleanupSelect(e, old)
             \/ \E k \in Keys : CleanupCount(e, k)
             \/ CleanupUnlink(e)
             \/ CleanupCounted(e)
      PROVE  Quiet
  BY <1>6 DEF CleanupSelect, CleanupCount, CleanupUnlink, CleanupCounted
<1>7. CASE UNCHANGED vars
  BY <1>7 DEF vars
<1>. QED
  BY <1>1, <1>2, <1>3, <1>4, <1>5, <1>6, <1>7 DEF Next, WorkStep, CleanupStep

----------------------------------------------------------------------------
(* Provenance. *)

\* An event that may follow the last one keeps the ledger in order.
LEMMA AppendKeepsLedger ==
  ASSUME NEW s \in Seq(Events), NEW event \in Events,
         \A n \in 1 .. Len(s) - 1 : s[n + 1] \in After(s[n]),
         s # <<>> => event \in After(s[Len(s)])
  PROVE  LET t == Append(s, event) IN
         /\ \A n \in 1 .. Len(t) - 1 : t[n + 1] \in After(t[n])
         /\ t # <<>>
         /\ t[Len(t)] = event
<1> DEFINE t == Append(s, event)
<1>1. t # <<>> /\ Len(t) = Len(s) + 1 /\ \A n \in 1 .. Len(s) : t[n] = s[n]
  BY AppendProperties
<1>2. t[Len(s) + 1] = event
  BY AppendProperties
<1>3. ASSUME NEW n \in 1 .. Len(t) - 1 PROVE t[n + 1] \in After(t[n])
  <2>1. CASE n = Len(s)
    <3>1. s # <<>> /\ n \in 1 .. Len(s) /\ t[n] = s[Len(s)] /\ t[n + 1] = event
      BY <2>1, <1>1, <1>2, <1>3
    <3>. QED BY <3>1
  <2>2. CASE n < Len(s)
    BY <2>2, <1>1, <1>3
  <2>. QED BY <2>1, <2>2, <1>1, <1>3
<1>4. t[Len(t)] = event
  BY <1>1, <1>2
<1>. QED
  BY <1>1, <1>3, <1>4

\* What retention leaves of a ledger is still in order.
LEMMA SuffixKeepsLedger ==
  ASSUME NEW s \in Seq(Events), NEW c \in Nat, c <= Len(s),
         \A n \in 1 .. Len(s) - 1 : s[n + 1] \in After(s[n])
  PROVE  LET t == SubSeq(s, c + 1, Len(s)) IN
         /\ \A n \in 1 .. Len(t) - 1 : t[n + 1] \in After(t[n])
         /\ t # <<>> => s # <<>> /\ t[Len(t)] = s[Len(s)]
<1> DEFINE t == SubSeq(s, c + 1, Len(s))
<1>1. /\ t \in Seq(Events)
      /\ Len(t) = Len(s) - c
      /\ \A n \in 1 .. Len(s) - c : t[n] = s[c + n]
  OBVIOUS
<1>2. ASSUME NEW n \in 1 .. Len(t) - 1 PROVE t[n + 1] \in After(t[n])
  <2>1. t[n] = s[c + n] /\ t[n + 1] = s[c + n + 1] /\ c + n \in 1 .. Len(s) - 1
    BY <1>1, <1>2
  <2>. QED BY <2>1
<1>3. ASSUME t # <<>> PROVE s # <<>> /\ t[Len(t)] = s[Len(s)]
  <2>1. Len(t) \in Nat /\ Len(t) # 0
    BY <1>1, <1>3, EmptySeq
  <2>2. Len(t) \in 1 .. Len(s) - c /\ Len(s) # 0
    BY <2>1, <1>1
  <2>3. Len(t) = Len(s) - c /\ c + Len(t) = Len(s)
    BY <1>1
  <2>4. t[Len(t)] = s[c + Len(t)]
    BY <1>1, <2>2
  <2>5. s # <<>>
    BY <2>2, EmptySeq
  <2>. QED BY <2>3, <2>4, <2>5
<1>. QED
  BY <1>2, <1>3

\* The part of LedgerAgrees about one item.
ItemLedger(i) ==
  /\ \A n \in 1 .. Len(log[i]) - 1 : log[i][n + 1] \in After(log[i][n])
  /\ log[i] # <<>> => log[i][Len(log[i])] \in Cause(status[i])

\* An item whose row moves with an event that may follow keeps its ledger.
LEMMA RecordKeepsLedger ==
  ASSUME TypeOK, NEW i \in Items, ItemLedger(i), NEW event \in Events,
         log'[i] = Append(log[i], event),
         event \in Cause(status'[i]),
         \A last \in Cause(status[i]) : event \in After(last)
  PROVE  ItemLedger(i)'
<1> DEFINE s == log[i]
           t == Append(s, event)
<1>1. s \in Seq(Events)
  BY DEF TypeOK
<1>2. /\ \A n \in 1 .. Len(s) - 1 : s[n + 1] \in After(s[n])
      /\ s # <<>> => event \in After(s[Len(s)])
  BY DEF ItemLedger
<1>3. /\ \A n \in 1 .. Len(t) - 1 : t[n + 1] \in After(t[n])
      /\ t # <<>>
      /\ t[Len(t)] = event
  <2> HIDE DEF s
  <2>. QED BY <1>1, <1>2, AppendKeepsLedger
<1>4. log'[i] = t
  OBVIOUS
<1>. QED
  BY <1>3, <1>4 DEF ItemLedger

\* Provenance tells the truth about every row, for ever, whatever operations
\* overlap and wherever they are cut off (LedgerAgrees).
THEOREM LedgerCorrect == Spec => []LedgerAgrees
<1>1. Init => LedgerAgrees
  <2> SUFFICES ASSUME Init, NEW i \in Items PROVE ItemLedger(i)
    BY DEF LedgerAgrees, ItemLedger
  <2>1. log[i] = <<>> /\ Len(log[i]) = 0
    BY EmptySeq DEF Init
  <2>. QED BY <2>1 DEF ItemLedger
<1>2. TypeOK /\ LedgerAgrees /\ [Next]_vars => LedgerAgrees'
  <2> SUFFICES ASSUME TypeOK, LedgerAgrees, [Next]_vars, NEW j \in Items
               PROVE  ItemLedger(j)'
    BY DEF LedgerAgrees, ItemLedger
  <2>0. ItemLedger(j)
    BY DEF LedgerAgrees, ItemLedger
  <2>1. ASSUME log'[j] = log[j], status'[j] = status[j] PROVE ItemLedger(j)'
    BY <2>0, <2>1 DEF ItemLedger
  <2>2. CASE UNCHANGED <<rowVars, log>>
    BY <2>1, <2>2 DEF rowVars
  <2>3. ASSUME NEW e \in Engines, NEW i \in Items, EnqueueCommit(e, i)
        PROVE  ItemLedger(j)'
    <3>1. CASE i = j
      <4>1. /\ status[j] = "ABSENT" /\ status'[j] = "PENDING"
            /\ log'[j] = Append(log[j], "ENQUEUED")
        BY <2>3, <3>1 DEF EnqueueCommit, Record, TypeOK
      <4>. QED BY <2>0, <4>1, RecordKeepsLedger DEF Events, Cause, After
    <3>2. CASE i # j
      BY <2>1, <2>3, <3>2 DEF EnqueueCommit, Record, TypeOK
    <3>. QED BY <3>1, <3>2
  <2>4. ASSUME NEW e \in Engines, NEW i \in Items, Claim(e, i)
        PROVE  ItemLedger(j)'
    <3>1. CASE i = j
      <4>1. /\ status[j] = "PENDING" /\ status'[j] = "RUNNING"
            /\ log'[j] = Append(log[j], "CLAIMED")
        BY <2>4, <3>1 DEF Claim, Record, TypeOK
      <4>. QED BY <2>0, <4>1, RecordKeepsLedger DEF Events, Cause, After
    <3>2. CASE i # j
      BY <2>1, <2>4, <3>2 DEF Claim, Record, TypeOK
    <3>. QED BY <3>1, <3>2
  <2>5. ASSUME NEW i \in Items,
               NEW to \in {"COMPLETED", "DEAD_LETTER"}, NEW event \in {"COMPLETED", "FAILED"},
               Closed(i, to, event), event \in Cause(to)
        PROVE  ItemLedger(j)'
    <3>1. CASE i = j
      <4>1. /\ status[j] = "RUNNING" /\ status'[j] = to
            /\ log'[j] = Append(log[j], event)
        BY <2>5, <3>1 DEF Closed, TypeOK
      <4>. QED BY <2>0, <2>5, <4>1, RecordKeepsLedger DEF Events, Cause, After
    <3>2. CASE i # j
      BY <2>1, <2>5, <3>2 DEF Closed, TypeOK
    <3>. QED BY <3>1, <3>2
  <2>6. ASSUME NEW i \in Items, RequeueDeadLetter(i) PROVE ItemLedger(j)'
    <3>1. CASE i = j
      <4>1. /\ status[j] = "DEAD_LETTER" /\ status'[j] = "PENDING"
            /\ log'[j] = Append(log[j], "REQUEUED")
        BY <2>6, <3>1 DEF RequeueDeadLetter, Record, TypeOK
      <4>. QED BY <2>0, <4>1, RecordKeepsLedger DEF Events, Cause, After
    <3>2. CASE i # j
      BY <2>1, <2>6, <3>2 DEF RequeueDeadLetter, Record, TypeOK
    <3>. QED BY <3>1, <3>2
  <2>7. ASSUME NEW e \in Engines, NEW old \in SUBSET Items, RecoverAbandoned(e, old)
        PROVE  ItemLedger(j)'
    <3>1. CASE j \in old
      <4>1. /\ status[j] = "RUNNING" /\ status'[j] = "PENDING"
            /\ log'[j] = Append(log[j], "RECOVERED")
        BY <2>7, <3>1 DEF RecoverAbandoned, Abandoned
      <4>. QED BY <2>0, <4>1, RecordKeepsLedger DEF Events, Cause, After
    <3>2. CASE j \notin old
      BY <2>1, <2>7, <3>2 DEF RecoverAbandoned
    <3>. QED BY <3>1, <3>2
  <2>8. ASSUME NEW e \in Engines, NEW more \in SUBSET Items, CleanupDelete(e, more)
        PROVE  ItemLedger(j)'
    <3>1. log' = log /\ (status'[j] = status[j] \/ (status[j] = "COMPLETED" /\ status'[j] = "DELETED"))
      BY <2>8 DEF CleanupDelete, Finished, TypeOK
    <3>. QED BY <2>0, <3>1 DEF ItemLedger, Cause
  <2>9. ASSUME NEW e \in Engines, NEW cut \in [Items -> 0 .. MaxEvents + 3],
               CleanupProvenance(e, cut)
        PROVE  ItemLedger(j)'
    <3> DEFINE s == log[j]
               t == SubSeq(s, cut[j] + 1, Len(s))
    <3>1. log'[j] = t /\ status' = status /\ cut[j] <= Len(s)
      BY <2>9 DEF CleanupProvenance, rowVars
    <3>2. s \in Seq(Events) /\ cut[j] \in Nat
      BY RepositoryAssumption DEF TypeOK
    <3>3. /\ \A n \in 1 .. Len(s) - 1 : s[n + 1] \in After(s[n])
          /\ s # <<>> => s[Len(s)] \in Cause(status[j])
      BY <2>0 DEF ItemLedger
    <3>4. /\ \A n \in 1 .. Len(t) - 1 : t[n + 1] \in After(t[n])
          /\ t # <<>> => s # <<>> /\ t[Len(t)] = s[Len(s)]
      <4> HIDE DEF s
      <4>. QED BY <3>1, <3>2, <3>3, SuffixKeepsLedger
    <3>. QED BY <3>1, <3>3, <3>4 DEF ItemLedger
  <2>10. "COMPLETED" \in Cause("COMPLETED") /\ "FAILED" \in Cause("DEAD_LETTER")
    BY DEF Cause
  <2>. QED
    BY <2>2, <2>3, <2>4, <2>5, <2>6, <2>7, <2>8, <2>9, <2>10, RowSteps
<1>. QED
  BY <1>1, <1>2, TypeCorrect, PTL DEF Spec

----------------------------------------------------------------------------
(* Columns. *)

\* The columns agree with the status of every row (ColumnsAgree), so that no
\* abandoned row escapes the query of recover_abandoned.
THEOREM ColumnsCorrect == Spec => []ColumnsAgree
<1>1. Init => ColumnsAgree
  BY DEF Init, ColumnsAgree
<1>2. TypeOK /\ ColumnsAgree /\ [Next]_vars => ColumnsAgree'
  <2> SUFFICES ASSUME TypeOK, ColumnsAgree, [Next]_vars PROVE ColumnsAgree'
    OBVIOUS
  <2> USE DEF TypeOK, ColumnsAgree
  <2>1. CASE UNCHANGED <<rowVars, log>>
    BY <2>1 DEF rowVars
  <2>2. ASSUME NEW e \in Engines, NEW i \in Items, EnqueueCommit(e, i)
        PROVE  ColumnsAgree'
    BY <2>2 DEF EnqueueCommit
  <2>3. ASSUME NEW e \in Engines, NEW i \in Items, Claim(e, i)
        PROVE  ColumnsAgree'
    BY <2>3 DEF Claim
  <2>4. ASSUME NEW i \in Items, Closed(i, "COMPLETED", "COMPLETED")
        PROVE  ColumnsAgree'
    BY <2>4 DEF Closed
  <2>5. ASSUME NEW i \in Items, Closed(i, "DEAD_LETTER", "FAILED")
        PROVE  ColumnsAgree'
    BY <2>5 DEF Closed
  <2>6. ASSUME NEW i \in Items, RequeueDeadLetter(i) PROVE ColumnsAgree'
    BY <2>6 DEF RequeueDeadLetter
  <2>7. ASSUME NEW e \in Engines, NEW old \in SUBSET Items, RecoverAbandoned(e, old)
        PROVE  ColumnsAgree'
    BY <2>7 DEF RecoverAbandoned, Abandoned
  <2>8. ASSUME NEW e \in Engines, NEW more \in SUBSET Items, CleanupDelete(e, more)
        PROVE  ColumnsAgree'
    BY <2>8 DEF CleanupDelete, Finished
  <2>9. ASSUME NEW e \in Engines, NEW cut \in [Items -> 0 .. MaxEvents + 3],
               CleanupProvenance(e, cut)
        PROVE  ColumnsAgree'
    BY <2>9 DEF CleanupProvenance, rowVars
  <2>. QED
    BY <2>1, <2>2, <2>3, <2>4, <2>5, <2>6, <2>7, <2>8, <2>9, RowSteps
<1>. QED
  BY <1>1, <1>2, TypeCorrect, PTL DEF Spec

----------------------------------------------------------------------------
(* Refinement. *)

fateOf == [i \in Items |-> Fate(status[i])]

\* The repository implements the abstract queue (ImplementsQueue): crashes,
\* clean-ups and file operations are stutters of it, and each transaction is
\* one of its steps.
THEOREM RepositoryImplementsQueue == Spec => ImplementsQueue
<1>1. Init => Queue!QueueInit
  BY DEF Init, Queue!QueueInit, Fate
<1>2. TypeOK /\ [Next]_vars => [Queue!QueueNext]_fateOf
  <2> SUFFICES ASSUME TypeOK, [Next]_vars
               PROVE  Queue!QueueNext \/ fateOf' = fateOf
    OBVIOUS
  <2> USE DEF TypeOK, fateOf
  <2>1. CASE UNCHANGED <<rowVars, log>>
    BY <2>1 DEF rowVars
  <2>2. ASSUME NEW i \in Items, NEW to \in Statuses, status' = [status EXCEPT ![i] = to]
        PROVE  fateOf' = [fateOf EXCEPT ![i] = Fate(to)]
    BY <2>2
  <2>3. ASSUME NEW e \in Engines, NEW i \in Items, EnqueueCommit(e, i)
        PROVE  Queue!Submit(i)
    <3>1. fateOf' = [fateOf EXCEPT ![i] = Fate("PENDING")]
      BY <2>2, <2>3 DEF EnqueueCommit, Statuses
    <3>. QED BY <2>3, <3>1 DEF EnqueueCommit, Fate, Queue!Submit, Queue!Becomes
  <2>4. ASSUME NEW e \in Engines, NEW i \in Items, Claim(e, i)
        PROVE  Queue!Lease(i)
    <3>1. fateOf' = [fateOf EXCEPT ![i] = Fate("RUNNING")]
      BY <2>2, <2>4 DEF Claim, Statuses
    <3>. QED BY <2>4, <3>1 DEF Claim, Fate, Queue!Lease, Queue!Becomes
  <2>5. ASSUME NEW i \in Items, Closed(i, "COMPLETED", "COMPLETED")
        PROVE  Queue!Finish(i)
    <3>1. fateOf' = [fateOf EXCEPT ![i] = Fate("COMPLETED")]
      BY <2>2, <2>5 DEF Closed, Statuses
    <3>. QED BY <2>5, <3>1 DEF Closed, Fate, Queue!Finish, Queue!Becomes
  <2>6. ASSUME NEW i \in Items, Closed(i, "DEAD_LETTER", "FAILED")
        PROVE  Queue!Bury(i)
    <3>1. fateOf' = [fateOf EXCEPT ![i] = Fate("DEAD_LETTER")]
      BY <2>2, <2>6 DEF Closed, Statuses
    <3>. QED BY <2>6, <3>1 DEF Closed, Fate, Queue!Bury, Queue!Becomes
  <2>7. ASSUME NEW i \in Items, RequeueDeadLetter(i) PROVE Queue!Revive(i)
    <3>1. fateOf' = [fateOf EXCEPT ![i] = Fate("PENDING")]
      BY <2>2, <2>7 DEF RequeueDeadLetter, Statuses
    <3>. QED BY <2>7, <3>1 DEF RequeueDeadLetter, Fate, Queue!Revive, Queue!Becomes
  <2>8. ASSUME NEW e \in Engines, NEW old \in SUBSET Items, RecoverAbandoned(e, old)
        PROVE  Queue!Return(old)
    BY <2>8 DEF RecoverAbandoned, Abandoned, Fate, Queue!Return
  <2>9. ASSUME NEW e \in Engines, NEW more \in SUBSET Items, CleanupDelete(e, more)
        PROVE  fateOf' = fateOf
    BY <2>9 DEF CleanupDelete, Finished, Fate
  <2>10. ASSUME NEW e \in Engines, NEW cut \in [Items -> 0 .. MaxEvents + 3],
                CleanupProvenance(e, cut)
         PROVE  fateOf' = fateOf
    BY <2>10 DEF CleanupProvenance, rowVars
  <2>. QED
    BY <2>1, <2>3, <2>4, <2>5, <2>6, <2>7, <2>8, <2>9, <2>10, RowSteps DEF Queue!QueueNext
<1>. QED
  BY <1>1, <1>2, TypeCorrect, PTL DEF Spec, ImplementsQueue, Queue!QueueSpec, fateOf

----------------------------------------------------------------------------
(* One engine for each flow. *)

OneEnginePerFlow == \A d, e \in Engines : FlowOf[d] = FlowOf[e] => d = e

\* An engine that has not loaded its pending rows yet has nothing in memory:
\* what it recovers cannot be its own work, nor, with one engine for each
\* flow, the work of another.
StartsEmpty ==
  \A e \in Engines :
    pc[e] \in {"down", "list", "sweep", "recover", "load"} => queue[e] = {} /\ running[e] = {}

\* The inductive invariant behind EngineOwnsItsWork.
OwnershipInv == TypeOK /\ EngineOwnsItsWork /\ StartsEmpty

\* StartsEmpty is needed before EngineOwnsItsWork, and depends on it for
\* nothing.
LEMMA StartsEmptyStep ==
  ASSUME TypeOK, StartsEmpty, [Next]_vars
  PROVE  StartsEmpty'
<1> USE DEF TypeOK, StartsEmpty, Goto, Actors
<1>1. ASSUME NEW a \in Actors, Leave(a) PROVE StartsEmpty'
  BY <1>1 DEF Leave
<1>2. ASSUME NEW a \in Actors, OpenSelect(a) \/ OpenList(a) PROVE StartsEmpty'
  BY <1>2 DEF OpenSelect, OpenList, engineVars
<1>3. ASSUME NEW a \in Actors, NEW k \in Keys, OpenRemove(a, k) PROVE StartsEmpty'
  BY <1>3 DEF OpenRemove, engineVars
<1>4. ASSUME NEW a \in Actors, OpenDone(a) PROVE StartsEmpty'
  <2>1. CASE a \in Engines
    BY <1>4, <2>1 DEF OpenDone, engineVars
  <2>2. CASE a \notin Engines
    BY <1>1, <1>4, <2>2 DEF OpenDone
  <2>. QED BY <2>1, <2>2
<1>5. ASSUME NEW a \in Actors, Crash(a) PROVE StartsEmpty'
  BY <1>1, <1>5 DEF Crash
<1>6. ASSUME NEW e \in Engines, NEW old \in SUBSET Items, RecoverAbandoned(e, old)
      PROVE  StartsEmpty'
  BY <1>6 DEF RecoverAbandoned, engineVars
<1>7. ASSUME NEW e \in Engines, LoadPending(e) PROVE StartsEmpty'
  <2>1. CASE Leave(e)
    BY <1>1, <2>1
  <2>2. CASE /\ pc' = [pc EXCEPT ![e] = "up"]
             /\ queue' = [queue EXCEPT ![e] = PendingOf(e)]
             /\ running' = running
    BY <2>2
  <2>. QED BY <1>7, <2>1, <2>2 DEF LoadPending
<1>8. ASSUME NEW e \in Engines, NEW k \in Keys, EnqueuePut(e, k) PROVE StartsEmpty'
  BY <1>8 DEF EnqueuePut, engineVars
<1>9. ASSUME NEW e \in Engines, NEW i \in Items, EnqueueCommit(e, i) PROVE StartsEmpty'
  BY <1>9 DEF EnqueueCommit
<1>10. ASSUME NEW e \in Engines, NEW i \in Items, Claim(e, i) \/ ClaimLost(e, i)
       PROVE  StartsEmpty'
  BY <1>10 DEF Claim, ClaimLost, actorVars
<1>11. ASSUME NEW e \in Engines, NEW i \in Items, Complete(e, i) \/ Fail(e, i)
       PROVE  StartsEmpty'
  BY <1>11 DEF Complete, Fail, Close, actorVars
<1>12. ASSUME NEW i \in Items, RequeueDeadLetter(i) PROVE StartsEmpty'
  BY <1>12 DEF RequeueDeadLetter, actorVars, engineVars
<1>13. ASSUME NEW e \in Engines, NEW old \in SUBSET Items, CleanupSelect(e, old)
       PROVE  StartsEmpty'
  BY <1>13 DEF CleanupSelect
<1>14. ASSUME NEW e \in Engines, NEW more \in SUBSET Items, CleanupDelete(e, more)
       PROVE  StartsEmpty'
  BY <1>14 DEF CleanupDelete, engineVars
<1>15. ASSUME NEW e \in Engines, NEW k \in Keys, CleanupCount(e, k) PROVE StartsEmpty'
  BY <1>15 DEF CleanupCount, engineVars
<1>16. ASSUME NEW e \in Engines, CleanupUnlink(e) \/ CleanupCounted(e) PROVE StartsEmpty'
  BY <1>16 DEF CleanupUnlink, CleanupCounted, engineVars
<1>17. ASSUME NEW e \in Engines, NEW cut \in [Items -> 0 .. MaxEvents + 3],
              CleanupProvenance(e, cut)
       PROVE  StartsEmpty'
  BY <1>1, <1>17 DEF CleanupProvenance
<1>18. ASSUME NEW a \in Actors, NEW k \in Keys, OpenRemoveFails(a, k) PROVE StartsEmpty'
  BY <1>18 DEF OpenRemoveFails, engineVars
<1>19. CASE UNCHANGED vars
  BY <1>19 DEF vars, actorVars, engineVars
<1>. QED
  BY <1>2, <1>3, <1>4, <1>5, <1>6, <1>7, <1>8, <1>9, <1>10, <1>11, <1>12, <1>13, <1>14,
     <1>15, <1>16, <1>17, <1>18, <1>19
     DEF Next, OpenStep, WorkStep, CleanupStep

\* What an engine executes or holds stays its own as long as no flow has two
\* engines (EngineOwnsItsWork): no claim is lost and no result is dropped.
THEOREM OwnershipCorrect ==
  ASSUME OneEnginePerFlow
  PROVE  Spec => []EngineOwnsItsWork
<1>1. Init => EngineOwnsItsWork /\ StartsEmpty
  BY DEF Init, EngineOwnsItsWork, StartsEmpty
<1>2. OwnershipInv /\ [Next]_vars => EngineOwnsItsWork'
  <2> SUFFICES ASSUME TypeOK, EngineOwnsItsWork, StartsEmpty, [Next]_vars
               PROVE  EngineOwnsItsWork'
    BY DEF OwnershipInv
  <2> USE OneEnginePerFlow DEF TypeOK, EngineOwnsItsWork, OneEnginePerFlow, Goto, Actors
  <2>1. ASSUME UNCHANGED <<status, flow>>,
               \A e \in Engines : queue'[e] \subseteq queue[e] /\ running'[e] \subseteq running[e]
        PROVE  EngineOwnsItsWork'
    BY <2>1
  <2>2. ASSUME NEW a \in Actors, Leave(a), UNCHANGED <<status, flow>>
        PROVE  EngineOwnsItsWork'
    BY <2>1, <2>2 DEF Leave
  <2>3. ASSUME NEW a \in Actors, OpenStep(a) PROVE EngineOwnsItsWork'
    <3>1. UNCHANGED <<status, flow>> /\ (Leave(a) \/ UNCHANGED engineVars)
      BY <2>3 DEF OpenStep, OpenSelect, OpenList, OpenRemove, OpenRemoveFails, OpenDone, rowVars, engineVars
    <3>. QED BY <2>1, <2>2, <3>1 DEF engineVars
  <2>4. ASSUME NEW a \in Actors, Crash(a) PROVE EngineOwnsItsWork'
    BY <2>2, <2>4 DEF Crash, rowVars
  <2>5. ASSUME NEW e \in Engines, NEW old \in SUBSET Items, RecoverAbandoned(e, old)
        PROVE  EngineOwnsItsWork'
    \* the recovered rows are of e's flow, and e runs nothing yet
    <3>1. \A d \in Engines : running[d] \cap old = {}
      BY <2>5 DEF RecoverAbandoned, Abandoned, StartsEmpty
    <3>2. \A i \in Items \ old : status'[i] = status[i]
      BY <2>5 DEF RecoverAbandoned
    <3>3. \A i \in old : status[i] = "RUNNING" /\ status'[i] = "PENDING"
      BY <2>5 DEF RecoverAbandoned, Abandoned
    <3>. QED BY <2>5, <3>1, <3>2, <3>3 DEF RecoverAbandoned, engineVars
  <2>6. ASSUME NEW e \in Engines, LoadPending(e) PROVE EngineOwnsItsWork'
    <3>1. UNCHANGED <<status, flow>>
      BY <2>6 DEF LoadPending, rowVars
    <3>2. CASE Leave(e)
      BY <2>2, <3>1, <3>2
    <3>3. CASE queue' = [queue EXCEPT ![e] = PendingOf(e)] /\ running' = running
      BY <3>1, <3>3 DEF PendingOf
    <3>. QED BY <2>6, <3>2, <3>3 DEF LoadPending
  <2>7. ASSUME NEW e \in Engines, NEW k \in Keys, EnqueuePut(e, k) PROVE EngineOwnsItsWork'
    BY <2>1, <2>7 DEF EnqueuePut, rowVars, engineVars
  <2>8. ASSUME NEW e \in Engines, NEW i \in Items, EnqueueCommit(e, i)
        PROVE  EngineOwnsItsWork'
    BY <2>8 DEF EnqueueCommit
  <2>9. ASSUME NEW e \in Engines, NEW i \in Items, Claim(e, i) PROVE EngineOwnsItsWork'
    BY <2>9 DEF Claim
  <2>10. ASSUME NEW e \in Engines, NEW i \in Items, ClaimLost(e, i) PROVE EngineOwnsItsWork'
    BY <2>1, <2>10 DEF ClaimLost, rowVars
  <2>11. ASSUME NEW e \in Engines, NEW i \in Items, Complete(e, i) \/ Fail(e, i)
         PROVE  EngineOwnsItsWork'
    <3>1. /\ running' = [running EXCEPT ![e] = @ \ {i}]
          /\ queue' = queue /\ flow' = flow
          /\ \A j \in Items \ {i} : status'[j] = status[j]
          /\ i \in running[e]
      BY <2>11 DEF Complete, Fail, Close
    <3>2. \A d \in Engines : i \notin queue[d] /\ (i \in running[d] => d = e)
      BY <3>1
    <3>. QED BY <3>1, <3>2
  <2>12. ASSUME NEW i \in Items, RequeueDeadLetter(i) PROVE EngineOwnsItsWork'
    BY <2>12 DEF RequeueDeadLetter, engineVars
  <2>13. ASSUME NEW e \in Engines, NEW old \in SUBSET Items, CleanupSelect(e, old)
         PROVE  EngineOwnsItsWork'
    BY <2>1, <2>13 DEF CleanupSelect, rowVars
  <2>14. ASSUME NEW e \in Engines, NEW more \in SUBSET Items, CleanupDelete(e, more)
         PROVE  EngineOwnsItsWork'
    \* only COMPLETED rows go, and no engine holds one
    BY <2>14 DEF CleanupDelete, Finished, engineVars
  <2>15. ASSUME NEW e \in Engines,
                \/ \E k \in Keys : CleanupCount(e, k)
                \/ CleanupUnlink(e)
                \/ CleanupCounted(e)
         PROVE  EngineOwnsItsWork'
    BY <2>1, <2>15 DEF CleanupCount, CleanupUnlink, CleanupCounted, rowVars, engineVars
  <2>16. ASSUME NEW e \in Engines, NEW cut \in [Items -> 0 .. MaxEvents + 3],
                CleanupProvenance(e, cut)
         PROVE  EngineOwnsItsWork'
    BY <2>2, <2>16 DEF CleanupProvenance, rowVars
  <2>17. CASE UNCHANGED vars
    BY <2>17 DEF vars, rowVars, engineVars
  <2>. QED
    BY <2>3, <2>4, <2>5, <2>6, <2>7, <2>8, <2>9, <2>10, <2>11, <2>12, <2>13, <2>14,
       <2>15, <2>16, <2>17
       DEF Next, WorkStep, CleanupStep
<1>3. TypeOK /\ StartsEmpty /\ [Next]_vars => StartsEmpty'
  BY StartsEmptyStep
<1>. QED
  BY <1>1, <1>2, <1>3, TypeCorrect, PTL DEF Spec, OwnershipInv

\* Two engines never execute the same item: claim is exclusive, and nothing
\* hands a claimed item out again while its engine lives (OneExecutor).
THEOREM ExecutionIsExclusive ==
  ASSUME OneEnginePerFlow
  PROVE  Spec => []OneExecutor
<1>1. TypeOK /\ EngineOwnsItsWork => OneExecutor
  BY OneEnginePerFlow DEF TypeOK, EngineOwnsItsWork, OneExecutor, OneEnginePerFlow
<1>. QED
  BY <1>1, TypeCorrect, OwnershipCorrect, PTL

----------------------------------------------------------------------------
(* One actor alone with the content directory. *)

Alone == \A a, b \in Actors : a = b

\* What the single actor knows about files and rows at each point of an
\* operation it has begun.  ContentPresent is not inductive without the first
\* three parts, OrphansAreTried without the last.
ContentInv ==
  /\ ContentPresent
  /\ \A a \in Actors :
       /\ pc[a] = "commit" => key[a] \in blobs
       /\ pc[a] \in {"list", "sweep"} => refs[a] = Referenced
       /\ pc[a] = "unlink" => key[a] \notin Referenced
       /\ pc[a] = "sweep" => blobs \ refs[a] \subseteq todo[a] \cup left[a]
  /\ OrphansAreTried

\* The keys in use change only by a committed enqueue or a clean-up's DELETE.
LEMMA ReferencedSteps ==
  ASSUME TypeOK, [Next]_vars
  PROVE  \/ Referenced' = Referenced
         \/ \E e \in Engines, i \in Items :
              EnqueueCommit(e, i) /\ Referenced' = Referenced \cup {key[e]}
         \/ \E e \in Engines, more \in SUBSET Items :
              CleanupDelete(e, more) /\ Referenced' \subseteq Referenced
<1> USE DEF TypeOK, Referenced, Rows, Stored
<1>1. CASE UNCHANGED <<rowVars, log>>
  BY <1>1 DEF rowVars
<1>2. ASSUME UNCHANGED contentKey, \A i \in Items : status'[i] \in Stored <=> status[i] \in Stored
      PROVE  Referenced' = Referenced
  BY <1>2
<1>3. ASSUME NEW e \in Engines, NEW i \in Items, EnqueueCommit(e, i)
      PROVE  Referenced' = Referenced \cup {key[e]}
  <2>1. /\ Rows' = Rows \cup {i} /\ i \notin Rows
        /\ contentKey'[i] = key[e]
        /\ \A j \in Rows : contentKey'[j] = contentKey[j]
    BY <1>3 DEF EnqueueCommit
  <2> HIDE DEF Rows
  <2>2. Referenced' = {contentKey'[j] : j \in Rows'} /\ Referenced = {contentKey[j] : j \in Rows}
    BY DEF Referenced
  <2> HIDE DEF Referenced, TypeOK
  <2>3. ASSUME NEW k \in Referenced' PROVE k \in Referenced \cup {key[e]}
    <3>1. PICK j \in Rows' : k = contentKey'[j]
      BY <2>2
    <3>. QED BY <2>1, <2>2, <3>1
  <2>4. ASSUME NEW k \in Referenced PROVE k \in Referenced'
    <3>1. PICK j \in Rows : k = contentKey[j]
      BY <2>2
    <3>2. j \in Rows' /\ k = contentKey'[j]
      BY <2>1, <3>1
    <3>. QED BY <2>2, <3>2
  <2>5. key[e] \in Referenced'
    BY <2>1, <2>2
  <2>. QED BY <2>3, <2>4, <2>5
<1>4. ASSUME NEW e \in Engines, NEW i \in Items, Claim(e, i) PROVE Referenced' = Referenced
  BY <1>2, <1>4 DEF Claim
<1>5. ASSUME NEW i \in Items, NEW to \in Stored, NEW event, Closed(i, to, event)
      PROVE  Referenced' = Referenced
  BY <1>2, <1>5 DEF Closed
<1>6. ASSUME NEW i \in Items, RequeueDeadLetter(i) PROVE Referenced' = Referenced
  BY <1>2, <1>6 DEF RequeueDeadLetter
<1>7. ASSUME NEW e \in Engines, NEW old \in SUBSET Items, RecoverAbandoned(e, old)
      PROVE  Referenced' = Referenced
  BY <1>2, <1>7 DEF RecoverAbandoned, Abandoned
<1>8. ASSUME NEW e \in Engines, NEW more \in SUBSET Items, CleanupDelete(e, more)
      PROVE  Referenced' \subseteq Referenced
  <2>1. \A i \in Items : status'[i] \in Stored =>
          status[i] \in Stored /\ contentKey'[i] = contentKey[i]
    BY <1>8 DEF CleanupDelete, Finished
  <2>. QED BY <2>1
<1>9. ASSUME NEW e \in Engines, NEW cut \in [Items -> 0 .. MaxEvents + 3],
             CleanupProvenance(e, cut)
      PROVE  Referenced' = Referenced
  BY <1>9 DEF CleanupProvenance, rowVars
<1> HIDE DEF Referenced
<1>. QED
  BY <1>1, <1>3, <1>4, <1>5, <1>6, <1>7, <1>8, <1>9, RowSteps

\* Every step of one engine alone keeps contents and rows together.
LEMMA ContentInvStep ==
  ASSUME Alone, TypeOK, ContentInv, [Next]_vars
  PROVE  ContentInv'
<1> USE DEF TypeOK, ContentInv, ContentPresent, OrphansAreTried, Goto, Actors, Phases
<1>0. ASSUME NEW a \in Actors, NEW b \in Actors PROVE a = b
  BY DEF Alone
\* The actor returns or dies: it has no operation in progress.
<1>1. ASSUME NEW a \in Actors, Leave(a), UNCHANGED blobs, Referenced' = Referenced
      PROVE  ContentInv'
  BY <1>0, <1>1 DEF Leave
\* Nothing that the invariant speaks of changes.
<1>2. ASSUME UNCHANGED <<blobs, pc, key, refs, todo, left>>, Referenced' = Referenced
      PROVE  ContentInv'
  BY <1>2
<1>3. ASSUME UNCHANGED rowVars PROVE Referenced' = Referenced
  BY <1>3 DEF Referenced, Rows, rowVars
<1>4. ASSUME NEW a \in Actors, OpenSelect(a) PROVE ContentInv'
  BY <1>0, <1>3, <1>4 DEF OpenSelect
<1>5. ASSUME NEW a \in Actors, OpenList(a) PROVE ContentInv'
  BY <1>0, <1>3, <1>5 DEF OpenList
<1>6. ASSUME NEW a \in Actors, NEW k \in Keys, OpenRemove(a, k) PROVE ContentInv'
  BY <1>0, <1>3, <1>6 DEF OpenRemove
<1>23. ASSUME NEW a \in Actors, NEW k \in Keys, OpenRemoveFails(a, k) PROVE ContentInv'
  BY <1>0, <1>3, <1>23 DEF OpenRemoveFails
<1>7. ASSUME NEW a \in Actors, OpenDone(a) PROVE ContentInv'
  <2>1. UNCHANGED blobs /\ Referenced' = Referenced
    BY <1>3, <1>7 DEF OpenDone
  <2>2. CASE a \in Engines
    <3>1. /\ pc' = [pc EXCEPT ![a] = "recover"]
          /\ pc[a] = "sweep" /\ todo[a] \subseteq refs[a] /\ left' = left
      BY <1>7, <2>2 DEF OpenDone
    <3>2. blobs \subseteq Referenced \cup left[a]
      BY <3>1
    <3>. QED BY <1>0, <2>1, <3>1, <3>2
  <2>3. CASE a \notin Engines
    BY <1>1, <1>7, <2>1, <2>3 DEF OpenDone
  <2>. QED BY <2>2, <2>3
<1>8. ASSUME NEW a \in Actors, Crash(a) PROVE ContentInv'
  BY <1>1, <1>3, <1>8 DEF Crash
<1>9. ASSUME NEW e \in Engines, NEW old \in SUBSET Items, RecoverAbandoned(e, old),
             Referenced' = Referenced
      PROVE  ContentInv'
  BY <1>0, <1>9 DEF RecoverAbandoned
<1>10. ASSUME NEW e \in Engines, LoadPending(e) PROVE ContentInv'
  <2>1. UNCHANGED blobs /\ Referenced' = Referenced
    BY <1>3, <1>10 DEF LoadPending
  <2>2. CASE pc' = [pc EXCEPT ![e] = "up"]
    BY <1>0, <2>1, <2>2
  <2>3. CASE Leave(e)
    BY <1>1, <2>1, <2>3
  <2>. QED BY <1>10, <2>2, <2>3 DEF LoadPending
<1>11. ASSUME NEW e \in Engines, NEW k \in Keys, EnqueuePut(e, k) PROVE ContentInv'
  BY <1>0, <1>3, <1>11 DEF EnqueuePut
<1>12. ASSUME NEW e \in Engines, NEW i \in Items, EnqueueCommit(e, i),
              Referenced' \subseteq Referenced \cup {key[e]}
       PROVE  ContentInv'
  \* the file is there since EnqueuePut, and nobody else removes one
  BY <1>0, <1>12 DEF EnqueueCommit
<1>13. ASSUME NEW e \in Engines, NEW i \in Items,
              Claim(e, i) \/ ClaimLost(e, i) \/ Complete(e, i) \/ Fail(e, i),
              Referenced' = Referenced
       PROVE  ContentInv'
  BY <1>2, <1>13 DEF Claim, ClaimLost, Complete, Fail, Close, actorVars
<1>14. ASSUME NEW i \in Items, RequeueDeadLetter(i), Referenced' = Referenced
       PROVE  ContentInv'
  BY <1>2, <1>14 DEF RequeueDeadLetter, actorVars
<1>15. ASSUME NEW e \in Engines, NEW old \in SUBSET Items, CleanupSelect(e, old)
       PROVE  ContentInv'
  BY <1>0, <1>3, <1>15 DEF CleanupSelect
<1>16. ASSUME NEW e \in Engines, NEW more \in SUBSET Items, CleanupDelete(e, more),
              Referenced' \subseteq Referenced
       PROVE  ContentInv'
  BY <1>0, <1>16 DEF CleanupDelete
<1>17. ASSUME NEW e \in Engines, NEW k \in Keys, CleanupCount(e, k) PROVE ContentInv'
  BY <1>0, <1>3, <1>17 DEF CleanupCount
<1>18. ASSUME NEW e \in Engines, CleanupUnlink(e) PROVE ContentInv'
  BY <1>0, <1>3, <1>18 DEF CleanupUnlink
<1>19. ASSUME NEW e \in Engines, CleanupCounted(e) PROVE ContentInv'
  BY <1>0, <1>3, <1>19 DEF CleanupCounted
<1>20. ASSUME NEW e \in Engines, NEW cut \in [Items -> 0 .. MaxEvents + 3],
              CleanupProvenance(e, cut)
       PROVE  ContentInv'
  BY <1>1, <1>3, <1>20 DEF CleanupProvenance
<1>21. CASE UNCHANGED vars
  BY <1>2, <1>3, <1>21 DEF vars, actorVars
<1>22. CASE Referenced' = Referenced
  BY <1>4, <1>5, <1>6, <1>7, <1>8, <1>9, <1>10, <1>11, <1>12, <1>13, <1>14, <1>15, <1>16,
     <1>17, <1>18, <1>19, <1>20, <1>21, <1>22, <1>23
     DEF Next, OpenStep, WorkStep, CleanupStep
<1>. QED
  BY <1>12, <1>16, <1>22, ReferencedSteps

\* Whoever is alone with the repository (one engine, nobody opening it) never
\* leaves a stored row without its content, whatever is killed in the middle.
THEOREM ContentIsPresent ==
  ASSUME Alone
  PROVE  Spec => []ContentPresent
<1>1. Init => ContentInv
  BY DEF Init, ContentInv, ContentPresent, OrphansAreTried, Referenced, Rows, Stored
<1>2. TypeOK /\ ContentInv /\ [Next]_vars => ContentInv'
  BY ContentInvStep
<1>3. ContentInv => ContentPresent
  BY DEF ContentInv
<1>. QED
  BY <1>1, <1>2, <1>3, TypeCorrect, PTL DEF Spec

\* Alone again, opening the repository tries every file that a crash, or a
\* removal that failed before, left without a row: one that is still there
\* afterwards is one this opening could not remove (OrphansAreTried).
THEOREM OpenTriesOrphans ==
  ASSUME Alone
  PROVE  Spec => []OrphansAreTried
<1>1. Init => ContentInv
  BY DEF Init, ContentInv, ContentPresent, OrphansAreTried, Referenced, Rows, Stored
<1>2. TypeOK /\ ContentInv /\ [Next]_vars => ContentInv'
  BY ContentInvStep
<1>3. ContentInv => OrphansAreTried
  BY DEF ContentInv
<1>. QED
  BY <1>1, <1>2, <1>3, TypeCorrect, PTL DEF Spec

=============================================================================
