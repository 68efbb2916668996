-------------------------- MODULE ThreadGroupProofs --------------------------
(***************************************************************************)
(* Stop and Flush return to a module in which nothing runs, for every set  *)
(* of threads: the functions of AfterStop close databases and logs that    *)
(* nobody uses any more.                                                   *)
(***************************************************************************)
EXTENDS ThreadGroupFunctions, FiniteSetTheorems, TLAPS

\* The threads inside are finitely many, and none when the counter is zero.
LEMMA InsideIsFinite ==
  /\ IsFiniteSet(Inside)
  /\ Cardinality(Inside) \in Nat
  /\ Cardinality(Inside) = 0 <=> Inside = {}
  <1>1. Inside \subseteq Threads
    BY DEF Inside, Threads, Registrars
  <1>2. IsFiniteSet(Inside)
    BY <1>1, ThreadsAssumption, FS_Subset
  <1> QED BY <1>2, FS_CardinalityType, FS_EmptySet

\* A thread that does not cross the border leaves the others where they are.
LEMMA SameInside ==
  ASSUME pc \in [Threads -> Labels], NEW t \in Threads, NEW l,
         pc' = [pc EXCEPT ![t] = l],
         t \in Workers \cup Visitors =>
           (pc[t] \in Registering \cup {"visiting"} <=> l \in Registering \cup {"visiting"})
  PROVE  Inside' = Inside
  <1>1. \A u \in Workers \cup Visitors : u \in Threads
    BY DEF Threads, Registrars
  <1>2. \A u \in Workers \cup Visitors : pc'[u] = IF u = t THEN l ELSE pc[u]
    BY <1>1
  <1> QED BY <1>2 DEF Inside

\* The group is empty and running at first.
LEMMA GroupInvInit == Init => GroupInv
  <1> SUFFICES ASSUME Init PROVE GroupInv
    OBVIOUS
  <1>1. Inside = {}
    BY DEF Init, Inside, Registering, Threads, Registrars
  <1>2. wg = Cardinality(Inside)
    BY <1>1, FS_EmptySet DEF Init, tgInit
  <1> QED BY <1>1, <1>2, ThreadsAssumption
          DEF Init, tgInit, GroupInv, AloneAfterWait, StopReturned, Labels, Holding, Stopping

\* A step within a call, by which nobody gets in or out and bmu does not move.
LEMMA Inner ==
  ASSUME GroupInv, NEW t \in Threads, NEW l \in Labels, UNCHANGED tgVars,
         pc' = [pc EXCEPT ![t] = l],
         t \in Workers \cup Visitors =>
           (pc[t] \in Registering \cup {"visiting"} <=> l \in Registering \cup {"visiting"}),
         pc[t] \in Stopping <=> l \in Stopping,
         pc[t] \in {"flushing", "flushed"} <=> l \in {"flushing", "flushed"},
         l \in {"stopAfter", "runningAfter", "flushed"} => Inside = {}
  PROVE  GroupInv'
  <1>1. Inside' = Inside
    BY SameInside DEF GroupInv
  <1>2. pc' \in [Threads -> Labels] /\ \A u \in Threads : pc'[u] = IF u = t THEN l ELSE pc[u]
    BY DEF GroupInv
  <1>3. bmu' = bmu /\ stopped' = stopped /\ wg' = wg
    BY DEF tgVars
  <1>4. AloneAfterWait'
    BY <1>1, <1>2, <1>3 DEF GroupInv, AloneAfterWait, StopReturned
  <1> QED BY <1>1, <1>2, <1>3, <1>4 DEF GroupInv, Holding

\* Every step of the threads keeps the invariant.
LEMMA GroupInvStep == GroupInv /\ [Next]_vars => GroupInv'
  <1> SUFFICES ASSUME GroupInv, [Next]_vars PROVE GroupInv'
    OBVIOUS
  <1>1. CASE UNCHANGED vars
    BY <1>1 DEF vars, tgVars, GroupInv, AloneAfterWait, StopReturned, Inside
  <1>2. ASSUME NEW t \in Threads, Enter(t) PROVE GroupInv'
    <2> DEFINE l == IF t \in Workers THEN "onStop" ELSE "visiting"
    <2>1. /\ bmu = Nobody /\ bmu' = bmu /\ ~stopped /\ stopped' = stopped
          /\ wg' = wg + 1 /\ pc[t] = "out" /\ pc' = [pc EXCEPT ![t] = l]
          /\ t \in Workers \cup Visitors
      BY <1>2 DEF Enter, Add, Goto
    <2>2. t \notin Inside /\ Inside' = Inside \cup {t}
      <3>1. \A u \in Workers \cup Visitors : pc'[u] = IF u = t THEN l ELSE pc[u]
        BY <2>1 DEF GroupInv, Threads, Registrars
      <3> QED BY <2>1, <3>1 DEF Inside, Registering
    <2>3. wg' = Cardinality(Inside')
      BY <2>1, <2>2, InsideIsFinite, FS_AddElement DEF GroupInv
    <2>4. \A u \in Threads : pc[u] \notin Holding
      BY <2>1, ThreadsAssumption DEF GroupInv
    <2>5. pc' \in [Threads -> Labels] /\ \A u \in Threads : pc'[u] \notin Holding
      BY <2>1, <2>4 DEF GroupInv, Labels, Holding, Stopping, Registering
    <2> QED BY <2>1, <2>3, <2>5, ThreadsAssumption
            DEF GroupInv, AloneAfterWait, StopReturned, Holding, Stopping
  <1>3. ASSUME NEW t \in Threads, Leave(t) PROVE GroupInv'
    <2>1. /\ bmu' = bmu /\ stopped' = stopped /\ wg' = wg - 1
          /\ t \in Workers \cup Visitors /\ pc[t] \in {"visiting", "working"}
          /\ \E l \in {"out", "gone"} : pc' = [pc EXCEPT ![t] = l]
      BY <1>3 DEF Leave, Done, Goto
    <2>2. t \in Inside /\ Inside' = Inside \ {t}
      <3>1. PICK l \in {"out", "gone"} :
              \A u \in Workers \cup Visitors : pc'[u] = IF u = t THEN l ELSE pc[u]
        BY <2>1 DEF GroupInv, Threads, Registrars
      <3> QED BY <2>1, <3>1 DEF Inside, Registering
    <2>3. wg' = Cardinality(Inside')
      BY <2>1, <2>2, InsideIsFinite, FS_RemoveElement DEF GroupInv
    <2>4. /\ pc' \in [Threads -> Labels]
          /\ \A u \in Threads : pc'[u] \in Holding \cup Stopping => pc'[u] = pc[u]
          /\ \A u \in Threads : pc[u] \in Holding \cup Stopping => pc'[u] = pc[u]
      BY <2>1 DEF GroupInv, Labels, Holding, Stopping
    <2>5. AloneAfterWait'
      BY <2>1, <2>2, <2>4 DEF GroupInv, AloneAfterWait, StopReturned, Holding, Stopping
    <2> QED BY <2>1, <2>3, <2>4, <2>5 DEF GroupInv, Holding
  <1>4. ASSUME NEW t \in Threads, Refused(t) PROVE GroupInv'
    BY <1>4, Inner DEF Refused, ErrStopped, Goto, Labels, Holding, Stopping, Registering
  <1>5. ASSUME NEW t \in Threads, StopClose(t) \/ Flush(t) PROVE GroupInv'
    <2>1. /\ bmu = Nobody /\ bmu' = t /\ ~stopped /\ stopped' \in BOOLEAN /\ wg' = wg
          /\ pc[t] = "out"
          /\ \/ stopped' = TRUE /\ pc' = [pc EXCEPT ![t] = "stopOn"]
             \/ stopped' = FALSE /\ pc' = [pc EXCEPT ![t] = "flushing"]
      BY <1>5 DEF GroupInv, StopClose, StopBegin, Flush, FlushBegin, Goto
    <2>2. Inside' = Inside
      BY <2>1, SameInside DEF GroupInv, Registering
    <2>3. \A u \in Threads : pc[u] \notin Holding
      BY <2>1, ThreadsAssumption DEF GroupInv
    <2>4. /\ pc' \in [Threads -> Labels]
          /\ \A u \in Threads \ {t} : pc'[u] \notin Holding
          /\ pc'[t] = IF stopped' THEN "stopOn" ELSE "flushing"
      BY <2>1, <2>3 DEF GroupInv, Labels, Stopping
    <2> QED BY <2>1, <2>2, <2>4, ThreadsAssumption
            DEF GroupInv, AloneAfterWait, StopReturned, Holding, Stopping
  <1>6. ASSUME NEW t \in Threads, StopWait(t) \/ FlushWait(t) PROVE GroupInv'
    <2>1. wg = 0 /\ UNCHANGED tgVars
      BY <1>6 DEF StopWait, FlushWait, Wait
    <2>2. Inside = {}
      BY <2>1, InsideIsFinite DEF GroupInv
    <2> QED BY <1>6, <2>1, <2>2, Inner
            DEF StopWait, FlushWait, Goto, Labels, Stopping, Registering
  <1>7. ASSUME NEW t \in Threads, StopReturn(t) \/ FlushReturn(t) PROVE GroupInv'
    <2>1. /\ bmu = t /\ bmu' = Nobody /\ stopped' = stopped /\ wg' = wg
          /\ pc[t] \in {"runningAfter", "flushed"}
          /\ \E l \in {"gone", "out"} : pc' = [pc EXCEPT ![t] = l]
      BY <1>7 DEF StopReturn, FlushReturn, Release, Goto
    <2>2. Inside' = Inside /\ Inside = {}
      BY <2>1, SameInside DEF GroupInv, AloneAfterWait, Registering
    <2>3. /\ pc' \in [Threads -> Labels]
          /\ \A u \in Threads : pc'[u] \notin Holding
      BY <2>1 DEF GroupInv, Labels, Holding, Stopping
    <2> QED BY <2>1, <2>2, <2>3, ThreadsAssumption
            DEF GroupInv, AloneAfterWait, StopReturned, Holding, Stopping
  <1>8. ASSUME NEW t \in Threads, t \in Registrars,
               OnStopLock(t) \/ OnStop(t) \/ AfterStopLock(t) \/ AfterStop(t)
        PROVE  GroupInv'
    <2>1. UNCHANGED tgVars /\ pc[t] \in Registering
      BY <1>8 DEF OnStopLock, OnStop, AfterStopLock, AfterStop, Goto, Registering
    <2>2. PICK l \in Registering \cup {"gone"} :
            pc' = [pc EXCEPT ![t] = l] /\ (t \in Workers => l \in Registering)
      BY <1>8 DEF OnStopLock, OnStop, AfterStopLock, AfterStop, Registered, Goto, Registering
    <2>3. /\ (Registering \cup {"gone"}) \cap (Holding \cup Stopping) = {}
          /\ Registering \cup {"gone"} \subseteq Labels
      BY DEF Registering, Holding, Stopping, Labels
    <2>4. t \notin Visitors
      BY <1>8, ThreadsAssumption DEF Registrars
    <2> QED BY <2>1, <2>2, <2>3, <2>4, Inner DEF Holding, Stopping
  <1>9. ASSUME NEW t \in Threads, StopOnLock(t) \/ StopOnDone(t) \/ StopAfterLock(t)
        PROVE  GroupInv'
    <2>1. UNCHANGED tgVars
      BY <1>9 DEF StopOnLock, StopOnDone, StopAfterLock
    <2>2. \/ pc[t] = "stopOn" /\ pc' = [pc EXCEPT ![t] = "runningOn"]
          \/ pc[t] = "runningOn" /\ pc' = [pc EXCEPT ![t] = "waiting"]
          \/ /\ pc[t] = "stopAfter" /\ pc' = [pc EXCEPT ![t] = "runningAfter"]
             /\ Inside = {}
      BY <1>9 DEF StopOnLock, StopOnDone, StopAfterLock, Goto, GroupInv, AloneAfterWait
    <2>3. PICK l \in Stopping : /\ pc[t] \in Stopping /\ pc' = [pc EXCEPT ![t] = l]
                                /\ l \in {"stopAfter", "runningAfter"} => Inside = {}
      BY <2>2 DEF Stopping
    <2>4. /\ Stopping \subseteq Labels
          /\ Stopping \cap (Registering \cup {"visiting", "flushing", "flushed"}) = {}
      BY DEF Labels, Stopping, Registering
    <2> QED BY <2>1, <2>3, <2>4, Inner
  <1>10. ASSUME NEW t \in Threads, StopRunOn(t) \/ StopRunAfter(t) PROVE GroupInv'
    <2>1. pc' = pc /\ bmu' = bmu /\ stopped' = stopped /\ wg' = wg
      BY <1>10 DEF StopRunOn, StopRunAfter, tgVars
    <2> QED BY <2>1 DEF GroupInv, AloneAfterWait, StopReturned, Inside
  <1>11. ASSUME NEW t \in Threads, Open(t) PROVE GroupInv'
    <2>1. UNCHANGED tgVars /\ pc[t] = "out" /\ pc' = [pc EXCEPT ![t] = "onStop"]
      BY <1>11 DEF Open, Goto
    <2>2. t \notin Workers \cup Visitors
      BY <1>11, ThreadsAssumption DEF Open
    <2> QED BY <2>1, <2>2, Inner DEF Labels, Stopping, Registering
  <1> QED BY <1>1, <1>2, <1>3, <1>4, <1>5, <1>6, <1>7, <1>8, <1>9, <1>10, <1>11 DEF Next, Proceed

\* The invariant holds for every number of workers, visitors, stoppers and
\* flushers, whatever they do with the group.
THEOREM GroupInvHolds == Spec => []GroupInv
  <1>1. Init => GroupInv
    BY GroupInvInit
  <1>2. GroupInv /\ [Next]_vars => GroupInv'
    BY GroupInvStep
  <1> QED BY <1>1, <1>2, PTL DEF Spec

\* When Stop runs the functions of AfterStop, when Flush returns, and for ever
\* after a Stop, no thread is between its Add and its Done.
THEOREM NobodyIsInside == Spec => []AloneAfterWait
  <1>1. GroupInv => AloneAfterWait
    BY DEF GroupInv
  <1> QED BY <1>1, GroupInvHolds, PTL

=============================================================================
