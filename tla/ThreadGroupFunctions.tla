------------------------- MODULE ThreadGroupFunctions -------------------------
(***************************************************************************)
(* A ThreadGroup in use.  A worker is a long running thread as the modules *)
(* start them: it calls Add, registers with OnStop the function that tells *)
(* it to leave and with AfterStop the one that closes its resource, runs   *)
(* until it is told to leave, and calls Done.  An opener registers its     *)
(* functions without being counted, like the constructors of the modules.  *)
(* A visitor is a call that is counted while it runs.  Stoppers and        *)
(* flushers call Stop and Flush.                                           *)
(***************************************************************************)
EXTENDS ThreadGroup, Sequences, SequencesExt, FiniteSets

CONSTANTS Workers, Openers, Visitors, Stoppers, Flushers

Registrars == Workers \cup Openers
Threads == Registrars \cup Visitors \cup Stoppers \cup Flushers

ASSUME ThreadsAssumption ==
    /\ IsFiniteSet(Threads)
    /\ Nobody \notin Threads
    /\ Workers \cap (Openers \cup Visitors \cup Stoppers \cup Flushers) = {}
    /\ Openers \cap (Visitors \cup Stoppers \cup Flushers) = {}
    /\ Visitors \cap (Stoppers \cup Flushers) = {}
    /\ Stoppers \cap Flushers = {}

VARIABLES
    mu,            \* the thread that holds tg.mu
    onStopFns,     \* the threads whose functions are registered
    afterStopFns,
    ran,           \* <<"on", w>> and <<"after", w>>, in the order they ran
    pc

vars == <<tgVars, mu, onStopFns, afterStopFns, ran, pc>>

Init ==
    /\ tgInit
    /\ mu = Nobody
    /\ onStopFns = <<>>
    /\ afterStopFns = <<>>
    /\ ran = <<>>
    /\ pc = [t \in Threads |-> "out"]

\* Thread t goes from one point of its code to another.
Goto(t, from, to) == pc[t] = from /\ pc' = [pc EXCEPT ![t] = to]

RunOn(w) == ran' = Append(ran, <<"on", w>>)
RunAfter(w) == ran' = Append(ran, <<"after", w>>)
HasRun(kind, w) == Contains(ran, <<kind, w>>)

fnVars == <<mu, onStopFns, afterStopFns, ran>>

----------------------------------------------------------------------------
(* Add and Done. *)

Enter(t) ==
    /\ t \in Workers \cup Visitors
    /\ Goto(t, "out", IF t \in Workers THEN "onStop" ELSE "visiting")
    /\ Add
    /\ UNCHANGED fnVars

\* An opener begins to register its functions.
Open(t) ==
    /\ t \in Openers
    /\ Goto(t, "out", "onStop")
    /\ UNCHANGED <<tgVars, fnVars>>

\* Add, Stop or Flush returned ErrStopped; the thread gives up.
Refused(t) ==
    /\ t \notin Openers
    /\ Goto(t, "out", "gone")
    /\ ErrStopped
    /\ UNCHANGED fnVars

\* A visitor may come back, a worker leaves for good when it has been told.
Leave(t) ==
    /\ \/ t \in Visitors /\ Goto(t, "visiting", "out")
       \/ t \in Workers /\ HasRun("on", t) /\ Goto(t, "working", "gone")
    /\ Done
    /\ UNCHANGED fnVars

----------------------------------------------------------------------------
(* OnStop and AfterStop, called by a worker or an opener: the lock mu is   *)
(* held from the look at the stop channel to the end, but Stop closes the  *)
(* channel without it.                                                     *)

OnStopLock(w) ==
    /\ Goto(w, "onStop", IF stopped THEN "runOn" ELSE "appendOn")
    /\ mu = Nobody
    /\ mu' = w
    /\ UNCHANGED <<tgVars, onStopFns, afterStopFns, ran>>

OnStop(w) ==
    /\ \/ /\ Goto(w, "runOn", "afterStop")
          /\ RunOn(w)
          /\ UNCHANGED onStopFns
       \/ /\ Goto(w, "appendOn", "afterStop")
          /\ onStopFns' = Append(onStopFns, w)
          /\ UNCHANGED ran
    /\ mu' = Nobody
    /\ UNCHANGED <<tgVars, afterStopFns>>

\* Mutant: the lock is taken after the look at the channel.
AfterStopLockLate(w) ==
    /\ Goto(w, "afterStop", IF stopped THEN "runAfter" ELSE "appendAfter")
    /\ UNCHANGED <<tgVars, fnVars>>

AfterStopLock(w) ==
    /\ Goto(w, "afterStop", IF stopped THEN "runAfter" ELSE "appendAfter")
    /\ mu = Nobody
    /\ mu' = w
    /\ UNCHANGED <<tgVars, onStopFns, afterStopFns, ran>>

\* What a thread does with its functions registered.
Registered(w) == IF w \in Workers THEN "working" ELSE "gone"

AfterStop(w) ==
    /\ \/ /\ Goto(w, "runAfter", Registered(w))
          /\ RunAfter(w)
          /\ UNCHANGED afterStopFns
       \/ /\ Goto(w, "appendAfter", Registered(w))
          /\ afterStopFns' = Append(afterStopFns, w)
          /\ UNCHANGED ran
    /\ mu' = Nobody
    /\ UNCHANGED <<tgVars, onStopFns>>

----------------------------------------------------------------------------
(* Stop and Flush. *)

StopClose(s) ==
    /\ s \in Stoppers
    /\ Goto(s, "out", "stopOn")
    /\ StopBegin(s)
    /\ UNCHANGED fnVars

\* The functions of OnStop, last one first, with mu held.
StopOnLock(s) ==
    /\ Goto(s, "stopOn", "runningOn")
    /\ mu = Nobody
    /\ mu' = s
    /\ UNCHANGED <<tgVars, onStopFns, afterStopFns, ran>>

StopRunOn(s) ==
    /\ pc[s] = "runningOn"
    /\ onStopFns # <<>>
    /\ RunOn(Last(onStopFns))
    /\ onStopFns' = Front(onStopFns)
    /\ UNCHANGED <<tgVars, mu, afterStopFns, pc>>

\* Mutant: mu is kept while Stop waits.
StopOnDoneLocked(s) ==
    /\ Goto(s, "runningOn", "waiting")
    /\ onStopFns = <<>>
    /\ UNCHANGED <<tgVars, mu, onStopFns, afterStopFns, ran>>

StopOnDone(s) ==
    /\ Goto(s, "runningOn", "waiting")
    /\ onStopFns = <<>>
    /\ mu' = Nobody
    /\ UNCHANGED <<tgVars, onStopFns, afterStopFns, ran>>

StopWait(s) ==
    /\ Goto(s, "waiting", "stopAfter")
    /\ Wait(s)
    /\ UNCHANGED fnVars

\* The functions of AfterStop, last one first, with mu held.
StopAfterLock(s) ==
    /\ Goto(s, "stopAfter", "runningAfter")
    /\ mu = Nobody
    /\ mu' = s
    /\ UNCHANGED <<tgVars, onStopFns, afterStopFns, ran>>

StopRunAfter(s) ==
    /\ pc[s] = "runningAfter"
    /\ afterStopFns # <<>>
    /\ RunAfter(Last(afterStopFns))
    /\ afterStopFns' = Front(afterStopFns)
    /\ UNCHANGED <<tgVars, mu, onStopFns, pc>>

StopReturn(s) ==
    /\ Goto(s, "runningAfter", "gone")
    /\ afterStopFns = <<>>
    /\ mu' = Nobody
    /\ Release(s)
    /\ UNCHANGED <<onStopFns, afterStopFns, ran>>

Flush(f) ==
    /\ f \in Flushers
    /\ Goto(f, "out", "flushing")
    /\ FlushBegin(f)
    /\ UNCHANGED fnVars

FlushWait(f) ==
    /\ Goto(f, "flushing", "flushed")
    /\ Wait(f)
    /\ UNCHANGED fnVars

FlushReturn(f) ==
    /\ Goto(f, "flushed", "out")
    /\ Release(f)
    /\ UNCHANGED fnVars

----------------------------------------------------------------------------
(* The specification. *)

\* A step of a thread that is inside a call of the ThreadGroup.
Proceed(t) ==
    \/ t \in Registrars /\ (OnStopLock(t) \/ OnStop(t) \/ AfterStopLock(t) \/ AfterStop(t))
    \/ StopOnLock(t) \/ StopRunOn(t) \/ StopOnDone(t) \/ StopWait(t)
    \/ StopAfterLock(t) \/ StopRunAfter(t) \/ StopReturn(t)
    \/ FlushWait(t) \/ FlushReturn(t)

Next ==
    \E t \in Threads :
        \/ Enter(t)
        \/ Open(t)
        \/ Refused(t)
        \/ Leave(t)
        \/ StopClose(t)
        \/ Flush(t)
        \/ Proceed(t)

Spec == Init /\ [][Next]_vars

\* A call that can go on goes on, what is counted ends once it has been told
\* to, and a Go mutex that is free again and again is not withheld for ever
\* (it is handed to a waiter that starves).
FairSpec ==
    /\ Spec
    /\ \A t \in Threads : WF_vars(Leave(t)) /\ SF_vars(Proceed(t))

----------------------------------------------------------------------------
(* Properties. *)

Registering ==
    {"onStop", "runOn", "appendOn", "afterStop", "runAfter", "appendAfter", "working"}
Inside == {t \in Workers \cup Visitors : pc[t] \in Registering \cup {"visiting"}}

Stopping == {"stopOn", "runningOn", "waiting", "stopAfter", "runningAfter"}

Labels == {"out", "gone", "visiting", "flushing", "flushed"} \cup Registering \cup Stopping

\* Where a thread holds bmu.
Holding == Stopping \cup {"flushing", "flushed"}

StopReturned == stopped /\ bmu = Nobody

\* Once wg.Wait has returned to Stop or to Flush nobody is inside, and nobody
\* gets inside before the lock is released: the functions of AfterStop, which
\* close databases and logs, run alone.  After a stop nobody ever gets inside.
AloneAfterWait ==
    /\ \A t \in Threads : pc[t] \in {"stopAfter", "runningAfter", "flushed"} => Inside = {}
    /\ StopReturned => Inside = {}

\* The inductive invariant behind it: the counter counts, bmu is held exactly by
\* the thread that is in Stop or Flush, and the channel is closed by Stop only.
GroupInv ==
    /\ pc \in [Threads -> Labels]
    /\ stopped \in BOOLEAN
    /\ wg = Cardinality(Inside)
    /\ \A t \in Threads : bmu = t <=> pc[t] \in Holding
    /\ \A t \in Threads : pc[t] \in Stopping => stopped
    /\ \A t \in Threads : pc[t] \in {"flushing", "flushed"} => ~stopped
    /\ AloneAfterWait

\* Every function is run exactly once, whenever it was registered and whether
\* Stop finds it in its list or OnStop and AfterStop find the group stopped and
\* run it themselves: when Stop has returned its lists are empty, the resource
\* of every worker that was told to leave is closed, and so is that of every
\* opener, also of one that came later.
FunctionsRunOnce ==
    /\ \A i, j \in DOMAIN ran : ran[i] = ran[j] => i = j
    /\ StopReturned =>
         /\ onStopFns = <<>> /\ afterStopFns = <<>>
         /\ \A w \in Workers : HasRun("on", w) <=> HasRun("after", w)
         /\ \A o \in Openers : pc[o] = "gone" => HasRun("on", o) /\ HasRun("after", o)

\* Stop returns, also when workers are still registering their functions, as
\* they are told to leave in one way or the other; and so does Flush, as long
\* as nobody is inside who leaves only when told to.
StopReturns ==
    /\ \A s \in Stoppers : pc[s] = "stopOn" ~> pc[s] = "gone"
    /\ \A f \in Flushers : pc[f] = "flushing" /\ Workers \cap Inside = {} ~> pc[f] = "out"

=============================================================================
