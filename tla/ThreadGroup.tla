----------------------------- MODULE ThreadGroup -----------------------------
(***************************************************************************)
(* sync/threadgroup.go: the counter of running calls that every module of  *)
(* the node keeps, and the lock bmu that Add, Flush and Stop take.  Add    *)
(* holds bmu only for a moment; Flush and Stop keep it while they wait for *)
(* the counter to become zero.  The functions registered with OnStop and   *)
(* AfterStop are added in ThreadGroupFunctions.                            *)
(***************************************************************************)
EXTENDS Integers

CONSTANT Nobody   \* the holder of a free lock

VARIABLES
    bmu,      \* the thread that holds tg.bmu
    stopped,  \* tg.stopChan is closed
    wg        \* the counter of tg.wg

tgVars == <<bmu, stopped, wg>>

tgInit == bmu = Nobody /\ stopped = FALSE /\ wg = 0

\* Add returns nil.
Add ==
    /\ bmu = Nobody
    /\ ~stopped
    /\ wg' = wg + 1
    /\ UNCHANGED <<bmu, stopped>>

\* Add, Flush and Stop return ErrStopped.
ErrStopped ==
    /\ bmu = Nobody
    /\ stopped
    /\ UNCHANGED tgVars

Done ==
    /\ wg' = wg - 1
    /\ UNCHANGED <<bmu, stopped>>

\* Stop by thread p, up to the closed channel.
StopBegin(p) ==
    /\ bmu = Nobody
    /\ ~stopped
    /\ bmu' = p
    /\ stopped' = TRUE
    /\ UNCHANGED wg

\* Mutant: Stop does not wait.
WaitNot(p) ==
    /\ bmu = p
    /\ UNCHANGED tgVars

\* tg.wg.Wait() in Stop and in Flush
Wait(p) ==
    /\ bmu = p
    /\ wg = 0
    /\ UNCHANGED tgVars

\* The deferred unlock at the end of Stop and of Flush.
Release(p) ==
    /\ bmu = p
    /\ bmu' = Nobody
    /\ UNCHANGED <<stopped, wg>>

FlushBegin(p) ==
    /\ bmu = Nobody
    /\ ~stopped
    /\ bmu' = p
    /\ UNCHANGED <<stopped, wg>>

=============================================================================
