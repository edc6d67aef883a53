----------------------------- MODULE OrderedLocks -----------------------------
(* Processes that share mutexes and follow a discipline: a process may wait    *)
(* only for a mutex that ranks above every mutex it holds.  Taking a mutex     *)
(* without waiting for it (ngx_shmtx_trylock) is free of that rule.  This is   *)
(* what keeps the workers of nginx, which take the mutexes of the shared zones *)
(* in nested pairs all over the module, from waiting for one another.          *)
EXTENDS Integers

CONSTANTS
    Processes,
    Mutexes,
    Rank,           \* a number for each mutex
    MaxRank,
    NoProcess,      \* the owner of a free mutex
    NoMutex,        \* what a process wants that waits for nothing
    Dead            \* the owner of a mutex whose owner died

\* What is asked of the constants.
Proper ==
    /\ MaxRank \in Nat
    /\ Rank \in [Mutexes -> 0..MaxRank]
    /\ NoProcess \notin Processes /\ Dead \notin Processes
    /\ NoMutex \notin Mutexes

VARIABLES
    owner,          \* who holds each mutex
    wants           \* the mutex each process waits for

vars == <<owner, wants>>

TypeOK ==
    /\ owner \in [Mutexes -> Processes \union {NoProcess, Dead}]
    /\ wants \in [Processes -> Mutexes \union {NoMutex}]

Above(p, m) == \A h \in Mutexes : owner[h] = p => Rank[h] < Rank[m]

Init ==
    /\ owner = [m \in Mutexes |-> NoProcess]
    /\ wants = [p \in Processes |-> NoMutex]

Take(p, m) ==
    /\ wants[p] = NoMutex
    /\ owner[m] = NoProcess
    /\ owner' = [owner EXCEPT ![m] = p]
    /\ UNCHANGED wants

Wait(p, m) ==
    /\ wants[p] = NoMutex
    /\ Above(p, m)
    /\ wants' = [wants EXCEPT ![p] = m]
    /\ UNCHANGED owner

Obtain(p) ==
    /\ wants[p] # NoMutex
    /\ owner[wants[p]] = NoProcess
    /\ owner' = [owner EXCEPT ![wants[p]] = p]
    /\ wants' = [wants EXCEPT ![p] = NoMutex]

\* Obtain and give back at once: a short section under the mutex.
Use(p) ==
    /\ wants[p] # NoMutex
    /\ owner[wants[p]] = NoProcess
    /\ wants' = [wants EXCEPT ![p] = NoMutex]
    /\ UNCHANGED owner

Release(p, m) ==
    /\ wants[p] = NoMutex
    /\ owner[m] = p
    /\ owner' = [owner EXCEPT ![m] = NoProcess]
    /\ UNCHANGED wants

\* A process dies: each of its mutexes is freed for it or stays taken.
Die(p) ==
    /\ wants' = [wants EXCEPT ![p] = NoMutex]
    /\ owner' \in [Mutexes -> Processes \union {NoProcess, Dead}]
    /\ \A m \in Mutexes :
          owner'[m] # owner[m] => owner[m] = p /\ owner'[m] \in {NoProcess, Dead}

Next ==
    \E p \in Processes :
        \/ Obtain(p)
        \/ Use(p)
        \/ Die(p)
        \/ \E m \in Mutexes : Take(p, m) \/ Wait(p, m) \/ Release(p, m)

Spec == Init /\ [][Next]_vars

-----------------------------------------------------------------------------
(* What a process waits for ranks above what it holds. *)
Ordered ==
    \A p \in Processes, m \in Mutexes :
        wants[p] # NoMutex /\ owner[m] = p => Rank[m] < Rank[wants[p]]

(* No set of processes waits, each of them for a mutex that one of them holds. *)
NoCircularWait ==
    \A S \in (SUBSET Processes) \ {{}} :
        \E p \in S : wants[p] = NoMutex \/ owner[wants[p]] \notin S

=============================================================================
