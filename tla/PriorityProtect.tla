--------------------------- MODULE PriorityProtect --------------------------
(***************************************************************************)
(* Mutexes with a priority ceiling (PTHREAD_PRIO_PROTECT): the PP cases of *)
(* mutex_lock.c, mutex_trylock.c and mutex_unlock.c and the book-keeping   *)
(* of tpp.c that gives a thread the largest ceiling it holds.              *)
(*                                                                         *)
(* tpp.c works on data of the calling thread, so a call of it is part of   *)
(* the action it occurs in; each access to a lock word is an action of its *)
(* own.  The ceiling bits of the word never change: pthread_mutex_set-     *)
(* prioceiling of the C library gets the nominal mutex and refuses it.  So *)
(* the outer loops, which begin again after a change, run once.            *)
(***************************************************************************)
EXTENDS Integers, FiniteSets, FiniteSetsExt

CONSTANTS
    Threads, Mutexes,
    Kind,               \* the kind of each mutex
    Ceiling,            \* its ceiling, 0 where the attribute sets none
    Base,               \* the priority of each thread, 0 if it is not real-time
    MinPrio, MaxPrio,   \* the range of SCHED_FIFO
    MapMod,             \* 2^32 in the code: width of priomap
    CountMod,           \* 2^32 in the code: width of __count
    Failing,            \* the calls of the system that may fail
    Nobody              \* owner 0

Prios == MinPrio .. MaxPrio
Kinds == {"normal", "recursive", "errorcheck"}

ASSUME PriosAssumption == MinPrio \in Nat \ {0} /\ MaxPrio \in Nat /\ MinPrio <= MaxPrio
ASSUME MutexesAssumption == /\ Kind \in [Mutexes -> Kinds]
                            /\ Ceiling \in [Mutexes -> Prios \cup {0}]
ASSUME ThreadsAssumption == Base \in [Threads -> Prios \cup {0}] /\ Nobody \notin Threads
ASSUME WidthsAssumption == MapMod \in Nat \ {0, 1} /\ CountMod \in Nat \ {0, 1}
ASSUME FailingAssumption ==
    Failing \subseteq {"calloc", "getparam", "getscheduler", "setscheduler"}

VARIABLES
    lock,       \* low bits of __lock: 0 free, 1 taken, 2 taken and waited for
    owner, count, nusers,
    sched,      \* what tpp.c keeps of each thread, and its priority in the kernel
    th,         \* where each thread is and the mutex of its call
    held,       \* the mutexes each thread got and has not given back
    aborted     \* an assertion has failed

mutexVars == <<lock, owner, count, nusers>>
vars == <<mutexVars, sched, th, held, aborted>>

(***************************************************************************)
(* Where a thread is:                                                      *)
(*   user      not in a call                                               *)
(*   cas       lock, before the first compare-and-exchange                 *)
(*   announce  before the one of 1 by 2                                    *)
(*   wait      before FUTEX_WAIT                                           *)
(*   asleep    in FUTEX_WAIT                                               *)
(*   retry     before the one of 0 by 2                                    *)
(*   try       trylock, before its compare-and-exchange                    *)
(*   won       has the lock word                                           *)
(*   release   unlock, before the lock word is given back                  *)
(*   wake      before FUTEX_WAKE                                           *)
(*   lower     before the priority is lowered                              *)
(***************************************************************************)
AtUser == [at |-> "user", m |-> Nobody]

Init ==
    /\ lock = [m \in Mutexes |-> 0]
    /\ owner = [m \in Mutexes |-> Nobody]
    /\ count = [m \in Mutexes |-> 0]
    /\ nusers = [m \in Mutexes |-> 0]
    /\ sched = [t \in Threads |->
                  [tpp |-> FALSE, priomax |-> 0, priomap |-> [p \in Prios |-> 0],
                   schedSet |-> FALSE, policySet |-> FALSE, param |-> 0,
                   prio |-> Base[t], refused |-> FALSE]]
    /\ th = [t \in Threads |-> AtUser]
    /\ held = [t \in Threads |-> {}]
    /\ aborted = FALSE

-----------------------------------------------------------------------------
(***************************************************************************)
(* tpp.c.  Each operator maps the data s of a thread to the set of results *)
(* <<data afterwards, value returned>> that the system calls allow.        *)
(***************************************************************************)
None == -1

MayFail(call) == IF call \in Failing THEN BOOLEAN ELSE {FALSE}

\* sched_getparam and sched_getscheduler, for what is not known yet: the pairs
\* <<data, did a call fail>>.
Fails(known, call) == IF known THEN {FALSE} ELSE MayFail(call)
Asked(s, p, q) == [s EXCEPT !.schedSet = @ \/ ~p, !.policySet = @ \/ ~q,
                            !.param = IF s.schedSet \/ p THEN @ ELSE s.prio]
Parameters(s) == {<<Asked(s, p, q), p \/ q>> :
                    p \in Fails(s.schedSet, "getparam"), q \in Fails(s.policySet, "getscheduler")}

\* __pthread_current_priority.
CurrentPriority(s) ==
    {<<r[1], IF r[2] THEN -1 ELSE r[1].param>> : r \in Parameters(s)}

\* The next ceiling in use below prio.
Lowered(map, prio) == Max({MinPrio - 1} \cup {p \in MinPrio .. prio - 1 : map[p] # 0})

\* MUTANT of NewPriomax: the ceiling given back was the only one of its height.
NewPriomax_Unshared(s, map, previous, new) ==
    IF previous # None /\ s.priomax = previous /\ previous > new
      THEN Lowered(map, previous)
      ELSE IF new > s.priomax THEN new ELSE s.priomax

\* The largest ceiling after the map has changed to map.
NewPriomax(s, map, previous, new) ==
    IF previous # None /\ map[previous] = 0 /\ s.priomax = previous /\ previous > new
      THEN Lowered(map, previous)
      ELSE IF new > s.priomax THEN new ELSE s.priomax

\* sched_setscheduler with the priority p: a thread that is not real-time has
\* no priority but 0.
SetScheduler(t, s, p) ==
    LET done == <<[s EXCEPT !.prio = p], "0">>
        refused == <<[s EXCEPT !.refused = TRUE], "error">>
    IN IF Base[t] = 0 /\ p # 0 THEN {refused}
       ELSE {IF fails THEN refused ELSE done : fails \in MayFail("setscheduler")}

\* The part under the lock of the thread, priomax having been old.
Apply(t, s, old) ==
    UNION {LET q == r[1]
               p == IF q.param < q.priomax THEN q.priomax ELSE q.param
           IN IF r[2] THEN {<<[q EXCEPT !.refused = TRUE], "error">>}
              ELSE IF q.param < q.priomax \/ q.param < old THEN SetScheduler(t, q, p)
              ELSE {<<q, "0">>} :
           r \in Parameters(s)}

Plus(map, p, n) == IF p = None THEN map ELSE [map EXCEPT ![p] = (@ + n) % MapMod]

\* The rest of __pthread_tpp_change_priority, once the data is allocated: the
\* assertion on the new priority, the map, the largest ceiling in use.
Change(t, s, previous, new) ==
    LET map == Plus(Plus(s.priomap, new, 1), previous, MapMod - 1)
        newpriomax == NewPriomax(s, map, previous, new)
        q == [s EXCEPT !.priomap = map, !.priomax = newpriomax]
    IN IF new \notin Prios \cup {None} THEN {<<s, "assert">>}
       ELSE IF new # None /\ (s.priomap[new] + 1) % MapMod = 0 THEN {<<s, "EAGAIN">>}
       ELSE IF newpriomax = s.priomax THEN {<<q, "0">>}
       ELSE Apply(t, q, s.priomax)

tpp_change_priority(t, s, previous, new) ==
    IF s.tpp THEN Change(t, s, previous, new)
    ELSE UNION {IF fails THEN {<<s, "ENOMEM">>}
                ELSE Change(t, [s EXCEPT !.tpp = TRUE, !.priomax = MinPrio - 1], previous, new) :
                fails \in MayFail("calloc")}

-----------------------------------------------------------------------------
Goto(t, label) == th' = [th EXCEPT ![t].at = label]
At(t, label) == th[t].at = label
Return(t) == th' = [th EXCEPT ![t] = AtUser]
Sleepers(m) == {t \in Threads : At(t, "asleep") /\ th[t].m = m}

\* lock and trylock of a mutex the thread already holds and whose kind looks at
\* the owner: one more level, or an error.
LockAgain(t, m) ==
    /\ At(t, "user")
    /\ owner[m] = t
    /\ Kind[m] = "recursive"
    /\ (count[m] + 1) % CountMod # 0
    /\ count' = [count EXCEPT ![m] = @ + 1]
    /\ UNCHANGED <<lock, owner, nusers, sched, th, held, aborted>>

LockRefused(t, m) ==
    /\ At(t, "user")
    /\ owner[m] = t
    /\ \/ Kind[m] = "errorcheck"
       \/ Kind[m] = "recursive" /\ (count[m] + 1) % CountMod = 0
    /\ UNCHANGED vars

\* The common beginning of lock and trylock: compare the priority of the
\* thread with the ceiling, then raise it.  An error ends the call.
Raise(t, m, label) ==
    /\ At(t, "user")
    /\ \E r \in CurrentPriority(sched[t]) :
         IF r[2] > Ceiling[m]
           THEN /\ sched' = [sched EXCEPT ![t] = r[1]]
                /\ UNCHANGED <<th, aborted>>
           ELSE \E c \in tpp_change_priority(t, r[1], None, Ceiling[m]) :
                  /\ sched' = [sched EXCEPT ![t] = c[1]]
                  /\ th' = IF c[2] = "0" THEN [th EXCEPT ![t] = [at |-> label, m |-> m]]
                                         ELSE th
                  /\ aborted' = (c[2] = "assert")
    /\ UNCHANGED <<mutexVars, held>>

\* The program does not lock a normal mutex twice.  It may try to: the ceiling
\* is counted once more until the compare-and-exchange has failed.
Lock(t, m) == owner[m] # t /\ Raise(t, m, "cas")
Trylock(t, m) == (owner[m] = t => Kind[m] = "normal") /\ Raise(t, m, "try")

\* A compare-and-exchange of the lock word, and where to go on.
CompareAndExchange(t, old, new, same, other) ==
    LET m == th[t].m
    IN /\ lock' = IF lock[m] = old THEN [lock EXCEPT ![m] = new] ELSE lock
       /\ Goto(t, IF lock[m] = old THEN same ELSE other)

\* MUTANT of LockCas: a load and a store instead of the locked instruction.
LockCas_Unlocked(t) ==
    /\ At(t, "cas")
    /\ lock[th[t].m] < 2
    /\ CompareAndExchange(t, lock[th[t].m], 1, "won", "announce")
    /\ UNCHANGED <<owner, count, nusers, sched, held, aborted>>

LockCas(t) ==
    /\ At(t, "cas")
    /\ CompareAndExchange(t, 0, 1, "won", "announce")
    /\ UNCHANGED <<owner, count, nusers, sched, held, aborted>>

\* Announce a waiter; a word that has become free is tried at once.
Announce(t) ==
    /\ At(t, "announce")
    /\ CompareAndExchange(t, 1, 2, "wait", IF lock[th[t].m] = 0 THEN "retry" ELSE "wait")
    /\ UNCHANGED <<owner, count, nusers, sched, held, aborted>>

FutexWait(t) ==
    /\ At(t, "wait")
    /\ Goto(t, IF lock[th[t].m] = 2 THEN "asleep" ELSE "retry")
    /\ UNCHANGED <<mutexVars, sched, held, aborted>>

FutexInterrupted(t) ==
    /\ At(t, "asleep")
    /\ Goto(t, "retry")
    /\ UNCHANGED <<mutexVars, sched, held, aborted>>

Retry(t) ==
    /\ At(t, "retry")
    /\ CompareAndExchange(t, 0, 2, "won", "announce")
    /\ UNCHANGED <<owner, count, nusers, sched, held, aborted>>

\* MUTANT of TrylockCas: a failed attempt keeps the ceiling.
TrylockCas_Kept(t) ==
    /\ At(t, "try")
    /\ CompareAndExchange(t, 0, 1, "won", "user")
    /\ UNCHANGED <<owner, count, nusers, sched, held, aborted>>

\* trylock: one attempt; EBUSY with the old priority otherwise.
TrylockCas(t) ==
    LET m == th[t].m
    IN /\ At(t, "try")
       /\ \/ /\ lock[m] = 0
             /\ CompareAndExchange(t, 0, 1, "won", "won")
             /\ UNCHANGED sched
          \/ /\ lock[m] # 0
             /\ \E r \in tpp_change_priority(t, sched[t], Ceiling[m], None) :
                   sched' = [sched EXCEPT ![t] = r[1]]
             /\ Return(t)
             /\ UNCHANGED lock
       /\ UNCHANGED <<owner, count, nusers, held, aborted>>

\* Record the ownership, after the assertion that there is none.
Won(t) ==
    LET m == th[t].m
    IN /\ At(t, "won")
       /\ IF owner[m] # Nobody
            THEN aborted' = TRUE /\ UNCHANGED <<owner, count, nusers, th, held>>
            ELSE /\ owner' = [owner EXCEPT ![m] = t]
                 /\ count' = [count EXCEPT ![m] = 1]
                 /\ nusers' = [nusers EXCEPT ![m] = @ + 1]
                 /\ held' = [held EXCEPT ![t] = @ \cup {m}]
                 /\ Return(t)
                 /\ UNCHANGED aborted
       /\ UNCHANGED <<lock, sched>>

-----------------------------------------------------------------------------
\* Unlock of an inner level of a recursive mutex.
UnlockOnce(t, m) ==
    /\ At(t, "user")
    /\ Kind[m] = "recursive" /\ owner[m] = t /\ count[m] # 1
    /\ count' = [count EXCEPT ![m] = @ - 1]
    /\ UNCHANGED <<lock, owner, nusers, sched, th, held, aborted>>

\* EPERM, of the kinds that look at the owner.
UnlockRefused(t, m) ==
    /\ At(t, "user")
    /\ Kind[m] # "normal" /\ owner[m] # t
    /\ UNCHANGED vars

\* Always reset the owner field, one less user.
UnlockBegin(t, m) ==
    /\ At(t, "user")
    /\ m \in held[t]
    /\ Kind[m] = "recursive" => count[m] = 1
    /\ count' = IF Kind[m] = "recursive" THEN [count EXCEPT ![m] = 0] ELSE count
    /\ owner' = [owner EXCEPT ![m] = Nobody]
    /\ nusers' = [nusers EXCEPT ![m] = @ - 1]
    /\ held' = [held EXCEPT ![t] = @ \ {m}]
    /\ th' = [th EXCEPT ![t] = [at |-> "release", m |-> m]]
    /\ UNCHANGED <<lock, sched, aborted>>

\* MUTANT of WakeNeeded: the wake-up is skipped.
WakeNeeded_Never(oldval) == oldval > 2

WakeNeeded(oldval) == oldval > 1

\* The compare-and-exchange loop that leaves only the ceiling in the word.
Release(t) ==
    LET m == th[t].m
    IN /\ At(t, "release")
       /\ lock' = [lock EXCEPT ![m] = 0]
       /\ Goto(t, IF WakeNeeded(lock[m]) THEN "wake" ELSE "lower")
       /\ UNCHANGED <<owner, count, nusers, sched, held, aborted>>

Wake(t) ==
    /\ At(t, "wake")
    /\ \/ Sleepers(th[t].m) = {} /\ Goto(t, "lower")
       \/ \E u \in Sleepers(th[t].m) :
             th' = [th EXCEPT ![t].at = "lower", ![u].at = "retry"]
    /\ UNCHANGED <<mutexVars, sched, held, aborted>>

\* The old priority comes back; an error of this is the result of unlock.
Lower(t) ==
    /\ At(t, "lower")
    /\ \E r \in tpp_change_priority(t, sched[t], Ceiling[th[t].m], None) :
          sched' = [sched EXCEPT ![t] = r[1]]
    /\ Return(t)
    /\ UNCHANGED <<mutexVars, held, aborted>>

-----------------------------------------------------------------------------
\* What a thread does by itself once it has entered a call.
Inner(t) == \/ LockCas(t) \/ Announce(t) \/ FutexWait(t) \/ Retry(t) \/ TrylockCas(t)
            \/ Won(t) \/ Release(t) \/ Wake(t) \/ Lower(t)

Call(t, m) == \/ LockAgain(t, m) \/ LockRefused(t, m) \/ Lock(t, m) \/ Trylock(t, m)
              \/ UnlockRefused(t, m)

Unlock(t, m) == UnlockOnce(t, m) \/ UnlockBegin(t, m)

Next == \/ /\ ~aborted
           /\ \E t \in Threads :
                 Inner(t) \/ FutexInterrupted(t) \/ \E m \in Mutexes : Call(t, m) \/ Unlock(t, m)
        \/ aborted /\ UNCHANGED vars

Spec == Init /\ [][Next]_vars

-----------------------------------------------------------------------------
\* The mutexes whose ceilings a thread has a claim on: those it holds and the
\* one of its call.  The call counts by itself: it may try a mutex that is held.
InCall(t) == ~At(t, "user")
Claimed(t) == held[t] \cup (IF InCall(t) THEN {th[t].m} ELSE {})
OfCall(t, c) == IF InCall(t) /\ Ceiling[th[t].m] = c THEN 1 ELSE 0
Claims(t, c) == Cardinality({m \in held[t] : Ceiling[m] = c}) + OfCall(t, c)

\* The thread has the lock word.
Has(t, m) == m \in held[t] \/ (th[t].m = m /\ th[t].at \in {"won", "release"})

\* One thread has the lock word of a mutex, owner names it while it is out of
\* the call, it is the only user, and no assertion on owner fails.
HolderIsOwner ==
    \A m \in Mutexes :
        /\ \A t, u \in Threads : Has(t, m) /\ Has(u, m) => t = u
        /\ lock[m] = 0 <=> \A t \in Threads : ~Has(t, m)
        /\ \A t \in Threads : owner[m] = t <=> m \in held[t]
        /\ nusers[m] = Cardinality({t \in Threads : m \in held[t]})

\* While a thread sleeps on the word, it says 2, or some thread is on its way
\* to wake a sleeper or to write 2 again.
NoSleeperForgotten ==
    \A m \in Mutexes : Sleepers(m) # {} =>
        \/ lock[m] = 2
        \/ \E t \in Threads : th[t].m = m /\ th[t].at \in {"wake", "retry", "announce"}

\* The books of a thread cover every claim, and priomax is the largest ceiling
\* in them, also after system calls have failed halfway through the call: no
\* unlock takes a ceiling away that the thread still needs.  Without failures
\* they hold nothing else.
BooksRight ==
    \A t \in Threads :
        /\ \A c \in Prios :
              /\ sched[t].priomap[c] >= Claims(t, c)
              /\ ~sched[t].refused => sched[t].priomap[c] = Claims(t, c)
        /\ sched[t].tpp =>
              sched[t].priomax = Max({MinPrio - 1} \cup {c \in Prios : sched[t].priomap[c] # 0})

\* A thread runs with the largest ceiling it has a claim on, or its own priority
\* if that is higher, whatever the order in which it gives the mutexes back,
\* unless the system has refused one of its requests.
PriorityRight ==
    \A t \in Threads : ~sched[t].refused =>
        sched[t].prio = Max({Base[t]} \cup {Ceiling[m] : m \in Claimed(t)})
=============================================================================
