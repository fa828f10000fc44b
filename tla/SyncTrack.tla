------------------------------ MODULE SyncTrack -----------------------------
(***************************************************************************)
(* The diagnosis tool (sync_track.cpp): a Pin tool that counts the memory  *)
(* accesses of the critical sections that begin at listed call sites, and  *)
(* which of the accessed addresses several threads share.                  *)
(*                                                                         *)
(* Pin calls the analysis routines of a thread in that thread, those of    *)
(* different threads at the same time.  Rows of record and data belong to  *)
(* one thread; memAccessMap and the entries it points to are shared: each  *)
(* access to them is an action.  The map is a std::map without a lock, so  *)
(* what happens when an insertion meets another access is undefined: here  *)
(* a search may miss an entry and an insertion may lose entries.           *)
(***************************************************************************)
EXTENDS Naturals, Sequences, FiniteSets, FiniteSetsExt, Functions

CONSTANTS
    Threads,            \* ids of the threads that the program creates, 0 ..
    total_threads,      \* the knob "threads": ids must be below it
    Listed,             \* the call sites read from the input file
    Sites,              \* all call sites of pthread_mutex_lock
    Insts,              \* the instructions of critical sections
    MaxLocks, MaxInsts  \* bounds: acquisitions and counted instructions of a thread

\* An instruction: the addresses it writes and reads, 0 for none; whether it
\* accesses the stack; whether control falls through it.
Addrs == UNION {{i.w, i.r, i.r2} : i \in Insts} \ {0}

ASSUME ThreadsAssumption == Threads = 0 .. Cardinality(Threads) - 1 /\ total_threads \in Nat \ {0}
ASSUME SitesAssumption == Listed \subseteq Sites
ASSUME InstsAssumption ==
    Insts \subseteq [w : Nat, r : Nat, r2 : Nat, stack : BOOLEAN, falls : BOOLEAN]
ASSUME BoundsAssumption == MaxLocks \in Nat /\ MaxInsts \in Nat

VARIABLES
    active_threads, start_profile,
    record, data,       \* per thread
    memAccessMap,       \* address -> index of its entry in heap, 0 if there is none
    heap,               \* the entries ever allocated: thread_id and access_count
    th,                 \* where each thread is
    held,               \* number of mutexes a thread holds
    ghost,              \* what really happened
    report              \* what Fini wrote, or an empty sequence

vars == <<active_threads, start_profile, record, data, memAccessMap, heap, th, held, ghost, report>>

\* MUTANT of InitialThreads: the main thread is counted by ThreadBegin only.
InitialThreads_None == 0

InitialThreads == 1

\* The constructor.
SyncData == [instcount |-> 0, inst_mem_access |-> 0, critical_sections |-> 0]

Idle(label) == [at |-> label, todo |-> <<>>, entry |-> 0, met |-> {}]

Init ==
    /\ active_threads = InitialThreads
    /\ start_profile = FALSE
    /\ record = [t \in Threads |-> FALSE]
    /\ data = [t \in Threads |-> SyncData]
    /\ memAccessMap = [a \in Addrs |-> 0]
    /\ heap = <<>>
    /\ th = [t \in Threads |-> Idle("unborn")]
    /\ held = [t \in Threads |-> 0]
    /\ ghost = [locks |-> [t \in Threads |-> 0],        \* acquisitions
                sections |-> 0,                         \* those at listed sites
                calls |-> [a \in Addrs |-> 0],          \* doMemAccess of each address
                users |-> [a \in Addrs |-> {}],         \* and by whom
                collided |-> FALSE]                     \* an insertion met another access
    /\ report = <<>>

-----------------------------------------------------------------------------
At(t, label) == th[t].at = label
Goto(t, label) == th' = [th EXCEPT ![t].at = label]
Running == report = <<>> /\ \A t \in Threads : ~At(t, "stopped")
Shared == total_threads

\* The program creates its threads one by one, from the main thread or another.
ThreadBegin(t) ==
    /\ At(t, "unborn")
    /\ t > 0 => \E u \in Threads : At(u, "user")
    /\ \A u \in Threads : u < t => ~At(u, "unborn")
    /\ active_threads' = active_threads + 1
    /\ Goto(t, "begin")
    /\ UNCHANGED <<start_profile, record, data, memAccessMap, heap, held, ghost, report>>

\* The rest of ThreadBegin; without the row for a thread the tool stops.
Started(t) ==
    /\ At(t, "begin")
    /\ IF t < total_threads
         THEN /\ start_profile' = (start_profile \/ active_threads > 1)
              /\ Goto(t, "user")
         ELSE Goto(t, "stopped") /\ UNCHANGED start_profile
    /\ UNCHANGED <<active_threads, record, data, memAccessMap, heap, held, ghost, report>>

ThreadEnd(t) ==
    /\ At(t, "user") /\ t # 0 /\ held[t] = 0
    /\ active_threads' = active_threads - 1
    /\ Goto(t, "ended")
    /\ UNCHANGED <<start_profile, record, data, memAccessMap, heap, held, ghost, report>>

ProcessLock(t, site) ==
    LET counts == start_profile /\ site \in Listed
    IN /\ At(t, "user") /\ ghost.locks[t] < MaxLocks
       /\ record' = [record EXCEPT ![t] = @ \/ counts]
       /\ data' = [data EXCEPT ![t].critical_sections = @ + (IF counts THEN 1 ELSE 0)]
       /\ held' = [held EXCEPT ![t] = @ + 1]
       /\ ghost' = [ghost EXCEPT !.locks[t] = @ + 1,
                                 !.sections = @ + (IF site \in Listed THEN 1 ELSE 0)]
       /\ UNCHANGED <<active_threads, start_profile, memAccessMap, heap, th, report>>

ProcessUnlock(t) ==
    /\ At(t, "user") /\ held[t] > 0
    /\ record' = [record EXCEPT ![t] = @ /\ ~start_profile]
    /\ held' = [held EXCEPT ![t] = @ - 1]
    /\ UNCHANGED <<active_threads, start_profile, data, memAccessMap, heap, th, ghost, report>>

-----------------------------------------------------------------------------
\* Image: instructions that access memory and fall through are instrumented.
Instrumented(i) == i.falls /\ (i.w # 0 \/ i.r # 0)

\* _raddr & !shared_data is a bitwise operation of an address and 0 or 1: it is
\* true for odd addresses only.
Reads(r, shared) == r % 2 = 1 /\ ~shared

\* ProcessInst of a thread that records: the accesses in todo, each given to
\* doMemAccess unless the one before it was shared.
ProcessInst(t, i) ==
    /\ At(t, "user") /\ record[t]
    /\ Instrumented(i)
    /\ data[t].instcount < MaxInsts
    /\ data' = [data EXCEPT ![t].instcount = @ + 1,
                            ![t].inst_mem_access = @ + (IF i.stack THEN 0 ELSE 1)]
    /\ LET todo == (IF i.w # 0 THEN <<i.w>> ELSE <<>>)
                   \o (IF Reads(i.r, FALSE) THEN <<i.r>> ELSE <<>>)
                   \o (IF Reads(i.r2, FALSE) THEN <<i.r2>> ELSE <<>>)
       IN th' = IF i.stack \/ todo = <<>> THEN th
                ELSE [th EXCEPT ![t] = [Idle("find") EXCEPT !.todo = todo]]
    /\ UNCHANGED <<active_threads, start_profile, record, memAccessMap, heap, held, ghost, report>>

(***************************************************************************)
(* doMemAccess of the first address in todo.  Where a thread is:           *)
(*   find    before the search in the map                                  *)
(*   check   found an entry: before its thread_id is looked at             *)
(*   share   before thread_id is written                                   *)
(*   add     before access_count is incremented                            *)
(*   insert  found none: before the map is changed                         *)
(*   change  in the middle of the change                                   *)
(***************************************************************************)
Addr(t) == Head(th[t].todo)
\* it->second, which another insertion of the address may have replaced.
Entries(t) == {th[t].entry, memAccessMap[Addr(t)]} \ {0}
Changing(t) == {u \in Threads \ {t} : At(u, "change")}
MaybeNot(t, e) == IF Changing(t) = {} THEN {e} ELSE {e, 0}

Find(t) ==
    LET a == Addr(t)
    IN /\ At(t, "find")
       /\ \E e \in MaybeNot(t, memAccessMap[a]) :
             th' = [th EXCEPT ![t].at = IF e = 0 THEN "insert" ELSE "check", ![t].entry = e]
       /\ ghost' = [ghost EXCEPT !.calls[a] = @ + 1, !.users[a] = @ \cup {t},
                                 !.collided = @ \/ Changing(t) # {}]
       /\ UNCHANGED <<active_threads, start_profile, record, data, memAccessMap, heap, held, report>>

\* The access is over; the next one of the instruction follows if this one was
\* not to shared data.
Leave(t, shared) ==
    LET rest == Tail(th[t].todo)
    IN th' = [th EXCEPT ![t] = IF shared \/ rest = <<>> THEN Idle("user")
                               ELSE [Idle("find") EXCEPT !.todo = rest]]

\* MUTANT of Check: an entry that is found is taken for one of another thread.
Check_Any(t) ==
    /\ At(t, "check")
    /\ \E e \in Entries(t) : Goto(t, IF heap[e].thread_id = Shared THEN "add_shared" ELSE "share")
    /\ UNCHANGED <<active_threads, start_profile, record, data, memAccessMap, heap, held, ghost, report>>

Check(t) ==
    /\ At(t, "check")
    /\ \E e \in Entries(t) :
          Goto(t, CASE heap[e].thread_id = Shared -> "add_shared"
                    [] heap[e].thread_id = t      -> "add"
                    [] OTHER                      -> "share")
    /\ UNCHANGED <<active_threads, start_profile, record, data, memAccessMap, heap, held, ghost, report>>

\* At least two threads touched the address.
Share(t) ==
    /\ At(t, "share")
    /\ \E e \in Entries(t) : heap' = [heap EXCEPT ![e].thread_id = Shared]
    /\ Goto(t, "add_shared")
    /\ UNCHANGED <<active_threads, start_profile, record, data, memAccessMap, held, ghost, report>>

\* MUTANT of Add: the increment without lock, as another thread that is at the
\* same place sees it: of two that meet one is lost.
Add_Unlocked(t, label, shared) ==
    /\ At(t, label)
    /\ \E e \in Entries(t) :
          heap' = IF \E u \in Threads \ {t} : th[u].at \in {"add", "add_shared"} /\ Addr(u) = Addr(t)
                    THEN heap ELSE [heap EXCEPT ![e].access_count = @ + 1]
    /\ Leave(t, shared)
    /\ UNCHANGED <<active_threads, start_profile, record, data, memAccessMap, held, ghost, report>>

\* lock xaddl.
Add(t, label, shared) ==
    /\ At(t, label)
    /\ \E e \in Entries(t) : heap' = [heap EXCEPT ![e].access_count = @ + 1]
    /\ Leave(t, shared)
    /\ UNCHANGED <<active_threads, start_profile, record, data, memAccessMap, held, ghost, report>>

\* MUTANT of Insert: a new entry is counted once more, like one that was found.
Insert_Twice(t) ==
    /\ At(t, "insert")
    /\ heap' = Append(heap, [thread_id |-> t, access_count |-> 2])
    /\ th' = [th EXCEPT ![t].at = "change", ![t].entry = Len(heap) + 1]
    /\ ghost' = [ghost EXCEPT !.collided = @ \/ Changing(t) # {}]
    /\ UNCHANGED <<active_threads, start_profile, record, data, memAccessMap, held, report>>

\* A new entry, and the beginning of the assignment to memAccessMap[mem_addr].
Insert(t) ==
    /\ At(t, "insert")
    /\ heap' = Append(heap, [thread_id |-> t, access_count |-> 1])
    /\ th' = [th EXCEPT ![t].at = "change", ![t].entry = Len(heap) + 1]
    /\ ghost' = [ghost EXCEPT !.collided = @ \/ Changing(t) # {}]
    /\ UNCHANGED <<active_threads, start_profile, record, data, memAccessMap, held, report>>

\* The end of it.  Of insertions that overlap any may be lost.
Change(t) ==
    LET a == Addr(t)
        new == [memAccessMap EXCEPT ![a] = th[t].entry]
    IN /\ At(t, "change")
       /\ \E lost \in SUBSET (th[t].met \cup IF Changing(t) # {} \/ th[t].met # {} THEN {a} ELSE {}) :
             memAccessMap' = [b \in Addrs |-> IF b \in lost THEN 0 ELSE new[b]]
       /\ ghost' = [ghost EXCEPT !.collided = @ \/ memAccessMap[a] # 0]
       /\ LET meets(u) == u # t /\ At(u, "change")
              next == IF Len(th[t].todo) = 1 THEN Idle("user")
                      ELSE [Idle("find") EXCEPT !.todo = Tail(th[t].todo)]
          IN th' = [u \in Threads |-> IF u = t THEN next
                                      ELSE IF meets(u) THEN [th[u] EXCEPT !.met = @ \cup {a}]
                                      ELSE th[u]]
       /\ UNCHANGED <<active_threads, start_profile, record, data, heap, held, report>>

doMemAccess(t) == \/ Find(t) \/ Check(t) \/ Share(t) \/ Insert(t) \/ Change(t)
                  \/ Add(t, "add", FALSE) \/ Add(t, "add_shared", TRUE)

-----------------------------------------------------------------------------
Column(field) == SumFunction([t \in Threads |-> data[t][field]])
Count(a) == heap[memAccessMap[a]].access_count
CountsOf(S) == MapThenSumSet(Count, S)

\* Fini, when the program exits, whatever its other threads are doing.
Fini(t) ==
    LET found == {a \in Addrs : memAccessMap[a] # 0}
    IN /\ At(t, "user") /\ t = 0
       /\ report' = <<[instructions |-> Column("instcount"),
                       memory |-> Column("inst_mem_access"),
                       sections |-> Column("critical_sections"),
                       accesses |-> CountsOf(found),
                       shared |-> CountsOf({a \in found : heap[memAccessMap[a]].thread_id = Shared})]>>
       /\ UNCHANGED <<active_threads, start_profile, record, data, memAccessMap, heap, th, held, ghost>>

Next == /\ Running
        /\ \E t \in Threads :
              \/ ThreadBegin(t) \/ Started(t) \/ ThreadEnd(t) \/ Fini(t)
              \/ \E site \in Sites : ProcessLock(t, site)
              \/ ProcessUnlock(t)
              \/ \E i \in Insts : ProcessInst(t, i)
              \/ doMemAccess(t)

Spec == Init /\ [][Next]_vars

-----------------------------------------------------------------------------
Written == report # <<>>

\* No thread is inside doMemAccess.
Quiet == \A t \in Threads : th[t].todo = <<>>

SharedBy(n) == {a \in Addrs : Cardinality(ghost.users[a]) >= n}
Calls(a) == ghost.calls[a]

\* An entry is marked as shared memory only if two threads did access its
\* address, even when insertions into the map have collided.
SharedIsShared ==
    \A a \in Addrs : memAccessMap[a] # 0 /\ heap[memAccessMap[a]].thread_id = Shared
                      => a \in SharedBy(2)

\* If no insertion into the map met another access, the report has every access
\* and every access to an address that several threads used, although the
\* entries are read and written without a lock.
ReportComplete ==
    Written /\ Quiet /\ ~ghost.collided =>
        /\ report[1].accesses = MapThenSumSet(Calls, Addrs)
        /\ report[1].shared = MapThenSumSet(Calls, SharedBy(2))

\* Whatever insertions collided, the report has no access that did not happen.
ReportNeverOver ==
    Written => /\ report[1].accesses <= MapThenSumSet(Calls, Addrs)
               /\ report[1].shared <= MapThenSumSet(Calls, SharedBy(2))

\* The report has every critical section of a listed call site, those of the
\* time before the second thread included.
SectionsCounted == Written => report[1].sections = ghost.sections
=============================================================================
