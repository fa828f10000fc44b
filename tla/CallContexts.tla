---------------------------- MODULE CallContexts ----------------------------
(***************************************************************************)
(* The call sites SyncPerf records for one mutex: add_new_context, which   *)
(* every lock and trylock calls before it takes the mutex, hence with no   *)
(* lock held.  eip, stacks and stack_count belong to the mutex_t record    *)
(* and are plain memory shared by all threads.                             *)
(*                                                                         *)
(* One action per access to the shared fields.  A call stack is            *)
(* represented by the return address it was taken for.                     *)
(***************************************************************************)
EXTENDS Naturals, FiniteSets

CONSTANTS
    Threads,
    Sites,              \* return addresses of the calls in the program
    MaxNumStacks,       \* MAX_NUM_STACKS, the length of the arrays
    Unset               \* content of a slot nobody has written (0)

\* The slots past the arrays are memory of the neighbouring fields.  Once the
\* arrays are full, each thread that has passed the check adds at most one.
Slots == 0 .. MaxNumStacks + Cardinality(Threads) - 1

VARIABLES stack_count, eip, stacks,     \* the fields of mutex_t
          th,                           \* the threads: place and locals
          asked                         \* history: sites a call has finished for

vars == <<stack_count, eip, stacks, th, asked>>

Idle == [pc |-> "out", site |-> Unset, i |-> 0, loaded |-> 0]

Init == /\ stack_count = 0
        /\ eip = [i \in Slots |-> Unset]
        /\ stacks = [i \in Slots |-> Unset]
        /\ th = [t \in Threads |-> Idle]
        /\ asked = {}

Return(t) == /\ th' = [th EXCEPT ![t] = Idle]
             /\ asked' = asked \cup {th[t].site}

Call(t, site) ==
    /\ th[t].pc = "out"
    /\ th' = [th EXCEPT ![t].pc = "scan", ![t].site = site]
    /\ UNCHANGED <<stack_count, eip, stacks, asked>>

InScan(i) == i < stack_count

\* One iteration: a known return address ends the call.
Scan(t) ==
    /\ th[t].pc = "scan"
    /\ IF ~InScan(th[t].i)
         THEN th' = [th EXCEPT ![t].pc = "assert"] /\ UNCHANGED asked
       ELSE IF eip[th[t].i] = th[t].site
         THEN Return(t)
         ELSE th' = [th EXCEPT ![t].i = @ + 1] /\ UNCHANGED asked
    /\ UNCHANGED <<stack_count, eip, stacks>>

\* assert(mutex->stack_count < MAX_NUM_STACKS); the process dies if it fails.
HasSlot == stack_count < MaxNumStacks

CheckBound(t) ==
    /\ th[t].pc = "assert"
    /\ th' = [th EXCEPT ![t].pc = IF HasSlot THEN "backtrace" ELSE "aborted"]
    /\ UNCHANGED <<stack_count, eip, stacks, asked>>

\* do_backtrace into the slot stack_count names now.
Backtrace(t) ==
    /\ th[t].pc = "backtrace"
    /\ stacks' = [stacks EXCEPT ![stack_count] = th[t].site]
    /\ th' = [th EXCEPT ![t].pc = "eip"]
    /\ UNCHANGED <<stack_count, eip, asked>>

SiteSlot == stack_count

\* eip and esp_offset of the slot stack_count names by then.
WriteSite(t) ==
    /\ th[t].pc = "eip"
    /\ eip' = [eip EXCEPT ![SiteSlot] = th[t].site]
    /\ th' = [th EXCEPT ![t].pc = "load"]
    /\ UNCHANGED <<stack_count, stacks, asked>>

\* stack_count++, a load ...
LoadCount(t) ==
    /\ th[t].pc = "load"
    /\ th' = [th EXCEPT ![t].loaded = stack_count, ![t].pc = "store"]
    /\ UNCHANGED <<stack_count, eip, stacks, asked>>

CountAfter(loaded) == loaded + 1

\* ... and a store.
StoreCount(t) ==
    /\ th[t].pc = "store"
    /\ stack_count' = CountAfter(th[t].loaded)
    /\ Return(t)
    /\ UNCHANGED <<eip, stacks>>

-----------------------------------------------------------------------------
Alive == \A t \in Threads : th[t].pc # "aborted"

Step(t) == \/ \E site \in Sites : Call(t, site)
           \/ Scan(t) \/ CheckBound(t) \/ Backtrace(t) \/ WriteSite(t)
           \/ LoadCount(t) \/ StoreCount(t)

\* The assertion has stopped the process.
Dead == ~Alive /\ UNCHANGED vars

Next == (Alive /\ \E t \in Threads : Step(t)) \/ Dead

Spec == Init /\ [][Next]_vars

-----------------------------------------------------------------------------
Recorded == {eip[i] : i \in {j \in Slots : j < stack_count}}

\* The call site of a finished call is among the contexts the report prints.
NoContextLost == asked \subseteq Recorded
=============================================================================
