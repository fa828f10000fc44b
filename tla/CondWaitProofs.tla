--------------------------- MODULE CondWaitProofs ---------------------------
(***************************************************************************)
(* Theorems about CondWait, for every set of threads and any number of     *)
(* waits, signals, broadcasts, interrupts and cancellations.               *)
(*                                                                         *)
(* The invariant counts.  The threads that have registered and not been    *)
(* overtaken by a broadcast (Current) are as many as total_seq exceeds     *)
(* woken_seq, since each of them takes one number of woken_seq when it     *)
(* leaves.  Those of them that came before the last signal (Entitled) are  *)
(* enough to take every wakeup that is not used up.  The steps fall into   *)
(* six kinds by what they do to the two sets (Still, Register, Depart,     *)
(* Signalled, Broadcasted, Marked).                                        *)
(*                                                                         *)
(* The second invariant, QueueInv, is about the mutex of the waiters: its  *)
(* word excludes, and no thread is left asleep on it.                      *)
(***************************************************************************)
EXTENDS CondWait, Integers, FiniteSetTheorems, TLAPS

Places == {"user", "release", "block", "asleep", "requeued", "woken", "relock", "return",
           "cancelled", "requeue", "drain"}
InsidePlaces == {"block", "asleep", "requeued", "woken"}

Current == {t \in Inside : th[t].bc_seq = cond.broadcast_seq}
Entitled == {t \in Inside : /\ th[t].bc_seq = cond.broadcast_seq
                            /\ th[t].seq < cond.wakeup_seq}

CondType == [lock : Threads \cup {Nobody}, total_seq : Nat, wakeup_seq : Nat,
             woken_seq : Nat, broadcast_seq : Nat, futex : Nat, nwaiters : Int,
             dying : BOOLEAN, gone : BOOLEAN]
ThreadType == [at : Places, seq : Nat, bc_seq : Nat, val : Nat]

Shape ==
    /\ cond \in CondType
    /\ th \in [Threads -> ThreadType]

\* A thread that is giving back the mutex has the lock of cond, which is not
\* being destroyed.
ReleaseRight == \A t \in Threads : At(t, "release") => cond.lock = t /\ ~cond.dying

\* nwaiters is exact, also after the mark of the destroyer.
WaitersRight ==
    /\ IsFiniteSet(Inside)
    /\ cond.nwaiters = Cardinality(Inside)
    /\ cond.gone => cond.dying /\ cond.nwaiters = 0

\* What a waiter remembers is not ahead of the counters.
SeqsRight ==
    \A t \in Inside : th[t].seq <= cond.wakeup_seq /\ th[t].bc_seq <= cond.broadcast_seq

Accounted ==
    /\ cond.total_seq - cond.woken_seq = Cardinality(Current)
    /\ cond.woken_seq <= cond.wakeup_seq
    /\ ~cond.dying => /\ cond.wakeup_seq <= cond.total_seq
                      /\ cond.wakeup_seq - cond.woken_seq <= Cardinality(Entitled)

\* The inductive invariant.
Inv == Shape /\ ReleaseRight /\ WaitersRight /\ SeqsRight /\ Accounted

\* Nobody waits at the start.
LEMMA InitInv == Init => Inv
<1> SUFFICES ASSUME Init PROVE Inv
  OBVIOUS
<1>1. Shape
  BY DEF Init, Shape, CondType, ThreadType, AtUser, Places
<1>2. \A t \in Threads : th[t].at = "user"
  BY DEF Init, AtUser
<1>3. Inside = {} /\ Current = {} /\ Entitled = {}
  BY <1>2 DEF Inside, Current, Entitled
<1>4. ReleaseRight /\ SeqsRight
  BY <1>2, <1>3 DEF ReleaseRight, At, SeqsRight
<1>5. WaitersRight /\ Accounted
  BY <1>3, FS_EmptySet DEF Init, WaitersRight, Accounted
<1> QED
  BY <1>1, <1>4, <1>5 DEF Inv

-----------------------------------------------------------------------------
(***************************************************************************)
(* The kinds of steps.                                                     *)
(***************************************************************************)

\* The thread keeps waiting, with the numbers it has, or is still not waiting.
SameWait(t) ==
    /\ th'[t].at \in InsidePlaces <=> th[t].at \in InsidePlaces
    /\ th[t].at \in InsidePlaces => th'[t].seq = th[t].seq /\ th'[t].bc_seq = th[t].bc_seq

\* The two sets are part of those that wait.
LEMMA SetsAreFinite ==
    ASSUME Inv
    PROVE  /\ IsFiniteSet(Inside) /\ IsFiniteSet(Current) /\ IsFiniteSet(Entitled)
           /\ Cardinality(Inside) \in Nat /\ Cardinality(Current) \in Nat
           /\ Cardinality(Entitled) \in Nat /\ Cardinality(Entitled) <= Cardinality(Current)
<1>1. Current \subseteq Inside /\ Entitled \subseteq Current
  BY DEF Current, Entitled
<1>2. IsFiniteSet(Inside)
  BY DEF Inv, WaitersRight
<1>3. IsFiniteSet(Current)
  BY <1>1, <1>2, FS_Subset
<1>4. IsFiniteSet(Entitled) /\ Cardinality(Entitled) <= Cardinality(Current)
  BY <1>1, <1>3, FS_Subset
<1> QED
  BY <1>2, <1>3, <1>4, FS_CardinalityType

\* Who is inside, by the place of the thread.
LEMMA InsideIs ==
    /\ \A t : t \in Inside <=> t \in Threads /\ th[t].at \in InsidePlaces
    /\ \A t : t \in Inside' <=> t \in Threads /\ th'[t].at \in InsidePlaces
  BY DEF Inside, InsidePlaces

\* No number changes.
LEMMA Still ==
    ASSUME Inv, Shape', ReleaseRight', \A t \in Threads : SameWait(t),
           cond'.total_seq = cond.total_seq, cond'.wakeup_seq = cond.wakeup_seq,
           cond'.woken_seq = cond.woken_seq, cond'.broadcast_seq = cond.broadcast_seq,
           cond'.nwaiters = cond.nwaiters, cond'.dying = cond.dying, cond'.gone = cond.gone
    PROVE  Inv'
<1>1. Inside' = Inside
  BY InsideIs DEF SameWait
<1>2. Current' = Current /\ Entitled' = Entitled
  BY <1>1, InsideIs DEF SameWait, Current, Entitled
<1>3. WaitersRight'
  BY <1>1 DEF Inv, WaitersRight
<1>4. SeqsRight'
  BY <1>1, InsideIs DEF Inv, SeqsRight, SameWait
<1>5. Accounted'
  BY <1>2 DEF Inv, Accounted
<1> QED
  BY <1>3, <1>4, <1>5 DEF Inv

\* A new waiter remembers the numbers of the moment.
LEMMA Register ==
    ASSUME Inv, Shape', ReleaseRight', NEW t \in Threads, t \notin Inside, ~cond.dying,
           th'[t].at \in InsidePlaces, th'[t].seq = cond.wakeup_seq,
           th'[t].bc_seq = cond.broadcast_seq, \A u \in Threads \ {t} : SameWait(u),
           cond'.total_seq = cond.total_seq + 1, cond'.wakeup_seq = cond.wakeup_seq,
           cond'.woken_seq = cond.woken_seq, cond'.broadcast_seq = cond.broadcast_seq,
           cond'.nwaiters = cond.nwaiters + 1, cond'.dying = cond.dying,
           cond'.gone = cond.gone
    PROVE  Inv'
<1>0. /\ cond.total_seq \in Nat /\ cond.wakeup_seq \in Nat /\ cond.woken_seq \in Nat
      /\ cond.broadcast_seq \in Nat
  BY DEF Inv, Shape, CondType, ThreadType
<1>1. Inside' = Inside \cup {t}
  BY InsideIs DEF SameWait
<1>2. Current' = Current \cup {t} /\ t \notin Current
  BY <1>1, InsideIs DEF SameWait, Current
<1>3. Entitled' = Entitled
  BY <1>0, <1>1, InsideIs DEF SameWait, Entitled
<1>4. /\ IsFiniteSet(Inside \cup {t})
      /\ Cardinality(Inside \cup {t}) = Cardinality(Inside) + 1
      /\ Cardinality(Current \cup {t}) = Cardinality(Current) + 1
  BY <1>2, SetsAreFinite, FS_AddElement
<1>5. WaitersRight'
  BY <1>1, <1>4 DEF Inv, WaitersRight
<1>6. SeqsRight'
  BY <1>0, <1>1, InsideIs DEF Inv, SeqsRight, SameWait
<1>7. Accounted'
  BY <1>0, <1>2, <1>3, <1>4, SetsAreFinite DEF Inv, Accounted
<1> QED
  BY <1>5, <1>6, <1>7 DEF Inv

\* A waiter leaves: with a broadcast, with a wakeup that is there, or with one
\* of its own (a cancelled waiter).
LEMMA Depart ==
    ASSUME Inv, Shape', ReleaseRight', NEW t \in Inside, th'[t].at \notin InsidePlaces,
           \A u \in Threads \ {t} : SameWait(u), cond'.total_seq = cond.total_seq,
           cond'.broadcast_seq = cond.broadcast_seq, cond'.nwaiters = cond.nwaiters - 1,
           cond'.dying = cond.dying,
           cond'.gone = (cond.gone \/ (cond.dying /\ cond.nwaiters - 1 = 0)),
           \/ /\ t \notin Current /\ cond'.wakeup_seq = cond.wakeup_seq
              /\ cond'.woken_seq = cond.woken_seq
           \/ /\ t \in Current /\ cond.woken_seq < cond.wakeup_seq
              /\ cond'.wakeup_seq = cond.wakeup_seq /\ cond'.woken_seq = cond.woken_seq + 1
           \/ /\ t \in Current /\ (cond.dying \/ cond.wakeup_seq < cond.total_seq)
              /\ cond'.wakeup_seq = cond.wakeup_seq + 1
              /\ cond'.woken_seq = cond.woken_seq + 1
    PROVE  Inv'
<1>0. /\ cond.total_seq \in Nat /\ cond.wakeup_seq \in Nat /\ cond.woken_seq \in Nat
      /\ cond.broadcast_seq \in Nat /\ cond.nwaiters \in Int
      /\ cond.dying \in BOOLEAN /\ cond.gone \in BOOLEAN
  BY DEF Inv, Shape, CondType, ThreadType
<1>1. Inside' = Inside \ {t}
  BY InsideIs DEF SameWait
<1>2. Current' = Current \ {t}
  BY <1>1, InsideIs DEF SameWait, Current
<1>3. IsFiniteSet(Inside \ {t}) /\ Cardinality(Inside \ {t}) = Cardinality(Inside) - 1
  BY SetsAreFinite, FS_RemoveElement
<1>4. cond.wakeup_seq <= cond'.wakeup_seq
  BY <1>0
<1>5. WaitersRight'
  <2>1. IsFiniteSet(Inside)' /\ (cond.nwaiters = Cardinality(Inside))'
    BY <1>1, <1>3 DEF Inv, WaitersRight
  <2>2. cond.gone => cond.nwaiters = 0
    BY DEF Inv, WaitersRight
  <2>3. Cardinality(Inside) # 0
    BY SetsAreFinite, FS_EmptySet
  <2>4. ~cond.gone
    BY <2>2, <2>3 DEF Inv, WaitersRight
  <2> QED
    BY <1>0, <2>1, <2>4 DEF WaitersRight
<1>6. SeqsRight'
  <2> SUFFICES ASSUME NEW u \in Inside \ {t}
               PROVE  th'[u].seq <= cond'.wakeup_seq /\ th'[u].bc_seq <= cond'.broadcast_seq
    BY <1>1 DEF SeqsRight
  <2>1. u \in Threads /\ th[u].at \in InsidePlaces /\ u # t
    BY InsideIs
  <2>2. th'[u].seq = th[u].seq /\ th'[u].bc_seq = th[u].bc_seq
    BY <2>1 DEF SameWait
  <2>3. th[u].seq <= cond.wakeup_seq /\ th[u].bc_seq <= cond.broadcast_seq
    BY DEF Inv, SeqsRight
  <2>4. th[u].seq \in Nat
    BY <2>1 DEF Inv, Shape, CondType, ThreadType
  <2> QED
    BY <1>0, <1>4, <2>2, <2>3, <2>4
<1>7. Accounted'
  <2>1. CASE t \notin Current
    <3>1. Current' = Current
      BY <1>2, <2>1
    <3>2. Entitled' = Entitled
      BY <1>1, <2>1, InsideIs DEF SameWait, Entitled, Current
    <3> QED
      BY <2>1, <3>1, <3>2 DEF Inv, Accounted
  <2>2. ASSUME t \in Current
        PROVE  Cardinality(Current') = Cardinality(Current) - 1
    BY <1>2, <2>2, SetsAreFinite, FS_RemoveElement
  <2>3. CASE /\ t \in Current /\ cond.woken_seq < cond.wakeup_seq
             /\ cond'.wakeup_seq = cond.wakeup_seq /\ cond'.woken_seq = cond.woken_seq + 1
    <3>1. Entitled' = Entitled \ {t}
      BY <1>1, <2>3, InsideIs DEF SameWait, Entitled
    <3>2. /\ Cardinality(Entitled \ {t}) \in Nat
          /\ Cardinality(Entitled \ {t}) >= Cardinality(Entitled) - 1
      <4>1. CASE t \in Entitled
        <5>1. /\ IsFiniteSet(Entitled \ {t})
              /\ Cardinality(Entitled \ {t}) = Cardinality(Entitled) - 1
          BY <4>1, SetsAreFinite, FS_RemoveElement
        <5>2. Cardinality(Entitled \ {t}) \in Nat
          BY <5>1, FS_CardinalityType
        <5> QED
          BY <5>1, <5>2
      <4>2. CASE t \notin Entitled
        <5>1. Entitled \ {t} = Entitled
          BY <4>2
        <5> QED
          BY ONLY <5>1, SetsAreFinite, Inv
      <4> QED
        BY <4>1, <4>2
    <3> QED
      BY <1>0, <2>2, <2>3, <3>1, <3>2, SetsAreFinite DEF Inv, Accounted
  <2>4. CASE /\ t \in Current /\ (cond.dying \/ cond.wakeup_seq < cond.total_seq)
             /\ cond'.wakeup_seq = cond.wakeup_seq + 1
             /\ cond'.woken_seq = cond.woken_seq + 1
    <3>1. \A u \in Current' : th'[u].seq < cond'.wakeup_seq
      <4> SUFFICES ASSUME NEW u \in Current \ {t} PROVE th'[u].seq < cond'.wakeup_seq
        BY <1>2
      <4>1. u \in Inside /\ u \in Threads /\ th[u].at \in InsidePlaces
        BY InsideIs DEF Current
      <4>2. th'[u].seq = th[u].seq /\ th[u].seq \in Nat /\ th[u].seq <= cond.wakeup_seq
        BY <4>1 DEF SameWait, Inv, Shape, CondType, ThreadType, SeqsRight
      <4> QED
        BY <1>0, <2>4, <4>2
    <3>2. Entitled' = Current'
      BY <3>1 DEF Entitled, Current
    <3> QED
      BY <1>0, <2>2, <2>4, <3>2, SetsAreFinite DEF Inv, Accounted
  <2> QED
    BY <2>1, <2>3, <2>4
<1> QED
  BY <1>5, <1>6, <1>7 DEF Inv

\* One more wakeup: every waiter came before it.
LEMMA Signalled ==
    ASSUME Inv, Shape', ReleaseRight', \A t \in Threads : SameWait(t),
           cond.wakeup_seq < cond.total_seq,
           cond'.total_seq = cond.total_seq, cond'.wakeup_seq = cond.wakeup_seq + 1,
           cond'.woken_seq = cond.woken_seq, cond'.broadcast_seq = cond.broadcast_seq,
           cond'.nwaiters = cond.nwaiters, cond'.dying = cond.dying, cond'.gone = cond.gone
    PROVE  Inv'
<1>0. /\ cond.total_seq \in Nat /\ cond.wakeup_seq \in Nat /\ cond.woken_seq \in Nat
      /\ \A u \in Inside : th[u].seq \in Nat
  BY InsideIs DEF Inv, Shape, CondType, ThreadType
<1>1. Inside' = Inside
  BY InsideIs DEF SameWait
<1>2. Current' = Current
  BY <1>1, InsideIs DEF SameWait, Current
<1>3. \A u \in Inside : th'[u].seq = th[u].seq /\ th'[u].bc_seq = th[u].bc_seq
  BY InsideIs DEF SameWait
<1>4. \A u \in Inside : th'[u].seq < cond'.wakeup_seq
  BY <1>0, <1>3 DEF Inv, SeqsRight
<1>5. Entitled' = Current'
  BY <1>1, <1>4 DEF Entitled, Current
<1>6. WaitersRight'
  BY <1>1 DEF Inv, WaitersRight
<1>7. SeqsRight'
  BY <1>0, <1>1, <1>3 DEF Inv, SeqsRight
<1>8. Accounted'
  BY <1>0, <1>2, <1>5, SetsAreFinite DEF Inv, Accounted
<1> QED
  BY <1>6, <1>7, <1>8 DEF Inv

\* Everybody is overtaken.
LEMMA Broadcasted ==
    ASSUME Inv, Shape', ReleaseRight', \A t \in Threads : SameWait(t),
           cond.wakeup_seq < cond.total_seq,
           cond'.total_seq = cond.total_seq, cond'.wakeup_seq = cond.total_seq,
           cond'.woken_seq = cond.total_seq, cond'.broadcast_seq = cond.broadcast_seq + 1,
           cond'.nwaiters = cond.nwaiters, cond'.dying = cond.dying, cond'.gone = cond.gone
    PROVE  Inv'
<1>0. /\ cond.total_seq \in Nat /\ cond.wakeup_seq \in Nat /\ cond.broadcast_seq \in Nat
      /\ \A u \in Inside : th[u].seq \in Nat /\ th[u].bc_seq \in Nat
  BY InsideIs DEF Inv, Shape, CondType, ThreadType
<1>1. Inside' = Inside
  BY InsideIs DEF SameWait
<1>2. \A u \in Inside : th'[u].seq = th[u].seq /\ th'[u].bc_seq = th[u].bc_seq
  BY InsideIs DEF SameWait
<1>3. SeqsRight'
  BY <1>0, <1>1, <1>2 DEF Inv, SeqsRight
<1>4. \A u \in Inside : th'[u].bc_seq # cond'.broadcast_seq
  BY <1>0, <1>2 DEF Inv, SeqsRight
<1>5. Current' = {} /\ Entitled' = {}
  BY <1>1, <1>4 DEF Current, Entitled
<1>6. WaitersRight'
  BY <1>1 DEF Inv, WaitersRight
<1>7. Accounted'
  BY <1>0, <1>5, FS_EmptySet DEF Accounted
<1> QED
  BY <1>3, <1>6, <1>7 DEF Inv

\* The destroyer has left its mark.
LEMMA Marked ==
    ASSUME Inv, Shape', ReleaseRight', \A t \in Threads : SameWait(t),
           cond'.total_seq = cond.total_seq, cond'.wakeup_seq = cond.wakeup_seq,
           cond'.woken_seq = cond.woken_seq, cond'.broadcast_seq = cond.broadcast_seq,
           cond'.nwaiters = cond.nwaiters, cond'.dying, cond'.gone = (cond.nwaiters = 0)
    PROVE  Inv'
<1>1. Inside' = Inside
  BY InsideIs DEF SameWait
<1>2. Current' = Current
  BY <1>1, InsideIs DEF SameWait, Current
<1>3. WaitersRight'
  BY <1>1 DEF Inv, WaitersRight
<1>4. SeqsRight'
  BY <1>1, InsideIs DEF Inv, SeqsRight, SameWait
<1>5. Accounted'
  BY <1>2 DEF Inv, Accounted
<1> QED
  BY <1>3, <1>4, <1>5 DEF Inv

-----------------------------------------------------------------------------
(***************************************************************************)
(* The steps.                                                              *)
(***************************************************************************)

\* What moves one thread to another place.
LEMMA Moved ==
    ASSUME Shape, NEW t \in Threads, NEW label \in Places, Goto(t, label)
    PROVE  /\ th' \in [Threads -> ThreadType]
           /\ th'[t].at = label /\ th'[t].seq = th[t].seq /\ th'[t].bc_seq = th[t].bc_seq
           /\ \A u \in Threads \ {t} : th'[u] = th[u] /\ SameWait(u)
  BY DEF Shape, CondType, ThreadType, Goto, SameWait

\* The same for a step that sets its futex_val as well.
LEMMA Revalued ==
    ASSUME Shape, NEW t \in Threads, NEW label \in Places, NEW n \in Nat,
           th' = [th EXCEPT ![t].at = label, ![t].val = n]
    PROVE  /\ th' \in [Threads -> ThreadType]
           /\ th'[t].at = label /\ th'[t].seq = th[t].seq /\ th'[t].bc_seq = th[t].bc_seq
           /\ \A u \in Threads \ {t} : th'[u] = th[u] /\ SameWait(u)
<1>1. th \in [Threads -> ThreadType]
  BY DEF Shape
<1>2. th' = [th EXCEPT ![t] = [th[t] EXCEPT !.at = label, !.val = n]]
  BY <1>1
<1>3. [th[t] EXCEPT !.at = label, !.val = n] \in ThreadType
  <2>1. th[t] \in ThreadType
    BY <1>1
  <2> QED
    BY <2>1, Zenon DEF ThreadType
<1>4. th' \in [Threads -> ThreadType]
  BY <1>1, <1>2, <1>3
<1>5. /\ th'[t] = [th[t] EXCEPT !.at = label, !.val = n]
      /\ \A u \in Threads \ {t} : th'[u] = th[u]
  BY <1>1, <1>2
<1>6. th'[t].at = label /\ th'[t].seq = th[t].seq /\ th'[t].bc_seq = th[t].bc_seq
  BY <1>1, <1>5 DEF ThreadType
<1> QED
  BY <1>4, <1>5, <1>6 DEF SameWait

\* Neither the threads nor the condition variable change.
LEMMA Unmoved ==
    ASSUME Inv, UNCHANGED <<th, cond>>
    PROVE  Inv'
<1>1. Shape' /\ ReleaseRight' /\ \A t \in Threads : SameWait(t)
  BY DEF Inv, Shape, CondType, ThreadType, ReleaseRight, At, SameWait
<1> QED
  BY <1>1, Still

\* One thread goes elsewhere, neither into a wait nor out of it.
LEMMA MovedStill ==
    ASSUME Inv, NEW t \in Threads, NEW label \in Places \ {"release"}, Goto(t, label),
           th[t].at \in InsidePlaces <=> label \in InsidePlaces, UNCHANGED cond
    PROVE  Inv'
<1>0. Shape
  BY DEF Inv
<1>1. /\ th' \in [Threads -> ThreadType]
      /\ th'[t].at = label /\ th'[t].seq = th[t].seq /\ th'[t].bc_seq = th[t].bc_seq
      /\ \A u \in Threads \ {t} : th'[u] = th[u] /\ SameWait(u)
  BY <1>0, Moved
<1>2. Shape'
  BY <1>0, <1>1 DEF Shape, CondType, ThreadType
<1>3. ReleaseRight'
  BY <1>1 DEF Inv, ReleaseRight, At
<1>4. \A u \in Threads : SameWait(u)
  BY <1>1 DEF SameWait
<1> QED
  BY <1>2, <1>3, <1>4, Still

\* A waiter that is not cancelled leaves in this way.
LEMMA Left ==
    ASSUME Inv, NEW t \in Inside, Goto(t, "relock"),
           \/ /\ t \notin Current
              /\ cond' = [cond EXCEPT !.nwaiters = cond.nwaiters - 1,
                                      !.gone = @ \/ (cond.dying /\ cond.nwaiters - 1 = 0)]
           \/ /\ t \in Current /\ cond.woken_seq < cond.wakeup_seq
              /\ cond' = [cond EXCEPT !.woken_seq = @ + 1, !.nwaiters = cond.nwaiters - 1,
                                      !.gone = @ \/ (cond.dying /\ cond.nwaiters - 1 = 0)]
    PROVE  Inv'
<1>0. Shape /\ t \in Threads
  BY DEF Inv, Inside
<1>1. /\ th' \in [Threads -> ThreadType]
      /\ th'[t].at = "relock" /\ \A u \in Threads \ {t} : th'[u] = th[u] /\ SameWait(u)
  BY <1>0, Moved DEF Places
<1>2. /\ cond'.lock = cond.lock
      /\ cond'.total_seq = cond.total_seq /\ cond'.broadcast_seq = cond.broadcast_seq
      /\ cond'.nwaiters = cond.nwaiters - 1 /\ cond'.dying = cond.dying
      /\ cond'.gone = (cond.gone \/ (cond.dying /\ cond.nwaiters - 1 = 0))
      /\ cond'.wakeup_seq = cond.wakeup_seq
  BY <1>0 DEF Shape, CondType, ThreadType
<1>3. \/ t \notin Current /\ cond'.woken_seq = cond.woken_seq
      \/ /\ t \in Current /\ cond.woken_seq < cond.wakeup_seq
         /\ cond'.woken_seq = cond.woken_seq + 1
  BY <1>0 DEF Shape, CondType, ThreadType
<1>4. Shape' /\ th'[t].at \notin InsidePlaces
  <2>1. /\ cond \in CondType /\ cond.nwaiters - 1 \in Int /\ cond.woken_seq + 1 \in Nat
        /\ (cond.gone \/ (cond.dying /\ cond.nwaiters - 1 = 0)) \in BOOLEAN
    BY <1>0 DEF Shape, CondType
  <2>2. cond' \in CondType
    BY <2>1, Zenon DEF CondType
  <2> QED
    BY <1>1, <2>2 DEF Shape, ThreadType, InsidePlaces
<1>5. ReleaseRight'
  BY <1>1, <1>2 DEF Inv, ReleaseRight, At
<1> QED
  BY <1>1, <1>2, <1>3, <1>4, <1>5, Depart

\* The mutex is being given back under the lock of cond.
LEMMA WaitBeginInv == ASSUME Inv, NEW t \in Threads, WaitBegin(t) PROVE Inv'
<1>0. Shape
  BY DEF Inv
<1>1. At(t, "user") /\ Alone /\ ~cond.dying /\ cond' = [cond EXCEPT !.lock = t]
      /\ Goto(t, "release")
  BY DEF WaitBegin
<1>2. /\ th' \in [Threads -> ThreadType]
      /\ th'[t].at = "release" /\ \A u \in Threads \ {t} : th'[u] = th[u] /\ SameWait(u)
  BY <1>0, <1>1, Moved DEF Places
<1>3. Shape'
  BY <1>0, <1>1, <1>2 DEF Shape, CondType, ThreadType
<1>4. \A u \in Threads : ~At(u, "release")
  BY <1>1, ThreadsAssumption DEF Inv, ReleaseRight, Alone
<1>5. ReleaseRight'
  BY <1>0, <1>1, <1>2, <1>4 DEF ReleaseRight, At, Shape, CondType, ThreadType
<1>6. \A u \in Threads : SameWait(u)
  BY <1>1, <1>2 DEF SameWait, At, InsidePlaces
<1> QED
  BY <1>0, <1>1, <1>3, <1>5, <1>6, Still DEF Shape, CondType, ThreadType

\* The registration of a waiter.
LEMMA WaitRegisterInv == ASSUME Inv, NEW t \in Threads, WaitRegister(t) PROVE Inv'
<1>0. Shape
  BY DEF Inv
<1>1. At(t, "release") /\ cond.lock = t /\ ~cond.dying
  BY DEF Inv, ReleaseRight, WaitRegister
<1>2. /\ cond' = [cond EXCEPT !.total_seq = @ + 1, !.futex = @ + 1, !.nwaiters = @ + 1,
                              !.lock = Nobody]
      /\ th' = [th EXCEPT ![t] = [at |-> "block", seq |-> cond.wakeup_seq,
                                  bc_seq |-> cond.broadcast_seq, val |-> cond'.futex]]
  BY <1>0 DEF WaitRegister, Registered, Shape, CondType, ThreadType
<1>3. /\ cond'.total_seq = cond.total_seq + 1 /\ cond'.wakeup_seq = cond.wakeup_seq
      /\ cond'.woken_seq = cond.woken_seq /\ cond'.broadcast_seq = cond.broadcast_seq
      /\ cond'.nwaiters = cond.nwaiters + 1 /\ cond'.dying = cond.dying
      /\ cond'.gone = cond.gone /\ cond'.futex \in Nat
  BY <1>0, <1>2 DEF Shape, CondType, ThreadType
<1>4. /\ th'[t].at = "block" /\ th'[t].seq = cond.wakeup_seq
      /\ th'[t].bc_seq = cond.broadcast_seq /\ \A u \in Threads \ {t} : th'[u] = th[u]
  BY <1>0, <1>2 DEF Shape, CondType, ThreadType
<1>5. Shape'
  <2>1. /\ cond \in CondType /\ cond.total_seq + 1 \in Nat /\ cond.futex + 1 \in Nat
        /\ cond.nwaiters + 1 \in Int
    BY <1>0 DEF Shape, CondType
  <2>2. cond' \in CondType
    BY <1>2, <2>1, Zenon DEF CondType
  <2> QED
    BY <1>0, <1>2, <1>3, <2>2 DEF Shape, ThreadType, CondType, Places
<1>6. \A u \in Threads \ {t} : SameWait(u)
  BY <1>4 DEF SameWait
<1>7. ReleaseRight'
  BY <1>1, <1>4 DEF Inv, ReleaseRight, At
<1>8. t \notin Inside
  BY <1>1 DEF Inside, At
<1>9. th'[t].at \in InsidePlaces
  BY <1>4 DEF InsidePlaces
<1> QED
  BY <1>1, <1>3, <1>4, <1>5, <1>6, <1>7, <1>8, <1>9, Register

\* After FUTEX_WAIT: two ways to leave and one to wait again.
LEMMA WokenInv == ASSUME Inv, NEW t \in Threads, Woken(t) PROVE Inv'
<1>0. Shape /\ th[t].at = "woken" /\ t \in Inside
  BY DEF Inv, Woken, At, Inside
<1>1. CASE th[t].bc_seq # cond.broadcast_seq /\ Leave(t, cond, "relock")
  <2>1. /\ Goto(t, "relock")
        /\ cond' = [cond EXCEPT !.nwaiters = cond.nwaiters - 1,
                                !.gone = @ \/ (cond.dying /\ cond.nwaiters - 1 = 0)]
    BY <1>1 DEF Leave, DestroyerWoken
  <2>2. t \notin Current
    BY <1>1 DEF Current
  <2> QED
    BY <1>0, <2>1, <2>2, Left
<1>2. CASE /\ th[t].bc_seq = cond.broadcast_seq /\ Eligible(t)
           /\ Leave(t, [cond EXCEPT !.woken_seq = @ + 1], "relock")
  <2>1. /\ Goto(t, "relock")
        /\ cond' = [cond EXCEPT !.woken_seq = @ + 1, !.nwaiters = cond.nwaiters - 1,
                                !.gone = @ \/ (cond.dying /\ cond.nwaiters - 1 = 0)]
    BY <1>0, <1>2 DEF Leave, DestroyerWoken, Shape, CondType, ThreadType
  <2>2. t \in Current /\ cond.woken_seq < cond.wakeup_seq
    BY <1>0, <1>2 DEF Current, Eligible, Inv, Accounted, Shape, CondType, ThreadType
  <2> QED
    BY <1>0, <2>1, <2>2, Left
<1>3. CASE /\ th' = [th EXCEPT ![t].at = "block", ![t].val = cond.futex]
           /\ UNCHANGED cond
  <2>1. cond.futex \in Nat /\ "block" \in Places
    BY <1>0 DEF Shape, CondType, Places
  <2>2. /\ th' \in [Threads -> ThreadType]
        /\ th'[t].at = "block" /\ th'[t].seq = th[t].seq /\ th'[t].bc_seq = th[t].bc_seq
        /\ \A u \in Threads \ {t} : th'[u] = th[u] /\ SameWait(u)
    BY <1>0, <1>3, <2>1, Revalued
  <2>3. Shape'
    BY <1>0, <1>3, <2>2 DEF Shape
  <2>4. ReleaseRight'
    BY <1>3, <2>2 DEF Inv, ReleaseRight, At
  <2>5. \A u \in Threads : SameWait(u)
    BY <1>0, <2>2 DEF SameWait, InsidePlaces
  <2> QED
    BY <1>3, <2>4, <2>5, <2>3, Still
<1> QED
  BY <1>1, <1>2, <1>3 DEF Woken

\* The cleanup handler, which may take a wakeup, bring its own, or need none.
LEMMA CancelInv == ASSUME Inv, NEW t \in Threads, Cancel(t) PROVE Inv'
<1> DEFINE c == IF th[t].bc_seq = cond.broadcast_seq THEN CancelSeq(cond) ELSE cond
<1>0. /\ Shape /\ th[t].at \in {"block", "asleep", "requeued", "woken"} /\ t \in Inside
      /\ \A u \in Threads : ~At(u, "release")
  BY ThreadsAssumption DEF Inv, Cancel, Inside, ReleaseRight, Alone
<1>1. cond' = [c EXCEPT !.nwaiters = c.nwaiters - 1,
                        !.gone = @ \/ DestroyerWoken(c.nwaiters - 1)]
  BY DEF Cancel
<1>2. /\ \A u \in Threads : th'[u] \in ThreadType
      /\ th'[t].at = "cancelled"
      /\ \A u \in Threads \ {t} :
             \/ th'[u] = th[u]
             \/ th[u].at = "asleep" /\ th'[u] = [th[u] EXCEPT !.at = "woken"]
      /\ th' \in [Threads -> ThreadType]
  BY <1>0 DEF Cancel, Shape, CondType, ThreadType, Sleepers, At, Places
<1>3. \A u \in Threads \ {t} : SameWait(u) /\ th'[u].at # "release"
  BY <1>0, <1>2 DEF SameWait, InsidePlaces, Shape, CondType, ThreadType, At
<1>4. ReleaseRight' /\ th'[t].at \notin InsidePlaces
  BY <1>2, <1>3 DEF ReleaseRight, At, InsidePlaces
<1>5. c \in CondType
  <2>1. /\ cond \in CondType /\ cond.wakeup_seq + 1 \in Nat /\ cond.futex + 1 \in Nat
        /\ cond.woken_seq + 1 \in Nat
    BY <1>0 DEF Shape, CondType
  <2>2. /\ [cond EXCEPT !.wakeup_seq = @ + 1, !.futex = @ + 1, !.woken_seq = @ + 1]
              \in CondType
        /\ [cond EXCEPT !.woken_seq = @ + 1] \in CondType
    BY <2>1, Zenon DEF CondType
  <2> QED
    BY <2>1, <2>2 DEF CancelSeq
<1>6. /\ c.total_seq = cond.total_seq /\ c.broadcast_seq = cond.broadcast_seq
       /\ c.nwaiters = cond.nwaiters /\ c.dying = cond.dying /\ c.gone = cond.gone
  BY <1>0 DEF CancelSeq, Shape, CondType
<1>7. \/ t \notin Current /\ c.wakeup_seq = cond.wakeup_seq /\ c.woken_seq = cond.woken_seq
      \/ /\ t \in Current /\ cond.woken_seq < cond.wakeup_seq
         /\ c.wakeup_seq = cond.wakeup_seq /\ c.woken_seq = cond.woken_seq + 1
      \/ /\ t \in Current /\ (cond.dying \/ cond.wakeup_seq < cond.total_seq)
         /\ c.wakeup_seq = cond.wakeup_seq + 1 /\ c.woken_seq = cond.woken_seq + 1
  <2>1. CASE th[t].bc_seq # cond.broadcast_seq
    BY <2>1 DEF Current
  <2>2. CASE /\ th[t].bc_seq = cond.broadcast_seq
             /\ cond.dying \/ cond.wakeup_seq < cond.total_seq
    BY <1>0, <2>2 DEF Current, CancelSeq, Shape, CondType, ThreadType
  <2>3. CASE /\ th[t].bc_seq = cond.broadcast_seq
             /\ ~cond.dying /\ ~(cond.wakeup_seq < cond.total_seq)
    <3>1. t \in Current
      BY <1>0, <2>3 DEF Current
    <3>2. Cardinality(Current) # 0
      BY <3>1, SetsAreFinite, FS_EmptySet
    <3>3. cond.woken_seq < cond.wakeup_seq
      BY <1>0, <2>3, <3>2, SetsAreFinite DEF Inv, Accounted, Shape, CondType, ThreadType
    <3> QED
      BY <1>0, <2>3, <3>1, <3>3 DEF CancelSeq, Shape, CondType, ThreadType
  <2> QED
    BY <2>1, <2>2, <2>3
<1> HIDE DEF c
<1>8. /\ cond'.total_seq = cond.total_seq /\ cond'.broadcast_seq = cond.broadcast_seq
      /\ cond'.nwaiters = cond.nwaiters - 1 /\ cond'.dying = cond.dying
      /\ cond'.gone = (cond.gone \/ (cond.dying /\ cond.nwaiters - 1 = 0))
      /\ cond'.wakeup_seq = c.wakeup_seq /\ cond'.woken_seq = c.woken_seq
  BY <1>1, <1>5, <1>6 DEF DestroyerWoken, CondType
<1>9. Shape'
  <2>1. /\ c.nwaiters - 1 \in Int
        /\ (c.gone \/ DestroyerWoken(c.nwaiters - 1)) \in BOOLEAN
    BY <1>5 DEF CondType, DestroyerWoken
  <2>2. cond' \in CondType
    BY <1>1, <1>5, <2>1, Zenon DEF CondType
  <2> QED
    BY <1>2, <2>2 DEF Shape, ThreadType
<1> QED
  BY <1>0, <1>3, <1>4, <1>7, <1>8, <1>9, Depart

\* pthread_cond_signal.
LEMMA SignalInv == ASSUME Inv, NEW t \in Threads, Signal(t) PROVE Inv'
<1>0. Shape /\ HasWaiters /\ cond' = [cond EXCEPT !.wakeup_seq = @ + 1, !.futex = @ + 1]
  BY DEF Inv, Signal
<1>1. /\ th' \in [Threads -> ThreadType]
      /\ \A u \in Threads : SameWait(u) /\ (At(u, "release")' => At(u, "release"))
  <2>1. CASE UNCHANGED th
    BY <1>0, <2>1 DEF Shape, CondType, ThreadType, SameWait, At
  <2>2. CASE \E u \in Sleepers : Goto(u, "woken")
    <3> PICK u \in Sleepers : Goto(u, "woken")
      BY <2>2
    <3>1. u \in Threads /\ th[u].at = "asleep"
      BY DEF Sleepers, At
    <3>2. /\ th' \in [Threads -> ThreadType]
          /\ th'[u].at = "woken" /\ th'[u].seq = th[u].seq /\ th'[u].bc_seq = th[u].bc_seq
          /\ \A v \in Threads \ {u} : th'[v] = th[v] /\ SameWait(v)
      BY <1>0, <3>1, Moved DEF Places
    <3> QED
      BY <3>1, <3>2 DEF SameWait, InsidePlaces, At
  <2> QED
    BY <2>1, <2>2 DEF Signal
<1>2. Shape'
  <2>1. cond \in CondType /\ cond.wakeup_seq + 1 \in Nat /\ cond.futex + 1 \in Nat
    BY <1>0 DEF Shape, CondType
  <2>2. cond' \in CondType
    BY <1>0, <2>1, Zenon DEF CondType
  <2> QED
    BY <1>1, <2>2 DEF Shape, ThreadType
<1>3. ReleaseRight'
  BY <1>0, <1>1 DEF Inv, ReleaseRight, Shape, CondType, ThreadType
<1> QED
  BY <1>0, <1>1, <1>2, <1>3, Signalled DEF Shape, CondType, ThreadType, HasWaiters

\* pthread_cond_broadcast, up to the requeueing.
LEMMA BroadcastInv == ASSUME Inv, NEW t \in Threads, Broadcast(t) PROVE Inv'
<1>0. /\ Shape /\ HasWaiters /\ th[t].at = "user"
      /\ cond' = [cond EXCEPT !.wakeup_seq = cond.total_seq, !.woken_seq = cond.total_seq,
                              !.futex = 2 * cond.total_seq, !.broadcast_seq = @ + 1]
      /\ th' = [th EXCEPT ![t].at = "requeue", ![t].val = 2 * cond.total_seq]
  BY DEF Inv, Broadcast, MayNotify, At
<1>1. /\ cond \in CondType /\ cond.total_seq \in Nat /\ 2 * cond.total_seq \in Nat
      /\ cond.broadcast_seq + 1 \in Nat /\ "requeue" \in Places
  BY <1>0 DEF Shape, CondType, Places
<1>2. /\ th' \in [Threads -> ThreadType]
      /\ th'[t].at = "requeue" /\ \A u \in Threads \ {t} : th'[u] = th[u] /\ SameWait(u)
  BY <1>0, <1>1, Revalued
<1>3. \A u \in Threads : SameWait(u)
  BY <1>0, <1>2 DEF SameWait, InsidePlaces
<1>4. cond'.lock = cond.lock /\ cond'.dying = cond.dying
  BY <1>0, <1>1 DEF CondType
<1>5. Shape'
  <2>1. cond' \in CondType
    BY <1>0, <1>1, Zenon DEF CondType
  <2> QED
    BY <1>2, <2>1 DEF Shape
<1>6. ReleaseRight'
  BY <1>2, <1>4 DEF Inv, ReleaseRight, At
<1> QED
  BY <1>0, <1>3, <1>5, <1>6, Broadcasted DEF Shape, CondType, HasWaiters

\* The sleepers that a broadcast wakes or requeues wait on.
LEMMA RequeueInv == ASSUME Inv, NEW t \in Threads, Requeue(t) PROVE Inv'
<1>0. Shape /\ th[t].at = "requeue" /\ UNCHANGED cond
  BY DEF Inv, Requeue, At
<1> PICK first \in SUBSET Sleepers :
        th' = [u \in Threads |->
                 IF u = t THEN [th[t] EXCEPT !.at = "user", !.val = 0]
                 ELSE IF u \in first THEN [th[u] EXCEPT !.at = "woken"]
                 ELSE IF u \in Sleepers THEN [th[u] EXCEPT !.at = "requeued"]
                 ELSE th[u]]
  BY DEF Requeue
<1>1. th'[t].at = "user" /\ th'[t] \in ThreadType
  BY <1>0 DEF Shape, CondType, ThreadType, Places
<1>2. ASSUME NEW u \in Threads \ {t}
      PROVE  /\ th'[u] \in ThreadType
             /\ \/ th'[u] = th[u]
                \/ /\ th[u].at = "asleep" /\ th'[u].at \in {"woken", "requeued"}
                   /\ th'[u].seq = th[u].seq /\ th'[u].bc_seq = th[u].bc_seq
  BY <1>0 DEF Shape, CondType, ThreadType, Places, Sleepers, At
<1>3. Shape'
  BY <1>0, <1>1, <1>2 DEF Shape, CondType, ThreadType
<1>4. \A u \in Threads : SameWait(u)
  BY <1>0, <1>1, <1>2 DEF SameWait, InsidePlaces
<1>5. ReleaseRight'
  BY <1>0, <1>1, <1>2 DEF Inv, ReleaseRight, At
<1> QED
  BY <1>0, <1>3, <1>4, <1>5, Still

\* The mark of pthread_cond_destroy; nobody is in the middle of registering.
LEMMA DestroyInv == ASSUME Inv, NEW t \in Threads, Destroy(t) PROVE Inv'
<1>0. /\ Shape /\ th[t].at = "user" /\ \A u \in Threads : ~At(u, "release")
      /\ cond' = [cond EXCEPT !.dying = TRUE, !.gone = cond.nwaiters = 0]
  BY ThreadsAssumption DEF Inv, Destroy, At, ReleaseRight, Alone
<1>1. /\ th' \in [Threads -> ThreadType]
      /\ \A u \in Threads : SameWait(u) /\ th'[u].at # "release"
  <2>1. CASE UNCHANGED th
    BY <1>0, <2>1 DEF Shape, CondType, ThreadType, SameWait, At
  <2>2. CASE Goto(t, "drain")
    <3>1. /\ th' \in [Threads -> ThreadType]
          /\ th'[t].at = "drain" /\ \A v \in Threads \ {t} : th'[v] = th[v] /\ SameWait(v)
      BY <1>0, <2>2, Moved DEF Places
    <3> QED
      BY <1>0, <3>1 DEF SameWait, InsidePlaces, At
  <2> QED
    BY <2>1, <2>2 DEF Destroy
<1>2. Shape'
  BY <1>0, <1>1 DEF Shape, CondType, ThreadType
<1>3. ReleaseRight'
  BY <1>1 DEF ReleaseRight, At
<1> QED
  BY <1>0, <1>1, <1>2, <1>3, Marked DEF Shape, CondType, ThreadType

-----------------------------------------------------------------------------
\* Every step keeps the invariant.
LEMMA NextInv == Inv /\ [Next]_vars => Inv'
<1> SUFFICES ASSUME Inv, [Next]_vars PROVE Inv'
  OBVIOUS
<1>1. CASE UNCHANGED vars
  BY <1>1, Unmoved DEF vars
<1>2. ASSUME NEW t \in Threads,
             \/ Lock(t) \/ Unlock(t) \/ LowLevelStep(t) \/ WaitRefused(t) \/ CancelRelock(t)
      PROVE  Inv'
  BY <1>2, Unmoved DEF Lock, Unlock, LowLevelStep, WaitRefused, CancelRelock, vars
<1>3. ASSUME NEW t \in Threads, FutexWait(t) PROVE Inv'
  BY <1>3, MovedStill DEF FutexWait, At, Places, InsidePlaces
<1>4. ASSUME NEW t \in Threads, FutexInterrupted(t) PROVE Inv'
  BY <1>4, MovedStill DEF FutexInterrupted, At, Places, InsidePlaces
<1>5. ASSUME NEW t \in Threads, RequeuedWakes(t) PROVE Inv'
  BY <1>5, MovedStill DEF RequeuedWakes, At, Places, InsidePlaces
<1>6. ASSUME NEW t \in Threads, Relock(t) PROVE Inv'
  BY <1>6, MovedStill DEF Relock, At, Places, InsidePlaces
<1>7. ASSUME NEW t \in Threads, Destroyed(t) PROVE Inv'
  BY <1>7, MovedStill DEF Destroyed, At, Places, InsidePlaces
<1>8. ASSUME NEW t \in Threads, Return(t) PROVE Inv'
  <2>0. Shape /\ th[t].at = "return" /\ th' = [th EXCEPT ![t] = AtUser] /\ UNCHANGED cond
    BY <1>8 DEF Inv, Return, At
  <2>1. Shape'
    BY <2>0 DEF Shape, CondType, ThreadType, AtUser, Places
  <2>2. th'[t].at = "user" /\ \A u \in Threads \ {t} : th'[u] = th[u]
    BY <2>0 DEF Shape, CondType, ThreadType, AtUser
  <2>3. ReleaseRight' /\ \A u \in Threads : SameWait(u)
    BY <2>0, <2>2 DEF Inv, ReleaseRight, At, SameWait, InsidePlaces
  <2> QED
    BY <2>0, <2>1, <2>3, Still
<1> QED
  BY <1>1, <1>2, <1>3, <1>4, <1>5, <1>6, <1>7, <1>8, WaitBeginInv, WaitRegisterInv,
     WokenInv, CancelInv, SignalInv, BroadcastInv, RequeueInv, DestroyInv
  DEF Next, Call, Inner

\* Inv holds in every reachable state.
THEOREM Invariance == Spec => []Inv
  BY InitInv, NextInv, PTL DEF Spec

\* No wait returns without a wakeup, and no wakeup lacks a taker: signal,
\* broadcast, the departure and the cancellation of a waiter keep the books of
\* __total_seq, __wakeup_seq and __woken_seq.
THEOREM SignalsAccountedHolds == Spec => []SignalsAccounted
<1>1. Inv => SignalsAccounted
  BY DEF Inv, Accounted, SignalsAccounted, Entitled
<1> QED
  BY <1>1, Invariance, PTL

\* pthread_cond_destroy returns when no waiter is left.
THEOREM DestroySafeHolds == Spec => []DestroySafe
<1>1. Inv => DestroySafe
  BY FS_EmptySet DEF Inv, WaitersRight, DestroySafe
<1> QED
  BY <1>1, Invariance, PTL

-----------------------------------------------------------------------------
(***************************************************************************)
(* The queue of the mutex.  A broadcast puts threads to sleep on the word  *)
(* that never looked at it, so what LowLevelLock promises has to be proved *)
(* again: the word excludes, and whoever sleeps on it is woken.            *)
(***************************************************************************)
WordRight == LLL!TypeOK /\ LLL!MutualExclusion

\* Where a thread is in pthread_cond_wait tells where it is on the mutex.
PlaceRight(t) ==
    /\ th[t].at \in {"block", "asleep", "woken", "relock", "cancelled"} => pc[t] = "out"
    /\ At(t, "requeued") =>
          pc[t] \in {"asleep", "xchg"} /\ th[t].bc_seq # cond.broadcast_seq

\* If the word of cond is still what the broadcast has left, nobody has begun
\* to wait since.
RequeueRight(t) ==
    At(t, "requeue") =>
        /\ th[t].val <= cond.futex
        /\ cond.futex = th[t].val => \A u \in Inside : th[u].bc_seq # cond.broadcast_seq

\* The word of cond counts the waits and the wakeups, and never goes back.
FutexRight == cond.futex = cond.total_seq + cond.wakeup_seq

QueueInv == /\ WordRight /\ FutexRight /\ NoWaiterStranded
            /\ \A t \in Threads : PlaceRight(t) /\ RequeueRight(t)

\* Some thread sleeps on the mutex, and nobody in lll_lock or lll_unlock is going
\* to wake it.
Forsaken == /\ LLL!sleeping # {}
            /\ futex # 2 /\ \A t \in Threads : pc[t] \notin {"store", "wake", "xchg"}

\* Then a released waiter must.
LEMMA StrandedIs == NoWaiterStranded <=> (Forsaken => \E t \in Threads : Released(t))
  BY DEF NoWaiterStranded, Forsaken

\* At the start the mutex is free and nobody sleeps.
LEMMA InitQueue == Init => QueueInv
<1> SUFFICES ASSUME Init PROVE QueueInv
  OBVIOUS
<1>1. futex = 0 /\ pc = [t \in Threads |-> "out"]
  BY DEF Init, LLL!Init
<1>2. WordRight
  BY <1>1 DEF WordRight, LLL!TypeOK, LLL!MutualExclusion, LLL!Labels, LLL!Owning
<1>3. LLL!sleeping = {}
  BY <1>1 DEF LLL!sleeping
<1>4. \A t \in Threads : th[t].at = "user"
  BY DEF Init, AtUser
<1>5. FutexRight
  BY DEF Init, FutexRight
<1> QED
  BY <1>2, <1>3, <1>4, <1>5 DEF QueueInv, NoWaiterStranded, PlaceRight, RequeueRight, At

\* A call or an instruction of lll_lock and lll_unlock: it keeps the word right,
\* leaves nobody asleep who was looked after, and moves only its own thread,
\* except for the one it wakes.
LEMMA WordStep ==
    ASSUME WordRight, NEW t \in Threads,
           LLL!lll_lock(t) \/ LLL!lll_cond_lock(t) \/ LLL!lll_unlock(t) \/ LLL!Step(t)
    PROVE  /\ WordRight'
           /\ Forsaken' => Forsaken
           /\ LLL!lll_cond_lock(t) => ~Forsaken'
           /\ \A u \in Threads \ {t} :
                 pc'[u] = pc[u] \/ (pc[u] = "asleep" /\ pc'[u] = "xchg")
<1> USE DEF WordRight, LLL!TypeOK, LLL!MutualExclusion, LLL!Labels, LLL!Owning, LLL!sleeping,
            LLL!Goto, Forsaken
<1>1. CASE LLL!lll_lock(t)
  BY <1>1 DEF LLL!lll_lock, LLL!lll_cond_lock, LLL!CmpXchgOrWait
<1>2. CASE LLL!lll_cond_lock(t)
  BY <1>2 DEF LLL!lll_cond_lock, LLL!CmpXchgOrWait
<1>3. CASE LLL!lll_unlock(t)
  BY <1>3 DEF LLL!lll_unlock, LLL!lll_cond_lock, LLL!CmpXchgOrWait
<1>4. CASE LLL!FutexWait(t)
  BY <1>4 DEF LLL!FutexWait, LLL!lll_cond_lock, LLL!CmpXchgOrWait
<1>5. CASE LLL!LockXchg(t)
  BY <1>5 DEF LLL!LockXchg, LLL!lll_cond_lock, LLL!CmpXchgOrWait
<1>6. CASE LLL!UnlockStore(t)
  BY <1>6 DEF LLL!UnlockStore, LLL!lll_cond_lock, LLL!CmpXchgOrWait
<1>7. CASE LLL!UnlockWake(t)
  BY <1>7 DEF LLL!UnlockWake, LLL!lll_cond_lock, LLL!CmpXchgOrWait
<1> QED
  BY <1>1, <1>2, <1>3, <1>4, <1>5, <1>6, <1>7 DEF LLL!Step

\* Nothing on the mutex changes.
LEMMA WordStill ==
    ASSUME WordRight, UNCHANGED <<futex, pc>>
    PROVE  WordRight' /\ (Forsaken' <=> Forsaken)
  BY DEF WordRight, LLL!TypeOK, LLL!MutualExclusion, LLL!sleeping, Forsaken

\* What a broadcast has left stays recognisable: nobody registers without
\* changing the word of cond.
LEMMA RequeueKept ==
    ASSUME Inv, Shape', QueueInv, cond'.broadcast_seq = cond.broadcast_seq,
           \/ cond'.futex > cond.futex
           \/ /\ cond'.futex = cond.futex
              /\ \A u \in Threads : th'[u].at \in InsidePlaces =>
                    th[u].at \in InsidePlaces /\ th'[u].bc_seq = th[u].bc_seq,
           \A u \in Threads : th'[u].at = "requeue" =>
                    th[u].at = "requeue" /\ th'[u].val = th[u].val
    PROVE  \A u \in Threads : RequeueRight(u)'
<1> SUFFICES ASSUME NEW u \in Threads, th'[u].at = "requeue"
             PROVE  /\ th'[u].val <= cond'.futex
                    /\ cond'.futex = th'[u].val =>
                          \A v \in Inside' : th'[v].bc_seq # cond'.broadcast_seq
  BY DEF RequeueRight, At
<1>1. /\ th'[u].val = th[u].val /\ th[u].val <= cond.futex
      /\ cond.futex = th[u].val => \A v \in Inside : th[v].bc_seq # cond.broadcast_seq
  BY DEF QueueInv, RequeueRight, At
<1>2. cond.futex \in Nat /\ cond'.futex \in Nat /\ th[u].val \in Nat
  BY DEF Inv, Shape, CondType, ThreadType
<1>3. CASE cond'.futex > cond.futex
  BY <1>1, <1>2, <1>3
<1>4. CASE /\ cond'.futex = cond.futex
           /\ \A v \in Threads : th'[v].at \in InsidePlaces =>
                 th[v].at \in InsidePlaces /\ th'[v].bc_seq = th[v].bc_seq
  BY <1>1, <1>2, <1>4, InsideIs
<1> QED
  BY <1>3, <1>4


\* A thread that does not move in CondWait keeps its place on the mutex, and a
\* released waiter stays released: broadcast_seq only grows.
LEMMA OtherKept ==
    ASSUME Inv, Shape', QueueInv, NEW u \in Threads, th'[u] = th[u],
           pc'[u] = pc[u] \/ (pc[u] = "asleep" /\ pc'[u] = "xchg"),
           cond'.broadcast_seq >= cond.broadcast_seq
    PROVE  PlaceRight(u)' /\ (Released(u) => Released(u)')
<1>1. th[u].at \in InsidePlaces => th[u].bc_seq <= cond.broadcast_seq
  BY InsideIs DEF Inv, SeqsRight
<1>2. th[u].bc_seq \in Nat /\ cond.broadcast_seq \in Nat /\ cond'.broadcast_seq \in Nat
  BY DEF Inv, Shape, CondType, ThreadType
<1>3. PlaceRight(u)
  BY DEF QueueInv
<1> QED
  BY <1>1, <1>2, <1>3 DEF PlaceRight, Released, At, InsidePlaces

\* One thread moves, and the mutex stays as it is.
LEMMA OneMoves ==
    ASSUME Inv, Shape', QueueInv, NEW t \in Threads, UNCHANGED <<futex, pc>>,
           \A u \in Threads \ {t} : th'[u] = th[u],
           cond'.broadcast_seq >= cond.broadcast_seq,
           PlaceRight(t)', Released(t) => Released(t)',
           FutexRight', \A u \in Threads : RequeueRight(u)'
    PROVE  QueueInv'
<1>1. \A u \in Threads : PlaceRight(u)' /\ (Released(u) => Released(u)')
  BY OtherKept
<1>2. WordRight' /\ (Forsaken' <=> Forsaken)
  BY WordStill DEF QueueInv
<1>3. NoWaiterStranded'
  BY <1>1, <1>2, StrandedIs DEF QueueInv, NoWaiterStranded, Forsaken
<1> QED
  BY <1>1, <1>2, <1>3 DEF QueueInv

\* Calls of the program and steps inside of them: only the mutex changes.
LEMMA MutexQueue ==
    ASSUME Inv, Inv', QueueInv, NEW t \in Threads, Lock(t) \/ Unlock(t) \/ LowLevelStep(t)
    PROVE  QueueInv'
<1>1. th' = th /\ cond' = cond
  BY DEF Lock, Unlock, LowLevelStep
<1>2. LLL!lll_lock(t) \/ LLL!lll_unlock(t) \/ LLL!Step(t)
  BY DEF Lock, Unlock, LowLevelStep
<1>3. /\ WordRight' /\ (Forsaken' => Forsaken)
      /\ \A u \in Threads \ {t} :
            pc'[u] = pc[u] \/ (pc[u] = "asleep" /\ pc'[u] = "xchg")
  BY <1>2, WordStep DEF QueueInv
<1>4. th[t].at \notin {"block", "asleep", "woken", "relock", "cancelled", "requeued"}
  <2>1. CASE At(t, "user")
    BY <2>1 DEF At
  <2>2. CASE LowLevelStep(t)
    <3>1. ~At(t, "requeued") /\ pc[t] # "out"
      BY <2>2 DEF LowLevelStep, LLL!Step, LLL!FutexWait, LLL!LockXchg, LLL!UnlockStore,
                  LLL!UnlockWake
    <3> QED
      BY <3>1 DEF QueueInv, PlaceRight, At
  <2> QED
    BY <2>1, <2>2 DEF Lock, Unlock
<1>5. \A u \in Threads : PlaceRight(u)'
  <2>1. PlaceRight(t)'
    BY <1>1, <1>4 DEF PlaceRight, At
  <2>2. \A u \in Threads \ {t} : PlaceRight(u)'
    BY <1>1, <1>3, OtherKept DEF Inv, Shape, CondType
  <2> QED
    BY <2>1, <2>2
<1>6. NoWaiterStranded'
  BY <1>1, <1>3 DEF QueueInv, NoWaiterStranded, Forsaken, Released, At
<1>7. FutexRight' /\ \A u \in Threads : RequeueRight(u)'
  BY <1>1 DEF QueueInv, FutexRight, RequeueRight, Inside, At
<1> QED
  BY <1>3, <1>5, <1>6, <1>7 DEF QueueInv

\* The mutex is given back by a waiter.
LEMMA WaitBeginQueue ==
    ASSUME Inv, Inv', QueueInv, NEW t \in Threads, WaitBegin(t) PROVE QueueInv'
<1>1. /\ th[t].at = "user" /\ Goto(t, "release") /\ cond' = [cond EXCEPT !.lock = t]
      /\ LLL!lll_unlock(t) /\ Shape /\ Shape'
  BY DEF WaitBegin, At, Inv
<1>2. th'[t].at = "release" /\ \A u \in Threads \ {t} : th'[u] = th[u]
  BY <1>1, Moved DEF Places
<1>3. /\ cond'.broadcast_seq = cond.broadcast_seq /\ cond'.futex = cond.futex
      /\ cond'.total_seq = cond.total_seq /\ cond'.wakeup_seq = cond.wakeup_seq
      /\ cond.broadcast_seq \in Nat
  BY <1>1 DEF Shape, CondType
<1>4. /\ WordRight' /\ (Forsaken' => Forsaken)
      /\ \A u \in Threads \ {t} :
            pc'[u] = pc[u] \/ (pc[u] = "asleep" /\ pc'[u] = "xchg")
  BY <1>1, WordStep DEF QueueInv
<1>5. PlaceRight(t)' /\ ~Released(t)
  BY <1>1, <1>2 DEF PlaceRight, Released, At
<1>6. \A u \in Threads : PlaceRight(u)' /\ (Released(u) => Released(u)')
  BY <1>1, <1>2, <1>3, <1>4, <1>5, OtherKept
<1>7. NoWaiterStranded'
  BY <1>4, <1>6 DEF QueueInv, NoWaiterStranded, Forsaken
<1>8. FutexRight'
  BY <1>3 DEF QueueInv, FutexRight
<1>9. \A u \in Threads : RequeueRight(u)'
  BY <1>1, <1>2, <1>3, RequeueKept DEF InsidePlaces
<1> QED
  BY <1>4, <1>6, <1>7, <1>8, <1>9 DEF QueueInv

\* A waiter registers: the word of cond changes.
LEMMA WaitRegisterQueue ==
    ASSUME Inv, Inv', QueueInv, NEW t \in Threads, WaitRegister(t) PROVE QueueInv'
<1>1. /\ th[t].at = "release" /\ pc[t] = "out" /\ Shape /\ Shape' /\ UNCHANGED <<futex, pc>>
      /\ cond' = [cond EXCEPT !.total_seq = @ + 1, !.futex = @ + 1, !.nwaiters = @ + 1,
                              !.lock = Nobody]
      /\ th' = [th EXCEPT ![t] = [at |-> "block", seq |-> cond.wakeup_seq,
                                  bc_seq |-> cond.broadcast_seq, val |-> cond'.futex]]
  BY DEF WaitRegister, Registered, Inv, At, lockVars, Shape, CondType
<1>2. th'[t].at = "block" /\ \A u \in Threads \ {t} : th'[u] = th[u]
  BY <1>1 DEF Shape
<1>3. /\ cond'.broadcast_seq = cond.broadcast_seq /\ cond'.futex = cond.futex + 1
      /\ cond'.total_seq = cond.total_seq + 1 /\ cond'.wakeup_seq = cond.wakeup_seq
      /\ cond.broadcast_seq \in Nat /\ cond.futex \in Nat /\ cond.total_seq \in Nat
      /\ cond.wakeup_seq \in Nat
  BY <1>1 DEF Shape, CondType
<1>4. PlaceRight(t)' /\ ~Released(t)
  BY <1>1, <1>2 DEF PlaceRight, Released, At
<1>5. FutexRight'
  BY <1>3 DEF QueueInv, FutexRight
<1>6. \A u \in Threads : RequeueRight(u)'
  BY <1>1, <1>2, <1>3, RequeueKept
<1> QED
  BY <1>1, <1>2, <1>3, <1>4, <1>5, <1>6, OneMoves

\* A waiter goes to sleep or wakes up, or the destroyer goes on: neither cond nor
\* the mutex changes.
LEMMA MovedQueue ==
    ASSUME Inv, Inv', QueueInv, NEW t \in Threads,
           NEW label \in Places \ {"requeue", "requeued"}, Goto(t, label),
           UNCHANGED <<futex, pc, cond>>,
           label \in InsidePlaces => th[t].at \in InsidePlaces,
           label \in {"block", "asleep", "woken", "relock", "cancelled"} => pc[t] = "out",
           ~Released(t)
    PROVE  QueueInv'
<1>1. Shape /\ Shape'
  BY DEF Inv
<1>2. /\ th'[t].at = label /\ th'[t].bc_seq = th[t].bc_seq
      /\ \A u \in Threads \ {t} : th'[u] = th[u]
  BY <1>1, Moved
<1>3. cond.broadcast_seq \in Nat
  BY <1>1 DEF Shape, CondType
<1>4. PlaceRight(t)' /\ FutexRight'
  BY <1>2 DEF PlaceRight, At, QueueInv, FutexRight
<1>5. \A u \in Threads : RequeueRight(u)'
  BY <1>1, <1>2, RequeueKept
<1> QED
  BY <1>1, <1>2, <1>3, <1>4, <1>5, OneMoves

\* Leaving the queue of the mutex without it does not disturb the word.
LEMMA BackFromQueue ==
    ASSUME WordRight, NEW t \in Threads, pc[t] \in {"out", "asleep", "xchg"},
           UNCHANGED futex, pc' = [pc EXCEPT ![t] = "out"]
    PROVE  WordRight' /\ pc'[t] = "out" /\ \A u \in Threads \ {t} : pc'[u] = pc[u]
  BY DEF WordRight, LLL!TypeOK, LLL!MutualExclusion, LLL!Labels, LLL!Owning

\* A requeued waiter comes back from the queue of the mutex without it, woken or
\* interrupted.
LEMMA RequeuedBackQueue ==
    ASSUME Inv, Inv', QueueInv, NEW t \in Threads, th[t].at = "requeued",
           pc' = [pc EXCEPT ![t] = "out"], Goto(t, "woken"), UNCHANGED <<futex, cond>>
    PROVE  QueueInv'
<1>1. Shape /\ Shape' /\ pc[t] \in {"out", "asleep", "xchg"}
  BY DEF Inv, QueueInv, PlaceRight, At
<1>2. /\ th'[t].at = "woken" /\ th'[t].bc_seq = th[t].bc_seq
      /\ \A u \in Threads \ {t} : th'[u] = th[u]
  BY <1>1, Moved DEF Places
<1>3. WordRight' /\ pc'[t] = "out" /\ \A u \in Threads \ {t} : pc'[u] = pc[u]
  BY <1>1, BackFromQueue DEF QueueInv
<1>4. th[t].bc_seq # cond.broadcast_seq
  BY <1>1 DEF QueueInv, PlaceRight, At
<1>5. PlaceRight(t)' /\ Released(t)'
  BY <1>1, <1>2, <1>3, <1>4 DEF PlaceRight, Released, At
<1>6. \A u \in Threads : PlaceRight(u)'
  BY <1>1, <1>2, <1>3, <1>5, OtherKept DEF Shape, CondType
<1>7. NoWaiterStranded'
  BY <1>5 DEF NoWaiterStranded
<1>8. \A u \in Threads : RequeueRight(u)'
  BY <1>1, <1>2, RequeueKept DEF InsidePlaces
<1>9. FutexRight'
  BY <1>1 DEF QueueInv, FutexRight
<1> QED
  BY <1>3, <1>6, <1>7, <1>8, <1>9 DEF QueueInv

\* A released waiter goes for the mutex; any other that leaves does so too, and
\* one that does not stays where it is.
LEMMA WokenQueue ==
    ASSUME Inv, Inv', QueueInv, NEW t \in Threads, Woken(t) PROVE QueueInv'
<1>1. th[t].at = "woken" /\ UNCHANGED <<futex, pc>> /\ Shape /\ Shape' /\ pc[t] = "out"
  BY DEF Woken, At, Inv, lockVars, QueueInv, PlaceRight
<1>2. /\ cond'.broadcast_seq = cond.broadcast_seq /\ cond'.futex = cond.futex
      /\ cond'.total_seq = cond.total_seq /\ cond'.wakeup_seq = cond.wakeup_seq
      /\ cond.broadcast_seq \in Nat
  BY <1>1 DEF Woken, Leave, Shape, CondType
<1>3. \/ Goto(t, "relock")
      \/ /\ th' = [th EXCEPT ![t].at = "block", ![t].val = cond.futex]
         /\ th[t].bc_seq = cond.broadcast_seq
  BY DEF Woken, Leave
<1>4. CASE Goto(t, "relock")
  <2>1. th'[t].at = "relock" /\ \A u \in Threads \ {t} : th'[u] = th[u]
    BY <1>1, <1>4, Moved DEF Places
  <2>2. PlaceRight(t)' /\ Released(t)' /\ FutexRight'
    BY <1>1, <1>2, <2>1 DEF PlaceRight, Released, At, QueueInv, FutexRight
  <2>3. \A u \in Threads : RequeueRight(u)'
    BY <1>1, <1>2, <2>1, RequeueKept DEF InsidePlaces
  <2> QED
    BY <1>1, <1>2, <2>1, <2>2, <2>3, OneMoves
<1>5. CASE /\ th' = [th EXCEPT ![t].at = "block", ![t].val = cond.futex]
           /\ th[t].bc_seq = cond.broadcast_seq
  <2>1. cond.futex \in Nat /\ "block" \in Places
    BY <1>1 DEF Shape, CondType, Places
  <2>2. /\ th'[t].at = "block" /\ th'[t].bc_seq = th[t].bc_seq
        /\ \A u \in Threads \ {t} : th'[u] = th[u]
    BY <1>1, <1>5, <2>1, Revalued
  <2>3. PlaceRight(t)' /\ ~Released(t) /\ FutexRight'
    BY <1>1, <1>2, <1>5, <2>2 DEF PlaceRight, Released, At, QueueInv, FutexRight
  <2>4. \A u \in Threads : RequeueRight(u)'
    BY <1>1, <1>2, <2>2, RequeueKept DEF InsidePlaces
  <2> QED
    BY <1>1, <1>2, <2>2, <2>3, <2>4, OneMoves
<1> QED
  BY <1>3, <1>4, <1>5

\* The mutex is taken with 2, so that nobody is left asleep.
LEMMA RelockQueue ==
    ASSUME Inv, Inv', QueueInv, NEW t \in Threads, Relock(t) PROVE QueueInv'
<1>1. /\ th[t].at = "relock" /\ Goto(t, "return") /\ LLL!lll_cond_lock(t)
      /\ cond' = cond /\ Shape /\ Shape'
  BY DEF Relock, At, Inv
<1>2. th'[t].at = "return" /\ \A u \in Threads \ {t} : th'[u] = th[u]
  BY <1>1, Moved DEF Places
<1>3. /\ WordRight' /\ ~Forsaken'
      /\ \A u \in Threads \ {t} :
            pc'[u] = pc[u] \/ (pc[u] = "asleep" /\ pc'[u] = "xchg")
  BY <1>1, WordStep DEF QueueInv
<1>4. PlaceRight(t)'
  BY <1>2 DEF PlaceRight, At
<1>5. \A u \in Threads : PlaceRight(u)'
  BY <1>1, <1>2, <1>3, <1>4, OtherKept DEF Shape, CondType
<1>6. NoWaiterStranded'
  BY <1>3 DEF NoWaiterStranded, Forsaken
<1>7. \A u \in Threads : RequeueRight(u)'
  BY <1>1, <1>2, RequeueKept DEF InsidePlaces
<1>8. FutexRight'
  BY <1>1 DEF QueueInv, FutexRight
<1> QED
  BY <1>3, <1>5, <1>6, <1>7, <1>8 DEF QueueInv

\* The wait returns.
LEMMA ReturnQueue ==
    ASSUME Inv, Inv', QueueInv, NEW t \in Threads, Return(t) PROVE QueueInv'
<1>1. /\ th[t].at = "return" /\ th' = [th EXCEPT ![t] = AtUser]
      /\ UNCHANGED <<futex, pc, cond>> /\ Shape /\ Shape'
  BY DEF Return, At, Inv, lockVars
<1>2. th'[t].at = "user" /\ \A u \in Threads \ {t} : th'[u] = th[u]
  BY <1>1 DEF Shape, AtUser
<1>3. PlaceRight(t)' /\ ~Released(t) /\ FutexRight' /\ cond.broadcast_seq \in Nat
  BY <1>1, <1>2 DEF PlaceRight, Released, At, QueueInv, FutexRight, Shape, CondType
<1>4. \A u \in Threads : RequeueRight(u)'
  BY <1>1, <1>2, RequeueKept DEF InsidePlaces
<1> QED
  BY <1>1, <1>2, <1>3, <1>4, OneMoves

\* Sleepers on cond are woken, or moved to the queue of the mutex, by another
\* thread: what that does to them, and to a released waiter.
LEMMA WokenOnes ==
    ASSUME Inv, Inv', QueueInv, NEW u \in Threads, pc'[u] = pc[u],
           th'[u] = th[u] \/ (th[u].at = "asleep" /\ th'[u] = [th[u] EXCEPT !.at = "woken"]),
           cond'.broadcast_seq >= cond.broadcast_seq
    PROVE  PlaceRight(u)' /\ (Released(u) => Released(u)')
<1>1. CASE th'[u] = th[u]
  BY <1>1, OtherKept DEF Inv
<1>2. CASE th[u].at = "asleep" /\ th'[u] = [th[u] EXCEPT !.at = "woken"]
  <2>1. th'[u].at = "woken"
    BY <1>2 DEF Inv, Shape, ThreadType
  <2> QED
    BY <1>2, <2>1 DEF QueueInv, PlaceRight, Released, At
<1> QED
  BY <1>1, <1>2

\* A waiter that is cancelled wakes everybody on cond.
LEMMA CancelQueue ==
    ASSUME Inv, Inv', QueueInv, NEW t \in Threads, Cancel(t) PROVE QueueInv'
<1> DEFINE c == IF th[t].bc_seq = cond.broadcast_seq THEN CancelSeq(cond) ELSE cond
<1>1. /\ th[t].at \in {"block", "asleep", "requeued", "woken"} /\ Shape /\ Shape'
      /\ UNCHANGED futex /\ pc' = [pc EXCEPT ![t] = "out"]
      /\ pc[t] \in {"out", "asleep", "xchg"}
  BY DEF Cancel, Inv, QueueInv, PlaceRight, At
<1>13. WordRight' /\ pc'[t] = "out" /\ \A u \in Threads \ {t} : pc'[u] = pc[u]
  BY <1>1, BackFromQueue DEF QueueInv
<1>2. /\ th'[t].at = "cancelled"
      /\ \A u \in Threads \ {t} :
             \/ th'[u] = th[u]
             \/ th[u].at = "asleep" /\ th'[u] = [th[u] EXCEPT !.at = "woken"]
  BY <1>1 DEF Cancel, Shape, ThreadType, Sleepers, At
<1>3. cond' = [c EXCEPT !.nwaiters = c.nwaiters - 1,
                        !.gone = @ \/ DestroyerWoken(c.nwaiters - 1)]
  BY DEF Cancel
<1>4. /\ cond.broadcast_seq \in Nat /\ cond.futex \in Nat /\ cond.total_seq \in Nat
      /\ cond.wakeup_seq \in Nat
  BY <1>1 DEF Shape, CondType
<1>5. /\ c.broadcast_seq = cond.broadcast_seq /\ c.total_seq = cond.total_seq
      /\ \/ c.futex = cond.futex /\ c.wakeup_seq = cond.wakeup_seq
         \/ c.futex = cond.futex + 1 /\ c.wakeup_seq = cond.wakeup_seq + 1
      /\ DOMAIN c = DOMAIN cond
  BY <1>1 DEF CancelSeq, Shape, CondType
<1> HIDE DEF c
<1>6. /\ cond'.broadcast_seq = c.broadcast_seq /\ cond'.total_seq = c.total_seq
      /\ cond'.futex = c.futex /\ cond'.wakeup_seq = c.wakeup_seq
  BY <1>1, <1>3, <1>5 DEF Shape, CondType
<1>7. PlaceRight(t)' /\ Released(t)'
  BY <1>1, <1>2, <1>13 DEF PlaceRight, Released, At
<1>8. \A u \in Threads : PlaceRight(u)' /\ (u # t /\ Released(u) => Released(u)')
  <2>1. cond'.broadcast_seq >= cond.broadcast_seq
    BY <1>4, <1>5, <1>6
  <2>2. ASSUME NEW u \in Threads \ {t} PROVE PlaceRight(u)' /\ (Released(u) => Released(u)')
    BY <1>13, <1>2, <2>1, <2>2, WokenOnes
  <2> QED
    BY <1>7, <2>2
<1>9. FutexRight'
  BY <1>4, <1>5, <1>6 DEF QueueInv, FutexRight
<1>10. \A u \in Threads : /\ th'[u].at \in InsidePlaces =>
                                th[u].at \in InsidePlaces /\ th'[u].bc_seq = th[u].bc_seq
                          /\ th'[u].at = "requeue" =>
                                th[u].at = "requeue" /\ th'[u].val = th[u].val
  BY <1>1, <1>2 DEF InsidePlaces, Shape, ThreadType
<1>11. \A u \in Threads : RequeueRight(u)'
  BY <1>1, <1>4, <1>5, <1>6, <1>10, RequeueKept
<1>12. NoWaiterStranded'
  BY <1>7 DEF NoWaiterStranded
<1> QED
  BY <1>8, <1>9, <1>11, <1>12, <1>13 DEF QueueInv

\* pthread_cond_signal.
LEMMA SignalQueue ==
    ASSUME Inv, Inv', QueueInv, NEW t \in Threads, Signal(t) PROVE QueueInv'
<1>1. /\ cond' = [cond EXCEPT !.wakeup_seq = @ + 1, !.futex = @ + 1]
      /\ UNCHANGED <<futex, pc>> /\ Shape /\ Shape'
  BY DEF Signal, Inv, lockVars
<1>2. \A u \in Threads :
          \/ th'[u] = th[u]
          \/ th[u].at = "asleep" /\ th'[u] = [th[u] EXCEPT !.at = "woken"]
  BY <1>1 DEF Signal, Goto, Sleepers, At, Shape
<1>3. /\ cond'.broadcast_seq = cond.broadcast_seq /\ cond'.total_seq = cond.total_seq
      /\ cond'.futex = cond.futex + 1 /\ cond'.wakeup_seq = cond.wakeup_seq + 1
      /\ cond.broadcast_seq \in Nat /\ cond.futex \in Nat /\ cond.total_seq \in Nat
      /\ cond.wakeup_seq \in Nat
  BY <1>1 DEF Shape, CondType
<1>4. \A u \in Threads : PlaceRight(u)' /\ (Released(u) => Released(u)')
  <2>1. cond'.broadcast_seq >= cond.broadcast_seq
    BY <1>3
  <2>2. ASSUME NEW u \in Threads PROVE PlaceRight(u)' /\ (Released(u) => Released(u)')
    BY <1>1, <1>2, <2>1, <2>2, WokenOnes
  <2> QED
    BY <2>2
<1>5. \A u \in Threads : th'[u].at = "requeue" => th[u].at = "requeue" /\ th'[u].val = th[u].val
  BY <1>1, <1>2 DEF Shape, ThreadType
<1>6. \A u \in Threads : RequeueRight(u)'
  BY <1>1, <1>3, <1>5, RequeueKept
<1>7. WordRight' /\ NoWaiterStranded'
  BY <1>1, <1>4, WordStill DEF QueueInv, NoWaiterStranded, Forsaken
<1>8. FutexRight'
  BY <1>3 DEF QueueInv, FutexRight
<1> QED
  BY <1>4, <1>6, <1>7, <1>8 DEF QueueInv

\* pthread_cond_broadcast: everybody who waits is released, and the word of cond
\* becomes one that it never was.
LEMMA BroadcastQueue ==
    ASSUME Inv, Inv', QueueInv, NEW t \in Threads, Broadcast(t) PROVE QueueInv'
<1>1. /\ th[t].at = "user" /\ cond.total_seq > cond.wakeup_seq
      /\ cond' = [cond EXCEPT !.wakeup_seq = cond.total_seq, !.woken_seq = cond.total_seq,
                              !.futex = 2 * cond.total_seq, !.broadcast_seq = @ + 1]
      /\ th' = [th EXCEPT ![t].at = "requeue", ![t].val = 2 * cond.total_seq]
      /\ UNCHANGED <<futex, pc>> /\ Shape /\ Shape'
  BY DEF Broadcast, MayNotify, HasWaiters, At, Inv, lockVars
<1>2. /\ cond.broadcast_seq \in Nat /\ cond.futex \in Nat /\ cond.total_seq \in Nat
      /\ cond.wakeup_seq \in Nat
      /\ cond'.broadcast_seq = cond.broadcast_seq + 1 /\ cond'.futex = 2 * cond.total_seq
      /\ cond'.total_seq = cond.total_seq /\ cond'.wakeup_seq = cond.total_seq
  BY <1>1 DEF Shape, CondType
<1>3. 2 * cond.total_seq \in Nat /\ "requeue" \in Places
  BY <1>2 DEF Places
<1>4. /\ th'[t].at = "requeue" /\ th'[t].val = 2 * cond.total_seq
      /\ \A u \in Threads \ {t} : th'[u] = th[u]
  <2>1. th = [u \in Threads |-> th[u]] /\ DOMAIN th[t] = {"at", "seq", "bc_seq", "val"}
    BY <1>1 DEF Shape, ThreadType
  <2> QED
    BY <1>1, <2>1
<1>5. FutexRight' /\ cond'.futex > cond.futex
  BY <1>1, <1>2 DEF QueueInv, FutexRight
<1>6. PlaceRight(t)' /\ ~Released(t) /\ cond'.broadcast_seq >= cond.broadcast_seq
  BY <1>1, <1>2, <1>4 DEF PlaceRight, Released, At
<1>7. \A u \in Inside' : th'[u].bc_seq # cond'.broadcast_seq
  <2> SUFFICES ASSUME NEW u \in Inside' PROVE th'[u].bc_seq # cond'.broadcast_seq
    OBVIOUS
  <2>1. u \in Threads /\ u # t
    BY <1>4, InsideIs DEF InsidePlaces
  <2>2. th'[u] = th[u] /\ u \in Inside
    BY <1>4, <2>1, InsideIs
  <2>3. th[u].bc_seq <= cond.broadcast_seq /\ th[u].bc_seq \in Nat
    BY <1>1, <2>1, <2>2 DEF Inv, SeqsRight, Shape, ThreadType
  <2> QED
    BY <1>2, <2>2, <2>3
<1>8. \A u \in Threads : RequeueRight(u)'
  <2> SUFFICES ASSUME NEW u \in Threads, th'[u].at = "requeue" PROVE th'[u].val <= cond'.futex
    BY <1>7 DEF RequeueRight, At
  <2>1. CASE u = t
    BY <1>2, <1>4, <2>1
  <2>2. CASE u # t
    <3>1. th'[u].val = th[u].val /\ th[u].val <= cond.futex /\ th[u].val \in Nat
      BY <1>1, <1>4, <2>2 DEF QueueInv, RequeueRight, At, Shape, ThreadType
    <3> QED
      BY <1>2, <1>5, <3>1
  <2> QED
    BY <2>1, <2>2
<1> QED
  BY <1>1, <1>4, <1>5, <1>6, <1>8, OneMoves

\* The rest of pthread_cond_broadcast.  Whenever it moves a waiter to the mutex it
\* also wakes one, which the broadcast has released.
LEMMA RequeueQueue ==
    ASSUME Inv, Inv', QueueInv, NEW t \in Threads, Requeue(t) PROVE QueueInv'
<1>1. th[t].at = "requeue" /\ UNCHANGED <<futex, cond>> /\ Shape /\ Shape'
  BY DEF Requeue, At, Inv
<1>2. PICK first \in SUBSET Sleepers :
         /\ IF cond.futex = th[t].val /\ Sleepers # {} THEN Cardinality(first) = 1
                                                       ELSE first = Sleepers
         /\ th' = [u \in Threads |->
                     IF u = t THEN [th[t] EXCEPT !.at = "user", !.val = 0]
                     ELSE IF u \in first THEN [th[u] EXCEPT !.at = "woken"]
                     ELSE IF u \in Sleepers THEN [th[u] EXCEPT !.at = "requeued"]
                     ELSE th[u]]
         /\ pc' = [u \in Threads |-> IF u \in Sleepers \ first THEN "asleep" ELSE pc[u]]
  BY DEF Requeue
<1>3. t \notin Sleepers /\ \A u \in Sleepers : u \in Threads /\ th[u].at = "asleep" /\ pc[u] = "out"
  BY <1>1 DEF Sleepers, At, QueueInv, PlaceRight
<1>4. /\ th'[t].at = "user"
      /\ \A u \in Threads \ {t} :
            /\ th'[u].bc_seq = th[u].bc_seq /\ th'[u].val = th[u].val
            /\ u \in first => th'[u].at = "woken" /\ pc'[u] = pc[u]
            /\ u \in Sleepers \ first => th'[u].at = "requeued" /\ pc'[u] = "asleep"
            /\ u \notin Sleepers => th'[u] = th[u] /\ pc'[u] = pc[u]
  BY <1>1, <1>2, <1>3 DEF Shape, ThreadType
<1>5. Sleepers \ first # {} =>
         /\ \E v \in first : TRUE
         /\ \A u \in Inside : th[u].bc_seq # cond.broadcast_seq
  <2> SUFFICES ASSUME Sleepers \ first # {}
               PROVE  /\ \E v \in first : TRUE
                      /\ \A u \in Inside : th[u].bc_seq # cond.broadcast_seq
    OBVIOUS
  <2>1. cond.futex = th[t].val /\ Cardinality(first) = 1
    BY <1>2
  <2>2. first # {}
    BY <2>1, FS_EmptySet
  <2> QED
    BY <1>1, <2>1, <2>2 DEF QueueInv, RequeueRight, At
<1>6. \A u \in Sleepers : u \in Inside
  BY <1>3, InsideIs DEF InsidePlaces
<1>7. WordRight'
  <2>1. pc' \in [Threads -> LLL!Labels] /\ LLL!TypeOK
    BY <1>2 DEF QueueInv, WordRight, LLL!TypeOK, LLL!Labels
  <2>2. \A u \in Threads : pc'[u] \in LLL!Owning <=> pc[u] \in LLL!Owning
    BY <1>2, <1>3 DEF LLL!Owning
  <2> QED
    BY <1>1, <2>1, <2>2 DEF QueueInv, WordRight, LLL!TypeOK, LLL!MutualExclusion
<1>8. \A u \in Threads : PlaceRight(u)' /\ (Released(u) => Released(u)')
  <2> SUFFICES ASSUME NEW u \in Threads PROVE PlaceRight(u)' /\ (Released(u) => Released(u)')
    OBVIOUS
  <2>1. CASE u = t
    BY <1>1, <1>4, <2>1 DEF PlaceRight, Released, At
  <2>2. CASE u \in first
    BY <1>2, <1>3, <1>4, <2>2 DEF PlaceRight, Released, At
  <2>3. CASE u \in Sleepers \ first
    BY <1>1, <1>3, <1>4, <1>5, <1>6, <2>3 DEF PlaceRight, Released, At
  <2>4. CASE u # t /\ u \notin Sleepers
    BY <1>1, <1>4, <2>4 DEF QueueInv, PlaceRight, Released, At
  <2> QED
    BY <1>2, <2>1, <2>2, <2>3, <2>4
<1>9. NoWaiterStranded'
  <2>1. CASE Sleepers \ first = {}
    <3>1. pc' = pc
      BY <1>2, <2>1 DEF QueueInv, WordRight, LLL!TypeOK
    <3> QED
      BY <1>1, <1>8, <3>1 DEF QueueInv, NoWaiterStranded, LLL!sleeping
  <2>2. CASE Sleepers \ first # {}
    <3>1. PICK v \in first : th[v].bc_seq # cond.broadcast_seq
      BY <1>2, <1>5, <1>6, <2>2
    <3>2. Released(v)'
      BY <1>1, <1>2, <1>3, <1>4, <3>1 DEF Released, At
    <3> QED
      BY <1>2, <1>3, <3>2 DEF NoWaiterStranded
  <2> QED
    BY <2>1, <2>2
<1>10. \A u \in Threads : RequeueRight(u)'
  <2>1. \A u \in Threads : th'[u].at \in InsidePlaces =>
             th[u].at \in InsidePlaces /\ th'[u].bc_seq = th[u].bc_seq
    BY <1>1, <1>3, <1>4, <1>2 DEF InsidePlaces
  <2>2. \A u \in Threads : th'[u].at = "requeue" => th[u].at = "requeue" /\ th'[u].val = th[u].val
    BY <1>1, <1>2, <1>3, <1>4
  <2> QED
    BY <1>1, <2>1, <2>2, RequeueKept
<1>11. FutexRight'
  BY <1>1 DEF QueueInv, FutexRight
<1> QED
  BY <1>7, <1>8, <1>9, <1>10, <1>11 DEF QueueInv

\* pthread_cond_destroy wakes who waits for the mutex.
LEMMA DestroyQueue ==
    ASSUME Inv, Inv', QueueInv, NEW t \in Threads, Destroy(t) PROVE QueueInv'
<1>1. /\ th[t].at = "user" /\ futex' = futex /\ Shape /\ Shape'
      /\ cond' = [cond EXCEPT !.dying = TRUE, !.gone = cond.nwaiters = 0]
      /\ IF cond.nwaiters = 0
           THEN UNCHANGED <<pc, th>>
           ELSE /\ Goto(t, "drain")
                /\ pc' = [u \in Threads |-> IF pc[u] = "asleep" THEN "xchg" ELSE pc[u]]
  BY DEF Destroy, At, Inv
<1>2. /\ cond'.broadcast_seq = cond.broadcast_seq /\ cond'.futex = cond.futex
      /\ cond'.total_seq = cond.total_seq /\ cond'.wakeup_seq = cond.wakeup_seq
      /\ cond.broadcast_seq \in Nat /\ cond'.broadcast_seq >= cond.broadcast_seq
  BY <1>1 DEF Shape, CondType
<1>3. FutexRight'
  BY <1>2 DEF QueueInv, FutexRight
<1>4. CASE UNCHANGED <<pc, th>>
  <2>1. PlaceRight(t)' /\ (Released(t) => Released(t)')
    BY <1>2, <1>4 DEF QueueInv, PlaceRight, Released, At
  <2>2. \A u \in Threads : RequeueRight(u)'
    BY <1>1, <1>2, <1>4, RequeueKept
  <2> QED
    BY <1>1, <1>2, <1>3, <1>4, <2>1, <2>2, OneMoves
<1>5. CASE /\ Goto(t, "drain")
           /\ pc' = [u \in Threads |-> IF pc[u] = "asleep" THEN "xchg" ELSE pc[u]]
  <2>1. th'[t].at = "drain" /\ \A u \in Threads \ {t} : th'[u] = th[u]
    BY <1>1, <1>5, Moved DEF Places
  <2>2. WordRight' /\ LLL!sleeping' = {}
    BY <1>1, <1>5 DEF QueueInv, WordRight, LLL!TypeOK, LLL!MutualExclusion, LLL!Labels,
                      LLL!Owning, LLL!sleeping
  <2>3. NoWaiterStranded'
    BY <2>2 DEF NoWaiterStranded
  <2>4. PlaceRight(t)'
    BY <2>1 DEF PlaceRight, At
  <2>5. \A u \in Threads \ {t} : PlaceRight(u)'
    BY <1>1, <1>2, <1>5, <2>1, OtherKept
  <2>6. \A u \in Threads : RequeueRight(u)'
    BY <1>1, <1>2, <2>1, RequeueKept DEF InsidePlaces
  <2> QED
    BY <1>3, <2>2, <2>3, <2>4, <2>5, <2>6 DEF QueueInv
<1> QED
  BY <1>1, <1>4, <1>5

\* Nothing changes that the queue depends on.
LEMMA SameQueue ==
    ASSUME QueueInv, UNCHANGED <<futex, pc, th, cond>> PROVE QueueInv'
  BY WordStill DEF QueueInv, FutexRight, NoWaiterStranded, PlaceRight, RequeueRight, Released,
                   Inside, At, LLL!sleeping

\* The step is induction proper.
LEMMA NextQueue == Inv /\ Inv' /\ QueueInv /\ [Next]_vars => QueueInv'
<1> SUFFICES ASSUME Inv, Inv', QueueInv, [Next]_vars PROVE QueueInv'
  OBVIOUS
<1>1. ASSUME UNCHANGED vars PROVE QueueInv'
  BY <1>1, SameQueue DEF vars, lockVars
<1>2. ASSUME NEW t \in Threads, Call(t) PROVE QueueInv'
  <2>1. CASE FutexInterrupted(t)
    <3>1. /\ th[t].at \in {"asleep", "requeued"} /\ Goto(t, "woken")
          /\ pc' = [pc EXCEPT ![t] = "out"] /\ UNCHANGED <<futex, cond>>
      BY <2>1 DEF FutexInterrupted
    <3>2. CASE th[t].at = "asleep"
      <4>1. pc[t] = "out" /\ ~Released(t) /\ pc \in [Threads -> LLL!Labels]
        BY <3>2 DEF At, QueueInv, PlaceRight, Released, WordRight, LLL!TypeOK
      <4>2. UNCHANGED pc
        BY <3>1, <4>1
      <4> QED
        BY <3>1, <3>2, <4>1, <4>2, MovedQueue DEF Places, InsidePlaces
    <3>3. CASE th[t].at = "requeued"
      BY <3>1, <3>3, RequeuedBackQueue
    <3> QED
      BY <3>1, <3>2, <3>3
  <2>2. CASE WaitRefused(t)
    BY <1>1, <2>2 DEF WaitRefused
  <2> QED
    BY <1>2, <2>1, <2>2, MutexQueue, WaitBeginQueue, CancelQueue, SignalQueue, BroadcastQueue,
       DestroyQueue DEF Call
<1>3. ASSUME NEW t \in Threads, Inner(t) PROVE QueueInv'
  <2>1. CASE FutexWait(t)
    <3>1. PICK label \in {"asleep", "woken"} : Goto(t, label)
      BY <2>1 DEF FutexWait
    <3>2. /\ th[t].at = "block" /\ UNCHANGED <<futex, pc, cond>> /\ pc[t] = "out"
          /\ ~Released(t)
      BY <2>1 DEF FutexWait, At, lockVars, QueueInv, PlaceRight, Released
    <3> QED
      BY <3>1, <3>2, MovedQueue DEF Places, InsidePlaces
  <2>2. CASE Destroyed(t)
    <3>1. /\ th[t].at = "drain" /\ Goto(t, "user") /\ UNCHANGED <<futex, pc, cond>>
          /\ ~Released(t)
      BY <2>2 DEF Destroyed, At, lockVars, Released
    <3> QED
      BY <3>1, MovedQueue DEF Places, InsidePlaces
  <2>3. CASE CancelRelock(t)
    BY <2>3, SameQueue DEF CancelRelock, lockVars
  <2>4. CASE RequeuedWakes(t)
    BY <2>4, RequeuedBackQueue DEF RequeuedWakes, At
  <2> QED
    BY <1>3, <2>1, <2>2, <2>3, <2>4, MutexQueue, WaitRegisterQueue, WokenQueue,
       RelockQueue, ReturnQueue, RequeueQueue DEF Inner
<1> QED
  BY <1>1, <1>2, <1>3, MutexQueue DEF Next

\* The queue of the mutex stays right.
THEOREM QueueInvariance == Spec => []QueueInv
<1> QED
  BY InitQueue, NextQueue, Invariance, PTL DEF Spec

\* A waiter that a broadcast has moved to the mutex is woken: the word says 2, or
\* somebody is on the way to write 2 or to wake.
THEOREM NoWaiterStrandedHolds == Spec => []NoWaiterStranded
<1>1. QueueInv => NoWaiterStranded
  BY DEF QueueInv
<1> QED
  BY <1>1, QueueInvariance, PTL

\* The mutex of the waiters excludes, although threads get on its queue without
\* having looked at the word and take it with 2.
THEOREM MutexExcludes == Spec => []LLL!MutualExclusion
<1>1. QueueInv => LLL!MutualExclusion
  BY DEF QueueInv, WordRight
<1> QED
  BY <1>1, QueueInvariance, PTL
=============================================================================
