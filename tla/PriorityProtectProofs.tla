----------------------- MODULE PriorityProtectProofs ------------------------
(***************************************************************************)
(* Theorems about PriorityProtect, for every set of threads and mutexes,   *)
(* every range of priorities and every choice of calls that fail.          *)
(*                                                                         *)
(* The books of one thread come first: what tpp.c does with priomap and    *)
(* priomax (NewPriomaxIs) and with the priority of the thread (ApplyIs),   *)
(* whichever calls of the system fail, in one invariant of its data        *)
(* (Kept).  The lock words have an invariant of their own (LockInv).  The  *)
(* two meet in the claims of a thread: the mutexes it holds and the one of *)
(* its call, which is not among them.                                      *)
(***************************************************************************)
EXTENDS PriorityProtect, SumFacts, FiniteSetTheorems, TLAPS

-----------------------------------------------------------------------------
(***************************************************************************)
(* The books of one thread: what tpp.c keeps in priomap and priomax.       *)
(***************************************************************************)

\* A set of integers with an upper bound has a largest element.
LEMMA MaxExists ==
    ASSUME NEW S, S \subseteq Int, S # {}, NEW b \in Int, \A x \in S : x <= b
    PROVE  Max(S) \in S /\ \A y \in S : Max(S) >= y
<1> DEFINE B == {b - x : x \in S}
<1>1. B \subseteq Nat /\ B # {}
  <2>1. \A x \in S : b - x \in Nat
    OBVIOUS
  <2> QED
    BY <2>1
<1>2. PICK n \in B : \A k \in B : n <= k
  BY <1>1, LeastNumber
<1>3. PICK x \in S : n = b - x
  BY <1>2
<1>4. \A y \in S : x >= y
  <2> TAKE y \in S
  <2>1. b - x <= b - y
    BY <1>2, <1>3
  <2> QED
    BY <2>1
<1> QED
  BY <1>3, <1>4 DEF Max

\* What is in the set and not below any of its elements is the largest.
LEMMA MaxIs ==
    ASSUME NEW S, S \subseteq Int, NEW x \in S, \A y \in S : y <= x
    PROVE  Max(S) = x
<1>1. \A y \in S : x >= y
  OBVIOUS
<1>2. Max(S) \in S /\ \A y \in S : Max(S) >= y
  BY <1>1 DEF Max
<1>3. Max(S) \in Int /\ x \in Int /\ Max(S) >= x /\ Max(S) <= x
  BY <1>2
<1> QED
  BY <1>3

\* The ceilings in the map, the largest of them, and the priority they give t.
InUse(map) == {c \in Prios : map[c] # 0}
Top(map) == Max({MinPrio - 1} \cup InUse(map))
Running(t, map) == Max({Base[t]} \cup InUse(map))

\* Top and Running are maxima of finite sets of priorities.
LEMMA TopIs ==
    ASSUME NEW map
    PROVE  /\ Top(map) = MinPrio - 1 \/ Top(map) \in InUse(map)
           /\ Top(map) \in Int /\ Top(map) >= MinPrio - 1
           /\ \A c \in InUse(map) : c \in Int /\ MinPrio <= c /\ c <= Top(map)
<1> DEFINE S == {MinPrio - 1} \cup InUse(map)
<1>1. S \subseteq Int /\ MaxPrio \in Int /\ \A x \in S : x <= MaxPrio
  BY PriosAssumption DEF InUse, Prios
<1>2. Top(map) \in S /\ \A y \in S : Top(map) >= y
  BY <1>1, MaxExists DEF Top
<1> QED
  BY <1>1, <1>2, PriosAssumption DEF InUse, Prios

\* The priority they give is the larger one of their top and the own priority.
LEMMA RunningIs ==
    ASSUME NEW t \in Threads, NEW map
    PROVE  Running(t, map) = IF InUse(map) = {} \/ Top(map) <= Base[t] THEN Base[t] ELSE Top(map)
<1> DEFINE S == {Base[t]} \cup InUse(map)
<1>1. S \subseteq Int /\ Base[t] \in S /\ Base[t] \in Int
  BY ThreadsAssumption, PriosAssumption DEF InUse, Prios
<1>2. CASE InUse(map) = {} \/ Top(map) <= Base[t]
  <2>1. \A y \in S : y <= Base[t]
    BY <1>1, <1>2, TopIs
  <2>2. Max(S) = Base[t]
    BY <1>1, <2>1, MaxIs
  <2> QED
    BY <1>2, <2>2 DEF Running
<1>3. CASE ~(InUse(map) = {} \/ Top(map) <= Base[t])
  <2>1. Top(map) \in S
    BY <1>1, <1>3, TopIs, PriosAssumption
  <2>2. \A y \in S : y <= Top(map)
    BY <1>1, <1>3, TopIs
  <2>3. Max(S) = Top(map)
    BY <1>1, <2>1, <2>2, MaxIs
  <2> QED
    BY <1>3, <2>3 DEF Running
<1> QED
  BY <1>2, <1>3

Width == 0 .. MapMod - 1

\* The map after a ceiling was taken or given back.
After(map, previous, new) == Plus(Plus(map, new, 1), previous, MapMod - 1)

\* One of the two ceilings of a call is -1, and one that is given back was
\* taken before.
Legal(map, previous, new) ==
    \/ previous = None /\ new \in Prios /\ map[new] + 1 < MapMod
    \/ previous \in Prios /\ new = None /\ map[previous] # 0

\* The mark for no ceiling, and 0, are no priorities.
LEMMA NoneIsNoPrio == None \in Int /\ None \notin Prios /\ None < MinPrio /\ 0 \notin Prios
  BY PriosAssumption DEF None, Prios

\* One counter goes up or down by one, without a wrap.
LEMMA AfterIs ==
    ASSUME NEW map \in [Prios -> Width], NEW previous, NEW new, Legal(map, previous, new)
    PROVE  After(map, previous, new) =
             [c \in Prios |-> IF c = new THEN map[c] + 1
                              ELSE IF c = previous THEN map[c] - 1 ELSE map[c]]
<1>1. CASE previous = None
  <2>1. new \in Prios /\ map[new] \in Width /\ map[new] + 1 < MapMod
    BY <1>1, NoneIsNoPrio DEF Legal
  <2>2. (map[new] + 1) % MapMod = map[new] + 1
    BY <2>1, WidthsAssumption DEF Width
  <2>3. \A c \in Prios : c # previous
    BY <1>1, NoneIsNoPrio
  <2> QED
    BY <1>1, <2>1, <2>2, <2>3, NoneIsNoPrio DEF After, Plus
<1>2. CASE previous # None
  <2>1. /\ previous \in Prios /\ new = None /\ map[previous] \in Width
        /\ map[previous] # 0
    BY <1>2 DEF Legal
  <2>2. (map[previous] + (MapMod - 1)) % MapMod = map[previous] - 1
    <3> DEFINE x == map[previous]
    <3>1. x \in Nat /\ 0 < x /\ x < MapMod /\ MapMod \in Nat
      BY <2>1, WidthsAssumption DEF Width
    <3> HIDE DEF x
    <3>2. x + (MapMod - 1) = (x - 1) + MapMod
      BY <3>1
    <3>3. ((x - 1) + MapMod) % MapMod = x - 1
      BY <3>1
    <3> QED
      BY <3>2, <3>3 DEF x
  <2>3. \A c \in Prios : c # new
    BY <2>1, NoneIsNoPrio
  <2> QED
    BY <1>2, <2>1, <2>2, <2>3, NoneIsNoPrio DEF After, Plus
<1> QED
  BY <1>1, <1>2

\* priomax stays the largest ceiling in the map.
LEMMA NewPriomaxIs ==
    ASSUME NEW s, NEW previous, NEW new, s.priomap \in [Prios -> Width],
           s.priomax = Top(s.priomap), Legal(s.priomap, previous, new)
    PROVE  NewPriomax(s, After(s.priomap, previous, new), previous, new)
             = Top(After(s.priomap, previous, new))
<1> DEFINE old == s.priomap
           map == After(old, previous, new)
           top == Top(old)
<1>1. map = [c \in Prios |-> IF c = new THEN old[c] + 1
                             ELSE IF c = previous THEN old[c] - 1 ELSE old[c]]
  BY AfterIs
<1>2. \A c \in Prios : old[c] \in Nat
  BY WidthsAssumption DEF Width
<1>3. /\ top = MinPrio - 1 \/ top \in InUse(old)
      /\ top \in Int /\ top >= MinPrio - 1
      /\ \A c \in InUse(old) : c \in Int /\ MinPrio <= c /\ c <= top
  BY TopIs
<1>4. Prios \subseteq Int /\ MinPrio \in Int /\ \A c \in Prios : MinPrio <= c
  BY PriosAssumption DEF Prios
<1> DEFINE S == {MinPrio - 1} \cup InUse(map)
<1>5. S \subseteq Int
  <2>1. MinPrio - 1 \in Int /\ InUse(map) \subseteq Prios
    BY <1>4 DEF InUse
  <2> QED
    BY <2>1, <1>4
<1>6. CASE previous = None
  <2>1. new \in Prios /\ new # previous /\ new \in Int
    BY <1>6, <1>4, NoneIsNoPrio DEF Legal
  <2>2. InUse(map) = InUse(old) \cup {new}
    BY <1>1, <1>2, <1>6, <2>1, NoneIsNoPrio DEF InUse
  <2>3. NewPriomax(s, map, previous, new) = IF new > top THEN new ELSE top
    BY <1>6 DEF NewPriomax
  <2> DEFINE x == IF new > top THEN new ELSE top
  <2>4. x \in S /\ \A y \in S : y <= x
    BY <1>3, <1>4, <2>1, <2>2
  <2> HIDE DEF x
  <2>5. Max(S) = x
    BY <1>5, <2>4, MaxIs
  <2> QED
    BY <2>3, <2>5 DEF Top, x
<1>7. CASE previous # None
  <2>1. previous \in Prios /\ new = None /\ old[previous] # 0 /\ previous \in InUse(old)
    BY <1>7 DEF Legal, InUse
  <2>2. previous \in Int /\ MinPrio <= previous /\ previous <= top /\ new < MinPrio
        /\ new \in Int
    BY <1>3, <1>4, <2>1, NoneIsNoPrio
  <2>3. InUse(map) = IF old[previous] = 1 THEN InUse(old) \ {previous} ELSE InUse(old)
    BY <1>1, <1>2, <2>1, NoneIsNoPrio DEF InUse
  <2>4. map[previous] = old[previous] - 1
    BY <1>1, <2>1, NoneIsNoPrio
  <2>5. CASE map[previous] = 0 /\ top = previous
    <3> DEFINE L == {MinPrio - 1} \cup {p \in MinPrio .. previous - 1 : map[p] # 0}
    <3>1. NewPriomax(s, map, previous, new) = Max(L)
      <4>1. previous # None /\ map[previous] = 0 /\ s.priomax = previous /\ previous > new
        BY <2>2, <2>5, <1>4, <1>7
      <4> HIDE DEF map
      <4> QED
        BY <4>1 DEF NewPriomax, Lowered
    <3>2. InUse(map) = InUse(old) \ {previous}
      BY <2>3, <2>4, <2>5, <1>2, <2>1
    <3>3. \A p \in InUse(map) : p \in Int /\ MinPrio <= p /\ p < previous
      BY <3>2, <1>3, <2>5, <2>2
    <3>4. InUse(map) \subseteq L
      BY <3>3, <2>2, PriosAssumption DEF InUse
    <3>5. L \subseteq S
      <4>1. previous <= MaxPrio
        BY <2>1, PriosAssumption DEF Prios
      <4> QED
        BY <4>1, <2>2, PriosAssumption DEF InUse, Prios
    <3>6. L = S
      BY <3>4, <3>5
    <3> QED
      BY <3>1, <3>6 DEF Top
  <2>6. CASE ~(map[previous] = 0 /\ top = previous)
    <3>1. NewPriomax(s, map, previous, new) = top
      <4>1. ~(new > s.priomax) /\ s.priomax = top
        BY <2>2, <1>3, <1>4
      <4> HIDE DEF map, top
      <4> QED
        BY <4>1, <2>6 DEF NewPriomax
    <3>2. top \in S
      BY <1>2, <1>3, <2>1, <2>3, <2>4, <2>6
    <3>3. \A y \in S : y <= top
      BY <1>3, <2>3, PriosAssumption
    <3>4. Max(S) = top
      BY <1>5, <3>2, <3>3, MaxIs
    <3> QED
      BY <3>1, <3>4 DEF Top
  <2> QED
    BY <2>5, <2>6
<1> QED
  BY <1>6, <1>7

-----------------------------------------------------------------------------
(***************************************************************************)
(* The operations of tpp.c on the data of one thread.                      *)
(***************************************************************************)

Data == [tpp : BOOLEAN, priomax : Int, priomap : [Prios -> Width], schedSet : BOOLEAN,
         policySet : BOOLEAN, param : Int, prio : Int, refused : BOOLEAN]

\* The priority a thread was born with is not forgotten: it is in param from
\* the first call that asks for it, which is before it is ever changed.
Known(t, s) == IF s.schedSet THEN s.param = Base[t] ELSE s.prio = Base[t]

\* The invariant of the data of one thread.
Kept(t, s) ==
    /\ s \in Data
    /\ Known(t, s)
    /\ IF s.tpp THEN s.priomax = Top(s.priomap) ELSE InUse(s.priomap) = {}
    /\ ~s.refused => s.prio = Running(t, s.priomap)

SameBooks(q, s) == /\ q.tpp = s.tpp /\ q.priomax = s.priomax /\ q.priomap = s.priomap
                   /\ q.prio = s.prio /\ q.refused = s.refused

\* Each of the two questions to the system may fail.
LEMMA AskedIs ==
    ASSUME NEW s, NEW r \in Parameters(s)
    PROVE  \E p \in BOOLEAN, q \in BOOLEAN : r = <<Asked(s, p, q), p \/ q>>
<1>1. PICK p \in Fails(s.schedSet, "getparam"), q \in Fails(s.policySet, "getscheduler") :
        r = <<Asked(s, p, q), p \/ q>>
  BY DEF Parameters
<1>2. p \in BOOLEAN /\ q \in BOOLEAN
  BY DEF Fails, MayFail
<1> QED
  BY <1>1, <1>2

\* A request for a priority is granted or refused.
LEMMA SetSchedulerIs ==
    ASSUME NEW t, NEW s, NEW p, NEW r \in SetScheduler(t, s, p)
    PROVE  \/ r = <<[s EXCEPT !.refused = TRUE], "error">>
           \/ r = <<[s EXCEPT !.prio = p], "0">> /\ ~(Base[t] = 0 /\ p # 0)
<1> DEFINE x == <<[s EXCEPT !.refused = TRUE], "error">>
           y == <<[s EXCEPT !.prio = p], "0">>
<1>1. r \in IF Base[t] = 0 /\ p # 0 THEN {x}
            ELSE {IF b THEN x ELSE y : b \in MayFail("setscheduler")}
  BY DEF SetScheduler
<1> HIDE DEF x, y
<1> QED
  BY <1>1 DEF x, y

\* Asking the system for the parameters changes nothing but what is known.
LEMMA ParametersAre ==
    ASSUME NEW t \in Threads, NEW s \in Data, Known(t, s), NEW r \in Parameters(s)
    PROVE  /\ r[1] \in Data /\ r[2] \in BOOLEAN /\ Known(t, r[1]) /\ SameBooks(r[1], s)
           /\ ~r[2] => r[1].schedSet
<1>1. PICK p \in BOOLEAN, q \in BOOLEAN : r = <<Asked(s, p, q), p \/ q>>
  BY AskedIs
<1>3. r[1] = Asked(s, p, q) /\ r[2] = (p \/ q)
  BY <1>1
<1>4. /\ r[1].schedSet = (s.schedSet \/ ~p) /\ r[1].policySet = (s.policySet \/ ~q)
      /\ r[1].param = IF s.schedSet \/ p THEN s.param ELSE s.prio
      /\ SameBooks(r[1], s)
  BY <1>3 DEF Data, SameBooks, Asked
<1>5. r[1] \in Data
  BY <1>3 DEF Data, Asked
<1>6. Known(t, r[1])
  BY <1>4 DEF Known, SameBooks
<1> QED
  BY <1>3, <1>4, <1>5, <1>6

\* So does __pthread_current_priority.
LEMMA CurrentPriorityIs ==
    ASSUME NEW t \in Threads, NEW s, Kept(t, s), NEW r \in CurrentPriority(s)
    PROVE  /\ Kept(t, r[1]) /\ SameBooks(r[1], s)
           /\ r[2] \in Int
<1>1. PICK g \in Parameters(s) : r = <<g[1], IF g[2] THEN -1 ELSE g[1].param>>
  BY DEF CurrentPriority
<1>2. /\ g[1] \in Data /\ g[2] \in BOOLEAN /\ Known(t, g[1]) /\ SameBooks(g[1], s)
  BY ParametersAre DEF Kept
<1>3. r[1] = g[1] /\ r[2] \in Int
  BY <1>1, <1>2 DEF Data
<1> QED
  BY <1>2, <1>3 DEF Kept, SameBooks

\* The priority asked for is the larger one of priomax and the own priority of
\* the thread; a thread that is not real-time gets no other than 0.
LEMMA ApplyIs ==
    ASSUME NEW t \in Threads, NEW q \in Data, Known(t, q), NEW old \in Int,
           NEW r \in Apply(t, q, old)
    PROVE  /\ r[1] \in Data /\ Known(t, r[1])
           /\ r[1].tpp = q.tpp /\ r[1].priomax = q.priomax /\ r[1].priomap = q.priomap
           /\ \/ r[2] = "error" /\ r[1].refused
              \/ /\ r[2] = "0" /\ r[1].refused = q.refused
                 /\ r[1].prio = IF Base[t] < q.priomax THEN q.priomax
                                ELSE IF Base[t] < old THEN Base[t] ELSE q.prio
                 /\ Base[t] < q.priomax => Base[t] # 0
<1>1. PICK g \in Parameters(q) :
        r \in LET h == g[1]
                  p == IF h.param < h.priomax THEN h.priomax ELSE h.param
              IN IF g[2] THEN {<<[h EXCEPT !.refused = TRUE], "error">>}
                 ELSE IF h.param < h.priomax \/ h.param < old THEN SetScheduler(t, h, p)
                 ELSE {<<h, "0">>}
  BY DEF Apply
<1>2. /\ g[1] \in Data /\ g[2] \in BOOLEAN /\ Known(t, g[1]) /\ SameBooks(g[1], q)
      /\ ~g[2] => g[1].schedSet
  BY ParametersAre
<1> DEFINE h == g[1]
           p == IF h.param < h.priomax THEN h.priomax ELSE h.param
           refused == <<[h EXCEPT !.refused = TRUE], "error">>
           done == <<[h EXCEPT !.prio = p], "0">>
<1>3. ASSUME r = refused
      PROVE  /\ r[1] \in Data /\ Known(t, r[1]) /\ r[2] = "error" /\ r[1].refused
             /\ r[1].tpp = q.tpp /\ r[1].priomax = q.priomax /\ r[1].priomap = q.priomap
  BY <1>2, <1>3 DEF Data, Known, SameBooks
<1>4. CASE g[2]
  BY <1>1, <1>3, <1>4
<1>5. CASE ~g[2] /\ (h.param < h.priomax \/ h.param < old)
  <2>1. h.param = Base[t] /\ h.schedSet /\ h.priomax = q.priomax /\ p \in Int
    BY <1>2, <1>5 DEF Known, SameBooks, Data
  <2>2. r \in SetScheduler(t, h, p)
    BY <1>1, <1>5
  <2>3. r = refused \/ (r = done /\ ~(Base[t] = 0 /\ p # 0))
    <3> HIDE DEF h, p
    <3> QED
      BY <2>2, SetSchedulerIs
  <2>4. CASE r = refused
    BY <2>4, <1>3
  <2>5. CASE r = done /\ ~(Base[t] = 0 /\ p # 0)
    <3>1. /\ r[1] = [h EXCEPT !.prio = p] /\ r[2] = "0"
      BY <2>5
    <3>2. /\ r[1] \in Data /\ r[1].prio = p /\ r[1].schedSet /\ r[1].param = h.param
          /\ r[1].tpp = q.tpp /\ r[1].priomax = q.priomax /\ r[1].priomap = q.priomap
          /\ r[1].refused = q.refused
      BY <3>1, <2>1, <1>2 DEF Data, SameBooks
    <3>3. p = IF Base[t] < q.priomax THEN q.priomax ELSE Base[t]
      BY <2>1
    <3>4. q.priomax \in Int /\ Base[t] \in Int
      BY ThreadsAssumption, PriosAssumption DEF Data, Prios
    <3>5. Base[t] < q.priomax => Base[t] # 0
      BY <2>5, <3>3, <3>4
    <3>6. Base[t] < q.priomax \/ Base[t] < old
      BY <1>5, <2>1
    <3> HIDE DEF p
    <3> QED
      BY <3>1, <3>2, <3>3, <3>5, <3>6, <2>1 DEF Known
  <2> QED
    BY <2>3, <2>4, <2>5
<1>6. CASE ~g[2] /\ ~(h.param < h.priomax \/ h.param < old)
  <2>1. h.param = Base[t] /\ h.priomax = q.priomax
    BY <1>2, <1>6 DEF Known, SameBooks
  <2>2. r[1] = h /\ r[2] = "0"
    BY <1>1, <1>6
  <2>3. ~(Base[t] < q.priomax) /\ ~(Base[t] < old)
    BY <1>6, <2>1
  <2> QED
    BY <2>2, <2>3, <1>2 DEF SameBooks
<1> QED
  BY <1>2, <1>4, <1>5, <1>6

\* The priority after a change of priomax, if the system granted it.
LEMMA GrantedIs ==
    ASSUME NEW t \in Threads, NEW map, NEW new,
           InUse(new) # {} \/ InUse(map) # {},
           Base[t] < Top(new) => Base[t] # 0
    PROVE  (IF Base[t] < Top(new) THEN Top(new)
            ELSE IF Base[t] < Top(map) THEN Base[t] ELSE Running(t, map)) = Running(t, new)
<1>1. Base[t] \in Prios \cup {0}
  BY ThreadsAssumption
<1>2. /\ Base[t] \in Int /\ MinPrio \in Int /\ MinPrio > 0
      /\ Base[t] # 0 => MinPrio <= Base[t]
  BY <1>1, PriosAssumption DEF Prios
<1>3. /\ Running(t, map) = IF InUse(map) = {} \/ Top(map) <= Base[t] THEN Base[t] ELSE Top(map)
      /\ Running(t, new) = IF InUse(new) = {} \/ Top(new) <= Base[t] THEN Base[t] ELSE Top(new)
  BY RunningIs
<1>4. /\ Top(map) \in Int /\ Top(new) \in Int
      /\ Top(map) = MinPrio - 1 \/ Top(map) \in InUse(map)
      /\ Top(new) = MinPrio - 1 \/ Top(new) \in InUse(new)
  BY TopIs
<1>5. CASE Base[t] < Top(new)
  <2>1. InUse(new) # {}
    BY <1>2, <1>4, <1>5
  <2> QED
    BY <2>1, <1>2, <1>3, <1>4, <1>5
<1>6. CASE ~(Base[t] < Top(new))
  BY <1>2, <1>3, <1>4, <1>6
<1> QED
  BY <1>5, <1>6

\* One call that changes a ceiling: refused without a change, or the map has
\* changed as asked, whether the system then granted the priority or not.
Unchanged(s, r) == /\ r[2] \in {"assert", "EAGAIN", "ENOMEM"}
                   /\ r[1].priomap = s.priomap /\ r[1].refused = s.refused
Changed(s, r, previous, new) ==
    /\ r[1].priomap = After(s.priomap, previous, new)
    /\ \/ r[2] = "0" /\ r[1].refused = s.refused
       \/ r[2] = "error" /\ r[1].refused

\* A legal change keeps the books in order.
LEMMA ChangeIs ==
    ASSUME NEW t \in Threads, NEW s, Kept(t, s), s.tpp, NEW previous, NEW new,
           Legal(s.priomap, previous, new), NEW r \in Change(t, s, previous, new)
    PROVE  Kept(t, r[1]) /\ Changed(s, r, previous, new)
<1> DEFINE map == After(s.priomap, previous, new)
           top == NewPriomax(s, map, previous, new)
           q == [s EXCEPT !.priomap = map, !.priomax = top]
<1>1. s \in Data /\ s.priomap \in [Prios -> Width] /\ s.priomax = Top(s.priomap)
  BY DEF Kept, Data
<1>2. top = Top(map) /\ top \in Int
  BY <1>1, NewPriomaxIs, TopIs
<1>3. map = [c \in Prios |-> IF c = new THEN s.priomap[c] + 1
                             ELSE IF c = previous THEN s.priomap[c] - 1 ELSE s.priomap[c]]
  BY <1>1, AfterIs
<1>4. \A c \in Prios : s.priomap[c] \in Width
  BY <1>1
<1>5. map \in [Prios -> Width]
  <2>1. \A c \in Prios : map[c] \in Width
    <3> TAKE c \in Prios
    <3>1. CASE previous = None
      <4>1. new \in Prios /\ s.priomap[new] + 1 < MapMod /\ c # previous
        BY <3>1, NoneIsNoPrio DEF Legal
      <4> QED
        BY <4>1, <1>3, <1>4, WidthsAssumption DEF Width
    <3>2. CASE previous # None
      <4>1. new = None /\ previous \in Prios /\ s.priomap[previous] # 0 /\ c # new
        BY <3>2, NoneIsNoPrio DEF Legal
      <4> QED
        BY <4>1, <1>3, <1>4, WidthsAssumption DEF Width
    <3> QED
      BY <3>1, <3>2
  <2> QED
    BY <2>1, <1>3
<1>6. /\ new \in Prios \cup {None}
      /\ new # None => (s.priomap[new] + 1) % MapMod # 0
  <2>1. ASSUME new # None PROVE new \in Prios /\ s.priomap[new] + 1 < MapMod
    BY <2>1, NoneIsNoPrio DEF Legal
  <2>2. ASSUME new # None PROVE (s.priomap[new] + 1) % MapMod # 0
    <3> DEFINE x == s.priomap[new]
    <3>1. x \in Nat /\ x + 1 < MapMod /\ MapMod \in Nat
      BY <2>1, <2>2, <1>4, WidthsAssumption DEF Width
    <3> HIDE DEF x
    <3>2. (x + 1) % MapMod = x + 1
      BY <3>1
    <3>3. (x + 1) % MapMod # 0
      BY <3>1, <3>2
    <3> QED
      BY <3>3 DEF x
  <2> QED
    BY <2>1, <2>2
<1>7. r \in IF top = s.priomax THEN {<<q, "0">>} ELSE Apply(t, q, s.priomax)
  <2> HIDE DEF top
  <2>1. map = Plus(Plus(s.priomap, new, 1), previous, MapMod - 1)
    BY DEF After
  <2> QED
    BY <1>6, <2>1 DEF Change, top
<1>8. /\ q \in Data /\ q.priomap = map /\ q.priomax = top /\ q.tpp = s.tpp
      /\ q.refused = s.refused /\ q.prio = s.prio /\ Known(t, q)
  <2> HIDE DEF map, top
  <2> QED
    BY <1>1, <1>2, <1>5 DEF Data, Known, Kept
<1>9. InUse(map) # {} \/ InUse(s.priomap) # {}
  <2>1. CASE previous = None
    <3>1. new \in Prios /\ map[new] # 0
      BY <2>1, <1>3, <1>4, NoneIsNoPrio, WidthsAssumption DEF Legal, Width
    <3> QED
      BY <3>1 DEF InUse
  <2>2. CASE previous # None
    BY <2>2 DEF Legal, InUse
  <2> QED
    BY <2>1, <2>2
<1>10. ~s.refused => s.prio = Running(t, s.priomap)
  BY DEF Kept
<1>11. CASE top = s.priomax
  <2>1. r[1] = q /\ r[2] = "0"
    BY <1>7, <1>11
  <2>2. Running(t, map) = Running(t, s.priomap)
    <3>1. Top(map) = Top(s.priomap)
      BY <1>1, <1>2, <1>11
    <3>2. InUse(map) = {} <=> InUse(s.priomap) = {}
      BY <3>1, TopIs, PriosAssumption
    <3> QED
      BY <3>1, <3>2, RunningIs
  <2> HIDE DEF q, map, top
  <2> QED
    BY <2>1, <2>2, <1>2, <1>8, <1>10 DEF Kept, Changed, map
<1>12. CASE top # s.priomax
  <2>1. r \in Apply(t, q, s.priomax)
    BY <1>7, <1>12
  <2> HIDE DEF q, map, top
  <2>2. /\ r[1] \in Data /\ Known(t, r[1])
        /\ r[1].tpp = q.tpp /\ r[1].priomax = q.priomax /\ r[1].priomap = q.priomap
        /\ \/ r[2] = "error" /\ r[1].refused
           \/ /\ r[2] = "0" /\ r[1].refused = q.refused
              /\ r[1].prio = IF Base[t] < q.priomax THEN q.priomax
                             ELSE IF Base[t] < s.priomax THEN Base[t] ELSE q.prio
              /\ Base[t] < q.priomax => Base[t] # 0
    BY <2>1, <1>1, <1>8, ApplyIs DEF Data
  <2>3. CASE r[2] = "error" /\ r[1].refused
    BY <2>2, <2>3, <1>2, <1>8 DEF Kept, Changed, map
  <2>4. CASE r[2] # "error"
    <3>1. ~s.refused => r[1].prio = Running(t, map)
      BY <2>2, <2>4, <1>1, <1>2, <1>8, <1>9, <1>10, GrantedIs
    <3> QED
      BY <2>2, <2>4, <3>1, <1>2, <1>8 DEF Kept, Changed, map
  <2> QED
    BY <2>2, <2>3, <2>4
<1> QED
  BY <1>11, <1>12

\* The first call of a thread allocates its data; nothing is in the map then.
LEMMA TppIs ==
    ASSUME NEW t \in Threads, NEW s, Kept(t, s), NEW previous, NEW new,
           \/ previous = None /\ new \in Prios \cup {0}
           \/ previous \in Prios /\ new = None /\ s.priomap[previous] # 0,
           NEW r \in tpp_change_priority(t, s, previous, new)
    PROVE  /\ Kept(t, r[1])
           /\ \/ Unchanged(s, r) /\ previous = None
              \/ Changed(s, r, previous, new) /\ Legal(s.priomap, previous, new)
<1>1. s \in Data /\ s.priomap \in [Prios -> Width]
  BY DEF Kept, Data
<1>2. ASSUME NEW u, Kept(t, u), u.tpp, u.priomap = s.priomap, u.refused = s.refused,
             r \in Change(t, u, previous, new)
      PROVE  /\ Kept(t, r[1])
             /\ \/ Unchanged(s, r) /\ previous = None
                \/ Changed(s, r, previous, new) /\ Legal(s.priomap, previous, new)
  <2>1. CASE Legal(s.priomap, previous, new)
    <3>1. Kept(t, r[1]) /\ Changed(u, r, previous, new)
      BY <1>2, <2>1, ChangeIs
    <3> QED
      BY <1>2, <2>1, <3>1 DEF Changed
  <2>2. CASE ~Legal(s.priomap, previous, new)
    <3>1. previous = None /\ (new = 0 \/ (new \in Prios /\ ~(s.priomap[new] + 1 < MapMod)))
      BY <2>2 DEF Legal
    <3>2. CASE new = 0
      <4>1. new \notin Prios \cup {None}
        BY <3>2, NoneIsNoPrio DEF None
      <4>2. r = <<u, "assert">>
        BY <1>2, <4>1 DEF Change
      <4> QED
        BY <1>2, <3>1, <4>2 DEF Unchanged
    <3>3. CASE new \in Prios /\ ~(s.priomap[new] + 1 < MapMod)
      <4>1. (u.priomap[new] + 1) % MapMod = 0
        <5> DEFINE x == s.priomap[new]
        <5>1. x \in 0 .. MapMod - 1 /\ ~(x + 1 < MapMod) /\ MapMod \in Nat \ {0}
          BY <1>1, <3>3, WidthsAssumption DEF Width
        <5> HIDE DEF x
        <5>2. x + 1 = MapMod
          BY <5>1
        <5>3. (x + 1) % MapMod = 0
          BY <5>1, <5>2
        <5> QED
          BY <5>3, <1>2 DEF x
      <4>2. new # None /\ new \in Prios \cup {None}
        BY <3>3, NoneIsNoPrio
      <4>3. r = <<u, "EAGAIN">>
        BY <1>2, <4>1, <4>2 DEF Change
      <4> QED
        BY <1>2, <3>1, <4>3 DEF Unchanged
    <3> QED
      BY <3>1, <3>2, <3>3
  <2> QED
    BY <2>1, <2>2
<1>3. CASE s.tpp
  <2>1. r \in Change(t, s, previous, new)
    BY <1>3 DEF tpp_change_priority
  <2> QED
    BY <1>2, <1>3, <2>1
<1>4. CASE ~s.tpp
  <2> DEFINE u == [s EXCEPT !.tpp = TRUE, !.priomax = MinPrio - 1]
  <2>1. InUse(s.priomap) = {}
    BY <1>4 DEF Kept
  <2>2. previous = None
    BY <2>1 DEF InUse
  <2>3. r = <<s, "ENOMEM">> \/ r \in Change(t, u, previous, new)
    <3>1. PICK fails \in MayFail("calloc") :
            r \in IF fails THEN {<<s, "ENOMEM">>} ELSE Change(t, u, previous, new)
      BY <1>4 DEF tpp_change_priority
    <3> QED
      BY <3>1
  <2>4. MinPrio - 1 \in Int /\ Top(s.priomap) = MinPrio - 1
    BY <2>1, TopIs, PriosAssumption
  <2>5. /\ u \in Data /\ u.tpp /\ u.priomap = s.priomap /\ u.refused = s.refused
        /\ u.priomax = MinPrio - 1 /\ u.prio = s.prio /\ Known(t, u)
    BY <1>1, <2>4 DEF Data, Kept, Known
  <2>6. Kept(t, u)
    <3> HIDE DEF u
    <3> QED
      BY <2>4, <2>5 DEF Kept
  <2>7. CASE r = <<s, "ENOMEM">>
    BY <2>2, <2>7 DEF Unchanged
  <2>8. CASE r \in Change(t, u, previous, new)
    <3> HIDE DEF u
    <3> QED
      BY <1>2, <2>5, <2>6, <2>8
  <2> QED
    BY <2>3, <2>7, <2>8
<1> QED
  BY <1>3, <1>4

-----------------------------------------------------------------------------
(***************************************************************************)
(* The lock words.                                                         *)
(***************************************************************************)

Places == {"user", "cas", "announce", "wait", "asleep", "retry", "try", "won", "release",
           "wake", "lower"}

Shape ==
    /\ lock \in [Mutexes -> 0 .. 2]
    /\ owner \in [Mutexes -> Threads \cup {Nobody}]
    /\ nusers \in [Mutexes -> Int]
    /\ th \in [Threads -> [at : Places, m : Mutexes \cup {Nobody}]]
    /\ held \in [Threads -> SUBSET Mutexes]

\* The mutex of a call is not one that the thread holds, unless it only tries.
CallRight ==
    \A t \in Threads : InCall(t) =>
        /\ th[t].m \in Mutexes
        /\ th[t].at # "try" => th[t].m \notin held[t]

\* One thread has the lock word, while it is not 0, and the fields of the mutex
\* say who holds it.
Exclusive ==
    /\ \A m \in Mutexes : \A t, u \in Threads : Has(t, m) /\ Has(u, m) => t = u
    /\ \A m \in Mutexes : lock[m] = 0 => \A t \in Threads : ~Has(t, m)
Taken == \A m \in Mutexes : lock[m] # 0 => \E t \in Threads : Has(t, m)
OwnerRight == \A m \in Mutexes, t \in Threads : owner[m] = t <=> m \in held[t]
UsersRight == \A m \in Mutexes : nusers[m] = IF owner[m] = Nobody THEN 0 ELSE 1

\* NoSleeperForgotten is inductive, given the others.
LockInv == /\ Shape /\ CallRight /\ Exclusive /\ Taken /\ OwnerRight /\ UsersRight
           /\ NoSleeperForgotten

lockView == <<lock, owner, nusers, th, held>>

\* No lock word is taken at the start.
LEMMA InitLock == Init => LockInv
<1> SUFFICES ASSUME Init PROVE LockInv
  OBVIOUS
<1>1. Shape
  BY DEF Init, Shape, AtUser, Places
<1>2. \A t \in Threads : th[t].at = "user" /\ held[t] = {}
  BY DEF Init, AtUser
<1>3. CallRight /\ Exclusive /\ NoSleeperForgotten
  BY <1>2 DEF CallRight, InCall, At, Exclusive, Has, NoSleeperForgotten, Sleepers
<1>4. Taken /\ OwnerRight /\ UsersRight
  BY <1>2, ThreadsAssumption DEF Init, Taken, OwnerRight, UsersRight
<1> QED
  BY <1>1, <1>3, <1>4 DEF LockInv

\* What leaves the lock words and the places alone preserves the invariant.
LEMMA StillLock == LockInv /\ UNCHANGED lockView => LockInv'
  BY DEF LockInv, lockView, Shape, CallRight, InCall, At, Exclusive, Has, Taken, OwnerRight,
         UsersRight, NoSleeperForgotten, Sleepers

\* A thread gets into lock or trylock.
LEMMA EnterLock ==
    ASSUME LockInv, NEW t \in Threads, NEW m \in Mutexes, NEW label \in {"cas", "try"},
           At(t, "user"), owner[m] # t \/ label = "try",
           th' = [th EXCEPT ![t] = [at |-> label, m |-> m]], UNCHANGED <<lock, owner, nusers, held>>
    PROVE  LockInv'
<1>1. Shape'
  BY DEF LockInv, Shape, Places, At
<1>2. CallRight'
  BY DEF LockInv, Shape, CallRight, InCall, OwnerRight, At
<1>3. Exclusive'
  BY DEF LockInv, Shape, Exclusive, Has, At
<1>4. Taken'
  BY DEF LockInv, Shape, Taken, Has, At
<1>5. OwnerRight'
  BY ThreadsAssumption DEF LockInv, Shape, OwnerRight, At
<1>6. UsersRight'
  BY ThreadsAssumption DEF LockInv, Shape, OwnerRight, UsersRight, At
<1>7. NoSleeperForgotten'
  BY DEF LockInv, Shape, NoSleeperForgotten, Sleepers, At
<1> QED
  BY <1>1, <1>2, <1>3, <1>4, <1>5, <1>6, <1>7 DEF LockInv

\* The steps on the lock word, one by one.  The first attempt to take it.
LEMMA LockCasLock == ASSUME LockInv, NEW t \in Threads, LockCas(t) PROVE LockInv'
<1>1. Shape'
  BY DEF LockInv, Shape, Places, CallRight, InCall, LockCas, CompareAndExchange, At, Goto
<1>2. CallRight'
  BY DEF LockInv, Shape, CallRight, InCall, LockCas, CompareAndExchange, At, Goto
<1>3. Exclusive'
  BY DEF LockInv, Shape, Exclusive, Has, LockCas, CompareAndExchange, At, Goto
<1>4. Taken'
  BY DEF LockInv, Shape, Taken, Has, LockCas, CompareAndExchange, At, Goto
<1>5. OwnerRight'
  BY ThreadsAssumption DEF LockInv, Shape, OwnerRight, LockCas, CompareAndExchange, At, Goto
<1>6. UsersRight'
  BY ThreadsAssumption DEF LockInv, Shape, OwnerRight, UsersRight, LockCas,
     CompareAndExchange, At, Goto
<1>7. NoSleeperForgotten'
  BY DEF LockInv, Shape, NoSleeperForgotten, Sleepers, LockCas, CompareAndExchange, At, Goto
<1> QED
  BY <1>1, <1>2, <1>3, <1>4, <1>5, <1>6, <1>7 DEF LockInv

\* A waiter announces itself, or finds the word free and goes to try again.
LEMMA AnnounceLock == ASSUME LockInv, NEW t \in Threads, Announce(t) PROVE LockInv'
<1>1. Shape'
  BY DEF LockInv, Shape, Places, CallRight, InCall, Announce, CompareAndExchange, At, Goto
<1>2. CallRight'
  BY DEF LockInv, Shape, CallRight, InCall, Announce, CompareAndExchange, At, Goto
<1>3. Exclusive'
  BY DEF LockInv, Shape, Exclusive, Has, Announce, CompareAndExchange, At, Goto
<1>4. Taken'
  BY DEF LockInv, Shape, Taken, Has, Announce, CompareAndExchange, At, Goto
<1>5. OwnerRight'
  BY ThreadsAssumption DEF LockInv, Shape, OwnerRight, Announce, CompareAndExchange, At,
     Goto
<1>6. UsersRight'
  BY ThreadsAssumption DEF LockInv, Shape, OwnerRight, UsersRight, Announce,
     CompareAndExchange, At, Goto
<1>7. NoSleeperForgotten'
  BY DEF LockInv, Shape, NoSleeperForgotten, Sleepers, Announce, CompareAndExchange, At,
     Goto
<1> QED
  BY <1>1, <1>2, <1>3, <1>4, <1>5, <1>6, <1>7 DEF LockInv

\* It sleeps only while the word says 2.
LEMMA FutexWaitLock == ASSUME LockInv, NEW t \in Threads, FutexWait(t) PROVE LockInv'
<1>1. Shape'
  BY DEF LockInv, Shape, Places, FutexWait, mutexVars, At, Goto
<1>2. CallRight'
  BY DEF LockInv, Shape, CallRight, InCall, FutexWait, mutexVars, At, Goto
<1>3. Exclusive'
  BY DEF LockInv, Shape, Exclusive, Has, FutexWait, mutexVars, At, Goto
<1>4. Taken'
  BY DEF LockInv, Shape, Taken, Has, FutexWait, mutexVars, At, Goto
<1>5. OwnerRight'
  BY ThreadsAssumption DEF LockInv, Shape, OwnerRight, FutexWait, mutexVars, At, Goto
<1>6. UsersRight'
  BY ThreadsAssumption DEF LockInv, Shape, OwnerRight, UsersRight, FutexWait, mutexVars, At,
     Goto
<1>7. NoSleeperForgotten'
  BY DEF LockInv, Shape, NoSleeperForgotten, Sleepers, FutexWait, mutexVars, At, Goto
<1> QED
  BY <1>1, <1>2, <1>3, <1>4, <1>5, <1>6, <1>7 DEF LockInv

\* Whoever wakes up is about to write 2.
LEMMA FutexInterruptedLock == ASSUME LockInv, NEW t \in Threads, FutexInterrupted(t) PROVE LockInv'
<1>1. Shape'
  BY DEF LockInv, Shape, Places, FutexInterrupted, mutexVars, At, Goto
<1>2. CallRight'
  BY DEF LockInv, Shape, CallRight, InCall, FutexInterrupted, mutexVars, At, Goto
<1>3. Exclusive'
  BY DEF LockInv, Shape, Exclusive, Has, FutexInterrupted, mutexVars, At, Goto
<1>4. Taken'
  BY DEF LockInv, Shape, Taken, Has, FutexInterrupted, mutexVars, At, Goto
<1>5. OwnerRight'
  BY ThreadsAssumption DEF LockInv, Shape, OwnerRight, FutexInterrupted, mutexVars, At, Goto
<1>6. UsersRight'
  BY ThreadsAssumption DEF LockInv, Shape, OwnerRight, UsersRight, FutexInterrupted,
     mutexVars, At, Goto
<1>7. NoSleeperForgotten'
  BY DEF LockInv, Shape, NoSleeperForgotten, Sleepers, FutexInterrupted, mutexVars, At, Goto
<1> QED
  BY <1>1, <1>2, <1>3, <1>4, <1>5, <1>6, <1>7 DEF LockInv

\* The attempt of a waiter leaves a 2, as others may be asleep.
LEMMA RetryLock == ASSUME LockInv, NEW t \in Threads, Retry(t) PROVE LockInv'
<1>1. Shape'
  BY DEF LockInv, Shape, Places, CallRight, InCall, Retry, CompareAndExchange, At, Goto
<1>2. CallRight'
  BY DEF LockInv, Shape, CallRight, InCall, Retry, CompareAndExchange, At, Goto
<1>3. Exclusive'
  BY DEF LockInv, Shape, Exclusive, Has, Retry, CompareAndExchange, At, Goto
<1>4. Taken'
  BY DEF LockInv, Shape, Taken, Has, Retry, CompareAndExchange, At, Goto
<1>5. OwnerRight'
  BY ThreadsAssumption DEF LockInv, Shape, OwnerRight, Retry, CompareAndExchange, At, Goto
<1>6. UsersRight'
  BY ThreadsAssumption DEF LockInv, Shape, OwnerRight, UsersRight, Retry,
     CompareAndExchange, At, Goto
<1>7. NoSleeperForgotten'
  BY DEF LockInv, Shape, NoSleeperForgotten, Sleepers, Retry, CompareAndExchange, At, Goto
<1> QED
  BY <1>1, <1>2, <1>3, <1>4, <1>5, <1>6, <1>7 DEF LockInv

\* trylock takes a free word or leaves.
LEMMA TrylockCasLock == ASSUME LockInv, NEW t \in Threads, TrylockCas(t) PROVE LockInv'
<1>1. th[t].at = "try" /\ th \in [Threads -> [at : Places, m : Mutexes \cup {Nobody}]]
      /\ UNCHANGED <<owner, nusers, held>>
  BY DEF TrylockCas, At, LockInv, Shape
<1>2. CASE /\ lock[th[t].m] = 0 /\ lock' = [lock EXCEPT ![th[t].m] = 1]
           /\ th' = [th EXCEPT ![t].at = "won"]
  <2>1. Shape'
    BY <1>1, <1>2 DEF LockInv, Shape, Places, CallRight, InCall, At
  <2>2. CallRight'
    <3>1. th[t].m \in Mutexes /\ ~Has(t, th[t].m)
      BY <1>1, <1>2 DEF LockInv, CallRight, InCall, Exclusive, At
    <3>2. th[t].m \notin held[t]
      BY <3>1 DEF Has
    <3> QED
      BY <1>1, <1>2, <3>1, <3>2 DEF LockInv, Shape, CallRight, InCall, At
  <2>3. Exclusive'
    BY <1>1, <1>2 DEF LockInv, Shape, Exclusive, Has, At
  <2>4. Taken'
    BY <1>1, <1>2 DEF LockInv, Shape, Taken, Has, At
  <2>5. OwnerRight'
    BY <1>1, <1>2 DEF LockInv, Shape, OwnerRight, At
  <2>6. UsersRight'
    BY <1>1, <1>2 DEF LockInv, Shape, OwnerRight, UsersRight, At
  <2>7. NoSleeperForgotten'
    BY <1>1, <1>2 DEF LockInv, Shape, NoSleeperForgotten, Sleepers, At
  <2> QED
    BY <2>1, <2>2, <2>3, <2>4, <2>5, <2>6, <2>7 DEF LockInv
<1>3. CASE lock' = lock /\ th' = [th EXCEPT ![t] = [at |-> "user", m |-> Nobody]]
  <2>1. Shape'
    BY <1>1, <1>3 DEF LockInv, Shape, Places, CallRight, InCall, At
  <2>2. CallRight'
    BY <1>1, <1>3 DEF LockInv, Shape, CallRight, InCall, At
  <2>3. Exclusive'
    BY <1>1, <1>3 DEF LockInv, Shape, Exclusive, Has, At
  <2>4. Taken'
    BY <1>1, <1>3 DEF LockInv, Shape, Taken, Has, At
  <2>5. OwnerRight'
    BY <1>1, <1>3 DEF LockInv, Shape, OwnerRight, At
  <2>6. UsersRight'
    BY <1>1, <1>3 DEF LockInv, Shape, OwnerRight, UsersRight, At
  <2>7. NoSleeperForgotten'
    BY <1>1, <1>3 DEF LockInv, Shape, NoSleeperForgotten, Sleepers, At
  <2> QED
    BY <2>1, <2>2, <2>3, <2>4, <2>5, <2>6, <2>7 DEF LockInv
<1> QED
  BY <1>2, <1>3 DEF TrylockCas, CompareAndExchange, Goto, Return, AtUser

\* The assertion that nobody owns the mutex holds, and the winner does then.
LEMMA WonLock == ASSUME LockInv, NEW t \in Threads, Won(t) PROVE LockInv'
<1> DEFINE m == th[t].m
<1>1. th[t].at = "won" /\ Has(t, m) /\ m \in Mutexes /\ m \notin held[t]
  BY DEF Won, At, LockInv, CallRight, InCall, Has
<1>2. owner[m] = Nobody
  BY <1>1 DEF LockInv, Shape, Exclusive, OwnerRight, Has
<1>3. /\ th' = [th EXCEPT ![t] = [at |-> "user", m |-> Nobody]] /\ lock' = lock
      /\ owner' = [owner EXCEPT ![m] = t] /\ nusers' = [nusers EXCEPT ![m] = @ + 1]
      /\ held' = [held EXCEPT ![t] = @ \cup {m}]
  BY <1>2 DEF Won, Return, AtUser
<1>4. Shape'
  BY <1>1, <1>3 DEF LockInv, Shape, Places
<1>5. \A u \in Threads, n \in Mutexes : Has(u, n)' <=> Has(u, n)
  BY <1>1, <1>3 DEF LockInv, Shape, Has
<1>6. CallRight'
  BY <1>1, <1>3 DEF LockInv, Shape, CallRight, InCall, At
<1>7. Exclusive' /\ Taken'
  BY <1>3, <1>5 DEF LockInv, Exclusive, Taken
<1>8. OwnerRight'
  BY <1>1, <1>2, <1>3, ThreadsAssumption DEF LockInv, Shape, OwnerRight
<1>9. UsersRight'
  BY <1>1, <1>2, <1>3, ThreadsAssumption DEF LockInv, Shape, UsersRight
<1>10. NoSleeperForgotten'
  <2>1. \A u \in Threads : u = t \/ th'[u] = th[u]
    BY <1>3 DEF LockInv, Shape
  <2>2. th[t].at = "won" /\ th'[t].at = "user"
    BY <1>1, <1>3 DEF LockInv, Shape
  <2> QED
    BY <2>1, <2>2, <1>3 DEF LockInv, NoSleeperForgotten, Sleepers, At
<1> QED
  BY <1>4, <1>6, <1>7, <1>8, <1>9, <1>10 DEF LockInv

\* unlock clears the fields before it gives the word back.
LEMMA UnlockBeginLock ==
    ASSUME LockInv, NEW t \in Threads, NEW m \in Mutexes, UnlockBegin(t, m)
    PROVE  LockInv'
<1>1. Shape'
  BY DEF LockInv, Shape, Places, UnlockBegin, At
<1>2. CallRight'
  BY DEF LockInv, Shape, CallRight, InCall, UnlockBegin, At
<1>3. Exclusive'
  BY DEF LockInv, Shape, Exclusive, Has, UnlockBegin, At
<1>4. Taken'
  BY DEF LockInv, Shape, Taken, Has, UnlockBegin, At
<1>5. OwnerRight'
  BY ThreadsAssumption DEF LockInv, Shape, OwnerRight, UnlockBegin, At
<1>6. UsersRight'
  BY ThreadsAssumption DEF LockInv, Shape, OwnerRight, UsersRight, UnlockBegin, At
<1>7. NoSleeperForgotten'
  BY DEF LockInv, Shape, NoSleeperForgotten, Sleepers, UnlockBegin, At
<1> QED
  BY <1>1, <1>2, <1>3, <1>4, <1>5, <1>6, <1>7 DEF LockInv

\* A 2 that is cleared takes the thread to the wake-up.
LEMMA ReleaseLock == ASSUME LockInv, NEW t \in Threads, Release(t) PROVE LockInv'
<1>1. Shape'
  BY DEF LockInv, Shape, Places, CallRight, InCall, Release, WakeNeeded, At, Goto
<1>2. CallRight'
  BY DEF LockInv, Shape, CallRight, InCall, Release, WakeNeeded, At, Goto
<1>3. Exclusive'
  BY DEF LockInv, Shape, Exclusive, Has, CallRight, InCall, Release, WakeNeeded, At, Goto
<1>4. Taken'
  BY DEF LockInv, Shape, Taken, Has, Release, WakeNeeded, At, Goto
<1>5. OwnerRight'
  BY ThreadsAssumption DEF LockInv, Shape, OwnerRight, Release, WakeNeeded, At, Goto
<1>6. UsersRight'
  BY ThreadsAssumption DEF LockInv, Shape, OwnerRight, UsersRight, Release, WakeNeeded, At,
     Goto
<1>7. NoSleeperForgotten'
  BY DEF LockInv, Shape, NoSleeperForgotten, Sleepers, Release, WakeNeeded, At, Goto
<1> QED
  BY <1>1, <1>2, <1>3, <1>4, <1>5, <1>6, <1>7 DEF LockInv

\* The sleeper that is woken is about to write 2.
LEMMA WakeLock == ASSUME LockInv, NEW t \in Threads, Wake(t) PROVE LockInv'
<1>1. /\ th[t].at = "wake" /\ th \in [Threads -> [at : Places, m : Mutexes \cup {Nobody}]]
      /\ UNCHANGED <<lock, owner, nusers, held>>
  BY DEF Wake, At, LockInv, Shape, mutexVars
<1>2. CASE Sleepers(th[t].m) = {} /\ th' = [th EXCEPT ![t].at = "lower"]
  <2>1. Shape'
    BY <1>1, <1>2 DEF LockInv, Shape, Places, CallRight, InCall, At
  <2>2. CallRight'
    BY <1>1, <1>2 DEF LockInv, Shape, CallRight, InCall, At
  <2>3. Exclusive'
    BY <1>1, <1>2 DEF LockInv, Shape, Exclusive, Has, At
  <2>4. Taken'
    BY <1>1, <1>2 DEF LockInv, Shape, Taken, Has, At
  <2>5. OwnerRight'
    BY <1>1, <1>2 DEF LockInv, Shape, OwnerRight, At
  <2>6. UsersRight'
    BY <1>1, <1>2 DEF LockInv, Shape, OwnerRight, UsersRight, At
  <2>7. NoSleeperForgotten'
    BY <1>1, <1>2 DEF LockInv, Shape, NoSleeperForgotten, Sleepers, At
  <2> QED
    BY <2>1, <2>2, <2>3, <2>4, <2>5, <2>6, <2>7 DEF LockInv
<1>3. ASSUME NEW u \in Sleepers(th[t].m), th' = [th EXCEPT ![t].at = "lower", ![u].at = "retry"]
      PROVE  LockInv'
  <2>1. /\ u \in Threads /\ u # t /\ th[u].at = "asleep" /\ th[u].m = th[t].m
        /\ th'[t] = [th[t] EXCEPT !.at = "lower"] /\ th'[u] = [th[u] EXCEPT !.at = "retry"]
        /\ \A v \in Threads : v # t /\ v # u => th'[v] = th[v]
    BY <1>1, <1>3 DEF Sleepers, At
  <2>2. /\ \A v \in Threads : th'[v].m = th[v].m
        /\ th'[t].at = "lower" /\ th'[u].at = "retry"
    BY <1>1, <2>1
  <2>3. Shape'
    BY <1>1, <1>3, <2>1 DEF LockInv, Shape, Places
  <2>4. CallRight'
    BY <1>1, <2>1, <2>2 DEF LockInv, CallRight, InCall, At
  <2>5. \A v \in Threads, n \in Mutexes : Has(v, n)' <=> Has(v, n)
    BY <1>1, <2>1, <2>2 DEF Has
  <2>6. Exclusive' /\ Taken' /\ OwnerRight' /\ UsersRight'
    BY <1>1, <2>5 DEF LockInv, Exclusive, Taken, OwnerRight, UsersRight
  <2>7. NoSleeperForgotten'
    BY <1>1, <2>1, <2>2 DEF LockInv, NoSleeperForgotten, Sleepers, At
  <2> QED
    BY <2>3, <2>4, <2>6, <2>7 DEF LockInv
<1> QED
  BY <1>2, <1>3 DEF Wake, Goto

\* The thread leaves unlock.
LEMMA LowerLock == ASSUME LockInv, NEW t \in Threads, Lower(t) PROVE LockInv'
<1>1. Shape'
  BY DEF LockInv, Shape, Places, Lower, mutexVars, Return, AtUser, At
<1>2. CallRight'
  BY DEF LockInv, Shape, CallRight, InCall, Lower, mutexVars, Return, AtUser, At
<1>3. Exclusive'
  BY DEF LockInv, Shape, Exclusive, Has, Lower, mutexVars, Return, AtUser, At
<1>4. Taken'
  BY DEF LockInv, Shape, Taken, Has, Lower, mutexVars, Return, AtUser, At
<1>5. OwnerRight'
  BY ThreadsAssumption DEF LockInv, Shape, OwnerRight, Lower, mutexVars, Return, AtUser, At
<1>6. UsersRight'
  BY ThreadsAssumption DEF LockInv, Shape, OwnerRight, UsersRight, Lower, mutexVars, Return,
     AtUser, At
<1>7. NoSleeperForgotten'
  BY DEF LockInv, Shape, NoSleeperForgotten, Sleepers, Lower, mutexVars, Return, AtUser, At
<1> QED
  BY <1>1, <1>2, <1>3, <1>4, <1>5, <1>6, <1>7 DEF LockInv

\* The calls of Next that leave the lock words alone, or get into a call.
LEMMA CallLock ==
    ASSUME LockInv, NEW t \in Threads, NEW m \in Mutexes, Call(t, m) \/ UnlockOnce(t, m)
    PROVE  LockInv'
<1>1. ASSUME NEW label \in {"cas", "try"}, owner[m] # t \/ label = "try", Raise(t, m, label)
      PROVE  LockInv'
  <2>1. /\ At(t, "user") /\ UNCHANGED <<lock, owner, nusers, held>>
        /\ th' = th \/ th' = [th EXCEPT ![t] = [at |-> label, m |-> m]]
    BY <1>1 DEF Raise, mutexVars
  <2> QED
    BY <1>1, <2>1, EnterLock, StillLock DEF lockView
<1>2. CASE LockAgain(t, m) \/ LockRefused(t, m) \/ UnlockRefused(t, m) \/ UnlockOnce(t, m)
  BY <1>2, StillLock DEF LockAgain, LockRefused, UnlockRefused, UnlockOnce, vars, mutexVars,
     lockView
<1> QED
  BY <1>1, <1>2 DEF Call, Lock, Trylock

\* Every step preserves the invariant.
LEMMA NextLock == LockInv /\ [Next]_vars => LockInv'
<1> SUFFICES ASSUME LockInv, [Next]_vars PROVE LockInv'
  OBVIOUS
<1>1. CASE UNCHANGED vars
  BY <1>1, StillLock DEF vars, mutexVars, lockView
<1>2. CASE \E t \in Threads : Inner(t) \/ FutexInterrupted(t)
  BY <1>2, LockCasLock, AnnounceLock, FutexWaitLock, FutexInterruptedLock, RetryLock,
     TrylockCasLock, WonLock, ReleaseLock, WakeLock, LowerLock DEF Inner
<1>3. CASE \E t \in Threads, m \in Mutexes : Call(t, m) \/ Unlock(t, m)
  BY <1>3, CallLock, UnlockBeginLock DEF Unlock
<1> QED
  BY <1>1, <1>2, <1>3 DEF Next

\* The invariant of the lock words holds in every reachable state.
THEOREM LockInvariance == Spec => []LockInv
  BY InitLock, NextLock, PTL DEF Spec

\* The priority protected kinds exclude, although their protocol is not that of
\* lll_lock: one holder, whom __owner names, and one user.
THEOREM HolderIsOwnerHolds == Spec => []HolderIsOwner
<1>1. LockInv => HolderIsOwner
  <2> SUFFICES ASSUME LockInv, NEW m \in Mutexes
               PROVE  /\ \A t, u \in Threads : Has(t, m) /\ Has(u, m) => t = u
                      /\ lock[m] = 0 <=> \A t \in Threads : ~Has(t, m)
                      /\ \A t \in Threads : owner[m] = t <=> m \in held[t]
                      /\ nusers[m] = Cardinality({t \in Threads : m \in held[t]})
    BY DEF HolderIsOwner
  <2>1. owner[m] \in Threads \cup {Nobody} /\ \A t \in Threads : owner[m] = t <=> m \in held[t]
    BY DEF LockInv, Shape, OwnerRight
  <2>2. nusers[m] = Cardinality({t \in Threads : m \in held[t]})
    <3>1. CASE owner[m] = Nobody
      <4>1. {t \in Threads : m \in held[t]} = {}
        BY <2>1, <3>1, ThreadsAssumption
      <4>2. nusers[m] = 0
        BY <3>1 DEF LockInv, UsersRight
      <4> QED
        BY <4>1, <4>2, FS_EmptySet
    <3>2. CASE owner[m] # Nobody
      <4>1. {t \in Threads : m \in held[t]} = {owner[m]}
        BY <2>1, <3>2
      <4>2. nusers[m] = 1
        BY <3>2 DEF LockInv, UsersRight
      <4> QED
        BY <4>1, <4>2, FS_Singleton
    <3> QED
      BY <3>1, <3>2
  <2> QED
    BY <2>1, <2>2 DEF LockInv, Exclusive, Taken
<1> QED
  BY <1>1, LockInvariance, PTL

\* No sleeper on the word of such a mutex is forgotten: announcing, waiting and
\* taking are separate steps, and each leaves a 2 or a thread that will see to it.
THEOREM NoSleeperForgottenHolds == Spec => []NoSleeperForgotten
<1>1. LockInv => NoSleeperForgotten
  BY DEF LockInv
<1> QED
  BY <1>1, LockInvariance, PTL

-----------------------------------------------------------------------------
(***************************************************************************)
(* Such a mutex as a lock: who has its word, and who waits for it.         *)
(***************************************************************************)
Waits(t, m) == th[t].m = m /\ th[t].at \in {"announce", "wait", "asleep", "retry"}

WordLock(m) == INSTANCE AbstractLock
                 WITH holders <- {t \in Threads : Has(t, m)},
                      trying  <- {t \in Threads : Waits(t, m)}

\* A step after which every thread has or awaits the word as before.
LEMMA SameForLock ==
    ASSUME NEW m \in Mutexes,
           \A u \in Threads : (Has(u, m)' <=> Has(u, m)) /\ (Waits(u, m)' <=> Waits(u, m))
    PROVE  UNCHANGED WordLock(m)!avars
  BY DEF WordLock!avars

\* A step of one thread, as the abstract lock of a mutex sees it.
LEMMA InnerIsLockStep ==
    ASSUME LockInv, NEW m \in Mutexes, NEW t \in Threads, Inner(t) \/ FutexInterrupted(t)
    PROVE  [WordLock(m)!ANext]_(WordLock(m)!avars)
<1> USE DEF LockInv, Shape, Places, CallRight, InCall, Exclusive, Taken, Has, Waits, At
<1>1. CASE LockCas(t)
  <2>1. CASE lock[th[t].m] = 0
    <3>1. /\ th' = [th EXCEPT ![t].at = "won"] /\ th[t].at = "cas" /\ held' = held
      BY <1>1, <2>1 DEF LockCas, CompareAndExchange, Goto
    <3>2. CASE th[t].m = m
      <4>1. lock[m] = 0 /\ \A u \in Threads : ~Has(u, m)
        BY <2>1, <3>2
      <4>2. /\ Has(t, m)' /\ \A u \in Threads \ {t} : ~Has(u, m)'
            /\ \A u \in Threads : Waits(u, m)' <=> Waits(u, m)
            /\ ~Waits(t, m)
        BY <3>1, <3>2, <4>1
      <4> QED
        BY <4>1, <4>2 DEF WordLock!ANext, WordLock!Acquire
    <3>3. CASE th[t].m # m
      BY <3>1, <3>3, SameForLock
    <3> QED
      BY <3>2, <3>3
  <2>2. CASE lock[th[t].m] # 0
    <3>1. th' = [th EXCEPT ![t].at = "announce"] /\ th[t].at = "cas" /\ held' = held
      BY <1>1, <2>2 DEF LockCas, CompareAndExchange, Goto
    <3>2. CASE th[t].m = m
      <4>1. ~Has(t, m) /\ ~Waits(t, m) /\ Waits(t, m)'
        BY <3>1, <3>2
      <4>2. ASSUME NEW u \in Threads
            PROVE  /\ Has(u, m)' <=> Has(u, m)
                   /\ u # t => (Waits(u, m)' <=> Waits(u, m))
        BY <3>1
      <4>3. \E u \in Threads : Has(u, m)
        BY <2>2, <3>2
      <4> HIDE DEF Has, Waits, LockInv, Shape, CallRight, Exclusive, Taken
      <4>4. /\ {u \in Threads : Has(u, m)'} = {u \in Threads : Has(u, m)}
            /\ {u \in Threads : Waits(u, m)'} = {u \in Threads : Waits(u, m)} \cup {t}
            /\ {u \in Threads : Has(u, m)} # {} /\ t \notin {u \in Threads : Has(u, m)}
            /\ t \notin {u \in Threads : Waits(u, m)}
        BY <4>1, <4>2, <4>3
      <4> QED
        BY <4>4 DEF WordLock!ANext, WordLock!Request
    <3>3. CASE th[t].m # m
      BY <3>1, <3>3, SameForLock
    <3> QED
      BY <3>2, <3>3
  <2> QED
    BY <2>1, <2>2
<1>2. CASE Announce(t)
  BY <1>2 DEF Announce, CompareAndExchange, Goto,
              WordLock!ANext, WordLock!avars, WordLock!Request, WordLock!Acquire
<1>3. CASE FutexWait(t)
  BY <1>3 DEF FutexWait, Goto, mutexVars, WordLock!avars
<1>4. CASE FutexInterrupted(t)
  BY <1>4 DEF FutexInterrupted, Goto, mutexVars, WordLock!avars
<1>5. CASE Retry(t)
  BY <1>5 DEF Retry, CompareAndExchange, Goto,
              WordLock!ANext, WordLock!avars, WordLock!Request, WordLock!Acquire
<1>6. CASE TrylockCas(t)
  <2>1. CASE lock[th[t].m] = 0
    <3>1. /\ th' = [th EXCEPT ![t].at = "won"] /\ th[t].at = "try" /\ held' = held
      BY <1>6, <2>1 DEF TrylockCas, CompareAndExchange, Goto
    <3>2. CASE th[t].m = m
      <4>1. lock[m] = 0 /\ \A u \in Threads : ~Has(u, m)
        BY <2>1, <3>2
      <4>2. /\ Has(t, m)' /\ \A u \in Threads \ {t} : ~Has(u, m)'
            /\ \A u \in Threads : Waits(u, m)' <=> Waits(u, m)
            /\ ~Waits(t, m)
        BY <3>1, <3>2, <4>1
      <4> QED
        BY <4>1, <4>2 DEF WordLock!ANext, WordLock!Acquire
    <3>3. CASE th[t].m # m
      BY <3>1, <3>3, SameForLock
    <3> QED
      BY <3>2, <3>3
  <2>2. CASE lock[th[t].m] # 0
    <3>1. th' = [th EXCEPT ![t] = AtUser] /\ th[t].at = "try" /\ held' = held
      BY <1>6, <2>2 DEF TrylockCas, Return
    <3> QED
      BY <3>1, SameForLock DEF AtUser
  <2> QED
    BY <2>1, <2>2
<1>7. CASE Won(t)
  <2>1. /\ th[t].at = "won"
        /\ \/ th' = th /\ held' = held
           \/ th' = [th EXCEPT ![t] = AtUser] /\ held' = [held EXCEPT ![t] = @ \cup {th[t].m}]
    BY <1>7 DEF Won, Return
  <2>2. ASSUME NEW u \in Threads
        PROVE  (Has(u, m)' <=> Has(u, m)) /\ (Waits(u, m)' <=> Waits(u, m))
    BY <2>1 DEF AtUser
  <2> QED
    BY <2>2, SameForLock
<1>8. CASE Release(t)
  <2>1. /\ th[t].at = "release" /\ held' = held
        /\ \E label \in {"wake", "lower"} : th' = [th EXCEPT ![t].at = label]
    BY <1>8 DEF Release, Goto
  <2>2. /\ \A u \in Threads : Waits(u, m)' <=> Waits(u, m)
        /\ \A u \in Threads \ {t} : Has(u, m)' <=> Has(u, m)
        /\ th[t].m # m => (Has(t, m)' <=> Has(t, m))
        /\ th[t].m = m => Has(t, m) /\ ~Has(t, m)'
    BY <2>1
  <2>3. CASE th[t].m # m
    BY <2>2, <2>3, SameForLock
  <2>4. CASE th[t].m = m
    <3> HIDE DEF LockInv, Shape, CallRight, Exclusive, Taken, Has, Waits
    <3>1. Has(t, m) /\ \A u \in Threads : Has(u, m) => u = t
      BY <2>2, <2>4 DEF LockInv, Exclusive
    <3>2. /\ {u \in Threads : Has(u, m)} = {t} /\ {u \in Threads : Has(u, m)'} = {}
          /\ {u \in Threads : Waits(u, m)'} = {u \in Threads : Waits(u, m)}
      BY <2>2, <2>4, <3>1
    <3> QED
      BY <3>2 DEF WordLock!ANext, WordLock!Release
  <2> QED
    BY <2>3, <2>4
<1>9. CASE Wake(t)
  <2>1. /\ th[t].at = "wake" /\ held' = held
        /\ \/ th' = [th EXCEPT ![t].at = "lower"]
           \/ \E u \in Threads : /\ th[u].at = "asleep"
                                 /\ th' = [th EXCEPT ![t].at = "lower", ![u].at = "retry"]
    BY <1>9 DEF Wake, Goto, Sleepers
  <2>2. ASSUME NEW u \in Threads
        PROVE  (Has(u, m)' <=> Has(u, m)) /\ (Waits(u, m)' <=> Waits(u, m))
    <3>1. CASE th' = [th EXCEPT ![t].at = "lower"]
      BY <2>1, <3>1
    <3>2. ASSUME NEW v \in Threads, th[v].at = "asleep",
                 th' = [th EXCEPT ![t].at = "lower", ![v].at = "retry"]
          PROVE  (Has(u, m)' <=> Has(u, m)) /\ (Waits(u, m)' <=> Waits(u, m))
      <4>1. /\ th'[t].at = "lower" /\ th'[t].m = th[t].m
            /\ th'[v].at = "retry" /\ th'[v].m = th[v].m
            /\ u # t /\ u # v => th'[u] = th[u]
        BY <2>1, <3>2
      <4>2. CASE u = t
        BY <2>1, <4>1, <4>2
      <4>3. CASE u = v
        BY <2>1, <3>2, <4>1, <4>3
      <4>4. CASE u # t /\ u # v
        BY <2>1, <4>1, <4>4
      <4> QED
        BY <4>2, <4>3, <4>4
    <3> QED
      BY <2>1, <3>1, <3>2
  <2> QED
    BY <2>2, SameForLock
<1>10. CASE Lower(t)
  BY <1>10 DEF Lower, Return, AtUser, mutexVars, WordLock!avars
<1> QED
  BY <1>1, <1>2, <1>3, <1>4, <1>5, <1>6, <1>7, <1>8, <1>9, <1>10 DEF Inner

\* The calls that enter lock or trylock, or leave the words alone, and unlock while it
\* has the word still.
LEMMA CallIsLockStep ==
    ASSUME LockInv, NEW m \in Mutexes, NEW t \in Threads, NEW n \in Mutexes,
           Call(t, n) \/ Unlock(t, n)
    PROVE  UNCHANGED WordLock(m)!avars
<1> USE DEF LockInv, Shape, Places, CallRight, InCall, Has, Waits, At, WordLock!avars
<1>1. ASSUME NEW label \in {"cas", "try"}, Raise(t, n, label) PROVE UNCHANGED WordLock(m)!avars
  <2>1. /\ At(t, "user") /\ UNCHANGED held
        /\ th' = th \/ th' = [th EXCEPT ![t] = [at |-> label, m |-> n]]
    BY <1>1 DEF Raise
  <2>2. ASSUME NEW u \in Threads
        PROVE  (Has(u, m)' <=> Has(u, m)) /\ (Waits(u, m)' <=> Waits(u, m))
    <3>1. CASE u = t
      <4>1. th[t].at = "user" /\ th'[t].at \in {"user", label} /\ held'[t] = held[t]
        BY <2>1
      <4> QED
        BY <3>1, <4>1
    <3>2. CASE u # t
      BY <2>1, <3>2
    <3> QED
      BY <3>1, <3>2
  <2> QED
    BY <2>2, SameForLock
<1>2. CASE LockAgain(t, n) \/ LockRefused(t, n) \/ UnlockRefused(t, n) \/ UnlockOnce(t, n)
  BY <1>2 DEF LockAgain, LockRefused, UnlockRefused, UnlockOnce, vars
<1>3. CASE UnlockBegin(t, n)
  BY <1>3 DEF UnlockBegin
<1> QED
  BY <1>1, <1>2, <1>3 DEF Call, Lock, Trylock, Unlock

\* Every priority protected mutex implements the abstract lock (safety part) although
\* its word has a protocol of its own, the one of LowLevelLock being that of other kinds.
THEOREM WordsAreLocks == ASSUME NEW m \in Mutexes PROVE Spec => WordLock(m)!ASpec
<1>1. Init => WordLock(m)!AInit
  BY DEF Init, AtUser, Has, Waits, WordLock!AInit
<1>2. LockInv /\ [Next]_vars => [WordLock(m)!ANext]_(WordLock(m)!avars)
  <2>1. UNCHANGED vars => UNCHANGED WordLock(m)!avars
    BY DEF vars, Has, Waits, WordLock!avars
  <2> QED
    BY <2>1, InnerIsLockStep, CallIsLockStep DEF Next
<1> QED
  BY <1>1, <1>2, LockInvariance, PTL DEF Spec, WordLock!ASpec

-----------------------------------------------------------------------------
(***************************************************************************)
(* The books of all threads.                                               *)
(***************************************************************************)

CountOf(S, c) == Cardinality({m \in S : Ceiling[m] = c})

\* How often the thread claims each ceiling.
ClaimsOf(t) == [c \in Prios |-> Claims(t, c)]

\* The map of s covers n claims of each ceiling.
Covers(s, n) == \A c \in Prios : /\ s.priomap[c] >= n[c]
                                 /\ ~s.refused => s.priomap[c] = n[c]

\* One claim more of the ceiling p.
OneMore(n, p) == [c \in Prios |-> n[c] + (IF p = c THEN 1 ELSE 0)]

Books(t) ==
    /\ Kept(t, sched[t])
    /\ IsFiniteSet(Claimed(t))
    /\ \A m \in Claimed(t) : m \in Mutexes /\ Ceiling[m] \in Prios
    /\ Covers(sched[t], ClaimsOf(t))

BooksInv == sched \in [Threads -> Data] /\ \A t \in Threads : Books(t)

\* One more claim counts for its ceiling and for no other.
LEMMA CountOfMore ==
    ASSUME NEW S, IsFiniteSet(S), NEW m, m \notin S, NEW c
    PROVE  /\ CountOf(S, c) \in Nat
           /\ CountOf(S \cup {m}, c) = CountOf(S, c) + (IF Ceiling[m] = c THEN 1 ELSE 0)
<1> DEFINE P == {x \in S : Ceiling[x] = c}
           Q == {x \in S \cup {m} : Ceiling[x] = c}
<1>1. IsFiniteSet(P) /\ m \notin P
  BY FS_Subset
<1>2. Cardinality(P) \in Nat
  BY <1>1, FS_CardinalityType
<1>3. CountOf(S, c) = Cardinality(P) /\ CountOf(S \cup {m}, c) = Cardinality(Q)
  BY DEF CountOf
<1>4. CASE Ceiling[m] = c
  <2>1. Q = P \cup {m}
    BY <1>4
  <2> HIDE DEF P, Q
  <2>2. Cardinality(P \cup {m}) = Cardinality(P) + 1
    BY <1>1, FS_AddElement
  <2> QED
    BY <1>2, <1>3, <1>4, <2>1, <2>2
<1>5. CASE Ceiling[m] # c
  <2>1. Q = P
    BY <1>5
  <2> HIDE DEF P, Q
  <2> QED
    BY <1>2, <1>3, <1>5, <2>1
<1> QED
  BY <1>4, <1>5

\* The claims are numbers.
LEMMA ClaimsType ==
    ASSUME NEW t \in Threads, IsFiniteSet(Claimed(t))
    PROVE  ClaimsOf(t) \in [Prios -> Nat] /\ IsFiniteSet(held[t])
<1>1. IsFiniteSet(held[t])
  BY FS_Subset DEF Claimed
<1>2. ASSUME NEW c \in Prios PROVE Claims(t, c) \in Nat
  <2> DEFINE P == {m \in held[t] : Ceiling[m] = c}
  <2>1. IsFiniteSet(P)
    BY <1>1, FS_Subset
  <2>2. Cardinality(P) \in Nat
    BY <2>1, FS_CardinalityType
  <2>3. Claims(t, c) = Cardinality(P) + OfCall(t, c)
    BY DEF Claims
  <2> HIDE DEF P
  <2> QED
    BY <2>2, <2>3 DEF OfCall
<1> QED
  BY <1>1, <1>2 DEF ClaimsOf

\* Taking a ceiling.
LEMMA TakeCovers ==
    ASSUME NEW t \in Threads, NEW s, Kept(t, s), NEW n \in [Prios -> Nat], Covers(s, n),
           NEW p \in Prios, NEW r, Kept(t, r[1]),
           Changed(s, r, None, p), Legal(s.priomap, None, p)
    PROVE  IF r[2] = "0" THEN Covers(r[1], OneMore(n, p)) ELSE Covers(r[1], n)
<1>1. s.priomap \in [Prios -> Width]
  BY DEF Kept, Data
<1>2. r[1].priomap = [c \in Prios |-> IF c = p THEN s.priomap[c] + 1
                                      ELSE IF c = None THEN s.priomap[c] - 1 ELSE s.priomap[c]]
  BY <1>1, AfterIs DEF Changed
<1>3. \A c \in Prios :
        /\ s.priomap[c] \in Int /\ n[c] \in Nat
        /\ r[1].priomap[c] = s.priomap[c] + (IF p = c THEN 1 ELSE 0)
        /\ OneMore(n, p)[c] = n[c] + (IF p = c THEN 1 ELSE 0)
  BY <1>1, <1>2, NoneIsNoPrio, WidthsAssumption DEF Width, OneMore
<1>4. CASE r[2] = "0"
  <2>1. r[1].refused = s.refused
    BY <1>4 DEF Changed
  <2> QED
    BY <1>3, <1>4, <2>1 DEF Covers
<1>5. CASE r[2] # "0"
  <2>1. r[1].refused
    BY <1>5 DEF Changed
  <2> QED
    BY <1>3, <1>5, <2>1 DEF Covers
<1> QED
  BY <1>4, <1>5

\* Giving one back.
LEMMA GiveCovers ==
    ASSUME NEW t \in Threads, NEW s, Kept(t, s), NEW n \in [Prios -> Nat], NEW p \in Prios,
           Covers(s, OneMore(n, p)), NEW r, Kept(t, r[1]),
           Changed(s, r, p, None), Legal(s.priomap, p, None)
    PROVE  Covers(r[1], n)
<1>1. s.priomap \in [Prios -> Width]
  BY DEF Kept, Data
<1>2. r[1].priomap = [c \in Prios |-> IF c = None THEN s.priomap[c] + 1
                                      ELSE IF c = p THEN s.priomap[c] - 1
                                      ELSE s.priomap[c]]
  BY <1>1, AfterIs DEF Changed
<1>3. \A c \in Prios :
        /\ s.priomap[c] \in Int /\ n[c] \in Nat
        /\ r[1].priomap[c] = s.priomap[c] - (IF p = c THEN 1 ELSE 0)
        /\ OneMore(n, p)[c] = n[c] + (IF p = c THEN 1 ELSE 0)
  BY <1>1, <1>2, NoneIsNoPrio, WidthsAssumption DEF Width, OneMore
<1>4. r[1].refused \/ r[1].refused = s.refused
  BY DEF Changed
<1> QED
  BY <1>3, <1>4 DEF Covers

\* The claims of t are those they were.
SameClaimsOf(t) == Claimed(t)' = Claimed(t) /\ ClaimsOf(t)' = ClaimsOf(t)

\* The books of a thread whose claims and data a step leaves alone.
LEMMA SameClaims ==
    ASSUME NEW t \in Threads, Books(t), sched'[t] = sched[t], SameClaimsOf(t)
    PROVE  Books(t)'
  BY DEF Books, SameClaimsOf

\* What a step does to a thread outside of sched: nothing that changes its claims.
SameCall(t) == /\ th'[t].m = th[t].m /\ (th'[t].at = "user" <=> th[t].at = "user")
               /\ held'[t] = held[t]

\* Claims depend on nothing else.
LEMMA SameCallSameClaims ==
    ASSUME NEW t \in Threads, SameCall(t)
    PROVE  SameClaimsOf(t)
  BY DEF SameCall, SameClaimsOf, Claimed, ClaimsOf, Claims, OfCall, InCall, At

\* The steps between two operations on the books.
LEMMA StillBooks ==
    ASSUME BooksInv, sched' = sched, \A t \in Threads : SameClaimsOf(t)
    PROVE  BooksInv'
  BY SameClaims DEF BooksInv

\* The claim of a call becomes that of a holder, or the other way round.
LEMMA MovedClaim ==
    ASSUME NEW t \in Threads, NEW H, IsFiniteSet(H), NEW m, m \notin H,
           \/ /\ held[t] = H /\ InCall(t) /\ th[t].m = m
              /\ held'[t] = H \cup {m} /\ ~InCall(t)'
           \/ /\ held[t] = H \cup {m} /\ ~InCall(t)
              /\ held'[t] = H /\ InCall(t)' /\ th'[t].m = m
    PROVE  SameClaimsOf(t)
<1>1. Claimed(t)' = Claimed(t)
  BY DEF Claimed, InCall
<1>2. ASSUME NEW c \in Prios PROVE Claims(t, c)' = Claims(t, c)
  <2>1. /\ CountOf(H, c) \in Nat
        /\ CountOf(H \cup {m}, c) = CountOf(H, c) + (IF Ceiling[m] = c THEN 1 ELSE 0)
    BY CountOfMore
  <2>2. /\ Claims(t, c) = CountOf(held[t], c) + OfCall(t, c)
        /\ Claims(t, c)' = CountOf(held'[t], c) + OfCall(t, c)'
    BY DEF Claims, CountOf
  <2>3. ASSUME held[t] = H, InCall(t), th[t].m = m, held'[t] = H \cup {m}, ~InCall(t)'
        PROVE  Claims(t, c)' = Claims(t, c)
    <3>1. OfCall(t, c) = (IF Ceiling[m] = c THEN 1 ELSE 0) /\ OfCall(t, c)' = 0
      BY <2>3 DEF OfCall
    <3> QED
      BY <2>1, <2>2, <2>3, <3>1
  <2>4. ASSUME held[t] = H \cup {m}, ~InCall(t), held'[t] = H, InCall(t)', th'[t].m = m
        PROVE  Claims(t, c)' = Claims(t, c)
    <3>1. OfCall(t, c)' = (IF Ceiling[m] = c THEN 1 ELSE 0) /\ OfCall(t, c) = 0
      BY <2>4 DEF OfCall
    <3> QED
      BY <2>1, <2>2, <2>4, <3>1
  <2> QED
    BY <2>3, <2>4
<1> QED
  BY <1>1, <1>2 DEF SameClaimsOf, ClaimsOf

\* The steps that change the books of one thread.
LEMMA OneBooks ==
    ASSUME BooksInv, NEW t \in Threads, NEW s, Kept(t, s), sched' = [sched EXCEPT ![t] = s],
           \A u \in Threads \ {t} : SameClaimsOf(u), Books(t)'
    PROVE  BooksInv'
<1>1. \A u \in Threads \ {t} : Books(u) /\ sched'[u] = sched[u]
  BY DEF BooksInv
<1>2. \A u \in Threads \ {t} : Books(u)'
  BY <1>1, SameClaims
<1> QED
  BY <1>2 DEF BooksInv, Kept

\* How many mutexes of a finite set have a ceiling is a number.
LEMMA CountIsNat == ASSUME NEW S, IsFiniteSet(S), NEW c PROVE CountOf(S, c) \in Nat
<1> DEFINE P == {x \in S : Ceiling[x] = c}
<1>1. IsFiniteSet(P)
  BY FS_Subset
<1> QED
  BY <1>1, FS_CardinalityType DEF CountOf

\* Raising the priority, the first step of lock and trylock.
LEMMA RaiseBooks ==
    ASSUME LockInv, BooksInv, NEW t \in Threads, NEW m \in Mutexes,
           NEW label \in {"cas", "try"}, Raise(t, m, label)
    PROVE  BooksInv'
<1>1. Books(t) /\ sched \in [Threads -> Data]
  BY DEF BooksInv
<1>2. /\ th[t].at = "user" /\ held' = held
      /\ th \in [Threads -> [at : Places, m : Mutexes \cup {Nobody}]]
      /\ Claimed(t) = held[t] /\ \A c : OfCall(t, c) = 0
  BY DEF Raise, LockInv, Shape, At, Claimed, OfCall, InCall
<1>3. PICK r \in CurrentPriority(sched[t]) :
        IF r[2] > Ceiling[m]
          THEN sched' = [sched EXCEPT ![t] = r[1]] /\ th' = th
          ELSE \E c \in tpp_change_priority(t, r[1], None, Ceiling[m]) :
                 /\ sched' = [sched EXCEPT ![t] = c[1]]
                 /\ th' = IF c[2] = "0" THEN [th EXCEPT ![t] = [at |-> label, m |-> m]] ELSE th
  BY DEF Raise
<1>4. Kept(t, r[1]) /\ SameBooks(r[1], sched[t])
  BY <1>1, CurrentPriorityIs DEF Books
<1>5. \A u \in Threads \ {t} : SameClaimsOf(u)
  <2> TAKE u \in Threads \ {t}
  <2>1. th'[u] = th[u]
    BY <1>2, <1>3
  <2> QED
    BY <2>1, <1>2, SameCallSameClaims DEF SameCall
<1>6. CASE r[2] > Ceiling[m]
  <2>1. sched'[t] = r[1] /\ SameClaimsOf(t)
    BY <1>1, <1>2, <1>3, <1>6, SameCallSameClaims DEF SameCall
  <2>2. Books(t)'
    BY <1>1, <1>4, <2>1 DEF Books, Covers, SameBooks, SameClaimsOf
  <2> QED
    BY <1>3, <1>4, <1>5, <1>6, <2>2, OneBooks
<1>7. CASE ~(r[2] > Ceiling[m])
  <2>1. PICK c \in tpp_change_priority(t, r[1], None, Ceiling[m]) :
          /\ sched' = [sched EXCEPT ![t] = c[1]]
          /\ th' = IF c[2] = "0" THEN [th EXCEPT ![t] = [at |-> label, m |-> m]] ELSE th
    BY <1>3, <1>7
  <2>2. Ceiling[m] \in Prios \cup {0}
    BY MutexesAssumption
  <2>3. /\ Kept(t, c[1])
        /\ \/ Unchanged(r[1], c)
           \/ Changed(r[1], c, None, Ceiling[m]) /\ Legal(r[1].priomap, None, Ceiling[m])
    BY <1>4, <2>2, TppIs
  <2>4. sched'[t] = c[1]
    BY <1>1, <2>1
  <2>5. Covers(r[1], ClaimsOf(t))
    BY <1>1, <1>4 DEF Books, Covers, SameBooks
  <2>6. CASE Unchanged(r[1], c)
    <3>1. th' = th
      BY <2>1, <2>6 DEF Unchanged
    <3>2. SameClaimsOf(t)
      BY <1>2, <3>1, SameCallSameClaims DEF SameCall
    <3>3. Books(t)'
      BY <1>1, <2>3, <2>4, <2>5, <2>6, <3>2 DEF Books, Covers, Unchanged, SameClaimsOf
    <3> QED
      BY <1>5, <2>1, <2>3, <3>3, OneBooks
  <2>7. CASE Changed(r[1], c, None, Ceiling[m]) /\ Legal(r[1].priomap, None, Ceiling[m])
    <3>1. Ceiling[m] \in Prios
      BY <2>7, NoneIsNoPrio DEF Legal
    <3>2. /\ Claimed(t)' = IF c[2] = "0" THEN Claimed(t) \cup {m} ELSE Claimed(t)
          /\ \A p : OfCall(t, p)' = IF c[2] = "0" /\ Ceiling[m] = p THEN 1 ELSE 0
      BY <1>2, <2>1 DEF Claimed, OfCall, InCall, At
    <3>3. /\ \A p \in Prios : ClaimsOf(t)[p] \in Nat
          /\ ClaimsOf(t) \in [Prios -> Nat]
      BY <1>1, ClaimsType DEF Books
    <3>4. ClaimsOf(t)' = IF c[2] = "0" THEN OneMore(ClaimsOf(t), Ceiling[m]) ELSE ClaimsOf(t)
      <4>1. ASSUME NEW p \in Prios
            PROVE  Claims(t, p)' = Claims(t, p) + OfCall(t, p)'
        <5>1. Claims(t, p)' = CountOf(held[t], p) + OfCall(t, p)'
          BY <1>2 DEF Claims, CountOf
        <5>2. Claims(t, p) = CountOf(held[t], p) + 0
          BY <1>2 DEF Claims, CountOf
        <5>3. CountOf(held[t], p) \in Nat
          BY <1>1, ClaimsType, CountIsNat DEF Books
        <5> QED
          BY <5>1, <5>2, <5>3
      <4>2. \A p \in Prios : ClaimsOf(t)'[p] = ClaimsOf(t)[p] + OfCall(t, p)'
        BY <4>1 DEF ClaimsOf
      <4> QED
        BY <3>2, <3>3, <4>2 DEF OneMore, ClaimsOf
    <3>5. IF c[2] = "0" THEN Covers(c[1], OneMore(ClaimsOf(t), Ceiling[m]))
                        ELSE Covers(c[1], ClaimsOf(t))
      BY <1>4, <2>3, <2>5, <2>7, <3>1, <3>3, TakeCovers
    <3>6. IsFiniteSet(Claimed(t) \cup {m})
      BY <1>1, FS_AddElement DEF Books
    <3>7. Books(t)'
      BY <1>1, <2>3, <2>4, <3>1, <3>2, <3>4, <3>5, <3>6 DEF Books
    <3> QED
      BY <1>5, <2>1, <2>3, <3>7, OneBooks
  <2> QED
    BY <2>3, <2>6, <2>7
<1> QED
  BY <1>6, <1>7

\* Lowering it, the last step of unlock and of a trylock that failed.
LEMMA LowerBooks ==
    ASSUME LockInv, BooksInv, NEW t \in Threads, th[t].at # "user",
           NEW r \in tpp_change_priority(t, sched[t], Ceiling[th[t].m], None),
           sched' = [sched EXCEPT ![t] = r[1]], Return(t), held' = held
    PROVE  BooksInv'
<1> DEFINE m == th[t].m
<1>1. Books(t) /\ sched \in [Threads -> Data]
  BY DEF BooksInv
<1>2. /\ m \in Claimed(t) /\ Claimed(t) = held[t] \cup {m}
      /\ th \in [Threads -> [at : Places, m : Mutexes \cup {Nobody}]]
      /\ \A c : OfCall(t, c) = IF Ceiling[m] = c THEN 1 ELSE 0
  BY DEF LockInv, Shape, InCall, At, Claimed, OfCall
<1>3. Claimed(t)' = held[t] /\ \A c : OfCall(t, c)' = 0
  BY <1>2 DEF Return, AtUser, Claimed, OfCall, InCall, At
<1>4. \A u \in Threads \ {t} : SameClaimsOf(u)
  <2> TAKE u \in Threads \ {t}
  <2>1. th'[u] = th[u]
    BY <1>2 DEF Return
  <2> QED
    BY <2>1, SameCallSameClaims DEF SameCall
<1>5. Kept(t, sched[t]) /\ Ceiling[m] \in Prios /\ Covers(sched[t], ClaimsOf(t))
  BY <1>1, <1>2 DEF Books
<1>6. IsFiniteSet(held[t])
  BY <1>1, ClaimsType DEF Books
<1>7. /\ ClaimsOf(t)' \in [Prios -> Nat]
      /\ ClaimsOf(t) = OneMore(ClaimsOf(t)', Ceiling[m])
  <2>1. ASSUME NEW c \in Prios
        PROVE  /\ Claims(t, c)' \in Nat
               /\ Claims(t, c) = Claims(t, c)' + (IF Ceiling[m] = c THEN 1 ELSE 0)
    <3>1. Claims(t, c)' = CountOf(held[t], c) + 0
      BY <1>3 DEF Claims, CountOf
    <3>2. Claims(t, c) = CountOf(held[t], c) + (IF Ceiling[m] = c THEN 1 ELSE 0)
      BY <1>2 DEF Claims, CountOf
    <3>3. CountOf(held[t], c) \in Nat
      BY <1>6, CountIsNat
    <3> QED
      BY <3>1, <3>2, <3>3
  <2> QED
    BY <2>1 DEF ClaimsOf, OneMore
<1>8. sched[t].priomap[Ceiling[m]] # 0
  <2>1. ClaimsOf(t)[Ceiling[m]] = ClaimsOf(t)'[Ceiling[m]] + 1
        /\ ClaimsOf(t)'[Ceiling[m]] \in Nat
    BY <1>5, <1>7 DEF OneMore
  <2>2. sched[t].priomap[Ceiling[m]] \in Int
    BY <1>5, WidthsAssumption DEF Kept, Data, Width
  <2> QED
    BY <1>5, <2>1, <2>2 DEF Covers
<1>9. /\ Kept(t, r[1])
      /\ Changed(sched[t], r, Ceiling[m], None) /\ Legal(sched[t].priomap, Ceiling[m], None)
  BY <1>5, <1>8, TppIs, NoneIsNoPrio
<1>10. Covers(r[1], ClaimsOf(t)')
  BY <1>5, <1>7, <1>9, GiveCovers
<1>11. Books(t)'
  <2>1. sched'[t] = r[1]
    BY <1>1
  <2> QED
    BY <1>1, <1>2, <1>3, <1>6, <1>9, <1>10, <2>1 DEF Books
<1> QED
  BY <1>4, <1>9, <1>11, OneBooks

\* No mutex is held at the start, and every thread has its own priority.
LEMMA InitBooks == Init => BooksInv
<1> SUFFICES ASSUME Init PROVE BooksInv
  OBVIOUS
<1>1. Base \in [Threads -> Int]
  BY ThreadsAssumption, PriosAssumption DEF Prios
<1>2. 0 \in Width
  BY WidthsAssumption DEF Width
<1>3. sched \in [Threads -> Data]
  BY <1>1, <1>2 DEF Init, Data
<1>4. ASSUME NEW t \in Threads PROVE Books(t)
  <2>1. /\ ~sched[t].tpp /\ ~sched[t].schedSet /\ sched[t].prio = Base[t]
        /\ \A c \in Prios : sched[t].priomap[c] = 0
    BY DEF Init
  <2>2. InUse(sched[t].priomap) = {}
    BY <2>1 DEF InUse
  <2>3. Kept(t, sched[t])
    BY <1>3, <2>1, <2>2, RunningIs DEF Kept, Known
  <2>4. Claimed(t) = {}
    BY DEF Init, AtUser, Claimed, InCall, At
  <2>5. \A c \in Prios : ClaimsOf(t)[c] = 0
    <3> TAKE c \in Prios
    <3>1. held[t] = {} /\ OfCall(t, c) = 0
      BY DEF Init, AtUser, OfCall, InCall, At
    <3>2. {m \in held[t] : Ceiling[m] = c} = {}
      BY <3>1
    <3> QED
      BY <3>1, <3>2, FS_EmptySet DEF ClaimsOf, Claims
  <2> QED
    BY <2>1, <2>3, <2>4, <2>5, FS_EmptySet DEF Books, Covers
<1> QED
  BY <1>3, <1>4 DEF BooksInv

\* The steps on the lock word go from one place within a call to another.
LEMMA InnerBooks ==
    ASSUME LockInv, BooksInv, NEW t \in Threads, Inner(t) \/ FutexInterrupted(t)
    PROVE  BooksInv'
<1>1. th \in [Threads -> [at : Places, m : Mutexes \cup {Nobody}]]
  BY DEF LockInv, Shape
<1>2. ASSUME NEW label, label # "user", th[t].at # "user", Goto(t, label), sched' = sched,
             held' = held
      PROVE  BooksInv'
  <2>1. ASSUME NEW u \in Threads PROVE SameCall(u)
    BY <1>1, <1>2 DEF Goto, SameCall
  <2> QED
    BY <1>2, <2>1, SameCallSameClaims, StillBooks
<1>3. CASE LockCas(t) \/ Announce(t) \/ FutexWait(t) \/ FutexInterrupted(t) \/ Retry(t)
           \/ Release(t)
  <2>1. /\ th[t].at # "user" /\ sched' = sched /\ held' = held
        /\ \E label \in Places \ {"user"} : Goto(t, label)
    BY <1>3 DEF LockCas, Announce, FutexWait, FutexInterrupted, Retry, Release,
       CompareAndExchange, At, Places
  <2> QED
    BY <1>2, <2>1
<1>4. CASE TrylockCas(t)
  <2>1. CASE Goto(t, "won") /\ sched' = sched
    BY <1>2, <1>4, <2>1 DEF TrylockCas, At
  <2>2. CASE \E r \in tpp_change_priority(t, sched[t], Ceiling[th[t].m], None) :
               sched' = [sched EXCEPT ![t] = r[1]] /\ Return(t)
    BY <1>4, <2>2, LowerBooks DEF TrylockCas, At
  <2> QED
    BY <1>4, <2>1, <2>2 DEF TrylockCas, CompareAndExchange
<1>5. CASE Won(t)
  <2>1. th[t].at = "won" /\ sched' = sched
    BY <1>5 DEF Won, At
  <2>2. CASE owner[th[t].m] # Nobody
    BY <1>1, <1>5, <2>1, <2>2, SameCallSameClaims, StillBooks DEF Won, SameCall
  <2>3. CASE owner[th[t].m] = Nobody
    <3>1. /\ th[t].m \in Mutexes /\ th[t].m \notin held[t] /\ InCall(t) /\ IsFiniteSet(held[t])
          /\ held \in [Threads -> SUBSET Mutexes]
      BY <2>1, ClaimsType DEF LockInv, Shape, CallRight, InCall, At, BooksInv, Books
    <3>2. /\ held' = [held EXCEPT ![t] = @ \cup {th[t].m}]
          /\ th' = [th EXCEPT ![t] = AtUser]
      BY <1>5, <2>3 DEF Won, Return
    <3>3. SameClaimsOf(t)
      <4>1. held'[t] = held[t] \cup {th[t].m} /\ ~InCall(t)'
        BY <1>1, <3>1, <3>2 DEF AtUser, InCall, At
      <4> QED
        BY <3>1, <4>1, MovedClaim
    <3>4. ASSUME NEW u \in Threads, u # t PROVE SameCall(u)
      BY <1>1, <3>1, <3>2, <3>4 DEF SameCall
    <3> QED
      BY <2>1, <3>3, <3>4, SameCallSameClaims, StillBooks
  <2> QED
    BY <2>2, <2>3
<1>6. CASE Wake(t)
  <2>1. CASE Goto(t, "lower")
    BY <1>2, <1>6, <2>1 DEF Wake, At
  <2>2. CASE \E u \in Sleepers(th[t].m) :
               th' = [th EXCEPT ![t].at = "lower", ![u].at = "retry"]
    <3>1. PICK u \in Sleepers(th[t].m) :
            th' = [th EXCEPT ![t].at = "lower", ![u].at = "retry"]
      BY <2>2
    <3>2. th[t].at = "wake" /\ u \in Threads /\ th[u].at = "asleep" /\ u # t
      BY <1>6 DEF Wake, Sleepers, At
    <3>3. ASSUME NEW v \in Threads PROVE SameCall(v)
      BY <1>1, <1>6, <3>1, <3>2 DEF Wake, SameCall
    <3> QED
      BY <1>6, <3>3, SameCallSameClaims, StillBooks DEF Wake
  <2> QED
    BY <1>6, <2>1, <2>2 DEF Wake
<1>7. CASE Lower(t)
  BY <1>7, LowerBooks DEF Lower, At
<1> QED
  BY <1>3, <1>4, <1>5, <1>6, <1>7 DEF Inner

\* Every step preserves the books.
LEMMA NextBooks == LockInv /\ BooksInv /\ [Next]_vars => BooksInv'
<1> SUFFICES ASSUME LockInv, BooksInv, [Next]_vars PROVE BooksInv'
  OBVIOUS
<1>1. ASSUME UNCHANGED <<sched, th, held>> PROVE BooksInv'
  BY <1>1, SameCallSameClaims, StillBooks DEF SameCall
<1>2. ASSUME NEW t \in Threads, NEW m \in Mutexes, UnlockBegin(t, m) PROVE BooksInv'
  <2>1. /\ th[t].at = "user" /\ m \in held[t] /\ sched' = sched
        /\ held' = [held EXCEPT ![t] = @ \ {m}]
        /\ th' = [th EXCEPT ![t] = [at |-> "release", m |-> m]]
    BY <1>2 DEF UnlockBegin, At
  <2>2. /\ held \in [Threads -> SUBSET Mutexes] /\ IsFiniteSet(held[t])
        /\ th \in [Threads -> [at : Places, m : Mutexes \cup {Nobody}]]
    BY ClaimsType DEF LockInv, Shape, BooksInv, Books
  <2>3. SameClaimsOf(t)
    <3>1. /\ held'[t] = held[t] \ {m} /\ InCall(t)' /\ th'[t].m = m /\ ~InCall(t)
      BY <2>1, <2>2 DEF InCall, At
    <3>2. /\ held[t] = (held[t] \ {m}) \cup {m} /\ m \notin held[t] \ {m}
          /\ IsFiniteSet(held[t] \ {m})
      BY <2>1, <2>2, FS_Subset
    <3> QED
      BY <3>1, <3>2, MovedClaim
  <2>4. ASSUME NEW u \in Threads, u # t PROVE SameCall(u)
    BY <2>1, <2>2, <2>4 DEF SameCall
  <2> QED
    BY <2>1, <2>3, <2>4, SameCallSameClaims, StillBooks
<1>3. ASSUME NEW t \in Threads, NEW m \in Mutexes, Call(t, m) \/ UnlockOnce(t, m)
      PROVE  BooksInv'
  <2>1. CASE Lock(t, m) \/ Trylock(t, m)
    BY <2>1, RaiseBooks DEF Lock, Trylock
  <2>2. CASE LockAgain(t, m) \/ LockRefused(t, m) \/ UnlockRefused(t, m) \/ UnlockOnce(t, m)
    BY <1>1, <2>2 DEF LockAgain, LockRefused, UnlockRefused, UnlockOnce, vars
  <2> QED
    BY <1>3, <2>1, <2>2 DEF Call
<1>4. CASE UNCHANGED vars
  BY <1>1, <1>4 DEF vars
<1>5. CASE \E t \in Threads :
             Inner(t) \/ FutexInterrupted(t) \/ \E m \in Mutexes : Call(t, m) \/ Unlock(t, m)
  BY <1>2, <1>3, <1>5, InnerBooks DEF Unlock
<1> QED
  BY <1>4, <1>5 DEF Next

\* The invariant of the books holds in every reachable state.
THEOREM BooksInvariance == Spec => []BooksInv
  BY InitBooks, NextBooks, LockInvariance, PTL DEF Spec

\* For any width of the map, any ceilings and any failing call of the system:
\* the map of ceilings covers what a thread has a claim on, and priomax is its
\* largest entry.
THEOREM BooksRightHolds == Spec => []BooksRight
<1>1. BooksInv => BooksRight
  <2> SUFFICES ASSUME BooksInv, NEW t \in Threads
               PROVE  /\ \A c \in Prios :
                            /\ sched[t].priomap[c] >= Claims(t, c)
                            /\ ~sched[t].refused => sched[t].priomap[c] = Claims(t, c)
                      /\ sched[t].tpp => sched[t].priomax = Top(sched[t].priomap)
    BY DEF BooksRight, Top, InUse
  <2> QED
    BY DEF BooksInv, Books, Covers, ClaimsOf, Kept
<1> QED
  BY <1>1, BooksInvariance, PTL

\* A thread that was refused nothing runs with the largest ceiling it holds, in
\* whatever order it gives its mutexes back.
THEOREM PriorityRightHolds == Spec => []PriorityRight
<1>1. BooksInv => PriorityRight
  <2> SUFFICES ASSUME BooksInv, NEW t \in Threads, ~sched[t].refused
               PROVE  sched[t].prio = Max({Base[t]} \cup {Ceiling[m] : m \in Claimed(t)})
    BY DEF PriorityRight
  <2> DEFINE map == sched[t].priomap
  <2>1. Books(t) /\ sched[t].prio = Max({Base[t]} \cup InUse(map))
    BY DEF BooksInv, Books, Kept, Running
  <2>2. ASSUME NEW c \in Prios PROVE map[c] # 0 <=> \E m \in Claimed(t) : Ceiling[m] = c
    <3> DEFINE S == {m \in held[t] : Ceiling[m] = c}
    <3>1. IsFiniteSet(S)
      BY <2>1, ClaimsType, FS_Subset DEF Books
    <3>2. Cardinality(S) \in Nat /\ (Cardinality(S) = 0 <=> S = {})
      BY <3>1, FS_EmptySet, FS_CardinalityType
    <3>3. map[c] = Cardinality(S) + OfCall(t, c)
      BY <2>1 DEF Books, Covers, ClaimsOf, Claims
    <3>4. (\E m \in Claimed(t) : Ceiling[m] = c) <=> (S # {} \/ OfCall(t, c) # 0)
      BY DEF Claimed, OfCall
    <3> HIDE DEF S
    <3> QED
      BY <3>2, <3>3, <3>4 DEF OfCall
  <2>3. \A m \in Claimed(t) : Ceiling[m] \in Prios
    BY <2>1 DEF Books
  <2>4. InUse(map) = {Ceiling[m] : m \in Claimed(t)}
    BY <2>2, <2>3 DEF InUse
  <2> QED
    BY <2>1, <2>4
<1> QED
  BY <1>1, BooksInvariance, PTL
=============================================================================
