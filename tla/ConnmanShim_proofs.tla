------------------------ MODULE ConnmanShim_proofs -------------------------
(***************************************************************************)
(* Proofs about the list of services of the ConnMan shim, for any number   *)
(* of access points, of coroutines and of calls.                           *)
(*                                                                         *)
(* The actions are first shown to be of a few shapes (Steps, Ends and      *)
(* Replies of the coroutine that runs; SignalsCome, Answers, Calls, Hears  *)
(* and Gets for the messages).  The lemma <shape><part> then says that a   *)
(* step of that shape keeps that part of the invariant: Type, Places,      *)
(* Room, Listed, Order, Fresh, Pending.                                    *)
(***************************************************************************)
EXTENDS ConnmanShim, FiniteSetTheorems, SequenceTheorems, TLAPS

-----------------------------------------------------------------------------
(* The inductive invariant. *)

\* The kinds of questions and signals, and the places of a coroutine.
Kinds == {"list", "properties", "active"}
Signals == {"added", "removed", "connections"}
Working == {"next", "reading", "rereading", "asking"}
Holding == Working \cup {"locked"}
\* The kind of question each place waits for the answer of.
Awaited == [listing |-> "list", reading |-> "properties",
            rereading |-> "properties", asking |-> "active"]
Waits == {"listing", "reading", "rereading", "asking"}

\* The types of what the variables hold.
Messages ==
  [kind : Kinds \cup Signals \cup {"none"}, of : TaskIds \cup {0}, aps : SUBSET Aps,
   ok : BOOLEAN, ap : Aps \cup {None}, age : Nat]
Questions == [kind : Kinds, of : TaskIds, ap : Aps \cup {None}]
Rows == [net : Nets, blank : BOOLEAN, online : BOOLEAN]
Tasks ==
  [kind : {"none", "call", "emit"},
   at : {"free", "start", "locked", "next", "reply"} \cup Waits,
   got : Messages, aps : SUBSET Aps, ap : Aps \cup {None}, blank : BOOLEAN,
   rows : SUBSET Rows, current : SUBSET Nets, age : Nat]

\* Every variable keeps its type.
TypeOK ==
  /\ ap_state \in [Aps -> {"new", "visible", "gone"}] /\ hidden \subseteq Aps
  /\ active \in Aps \cup {None}
  /\ toNM \in Seq(Questions) /\ fromNM \in Seq(Messages)
  /\ task \in [TaskIds -> Tasks]
  /\ ready \in Seq(TaskIds) /\ lockq \in Seq(TaskIds)
  /\ cache \subseteq Aps /\ services \in [Nets -> Aps \cup {None}]
  /\ table_at \in Nat \cup {-1}

\* A coroutine is in one place: in the loop's queue, behind a question, behind an
\* answer, or waiting for the lock.
Distinct(s) == \A i, j \in DOMAIN s : s[i] = s[j] => i = j
\* No two messages are for the same coroutine.
OneEach(s) == \A i, j \in DOMAIN s : s[i].of = s[j].of /\ s[i].of # 0 => i = j
Waited(s, t) == \E m \in Range(s) : m.of = t

\* A free coroutine holds nothing, and one that has not begun its list has listed nothing.
FreeInv == \A t \in TaskIds : /\ task[t].at = "free" => task[t] = Free
                              /\ task[t].at \in {"start", "listing", "locked"} => task[t].current = {}
                              /\ task[t].at \in Waits \ {"listing"} => task[t].ap \in Aps
\* The loop runs no coroutine twice, nor one that waits for a lock another holds.
ReadyInv ==
  /\ Distinct(ready)
  /\ \A t \in Range(ready) : /\ task[t].at # "free"
                             /\ task[t].at = "locked" => lockq # <<>> /\ lockq[1] = t
\* Every question is that of a coroutine that waits for its answer.
AskedInv ==
  /\ OneEach(toNM)
  /\ \A q \in Range(toNM) :
       /\ task[q.of].at \in Waits /\ q.kind = Awaited[task[q.of].at]
       /\ task[q.of].at = "reading" => q.ap = task[q.of].ap
       /\ ~Waited(fromNM, q.of) /\ q.of \notin Range(ready)
\* So is every answer.
AnsweredInv ==
  /\ OneEach(fromNM)
  /\ \A m \in Range(fromNM) :
       /\ m.of = 0 => m.kind \in Signals
       /\ m.of # 0 => /\ task[m.of].at \in Waits /\ m.kind = Awaited[task[m.of].at]
                      /\ m.of \notin Range(ready)
\* Who builds its list is in the lock's queue, at its head unless it waits.
LockInv ==
  /\ Distinct(lockq)
  /\ \A t \in TaskIds : task[t].at \in Holding <=> t \in Range(lockq)
  /\ \A t \in Range(lockq) : t # lockq[1] => task[t].at = "locked" /\ t \notin Range(ready)
Places == FreeInv /\ ReadyInv /\ AskedInv /\ AnsweredInv /\ LockInv
\* There is room for every coroutine that signals on their way will start.
RoomInv == RoomFor(0)

\* The lists, oldest first: the table's, those of the coroutines at the lock, those
\* the loop will look at, those on their way.
IsList(m) == m.of # 0 /\ m.kind = "list"
HasList(t) == task[t].at = "listing"
\* The ages of the lists do not fall, along each queue.
InOrder(s) == \A i, j \in DOMAIN s :
                i < j /\ IsList(s[i]) /\ IsList(s[j]) => s[i].age <= s[j].age
ReadIn(s, k) == \A i, j \in DOMAIN s :
                  i < j /\ k[s[i]].at = "listing" /\ k[s[j]].at = "listing"
                    => k[s[i]].got.age <= k[s[j]].got.age
LockIn(s, k) == \A i, j \in DOMAIN s : i < j => k[s[i]].age <= k[s[j]].age
\* Nor do they from one queue to the next.
OrderInv ==
  /\ table_at <= Age
  /\ \A m \in Range(fromNM) : IsList(m) => table_at <= m.age /\ m.age <= Age
  /\ \A t \in Range(ready) :
       HasList(t) => /\ table_at <= task[t].got.age /\ task[t].got.age <= Age
                     /\ \A m \in Range(fromNM) : IsList(m) => task[t].got.age <= m.age
  /\ \A t \in Range(lockq) :
       /\ table_at <= task[t].age /\ task[t].age <= Age
       /\ \A m \in Range(fromNM) : IsList(m) => task[t].age <= m.age
       /\ \A u \in Range(ready) : HasList(u) => task[t].age <= task[u].got.age
  /\ InOrder(fromNM) /\ ReadIn(ready, task) /\ LockIn(lockq, task)

\* A list that no change has made old holds what is visible, and so does what is
\* made of it; an access point it holds has not vanished when it is asked for.
Ahead(k) == k.aps \cup (IF k.at = "reading" THEN {k.ap} ELSE {})
\* The services a coroutine has listed, and those it will.
Shown(k) == k.current \cup {Net[a] : a \in Ahead(k) \ hidden}
FreshInv ==
  /\ \A m \in Range(fromNM) : IsList(m) /\ m.age = Age => m.aps = Visible
  /\ \A t \in Range(ready) : HasList(t) /\ task[t].got.age = Age => task[t].got.aps = Visible
  /\ \A t \in Range(lockq) :
       task[t].age = Age => Ahead(task[t]) \subseteq Visible /\ Shown(task[t]) = InRange
  /\ \A m \in Range(fromNM) : m.of # 0 /\ task[m.of].at = "reading" /\ task[m.of].age = Age => m.ok
  /\ \A t \in Range(ready) : task[t].at = "reading" /\ task[t].age = Age => task[t].got.ok
  /\ table_at = Age => Exported = InRange

\* What is older than the last change will be made anew: the signal of the change is
\* on its way, or a coroutine for ServicesChanged has not asked yet or has asked since.
OldTable == table_at >= 0 /\ table_at < Age
\* The other things that can be out of date.
OldAnswer == \E m \in Range(fromNM) : IsList(m) /\ m.age < Age
OldRead == \E t \in Range(ready) : HasList(t) /\ task[t].got.age < Age
OldHeld == \E t \in Range(lockq) : task[t].age < Age
OldNews == announced # NoList /\ announced.nets # InRange
Stale == OldTable \/ OldAnswer \/ OldRead \/ OldHeld \/ OldNews
Emits(t) == task[t].kind = "emit"
\* The ways in which a newer list is on its way.
Told == \E m \in Range(fromNM) : m.of = 0 /\ m.kind \in {"added", "removed"}
Begun == \E t \in TaskIds : Emits(t) /\ task[t].at = "start"
Asked == \E q \in Range(toNM) : Emits(q.of) /\ q.kind = "list"
Answered == \E m \in Range(fromNM) : IsList(m) /\ Emits(m.of) /\ m.age = Age
NewRead == \E t \in Range(ready) : Emits(t) /\ HasList(t) /\ task[t].got.age = Age
NewHeld == \E t \in Range(lockq) : Emits(t) /\ task[t].age = Age
Pending == Told \/ Begun \/ Asked \/ Answered \/ NewRead \/ NewHeld
PendingInv == Stale => Pending

-----------------------------------------------------------------------------
(* Sequences. *)

\* What the head and the tail of a queue are.
LEMMA TailOf ==
  ASSUME NEW S, NEW s \in Seq(S), s # <<>>
  PROVE  /\ Len(s) \in Nat \ {0} /\ DOMAIN s = 1..Len(s) /\ 1 \in DOMAIN s
         /\ Head(s) = s[1] /\ Head(s) \in S
         /\ Tail(s) \in Seq(S) /\ DOMAIN Tail(s) = 1..(Len(s) - 1)
         /\ \A i \in DOMAIN Tail(s) : i + 1 \in DOMAIN s /\ i + 1 # 1 /\ Tail(s)[i] = s[i + 1]
OBVIOUS

\* What a queue is with one more at its end.
LEMMA AppendOf ==
  ASSUME NEW S, NEW s \in Seq(S), NEW e \in S
  PROVE  /\ Len(s) \in Nat /\ DOMAIN s = 1..Len(s) /\ Append(s, e) \in Seq(S)
         /\ DOMAIN Append(s, e) = DOMAIN s \cup {Len(s) + 1}
         /\ Append(s, e)[Len(s) + 1] = e
         /\ \A i \in DOMAIN s : i # Len(s) + 1 /\ i < Len(s) + 1 /\ Append(s, e)[i] = s[i]
<1>1. Len(s) \in Nat /\ DOMAIN s = 1..Len(s) /\ Append(s, e) \in Seq(S)
      OBVIOUS
<1>2. DOMAIN Append(s, e) = 1..(Len(s) + 1)
      OBVIOUS
<1>3. 1..(Len(s) + 1) = (1..Len(s)) \cup {Len(s) + 1}
      BY <1>1
<1> QED BY <1>1, <1>2, <1>3

LEMMA TailRange ==
  ASSUME NEW S, NEW s \in Seq(S), s # <<>>
  PROVE  /\ Range(s) \subseteq S /\ Head(s) \in Range(s)
         /\ Range(s) = Range(Tail(s)) \cup {Head(s)}
<1>1. Range(s) \subseteq S BY DEF Range
<1>2. Head(s) \in Range(s) BY TailOf DEF Range
<1>3. Range(Tail(s)) \subseteq Range(s) BY TailOf DEF Range
<1>4. ASSUME NEW x \in Range(s), x # Head(s) PROVE x \in Range(Tail(s))
  <2>1. PICK i \in DOMAIN s : x = s[i] BY DEF Range
  <2>2. i \in 1..Len(s) /\ i # 1 BY <1>4, <2>1, TailOf
  <2>3. i - 1 \in 1..(Len(s) - 1) /\ (i - 1) + 1 = i BY <2>2
  <2>4. i - 1 \in DOMAIN Tail(s) /\ Tail(s)[i - 1] = s[i] BY <2>3, TailOf
  <2> QED BY <2>1, <2>4 DEF Range
<1> QED BY <1>1, <1>2, <1>3, <1>4

LEMMA AppendRange ==
  ASSUME NEW S, NEW s \in Seq(S), NEW e \in S
  PROVE  Range(Append(s, e)) = Range(s) \cup {e} /\ Append(s, e) \in Seq(S) /\ Range(s) \subseteq S
<1>1. Range(s) \subseteq S BY DEF Range
<1>2. Range(Append(s, e)) \subseteq Range(s) \cup {e}
  <2>1. ASSUME NEW i \in DOMAIN Append(s, e) PROVE Append(s, e)[i] \in Range(s) \cup {e}
        BY AppendOf DEF Range
  <2> QED BY <2>1 DEF Range
<1>3. e \in Range(Append(s, e))
  <2>1. Len(s) + 1 \in DOMAIN Append(s, e) /\ Append(s, e)[Len(s) + 1] = e BY AppendOf
  <2> QED BY <2>1 DEF Range
<1>4. Range(s) \subseteq Range(Append(s, e))
  <2>1. ASSUME NEW i \in DOMAIN s PROVE s[i] \in Range(Append(s, e))
    <3>1. i \in DOMAIN Append(s, e) /\ Append(s, e)[i] = s[i] BY AppendOf
    <3> QED BY <3>1 DEF Range
  <2> QED BY <2>1 DEF Range
<1> QED BY <1>1, <1>2, <1>3, <1>4, AppendOf

\* Queues without duplicates stay so.
LEMMA DistinctTail ==
  ASSUME NEW S, NEW s \in Seq(S), s # <<>>, Distinct(s)
  PROVE  Distinct(Tail(s)) /\ Head(s) \notin Range(Tail(s))
<1>1. ASSUME NEW i \in DOMAIN Tail(s), NEW j \in DOMAIN Tail(s), Tail(s)[i] = Tail(s)[j]
      PROVE  i = j
  <2>1. i + 1 \in DOMAIN s /\ j + 1 \in DOMAIN s /\ s[i + 1] = s[j + 1] BY <1>1, TailOf
  <2>2. i + 1 = j + 1 BY <2>1 DEF Distinct
  <2>3. i \in Nat /\ j \in Nat BY TailOf
  <2> QED BY <2>2, <2>3
<1>2. ASSUME NEW i \in DOMAIN Tail(s) PROVE Tail(s)[i] # Head(s)
  <2>1. i + 1 \in DOMAIN s /\ i + 1 # 1 /\ 1 \in DOMAIN s /\ Tail(s)[i] = s[i + 1] /\ Head(s) = s[1]
        BY TailOf
  <2> QED BY <2>1 DEF Distinct
<1> QED BY <1>1, <1>2 DEF Distinct, Range

LEMMA DistinctAppend ==
  ASSUME NEW S, NEW s \in Seq(S), NEW e \in S, Distinct(s), e \notin Range(s)
  PROVE  Distinct(Append(s, e))
<1>1. \A i \in DOMAIN s : s[i] # e BY DEF Range
<1>2. ASSUME NEW i \in DOMAIN Append(s, e), NEW j \in DOMAIN Append(s, e),
             Append(s, e)[i] = Append(s, e)[j]
      PROVE  i = j
      BY <1>1, <1>2, AppendOf DEF Distinct
<1> QED BY <1>2 DEF Distinct

\* Queues with one message for each coroutine stay so.
LEMMA OneEachTail ==
  ASSUME NEW S, NEW s \in Seq(S), s # <<>>, OneEach(s)
  PROVE  /\ OneEach(Tail(s)) /\ \A t : Waited(Tail(s), t) => Waited(s, t)
         /\ Head(s).of # 0 => ~Waited(Tail(s), Head(s).of)
<1>1. ASSUME NEW i \in DOMAIN Tail(s), NEW j \in DOMAIN Tail(s),
             Tail(s)[i].of = Tail(s)[j].of, Tail(s)[i].of # 0
      PROVE  i = j
  <2>1. /\ i + 1 \in DOMAIN s /\ j + 1 \in DOMAIN s
        /\ s[i + 1].of = s[j + 1].of /\ s[i + 1].of # 0
        BY <1>1, TailOf
  <2>2. i + 1 = j + 1 BY <2>1 DEF OneEach
  <2>3. i \in Nat /\ j \in Nat BY TailOf
  <2> QED BY <2>2, <2>3
<1>2. ASSUME NEW i \in DOMAIN Tail(s), Head(s).of # 0 PROVE Tail(s)[i].of # Head(s).of
  <2>1. i + 1 \in DOMAIN s /\ i + 1 # 1 /\ 1 \in DOMAIN s /\ Tail(s)[i] = s[i + 1] /\ Head(s) = s[1]
        BY TailOf
  <2> QED BY <1>2, <2>1 DEF OneEach
<1>3. \A t : Waited(Tail(s), t) => Waited(s, t) BY TailRange DEF Waited
<1> QED BY <1>1, <1>2, <1>3 DEF OneEach, Range, Waited

LEMMA OneEachAppend ==
  ASSUME NEW S, NEW s \in Seq(S), NEW e \in S, OneEach(s), e.of # 0 => ~Waited(s, e.of)
  PROVE  OneEach(Append(s, e)) /\ \A t : Waited(Append(s, e), t) <=> Waited(s, t) \/ e.of = t
<1>1. \A i \in DOMAIN s : e.of # 0 => s[i].of # e.of BY DEF Waited, Range
<1>2. ASSUME NEW i \in DOMAIN Append(s, e), NEW j \in DOMAIN Append(s, e),
             Append(s, e)[i].of = Append(s, e)[j].of, Append(s, e)[i].of # 0
      PROVE  i = j
      BY <1>1, <1>2, AppendOf DEF OneEach
<1>3. \A t : Waited(Append(s, e), t) <=> Waited(s, t) \/ e.of = t BY AppendRange DEF Waited
<1> QED BY <1>2, <1>3 DEF OneEach
-----------------------------------------------------------------------------
(* Types. *)

\* 0 is no coroutine: messages of 0 are signals.
LEMMA Bounds == MaxTasks \in Nat \ {0} /\ TaskIds = 1..MaxTasks /\ 0 \notin TaskIds
BY BoundAssumption DEF TaskIds

LEMMA SignalTyped ==
  ASSUME NEW kind \in Signals \cup {"none"}, NEW a \in Aps \cup {None}
  PROVE  /\ Signal(kind, a) \in Messages /\ Signal(kind, a).of = 0
         /\ Signal(kind, a).kind = kind /\ Signal(kind, a).ap = a
BY DEF Signal, Message, Messages

LEMMA TaskTyped ==
  ASSUME NEW kind \in {"none", "call", "emit"}, NEW at \in {"free", "start"}
  PROVE  /\ Task(kind, at) \in Tasks /\ Task(kind, at).at = at /\ Task(kind, at).kind = kind
         /\ Task(kind, at).current = {}
<1>1. NoMessage \in Messages BY SignalTyped DEF NoMessage
<1> QED BY <1>1 DEF Task, Tasks

LEMMA FreeTyped == Free \in Tasks /\ Free.at = "free" /\ Free.kind = "none"
BY TaskTyped DEF Free

\* The coroutine that runs is one of the coroutines.
LEMMA ThisTyped ==
  ASSUME TypeOK, ready # <<>>
  PROVE  /\ This \in TaskIds /\ Me \in Tasks /\ This \in Range(ready) /\ This # 0
         /\ Tail(ready) \in Seq(TaskIds) /\ Range(ready) \subseteq TaskIds
         /\ Range(ready) = Range(Tail(ready)) \cup {This}
BY TailOf, TailRange, Bounds DEF TypeOK, This, Me

LEMMA CountedNat == ASSUME NEW S \in SUBSET Aps PROVE Cardinality(S) \in Nat
BY ApsAssumption, FS_Subset, FS_CardinalityType

\* NetworkManager's age is a number: there are finitely many access points.
LEMMA AgeNat == Age \in Nat
<1>1. Cardinality(Visible) \in Nat BY CountedNat DEF Visible
<1>2. Cardinality({a \in Aps : ap_state[a] = "gone"}) \in Nat BY CountedNat
<1> DEFINE v == Cardinality(Visible)  g == Cardinality({a \in Aps : ap_state[a] = "gone"})
<1>3. Age = v + 2 * g BY DEF Age
<1> HIDE DEF v, g
<1>4. v \in Nat /\ g \in Nat BY <1>1, <1>2 DEF v, g
<1> QED BY <1>3, <1>4

LEMMA MovedTyped ==
  ASSUME NEW k \in Tasks,
         NEW place \in {"free", "start", "locked", "next", "reply"} \cup Waits
  PROVE  /\ Moved(k, place) \in Tasks /\ Moved(k, place).at = place
         /\ Moved(k, place).kind = k.kind /\ Moved(k, place).aps = k.aps
         /\ Moved(k, place).ap = k.ap /\ Moved(k, place).current = k.current
         /\ Moved(k, place).age = k.age /\ Moved(k, place).rows = k.rows
<1>1. NoMessage \in Messages BY SignalTyped DEF NoMessage
<1> QED BY <1>1 DEF Moved, Tasks

LEMMA QuestionTyped ==
  ASSUME NEW kind \in Kinds, NEW t \in TaskIds, NEW a \in Aps \cup {None}
  PROVE  [kind |-> kind, of |-> t, ap |-> a] \in Questions
BY DEF Questions

-----------------------------------------------------------------------------
(* The steps of the coroutine that runs. *)

\* The coroutine that runs becomes k.
Writes(k) ==
  /\ k \in Tasks /\ task' = [task EXCEPT ![This] = k] /\ ready # <<>>
  /\ cache' \subseteq Aps /\ services' \in [Nets -> Aps \cup {None}]
  /\ UNCHANGED <<ap_state, hidden, active>>
\* It has exported what it listed, and nothing else.
Exports(k) ==
  /\ Exported \subseteq Exported' /\ Exported' \subseteq Exported \cup k.current
  /\ k.current \subseteq Me.current \cup Exported'
\* It keeps its kind, and the signals, the table's age and the last list are left alone.
Becomes(k) ==
  Writes(k) /\ Exports(k) /\ k.kind = Me.kind /\ UNCHANGED <<fromNM, table_at, announced>>
\* What is made of a list that no change has made old stays what is made of one.
Whole(k) == Ahead(k) \subseteq Visible /\ Shown(k) = InRange
\* The list it builds stays that of what is in range, if it was.
StaysWhole(k) == Whole(Me) /\ (Me.at = "reading" => Me.got.ok) => Whole(k)

\* It asks and waits for the answer.
Asks(k, q) ==
  /\ Becomes(k) /\ k.at \in Waits /\ (k.at # "listing" => k.ap \in Aps)
  /\ q \in Questions /\ q.of = This /\ q.kind = Awaited[k.at]
  /\ k.at = "reading" => q.ap = k.ap
  /\ \/ Me.at = "start" /\ k.at = "listing" /\ k.current = Me.current
     \/ Me.at \in Working /\ k.at \in Working /\ k.age = Me.age /\ StaysWhole(k)
  /\ ready' = Tail(ready) /\ toNM' = Append(toNM, q) /\ lockq' = lockq

\* It goes on, with the lock it holds or has just taken.
GoesOn(k) ==
  /\ Becomes(k) /\ k.at = "next"
  /\ \/ Me.at \in Holding /\ k.age = Me.age /\ StaysWhole(k) /\ lockq' = lockq
     \/ /\ Me.at = "listing" /\ lockq = <<>> /\ lockq' = <<This>>
        /\ k.age = Me.got.age /\ k.aps = Me.got.aps /\ k.current = Me.current
  /\ UNCHANGED <<ready, toNM>>

\* It waits for the lock.
WaitsForLock(k) ==
  /\ Becomes(k) /\ k.at = "locked" /\ Me.at = "listing" /\ lockq # <<>>
  /\ k.age = Me.got.age /\ k.aps = Me.got.aps /\ k.current = Me.current
  /\ lockq' = Append(lockq, This) /\ ready' = Tail(ready) /\ UNCHANGED toNM

\* A service that is created is exported, and no other goes.
LEMMA Exporting ==
  ASSUME TypeOK, NEW n \in Nets, NEW svc \in Aps, services' = [services EXCEPT ![n] = svc]
  PROVE  services' \in [Nets -> Aps \cup {None}] /\ Exported' = Exported \cup {n}
<1>1. services' \in [Nets -> Aps \cup {None}] BY DEF TypeOK
<1>2. svc # None BY NetAssumption
<1>3. \A x \in Nets : services'[x] # None <=> services[x] # None \/ x = n BY <1>2 DEF TypeOK
<1> QED BY <1>1, <1>3 DEF Exported

LEMMA SameExports ==
  ASSUME TypeOK, UNCHANGED services, NEW k, k.current = Me.current
  PROVE  services' \in [Nets -> Aps \cup {None}] /\ Exports(k)
BY DEF TypeOK, Exports, Exported

\* Consider passes over an access point or asks about its service: the lists are kept whole.
LEMMA ConsiderSteps ==
  ASSUME TypeOK, ready # <<>>, Me.at \in Working, NEW k \in Tasks, NEW a \in Aps, Consider(a, k),
         k.kind = Me.kind, k.age = Me.age, k.current = Me.current, cache' \subseteq Aps,
         Whole(Me) /\ (Me.at = "reading" => Me.got.ok) =>
           /\ k.aps \cup {a} \subseteq Visible
           /\ InRange = k.current \cup {Net[b] : b \in (k.aps \cup {a}) \ hidden},
         UNCHANGED <<ap_state, hidden, active, fromNM, lockq, table_at, announced>>
  PROVE  \/ \E m \in Tasks : GoesOn(m)
         \/ \E m \in Tasks, q \in Questions : Asks(m, q)
<1> DEFINE n == Net[a]
           svc == IF services[n] = None THEN a ELSE services[n]
           on == [k EXCEPT !.ap = svc, !.current = @ \cup {n}, !.blank = FALSE]
<1>1. n \in Nets BY NetAssumption
<1>2. svc \in Aps BY <1>1, NetAssumption DEF TypeOK
<1>3. /\ on \in Tasks /\ on.kind = k.kind /\ on.aps = k.aps /\ on.ap = svc /\ on.age = k.age
      /\ on.current = k.current \cup {n}
      BY <1>1, <1>2 DEF Tasks
<1>4. CASE a \in hidden
  <2> DEFINE m == Moved(k, "next")
  <2>1. /\ m \in Tasks /\ m.at = "next" /\ m.kind = k.kind /\ m.aps = k.aps
        /\ m.current = k.current /\ m.age = k.age
        BY MovedTyped
  <2>2. task' = [task EXCEPT ![This] = m] /\ UNCHANGED <<toNM, ready, services>>
        BY <1>4 DEF Consider, HasSsid
  <2>3. StaysWhole(m)
    <3>1. (k.aps \cup {a}) \ hidden = k.aps \ hidden BY <1>4
    <3>2. Ahead(m) = k.aps BY <2>1 DEF Ahead
    <3> HIDE DEF m
    <3> QED BY <2>1, <3>1, <3>2 DEF StaysWhole, Whole, Shown
  <2>4. services' \in [Nets -> Aps \cup {None}] /\ Exports(m)
    <3> HIDE DEF m
    <3> QED BY <2>1, <2>2, SameExports
  <2>5. Becomes(m)
    <3> HIDE DEF m
    <3> QED BY <2>1, <2>2, <2>4 DEF Becomes, Writes
  <2>6. GoesOn(m)
    <3> HIDE DEF m
    <3> QED BY <2>1, <2>2, <2>3, <2>5 DEF GoesOn, Holding
  <2> QED BY <2>1, <2>6
<1>5. ASSUME a \notin hidden, NEW place \in {"asking", "rereading"}, NEW what \in Kinds,
             what = Awaited[place], NEW b \in Aps \cup {None},
             services' = [services EXCEPT ![n] = svc], AskNM(what, b, Moved(on, place))
      PROVE  \E m \in Tasks, q \in Questions : Asks(m, q)
  <2> DEFINE m == Moved(on, place)
             q == [kind |-> what, of |-> This, ap |-> b]
  <2>a. place \in {"free", "start", "locked", "next", "reply"} \cup Waits BY <1>5 DEF Waits
  <2>b. on \in Tasks BY <1>3
  <2>1. /\ m \in Tasks /\ m.at = place /\ m.kind = k.kind /\ m.aps = k.aps /\ m.ap \in Aps
        /\ m.current = k.current \cup {n} /\ m.age = k.age
    <3>1. /\ m \in Tasks /\ m.at = place /\ m.kind = on.kind /\ m.aps = on.aps /\ m.ap = on.ap
          /\ m.current = on.current /\ m.age = on.age
      <4> HIDE DEF on
      <4> QED BY <2>a, <2>b, MovedTyped
    <3> HIDE DEF m, on, svc
    <3> QED BY <3>1, <1>2, <1>3
  <2>2. q \in Questions /\ q.of = This /\ q.kind = Awaited[place]
        BY <1>5, QuestionTyped, ThisTyped
  <2>3. task' = [task EXCEPT ![This] = m] /\ ready' = Tail(ready) /\ toNM' = Append(toNM, q)
        BY <1>5 DEF AskNM
  <2>4. StaysWhole(m)
    <3>1. {Net[b1] : b1 \in (k.aps \cup {a}) \ hidden} = {Net[b1] : b1 \in k.aps \ hidden} \cup {n}
          BY <1>5
    <3>2. Ahead(m) = k.aps BY <2>1, <1>5 DEF Ahead
    <3> HIDE DEF m, n
    <3> QED BY <2>1, <3>1, <3>2 DEF StaysWhole, Whole, Shown
  <2>5. Becomes(m)
    <3>1. services' \in [Nets -> Aps \cup {None}] /\ Exported' = Exported \cup {n}
      <4> HIDE DEF n, svc
      <4> QED BY <1>1, <1>2, <1>5, Exporting
    <3> HIDE DEF m, n
    <3>2. Exports(m) BY <2>1, <3>1 DEF Exports
    <3> QED BY <2>1, <2>3, <3>1, <3>2 DEF Becomes, Writes
  <2>6. Asks(m, q)
    <3> HIDE DEF m, q
    <3> QED BY <1>5, <2>1, <2>2, <2>3, <2>4, <2>5 DEF Asks, Waits, Working
  <2> HIDE DEF m, q
  <2> QED BY <2>1, <2>2, <2>6
<1>6. CASE a \notin hidden
  <2>1. services' = [services EXCEPT ![n] = svc]
        BY <1>6 DEF Consider, HasSsid
  <2>2. \/ AskNM("active", None, Moved(on, "asking"))
        \/ AskNM("properties", svc, Moved(on, "rereading"))
        BY <1>6 DEF Consider, HasSsid
  <2>3. Awaited["asking"] = "active" /\ Awaited["rereading"] = "properties" BY DEF Awaited
  <2> HIDE DEF n, svc, on
  <2>4. CASE AskNM("active", None, Moved(on, "asking"))
        BY <1>5, <1>6, <2>1, <2>3, <2>4 DEF Kinds
  <2>5. CASE AskNM("properties", svc, Moved(on, "rereading"))
        BY <1>2, <1>5, <1>6, <2>1, <2>3, <2>5 DEF Kinds
  <2> QED BY <2>2, <2>4, <2>5
<1> QED BY <1>4, <1>6

\* A step of the coroutine that runs, short of its end.
Steps ==
  \/ \E m \in Tasks : GoesOn(m) \/ WaitsForLock(m)
  \/ \E m \in Tasks, q \in Questions : Asks(m, q)

\* The three ways to go on while the list is built.
LEMMA WorkingStep ==
  ASSUME TypeOK, ready # <<>>, NEW k \in Tasks, k.kind = Me.kind, k.current = Me.current,
         task' = [task EXCEPT ![This] = k], cache' \subseteq Aps,
         UNCHANGED <<ap_state, hidden, active, fromNM, services, table_at, announced>>
  PROVE  Becomes(k)
BY SameExports DEF Becomes, Writes

LEMMA AskingStep ==
  ASSUME TypeOK, ready # <<>>, Me.at \in Working \cup {"start"}, NEW what \in Kinds,
         NEW a \in Aps \cup {None}, NEW k \in Tasks, AskNM(what, a, k), cache' \subseteq Aps,
         k.kind = Me.kind, k.current = Me.current,
         k.at \in Waits, what = Awaited[k.at], k.at = "reading" => k.ap = a, k.at # "listing" => k.ap \in Aps,
         \/ Me.at = "start" /\ k.at = "listing"
         \/ Me.at \in Working /\ k.at \in Working /\ k.age = Me.age /\ StaysWhole(k),
         UNCHANGED <<ap_state, hidden, active, fromNM, lockq, services, table_at, announced>>
  PROVE  Steps
<1> DEFINE q == [kind |-> what, of |-> This, ap |-> a]
<1>1. q \in Questions /\ q.of = This /\ q.kind = what /\ q.ap = a
      BY QuestionTyped, ThisTyped
<1>2. task' = [task EXCEPT ![This] = k] /\ ready' = Tail(ready) /\ toNM' = Append(toNM, q)
      BY DEF AskNM
<1> HIDE DEF q
<1>3. Becomes(k) BY <1>2, WorkingStep
<1>4. Asks(k, q) BY <1>1, <1>2, <1>3 DEF Asks
<1> QED BY <1>1, <1>4 DEF Steps

LEMMA GoingStep ==
  ASSUME TypeOK, ready # <<>>, Me.at \in Holding, NEW k \in Tasks,
         task' = [task EXCEPT ![This] = k], cache' \subseteq Aps,
         k.kind = Me.kind, k.current = Me.current, k.at = "next", k.age = Me.age, StaysWhole(k),
         UNCHANGED <<ap_state, hidden, active, toNM, fromNM, ready, lockq, services,
                     table_at, announced>>
  PROVE  Steps
<1>1. Becomes(k) BY WorkingStep
<1> QED BY <1>1 DEF Steps, GoesOn

\* Each action of list_services is a step of one of the shapes.
LEMMA StartListSteps == ASSUME TypeOK, StartList PROVE Steps
<1> DEFINE k == Moved(Me, "listing")
<1>1. ready # <<>> /\ Me.at = "start" /\ AskNM("list", None, k)
      BY DEF StartList, At
<1>2. k \in Tasks /\ k.at = "listing" /\ k.kind = Me.kind /\ k.current = Me.current
      BY <1>1, ThisTyped, MovedTyped DEF Waits
<1>3. /\ UNCHANGED <<ap_state, hidden, active, fromNM, lockq, services, table_at, announced>>
      /\ cache' \subseteq Aps
      BY DEF StartList, nmVars, tableVars, TypeOK
<1>4. Awaited[k.at] = "list" /\ k.at \in Waits /\ "list" \in Kinds BY <1>2 DEF Awaited, Waits, Kinds
<1> HIDE DEF k
<1> QED BY <1>1, <1>2, <1>3, <1>4, AskingStep

LEMMA TakeLockSteps == ASSUME TypeOK, TakeLock PROVE Steps
<1> DEFINE place == IF MustWait THEN "locked" ELSE "next"
           k == [Moved(Me, place) EXCEPT !.aps = Me.got.aps, !.age = Me.got.age]
<1>1. /\ ready # <<>> /\ Me.at = "listing" /\ task' = [task EXCEPT ![This] = k]
      /\ lockq' = Append(lockq, This) /\ ready' = IF MustWait THEN Tail(ready) ELSE ready
      BY DEF TakeLock, At
<1>2. /\ Moved(Me, place) \in Tasks /\ Moved(Me, place).at = place
      /\ Moved(Me, place).kind = Me.kind /\ Moved(Me, place).current = Me.current
      BY <1>1, ThisTyped, MovedTyped
<1>3. Me.got.aps \subseteq Aps /\ Me.got.age \in Nat BY <1>1, ThisTyped DEF Tasks, Messages
<1>4. /\ k \in Tasks /\ k.at = place /\ k.kind = Me.kind /\ k.current = Me.current
      /\ k.aps = Me.got.aps /\ k.age = Me.got.age
  <2> DEFINE j == Moved(Me, place)
  <2>1. k = [j EXCEPT !.aps = Me.got.aps, !.age = Me.got.age] OBVIOUS
  <2>2. j \in Tasks /\ j.at = place /\ j.kind = Me.kind /\ j.current = Me.current BY <1>2
  <2> HIDE DEF j, k, place
  <2> QED BY <1>3, <2>1, <2>2 DEF Tasks
<1>5. /\ UNCHANGED <<ap_state, hidden, active, toNM, fromNM, services, table_at, announced>>
      /\ cache' \subseteq Aps
      BY DEF TakeLock, nmVars, tableVars, TypeOK
<1>6. k.at = IF lockq # <<>> THEN "locked" ELSE "next" BY <1>4 DEF MustWait
<1>7. lockq = <<>> => lockq' = <<This>> BY <1>1
<1> HIDE DEF k, place
<1>8. Becomes(k) BY <1>1, <1>4, <1>5, WorkingStep
<1>9. CASE lockq = <<>>
  <2>1. GoesOn(k) BY <1>1, <1>4, <1>5, <1>6, <1>7, <1>8, <1>9 DEF GoesOn, MustWait
  <2> QED BY <1>4, <2>1 DEF Steps
<1>10. CASE lockq # <<>>
  <2>1. WaitsForLock(k) BY <1>1, <1>4, <1>5, <1>6, <1>8, <1>10 DEF WaitsForLock, MustWait
  <2> QED BY <1>4, <2>1 DEF Steps
<1> QED BY <1>9, <1>10

LEMMA HaveLockSteps == ASSUME TypeOK, HaveLock PROVE Steps
<1> DEFINE k == Moved(Me, "next")
<1>1. ready # <<>> /\ Me.at = "locked" /\ task' = [task EXCEPT ![This] = k]
      BY DEF HaveLock, At
<1>2. /\ k \in Tasks /\ k.at = "next" /\ k.kind = Me.kind /\ k.current = Me.current
      /\ k.aps = Me.aps /\ k.age = Me.age
      BY <1>1, ThisTyped, MovedTyped
<1>3. /\ UNCHANGED <<ap_state, hidden, active, toNM, fromNM, ready, lockq, services,
                     table_at, announced>>
      /\ cache' \subseteq Aps
      BY DEF HaveLock, nmVars, tableVars, TypeOK
<1> HIDE DEF k
<1>4. StaysWhole(k) BY <1>1, <1>2 DEF StaysWhole, Whole, Shown, Ahead
<1> QED BY <1>1, <1>2, <1>3, <1>4, GoingStep DEF Holding

LEMMA NextApSteps == ASSUME TypeOK, NextAp PROVE Steps
<1>1. ready # <<>> /\ Me.at = "next" BY DEF NextAp, At
<1>2. PICK a \in Me.aps :
        LET me == [Me EXCEPT !.aps = @ \ {a}, !.ap = a] IN
          \/ a \in cache /\ UNCHANGED cache /\ Consider(a, me)
          \/ /\ a \notin cache /\ AskNM("properties", a, Moved(me, "reading"))
             /\ UNCHANGED <<cache, services>>
      BY DEF NextAp
<1> DEFINE me == [Me EXCEPT !.aps = @ \ {a}, !.ap = a]
<1>3. a \in Aps BY <1>1, <1>2, ThisTyped DEF Tasks
<1>4. /\ me \in Tasks /\ me.aps = Me.aps \ {a} /\ me.ap = a /\ me.kind = Me.kind
      /\ me.current = Me.current /\ me.age = Me.age
      BY <1>1, <1>3, ThisTyped DEF Tasks
<1>5. UNCHANGED <<ap_state, hidden, active, fromNM, lockq, table_at, announced>>
      BY DEF NextAp, nmVars
<1>6. Whole(Me) => Me.aps \subseteq Visible /\ InRange = Me.current \cup {Net[b] : b \in Me.aps \ hidden}
      BY <1>1 DEF Whole, Ahead, Shown
<1>7. me.aps \cup {a} = Me.aps BY <1>2, <1>4
<1>8. CASE a \in cache /\ UNCHANGED cache /\ Consider(a, me)
  <2>1. cache' \subseteq Aps /\ Me.at \in Working BY <1>1, <1>8 DEF TypeOK, Working
  <2> HIDE DEF me
  <2>2. Whole(Me) /\ (Me.at = "reading" => Me.got.ok) =>
          /\ me.aps \cup {a} \subseteq Visible
          /\ InRange = me.current \cup {Net[b] : b \in (me.aps \cup {a}) \ hidden}
        BY <1>4, <1>6, <1>7
  <2> QED BY <1>1, <1>3, <1>4, <1>5, <1>8, <2>1, <2>2, ConsiderSteps DEF Steps
<1>9. CASE /\ a \notin cache /\ AskNM("properties", a, Moved(me, "reading"))
           /\ UNCHANGED <<cache, services>>
  <2> DEFINE k == Moved(me, "reading")
  <2>1. /\ k \in Tasks /\ k.at = "reading" /\ k.kind = me.kind /\ k.aps = me.aps
        /\ k.current = me.current /\ k.age = me.age /\ k.ap = me.ap
    <3> HIDE DEF me
    <3> QED BY <1>4, MovedTyped DEF Waits
  <2>2. AskNM("properties", a, k) /\ cache' \subseteq Aps BY <1>9 DEF TypeOK
  <2> HIDE DEF me, k
  <2>3. StaysWhole(k)
    <3>1. Ahead(k) = Me.aps BY <1>4, <1>7, <2>1 DEF Ahead
    <3> QED BY <1>4, <1>6, <2>1, <3>1 DEF StaysWhole, Whole, Shown
  <2>4. k.at \in Waits /\ Awaited[k.at] = "properties" /\ Me.at \in Working /\ k.at \in Working
        /\ "properties" \in Kinds
        BY <1>1, <2>1 DEF Waits, Awaited, Working, Kinds
  <2> QED BY <1>1, <1>3, <1>4, <1>5, <1>9, <2>1, <2>2, <2>3, <2>4, AskingStep
<1> QED BY <1>2, <1>8, <1>9

LEMMA ReadApSteps == ASSUME TypeOK, FreeInv, ReadAp PROVE Steps
<1>1. ready # <<>> /\ Me.at = "reading" /\ Me \in Tasks /\ This \in TaskIds
      BY ThisTyped DEF ReadAp, At
<1>2. Me.ap \in Aps BY <1>1 DEF FreeInv, Me, Waits
<1>3. UNCHANGED <<ap_state, hidden, active, fromNM, lockq, table_at, announced>>
      BY DEF ReadAp, nmVars
<1>4. Me.at \in Working BY <1>1 DEF Working
<1>5. CASE Me.got.ok /\ cache' = cache \cup {Me.ap} /\ Consider(Me.ap, Me)
  <2>1. cache' \subseteq Aps BY <1>2, <1>5 DEF TypeOK
  <2>2. Whole(Me) /\ (Me.at = "reading" => Me.got.ok) =>
          /\ Me.aps \cup {Me.ap} \subseteq Visible
          /\ InRange = Me.current \cup {Net[b] : b \in (Me.aps \cup {Me.ap}) \ hidden}
        BY <1>1 DEF Whole, Ahead, Shown
  <2> QED BY <1>1, <1>2, <1>3, <1>4, <1>5, <2>1, <2>2, ConsiderSteps DEF Steps
<1>6. CASE /\ ~Me.got.ok /\ task' = [task EXCEPT ![This] = Moved(Me, "next")]
           /\ UNCHANGED <<toNM, ready, cache, services>>
  <2> DEFINE k == Moved(Me, "next")
  <2>1. /\ k \in Tasks /\ k.at = "next" /\ k.kind = Me.kind /\ k.current = Me.current
        /\ k.age = Me.age /\ task' = [task EXCEPT ![This] = k]
        BY <1>1, <1>6, MovedTyped
  <2> HIDE DEF k
  <2>2. StaysWhole(k) /\ Me.at \in Holding /\ cache' \subseteq Aps
        BY <1>1, <1>6 DEF StaysWhole, Holding, Working, TypeOK
  <2> QED BY <1>1, <1>3, <1>6, <2>1, <2>2, GoingStep
<1> QED BY <1>5, <1>6 DEF ReadAp

LEMMA ReadServiceSteps == ASSUME TypeOK, FreeInv, ReadService PROVE Steps
<1> DEFINE j == Moved(Me, "asking")
           k == [j EXCEPT !.blank = ~Me.got.ok]
<1>1. ready # <<>> /\ Me.at = "rereading" /\ Me \in Tasks /\ AskNM("active", None, k)
      /\ This \in TaskIds
      BY ThisTyped DEF ReadService, At
<1>a. Me.ap \in Aps BY <1>1 DEF FreeInv, Me, Waits
<1>2. /\ j \in Tasks /\ j.at = "asking" /\ j.kind = Me.kind /\ j.current = Me.current
      /\ j.aps = Me.aps /\ j.age = Me.age /\ j.ap = Me.ap
      BY <1>1, MovedTyped DEF Waits
<1>3. /\ k \in Tasks /\ k.at = "asking" /\ k.kind = Me.kind /\ k.current = Me.current
      /\ k.aps = Me.aps /\ k.age = Me.age /\ k.ap = Me.ap
  <2> HIDE DEF j
  <2> QED BY <1>2 DEF Tasks
<1>4. cache' \subseteq Aps
  <2>1. CASE ~Me.got.ok BY <2>1 DEF ReadService, TypeOK
  <2>2. CASE Me.got.ok BY <2>2, <1>a DEF ReadService, TypeOK
  <2> QED BY <2>1, <2>2
<1>5. UNCHANGED <<ap_state, hidden, active, fromNM, lockq, services, table_at, announced>>
      BY DEF ReadService, nmVars, tableVars
<1> HIDE DEF j, k
<1>6. StaysWhole(k) BY <1>1, <1>3 DEF StaysWhole, Whole, Shown, Ahead
<1>7. k.at \in Waits /\ Awaited[k.at] = "active" /\ Me.at \in Working /\ k.at \in Working
      /\ "active" \in Kinds
      BY <1>1, <1>3 DEF Waits, Awaited, Working, Kinds
<1> QED BY <1>1, <1>a, <1>3, <1>4, <1>5, <1>6, <1>7, AskingStep

LEMMA AddRowSteps == ASSUME TypeOK, FreeInv, AddRow PROVE Steps
<1> DEFINE row == [net |-> Net[Me.ap], blank |-> Me.blank, online |-> Me.got.ap = Me.ap]
           j == Moved(Me, "next")
           k == [j EXCEPT !.rows = @ \cup {row}]
<1>1. ready # <<>> /\ Me.at = "asking" /\ Me \in Tasks /\ This \in TaskIds
      BY ThisTyped DEF AddRow, At
<1>2. Me.ap \in Aps BY <1>1 DEF FreeInv, Me, Waits
<1>3. row \in Rows BY <1>1, <1>2, NetAssumption DEF Rows, Tasks
<1>4. /\ j \in Tasks /\ j.at = "next" /\ j.kind = Me.kind /\ j.current = Me.current
      /\ j.aps = Me.aps /\ j.age = Me.age
      BY <1>1, MovedTyped
<1>5. /\ k \in Tasks /\ k.at = "next" /\ k.kind = Me.kind /\ k.current = Me.current
      /\ k.aps = Me.aps /\ k.age = Me.age
  <2> HIDE DEF j, row
  <2> QED BY <1>3, <1>4 DEF Tasks
<1>6. /\ UNCHANGED <<ap_state, hidden, active, toNM, fromNM, ready, lockq, services,
                     table_at, announced>>
      /\ cache' \subseteq Aps /\ task' = [task EXCEPT ![This] = k]
      BY DEF AddRow, nmVars, tableVars, TypeOK
<1> HIDE DEF j, k, row
<1>7. StaysWhole(k) /\ Me.at \in Holding
      BY <1>1, <1>5 DEF StaysWhole, Whole, Shown, Ahead, Holding, Working
<1> QED BY <1>1, <1>5, <1>6, <1>7, GoingStep

\* Its end: a coroutine for ServicesChanged is over, one for a call has its reply to
\* send; the lock goes to the one that has waited longest.
Ends(k) ==
  /\ Writes(k) /\ Me.at = "next" /\ Me.aps = {} /\ UNCHANGED <<toNM, fromNM>>
  /\ Exported' = Me.current /\ table_at' = Me.age /\ lockq' = Others
  /\ \/ /\ k = Free /\ announced'.nets = Me.current /\ ready' = Tail(ready) \o HandOver
     \/ /\ Me.kind = "call" /\ k.at = "reply" /\ announced' = announced
        /\ ready' = (Tail(ready) \o HandOver) \o <<This>>

\* The reply is sent.
Replies ==
  /\ Writes(Free) /\ Me.at = "reply" /\ ready' = Tail(ready)
  /\ UNCHANGED <<toNM, fromNM, lockq, services, table_at, announced>>

\* At the end only the services of the list stay exported.
LEMMA KeptExports ==
  ASSUME TypeOK, ready # <<>>, services' = Kept(Me.current), Me.current \subseteq Exported
  PROVE  services' \in [Nets -> Aps \cup {None}] /\ Exported' = Me.current
<1>1. Me.current \subseteq Nets BY ThisTyped DEF Tasks
<1>2. \A n \in Nets : services'[n] = IF n \in Me.current THEN services[n] ELSE None
      BY DEF Kept
<1>3. services' \in [Nets -> Aps \cup {None}] BY DEF Kept, TypeOK
<1>4. \A n \in Me.current : services[n] # None BY DEF Exported
<1> QED BY <1>1, <1>2, <1>3, <1>4 DEF Exported

\* Finish and Reply are the ends.
LEMMA FinishEnds ==
  ASSUME TypeOK, ListedStaysExported, Finish
  PROVE  \E k \in Tasks : Ends(k)
<1>1. ready # <<>> /\ Me.at = "next" /\ Me \in Tasks /\ This \in TaskIds /\ Me.aps = {}
      BY ThisTyped DEF Finish, At
<1>2. Me.current \subseteq Exported BY <1>1 DEF ListedStaysExported, Me
<1>3. services' \in [Nets -> Aps \cup {None}] /\ Exported' = Me.current
      BY <1>1, <1>2, KeptExports DEF Finish
<1>4. /\ UNCHANGED <<ap_state, hidden, active, toNM, fromNM>> /\ cache' \subseteq Aps
      /\ table_at' = Me.age /\ lockq' = Others
      BY DEF Finish, nmVars, TypeOK
<1>5. CASE /\ announced' = [nets |-> Me.current, rows |-> Me.rows]
           /\ task' = [task EXCEPT ![This] = Free] /\ ready' = Tail(ready) \o HandOver
  <2>1. announced'.nets = Me.current BY <1>5
  <2>2. Writes(Free) BY <1>1, <1>3, <1>4, <1>5, FreeTyped DEF Writes
  <2> QED BY <1>1, <1>3, <1>4, <1>5, <2>1, <2>2, FreeTyped DEF Ends
<1>6. CASE /\ Me.kind = "call" /\ UNCHANGED announced
           /\ task' = [task EXCEPT ![This].at = "reply"]
           /\ ready' = Tail(ready) \o HandOver \o <<This>>
  <2> DEFINE k == [Me EXCEPT !.at = "reply"]
  <2>1. k \in Tasks /\ k.at = "reply" BY <1>1 DEF Tasks
  <2>2. task' = [task EXCEPT ![This] = k] BY <1>6 DEF Me
  <2> HIDE DEF k
  <2>3. Writes(k) BY <1>1, <1>3, <1>4, <2>1, <2>2 DEF Writes
  <2>4. ready' = (Tail(ready) \o HandOver) \o <<This>> BY <1>6
  <2> QED BY <1>1, <1>3, <1>4, <1>6, <2>1, <2>3, <2>4 DEF Ends
<1> QED BY <1>5, <1>6 DEF Finish

LEMMA ReplyEnds == ASSUME TypeOK, Reply PROVE Replies
<1>1. ready # <<>> /\ Me.at = "reply" BY DEF Reply, At
<1>2. /\ UNCHANGED <<ap_state, hidden, active, toNM, fromNM, lockq, services, table_at, announced>>
      /\ cache' \subseteq Aps /\ services' \in [Nets -> Aps \cup {None}]
      BY DEF Reply, nmVars, tableVars, TypeOK
<1>3. task' = [task EXCEPT ![This] = Free] /\ ready' = Tail(ready) BY DEF Reply
<1> QED BY <1>1, <1>2, <1>3, FreeTyped DEF Replies, Writes

\* Whatever the loop runs is a step, an end, or a reply.
LEMMA RunTaskSteps ==
  ASSUME TypeOK, FreeInv, ListedStaysExported, RunTask
  PROVE  Steps \/ (\E k \in Tasks : Ends(k)) \/ Replies
BY StartListSteps, TakeLockSteps, HaveLockSteps, NextApSteps, ReadApSteps, ReadServiceSteps,
   AddRowSteps, FinishEnds, ReplyEnds DEF RunTask

-----------------------------------------------------------------------------
(* The bound on what is under way. *)

\* The signals of a queue, and the coroutines that are not free.
Sigs(s) == {i \in DOMAIN s : s[i].of = 0}
Alive == TaskIds \ FreeIds

\* How the number of signals changes.
LEMMA SigsFinite ==
  ASSUME NEW s \in Seq(Messages)
  PROVE  IsFiniteSet(Sigs(s)) /\ Cardinality(Sigs(s)) \in Nat
<1>1. Len(s) \in Nat /\ DOMAIN s = 1..Len(s) OBVIOUS
<1>2. IsFiniteSet(DOMAIN s) BY <1>1, FS_Interval
<1>3. Sigs(s) \in SUBSET DOMAIN s BY DEF Sigs
<1> QED BY <1>2, <1>3, FS_Subset, FS_CardinalityType

LEMMA SigsAppend ==
  ASSUME NEW s \in Seq(Messages), NEW e \in Messages
  PROVE  Cardinality(Sigs(Append(s, e))) = Cardinality(Sigs(s)) + IF e.of = 0 THEN 1 ELSE 0
<1>1. /\ DOMAIN Append(s, e) = DOMAIN s \cup {Len(s) + 1} /\ Append(s, e)[Len(s) + 1] = e
      /\ \A i \in DOMAIN s : i # Len(s) + 1 /\ Append(s, e)[i] = s[i]
      BY AppendOf
<1> DEFINE l == Len(s) + 1
<1>2. Sigs(Append(s, e)) = IF e.of = 0 THEN Sigs(s) \cup {l} ELSE Sigs(s)
  <2> HIDE DEF l
  <2>1. /\ DOMAIN Append(s, e) = DOMAIN s \cup {l} /\ Append(s, e)[l] = e
        /\ \A i \in DOMAIN s : i # l /\ Append(s, e)[i] = s[i]
        BY <1>1 DEF l
  <2> QED BY <2>1 DEF Sigs
<1>3. l \notin Sigs(s) BY <1>1 DEF Sigs
<1> HIDE DEF l
<1>4. Cardinality(Sigs(s) \cup {l}) = Cardinality(Sigs(s)) + 1 BY <1>3, SigsFinite, FS_AddElement
<1> QED BY <1>2, <1>4, SigsFinite

LEMMA SigsTail ==
  ASSUME NEW s \in Seq(Messages), s # <<>>
  PROVE  Cardinality(Sigs(s)) = Cardinality(Sigs(Tail(s))) + IF Head(s).of = 0 THEN 1 ELSE 0
<1>1. /\ Len(s) \in Nat \ {0} /\ DOMAIN s = 1..Len(s) /\ 1 \in DOMAIN s /\ Head(s) = s[1]
      /\ Tail(s) \in Seq(Messages) /\ DOMAIN Tail(s) = 1..(Len(s) - 1)
      /\ \A i \in DOMAIN Tail(s) : i + 1 \in DOMAIN s /\ i + 1 # 1 /\ Tail(s)[i] = s[i + 1]
      BY TailOf
<1> DEFINE f == [i \in Sigs(Tail(s)) |-> i + 1]
           T == Sigs(s) \ {1}
<1>2. f \in Injection(Sigs(Tail(s)), T)
  <2>1. f \in [Sigs(Tail(s)) -> T] BY <1>1 DEF Sigs
  <2>2. \A i, j \in Sigs(Tail(s)) : f[i] = f[j] => i = j
    <3>1. ASSUME NEW i \in Sigs(Tail(s)), NEW j \in Sigs(Tail(s)), f[i] = f[j] PROVE i = j
      <4>1. i \in Nat /\ j \in Nat BY <1>1 DEF Sigs
      <4>2. i + 1 = j + 1 BY <3>1
      <4> QED BY <4>1, <4>2
    <3> QED BY <3>1
  <2> HIDE DEF f, T
  <2> QED BY <2>1, <2>2 DEF Injection, IsInjective
<1>3. f \in Surjection(Sigs(Tail(s)), T)
  <2>1. f \in [Sigs(Tail(s)) -> T] BY <1>2 DEF Injection
  <2>2. \A x \in T : \E i \in Sigs(Tail(s)) : f[i] = x
    <3>1. ASSUME NEW x \in T PROVE \E i \in Sigs(Tail(s)) : f[i] = x
      <4>1. x \in DOMAIN s /\ x # 1 /\ s[x].of = 0 BY <3>1 DEF Sigs
      <4>2. x - 1 \in 1..(Len(s) - 1) /\ (x - 1) + 1 = x BY <1>1, <4>1
      <4>3. x - 1 \in DOMAIN Tail(s) /\ Tail(s)[x - 1] = s[x] BY <1>1, <4>2
      <4>4. x - 1 \in Sigs(Tail(s)) BY <4>1, <4>3 DEF Sigs
      <4> QED BY <4>2, <4>4
    <3> QED BY <3>1
  <2> HIDE DEF f, T
  <2> QED BY <2>1, <2>2 DEF Surjection
<1>4. ExistsBijection(Sigs(Tail(s)), T)
  <2> HIDE DEF f, T
  <2> QED BY <1>2, <1>3 DEF ExistsBijection, Bijection
<1>5. Cardinality(T) = Cardinality(Sigs(Tail(s)))
  <2> HIDE DEF T
  <2> QED BY <1>1, <1>4, SigsFinite, FS_Bijection
<1>6. Cardinality(T) = IF 1 \in Sigs(s) THEN Cardinality(Sigs(s)) - 1 ELSE Cardinality(Sigs(s))
      BY SigsFinite, FS_RemoveElement
<1>7. 1 \in Sigs(s) <=> Head(s).of = 0 BY <1>1 DEF Sigs
<1>8. Cardinality(Sigs(s)) \in Nat BY SigsFinite
<1> HIDE DEF T
<1> QED BY <1>5, <1>6, <1>7, <1>8

LEMMA IdsFinite == IsFiniteSet(TaskIds) /\ Cardinality(TaskIds) = MaxTasks
BY Bounds, FS_Interval

\* The coroutines alive are at most all of them.
LEMMA AliveFinite ==
  /\ IsFiniteSet(Alive) /\ Cardinality(Alive) \in Nat /\ FreeIds \subseteq TaskIds
  /\ (FreeIds = {} => Cardinality(Alive) = MaxTasks)
<1>1. Alive \in SUBSET TaskIds /\ FreeIds \subseteq TaskIds BY DEF Alive, FreeIds
<1>2. FreeIds = {} => Alive = TaskIds BY DEF Alive
<1> QED BY <1>1, <1>2, IdsFinite, FS_Subset, FS_CardinalityType

LEMMA RoomIs ==
  ASSUME NEW n
  PROVE  RoomFor(n) <=> Cardinality(Alive) + Cardinality(Sigs(fromNM)) + n <= MaxTasks
BY DEF RoomFor, Alive, Sigs

\* Room for one more, or for the signal at the head, leaves a coroutine free.
LEMMA RoomFree ==
  ASSUME TypeOK, \/ RoomFor(1)
                 \/ RoomInv /\ fromNM # <<>> /\ Head(fromNM).of = 0
  PROVE  FreeIds # {}
<1>1. fromNM \in Seq(Messages) BY DEF TypeOK
<1> DEFINE a == Cardinality(Alive)  c == Cardinality(Sigs(fromNM))
<1>2. a \in Nat /\ c \in Nat /\ MaxTasks \in Nat /\ (FreeIds = {} => a = MaxTasks)
      BY <1>1, AliveFinite, SigsFinite, Bounds
<1>3. CASE RoomFor(1)
  <2>1. a + c + 1 <= MaxTasks BY <1>3, RoomIs
  <2> HIDE DEF a, c
  <2> QED BY <1>2, <2>1
<1>4. CASE RoomInv /\ fromNM # <<>> /\ Head(fromNM).of = 0
  <2> DEFINE d == Cardinality(Sigs(Tail(fromNM)))
  <2>1. a + c + 0 <= MaxTasks BY <1>4, RoomIs DEF RoomInv
  <2>2. c = d + 1 BY <1>1, <1>4, SigsTail
  <2>3. d \in Nat BY <1>1, <1>4, TailOf, SigsFinite
  <2> HIDE DEF a, c, d
  <2> QED BY <1>2, <2>1, <2>2, <2>3
<1> QED BY <1>3, <1>4

\* A coroutine is started in a free place, at the end of the loop's queue.
Spawned(kind, t) ==
  /\ t \in TaskIds /\ task[t] = Free /\ ready' = Append(ready, t)
  /\ task' = [task EXCEPT ![t] = Task(kind, "start")]

\* Spawn starts a free coroutine, when there is one.
LEMMA SpawnIs ==
  ASSUME NEW kind, FreeIds # {}, Spawn(kind)
  PROVE  \E t \in TaskIds : Spawned(kind, t)
<1> DEFINE t == CHOOSE t \in FreeIds : TRUE
<1>1. t \in FreeIds OBVIOUS
<1>2. task' = [task EXCEPT ![t] = Task(kind, "start")] /\ ready' = Append(ready, t)
      BY DEF Spawn
<1> HIDE DEF t
<1> QED BY <1>1, <1>2 DEF Spawned, FreeIds

-----------------------------------------------------------------------------
(* The lock's queue. *)

\* The queue of the lock is handed on in order.
LEMMA OthersIs == ASSUME lockq \in Seq(TaskIds), lockq # <<>> PROVE Others = Tail(lockq)
<1>1. Len(lockq) \in Nat \ {0} BY TailOf
<1>a. \A i \in 2..Len(lockq) : lockq[i] \in TaskIds BY <1>1
<1>b. /\ Others \in Seq(TaskIds)
      /\ Len(Others) = IF 2 <= Len(lockq) THEN Len(lockq) - 2 + 1 ELSE 0
      /\ \A i \in 1..(Len(lockq) - 2 + 1) : Others[i] = lockq[2 + i - 1]
      BY <1>1, <1>a, SubSeqProperties DEF Others
<1>2. Others \in Seq(TaskIds) /\ Len(Others) = Len(lockq) - 1
      /\ \A i \in 1..(Len(lockq) - 1) : Others[i] = lockq[i + 1]
  <2> DEFINE l == Len(lockq)
  <2>1. l \in Nat \ {0} BY <1>1
  <2>2. \A i \in 1..(l - 1) : i \in 1..(l - 2 + 1) /\ 2 + i - 1 = i + 1 BY <2>1
  <2>3. Len(Others) = l - 1
    <3> DEFINE o == Len(Others)
    <3>1. o = IF 2 <= l THEN l - 2 + 1 ELSE 0 BY <1>b
    <3> HIDE DEF l, o
    <3>2. o = l - 1 BY <2>1, <3>1
    <3> QED BY <3>2 DEF o
  <2> QED BY <1>b, <2>2, <2>3
<1>3. Tail(lockq) \in Seq(TaskIds) /\ Len(Tail(lockq)) = Len(lockq) - 1
      /\ \A i \in 1..(Len(lockq) - 1) : Tail(lockq)[i] = lockq[i + 1]
      BY <1>1
<1> QED BY <1>1, <1>2, <1>3, SeqEqual

\* The next holder, if there is one, is put at the end of the loop's queue.
LEMMA HandOverIs ==
  ASSUME Others \in Seq(TaskIds), NEW r \in Seq(TaskIds)
  PROVE  r \o HandOver = IF Others = <<>> THEN r ELSE Append(r, Others[1])
<1>1. CASE Others = <<>>
  <2>1. HandOver = <<>> BY <1>1 DEF HandOver
  <2> QED BY <1>1, <2>1
<1>2. CASE Others # <<>>
  <2>1. Len(Others) \in Nat \ {0} BY <1>2, TailOf
  <2>2. HandOver = SubSeq(Others, 1, 1) BY <1>2 DEF HandOver
  <2>4. Others[1] \in TaskIds BY <1>2, TailOf
  <2>5. \A i \in 1..1 : Others[i] \in TaskIds BY <2>4
  <2>6. /\ SubSeq(Others, 1, 1) \in Seq(TaskIds) /\ Len(SubSeq(Others, 1, 1)) = 1
        /\ SubSeq(Others, 1, 1)[1] = Others[1]
        BY <2>5, SubSeqProperties
  <2>3. HandOver = <<Others[1]>>
    <3>1. <<Others[1]>> \in Seq(TaskIds) /\ Len(<<Others[1]>>) = 1 /\ <<Others[1]>>[1] = Others[1]
          BY <2>4
    <3>2. \A i \in 1..1 : SubSeq(Others, 1, 1)[i] = <<Others[1]>>[i] BY <2>6, <3>1
    <3> QED BY <2>2, <2>6, <3>1, <3>2, SeqEqual
  <2> QED BY <1>2, <2>3, <2>4
<1> QED BY <1>1, <1>2

\* Who builds its list holds the lock.
LEMMA Holder ==
  ASSUME TypeOK, ReadyInv, LockInv, ready # <<>>, Me.at \in Holding
  PROVE  lockq # <<>> /\ lockq[1] = This /\ This \in Range(lockq)
<1>1. This \in Range(ready) /\ This \in TaskIds /\ task[This] = Me BY ThisTyped DEF Me
<1>2. This \in Range(lockq) BY <1>1 DEF LockInv
<1>3. lockq # <<>>
  <2>1. lockq \in Seq(TaskIds) BY DEF TypeOK
  <2> QED BY <1>2, <2>1 DEF Range
<1>4. Me.at = "locked" => lockq[1] = This BY <1>1 DEF ReadyInv
<1>5. Me.at # "locked" => lockq[1] = This BY <1>1, <1>2 DEF LockInv
<1> QED BY <1>2, <1>3, <1>4, <1>5

\* A write of the coroutine that runs changes no other, and nothing at NetworkManager.
LEMMA Written ==
  ASSUME TypeOK, NEW k, Writes(k)
  PROVE  /\ task' \in [TaskIds -> Tasks] /\ task'[This] = k /\ k \in Tasks /\ This \in TaskIds
         /\ \A t \in TaskIds : t # This => task'[t] = task[t]
         /\ ap_state' = ap_state /\ hidden' = hidden /\ active' = active
         /\ Visible' = Visible /\ InRange' = InRange /\ Age' = Age
<1>1. This \in TaskIds BY ThisTyped DEF Writes
<1>2. ap_state' = ap_state /\ hidden' = hidden /\ active' = active BY DEF Writes
<1>3. Visible' = Visible /\ InRange' = InRange /\ Age' = Age BY <1>2 DEF Visible, InRange, Age
<1> QED BY <1>1, <1>2, <1>3 DEF Writes, TypeOK

-----------------------------------------------------------------------------
(* Types are kept. *)

\* The types of what is not a queue or a coroutine, and of the queues.
Typed == /\ ap_state \in [Aps -> {"new", "visible", "gone"}] /\ hidden \subseteq Aps
         /\ active \in Aps \cup {None}
         /\ cache \subseteq Aps /\ services \in [Nets -> Aps \cup {None}]
Queued == /\ toNM \in Seq(Questions) /\ fromNM \in Seq(Messages)
          /\ ready \in Seq(TaskIds) /\ lockq \in Seq(TaskIds)

LEMMA TypeOKIs ==
  TypeOK <=> Typed /\ Queued /\ task \in [TaskIds -> Tasks] /\ table_at \in Nat \cup {-1}
BY DEF TypeOK, Typed, Queued

LEMMA WritesTyped == ASSUME TypeOK, NEW k, Writes(k) PROVE Typed'
<1>1. UNCHANGED <<ap_state, hidden, active>> BY DEF Writes
<1>2. cache' \subseteq Aps /\ services' \in [Nets -> Aps \cup {None}] BY DEF Writes
<1> QED BY <1>1, <1>2 DEF Typed, TypeOK

LEMMA StepsType == ASSUME TypeOK, Steps PROVE TypeOK'
<1>a. ready # <<>> BY DEF Steps, Asks, GoesOn, WaitsForLock, Becomes, Writes
<1>b. /\ Tail(ready) \in Seq(TaskIds) /\ This \in TaskIds /\ ready \in Seq(TaskIds)
      /\ lockq \in Seq(TaskIds) /\ toNM \in Seq(Questions) /\ fromNM \in Seq(Messages)
      BY <1>a, ThisTyped DEF TypeOK
<1>c. Append(lockq, This) \in Seq(TaskIds) /\ <<This>> \in Seq(TaskIds) BY <1>b, AppendOf
<1>d. ASSUME NEW k, Becomes(k), Queued' PROVE TypeOK'
  <2>1. task' \in [TaskIds -> Tasks] BY <1>d, Written DEF Becomes
  <2>2. Typed' BY <1>d, WritesTyped DEF Becomes
  <2>3. table_at' = table_at /\ table_at \in Nat \cup {-1} BY <1>d DEF Becomes, TypeOK
  <2>4. TypeOK' <=> Typed' /\ Queued' /\ task' \in [TaskIds -> Tasks] /\ table_at' \in Nat \cup {-1}
        BY DEF TypeOK, Typed, Queued
  <2> QED BY <1>d, <2>1, <2>2, <2>3, <2>4
<1>1. CASE \E k \in Tasks, q \in Questions : Asks(k, q)
  <2>1. PICK k \in Tasks, q \in Questions : Asks(k, q) BY <1>1
  <2>2. Append(toNM, q) \in Seq(Questions) BY <1>b, AppendOf
  <2>3. /\ Becomes(k) /\ ready' = Tail(ready) /\ toNM' = Append(toNM, q) /\ lockq' = lockq
        /\ fromNM' = fromNM
        BY <2>1 DEF Asks, Becomes
  <2>4. Queued' BY <1>b, <2>2, <2>3 DEF Queued
  <2> QED BY <1>d, <2>3, <2>4
<1>2. CASE \E k \in Tasks : GoesOn(k)
  <2>1. PICK k \in Tasks : GoesOn(k) BY <1>2
  <2>2. /\ Becomes(k) /\ ready' = ready /\ toNM' = toNM /\ fromNM' = fromNM
        /\ lockq' \in {lockq, <<This>>}
        BY <2>1 DEF GoesOn, Becomes
  <2>3. Queued' BY <1>b, <1>c, <2>2 DEF Queued
  <2> QED BY <1>d, <2>2, <2>3
<1>3. CASE \E k \in Tasks : WaitsForLock(k)
  <2>1. PICK k \in Tasks : WaitsForLock(k) BY <1>3
  <2>2. /\ Becomes(k) /\ ready' = Tail(ready) /\ toNM' = toNM /\ fromNM' = fromNM
        /\ lockq' = Append(lockq, This)
        BY <2>1 DEF WaitsForLock, Becomes
  <2>3. Queued' BY <1>b, <1>c, <2>2 DEF Queued
  <2> QED BY <1>d, <2>2, <2>3
<1> QED BY <1>1, <1>2, <1>3 DEF Steps

\* What becomes of the queues at the end of a coroutine: the next in the lock's queue
\* is put in the loop's.
LEMMA EndsQueues ==
  ASSUME TypeOK, ReadyInv, LockInv, NEW k, Ends(k)
  PROVE  /\ lockq # <<>> /\ lockq[1] = This /\ lockq' = Tail(lockq) /\ lockq' \in Seq(TaskIds)
         /\ LET r == IF Tail(lockq) = <<>> THEN Tail(ready)
                     ELSE Append(Tail(ready), Head(Tail(lockq)))
            IN r \in Seq(TaskIds) /\ ready' = IF k = Free THEN r ELSE Append(r, This)
<1>1. /\ ready # <<>> /\ Me.at = "next" /\ lockq' = Others
      /\ \/ k = Free /\ ready' = Tail(ready) \o HandOver
         \/ k.at = "reply" /\ ready' = (Tail(ready) \o HandOver) \o <<This>>
      BY DEF Ends, Writes
<1>2. lockq # <<>> /\ lockq[1] = This BY <1>1, Holder DEF Holding, Working
<1>3. /\ This \in TaskIds /\ Tail(ready) \in Seq(TaskIds) /\ lockq \in Seq(TaskIds)
      BY <1>1, ThisTyped DEF TypeOK
<1>4. Others = Tail(lockq) /\ Tail(lockq) \in Seq(TaskIds) BY <1>2, <1>3, OthersIs, TailOf
<1>5. Tail(lockq) # <<>> =>
        /\ Head(Tail(lockq)) = Tail(lockq)[1] /\ Head(Tail(lockq)) \in TaskIds
      BY <1>4, TailOf
<1> DEFINE r == IF Tail(lockq) = <<>> THEN Tail(ready)
                ELSE Append(Tail(ready), Head(Tail(lockq)))
<1>6. Tail(ready) \o HandOver = r BY <1>3, <1>4, <1>5, HandOverIs
<1>7. r \in Seq(TaskIds)
  <2>1. CASE Tail(lockq) = <<>> BY <1>3, <2>1
  <2>2. CASE Tail(lockq) # <<>> BY <1>3, <1>5, <2>2, AppendOf
  <2> QED BY <2>1, <2>2
<1>8. r \o <<This>> = Append(r, This)
  <2> HIDE DEF r
  <2> QED BY <1>3, <1>7
<1>9. Free.at # "reply" BY FreeTyped
<1> HIDE DEF r
<1>10. ready' = IF k = Free THEN r ELSE Append(r, This)
      BY <1>1, <1>6, <1>8, <1>9
<1> QED BY <1>1, <1>2, <1>4, <1>7, <1>10 DEF r

LEMMA EndsType == ASSUME TypeOK, ReadyInv, LockInv, NEW k, Ends(k) PROVE TypeOK'
<1>1. /\ Writes(k) /\ ready # <<>> /\ table_at' = Me.age /\ UNCHANGED <<toNM, fromNM>>
      BY DEF Ends, Writes
<1>2. task' \in [TaskIds -> Tasks] /\ Typed' BY <1>1, Written, WritesTyped
<1>3. Me.age \in Nat /\ This \in TaskIds BY <1>1, ThisTyped DEF Tasks
<1> DEFINE r == IF Tail(lockq) = <<>> THEN Tail(ready)
                ELSE Append(Tail(ready), Head(Tail(lockq)))
<1>4. r \in Seq(TaskIds) /\ ready' \in {r, Append(r, This)} /\ lockq' \in Seq(TaskIds)
      BY EndsQueues
<1>5. ready' \in Seq(TaskIds)
  <2> HIDE DEF r
  <2> QED BY <1>3, <1>4, AppendOf
<1>6. toNM' \in Seq(Questions) /\ fromNM' \in Seq(Messages) BY <1>1 DEF TypeOK
<1>7. TypeOK' <=> Typed' /\ Queued' /\ task' \in [TaskIds -> Tasks] /\ table_at' \in Nat \cup {-1}
      BY DEF TypeOK, Typed, Queued
<1>8. Queued' BY <1>4, <1>5, <1>6 DEF Queued
<1> QED BY <1>1, <1>2, <1>3, <1>7, <1>8

LEMMA RepliesType == ASSUME TypeOK, Replies PROVE TypeOK'
<1>1. /\ Writes(Free) /\ ready # <<>> /\ UNCHANGED <<toNM, fromNM, lockq, table_at>>
      /\ ready' = Tail(ready)
      BY DEF Replies, Writes
<1>2. task' \in [TaskIds -> Tasks] /\ Typed' BY <1>1, Written, WritesTyped
<1>3. Queued' BY <1>1, ThisTyped DEF Queued, TypeOK
<1>4. table_at' \in Nat \cup {-1} BY <1>1 DEF TypeOK
<1>7. TypeOK' <=> Typed' /\ Queued' /\ task' \in [TaskIds -> Tasks] /\ table_at' \in Nat \cup {-1}
      BY DEF TypeOK, Typed, Queued
<1> QED BY <1>2, <1>3, <1>4, <1>7

-----------------------------------------------------------------------------
(* The steps of NetworkManager and of the loop. *)

\* Signals come after the messages of f.
Grows(f, g) ==
  /\ g \in Seq(Messages) /\ Range(f) \subseteq Range(g)
  /\ \A m \in Range(g) : m \in Range(f) \/ (m.of = 0 /\ m.kind \in Signals)
  /\ OneEach(f) => OneEach(g)
  /\ InOrder(f) => InOrder(g)

\* One signal comes, or two.
LEMMA GrowsOne ==
  ASSUME NEW f \in Seq(Messages), NEW kind \in Signals, NEW a \in Aps \cup {None}
  PROVE  LET e == Signal(kind, a) IN
         /\ Grows(f, Append(f, e)) /\ e \in Range(Append(f, e)) /\ Append(f, e) \in Seq(Messages)
         /\ Cardinality(Sigs(Append(f, e))) = Cardinality(Sigs(f)) + 1
<1> DEFINE e == Signal(kind, a)
<1>1. e \in Messages /\ e.of = 0 /\ e.kind = kind BY SignalTyped
<1> HIDE DEF e
<1>2. Range(Append(f, e)) = Range(f) \cup {e} /\ Append(f, e) \in Seq(Messages)
      BY <1>1, AppendRange
<1>3. OneEach(f) => OneEach(Append(f, e)) BY <1>1, OneEachAppend
<1>4. InOrder(f) => InOrder(Append(f, e))
  <2>1. \A i \in DOMAIN Append(f, e) : IsList(Append(f, e)[i]) => i \in DOMAIN f /\ Append(f, e)[i] = f[i]
        BY <1>1, AppendOf DEF IsList
  <2> QED BY <2>1 DEF InOrder
<1>5. Cardinality(Sigs(Append(f, e))) = Cardinality(Sigs(f)) + 1 BY <1>1, SigsAppend
<1>6. Grows(f, Append(f, e))
  <2> DEFINE g == Append(f, e)
  <2>1. g \in Seq(Messages) /\ Range(g) = Range(f) \cup {e} BY <1>2
  <2>2. (OneEach(f) => OneEach(g)) /\ (InOrder(f) => InOrder(g)) BY <1>3, <1>4
  <2> HIDE DEF g
  <2>3. Grows(f, g) BY <1>1, <2>1, <2>2 DEF Grows
  <2> QED BY <2>3 DEF g
<1> QED BY <1>2, <1>5, <1>6 DEF e

LEMMA GrowsTwice ==
  ASSUME NEW f, NEW g, NEW h, Grows(f, g), Grows(g, h)
  PROVE  Grows(f, h)
BY DEF Grows

\* NetworkManager changes: signals come, and its age is one more when an access point
\* has come or gone.
SignalsCome ==
  /\ Grows(fromNM, fromNM')
  /\ \E n \in Nat : RoomFor(n) /\ Cardinality(Sigs(fromNM')) = Cardinality(Sigs(fromNM)) + n
  /\ ap_state' \in [Aps -> {"new", "visible", "gone"}] /\ active' \in Aps \cup {None}
  /\ UNCHANGED <<hidden, toNM, task, ready, lockq, cache, services, table_at, announced>>
  /\ \/ ap_state' = ap_state
     \/ /\ Age' = Age + 1
        /\ \E m \in Range(fromNM') : m.of = 0 /\ m.kind \in {"added", "removed"}

\* Each change at NetworkManager sends its signals and makes it one older.
LEMMA AppearComes == ASSUME TypeOK, NEW a \in Aps, Appear(a) PROVE SignalsCome
<1> DEFINE gone == {b \in Aps : ap_state[b] = "gone"}
<1>1. /\ ap_state[a] = "new" /\ RoomFor(1) /\ ap_state' = [ap_state EXCEPT ![a] = "visible"]
      /\ fromNM' = Append(fromNM, Signal("added", a)) /\ fromNM \in Seq(Messages)
      BY DEF Appear, TypeOK
<1>2. UNCHANGED <<hidden, active, toNM, task, ready, lockq, cache, services, table_at, announced>>
      BY DEF Appear, loopVars, tableVars
<1>3. ap_state' \in [Aps -> {"new", "visible", "gone"}] /\ active' \in Aps \cup {None}
      BY <1>1, <1>2 DEF TypeOK
<1>4. Visible' = Visible \cup {a} /\ a \notin Visible BY <1>1 DEF Visible, TypeOK
<1>5. gone' = gone BY <1>1 DEF TypeOK
<1>6. IsFiniteSet(Visible) /\ Cardinality(Visible) \in Nat
      BY ApsAssumption, FS_Subset, FS_CardinalityType DEF Visible
<1>7. Cardinality(Visible') = Cardinality(Visible) + 1 BY <1>4, <1>6, FS_AddElement
<1>8. Age' = Age + 1
  <2>1. Age = Cardinality(Visible) + 2 * Cardinality(gone) BY DEF Age
  <2>2. Age' = Cardinality(Visible') + 2 * Cardinality(gone') BY DEF Age
  <2>3. Cardinality(gone) \in Nat BY CountedNat
  <2> DEFINE v == Cardinality(Visible)  c == Cardinality(gone)
  <2>4. Age = v + 2 * c /\ Age' = (v + 1) + 2 * c BY <1>5, <1>7, <2>1, <2>2
  <2>5. v \in Nat /\ c \in Nat BY <1>6, <2>3
  <2> HIDE DEF v, c
  <2> QED BY <2>4, <2>5
<1>9. /\ Grows(fromNM, fromNM') /\ Signal("added", a) \in Range(fromNM')
      /\ Cardinality(Sigs(fromNM')) = Cardinality(Sigs(fromNM)) + 1
      BY <1>1, GrowsOne DEF Signals
<1>10. \E m \in Range(fromNM') : m.of = 0 /\ m.kind \in {"added", "removed"}
      BY <1>9, SignalTyped DEF Signals
<1> HIDE DEF gone
<1> QED BY <1>1, <1>2, <1>3, <1>8, <1>9, <1>10 DEF SignalsCome

LEMMA VanishComes == ASSUME TypeOK, NEW a \in Aps, Vanish(a) PROVE SignalsCome
<1> DEFINE gone == {b \in Aps : ap_state[b] = "gone"}
           n == IF active = a THEN 2 ELSE 1
           f == Append(fromNM, Signal("removed", a))
<1>1. /\ ap_state[a] = "visible" /\ RoomFor(n) /\ ap_state' = [ap_state EXCEPT ![a] = "gone"]
      /\ fromNM' = (fromNM \o <<Signal("removed", a)>>)
                     \o (IF active = a THEN <<Signal("connections", a)>> ELSE <<>>)
      /\ fromNM \in Seq(Messages)
      BY DEF Vanish, TypeOK
<1>2. UNCHANGED <<hidden, toNM, task, ready, lockq, cache, services, table_at, announced>>
      BY DEF Vanish, loopVars, tableVars
<1>3. ap_state' \in [Aps -> {"new", "visible", "gone"}] /\ active' \in Aps \cup {None}
      BY <1>1 DEF TypeOK, Vanish
<1>4. Visible' = Visible \ {a} /\ a \in Visible BY <1>1 DEF Visible, TypeOK
<1>5. gone' = gone \cup {a} /\ a \notin gone BY <1>1 DEF TypeOK
<1>6. /\ IsFiniteSet(Visible) /\ Cardinality(Visible) \in Nat
      /\ IsFiniteSet(gone) /\ Cardinality(gone) \in Nat
      BY ApsAssumption, FS_Subset, FS_CardinalityType DEF Visible
<1>7. /\ Cardinality(Visible') = Cardinality(Visible) - 1
      /\ Cardinality(gone') = Cardinality(gone) + 1
  <2> HIDE DEF gone
  <2> QED BY <1>4, <1>5, <1>6, FS_AddElement, FS_RemoveElement
<1>8. Age' = Age + 1
  <2>1. Age = Cardinality(Visible) + 2 * Cardinality(gone) BY DEF Age
  <2>2. Age' = Cardinality(Visible') + 2 * Cardinality(gone') BY DEF Age
  <2> DEFINE v == Cardinality(Visible)  c == Cardinality(gone)
  <2>4. Age = v + 2 * c /\ Age' = (v - 1) + 2 * (c + 1) BY <1>7, <2>1, <2>2
  <2>5. v \in Nat /\ c \in Nat BY <1>6
  <2> HIDE DEF v, c
  <2> QED BY <2>4, <2>5
<1>9. /\ Grows(fromNM, f) /\ Signal("removed", a) \in Range(f) /\ f \in Seq(Messages)
      /\ Cardinality(Sigs(f)) = Cardinality(Sigs(fromNM)) + 1
      BY <1>1, GrowsOne DEF Signals
<1>a. Signal("removed", a) \in Messages /\ Signal("connections", a) \in Messages
      BY SignalTyped DEF Signals
<1>10. fromNM' = IF active = a THEN Append(f, Signal("connections", a)) ELSE f
  <2>1. fromNM \o <<Signal("removed", a)>> = f BY <1>1, <1>a
  <2> HIDE DEF f
  <2>2. f \o <<>> = f /\ f \o <<Signal("connections", a)>> = Append(f, Signal("connections", a))
        BY <1>9, <1>a
  <2>3. CASE active = a BY <1>1, <2>1, <2>2, <2>3
  <2>4. CASE active # a BY <1>1, <2>1, <2>2, <2>4
  <2> QED BY <2>3, <2>4
<1>11. /\ Grows(fromNM, fromNM') /\ Signal("removed", a) \in Range(fromNM')
       /\ Cardinality(Sigs(fromNM')) = Cardinality(Sigs(fromNM)) + n
  <2>1. CASE active # a BY <1>9, <1>10, <2>1
  <2>2. CASE active = a
    <3> HIDE DEF f
    <3> DEFINE g == Append(f, Signal("connections", a))
    <3>1. Grows(f, g) /\ Cardinality(Sigs(g)) = Cardinality(Sigs(f)) + 1
          BY <1>9, GrowsOne DEF Signals
    <3>2. fromNM' = g BY <1>10, <2>2
    <3> HIDE DEF g
    <3>3. Grows(fromNM, g) BY <1>9, <3>1, GrowsTwice
    <3>4. Signal("removed", a) \in Range(g) BY <1>9, <3>1 DEF Grows
    <3>5. Cardinality(Sigs(g)) = Cardinality(Sigs(fromNM)) + 2
      <4>1. Cardinality(Sigs(fromNM)) \in Nat BY <1>1, SigsFinite
      <4> QED BY <1>9, <3>1, <4>1
    <3> QED BY <2>2, <3>2, <3>3, <3>4, <3>5
  <2> QED BY <2>1, <2>2
<1>12. \E m \in Range(fromNM') : m.of = 0 /\ m.kind \in {"added", "removed"}
      BY <1>11, SignalTyped DEF Signals
<1>13. n \in Nat OBVIOUS
<1> HIDE DEF gone, f, n
<1> QED BY <1>1, <1>2, <1>3, <1>8, <1>11, <1>12, <1>13 DEF SignalsCome

LEMMA ActivateComes ==
  ASSUME TypeOK, NEW a \in Aps \cup {None}, Activate(a)
  PROVE  SignalsCome
<1>1. /\ RoomFor(1) /\ fromNM' = Append(fromNM, Signal("connections", a))
      /\ active' = a /\ ap_state' = ap_state /\ fromNM \in Seq(Messages)
      BY DEF Activate, TypeOK
<1>2. UNCHANGED <<hidden, toNM, task, ready, lockq, cache, services, table_at, announced>>
      BY DEF Activate, loopVars, tableVars
<1>3. ap_state' \in [Aps -> {"new", "visible", "gone"}] /\ active' \in Aps \cup {None}
      BY <1>1 DEF TypeOK
<1>4. /\ Grows(fromNM, fromNM')
      /\ Cardinality(Sigs(fromNM')) = Cardinality(Sigs(fromNM)) + 1
      BY <1>1, GrowsOne DEF Signals
<1> QED BY <1>1, <1>2, <1>3, <1>4 DEF SignalsCome

LEMMA ChangesCome == ASSUME TypeOK, Changes PROVE SignalsCome
<1>1. (Visible \ hidden) \cup {None} \subseteq Aps \cup {None} BY DEF Visible
<1> QED BY <1>1, AppearComes, VanishComes, ActivateComes DEF Changes

\* What the steps that only move messages leave alone.
Same == UNCHANGED <<ap_state, hidden, active, lockq, services, table_at, announced>>

\* The question q is answered with m.
Answers(q, m) ==
  /\ toNM # <<>> /\ q = Head(toNM) /\ toNM' = Tail(toNM)
  /\ m \in Messages /\ m.of = q.of /\ m.kind = q.kind /\ fromNM' = Append(fromNM, m)
  /\ m.kind = "list" => m.aps = Visible /\ m.age = Age
  /\ m.kind = "properties" => (m.ok <=> q.ap \in Visible)
  /\ Same /\ UNCHANGED <<task, ready, cache>>

\* GetServices starts the coroutine t.
Calls(t) ==
  Spawned("call", t) /\ RoomFor(1) /\ Same /\ UNCHANGED <<toNM, fromNM, cache>>

\* A signal starts the coroutine t.
Hears(t) ==
  /\ Spawned("emit", t) /\ fromNM # <<>> /\ Head(fromNM).of = 0 /\ fromNM' = Tail(fromNM)
  /\ Same /\ toNM' = toNM /\ cache' \subseteq Aps

\* The coroutine t gets its answer m.
Gets(t, m) ==
  /\ fromNM # <<>> /\ m = Head(fromNM) /\ t = m.of /\ t # 0 /\ fromNM' = Tail(fromNM)
  /\ task' = [task EXCEPT ![t].got = m] /\ ready' = Append(ready, t)
  /\ Same /\ UNCHANGED <<toNM, cache>>

\* Answer, Call and Receive are of these shapes.
LEMMA AnswerIs == ASSUME TypeOK, Answer PROVE \E q \in Questions, m \in Messages : Answers(q, m)
<1> DEFINE q == Head(toNM)
           m == Message(q.kind, q.of, IF q.kind = "list" THEN Visible ELSE {},
                        q.kind = "properties" => q.ap \in Visible,
                        IF q.kind = "active" THEN active ELSE q.ap,
                        IF q.kind = "list" THEN Age ELSE 0)
<1>1. toNM # <<>> /\ toNM' = Tail(toNM) /\ fromNM' = Append(fromNM, m) BY DEF Answer
<1>2. q \in Questions
  <2>1. toNM \in Seq(Questions) BY DEF TypeOK
  <2> QED BY <1>1, <2>1, TailOf
<1>3. Age \in Nat /\ Visible \subseteq Aps /\ active \in Aps \cup {None}
      BY AgeNat DEF Visible, TypeOK
<1>4. /\ m.of = q.of /\ m.kind = q.kind
      /\ m.kind = "list" => m.aps = Visible /\ m.age = Age
      /\ m.kind = "properties" => (m.ok <=> q.ap \in Visible)
      BY DEF Message
<1>5. m \in Messages
  <2> HIDE DEF q
  <2> QED BY <1>2, <1>3 DEF Message, Messages, Questions
<1>6. Same /\ UNCHANGED <<task, ready, cache>>
      BY DEF Answer, nmVars, loopVars, tableVars, Same
<1> HIDE DEF m
<1>7. Answers(q, m) BY <1>1, <1>4, <1>5, <1>6 DEF Answers
<1> QED BY <1>2, <1>5, <1>7

LEMMA CallIs == ASSUME TypeOK, Call PROVE \E t \in TaskIds : Calls(t)
<1>1. RoomFor(1) /\ Spawn("call") BY DEF Call
<1>2. PICK t \in TaskIds : Spawned("call", t) BY <1>1, RoomFree, SpawnIs
<1>3. Same /\ UNCHANGED <<toNM, fromNM, cache>> BY DEF Call, nmVars, tableVars, Same
<1>4. Calls(t) BY <1>1, <1>2, <1>3 DEF Calls
<1> QED BY <1>4

LEMMA ReceiveIs ==
  ASSUME TypeOK, RoomInv, AnsweredInv, Receive
  PROVE  (\E t \in TaskIds : Hears(t)) \/ (\E t \in TaskIds, m \in Messages : Gets(t, m))
<1> DEFINE m == Head(fromNM)
<1>1. /\ fromNM # <<>> /\ fromNM' = Tail(fromNM)
      /\ \/ m.of = 0 /\ OnSignal(m)
         \/ /\ m.of # 0 /\ UNCHANGED cache
            /\ task' = [task EXCEPT ![m.of].got = m] /\ ready' = Append(ready, m.of)
      BY DEF Receive
<1>2. m \in Messages /\ m \in Range(fromNM)
  <2>1. fromNM \in Seq(Messages) BY DEF TypeOK
  <2> QED BY <1>1, <2>1, TailOf, TailRange
<1>3. Same /\ toNM' = toNM BY DEF Receive, nmVars, tableVars, Same
<1>4. CASE m.of = 0 /\ OnSignal(m)
  <2>1. Refreshes(m) BY <1>2, <1>4 DEF AnsweredInv, Refreshes, Signals
  <2>2. Spawn("emit") /\ cache' \subseteq Aps BY <1>4, <2>1 DEF OnSignal, TypeOK
  <2>3. FreeIds # {} BY <1>1, <1>4, RoomFree
  <2>4. PICK t \in TaskIds : Spawned("emit", t) BY <2>2, <2>3, SpawnIs
  <2>5. Hears(t) BY <1>1, <1>3, <1>4, <2>2, <2>4 DEF Hears
  <2> QED BY <2>5
<1>5. CASE /\ m.of # 0 /\ UNCHANGED cache
           /\ task' = [task EXCEPT ![m.of].got = m] /\ ready' = Append(ready, m.of)
  <2>1. m.of \in TaskIds BY <1>2, <1>5 DEF Messages
  <2> HIDE DEF m
  <2>2. m = Head(fromNM) BY DEF m
  <2>3. Gets(m.of, m) BY <1>1, <1>3, <1>5, <2>2 DEF Gets
  <2> QED BY <1>2, <2>1, <2>3
<1> QED BY <1>1, <1>4, <1>5

-----------------------------------------------------------------------------
(* Types, and the bound. *)

\* The types after the steps that only move messages.
LEMMA TypedBy ==
  ASSUME Typed', toNM' \in Seq(Questions), fromNM' \in Seq(Messages), ready' \in Seq(TaskIds),
         lockq' \in Seq(TaskIds), task' \in [TaskIds -> Tasks], table_at' \in Nat \cup {-1}
  PROVE  TypeOK'
BY DEF TypeOK, Typed

LEMMA SameTyped ==
  ASSUME TypeOK, Same, cache' \subseteq Aps
  PROVE  Typed' /\ lockq' \in Seq(TaskIds) /\ table_at' \in Nat \cup {-1}
BY DEF TypeOK, Typed, Same

LEMMA SignalsType == ASSUME TypeOK, SignalsCome PROVE TypeOK'
<1>1. fromNM' \in Seq(Messages) BY DEF SignalsCome, Grows
<1>2. /\ UNCHANGED <<hidden, toNM, task, ready, lockq, cache, services, table_at>>
      /\ ap_state' \in [Aps -> {"new", "visible", "gone"}] /\ active' \in Aps \cup {None}
      BY DEF SignalsCome
<1> QED BY <1>1, <1>2 DEF TypeOK

LEMMA AnswersType == ASSUME TypeOK, NEW q, NEW m, Answers(q, m) PROVE TypeOK'
<1>1. /\ toNM # <<>> /\ toNM' = Tail(toNM) /\ m \in Messages /\ fromNM' = Append(fromNM, m)
      /\ UNCHANGED <<task, ready, cache>> /\ Same
      BY DEF Answers
<1>2. /\ toNM \in Seq(Questions) /\ fromNM \in Seq(Messages) /\ cache \subseteq Aps
      /\ task \in [TaskIds -> Tasks] /\ ready \in Seq(TaskIds)
      BY DEF TypeOK
<1>3. toNM' \in Seq(Questions) /\ fromNM' \in Seq(Messages) BY <1>1, <1>2, TailOf, AppendOf
<1> QED BY <1>1, <1>2, <1>3, SameTyped, TypedBy

LEMMA SpawnedTyped ==
  ASSUME TypeOK, NEW kind \in {"call", "emit"}, NEW t, Spawned(kind, t)
  PROVE  task' \in [TaskIds -> Tasks] /\ ready' \in Seq(TaskIds)
<1>1. Task(kind, "start") \in Tasks BY TaskTyped
<1>2. t \in TaskIds /\ ready' = Append(ready, t) /\ task' = [task EXCEPT ![t] = Task(kind, "start")]
      BY DEF Spawned
<1>3. ready \in Seq(TaskIds) /\ task \in [TaskIds -> Tasks] BY DEF TypeOK
<1> QED BY <1>1, <1>2, <1>3, AppendOf

LEMMA CallsType == ASSUME TypeOK, NEW t, Calls(t) PROVE TypeOK'
<1>1. Spawned("call", t) /\ Same /\ UNCHANGED <<toNM, fromNM, cache>> BY DEF Calls
<1>2. toNM' \in Seq(Questions) /\ fromNM' \in Seq(Messages) /\ cache' \subseteq Aps
      BY <1>1 DEF TypeOK
<1> QED BY <1>1, <1>2, SpawnedTyped, SameTyped, TypedBy

LEMMA HearsType == ASSUME TypeOK, NEW t, Hears(t) PROVE TypeOK'
<1>1. /\ Spawned("emit", t) /\ Same /\ fromNM # <<>> /\ fromNM' = Tail(fromNM)
      /\ toNM' = toNM /\ cache' \subseteq Aps
      BY DEF Hears
<1>2. toNM' \in Seq(Questions) /\ fromNM \in Seq(Messages) BY <1>1 DEF TypeOK
<1>3. fromNM' \in Seq(Messages) BY <1>1, <1>2, TailOf
<1> QED BY <1>1, <1>2, <1>3, SpawnedTyped, SameTyped, TypedBy

\* What the coroutine holds that got an answer.
LEMMA Got ==
  ASSUME TypeOK, NEW t, NEW m, Gets(t, m)
  PROVE  /\ m \in Messages /\ m \in Range(fromNM) /\ t \in TaskIds /\ t = m.of /\ t # 0
         /\ task' \in [TaskIds -> Tasks] /\ task'[t] = [task[t] EXCEPT !.got = m]
         /\ \A u \in TaskIds : u # t => task'[u] = task[u]
<1>1. /\ fromNM # <<>> /\ m = Head(fromNM) /\ t = m.of /\ t # 0
      /\ task' = [task EXCEPT ![t].got = m]
      BY DEF Gets
<1>2. fromNM \in Seq(Messages) /\ task \in [TaskIds -> Tasks] BY DEF TypeOK
<1>3. m \in Messages /\ m \in Range(fromNM) BY <1>1, <1>2, TailOf, TailRange
<1>4. t \in TaskIds BY <1>1, <1>3 DEF Messages
<1>5. [task[t] EXCEPT !.got = m] \in Tasks BY <1>2, <1>3, <1>4 DEF Tasks
<1> QED BY <1>1, <1>2, <1>3, <1>4, <1>5

LEMMA GetsType == ASSUME TypeOK, NEW t, NEW m, Gets(t, m) PROVE TypeOK'
<1>1. /\ Same /\ fromNM # <<>> /\ fromNM' = Tail(fromNM) /\ ready' = Append(ready, t)
      /\ UNCHANGED <<toNM, cache>>
      BY DEF Gets
<1>2. /\ toNM' \in Seq(Questions) /\ fromNM \in Seq(Messages) /\ ready \in Seq(TaskIds)
      /\ cache' \subseteq Aps
      BY <1>1 DEF TypeOK
<1>3. fromNM' \in Seq(Messages) BY <1>1, <1>2, TailOf
<1>4. ready' \in Seq(TaskIds) BY <1>1, <1>2, Got, AppendOf
<1> QED BY <1>1, <1>2, <1>3, <1>4, Got, SameTyped, TypedBy

\* A coroutine that runs is alive before the step: no more are alive after it.
LEMMA AliveShrinks ==
  ASSUME FreeIds \subseteq FreeIds'
  PROVE  Cardinality(Alive') <= Cardinality(Alive) /\ Cardinality(Alive') \in Nat
<1> DEFINE b == Alive'
<1>1. b \in SUBSET Alive BY DEF Alive, TaskIds
<1> HIDE DEF b
<1>2. Cardinality(b) <= Cardinality(Alive) /\ Cardinality(b) \in Nat
      BY <1>1, AliveFinite, FS_Subset, FS_CardinalityType
<1> QED BY <1>2 DEF b

LEMMA RoomIsPrimed ==
  RoomInv' <=> Cardinality(Alive') + Cardinality(Sigs(fromNM')) + 0 <= MaxTasks
BY DEF RoomInv, RoomFor, Alive, Sigs, TaskIds

\* With no more coroutines and signals there is room still.
LEMMA RoomKept ==
  ASSUME TypeOK, RoomInv, FreeIds \subseteq FreeIds', fromNM' \in Seq(Messages),
         Cardinality(Sigs(fromNM')) <= Cardinality(Sigs(fromNM))
  PROVE  RoomInv'
<1> DEFINE a == Cardinality(Alive)  b == Cardinality(Alive')
           c == Cardinality(Sigs(fromNM))  d == Cardinality(Sigs(fromNM'))
<1>1. a \in Nat /\ b \in Nat /\ b <= a BY AliveFinite, AliveShrinks
<1>2. c \in Nat BY SigsFinite DEF TypeOK
<1>3. d \in Nat /\ d <= c BY SigsFinite
<1>4. a + c + 0 <= MaxTasks BY RoomIs DEF RoomInv
<1>5. RoomInv' <=> b + d + 0 <= MaxTasks BY RoomIsPrimed
<1> HIDE DEF a, b, c, d
<1> QED BY <1>1, <1>2, <1>3, <1>4, <1>5, Bounds

\* Coroutines and signals stay within the bound.
LEMMA WritesRoom ==
  ASSUME TypeOK, RoomInv, ReadyInv, NEW k, Writes(k), fromNM' = fromNM
  PROVE  RoomInv'
<1>1. ready # <<>> BY DEF Writes
<1>2. This \in Range(ready) /\ This \in TaskIds /\ Me.at # "free"
      BY <1>1, ThisTyped DEF ReadyInv, Me
<1>3. \A t \in TaskIds : task[t] = Free => t # This BY <1>2, FreeTyped DEF Me
<1>4. FreeIds \subseteq FreeIds' BY <1>3, Written DEF FreeIds
<1>5. fromNM' \in Seq(Messages) /\ Cardinality(Sigs(fromNM)) \in Nat BY SigsFinite DEF TypeOK
<1>6. Cardinality(Sigs(fromNM')) <= Cardinality(Sigs(fromNM)) BY <1>5
<1> QED BY <1>4, <1>5, <1>6, RoomKept

LEMMA SignalsRoom == ASSUME TypeOK, RoomInv, SignalsCome PROVE RoomInv'
<1>1. /\ task' = task
      /\ \E n \in Nat : RoomFor(n) /\ Cardinality(Sigs(fromNM')) = Cardinality(Sigs(fromNM)) + n
      BY DEF SignalsCome
<1>2. PICK n \in Nat : RoomFor(n) /\ Cardinality(Sigs(fromNM')) = Cardinality(Sigs(fromNM)) + n
      BY <1>1
<1>3. Alive' = Alive BY <1>1 DEF Alive, FreeIds, TaskIds
<1> DEFINE a == Cardinality(Alive)  c == Cardinality(Sigs(fromNM))
<1>4. a + c + n <= MaxTasks BY <1>2, RoomIs
<1>5. RoomInv' <=> a + (c + n) + 0 <= MaxTasks BY <1>2, <1>3, RoomIsPrimed
<1>6. a \in Nat /\ c \in Nat BY AliveFinite, SigsFinite DEF TypeOK
<1> HIDE DEF a, c
<1> QED BY <1>4, <1>5, <1>6, Bounds

LEMMA AnswersRoom ==
  ASSUME TypeOK, RoomInv, NEW q \in Questions, NEW m \in Messages, Answers(q, m)
  PROVE  RoomInv'
<1>1. fromNM \in Seq(Messages) /\ fromNM' = Append(fromNM, m) /\ task' = task /\ m.of = q.of
      BY DEF TypeOK, Answers
<1>2. m.of # 0 BY <1>1, Bounds DEF Questions
<1>3. Cardinality(Sigs(fromNM')) = Cardinality(Sigs(fromNM)) + 0 BY <1>1, <1>2, SigsAppend
<1>4. fromNM' \in Seq(Messages) BY <1>1, AppendOf
<1>5. FreeIds \subseteq FreeIds' BY <1>1 DEF FreeIds, TaskIds
<1>6. Cardinality(Sigs(fromNM)) \in Nat BY <1>1, SigsFinite
<1>7. Cardinality(Sigs(fromNM')) <= Cardinality(Sigs(fromNM)) BY <1>3, <1>6
<1> QED BY <1>4, <1>5, <1>7, RoomKept

\* One more coroutine, one signal less, or room for one.
LEMMA SpawnedRoom ==
  ASSUME TypeOK, NEW kind, NEW t, Spawned(kind, t), fromNM' \in Seq(Messages),
         Cardinality(Alive) + Cardinality(Sigs(fromNM')) + 1 <= MaxTasks
  PROVE  RoomInv'
<1>1. t \in TaskIds /\ task' = [task EXCEPT ![t] = Task(kind, "start")] /\ task \in [TaskIds -> Tasks]
      BY DEF Spawned, TypeOK
<1> DEFINE b == Alive'
<1>2. b \subseteq Alive \cup {t} BY <1>1 DEF Alive, FreeIds, TaskIds
<1>3. IsFiniteSet(Alive) /\ Cardinality(Alive) \in Nat BY AliveFinite
<1>4. IsFiniteSet(Alive \cup {t}) /\ Cardinality(Alive \cup {t}) \in Nat
      /\ Cardinality(Alive \cup {t}) <= Cardinality(Alive) + 1
  <2> DEFINE a == Cardinality(Alive)  e == Cardinality(Alive \cup {t})
  <2>1. IsFiniteSet(Alive \cup {t}) /\ (e = a \/ e = a + 1) BY <1>3, FS_AddElement
  <2>2. a \in Nat BY <1>3
  <2> HIDE DEF a, e
  <2>3. e \in Nat /\ e <= a + 1 BY <2>1, <2>2
  <2> QED BY <2>1, <2>3 DEF a, e
<1> HIDE DEF b
<1>5. Cardinality(b) <= Cardinality(Alive \cup {t}) /\ Cardinality(b) \in Nat
      BY <1>2, <1>4, FS_Subset, FS_CardinalityType
<1> DEFINE a == Cardinality(Alive)  d == Cardinality(Sigs(fromNM'))  e == Cardinality(b)
<1>6. a \in Nat /\ d \in Nat /\ e \in Nat /\ e <= a + 1 BY <1>3, <1>4, <1>5, SigsFinite
<1>7. a + d + 1 <= MaxTasks OBVIOUS
<1>8. RoomInv' <=> e + d + 0 <= MaxTasks BY RoomIsPrimed DEF b
<1> HIDE DEF a, d, e
<1> QED BY <1>6, <1>7, <1>8, Bounds

LEMMA CallsRoom == ASSUME TypeOK, RoomInv, NEW t, Calls(t) PROVE RoomInv'
<1>1. Spawned("call", t) /\ RoomFor(1) /\ fromNM' = fromNM BY DEF Calls
<1>2. Cardinality(Alive) + Cardinality(Sigs(fromNM')) + 1 <= MaxTasks BY <1>1, RoomIs
<1>3. fromNM' \in Seq(Messages) BY <1>1 DEF TypeOK
<1> QED BY <1>1, <1>2, <1>3, SpawnedRoom

LEMMA HearsRoom == ASSUME TypeOK, RoomInv, NEW t, Hears(t) PROVE RoomInv'
<1>1. /\ Spawned("emit", t) /\ fromNM # <<>> /\ Head(fromNM).of = 0 /\ fromNM' = Tail(fromNM)
      /\ fromNM \in Seq(Messages)
      BY DEF Hears, TypeOK
<1> DEFINE a == Cardinality(Alive)  c == Cardinality(Sigs(fromNM))  d == Cardinality(Sigs(fromNM'))
<1>2. c = d + 1 BY <1>1, SigsTail
<1>3. fromNM' \in Seq(Messages) BY <1>1, TailOf
<1>4. a \in Nat /\ d \in Nat BY <1>3, AliveFinite, SigsFinite
<1>5. a + c + 0 <= MaxTasks BY RoomIs DEF RoomInv
<1>6. a + d + 1 <= MaxTasks
  <2> HIDE DEF a, c, d
  <2> QED BY <1>2, <1>4, <1>5, Bounds
<1> QED BY <1>1, <1>3, <1>6, SpawnedRoom

LEMMA GetsRoom ==
  ASSUME TypeOK, RoomInv, AnsweredInv, NEW t, NEW m, Gets(t, m)
  PROVE  RoomInv'
<1>1. fromNM # <<>> /\ m = Head(fromNM) /\ fromNM' = Tail(fromNM) /\ fromNM \in Seq(Messages)
      BY DEF Gets, TypeOK
<1>b. /\ m \in Messages /\ m \in Range(fromNM) /\ t \in TaskIds /\ t = m.of /\ t # 0
      /\ task' \in [TaskIds -> Tasks] /\ task'[t] = [task[t] EXCEPT !.got = m]
      /\ \A u \in TaskIds : u # t => task'[u] = task[u]
      BY Got
<1>2. task[t].at \in Waits BY <1>b DEF AnsweredInv
<1>3. \A u \in TaskIds : task[u] = Free => u # t BY <1>b, <1>2, FreeTyped DEF Waits
<1>4. FreeIds \subseteq FreeIds' BY <1>3, <1>b DEF FreeIds
<1>5. Cardinality(Sigs(fromNM)) = Cardinality(Sigs(fromNM')) + 0 BY <1>1, <1>b, SigsTail
<1>6. fromNM' \in Seq(Messages) BY <1>1, TailOf
<1>7. Cardinality(Sigs(fromNM')) \in Nat BY <1>6, SigsFinite
<1>8. Cardinality(Sigs(fromNM')) <= Cardinality(Sigs(fromNM)) BY <1>5, <1>7
<1> QED BY <1>4, <1>6, <1>8, RoomKept

-----------------------------------------------------------------------------
(* Every coroutine stays in one place. *)

\* Where the running coroutine is: at the head of the loop's queue and nowhere else.
LEMMA ThisPlace ==
  ASSUME TypeOK, Places, ready # <<>>
  PROVE  /\ This \in TaskIds /\ Me \in Tasks /\ task[This] = Me /\ Me.at # "free"
         /\ Tail(ready) \in Seq(TaskIds) /\ Distinct(Tail(ready)) /\ This \notin Range(Tail(ready))
         /\ Range(Tail(ready)) \subseteq Range(ready) /\ Range(ready) = Range(Tail(ready)) \cup {This}
         /\ ~Waited(toNM, This) /\ ~Waited(fromNM, This) /\ This # 0
         /\ (Me.at \in Holding => lockq # <<>> /\ lockq[1] = This)
         /\ (Me.at \in Holding <=> This \in Range(lockq))
<1>1. ready \in Seq(TaskIds) BY DEF TypeOK
<1>2. /\ This \in TaskIds /\ Me \in Tasks /\ This \in Range(ready) /\ This # 0
      /\ Tail(ready) \in Seq(TaskIds) /\ task[This] = Me
      /\ Range(ready) = Range(Tail(ready)) \cup {This}
      BY ThisTyped DEF Me
<1>3. Distinct(Tail(ready)) /\ This \notin Range(Tail(ready))
      BY <1>1, DistinctTail DEF Places, ReadyInv, This
<1>4. ~Waited(toNM, This) BY <1>2 DEF Waited, Places, AskedInv
<1>5. ~Waited(fromNM, This) BY <1>2 DEF Waited, Places, AnsweredInv
<1>6. Me.at # "free" BY <1>2 DEF Places, ReadyInv
<1>7. Me.at \in Holding => lockq # <<>> /\ lockq[1] = This BY Holder DEF Places
<1>8. Me.at \in Holding <=> This \in Range(lockq) BY <1>2 DEF Places, LockInv
<1> QED BY <1>2, <1>3, <1>4, <1>5, <1>6, <1>7, <1>8

\* A coroutine is in one place still, after each step.
LEMMA QueuesTyped ==
  ASSUME TypeOK
  PROVE  /\ \A q \in Range(toNM) : q \in Questions /\ q.of \in TaskIds /\ q.of # 0
         /\ \A m \in Range(fromNM) : m \in Messages /\ (m.of # 0 => m.of \in TaskIds)
         /\ Range(ready) \subseteq TaskIds /\ Range(lockq) \subseteq TaskIds
<1>1. \A q \in Range(toNM) : q \in Questions BY DEF TypeOK, Range
<1>2. \A m \in Range(fromNM) : m \in Messages BY DEF TypeOK, Range
<1>3. Range(ready) \subseteq TaskIds /\ Range(lockq) \subseteq TaskIds BY DEF TypeOK, Range
<1> QED BY <1>1, <1>2, <1>3, Bounds DEF Questions, Messages

\* It leaves the loop's queue for its question.
LEMMA AsksPlaces ==
  ASSUME TypeOK, Places, NEW k \in Tasks, NEW q \in Questions, Asks(k, q)
  PROVE  Places'
<1>1. /\ Writes(k) /\ ready # <<>> /\ fromNM' = fromNM /\ k.at \in Waits
      /\ k.at # "listing" => k.ap \in Aps
      /\ q.of = This /\ q.kind = Awaited[k.at]
      /\ k.at = "reading" => q.ap = k.ap
      /\ \/ Me.at = "start" /\ k.at = "listing" /\ k.current = Me.current
         \/ Me.at \in Working /\ k.at \in Working
      /\ ready' = Tail(ready) /\ toNM' = Append(toNM, q) /\ lockq' = lockq
      BY DEF Asks, Becomes, Writes
<1>2. /\ task'[This] = k /\ \A t \in TaskIds : t # This => task'[t] = task[t]
      BY <1>1, Written
<1>3. /\ This \in TaskIds /\ task[This] = Me /\ Distinct(Tail(ready)) /\ This \notin Range(Tail(ready))
      /\ Range(Tail(ready)) \subseteq Range(ready) /\ ~Waited(toNM, This) /\ ~Waited(fromNM, This)
      /\ (Me.at \in Holding => lockq # <<>> /\ lockq[1] = This)
      /\ (Me.at \in Holding <=> This \in Range(lockq))
      BY <1>1, ThisPlace
<1>4. FreeInv'
  <2>1. Me.at = "start" => k.current = {} BY <1>1, <1>3 DEF Places, FreeInv, Working
  <2>2. /\ k.at # "free" /\ (k.at \in {"start", "listing", "locked"} => k.current = {})
        /\ (k.at \in Waits \ {"listing"} => k.ap \in Aps)
        BY <1>1, <2>1 DEF Waits, Working
  <2> QED BY <1>2, <1>3, <2>2 DEF Places, FreeInv
<1>5. ReadyInv'
      BY <1>1, <1>2, <1>3, QueuesTyped DEF Places, ReadyInv
<1>6. AskedInv'
  <2>1. OneEach(toNM') /\ Range(toNM') = Range(toNM) \cup {q}
    <3>1. toNM \in Seq(Questions) /\ OneEach(toNM) /\ ~Waited(toNM, q.of)
          BY <1>1, <1>3 DEF TypeOK, Places, AskedInv
    <3> QED BY <1>1, <3>1, OneEachAppend, AppendRange
  <2>2. ASSUME NEW p \in Range(toNM)
        PROVE  /\ task'[p.of].at \in Waits /\ p.kind = Awaited[task'[p.of].at]
               /\ task'[p.of].at = "reading" => p.ap = task'[p.of].ap
               /\ ~Waited(fromNM', p.of) /\ p.of \notin Range(ready')
    <3>1. p.of \in TaskIds /\ p.of # This BY <1>3, QueuesTyped DEF Waited
    <3> QED BY <1>1, <1>2, <1>3, <3>1 DEF Places, AskedInv
  <2>3. /\ task'[q.of].at \in Waits /\ q.kind = Awaited[task'[q.of].at]
        /\ task'[q.of].at = "reading" => q.ap = task'[q.of].ap
        /\ ~Waited(fromNM', q.of) /\ q.of \notin Range(ready')
        BY <1>1, <1>2, <1>3
  <2> QED BY <2>1, <2>2, <2>3 DEF AskedInv
<1>7. AnsweredInv'
  <2>1. ASSUME NEW m \in Range(fromNM), m.of # 0 PROVE m.of \in TaskIds /\ m.of # This
        BY <1>3, <2>1, QueuesTyped DEF Waited
  <2> QED BY <1>1, <1>2, <1>3, <2>1 DEF Places, AnsweredInv
<1>8. LockInv'
  <2>1. k.at \in Holding <=> Me.at \in Holding
        BY <1>1 DEF Holding, Working
  <2>2. \A t \in TaskIds : task'[t].at \in Holding <=> t \in Range(lockq)
        BY <1>2, <1>3, <2>1 DEF Places, LockInv
  <2>3. \A t \in Range(lockq) : t # lockq[1] => task'[t].at = "locked" /\ t \notin Range(ready')
        BY <1>1, <1>2, <1>3, QueuesTyped DEF Places, LockInv
  <2> QED BY <1>1, <2>2, <2>3 DEF Places, LockInv
<1> QED BY <1>4, <1>5, <1>6, <1>7, <1>8 DEF Places

\* It stays where it is, and holds the lock.
LEMMA GoesOnPlaces ==
  ASSUME TypeOK, Places, NEW k \in Tasks, GoesOn(k)
  PROVE  Places'
<1>1. /\ Writes(k) /\ ready # <<>> /\ k.at = "next" /\ UNCHANGED <<ready, toNM, fromNM>>
      /\ \/ Me.at \in Holding /\ lockq' = lockq
         \/ Me.at = "listing" /\ lockq = <<>> /\ lockq' = <<This>>
      BY DEF GoesOn, Becomes, Writes
<1>2. /\ task'[This] = k /\ \A t \in TaskIds : t # This => task'[t] = task[t]
      BY <1>1, Written
<1>3. /\ This \in TaskIds /\ task[This] = Me /\ ~Waited(toNM, This) /\ ~Waited(fromNM, This)
      /\ (Me.at \in Holding => lockq # <<>> /\ lockq[1] = This)
      /\ (Me.at \in Holding <=> This \in Range(lockq)) /\ This \in Range(ready)
      BY <1>1, ThisPlace
<1>4. FreeInv' BY <1>1, <1>2, <1>3 DEF Places, FreeInv, Waits
<1>5. ReadyInv'
  <2>1. ASSUME NEW t \in Range(ready), t # This
        PROVE  task'[t].at # "free" /\ (task'[t].at = "locked" => lockq' # <<>> /\ lockq'[1] = t)
        BY <1>1, <1>2, <1>3, <2>1, QueuesTyped DEF Places, ReadyInv
  <2>2. task'[This].at # "free" /\ task'[This].at # "locked" BY <1>1, <1>2
  <2>3. Distinct(ready) BY DEF Places, ReadyInv
  <2> QED BY <1>1, <2>1, <2>2, <2>3 DEF ReadyInv
<1>6. AskedInv'
  <2>1. \A p \in Range(toNM) : p.of \in TaskIds /\ p.of # This BY <1>3, QueuesTyped DEF Waited
  <2> QED BY <1>1, <1>2, <2>1 DEF Places, AskedInv
<1>7. AnsweredInv'
  <2>1. ASSUME NEW m \in Range(fromNM), m.of # 0 PROVE m.of \in TaskIds /\ m.of # This
        BY <1>3, <2>1, QueuesTyped DEF Waited
  <2> QED BY <1>1, <1>2, <1>3, <2>1 DEF Places, AnsweredInv
<1>8. LockInv'
  <2>1. CASE Me.at \in Holding /\ lockq' = lockq
    <3>1. \A t \in TaskIds : task'[t].at \in Holding <=> t \in Range(lockq)
          BY <1>1, <1>2, <1>3, <2>1 DEF Places, LockInv, Holding, Working
    <3>2. \A t \in Range(lockq) : t # lockq[1] => task'[t].at = "locked" /\ t \notin Range(ready')
          BY <1>1, <1>2, <1>3, <2>1, QueuesTyped DEF Places, LockInv
    <3> QED BY <2>1, <3>1, <3>2 DEF Places, LockInv
  <2>2. CASE Me.at = "listing" /\ lockq = <<>> /\ lockq' = <<This>>
    <3>1. Range(lockq) = {} BY <2>2 DEF Range
    <3>2. Range(<<This>>) = {This} /\ <<This>>[1] = This BY DEF Range
    <3>3. Distinct(<<This>>) BY DEF Distinct
    <3>4. \A t \in TaskIds : task'[t].at \in Holding <=> t = This
          BY <1>1, <1>2, <1>3, <3>1 DEF Places, LockInv, Holding, Working
    <3> HIDE DEF Range
    <3> QED BY <1>1, <2>2, <3>2, <3>3, <3>4 DEF LockInv
  <2> QED BY <1>1, <2>1, <2>2
<1> QED BY <1>4, <1>5, <1>6, <1>7, <1>8 DEF Places

\* It leaves the loop's queue for the lock's.
LEMMA WaitsPlaces ==
  ASSUME TypeOK, Places, NEW k \in Tasks, WaitsForLock(k)
  PROVE  Places'
<1>1. /\ Writes(k) /\ ready # <<>> /\ k.at = "locked" /\ UNCHANGED <<toNM, fromNM>>
      /\ Me.at = "listing" /\ lockq # <<>> /\ lockq' = Append(lockq, This) /\ ready' = Tail(ready)
      BY DEF WaitsForLock, Becomes, Writes
<1>2. /\ task'[This] = k /\ \A t \in TaskIds : t # This => task'[t] = task[t]
      BY <1>1, Written
<1>3. /\ This \in TaskIds /\ task[This] = Me /\ Distinct(Tail(ready)) /\ This \notin Range(Tail(ready))
      /\ Range(Tail(ready)) \subseteq Range(ready) /\ ~Waited(toNM, This) /\ ~Waited(fromNM, This)
      /\ (Me.at \in Holding <=> This \in Range(lockq)) /\ lockq \in Seq(TaskIds)
      BY <1>1, ThisPlace DEF TypeOK
<1>4. FreeInv'
  <2>1. k.current = {} BY <1>1, <1>3 DEF WaitsForLock, Places, FreeInv
  <2> QED BY <1>1, <1>2, <1>3, <2>1 DEF Places, FreeInv, Waits
<1>a. This \notin Range(lockq) BY <1>1, <1>3 DEF Holding, Working
<1>b. /\ Range(lockq') = Range(lockq) \cup {This} /\ lockq'[1] = lockq[1] /\ lockq' # <<>>
      /\ Distinct(lockq')
  <2>1. 1 \in DOMAIN lockq BY <1>1, <1>3, TailOf
  <2>2. lockq'[1] = lockq[1] BY <1>1, <1>3, <2>1, AppendOf
  <2>3. Range(lockq') = Range(lockq) \cup {This} BY <1>1, <1>3, AppendRange
  <2>4. Distinct(lockq') BY <1>1, <1>3, <1>a, DistinctAppend DEF Places, LockInv
  <2>5. lockq' # <<>> BY <1>1, <1>3
  <2> QED BY <2>2, <2>3, <2>4, <2>5
<1>5. ReadyInv'
      BY <1>1, <1>2, <1>3, <1>b, QueuesTyped DEF Places, ReadyInv
<1>6. AskedInv'
  <2>1. \A p \in Range(toNM) : p.of \in TaskIds /\ p.of # This BY <1>3, QueuesTyped DEF Waited
  <2> QED BY <1>1, <1>2, <1>3, <2>1 DEF Places, AskedInv
<1>7. AnsweredInv'
  <2>1. ASSUME NEW m \in Range(fromNM), m.of # 0 PROVE m.of \in TaskIds /\ m.of # This
        BY <1>3, <2>1, QueuesTyped DEF Waited
  <2> QED BY <1>1, <1>2, <1>3, <2>1 DEF Places, AnsweredInv
<1>8. LockInv'
  <2>1. \A t \in TaskIds : task'[t].at \in Holding <=> t \in Range(lockq')
        BY <1>1, <1>2, <1>3, <1>b DEF Places, LockInv, Holding
  <2>2. \A t \in Range(lockq') : t # lockq'[1] => task'[t].at = "locked" /\ t \notin Range(ready')
        BY <1>1, <1>2, <1>3, <1>b, QueuesTyped DEF Places, LockInv
  <2> QED BY <1>b, <2>1, <2>2 DEF LockInv
<1> QED BY <1>4, <1>5, <1>6, <1>7, <1>8 DEF Places

LEMMA RepliesPlaces == ASSUME TypeOK, Places, Replies PROVE Places'
<1>1. /\ Writes(Free) /\ ready # <<>> /\ UNCHANGED <<toNM, fromNM, lockq>>
      /\ Me.at = "reply" /\ ready' = Tail(ready)
      BY DEF Replies, Writes
<1>2. /\ task'[This] = Free /\ \A t \in TaskIds : t # This => task'[t] = task[t]
      BY <1>1, Written
<1>3. /\ This \in TaskIds /\ task[This] = Me /\ Distinct(Tail(ready)) /\ This \notin Range(Tail(ready))
      /\ Range(Tail(ready)) \subseteq Range(ready) /\ ~Waited(toNM, This) /\ ~Waited(fromNM, This)
      /\ (Me.at \in Holding <=> This \in Range(lockq))
      BY <1>1, ThisPlace
<1>a. Me.at \notin Holding /\ Free.at = "free" /\ Free.at \notin Holding
      BY <1>1, FreeTyped DEF Holding, Working
<1>4. FreeInv' BY <1>1, <1>2, <1>3, <1>a DEF Places, FreeInv, Waits
<1>5. ReadyInv' BY <1>1, <1>2, <1>3, QueuesTyped DEF Places, ReadyInv
<1>6. AskedInv'
  <2>1. \A p \in Range(toNM) : p.of \in TaskIds /\ p.of # This BY <1>3, QueuesTyped DEF Waited
  <2> QED BY <1>1, <1>2, <1>3, <2>1 DEF Places, AskedInv
<1>7. AnsweredInv'
  <2>1. ASSUME NEW m \in Range(fromNM), m.of # 0 PROVE m.of \in TaskIds /\ m.of # This
        BY <1>3, <2>1, QueuesTyped DEF Waited
  <2> QED BY <1>1, <1>2, <1>3, <2>1 DEF Places, AnsweredInv
<1>8. LockInv'
  <2>1. \A t \in TaskIds : task'[t].at \in Holding <=> t \in Range(lockq)
        BY <1>2, <1>3, <1>a DEF Places, LockInv
  <2>2. \A t \in Range(lockq) : t # lockq[1] => task'[t].at = "locked" /\ t \notin Range(ready')
        BY <1>1, <1>2, <1>3, <1>a, QueuesTyped DEF Places, LockInv
  <2> QED BY <1>1, <2>1, <2>2 DEF Places, LockInv
<1> QED BY <1>4, <1>5, <1>6, <1>7, <1>8 DEF Places

\* The queues after the end of a coroutine, member by member.
LEMMA EndsMembers ==
  ASSUME TypeOK, Places, NEW k, Ends(k)
  PROVE  /\ lockq[1] = This /\ Range(lockq) = Range(lockq') \cup {This} /\ This \notin Range(lockq')
         /\ Distinct(lockq') /\ Distinct(ready')
         /\ \A t \in Range(ready') :
              \/ t \in Range(Tail(ready))
              \/ lockq' # <<>> /\ t = lockq'[1] /\ t \in Range(lockq')
              \/ t = This /\ k # Free
         /\ \A t \in Range(lockq') : t \in TaskIds /\ task[t].at = "locked" /\ t \notin Range(ready)
         /\ lockq' # <<>> => lockq'[1] \in Range(ready')
         /\ k # Free => This \in Range(ready')
         /\ Range(Tail(ready)) \subseteq Range(ready')
<1> DEFINE l == Tail(lockq)
           r == IF l = <<>> THEN Tail(ready) ELSE Append(Tail(ready), Head(l))
<1>1. /\ lockq # <<>> /\ lockq[1] = This /\ lockq' = l /\ l \in Seq(TaskIds)
      /\ r \in Seq(TaskIds) /\ ready' = IF k = Free THEN r ELSE Append(r, This)
      BY EndsQueues DEF Places
<1>2. ready # <<>> BY DEF Ends, Writes
<1>3. /\ This \in TaskIds /\ Distinct(Tail(ready)) /\ This \notin Range(Tail(ready))
      /\ Range(Tail(ready)) \subseteq Range(ready) /\ Tail(ready) \in Seq(TaskIds)
      BY <1>2, ThisPlace
<1>4. /\ Distinct(l) /\ This \notin Range(l) /\ Range(lockq) = Range(l) \cup {This}
  <2>1. lockq \in Seq(TaskIds) /\ Distinct(lockq) BY DEF TypeOK, Places, LockInv
  <2>2. Head(lockq) = This BY <1>1, <2>1, TailOf
  <2> QED BY <1>1, <2>1, <2>2, DistinctTail, TailRange
<1>5. \A t \in Range(l) : t \in TaskIds /\ task[t].at = "locked" /\ t \notin Range(ready)
      BY <1>1, <1>4, QueuesTyped DEF Places, LockInv
<1>6. l # <<>> => Head(l) = l[1] /\ Head(l) \in Range(l) BY <1>1, TailOf, TailRange
<1> HIDE DEF l
<1>7. /\ Distinct(r) /\ Range(r) = Range(Tail(ready)) \cup (IF l = <<>> THEN {} ELSE {Head(l)})
      /\ This \notin Range(r)
  <2>1. CASE l = <<>> BY <1>3, <2>1
  <2>2. CASE l # <<>>
    <3>1. Head(l) \in TaskIds /\ Head(l) \notin Range(Tail(ready)) /\ Head(l) # This
          BY <1>3, <1>4, <1>5, <1>6, <2>2
    <3>2. Distinct(r) BY <1>3, <2>2, <3>1, DistinctAppend
    <3>a. Range(Append(Tail(ready), Head(l))) = Range(Tail(ready)) \cup {Head(l)}
      <4> DEFINE s == Tail(ready)  h == Head(l)
      <4>1. s \in Seq(TaskIds) /\ h \in TaskIds BY <1>3, <3>1
      <4> HIDE DEF s, h
      <4>2. Range(Append(s, h)) = Range(s) \cup {h} BY <4>1, AppendRange
      <4> QED BY <4>2 DEF s, h
    <3>3. Range(r) = Range(Tail(ready)) \cup {Head(l)} BY <2>2, <3>a
    <3> QED BY <1>3, <2>2, <3>1, <3>2, <3>3
  <2> QED BY <2>1, <2>2
<1> HIDE DEF r
<1>8. Distinct(ready') /\ Range(ready') = Range(r) \cup (IF k = Free THEN {} ELSE {This})
  <2>1. CASE k = Free BY <1>1, <1>7, <2>1
  <2>2. CASE k # Free
    <3>1. Distinct(Append(r, This)) BY <1>1, <1>3, <1>7, DistinctAppend
    <3>2. Range(Append(r, This)) = Range(r) \cup {This} BY <1>1, <1>3, AppendRange
    <3> QED BY <1>1, <2>2, <3>1, <3>2
  <2> QED BY <2>1, <2>2
<1> QED BY <1>1, <1>3, <1>4, <1>5, <1>6, <1>7, <1>8

\* It leaves the lock to the one behind it, which the loop will run.
LEMMA EndsPlaces ==
  ASSUME TypeOK, Places, NEW k \in Tasks, Ends(k)
  PROVE  Places'
<1>1. /\ Writes(k) /\ ready # <<>> /\ UNCHANGED <<toNM, fromNM>>
      /\ Me.at = "next" /\ (k = Free \/ k.at = "reply")
      BY DEF Ends, Writes
<1>2. /\ task'[This] = k /\ \A t \in TaskIds : t # This => task'[t] = task[t]
      BY <1>1, Written
<1>3. /\ This \in TaskIds /\ task[This] = Me /\ This \notin Range(Tail(ready))
      /\ Range(Tail(ready)) \subseteq Range(ready) /\ ~Waited(toNM, This) /\ ~Waited(fromNM, This)
      BY <1>1, ThisPlace
<1>4. /\ lockq[1] = This /\ Range(lockq) = Range(lockq') \cup {This} /\ This \notin Range(lockq')
      /\ Distinct(lockq') /\ Distinct(ready')
      /\ \A t \in Range(ready') :
           \/ t \in Range(Tail(ready))
           \/ lockq' # <<>> /\ t = lockq'[1] /\ t \in Range(lockq')
           \/ t = This /\ k # Free
      /\ \A t \in Range(lockq') : t \in TaskIds /\ task[t].at = "locked" /\ t \notin Range(ready)
      BY EndsMembers
<1>a. Free.at = "free" /\ (k = Free => k.at = "free") /\ k.at \notin Holding
      BY <1>1, FreeTyped DEF Holding, Working
<1>5. FreeInv' BY <1>1, <1>2, <1>3, <1>a DEF Places, FreeInv, Waits
<1>6. ReadyInv'
  <2>1. ASSUME NEW t \in Range(Tail(ready))
        PROVE  task'[t].at # "free" /\ task'[t].at # "locked"
        BY <1>2, <1>3, <1>4, QueuesTyped DEF Places, ReadyInv
  <2>2. ASSUME NEW t \in Range(lockq') PROVE task'[t].at = "locked"
        BY <1>2, <1>4
  <2>3. k # Free => task'[This].at = "reply" BY <1>1, <1>2
  <2>4. ASSUME NEW t \in Range(ready')
        PROVE  task'[t].at # "free" /\ (task'[t].at = "locked" => lockq' # <<>> /\ lockq'[1] = t)
    <3>1. CASE t \in Range(Tail(ready)) BY <2>1, <3>1
    <3>2. CASE lockq' # <<>> /\ t = lockq'[1] /\ t \in Range(lockq') BY <2>2, <3>2
    <3>3. CASE t = This /\ k # Free BY <2>3, <3>3
    <3> QED BY <1>4, <3>1, <3>2, <3>3
  <2> QED BY <1>4, <2>4 DEF ReadyInv
\* One that waits for an answer is not among those the loop now gets.
<1>b. ASSUME NEW t \in TaskIds, task[t].at \in Waits, t # This, t \notin Range(ready)
      PROVE  t \notin Range(ready')
      BY <1>3, <1>4, <1>b DEF Waits
<1>7. AskedInv'
  <2>1. \A p \in Range(toNM) : p.of \in TaskIds /\ p.of # This BY <1>3, QueuesTyped DEF Waited
  <2> QED BY <1>1, <1>2, <1>b, <2>1 DEF Places, AskedInv
<1>8. AnsweredInv'
  <2>1. ASSUME NEW m \in Range(fromNM), m.of # 0 PROVE m.of \in TaskIds /\ m.of # This
        BY <1>3, <2>1, QueuesTyped DEF Waited
  <2> QED BY <1>1, <1>2, <1>b, <2>1 DEF Places, AnsweredInv
<1>9. LockInv'
  <2>1. \A t \in TaskIds : task'[t].at \in Holding <=> t \in Range(lockq')
        BY <1>2, <1>3, <1>4, <1>a DEF Places, LockInv
  <2>2. ASSUME NEW t \in Range(lockq'), t # lockq'[1]
        PROVE  task'[t].at = "locked" /\ t \notin Range(ready')
        BY <1>2, <1>3, <1>4, <2>2
  <2> QED BY <1>4, <2>1, <2>2 DEF LockInv
<1> QED BY <1>5, <1>6, <1>7, <1>8, <1>9 DEF Places

LEMMA SignalsPlaces == ASSUME TypeOK, Places, SignalsCome PROVE Places'
<1>1. Grows(fromNM, fromNM') /\ UNCHANGED <<toNM, task, ready, lockq>> BY DEF SignalsCome
<1>2. /\ Range(fromNM) \subseteq Range(fromNM') /\ OneEach(fromNM')
      /\ \A m \in Range(fromNM') : m \in Range(fromNM) \/ (m.of = 0 /\ m.kind \in Signals)
      BY <1>1 DEF Grows, Places, AnsweredInv
<1>3. FreeInv' /\ ReadyInv' /\ LockInv'
      BY <1>1 DEF Places, FreeInv, ReadyInv, LockInv, TaskIds
<1>4. AskedInv'
  <2>1. \A q \in Range(toNM) : q.of # 0 BY QueuesTyped
  <2>2. \A q \in Range(toNM) : Waited(fromNM', q.of) => Waited(fromNM, q.of)
        BY <1>2, <2>1 DEF Waited
  <2> QED BY <1>1, <2>2 DEF Places, AskedInv
<1>5. AnsweredInv' BY <1>1, <1>2 DEF Places, AnsweredInv
<1> QED BY <1>3, <1>4, <1>5 DEF Places

\* A question becomes its answer.
LEMMA AnswersPlaces ==
  ASSUME TypeOK, Places, NEW q \in Questions, NEW m \in Messages, Answers(q, m)
  PROVE  Places'
<1>1. /\ toNM # <<>> /\ q = Head(toNM) /\ toNM' = Tail(toNM) /\ m.of = q.of /\ m.kind = q.kind
      /\ fromNM' = Append(fromNM, m) /\ UNCHANGED <<task, ready, lockq>>
      BY DEF Answers, Same
<1>2. toNM \in Seq(Questions) /\ fromNM \in Seq(Messages) BY DEF TypeOK
<1>3. q \in Range(toNM) /\ Range(toNM) = Range(toNM') \cup {q} BY <1>1, <1>2, TailRange
<1>4. q.of \in TaskIds /\ q.of # 0 BY <1>3, QueuesTyped
<1>5. OneEach(toNM') /\ ~Waited(toNM', q.of)
      BY <1>1, <1>2, <1>4, OneEachTail DEF Places, AskedInv
<1>6. ~Waited(fromNM, q.of) /\ q.of \notin Range(ready) BY <1>3 DEF Places, AskedInv
<1>7. /\ OneEach(fromNM') /\ Range(fromNM') = Range(fromNM) \cup {m}
      /\ \A t : Waited(fromNM', t) <=> Waited(fromNM, t) \/ m.of = t
      BY <1>1, <1>2, <1>6, OneEachAppend, AppendRange DEF Places, AnsweredInv
<1>8. FreeInv' /\ ReadyInv' /\ LockInv'
      BY <1>1 DEF Places, FreeInv, ReadyInv, LockInv, TaskIds
<1>9. AskedInv'
  <2>1. \A p \in Range(toNM') : p \in Range(toNM) /\ p.of # q.of BY <1>3, <1>5 DEF Waited
  <2> QED BY <1>1, <1>5, <1>7, <2>1 DEF Places, AskedInv
<1>10. AnsweredInv'
  <2>1. task[m.of].at \in Waits /\ m.kind = Awaited[task[m.of].at] /\ m.of \notin Range(ready)
        BY <1>1, <1>3, <1>6 DEF Places, AskedInv
  <2> QED BY <1>1, <1>4, <1>7, <2>1 DEF Places, AnsweredInv
<1> QED BY <1>8, <1>9, <1>10 DEF Places

\* One that starts was nowhere.
LEMMA SpawnedPlaces ==
  ASSUME TypeOK, Places, NEW kind \in {"call", "emit"}, NEW t, Spawned(kind, t),
         UNCHANGED <<toNM, lockq>>, OneEach(fromNM'), Range(fromNM') \subseteq Range(fromNM)
  PROVE  Places'
<1>1. /\ t \in TaskIds /\ task[t].at = "free" /\ ready' = Append(ready, t)
      /\ task' = [task EXCEPT ![t] = Task(kind, "start")] /\ ready \in Seq(TaskIds)
      /\ task \in [TaskIds -> Tasks]
      BY FreeTyped DEF Spawned, TypeOK
<1>2. /\ task'[t].at = "start" /\ task'[t].current = {}
      /\ \A u \in TaskIds : u # t => task'[u] = task[u]
      BY <1>1, TaskTyped
<1>3. /\ t \notin Range(ready) /\ t \notin Range(lockq) /\ ~Waited(toNM, t) /\ ~Waited(fromNM, t)
      /\ t # 0
  <2>1. t \notin Range(ready) BY <1>1 DEF Places, ReadyInv
  <2>2. t \notin Range(lockq) BY <1>1 DEF Places, LockInv, Holding, Working
  <2>3. ~Waited(toNM, t) BY <1>1 DEF Places, AskedInv, Waited, Waits
  <2>4. t # 0 BY <1>1, Bounds
  <2>5. ~Waited(fromNM, t) BY <1>1, <2>4 DEF Places, AnsweredInv, Waited, Waits
  <2> QED BY <2>1, <2>2, <2>3, <2>4, <2>5
<1>4. Range(ready') = Range(ready) \cup {t} /\ Distinct(ready')
      BY <1>1, <1>3, AppendRange, DistinctAppend DEF Places, ReadyInv
<1>5. FreeInv' BY <1>1, <1>2 DEF Places, FreeInv, Waits
<1>6. ReadyInv'
  <2>1. \A u \in Range(ready) : u \in TaskIds /\ u # t BY <1>3, QueuesTyped
  <2>2. lockq' = lockq OBVIOUS
  <2> QED BY <1>2, <1>4, <2>1, <2>2 DEF Places, ReadyInv
<1>7. AskedInv'
  <2>1. \A p \in Range(toNM) : p.of \in TaskIds /\ p.of # t BY <1>3, QueuesTyped DEF Waited
  <2>2. \A p \in Range(toNM) : ~Waited(fromNM', p.of) BY DEF Places, AskedInv, Waited
  <2>3. toNM' = toNM OBVIOUS
  <2> QED BY <1>2, <1>4, <2>1, <2>2, <2>3 DEF Places, AskedInv
<1>8. AnsweredInv'
  <2>1. ASSUME NEW m \in Range(fromNM'), m.of # 0
        PROVE  m.of \in TaskIds /\ m.of # t /\ m \in Range(fromNM)
    <3>1. m \in Range(fromNM) OBVIOUS
    <3> QED BY <1>3, <2>1, <3>1, QueuesTyped DEF Waited
  <2> QED BY <1>2, <1>4, <2>1 DEF Places, AnsweredInv
<1>9. LockInv'
  <2>1. \A u \in TaskIds : task'[u].at \in Holding <=> u \in Range(lockq)
        BY <1>2, <1>3 DEF Places, LockInv, Holding, Working
  <2>2. \A u \in Range(lockq) : u \in TaskIds /\ u # t BY <1>3, QueuesTyped
  <2>3. \A u \in Range(lockq) : u # lockq[1] => task'[u].at = "locked" /\ u \notin Range(ready')
        BY <1>2, <1>4, <2>2 DEF Places, LockInv
  <2>4. lockq' = lockq OBVIOUS
  <2> QED BY <2>1, <2>3, <2>4 DEF Places, LockInv
<1> QED BY <1>5, <1>6, <1>7, <1>8, <1>9 DEF Places

\* An answer has its coroutine run.
LEMMA GetsPlaces ==
  ASSUME TypeOK, Places, NEW t, NEW m, Gets(t, m)
  PROVE  Places'
<1>1. /\ fromNM # <<>> /\ m = Head(fromNM) /\ fromNM' = Tail(fromNM) /\ ready' = Append(ready, t)
      /\ UNCHANGED <<toNM, lockq>> /\ fromNM \in Seq(Messages) /\ ready \in Seq(TaskIds)
      BY DEF Gets, Same, TypeOK
<1>2. /\ m \in Messages /\ m \in Range(fromNM) /\ t \in TaskIds /\ t = m.of /\ t # 0
      /\ task' \in [TaskIds -> Tasks] /\ task'[t] = [task[t] EXCEPT !.got = m]
      /\ \A u \in TaskIds : u # t => task'[u] = task[u]
      BY Got
<1>3. task[t] \in Tasks BY <1>2 DEF TypeOK
<1>4. /\ task'[t].at = task[t].at /\ task'[t].current = task[t].current /\ task'[t].ap = task[t].ap
      BY <1>2, <1>3 DEF Tasks
<1>5. /\ task[t].at \in Waits /\ m.kind = Awaited[task[t].at] /\ t \notin Range(ready)
      BY <1>2 DEF Places, AnsweredInv
<1>6. /\ OneEach(fromNM') /\ Range(fromNM') \subseteq Range(fromNM) /\ ~Waited(fromNM', t)
      BY <1>1, <1>2, OneEachTail, TailRange DEF Places, AnsweredInv
<1>7. Range(ready') = Range(ready) \cup {t} /\ Distinct(ready')
      BY <1>1, <1>2, <1>5, AppendRange, DistinctAppend DEF Places, ReadyInv
<1>8. \A u \in TaskIds : /\ task'[u].at = task[u].at /\ task'[u].current = task[u].current
                         /\ task'[u].ap = task[u].ap
      BY <1>2, <1>4
<1>9. FreeInv'
  <2>1. task[t].at # "free" BY <1>5 DEF Waits
  <2>2. \A u \in TaskIds : task'[u].at = "free" => task'[u] = Free
        BY <1>2, <1>8, <2>1 DEF Places, FreeInv
  <2> QED BY <1>8, <2>2 DEF Places, FreeInv
<1>10. ReadyInv'
  <2>1. task[t].at # "free" /\ task[t].at # "locked" BY <1>5 DEF Waits
  <2> QED BY <1>1, <1>2, <1>7, <1>8, <2>1, QueuesTyped DEF Places, ReadyInv
<1>11. AskedInv'
  <2>1. \A p \in Range(toNM) : p.of \in TaskIds /\ p.of # t
        BY <1>2, QueuesTyped DEF Waited, Places, AskedInv
  <2>2. \A p \in Range(toNM) : ~Waited(fromNM', p.of) BY <1>6 DEF Places, AskedInv, Waited
  <2> QED BY <1>1, <1>7, <1>8, <2>1, <2>2 DEF Places, AskedInv
<1>12. AnsweredInv'
  <2>1. ASSUME NEW n \in Range(fromNM'), n.of # 0
        PROVE  n.of \in TaskIds /\ n.of # t /\ n \in Range(fromNM)
    <3>1. n \in Range(fromNM) BY <1>6
    <3> QED BY <1>6, <2>1, <3>1, QueuesTyped DEF Waited
  <2>2. \A n \in Range(fromNM') : n \in Range(fromNM) BY <1>6
  <2> QED BY <1>6, <1>7, <1>8, <2>1, <2>2 DEF Places, AnsweredInv
<1>13. LockInv'
  <2>1. \A u \in TaskIds : task'[u].at \in Holding <=> u \in Range(lockq)
        BY <1>8 DEF Places, LockInv
  <2>2. \A u \in Range(lockq) : u # lockq[1] => task'[u].at = "locked" /\ u # t
        BY <1>5, <1>8, QueuesTyped DEF Places, LockInv, Waits
  <2>3. \A u \in Range(lockq) : u # lockq[1] => task'[u].at = "locked" /\ u \notin Range(ready')
        BY <1>7, <2>2 DEF Places, LockInv
  <2> QED BY <1>1, <2>1, <2>3 DEF Places, LockInv
<1> QED BY <1>9, <1>10, <1>11, <1>12, <1>13 DEF Places

-----------------------------------------------------------------------------
(* What a coroutine has listed stays exported. *)

\* Only the one at the head of the lock's queue builds a list.
LEMMA OneWorks ==
  ASSUME Places, NEW t \in TaskIds, task[t].at \in Working
  PROVE  t = lockq[1] /\ t \in Range(lockq)
BY DEF Places, LockInv, Working, Holding

\* Only who holds the lock exports, and it takes nothing away.
LEMMA BecomesListed ==
  ASSUME TypeOK, Places, ListedStaysExported, NEW k, Becomes(k),
         k.at \in Working => Me.at \in Working \/ Me.current = {}
  PROVE  ListedStaysExported'
<1>1. Writes(k) /\ ready # <<>> /\ Exports(k) BY DEF Becomes, Writes
<1>2. /\ task'[This] = k /\ \A t \in TaskIds : t # This => task'[t] = task[t]
      BY <1>1, Written
<1>3. This \in TaskIds /\ task[This] = Me BY <1>1, ThisPlace
<1>4. \A t \in TaskIds : task[t].at \in Working => task[t].current \subseteq Exported
      BY DEF ListedStaysExported, Working
<1>5. Exported \subseteq Exported' /\ k.current \subseteq Me.current \cup Exported'
      BY <1>1 DEF Exports
<1>6. ASSUME NEW t \in TaskIds, task'[t].at \in Working
      PROVE  task'[t].current \subseteq Exported'
  <2>1. CASE t # This BY <1>2, <1>4, <1>5, <1>6, <2>1
  <2>2. CASE t = This
    <3>1. k.at \in Working BY <1>2, <1>6, <2>2
    <3>2. Me.current \subseteq Exported BY <1>3, <1>4, <3>1
    <3> QED BY <1>2, <1>5, <2>2, <3>2
  <2> QED BY <2>1, <2>2
<1> QED BY <1>6 DEF ListedStaysExported, Working, TaskIds

LEMMA StepsListed ==
  ASSUME TypeOK, Places, ListedStaysExported, Steps
  PROVE  ListedStaysExported'
<1>a. ready # <<>> => This \in TaskIds /\ task[This] = Me BY ThisPlace
<1>b. ready # <<>> /\ Me.at \in {"start", "listing", "locked"} => Me.current = {}
      BY <1>a DEF Places, FreeInv
<1>1. CASE \E k \in Tasks, q \in Questions : Asks(k, q)
  <2>1. PICK k \in Tasks, q \in Questions : Asks(k, q) BY <1>1
  <2>2. Becomes(k) /\ ready # <<>> /\ (Me.at = "start" \/ Me.at \in Working)
        BY <2>1 DEF Asks, Becomes, Writes
  <2> QED BY <1>b, <2>2, BecomesListed
<1>2. CASE \E k \in Tasks : GoesOn(k)
  <2>1. PICK k \in Tasks : GoesOn(k) BY <1>2
  <2>2. Becomes(k) /\ ready # <<>> /\ (Me.at \in Holding \/ Me.at = "listing")
        BY <2>1 DEF GoesOn, Becomes, Writes
  <2> QED BY <1>b, <2>2, BecomesListed DEF Holding
<1>3. CASE \E k \in Tasks : WaitsForLock(k)
  <2>1. PICK k \in Tasks : WaitsForLock(k) BY <1>3
  <2>2. Becomes(k) /\ k.at = "locked" BY <2>1 DEF WaitsForLock
  <2> QED BY <2>2, BecomesListed DEF Working
<1> QED BY <1>1, <1>2, <1>3 DEF Steps

\* At the end services go, but no other coroutine has listed any.
LEMMA EndsListed ==
  ASSUME TypeOK, Places, ListedStaysExported, NEW k, Ends(k)
  PROVE  ListedStaysExported'
<1>1. Writes(k) /\ ready # <<>> /\ (k = Free \/ k.at = "reply") BY DEF Ends, Writes
<1>2. /\ task'[This] = k /\ \A t \in TaskIds : t # This => task'[t] = task[t]
      BY <1>1, Written
<1>3. lockq[1] = This BY EndsMembers
<1>4. \A t \in TaskIds : task[t].at \in Working => t = This BY <1>3, OneWorks
<1>5. k.at \notin Working BY <1>1, FreeTyped DEF Working
<1>6. \A t \in TaskIds : task'[t].at \notin Working BY <1>2, <1>4, <1>5
<1> QED BY <1>6 DEF ListedStaysExported, Working, TaskIds

LEMMA RepliesListed ==
  ASSUME TypeOK, Places, ListedStaysExported, Replies
  PROVE  ListedStaysExported'
<1>1. Writes(Free) /\ services' = services BY DEF Replies
<1>2. /\ task'[This] = Free /\ \A t \in TaskIds : t # This => task'[t] = task[t]
      BY <1>1, Written
<1>3. Exported' = Exported BY <1>1 DEF Exported
<1>4. Free.at \notin Working BY FreeTyped DEF Working
<1>5. ASSUME NEW t \in TaskIds, task'[t].at \in Working
      PROVE  task'[t].current \subseteq Exported'
      BY <1>2, <1>3, <1>4, <1>5 DEF ListedStaysExported, Working
<1> QED BY <1>5 DEF ListedStaysExported, Working, TaskIds

\* A step that leaves the services, and starts a coroutine at most.
LEMMA SameListed ==
  ASSUME ListedStaysExported, services' = services,
         \A t \in TaskIds : \/ task'[t].at = "start"
                            \/ task'[t].at = task[t].at /\ task'[t].current = task[t].current
  PROVE  ListedStaysExported'
<1>1. Exported' = Exported BY DEF Exported
<1>2. \A t \in TaskIds : task'[t].at \in Working => task'[t].current \subseteq Exported'
      BY <1>1 DEF ListedStaysExported, Working
<1> QED BY <1>2 DEF ListedStaysExported, Working, TaskIds

LEMMA SpawnedTask ==
  ASSUME TypeOK, NEW kind \in {"call", "emit"}, NEW t, Spawned(kind, t)
  PROVE  /\ t \in TaskIds /\ task[t] = Free /\ task'[t] = Task(kind, "start")
         /\ task'[t].at = "start" /\ task'[t].kind = kind /\ task'[t].current = {}
         /\ \A u \in TaskIds : u # t => task'[u] = task[u]
<1>1. /\ t \in TaskIds /\ task[t] = Free /\ task' = [task EXCEPT ![t] = Task(kind, "start")]
      /\ task \in [TaskIds -> Tasks]
      BY DEF Spawned, TypeOK
<1> QED BY <1>1, TaskTyped

-----------------------------------------------------------------------------
(* Lists are used in the order of their ages. *)

\* The order is kept when the first leaves a queue, and when one that is no older joins it.
LEMMA InOrderTail ==
  ASSUME NEW s \in Seq(Messages), s # <<>>, InOrder(s)
  PROVE  /\ InOrder(Tail(s))
         /\ IsList(Head(s)) => \A m \in Range(Tail(s)) : IsList(m) => Head(s).age <= m.age
<1>1. ASSUME NEW i \in DOMAIN Tail(s), NEW j \in DOMAIN Tail(s), i < j,
             IsList(Tail(s)[i]), IsList(Tail(s)[j])
      PROVE  Tail(s)[i].age <= Tail(s)[j].age
  <2>1. /\ i + 1 \in DOMAIN s /\ j + 1 \in DOMAIN s
        /\ Tail(s)[i] = s[i + 1] /\ Tail(s)[j] = s[j + 1]
        BY <1>1, TailOf
  <2>2. i \in Nat /\ j \in Nat BY TailOf
  <2>3. i + 1 < j + 1 BY <1>1, <2>2
  <2> DEFINE x == i + 1  y == j + 1
  <2>4. x \in DOMAIN s /\ y \in DOMAIN s /\ x < y /\ IsList(s[x]) /\ IsList(s[y])
        BY <1>1, <2>1, <2>3
  <2> HIDE DEF x, y
  <2>5. s[x].age <= s[y].age BY <2>4 DEF InOrder
  <2> QED BY <2>1, <2>5 DEF x, y
<1>2. ASSUME NEW i \in DOMAIN Tail(s), IsList(Head(s)), IsList(Tail(s)[i])
      PROVE  Head(s).age <= Tail(s)[i].age
  <2>1. /\ i + 1 \in DOMAIN s /\ 1 \in DOMAIN s /\ Tail(s)[i] = s[i + 1] /\ Head(s) = s[1]
        BY TailOf
  <2>2. 1 < i + 1 BY TailOf
  <2> DEFINE x == i + 1
  <2>3. x \in DOMAIN s /\ 1 \in DOMAIN s /\ 1 < x /\ IsList(s[1]) /\ IsList(s[x])
        BY <1>2, <2>1, <2>2
  <2> HIDE DEF x
  <2>4. s[1].age <= s[x].age BY <2>3 DEF InOrder
  <2> QED BY <2>1, <2>4 DEF x
<1> QED BY <1>1, <1>2 DEF InOrder, Range

LEMMA InOrderAppend ==
  ASSUME NEW s \in Seq(Messages), NEW e \in Messages, InOrder(s),
         IsList(e) => \A m \in Range(s) : IsList(m) => m.age <= e.age
  PROVE  InOrder(Append(s, e))
<1> DEFINE l == Len(s) + 1  a == Append(s, e)
<1>1. /\ l \in Nat /\ DOMAIN s \subseteq Nat /\ DOMAIN a = DOMAIN s \cup {l} /\ a[l] = e
      /\ \A i \in DOMAIN s : i < l /\ a[i] = s[i]
      BY AppendOf
<1> HIDE DEF l, a
<1>2. ASSUME NEW i \in DOMAIN a, NEW j \in DOMAIN a, i < j, IsList(a[i]), IsList(a[j])
      PROVE  a[i].age <= a[j].age
  <2>1. i # l BY <1>1, <1>2
  <2>2. i \in DOMAIN s /\ a[i] = s[i] /\ s[i] \in Range(s) BY <1>1, <2>1 DEF Range
  <2>3. CASE j = l BY <1>1, <1>2, <2>2, <2>3
  <2>4. CASE j \in DOMAIN s BY <1>1, <1>2, <2>2, <2>4 DEF InOrder
  <2> QED BY <1>1, <2>3, <2>4
<1>3. InOrder(a) BY <1>2 DEF InOrder
<1> QED BY <1>3 DEF a

LEMMA ReadInTail ==
  ASSUME NEW s \in Seq(TaskIds), s # <<>>, NEW k, ReadIn(s, k)
  PROVE  /\ ReadIn(Tail(s), k)
         /\ k[Head(s)].at = "listing" =>
              \A t \in Range(Tail(s)) : k[t].at = "listing" => k[Head(s)].got.age <= k[t].got.age
<1>1. ASSUME NEW i \in DOMAIN Tail(s), NEW j \in DOMAIN Tail(s), i < j,
             k[Tail(s)[i]].at = "listing", k[Tail(s)[j]].at = "listing"
      PROVE  k[Tail(s)[i]].got.age <= k[Tail(s)[j]].got.age
  <2>1. /\ i + 1 \in DOMAIN s /\ j + 1 \in DOMAIN s
        /\ Tail(s)[i] = s[i + 1] /\ Tail(s)[j] = s[j + 1]
        BY <1>1, TailOf
  <2>2. i \in Nat /\ j \in Nat BY TailOf
  <2>3. i + 1 < j + 1 BY <1>1, <2>2
  <2> DEFINE x == i + 1  y == j + 1
  <2>4. x \in DOMAIN s /\ y \in DOMAIN s /\ x < y /\ k[s[x]].at = "listing" /\ k[s[y]].at = "listing"
        BY <1>1, <2>1, <2>3
  <2> HIDE DEF x, y
  <2>5. k[s[x]].got.age <= k[s[y]].got.age BY <2>4 DEF ReadIn
  <2> QED BY <2>1, <2>5 DEF x, y
<1>2. ASSUME NEW i \in DOMAIN Tail(s), k[Head(s)].at = "listing", k[Tail(s)[i]].at = "listing"
      PROVE  k[Head(s)].got.age <= k[Tail(s)[i]].got.age
  <2>1. /\ i + 1 \in DOMAIN s /\ 1 \in DOMAIN s /\ Tail(s)[i] = s[i + 1] /\ Head(s) = s[1]
        BY TailOf
  <2>2. 1 < i + 1 BY TailOf
  <2> DEFINE x == i + 1
  <2>3. x \in DOMAIN s /\ 1 \in DOMAIN s /\ 1 < x /\ k[s[1]].at = "listing" /\ k[s[x]].at = "listing"
        BY <1>2, <2>1, <2>2
  <2> HIDE DEF x
  <2>4. k[s[1]].got.age <= k[s[x]].got.age BY <2>3 DEF ReadIn
  <2> QED BY <2>1, <2>4 DEF x
<1> QED BY <1>1, <1>2 DEF ReadIn, Range

LEMMA ReadInAppend ==
  ASSUME NEW s \in Seq(TaskIds), NEW e \in TaskIds, NEW k, ReadIn(s, k),
         k[e].at = "listing" =>
           \A t \in Range(s) : k[t].at = "listing" => k[t].got.age <= k[e].got.age
  PROVE  ReadIn(Append(s, e), k)
<1> DEFINE l == Len(s) + 1  a == Append(s, e)
<1>1. /\ l \in Nat /\ DOMAIN s \subseteq Nat /\ DOMAIN a = DOMAIN s \cup {l} /\ a[l] = e
      /\ \A i \in DOMAIN s : i < l /\ a[i] = s[i]
      BY AppendOf
<1> HIDE DEF l, a
<1>2. ASSUME NEW i \in DOMAIN a, NEW j \in DOMAIN a, i < j,
             k[a[i]].at = "listing", k[a[j]].at = "listing"
      PROVE  k[a[i]].got.age <= k[a[j]].got.age
  <2>1. i # l BY <1>1, <1>2
  <2>2. i \in DOMAIN s /\ a[i] = s[i] /\ s[i] \in Range(s) BY <1>1, <2>1 DEF Range
  <2>3. CASE j = l BY <1>1, <1>2, <2>2, <2>3
  <2>4. CASE j \in DOMAIN s BY <1>1, <1>2, <2>2, <2>4 DEF ReadIn
  <2> QED BY <1>1, <2>3, <2>4
<1>3. ReadIn(a, k) BY <1>2 DEF ReadIn
<1> QED BY <1>3 DEF a

LEMMA ReadInSame ==
  ASSUME NEW s, NEW k, NEW h, ReadIn(s, k),
         \A t \in Range(s) : h[t].at = "listing" => k[t].at = "listing" /\ h[t].got = k[t].got
  PROVE  ReadIn(s, h)
BY DEF ReadIn, Range

LEMMA LockInTail ==
  ASSUME NEW s \in Seq(TaskIds), s # <<>>, NEW k, LockIn(s, k)
  PROVE  /\ LockIn(Tail(s), k)
         /\ \A t \in Range(Tail(s)) : k[Head(s)].age <= k[t].age
<1>1. ASSUME NEW i \in DOMAIN Tail(s), NEW j \in DOMAIN Tail(s), i < j
      PROVE  k[Tail(s)[i]].age <= k[Tail(s)[j]].age
  <2>1. /\ i + 1 \in DOMAIN s /\ j + 1 \in DOMAIN s
        /\ Tail(s)[i] = s[i + 1] /\ Tail(s)[j] = s[j + 1]
        BY <1>1, TailOf
  <2>2. i \in Nat /\ j \in Nat BY TailOf
  <2>3. i + 1 < j + 1 BY <1>1, <2>2
  <2> DEFINE x == i + 1  y == j + 1
  <2>4. x \in DOMAIN s /\ y \in DOMAIN s /\ x < y BY <2>1, <2>3
  <2> HIDE DEF x, y
  <2>5. k[s[x]].age <= k[s[y]].age BY <2>4 DEF LockIn
  <2> QED BY <2>1, <2>5 DEF x, y
<1>2. ASSUME NEW i \in DOMAIN Tail(s) PROVE k[Head(s)].age <= k[Tail(s)[i]].age
  <2>1. /\ i + 1 \in DOMAIN s /\ 1 \in DOMAIN s /\ Tail(s)[i] = s[i + 1] /\ Head(s) = s[1]
        BY TailOf
  <2>2. 1 < i + 1 BY TailOf
  <2> DEFINE x == i + 1
  <2>3. x \in DOMAIN s /\ 1 \in DOMAIN s /\ 1 < x BY <2>1, <2>2
  <2> HIDE DEF x
  <2>4. k[s[1]].age <= k[s[x]].age BY <2>3 DEF LockIn
  <2> QED BY <2>1, <2>4 DEF x
<1> QED BY <1>1, <1>2 DEF LockIn, Range

LEMMA LockInAppend ==
  ASSUME NEW s \in Seq(TaskIds), NEW e \in TaskIds, NEW k, LockIn(s, k),
         \A t \in Range(s) : k[t].age <= k[e].age
  PROVE  LockIn(Append(s, e), k)
<1> DEFINE l == Len(s) + 1  a == Append(s, e)
<1>1. /\ l \in Nat /\ DOMAIN s \subseteq Nat /\ DOMAIN a = DOMAIN s \cup {l} /\ a[l] = e
      /\ \A i \in DOMAIN s : i < l /\ a[i] = s[i]
      BY AppendOf
<1> HIDE DEF l, a
<1>2. ASSUME NEW i \in DOMAIN a, NEW j \in DOMAIN a, i < j
      PROVE  k[a[i]].age <= k[a[j]].age
  <2>1. i # l BY <1>1, <1>2
  <2>2. i \in DOMAIN s /\ a[i] = s[i] /\ s[i] \in Range(s) BY <1>1, <2>1 DEF Range
  <2>3. CASE j = l BY <1>1, <1>2, <2>2, <2>3
  <2>4. CASE j \in DOMAIN s BY <1>1, <1>2, <2>2, <2>4 DEF LockIn
  <2> QED BY <1>1, <2>3, <2>4
<1>3. LockIn(a, k) BY <1>2 DEF LockIn
<1> QED BY <1>3 DEF a

LEMMA LockInSame ==
  ASSUME NEW s, NEW k, NEW h, LockIn(s, k), \A t \in Range(s) : h[t].age = k[t].age
  PROVE  LockIn(s, h)
BY DEF LockIn, Range

\* How the ages of the lists compare, as facts about the members of the queues.
LEMMA Ages ==
  ASSUME TypeOK, OrderInv
  PROVE  /\ Age \in Nat /\ table_at \in Nat \cup {-1} /\ table_at <= Age
         /\ \A m \in Range(fromNM) : m.age \in Nat
         /\ \A t \in TaskIds : task[t].age \in Nat /\ task[t].got.age \in Nat
         /\ \A m \in Range(fromNM) : IsList(m) => table_at <= m.age /\ m.age <= Age
         /\ \A t \in Range(ready) :
              task[t].at = "listing" =>
                /\ table_at <= task[t].got.age /\ task[t].got.age <= Age
                /\ \A m \in Range(fromNM) : IsList(m) => task[t].got.age <= m.age
         /\ \A t \in Range(lockq) :
              /\ table_at <= task[t].age /\ task[t].age <= Age
              /\ \A m \in Range(fromNM) : IsList(m) => task[t].age <= m.age
              /\ \A u \in Range(ready) : task[u].at = "listing" => task[t].age <= task[u].got.age
<1>1. \A m \in Range(fromNM) : m.age \in Nat BY QueuesTyped DEF Messages
<1>2. \A t \in TaskIds : task[t].age \in Nat /\ task[t].got.age \in Nat
      BY DEF TypeOK, Tasks, Messages
<1>3. table_at \in Nat \cup {-1} BY DEF TypeOK
<1> QED BY <1>1, <1>2, <1>3, AgeNat DEF OrderInv, HasList

\* A change makes nothing older than it was: the lists are of earlier ages still.
LEMMA SignalsOrder ==
  ASSUME TypeOK, OrderInv, SignalsCome
  PROVE  OrderInv' /\ Age <= Age' /\ Age' \in Nat
<1>1. /\ Grows(fromNM, fromNM') /\ UNCHANGED <<task, ready, lockq, table_at>>
      /\ (ap_state' = ap_state \/ Age' = Age + 1)
      BY DEF SignalsCome
<1>2. InOrder(fromNM') /\ \A m \in Range(fromNM') : m \in Range(fromNM) \/ m.of = 0
      BY <1>1 DEF Grows, OrderInv
<1>3. ap_state' = ap_state => Age' = Age BY DEF Age, Visible
<1>4. Age <= Age' /\ Age \in Nat /\ Age' \in Nat BY <1>1, <1>3, AgeNat
<1>5. \A m \in Range(fromNM') : IsList(m) => m \in Range(fromNM) BY <1>2 DEF IsList
<1>6. /\ table_at <= Age'
      /\ \A m \in Range(fromNM') : IsList(m) => table_at <= m.age /\ m.age <= Age'
      /\ \A t \in Range(ready) :
           task[t].at = "listing" =>
             /\ table_at <= task[t].got.age /\ task[t].got.age <= Age'
             /\ \A m \in Range(fromNM') : IsList(m) => task[t].got.age <= m.age
      /\ \A t \in Range(lockq) :
           /\ table_at <= task[t].age /\ task[t].age <= Age'
           /\ \A m \in Range(fromNM') : IsList(m) => task[t].age <= m.age
           /\ \A u \in Range(ready) : task[u].at = "listing" => task[t].age <= task[u].got.age
  <2> DEFINE b == Age'
  <2>1. b \in Nat /\ Age <= b BY <1>4
  <2> HIDE DEF b
  <2>2. table_at <= b BY <2>1, Ages
  <2>3. ASSUME NEW m \in Range(fromNM'), IsList(m) PROVE table_at <= m.age /\ m.age <= b
        BY <1>5, <2>1, <2>3, Ages
  <2>4. ASSUME NEW t \in Range(ready), task[t].at = "listing"
        PROVE  /\ table_at <= task[t].got.age /\ task[t].got.age <= b
               /\ \A m \in Range(fromNM') : IsList(m) => task[t].got.age <= m.age
    <3>1. t \in TaskIds BY QueuesTyped
    <3> QED BY <1>5, <2>1, <2>4, <3>1, Ages
  <2>5. ASSUME NEW t \in Range(lockq)
        PROVE  /\ table_at <= task[t].age /\ task[t].age <= b
               /\ \A m \in Range(fromNM') : IsList(m) => task[t].age <= m.age
    <3>1. t \in TaskIds BY QueuesTyped
    <3> QED BY <1>5, <2>1, <3>1, Ages
  <2> QED BY <2>2, <2>3, <2>4, <2>5, Ages DEF b
<1> QED BY <1>1, <1>2, <1>4, <1>6 DEF OrderInv, HasList

\* A new answer has the age NetworkManager has now.
LEMMA AnswersOrder ==
  ASSUME TypeOK, OrderInv, NEW q \in Questions, NEW m \in Messages, Answers(q, m)
  PROVE  OrderInv'
<1>1. /\ fromNM' = Append(fromNM, m) /\ UNCHANGED <<task, ready, lockq, table_at, ap_state>>
      /\ m.kind = "list" => m.aps = Visible /\ m.age = Age
      BY DEF Answers, Same
<1>2. fromNM \in Seq(Messages) /\ InOrder(fromNM) BY DEF TypeOK, OrderInv
<1>3. Range(fromNM') = Range(fromNM) \cup {m} BY <1>1, <1>2, AppendRange
<1>4. Age' = Age BY <1>1 DEF Age, Visible
<1>5. IsList(m) => m.age = Age BY <1>1 DEF IsList
<1>6. InOrder(fromNM') BY <1>1, <1>2, <1>5, Ages, InOrderAppend
<1>7. \A n \in Range(fromNM') : IsList(n) => table_at <= n.age /\ n.age <= Age
      BY <1>3, <1>5, Ages
<1>8. \A t \in Range(ready) :
        task[t].at = "listing" =>
          /\ table_at <= task[t].got.age /\ task[t].got.age <= Age
          /\ \A n \in Range(fromNM') : IsList(n) => task[t].got.age <= n.age
      BY <1>3, <1>5, Ages
<1>9. \A t \in Range(lockq) :
        /\ table_at <= task[t].age /\ task[t].age <= Age
        /\ \A n \in Range(fromNM') : IsList(n) => task[t].age <= n.age
      BY <1>3, <1>5, Ages
<1> QED BY <1>1, <1>4, <1>6, <1>7, <1>8, <1>9 DEF OrderInv, HasList

\* A step that takes messages and coroutines from the queues at most, or puts in
\* coroutines that have no list.
LEMMA LessOrder ==
  ASSUME TypeOK, OrderInv, Range(fromNM') \subseteq Range(fromNM), InOrder(fromNM'),
         ReadIn(ready', task'),
         \A t \in Range(ready') :
           task'[t].at = "listing" =>
             t \in Range(ready) /\ task[t].at = "listing" /\ task'[t].got = task[t].got,
         \A t \in Range(lockq) : task'[t].age = task[t].age,
         lockq' = lockq, table_at' = table_at, Age' = Age
  PROVE  OrderInv'
<1>1. LockIn(lockq', task') BY LockInSame DEF OrderInv
<1>2. \A m \in Range(fromNM') : IsList(m) => table_at <= m.age /\ m.age <= Age
      BY Ages
<1>3. \A t \in Range(ready') :
        task'[t].at = "listing" =>
          /\ table_at <= task'[t].got.age /\ task'[t].got.age <= Age
          /\ \A m \in Range(fromNM') : IsList(m) => task'[t].got.age <= m.age
      BY Ages
<1>4. \A t \in Range(lockq) :
        /\ table_at <= task'[t].age /\ task'[t].age <= Age
        /\ \A m \in Range(fromNM') : IsList(m) => task'[t].age <= m.age
        /\ \A u \in Range(ready') : task'[u].at = "listing" => task'[t].age <= task'[u].got.age
      BY Ages
<1>5. lockq' = lockq /\ table_at' = table_at /\ Age' = Age /\ table_at <= Age BY Ages
<1> QED BY <1>1, <1>2, <1>3, <1>4, <1>5 DEF OrderInv, HasList

\* One that starts has no list.
LEMMA SpawnedOrder ==
  ASSUME TypeOK, Places, OrderInv, NEW kind \in {"call", "emit"}, NEW t, Spawned(kind, t), Same,
         Range(fromNM') \subseteq Range(fromNM), InOrder(fromNM')
  PROVE  OrderInv'
<1>1. /\ t \in TaskIds /\ task[t] = Free /\ task'[t].at = "start"
      /\ \A u \in TaskIds : u # t => task'[u] = task[u]
      BY SpawnedTask
<1>2. ready' = Append(ready, t) /\ ready \in Seq(TaskIds) BY DEF Spawned, TypeOK
<1>3. Range(ready') = Range(ready) \cup {t} BY <1>1, <1>2, AppendRange
<1>4. t \notin Range(lockq) BY <1>1, FreeTyped DEF Places, LockInv, Holding, Working
<1>5. Range(ready) \subseteq TaskIds /\ Range(lockq) \subseteq TaskIds BY QueuesTyped
<1>6. \A u \in Range(ready) : task'[u].at = "listing" => task[u].at = "listing" /\ task'[u].got = task[u].got
      BY <1>1, <1>5
<1>7. ReadIn(ready, task') BY <1>6, ReadInSame DEF OrderInv
<1>8. task'[t].at # "listing" BY <1>1
<1>9. ReadIn(ready', task')
  <2>1. ReadIn(Append(ready, t), task') BY <1>1, <1>2, <1>7, <1>8, ReadInAppend
  <2> QED BY <1>2, <2>1
<1>10. \A u \in Range(ready') :
         task'[u].at = "listing" =>
           u \in Range(ready) /\ task[u].at = "listing" /\ task'[u].got = task[u].got
       BY <1>3, <1>6, <1>8
<1>11. \A u \in Range(lockq) : task'[u].age = task[u].age BY <1>1, <1>4, <1>5
<1>12. lockq' = lockq /\ table_at' = table_at /\ Age' = Age BY DEF Same, Age, Visible
<1> QED BY <1>9, <1>10, <1>11, <1>12, LessOrder

LEMMA CallsOrder == ASSUME TypeOK, Places, OrderInv, NEW t, Calls(t) PROVE OrderInv'
<1>1. Spawned("call", t) /\ Same /\ fromNM' = fromNM BY DEF Calls
<1>2. Range(fromNM') \subseteq Range(fromNM) /\ InOrder(fromNM') BY <1>1 DEF OrderInv
<1> QED BY <1>1, <1>2, SpawnedOrder

LEMMA HearsOrder == ASSUME TypeOK, Places, OrderInv, NEW t, Hears(t) PROVE OrderInv'
<1>1. Spawned("emit", t) /\ Same /\ fromNM # <<>> /\ fromNM' = Tail(fromNM) BY DEF Hears
<1>2. fromNM \in Seq(Messages) /\ InOrder(fromNM) BY DEF TypeOK, OrderInv
<1>3. Range(fromNM') \subseteq Range(fromNM) /\ InOrder(fromNM')
      BY <1>1, <1>2, TailRange, InOrderTail
<1> QED BY <1>1, <1>3, SpawnedOrder

\* The first list on its way becomes the last one read.
LEMMA GetsOrder ==
  ASSUME TypeOK, Places, OrderInv, NEW t, NEW m, Gets(t, m)
  PROVE  OrderInv'
<1>1. /\ fromNM # <<>> /\ m = Head(fromNM) /\ fromNM' = Tail(fromNM) /\ ready' = Append(ready, t)
      /\ lockq' = lockq /\ table_at' = table_at /\ ap_state' = ap_state
      /\ fromNM \in Seq(Messages) /\ InOrder(fromNM) /\ ready \in Seq(TaskIds)
      BY DEF Gets, Same, TypeOK, OrderInv
<1>2. /\ m \in Messages /\ m \in Range(fromNM) /\ t \in TaskIds /\ t = m.of /\ t # 0
      /\ task' \in [TaskIds -> Tasks] /\ task'[t] = [task[t] EXCEPT !.got = m]
      /\ \A u \in TaskIds : u # t => task'[u] = task[u]
      BY Got
<1>3. task[t] \in Tasks BY <1>2 DEF TypeOK
<1>4. /\ task'[t].at = task[t].at /\ task'[t].age = task[t].age /\ task'[t].got = m
      BY <1>2, <1>3 DEF Tasks
<1>5. /\ task[t].at \in Waits /\ m.kind = Awaited[task[t].at] /\ t \notin Range(ready)
      BY <1>2 DEF Places, AnsweredInv
<1>6. task[t].at = "listing" => IsList(m) BY <1>2, <1>5 DEF IsList, Awaited
<1>7. /\ InOrder(fromNM') /\ Range(fromNM') \subseteq Range(fromNM)
      /\ IsList(m) => \A n \in Range(fromNM') : IsList(n) => m.age <= n.age
      BY <1>1, InOrderTail, TailRange
<1>8. Range(ready') = Range(ready) \cup {t} BY <1>1, <1>2, AppendRange
<1>9. Range(ready) \subseteq TaskIds /\ Range(lockq) \subseteq TaskIds BY QueuesTyped
<1>10. Age' = Age BY <1>1 DEF Age, Visible
<1>11. \A u \in Range(ready) : task'[u] = task[u] BY <1>2, <1>5, <1>9
<1>12. \A u \in Range(lockq) : task'[u].age = task[u].age BY <1>2, <1>4, <1>9
<1>13. ReadIn(ready', task')
  <2>1. ReadIn(ready, task') BY <1>11, ReadInSame DEF OrderInv
  <2>2. task'[t].at = "listing" =>
          \A u \in Range(ready) : task'[u].at = "listing" => task'[u].got.age <= task'[t].got.age
        BY <1>2, <1>4, <1>6, <1>11, Ages
  <2>3. ReadIn(Append(ready, t), task') BY <1>1, <1>2, <2>1, <2>2, ReadInAppend
  <2> QED BY <1>1, <2>3
<1>14. LockIn(lockq, task') BY <1>12, LockInSame DEF OrderInv
<1>15. \A n \in Range(fromNM') : IsList(n) => table_at <= n.age /\ n.age <= Age
       BY <1>7, Ages
<1>16. \A u \in Range(ready') :
         task'[u].at = "listing" =>
           /\ table_at <= task'[u].got.age /\ task'[u].got.age <= Age
           /\ \A n \in Range(fromNM') : IsList(n) => task'[u].got.age <= n.age
  <2>1. ASSUME NEW u \in Range(ready), task'[u].at = "listing"
        PROVE  /\ table_at <= task'[u].got.age /\ task'[u].got.age <= Age
               /\ \A n \in Range(fromNM') : IsList(n) => task'[u].got.age <= n.age
        BY <1>7, <1>11, <2>1, Ages
  <2>2. ASSUME task'[t].at = "listing"
        PROVE  /\ table_at <= task'[t].got.age /\ task'[t].got.age <= Age
               /\ \A n \in Range(fromNM') : IsList(n) => task'[t].got.age <= n.age
    <3>1. IsList(m) BY <1>4, <1>6, <2>2
    <3> QED BY <1>2, <1>4, <1>7, <3>1, Ages
  <2> QED BY <1>8, <2>1, <2>2
<1>17. \A u \in Range(lockq) :
         /\ table_at <= task'[u].age /\ task'[u].age <= Age
         /\ \A n \in Range(fromNM') : IsList(n) => task'[u].age <= n.age
         /\ \A v \in Range(ready') : task'[v].at = "listing" => task'[u].age <= task'[v].got.age
  <2>1. ASSUME NEW u \in Range(lockq), NEW v \in Range(ready'), task'[v].at = "listing"
        PROVE  task'[u].age <= task'[v].got.age
    <3>1. CASE v \in Range(ready) BY <1>11, <1>12, <2>1, <3>1, Ages
    <3>2. CASE v = t
      <4>1. IsList(m) BY <1>4, <1>6, <2>1, <3>2
      <4> QED BY <1>2, <1>4, <1>12, <3>2, <4>1, Ages
    <3> QED BY <1>8, <3>1, <3>2
  <2>2. ASSUME NEW u \in Range(lockq)
        PROVE  /\ table_at <= task'[u].age /\ task'[u].age <= Age
               /\ \A n \in Range(fromNM') : IsList(n) => task'[u].age <= n.age
        BY <1>7, <1>12, Ages
  <2> QED BY <2>1, <2>2
<1>18. table_at <= Age BY Ages
<1> QED BY <1>1, <1>7, <1>10, <1>13, <1>14, <1>15, <1>16, <1>17, <1>18 DEF OrderInv, HasList

\* The running coroutine leaves the loop's queue: the others are in it as they were.
LEMMA LeftReady ==
  ASSUME TypeOK, Places, OrderInv, NEW k, Writes(k)
  PROVE  /\ ReadIn(Tail(ready), task')
         /\ \A t \in Range(Tail(ready)) : t \in Range(ready) /\ t # This /\ task'[t] = task[t]
         /\ Me.at = "listing" =>
              \A t \in Range(Tail(ready)) : task[t].at = "listing" => Me.got.age <= task[t].got.age
<1>1. ready # <<>> /\ ready \in Seq(TaskIds) BY DEF Writes, TypeOK
<1>2. \A t \in TaskIds : t # This => task'[t] = task[t] BY Written
<1>3. /\ This \in TaskIds /\ task[This] = Me /\ This \notin Range(Tail(ready))
      /\ Range(Tail(ready)) \subseteq Range(ready)
      BY <1>1, ThisPlace
<1>4. \A t \in Range(Tail(ready)) : t \in Range(ready) /\ t # This /\ task'[t] = task[t]
      BY <1>2, <1>3, QueuesTyped
<1>5. /\ ReadIn(Tail(ready), task)
      /\ task[This].at = "listing" =>
           \A t \in Range(Tail(ready)) : task[t].at = "listing" => task[This].got.age <= task[t].got.age
      BY <1>1, ReadInTail DEF OrderInv, This
<1>6. ReadIn(Tail(ready), task') BY <1>4, <1>5, ReadInSame
<1> QED BY <1>3, <1>4, <1>5, <1>6

LEMMA AsksOrder ==
  ASSUME TypeOK, Places, OrderInv, NEW k \in Tasks, NEW q \in Questions, Asks(k, q)
  PROVE  OrderInv'
<1>1. /\ Writes(k) /\ ready # <<>> /\ fromNM' = fromNM /\ ready' = Tail(ready) /\ lockq' = lockq
      /\ table_at' = table_at /\ (Me.at = "start" \/ (Me.at \in Working /\ k.age = Me.age))
      BY DEF Asks, Becomes, Writes
<1>2. /\ task'[This] = k /\ Age' = Age /\ \A t \in TaskIds : t # This => task'[t] = task[t]
      BY <1>1, Written
<1>3. task[This] = Me /\ (Me.at \in Holding <=> This \in Range(lockq)) BY <1>1, ThisPlace
<1>4. This \in Range(lockq) => k.age = Me.age BY <1>1, <1>3 DEF Holding, Working
<1>5. \A t \in Range(lockq) : task'[t].age = task[t].age BY <1>2, <1>3, <1>4, QueuesTyped
<1>6. /\ ReadIn(ready', task')
      /\ \A t \in Range(ready') :
           task'[t].at = "listing" =>
             t \in Range(ready) /\ task[t].at = "listing" /\ task'[t].got = task[t].got
      BY <1>1, LeftReady
<1>7. Range(fromNM') \subseteq Range(fromNM) /\ InOrder(fromNM') BY <1>1 DEF OrderInv
<1> QED BY <1>1, <1>2, <1>5, <1>6, <1>7, LessOrder

LEMMA RepliesOrder == ASSUME TypeOK, Places, OrderInv, Replies PROVE OrderInv'
<1>1. /\ Writes(Free) /\ ready # <<>> /\ fromNM' = fromNM /\ ready' = Tail(ready) /\ lockq' = lockq
      /\ table_at' = table_at /\ Me.at = "reply"
      BY DEF Replies, Writes
<1>2. /\ Age' = Age /\ \A t \in TaskIds : t # This => task'[t] = task[t]
      BY <1>1, Written
<1>3. Me.at \in Holding <=> This \in Range(lockq) BY <1>1, ThisPlace
<1>4. This \notin Range(lockq) BY <1>1, <1>3 DEF Holding, Working
<1>5. \A t \in Range(lockq) : task'[t].age = task[t].age BY <1>2, <1>4, QueuesTyped
<1>6. /\ ReadIn(ready', task')
      /\ \A t \in Range(ready') :
           task'[t].at = "listing" =>
             t \in Range(ready) /\ task[t].at = "listing" /\ task'[t].got = task[t].got
      BY <1>1, LeftReady
<1>7. Range(fromNM') \subseteq Range(fromNM) /\ InOrder(fromNM') BY <1>1 DEF OrderInv
<1> QED BY <1>1, <1>2, <1>5, <1>6, <1>7, LessOrder

\* Who takes a lock that nobody holds has a list as old as the table or newer.
LEMMA GoesOnOrder ==
  ASSUME TypeOK, Places, OrderInv, NEW k \in Tasks, GoesOn(k)
  PROVE  OrderInv'
<1>1. /\ Writes(k) /\ ready # <<>> /\ fromNM' = fromNM /\ ready' = ready /\ table_at' = table_at
      /\ k.at = "next"
      /\ \/ Me.at \in Holding /\ k.age = Me.age /\ lockq' = lockq
         \/ Me.at = "listing" /\ lockq = <<>> /\ lockq' = <<This>> /\ k.age = Me.got.age
      BY DEF GoesOn, Becomes, Writes
<1>2. /\ task'[This] = k /\ Age' = Age /\ \A t \in TaskIds : t # This => task'[t] = task[t]
      BY <1>1, Written
<1>3. /\ task[This] = Me /\ (Me.at \in Holding <=> This \in Range(lockq)) /\ This \in TaskIds
      /\ Range(ready) = Range(Tail(ready)) \cup {This} /\ This \in Range(ready)
      BY <1>1, ThisPlace
<1>4. \A t \in Range(ready) :
        task'[t].at = "listing" => t # This /\ task'[t] = task[t]
      BY <1>1, <1>2, QueuesTyped
<1>5. ReadIn(ready', task') BY <1>1, <1>4, ReadInSame DEF OrderInv
<1>6. Range(fromNM') \subseteq Range(fromNM) /\ InOrder(fromNM') BY <1>1 DEF OrderInv
<1>7. CASE Me.at \in Holding /\ k.age = Me.age /\ lockq' = lockq
  <2>1. \A t \in Range(lockq) : task'[t].age = task[t].age BY <1>2, <1>3, <1>7, QueuesTyped
  <2>2. \A t \in Range(ready') :
          task'[t].at = "listing" =>
            t \in Range(ready) /\ task[t].at = "listing" /\ task'[t].got = task[t].got
        BY <1>1, <1>4
  <2> QED BY <1>1, <1>2, <1>5, <1>6, <1>7, <2>1, <2>2, LessOrder
<1>8. CASE Me.at = "listing" /\ lockq = <<>> /\ lockq' = <<This>> /\ k.age = Me.got.age
  <2>1. Range(lockq') = {This} BY <1>8 DEF Range
  <2>2. LockIn(lockq', task') BY <1>8 DEF LockIn
  <2>3. /\ table_at <= k.age /\ k.age <= Age
        /\ \A m \in Range(fromNM) : IsList(m) => k.age <= m.age
        BY <1>3, <1>8, Ages
  <2>4. ASSUME NEW u \in Range(ready), task'[u].at = "listing" PROVE k.age <= task'[u].got.age
    <3>1. u # This /\ task'[u] = task[u] BY <1>4, <2>4
    <3>2. u \in Range(Tail(ready)) BY <1>3, <3>1
    <3> QED BY <1>1, <1>8, <2>4, <3>1, <3>2, LeftReady
  <2>5. \A t \in Range(lockq') :
          /\ table_at <= task'[t].age /\ task'[t].age <= Age
          /\ \A m \in Range(fromNM) : IsList(m) => task'[t].age <= m.age
          /\ \A u \in Range(ready) : task'[u].at = "listing" => task'[t].age <= task'[u].got.age
        BY <1>2, <2>1, <2>3, <2>4
  <2>6. \A t \in Range(ready) :
          task'[t].at = "listing" =>
            /\ table_at <= task'[t].got.age /\ task'[t].got.age <= Age
            /\ \A m \in Range(fromNM) : IsList(m) => task'[t].got.age <= m.age
        BY <1>4, Ages
  <2>7. table_at <= Age /\ \A m \in Range(fromNM) : IsList(m) => table_at <= m.age /\ m.age <= Age
        BY Ages
  <2> QED BY <1>1, <1>2, <1>5, <1>6, <2>2, <2>5, <2>6, <2>7 DEF OrderInv, HasList
<1> QED BY <1>1, <1>7, <1>8

\* Who waits for the lock has a list that is no older than those before it.
LEMMA WaitsOrder ==
  ASSUME TypeOK, Places, OrderInv, NEW k \in Tasks, WaitsForLock(k)
  PROVE  OrderInv'
<1>1. /\ Writes(k) /\ ready # <<>> /\ fromNM' = fromNM /\ ready' = Tail(ready)
      /\ table_at' = table_at /\ k.at = "locked"
      /\ Me.at = "listing" /\ lockq' = Append(lockq, This) /\ k.age = Me.got.age
      BY DEF WaitsForLock, Becomes, Writes
<1>2. /\ task'[This] = k /\ Age' = Age /\ \A t \in TaskIds : t # This => task'[t] = task[t]
      BY <1>1, Written
<1>3. /\ task[This] = Me /\ (Me.at \in Holding <=> This \in Range(lockq)) /\ This \in TaskIds
      /\ Range(ready) = Range(Tail(ready)) \cup {This} /\ This \in Range(ready)
      BY <1>1, ThisPlace
<1>4. This \notin Range(lockq) /\ lockq \in Seq(TaskIds)
      BY <1>1, <1>3 DEF Holding, Working, TypeOK
<1>5. Range(lockq') = Range(lockq) \cup {This} BY <1>1, <1>3, <1>4, AppendRange
<1>6. \A t \in Range(lockq) : task'[t] = task[t] BY <1>2, <1>4, QueuesTyped
<1>7. /\ ReadIn(ready', task')
      /\ \A t \in Range(ready') : t \in Range(ready) /\ t # This /\ task'[t] = task[t]
      /\ \A t \in Range(ready') : task[t].at = "listing" => Me.got.age <= task[t].got.age
      BY <1>1, LeftReady
<1>8. LockIn(lockq', task')
  <2>1. LockIn(lockq, task') BY <1>6, LockInSame DEF OrderInv
  <2>2. \A t \in Range(lockq) : task'[t].age <= task'[This].age
        BY <1>1, <1>2, <1>3, <1>6, Ages
  <2>3. LockIn(Append(lockq, This), task') BY <1>3, <1>4, <2>1, <2>2, LockInAppend
  <2> QED BY <1>1, <2>3
<1>9. /\ table_at <= k.age /\ k.age <= Age
      /\ \A m \in Range(fromNM) : IsList(m) => k.age <= m.age
      BY <1>1, <1>3, Ages
<1>10. \A t \in Range(lockq') :
         /\ table_at <= task'[t].age /\ task'[t].age <= Age
         /\ \A m \in Range(fromNM) : IsList(m) => task'[t].age <= m.age
         /\ \A u \in Range(ready') : task'[u].at = "listing" => task'[t].age <= task'[u].got.age
  <2>1. ASSUME NEW t \in Range(lockq)
        PROVE  /\ table_at <= task'[t].age /\ task'[t].age <= Age
               /\ \A m \in Range(fromNM) : IsList(m) => task'[t].age <= m.age
               /\ \A u \in Range(ready') : task'[u].at = "listing" => task'[t].age <= task'[u].got.age
        BY <1>6, <1>7, Ages
  <2>2. /\ table_at <= task'[This].age /\ task'[This].age <= Age
        /\ \A m \in Range(fromNM) : IsList(m) => task'[This].age <= m.age
        /\ \A u \in Range(ready') : task'[u].at = "listing" => task'[This].age <= task'[u].got.age
        BY <1>1, <1>2, <1>7, <1>9
  <2> QED BY <1>5, <2>1, <2>2
<1>11. \A t \in Range(ready') :
         task'[t].at = "listing" =>
           /\ table_at <= task'[t].got.age /\ task'[t].got.age <= Age
           /\ \A m \in Range(fromNM) : IsList(m) => task'[t].got.age <= m.age
       BY <1>7, Ages
<1>12. table_at <= Age /\ \A m \in Range(fromNM) : IsList(m) => table_at <= m.age /\ m.age <= Age
       BY Ages
<1>13. InOrder(fromNM) BY DEF OrderInv
<1> QED BY <1>1, <1>2, <1>7, <1>8, <1>10, <1>11, <1>12, <1>13 DEF OrderInv, HasList

\* The table takes the age of the list of the lock's first holder.
LEMMA EndsOrder ==
  ASSUME TypeOK, Places, OrderInv, NEW k \in Tasks, Ends(k)
  PROVE  OrderInv' /\ table_at <= table_at' /\ table_at' = Me.age
<1>1. /\ Writes(k) /\ ready # <<>> /\ fromNM' = fromNM /\ table_at' = Me.age /\ Me.at = "next"
      /\ (k = Free \/ k.at = "reply")
      BY DEF Ends, Writes
<1>2. /\ task'[This] = k /\ Age' = Age /\ \A t \in TaskIds : t # This => task'[t] = task[t]
      BY <1>1, Written
<1>3. /\ task[This] = Me /\ This \in TaskIds /\ This \in Range(lockq) /\ lockq # <<>>
      /\ Tail(ready) \in Seq(TaskIds)
      BY <1>1, ThisPlace DEF Holding, Working
<1>4. /\ lockq[1] = This /\ Range(lockq) = Range(lockq') \cup {This} /\ This \notin Range(lockq')
      /\ \A t \in Range(ready') :
           \/ t \in Range(Tail(ready))
           \/ lockq' # <<>> /\ t = lockq'[1] /\ t \in Range(lockq')
           \/ t = This /\ k # Free
      /\ \A t \in Range(lockq') : t \in TaskIds /\ task[t].at = "locked" /\ t \notin Range(ready)
      BY EndsMembers
<1>5. k.at # "listing" BY <1>1, FreeTyped
<1>6. \A t \in Range(lockq') : task'[t] = task[t] BY <1>2, <1>4
<1>7. \A t \in Range(Tail(ready)) : t \in Range(ready) /\ t # This /\ task'[t] = task[t]
      BY <1>1, LeftReady
\* A coroutine with a list is among those that were in the loop's queue before.
<1>8. \A t \in Range(ready') :
        task'[t].at = "listing" => t \in Range(Tail(ready)) /\ task'[t] = task[t] /\ t \in Range(ready)
      BY <1>2, <1>4, <1>5, <1>6, <1>7
<1>9. ReadIn(ready', task')
  <2> DEFINE r == IF Tail(lockq) = <<>> THEN Tail(ready)
                  ELSE Append(Tail(ready), Head(Tail(lockq)))
  <2>1. /\ r \in Seq(TaskIds) /\ ready' = IF k = Free THEN r ELSE Append(r, This)
        /\ lockq' = Tail(lockq) /\ Tail(lockq) \in Seq(TaskIds)
        BY EndsQueues DEF Places
  <2>2. ReadIn(Tail(ready), task') BY <1>1, LeftReady
  <2>3. ReadIn(r, task')
    <3>1. CASE Tail(lockq) = <<>> BY <2>2, <3>1
    <3>2. CASE Tail(lockq) # <<>>
      <4> DEFINE s == Tail(ready)  h == Head(Tail(lockq))
      <4>1. h \in Range(lockq') /\ h \in TaskIds BY <2>1, <3>2, TailOf, TailRange
      <4>2. task'[h].at # "listing" BY <1>4, <1>6, <4>1
      <4>3. s \in Seq(TaskIds) /\ ReadIn(s, task') BY <1>3, <2>2
      <4>4. r = Append(s, h) BY <3>2
      <4> HIDE DEF s, h, r
      <4>5. ReadIn(Append(s, h), task') BY <4>1, <4>2, <4>3, ReadInAppend
      <4> QED BY <4>4, <4>5
    <3> QED BY <3>1, <3>2
  <2> HIDE DEF r
  <2>4. ReadIn(Append(r, This), task')
    <3>1. task'[This].at # "listing" BY <1>2, <1>5
    <3> QED BY <1>3, <2>1, <2>3, <3>1, ReadInAppend
  <2> QED BY <2>1, <2>3, <2>4
<1>10. LockIn(lockq', task') /\ \A t \in Range(lockq') : Me.age <= task'[t].age
  <2>1. lockq \in Seq(TaskIds) /\ LockIn(lockq, task) BY DEF TypeOK, OrderInv
  <2>2. lockq' = Tail(lockq) BY EndsQueues DEF Places
  <2>3. Head(lockq) = This BY <1>3, <1>4, <2>1, TailOf
  <2>4. /\ LockIn(lockq', task)
        /\ \A t \in Range(lockq') : Me.age <= task[t].age
        BY <1>3, <2>1, <2>2, <2>3, LockInTail
  <2> QED BY <1>6, <2>4, LockInSame
<1>11. /\ table_at <= Me.age /\ Me.age <= Age
       /\ \A m \in Range(fromNM) : IsList(m) => Me.age <= m.age /\ m.age <= Age
       /\ \A u \in Range(ready) : task[u].at = "listing" => Me.age <= task[u].got.age
       BY <1>3, Ages
<1>12. \A t \in Range(ready') :
         task'[t].at = "listing" =>
           /\ Me.age <= task'[t].got.age /\ task'[t].got.age <= Age
           /\ \A m \in Range(fromNM) : IsList(m) => task'[t].got.age <= m.age
       BY <1>8, <1>11, Ages
<1>13. \A t \in Range(lockq') :
         /\ task'[t].age <= Age
         /\ \A m \in Range(fromNM) : IsList(m) => task'[t].age <= m.age
         /\ \A u \in Range(ready') : task'[u].at = "listing" => task'[t].age <= task'[u].got.age
  <2>1. ASSUME NEW t \in Range(lockq')
        PROVE  /\ task'[t].age <= Age
               /\ \A m \in Range(fromNM) : IsList(m) => task'[t].age <= m.age
               /\ \A u \in Range(ready) : task[u].at = "listing" => task'[t].age <= task[u].got.age
        BY <1>4, <1>6, Ages
  <2> QED BY <1>8, <2>1
<1>14. InOrder(fromNM) BY DEF OrderInv
<1> QED BY <1>1, <1>2, <1>9, <1>10, <1>11, <1>12, <1>13, <1>14 DEF OrderInv, HasList

LEMMA StepsOrder == ASSUME TypeOK, Places, OrderInv, Steps PROVE OrderInv' /\ table_at' = table_at
<1>1. table_at' = table_at BY DEF Steps, Asks, GoesOn, WaitsForLock, Becomes
<1> QED BY <1>1, AsksOrder, GoesOnOrder, WaitsOrder DEF Steps

-----------------------------------------------------------------------------
(* What is made of a list that is not old. *)

\* FreshInv as facts about the members of the queues.
LEMMA Fresh ==
  ASSUME FreshInv
  PROVE  /\ \A m \in Range(fromNM) : IsList(m) /\ m.age = Age => m.aps = Visible
         /\ \A t \in Range(ready) :
              task[t].at = "listing" /\ task[t].got.age = Age => task[t].got.aps = Visible
         /\ \A t \in Range(lockq) : task[t].age = Age => Whole(task[t])
         /\ \A m \in Range(fromNM) :
              m.of # 0 /\ task[m.of].at = "reading" /\ task[m.of].age = Age => m.ok
         /\ \A t \in Range(ready) : task[t].at = "reading" /\ task[t].age = Age => task[t].got.ok
         /\ table_at = Age => Exported = InRange
BY DEF FreshInv, HasList, Whole

\* What FreshInv says after a step that changes nothing at NetworkManager.
LEMMA FreshBy ==
  ASSUME Age' = Age, Visible' = Visible, InRange' = InRange, hidden' = hidden,
         \A m \in Range(fromNM') : IsList(m) /\ m.age = Age => m.aps = Visible,
         \A t \in Range(ready') :
           task'[t].at = "listing" /\ task'[t].got.age = Age => task'[t].got.aps = Visible,
         \A t \in Range(lockq') : task'[t].age = Age => Whole(task'[t]),
         \A m \in Range(fromNM') :
           m.of # 0 /\ task'[m.of].at = "reading" /\ task'[m.of].age = Age => m.ok,
         \A t \in Range(ready') : task'[t].at = "reading" /\ task'[t].age = Age => task'[t].got.ok,
         table_at' = Age => Exported' = InRange
  PROVE  FreshInv'
<1>1. \A t \in Range(lockq') :
        task'[t].age = Age => Ahead(task'[t]) \subseteq Visible /\ Shown(task'[t]) = InRange
      BY DEF Whole
<1> QED BY <1>1 DEF FreshInv, HasList, Shown, Ahead

\* After a change every list there is is older than NetworkManager.
LEMMA SignalsFresh ==
  ASSUME TypeOK, Places, OrderInv, FreshInv, SignalsCome
  PROVE  FreshInv'
<1>1. /\ Grows(fromNM, fromNM')
      /\ UNCHANGED <<hidden, task, ready, lockq, services, table_at>>
      /\ (ap_state' = ap_state \/ Age' = Age + 1)
      BY DEF SignalsCome
<1>2. \A m \in Range(fromNM') : m \in Range(fromNM) \/ m.of = 0 BY <1>1 DEF Grows
<1>3. Exported' = Exported BY <1>1 DEF Exported
<1>4. CASE ap_state' = ap_state
  <2>1. Age' = Age /\ Visible' = Visible /\ InRange' = InRange
        BY <1>1, <1>4 DEF Age, Visible, InRange
  <2>2. \A m \in Range(fromNM') : IsList(m) /\ m.age = Age => m.aps = Visible
        BY <1>2, Fresh DEF IsList
  <2>3. \A m \in Range(fromNM') :
          m.of # 0 /\ task'[m.of].at = "reading" /\ task'[m.of].age = Age => m.ok
        BY <1>1, <1>2, Fresh
  <2> QED BY <1>1, <1>3, <2>1, <2>2, <2>3, Fresh, FreshBy
<1>5. CASE Age' = Age + 1
  <2> DEFINE b == Age'
  <2>1. \A x \in Nat \cup {-1} : x <= Age => x # b BY <1>5, AgeNat
  <2> HIDE DEF b
  <2>2. \A m \in Range(fromNM') : IsList(m) => m \in Range(fromNM) /\ m.age # b
        BY <1>2, <2>1, Ages DEF IsList
  <2>3. \A t \in Range(ready) : task[t].at = "listing" => task[t].got.age # b
        BY <2>1, Ages, QueuesTyped
  <2>4. \A t \in Range(lockq) : task[t].age # b BY <2>1, Ages, QueuesTyped
  <2>5. table_at # b BY <2>1, Ages
  <2>6. \A t \in TaskIds : task[t].at = "reading" => task[t].age # b
        BY <2>4 DEF Places, LockInv, Holding, Working
  <2>7. \A t \in Range(ready) : task[t].at = "reading" => task[t].age # b BY <2>6, QueuesTyped
  <2>8. \A m \in Range(fromNM') : m.of # 0 /\ task[m.of].at = "reading" => task[m.of].age # b
        BY <1>2, <2>6, QueuesTyped
  <2> QED BY <1>1, <2>2, <2>3, <2>4, <2>5, <2>7, <2>8 DEF FreshInv, HasList, b
<1> QED BY <1>1, <1>4, <1>5

\* A new list is what is visible, and what is in it can be read.
LEMMA AnswersFresh ==
  ASSUME TypeOK, Places, FreshInv, NEW q \in Questions, NEW m \in Messages, Answers(q, m)
  PROVE  FreshInv'
<1>1. /\ toNM # <<>> /\ q = Head(toNM) /\ m.of = q.of /\ m.kind = q.kind
      /\ fromNM' = Append(fromNM, m) /\ UNCHANGED <<task, ready, lockq, table_at, services, ap_state, hidden>>
      /\ m.kind = "list" => m.aps = Visible /\ m.age = Age
      /\ m.kind = "properties" => (m.ok <=> q.ap \in Visible)
      BY DEF Answers, Same
<1>2. toNM \in Seq(Questions) /\ fromNM \in Seq(Messages) BY DEF TypeOK
<1>3. q \in Range(toNM) BY <1>1, <1>2, TailRange
<1>4. Range(fromNM') = Range(fromNM) \cup {m} BY <1>1, <1>2, AppendRange
<1>5. Age' = Age /\ Visible' = Visible /\ InRange' = InRange /\ Exported' = Exported
      BY <1>1 DEF Age, Visible, InRange, Exported
<1>6. IsList(m) => m.aps = Visible BY <1>1 DEF IsList
\* What has been listed and not vanished since is visible.
<1>7. ASSUME task[m.of].at = "reading", task[m.of].age = Age PROVE m.ok
  <2>1. /\ q.kind = Awaited[task[q.of].at] /\ q.ap = task[q.of].ap
        BY <1>1, <1>3, <1>7 DEF Places, AskedInv
  <2>2. q.kind = "properties" BY <1>1, <1>7, <2>1 DEF Awaited
  <2>3. m.of \in Range(lockq)
        BY <1>1, <1>3, <1>7, QueuesTyped DEF Places, LockInv, Holding, Working
  <2>4. Ahead(task[m.of]) \subseteq Visible BY <1>7, <2>3, Fresh DEF Whole
  <2>5. task[m.of].ap \in Visible BY <1>7, <2>4 DEF Ahead
  <2> QED BY <1>1, <2>1, <2>2, <2>5
<1>8. \A n \in Range(fromNM') : IsList(n) /\ n.age = Age => n.aps = Visible
      BY <1>4, <1>6, Fresh
<1>9. \A n \in Range(fromNM') :
        n.of # 0 /\ task[n.of].at = "reading" /\ task[n.of].age = Age => n.ok
      BY <1>4, <1>7, Fresh
<1> QED BY <1>1, <1>5, <1>8, <1>9, Fresh, FreshBy

LEMMA SpawnedFresh ==
  ASSUME TypeOK, Places, FreshInv, NEW kind \in {"call", "emit"}, NEW t, Spawned(kind, t), Same,
         Range(fromNM') \subseteq Range(fromNM)
  PROVE  FreshInv'
<1>1. /\ t \in TaskIds /\ task[t] = Free /\ task'[t].at = "start"
      /\ \A u \in TaskIds : u # t => task'[u] = task[u]
      BY SpawnedTask
<1>2. ready' = Append(ready, t) /\ ready \in Seq(TaskIds) BY DEF Spawned, TypeOK
<1>3. Range(ready') = Range(ready) \cup {t} BY <1>1, <1>2, AppendRange
<1>4. t \notin Range(lockq) BY <1>1, FreeTyped DEF Places, LockInv, Holding, Working
<1>5. /\ UNCHANGED <<lockq, table_at, services, ap_state, hidden>>
      /\ Age' = Age /\ Visible' = Visible /\ InRange' = InRange /\ Exported' = Exported
      BY DEF Same, Age, Visible, InRange, Exported
<1>6. \A u \in Range(ready') : task'[u].at # "start" => u \in Range(ready) /\ task'[u] = task[u]
      BY <1>1, <1>3, QueuesTyped
<1>7. \A u \in Range(lockq) : task'[u] = task[u] BY <1>1, <1>4, QueuesTyped
<1>8. ASSUME NEW m \in Range(fromNM'), m.of # 0, task'[m.of].at = "reading", task'[m.of].age = Age
      PROVE  m.ok
  <2>1. m \in Range(fromNM) OBVIOUS
  <2>2. m.of # t /\ m.of \in TaskIds BY <1>1, <1>8, <2>1, QueuesTyped
  <2> QED BY <1>1, <1>8, <2>1, <2>2, Fresh
<1>9. \A u \in Range(ready') :
        task'[u].at = "listing" /\ task'[u].got.age = Age => task'[u].got.aps = Visible
      BY <1>6, Fresh
<1>10. \A u \in Range(ready') :
         task'[u].at = "reading" /\ task'[u].age = Age => task'[u].got.ok
       BY <1>6, Fresh
<1>11. \A m \in Range(fromNM') : IsList(m) /\ m.age = Age => m.aps = Visible BY Fresh
<1>12. \A u \in Range(lockq') : task'[u].age = Age => Whole(task'[u]) BY <1>5, <1>7, Fresh
<1>13. table_at' = Age => Exported' = InRange BY <1>5, Fresh
<1> QED BY <1>5, <1>8, <1>9, <1>10, <1>11, <1>12, <1>13, FreshBy

LEMMA CallsFresh == ASSUME TypeOK, Places, FreshInv, NEW t, Calls(t) PROVE FreshInv'
<1>1. Spawned("call", t) /\ Same /\ fromNM' = fromNM BY DEF Calls
<1> QED BY <1>1, SpawnedFresh

LEMMA HearsFresh == ASSUME TypeOK, Places, FreshInv, NEW t, Hears(t) PROVE FreshInv'
<1>1. Spawned("emit", t) /\ Same /\ fromNM # <<>> /\ fromNM' = Tail(fromNM) BY DEF Hears
<1>2. Range(fromNM') \subseteq Range(fromNM) BY <1>1, TailRange DEF TypeOK
<1> QED BY <1>1, <1>2, SpawnedFresh

\* What is read is what was sent.
LEMMA GetsFresh ==
  ASSUME TypeOK, Places, FreshInv, NEW t, NEW m, Gets(t, m)
  PROVE  FreshInv'
<1>1. /\ fromNM # <<>> /\ fromNM' = Tail(fromNM) /\ ready' = Append(ready, t)
      /\ UNCHANGED <<lockq, table_at, services, ap_state, hidden>>
      /\ fromNM \in Seq(Messages) /\ ready \in Seq(TaskIds)
      BY DEF Gets, Same, TypeOK
<1>2. /\ m \in Messages /\ m \in Range(fromNM) /\ t \in TaskIds /\ t = m.of /\ t # 0
      /\ task' \in [TaskIds -> Tasks] /\ task'[t] = [task[t] EXCEPT !.got = m]
      /\ \A u \in TaskIds : u # t => task'[u] = task[u]
      BY Got
<1>3. task[t] \in Tasks BY <1>2 DEF TypeOK
<1>4. /\ task'[t].at = task[t].at /\ task'[t].age = task[t].age /\ task'[t].got = m
      /\ task'[t].aps = task[t].aps /\ task'[t].ap = task[t].ap /\ task'[t].current = task[t].current
      BY <1>2, <1>3 DEF Tasks
<1>5. /\ task[t].at \in Waits /\ m.kind = Awaited[task[t].at] /\ t \notin Range(ready)
      BY <1>2 DEF Places, AnsweredInv
<1>6. task[t].at = "listing" => IsList(m) BY <1>2, <1>5 DEF IsList, Awaited
<1>7. Range(fromNM') \subseteq Range(fromNM) BY <1>1, TailRange
<1>8. Range(ready') = Range(ready) \cup {t} BY <1>1, <1>2, AppendRange
<1>9. Age' = Age /\ Visible' = Visible /\ InRange' = InRange /\ Exported' = Exported
      BY <1>1 DEF Age, Visible, InRange, Exported
<1>10. \A u \in Range(ready) : task'[u] = task[u] BY <1>2, <1>5, QueuesTyped
<1>11. Whole(task[t]) => Whole(task'[t]) BY <1>4 DEF Whole, Shown, Ahead
<1>a. m \in Range(fromNM) /\ t = m.of /\ t # 0 /\ \A u \in TaskIds : u # t => task'[u] = task[u]
      BY <1>2
<1>12. ASSUME NEW u \in Range(lockq'), task'[u].age = Age PROVE Whole(task'[u])
  <2>1. u \in Range(lockq) /\ u \in TaskIds BY <1>1, QueuesTyped
  <2>2. CASE u = t BY <1>4, <1>11, <1>12, <2>1, <2>2, Fresh
  <2>3. CASE u # t BY <1>a, <1>12, <2>1, <2>3, Fresh
  <2> QED BY <2>2, <2>3
<1>13. ASSUME NEW u \in Range(ready'), task'[u].at = "listing", task'[u].got.age = Age
       PROVE  task'[u].got.aps = Visible
  <2>1. CASE u = t
    <3>1. IsList(m) /\ m.age = Age BY <1>4, <1>6, <1>13, <2>1
    <3>2. m.aps = Visible BY <1>a, <3>1, Fresh
    <3> QED BY <1>4, <2>1, <3>2
  <2>2. CASE u \in Range(ready) BY <1>10, <1>13, <2>2, Fresh
  <2> QED BY <1>8, <2>1, <2>2
<1>14. ASSUME NEW u \in Range(ready'), task'[u].at = "reading", task'[u].age = Age
       PROVE  task'[u].got.ok
  <2>1. CASE u = t
    <3>1. task[m.of].at = "reading" /\ task[m.of].age = Age /\ m.of # 0 BY <1>a, <1>4, <1>14, <2>1
    <3>2. m.ok BY <1>a, <3>1, Fresh
    <3> QED BY <1>4, <2>1, <3>2
  <2>2. CASE u \in Range(ready) BY <1>10, <1>14, <2>2, Fresh
  <2> QED BY <1>8, <2>1, <2>2
<1>15. ASSUME NEW n \in Range(fromNM'), n.of # 0, task'[n.of].at = "reading", task'[n.of].age = Age
       PROVE  n.ok
  <2>1. n \in Range(fromNM) BY <1>7
  <2>2. n.of \in TaskIds BY <1>15, <2>1, QueuesTyped
  <2>3. task[n.of].at = "reading" /\ task[n.of].age = Age BY <1>2, <1>4, <1>15, <2>2
  <2> QED BY <1>15, <2>1, <2>3, Fresh
<1>16. \A n \in Range(fromNM') : IsList(n) /\ n.age = Age => n.aps = Visible BY <1>7, Fresh
<1>17. table_at' = Age => Exported' = InRange BY <1>1, <1>9, Fresh
<1> QED BY <1>1, <1>9, <1>12, <1>13, <1>14, <1>15, <1>16, <1>17, FreshBy

\* A step of the running coroutine that leaves what its list says whole.
LEMMA WritesFresh ==
  ASSUME TypeOK, Places, FreshInv, NEW k, Writes(k), fromNM' = fromNM,
         \A t \in Range(ready') :
           task'[t].at \in {"listing", "reading"} => t \in Range(ready) /\ t # This,
         Range(lockq') \subseteq Range(lockq) \cup {This},
         This \in Range(lockq') /\ k.age = Age => Whole(k),
         table_at' = Age => Exported' = InRange
  PROVE  FreshInv'
<1>1. ready # <<>> BY DEF Writes
<1>2. /\ task'[This] = k /\ \A t \in TaskIds : t # This => task'[t] = task[t]
      BY Written
<1>3. ~Waited(fromNM, This) BY <1>1, ThisPlace
<1>4. Age' = Age /\ Visible' = Visible /\ InRange' = InRange /\ hidden' = hidden BY Written
<1>5. \A t \in Range(ready') :
        task'[t].at = "listing" /\ task'[t].got.age = Age => task'[t].got.aps = Visible
      BY <1>2, Fresh, QueuesTyped
<1>6. \A t \in Range(ready') :
        task'[t].at = "reading" /\ task'[t].age = Age => task'[t].got.ok
      BY <1>2, Fresh, QueuesTyped
<1>7. \A t \in Range(lockq') : task'[t].age = Age => Whole(task'[t])
      BY <1>2, Fresh, QueuesTyped
<1>8. ASSUME NEW m \in Range(fromNM'), m.of # 0, task'[m.of].at = "reading", task'[m.of].age = Age
      PROVE  m.ok
  <2>1. m \in Range(fromNM) OBVIOUS
  <2>2. m.of \in TaskIds /\ m.of # This BY <1>3, <1>8, <2>1, QueuesTyped DEF Waited
  <2> QED BY <1>2, <1>8, <2>1, <2>2, Fresh
<1>9. \A m \in Range(fromNM') : IsList(m) /\ m.age = Age => m.aps = Visible BY Fresh
<1> QED BY <1>4, <1>5, <1>6, <1>7, <1>8, <1>9, FreshBy

LEMMA BecomesExported ==
  ASSUME TypeOK, FreshInv, NEW k, Becomes(k), table_at = Age => k.current \subseteq InRange
  PROVE  table_at' = Age => Exported' = InRange
<1>1. /\ table_at' = table_at /\ Exported \subseteq Exported' /\ Exported' \subseteq Exported \cup k.current
      BY DEF Becomes, Exports
<1> QED BY <1>1, Fresh

\* The holder of the lock whose list is not old has listed what is in range.
LEMMA MeWhole ==
  ASSUME TypeOK, Places, OrderInv, FreshInv, ready # <<>>, Me.at \in Holding
  PROVE  /\ table_at = Age => Me.age = Age
         /\ Me.age = Age => Whole(Me) /\ (Me.at = "reading" => Me.got.ok)
<1>1. task[This] = Me /\ This \in Range(lockq) /\ This \in Range(ready) /\ This \in TaskIds
      BY ThisPlace
<1>2. table_at <= Me.age /\ Me.age <= Age /\ Me.age \in Nat /\ Age \in Nat
      BY <1>1, Ages
<1>3. table_at = Age => Me.age = Age
  <2> DEFINE a == Me.age  b == Age
  <2>1. table_at <= a /\ a <= b /\ a \in Nat /\ b \in Nat BY <1>2
  <2> HIDE DEF a, b
  <2>2. table_at = b => a = b BY <2>1
  <2> QED BY <2>2 DEF a, b
<1> QED BY <1>1, <1>3, Fresh

LEMMA AsksFresh ==
  ASSUME TypeOK, Places, OrderInv, FreshInv, NEW k \in Tasks, NEW q \in Questions, Asks(k, q)
  PROVE  FreshInv'
<1>1. /\ Becomes(k) /\ Writes(k) /\ ready # <<>> /\ fromNM' = fromNM
      /\ \/ Me.at = "start" /\ k.at = "listing" /\ k.current = Me.current
         \/ Me.at \in Working /\ k.at \in Working /\ k.age = Me.age /\ StaysWhole(k)
      /\ ready' = Tail(ready) /\ lockq' = lockq
      BY DEF Asks, Becomes, Writes
<1>2. /\ task[This] = Me /\ This \in TaskIds /\ (Me.at \in Holding <=> This \in Range(lockq))
      BY <1>1, ThisPlace
<1>3. Me.at = "start" => Me.current = {} BY <1>2 DEF Places, FreeInv
<1>4. Me.at \in Working /\ k.age = Age => Whole(k)
      BY <1>1, MeWhole DEF StaysWhole, Holding, Working
<1>5. table_at = Age => k.current \subseteq InRange
  <2>1. CASE Me.at = "start" BY <1>1, <1>3, <2>1 DEF Working
  <2>2. CASE Me.at \in Working
        BY <1>1, <1>4, <2>2, MeWhole DEF Whole, Shown, Holding, Working
  <2> QED BY <1>1, <2>1, <2>2
<1>6. This \in Range(lockq') /\ k.age = Age => Whole(k)
      BY <1>1, <1>2, <1>4 DEF Holding, Working
<1>7. table_at' = Age => Exported' = InRange BY <1>1, <1>5, BecomesExported
<1>8. \A t \in Range(ready') : t \in Range(ready) /\ t # This BY <1>1, LeftReady
<1> QED BY <1>1, <1>6, <1>7, <1>8, WritesFresh

\* A coroutine that begins with what is visible will list what is in range.
LEMMA ListWhole ==
  ASSUME TypeOK, Places, FreshInv, ready # <<>>, Me.at = "listing", Me.got.age = Age,
         NEW k, k.aps = Me.got.aps, k.current = Me.current, k.at # "reading"
  PROVE  Whole(k)
<1>1. task[This] = Me /\ This \in TaskIds /\ This \in Range(ready) BY ThisPlace
<1>2. Me.current = {} BY <1>1 DEF Places, FreeInv
<1>3. Me.got.aps = Visible BY <1>1, Fresh
<1> QED BY <1>2, <1>3 DEF Whole, Shown, Ahead, InRange

LEMMA GoesOnFresh ==
  ASSUME TypeOK, Places, OrderInv, FreshInv, NEW k \in Tasks, GoesOn(k)
  PROVE  FreshInv'
<1>1. /\ Becomes(k) /\ Writes(k) /\ ready # <<>> /\ fromNM' = fromNM /\ k.at = "next"
      /\ \/ Me.at \in Holding /\ k.age = Me.age /\ StaysWhole(k) /\ lockq' = lockq
         \/ /\ Me.at = "listing" /\ lockq = <<>> /\ lockq' = <<This>>
            /\ k.age = Me.got.age /\ k.aps = Me.got.aps /\ k.current = Me.current
      /\ ready' = ready
      BY DEF GoesOn, Becomes, Writes
<1>2. /\ task[This] = Me /\ This \in TaskIds BY <1>1, ThisPlace
<1>3. Me.at = "listing" => Me.current = {} BY <1>2 DEF Places, FreeInv
<1>4. k.age = Age => Whole(k)
  <2>1. CASE Me.at \in Holding /\ k.age = Me.age /\ StaysWhole(k)
        BY <1>1, <2>1, MeWhole DEF StaysWhole
  <2>2. CASE /\ Me.at = "listing"
             /\ k.age = Me.got.age /\ k.aps = Me.got.aps /\ k.current = Me.current
        BY <1>1, <2>2, ListWhole
  <2> QED BY <1>1, <2>1, <2>2
<1>5. table_at = Age => k.current \subseteq InRange
  <2>1. CASE Me.at \in Holding /\ k.age = Me.age
        BY <1>1, <1>4, <2>1, MeWhole DEF Whole, Shown
  <2>2. CASE Me.at = "listing" /\ k.current = Me.current BY <1>3, <2>2
  <2> QED BY <1>1, <2>1, <2>2
<1>7. table_at' = Age => Exported' = InRange BY <1>1, <1>5, BecomesExported
<1>8. /\ task'[This] = k /\ \A t \in TaskIds : t # This => task'[t] = task[t]
      BY <1>1, Written
<1>9. \A t \in Range(ready') : task'[t].at \in {"listing", "reading"} => t \in Range(ready) /\ t # This
      BY <1>1, <1>8
<1>10. Range(lockq') \subseteq Range(lockq) \cup {This} BY <1>1 DEF Range
<1> QED BY <1>1, <1>4, <1>7, <1>9, <1>10, WritesFresh

LEMMA WaitsFresh ==
  ASSUME TypeOK, Places, OrderInv, FreshInv, NEW k \in Tasks, WaitsForLock(k)
  PROVE  FreshInv'
<1>1. /\ Becomes(k) /\ Writes(k) /\ ready # <<>> /\ fromNM' = fromNM /\ k.at = "locked"
      /\ Me.at = "listing" /\ k.age = Me.got.age /\ k.aps = Me.got.aps /\ k.current = Me.current
      /\ lockq' = Append(lockq, This) /\ ready' = Tail(ready)
      BY DEF WaitsForLock, Becomes, Writes
<1>2. /\ task[This] = Me /\ This \in TaskIds BY <1>1, ThisPlace
<1>3. Me.current = {} BY <1>1, <1>2 DEF Places, FreeInv
<1>4. k.age = Age => Whole(k) BY <1>1, ListWhole
<1>5. table_at' = Age => Exported' = InRange BY <1>1, <1>3, BecomesExported
<1>6. \A t \in Range(ready') : t \in Range(ready) /\ t # This BY <1>1, LeftReady
<1>7. Range(lockq') \subseteq Range(lockq) \cup {This} BY <1>1, <1>2, AppendRange DEF TypeOK
<1> QED BY <1>1, <1>4, <1>5, <1>6, <1>7, WritesFresh

\* The table is what was listed, which is what is in range if the list is of this age.
LEMMA EndsFresh ==
  ASSUME TypeOK, Places, OrderInv, FreshInv, NEW k \in Tasks, Ends(k)
  PROVE  FreshInv'
<1>1. /\ Writes(k) /\ ready # <<>> /\ fromNM' = fromNM /\ table_at' = Me.age /\ Me.at = "next"
      /\ Me.aps = {} /\ Exported' = Me.current /\ (k = Free \/ k.at = "reply")
      BY DEF Ends, Writes
<1>2. /\ task'[This] = k /\ Age' = Age /\ \A t \in TaskIds : t # This => task'[t] = task[t]
      BY <1>1, Written
<1>3. /\ lockq[1] = This /\ Range(lockq) = Range(lockq') \cup {This} /\ This \notin Range(lockq')
      /\ \A t \in Range(ready') :
           \/ t \in Range(Tail(ready))
           \/ lockq' # <<>> /\ t = lockq'[1] /\ t \in Range(lockq')
           \/ t = This /\ k # Free
      /\ \A t \in Range(lockq') : t \in TaskIds /\ task[t].at = "locked" /\ t \notin Range(ready)
      BY EndsMembers
<1>4. k.at \notin {"listing", "reading"} BY <1>1, FreeTyped
<1>5. \A t \in Range(lockq') : task'[t] = task[t] BY <1>2, <1>3
<1>6. \A t \in Range(Tail(ready)) : t \in Range(ready) /\ t # This BY <1>1, LeftReady
<1>7. \A t \in Range(ready') :
        task'[t].at \in {"listing", "reading"} => t \in Range(ready) /\ t # This
      BY <1>2, <1>3, <1>4, <1>5, <1>6
<1>8. table_at' = Age => Exported' = InRange
  <2>1. Me.age = Age => Whole(Me) BY <1>1, MeWhole DEF Holding, Working
  <2>2. Ahead(Me) = {} BY <1>1 DEF Ahead
  <2>3. Whole(Me) => Me.current = InRange BY <2>2 DEF Whole, Shown
  <2> QED BY <1>1, <2>1, <2>3
<1>9. Range(lockq') \subseteq Range(lockq) \cup {This} /\ This \notin Range(lockq') BY <1>3
<1> QED BY <1>1, <1>7, <1>8, <1>9, WritesFresh

LEMMA RepliesFresh == ASSUME TypeOK, Places, OrderInv, FreshInv, Replies PROVE FreshInv'
<1>1. /\ Writes(Free) /\ ready # <<>> /\ fromNM' = fromNM /\ ready' = Tail(ready)
      /\ UNCHANGED <<lockq, services, table_at>> /\ Me.at = "reply"
      BY DEF Replies, Writes
<1>2. Me.at \in Holding <=> This \in Range(lockq) BY <1>1, ThisPlace
<1>3. This \notin Range(lockq') BY <1>1, <1>2 DEF Holding, Working
<1>4. \A t \in Range(ready') : t \in Range(ready) /\ t # This BY <1>1, LeftReady
<1>5. table_at' = Age => Exported' = InRange BY <1>1, Fresh DEF Exported
<1>6. Range(lockq') \subseteq Range(lockq) \cup {This} BY <1>1
<1> QED BY <1>1, <1>3, <1>4, <1>5, <1>6, WritesFresh

LEMMA StepsFresh == ASSUME TypeOK, Places, OrderInv, FreshInv, Steps PROVE FreshInv'
BY AsksFresh, GoesOnFresh, WaitsFresh DEF Steps

-----------------------------------------------------------------------------
(* What is old will be made anew. *)

\* A change has a signal sent.
LEMMA SignalsPending == ASSUME TypeOK, PendingInv, SignalsCome PROVE PendingInv'
<1>1. /\ Grows(fromNM, fromNM')
      /\ UNCHANGED <<hidden, toNM, task, ready, lockq, table_at, announced>>
      /\ \/ ap_state' = ap_state
         \/ \E m \in Range(fromNM') : m.of = 0 /\ m.kind \in {"added", "removed"}
      BY DEF SignalsCome
<1>2. CASE \E m \in Range(fromNM') : m.of = 0 /\ m.kind \in {"added", "removed"}
      BY <1>2 DEF PendingInv, Pending, Told
<1>3. CASE ap_state' = ap_state
  <2>1. Age' = Age /\ InRange' = InRange BY <1>1, <1>3 DEF Age, Visible, InRange
  <2>2. /\ Range(fromNM) \subseteq Range(fromNM')
        /\ \A m \in Range(fromNM') : IsList(m) => m \in Range(fromNM)
        BY <1>1 DEF Grows, IsList
  <2>3. OldAnswer' => OldAnswer BY <2>1, <2>2 DEF OldAnswer
  <2>4. /\ OldTable' => OldTable
        /\ OldRead' => OldRead
        /\ OldHeld' => OldHeld
        /\ OldNews' => OldNews
        BY <1>1, <2>1 DEF OldTable, OldRead, OldHeld, OldNews, HasList
  <2>5. (Told => Told') /\ (Answered => Answered')
        BY <1>1, <2>1, <2>2 DEF Told, Answered, Emits
  <2>6. /\ Begun => Begun'
        /\ Asked => Asked'
        /\ NewRead => NewRead'
        /\ NewHeld => NewHeld'
        BY <1>1, <2>1 DEF Begun, Asked, NewRead, NewHeld, HasList, Emits, TaskIds
  <2> QED BY <2>3, <2>4, <2>5, <2>6 DEF PendingInv, Stale, Pending
<1> QED BY <1>1, <1>2, <1>3

\* A list asked for is answered with one of this age.
LEMMA AnswersPending ==
  ASSUME TypeOK, PendingInv, NEW q \in Questions, NEW m \in Messages, Answers(q, m)
  PROVE  PendingInv'
<1>1. /\ toNM # <<>> /\ q = Head(toNM) /\ toNM' = Tail(toNM) /\ m.of = q.of /\ m.kind = q.kind
      /\ fromNM' = Append(fromNM, m)
      /\ UNCHANGED <<task, ready, lockq, table_at, announced, ap_state, hidden>>
      /\ m.kind = "list" => m.aps = Visible /\ m.age = Age
      BY DEF Answers, Same
<1>2. toNM \in Seq(Questions) /\ fromNM \in Seq(Messages) BY DEF TypeOK
<1>3. Range(toNM) = Range(toNM') \cup {q} /\ q \in Range(toNM) BY <1>1, <1>2, TailRange
<1>4. Range(fromNM') = Range(fromNM) \cup {m} BY <1>1, <1>2, AppendRange
<1>5. Age' = Age /\ InRange' = InRange BY <1>1 DEF Age, Visible, InRange
<1>6. m.of # 0 BY <1>1, <1>3, QueuesTyped
<1>7. IsList(m) => m.age = Age BY <1>1 DEF IsList
<1>8. OldAnswer' => OldAnswer
  <2>1. IsList(m) => ~(m.age < Age) BY <1>7, AgeNat
  <2> QED BY <1>4, <1>5, <2>1 DEF OldAnswer
<1>9. /\ OldTable' => OldTable
      /\ OldRead' => OldRead
      /\ OldHeld' => OldHeld
      /\ OldNews' => OldNews
      BY <1>1, <1>5 DEF OldTable, OldRead, OldHeld, OldNews, HasList
<1>10. Asked => Asked' \/ Answered'
  <2>1. ASSUME NEW p \in Range(toNM), Emits(p.of), p.kind = "list" PROVE Asked' \/ Answered'
    <3>1. CASE p \in Range(toNM') BY <1>1, <2>1, <3>1 DEF Asked, Emits
    <3>2. CASE p = q
      <4>1. IsList(m) /\ Emits(m.of) /\ m.age = Age
            BY <1>1, <1>6, <2>1, <3>2 DEF IsList
      <4> QED BY <1>1, <1>4, <1>5, <4>1 DEF Answered, Emits
    <3> QED BY <1>3, <3>1, <3>2
  <2> QED BY <2>1 DEF Asked
<1>11. (Told => Told') /\ (Answered => Answered')
       BY <1>1, <1>4, <1>5 DEF Told, Answered, Emits
<1>12. /\ Begun => Begun'
       /\ NewRead => NewRead'
       /\ NewHeld => NewHeld'
       BY <1>1, <1>5 DEF Begun, NewRead, NewHeld, HasList, Emits, TaskIds
<1> QED BY <1>8, <1>9, <1>10, <1>11, <1>12 DEF PendingInv, Stale, Pending

\* A signal has a coroutine begin.
LEMMA HearsPending == ASSUME TypeOK, NEW t, Hears(t) PROVE PendingInv'
<1>1. Spawned("emit", t) BY DEF Hears
<1>2. t \in TaskIds /\ task'[t].at = "start" /\ task'[t].kind = "emit" BY <1>1, SpawnedTask
<1>3. Begun' BY <1>2 DEF Begun, Emits, TaskIds
<1> QED BY <1>3 DEF PendingInv, Pending

\* A call makes nothing out of date.
LEMMA CallsPending == ASSUME TypeOK, Places, PendingInv, NEW t, Calls(t) PROVE PendingInv'
<1>1. /\ Spawned("call", t) /\ ready' = Append(ready, t)
      /\ UNCHANGED <<toNM, fromNM, lockq, table_at, announced, ap_state, hidden>>
      BY DEF Calls, Same, Spawned
<1>2. /\ t \in TaskIds /\ task[t] = Free /\ task'[t].at = "start"
      /\ \A u \in TaskIds : u # t => task'[u] = task[u]
      BY <1>1, SpawnedTask
<1>3. Range(ready') = Range(ready) \cup {t} BY <1>1, <1>2, AppendRange DEF TypeOK
<1>4. t \notin Range(lockq) BY <1>2, FreeTyped DEF Places, LockInv, Holding, Working
<1>5. Age' = Age /\ InRange' = InRange BY <1>1 DEF Age, Visible, InRange
<1>6. \A u \in TaskIds : Emits(u) => task'[u] = task[u] BY <1>2, FreeTyped DEF Emits
<1>7. \A u \in Range(ready') : task'[u].at # "start" => u \in Range(ready) /\ task'[u] = task[u]
      BY <1>2, <1>3, QueuesTyped
<1>8. \A u \in Range(lockq) : task'[u] = task[u] BY <1>2, <1>4, QueuesTyped
<1>9. OldRead' => OldRead BY <1>5, <1>7 DEF OldRead, HasList
<1>10. OldHeld' => OldHeld BY <1>1, <1>5, <1>8 DEF OldHeld
<1>11. (OldTable' => OldTable) /\ (OldAnswer' => OldAnswer) /\ (OldNews' => OldNews)
       BY <1>1, <1>5 DEF OldTable, OldAnswer, OldNews
<1>12. (Told => Told') /\ (Begun => Begun') BY <1>1, <1>6 DEF Told, Begun, Emits, TaskIds
<1>13. (Asked => Asked') /\ (Answered => Answered')
  <2>1. \A q \in Range(toNM) : q.of \in TaskIds BY QueuesTyped
  <2>2. \A m \in Range(fromNM) : IsList(m) => m.of \in TaskIds BY QueuesTyped DEF IsList
  <2> QED BY <1>1, <1>5, <1>6, <2>1, <2>2 DEF Asked, Answered, Emits
<1>14. (NewRead => NewRead') /\ (NewHeld => NewHeld')
       BY <1>1, <1>3, <1>5, <1>6, QueuesTyped DEF NewRead, NewHeld, HasList, Emits
<1> QED BY <1>9, <1>10, <1>11, <1>12, <1>13, <1>14 DEF PendingInv, Stale, Pending

\* A list on its way becomes one that is read.
LEMMA GetsPending ==
  ASSUME TypeOK, Places, PendingInv, NEW t, NEW m, Gets(t, m)
  PROVE  PendingInv'
<1>1. /\ fromNM # <<>> /\ m = Head(fromNM) /\ fromNM' = Tail(fromNM) /\ ready' = Append(ready, t)
      /\ UNCHANGED <<toNM, lockq, table_at, announced, ap_state, hidden>>
      /\ fromNM \in Seq(Messages) /\ ready \in Seq(TaskIds)
      BY DEF Gets, Same, TypeOK
<1>2. /\ m \in Messages /\ m \in Range(fromNM) /\ t \in TaskIds /\ t = m.of /\ t # 0
      /\ task' \in [TaskIds -> Tasks] /\ task'[t] = [task[t] EXCEPT !.got = m]
      /\ \A u \in TaskIds : u # t => task'[u] = task[u]
      BY Got
<1>3. task[t] \in Tasks BY <1>2 DEF TypeOK
<1>4. /\ task'[t].at = task[t].at /\ task'[t].age = task[t].age /\ task'[t].got = m
      /\ task'[t].kind = task[t].kind
      BY <1>2, <1>3 DEF Tasks
<1>5. /\ task[t].at \in Waits /\ m.kind = Awaited[task[t].at] /\ t \notin Range(ready)
      BY <1>2 DEF Places, AnsweredInv
<1>6. task[t].at = "listing" <=> IsList(m) BY <1>2, <1>5 DEF IsList, Awaited, Waits
<1>7. Range(fromNM) = Range(fromNM') \cup {m} BY <1>1, TailRange
<1>8. Range(ready') = Range(ready) \cup {t} BY <1>1, <1>2, AppendRange
<1>9. Age' = Age /\ InRange' = InRange BY <1>1 DEF Age, Visible, InRange
<1>a. t \in TaskIds /\ t = m.of /\ t # 0 /\ \A u \in TaskIds : u # t => task'[u] = task[u]
      BY <1>2
<1>10. \A u \in Range(ready) : task'[u] = task[u] BY <1>a, <1>5, QueuesTyped
<1>11. \A u \in TaskIds : /\ task'[u].at = task[u].at /\ task'[u].age = task[u].age
                          /\ task'[u].kind = task[u].kind
       BY <1>a, <1>4
<1>12. OldRead' => OldRead \/ OldAnswer
  <2>1. ASSUME NEW u \in Range(ready'), task'[u].at = "listing", task'[u].got.age < Age
        PROVE  OldRead \/ OldAnswer
    <3>1. CASE u \in Range(ready) BY <1>10, <2>1, <3>1 DEF OldRead, HasList
    <3>2. CASE u = t
      <4>1. m \in Range(fromNM) /\ IsList(m) /\ m.age < Age BY <1>7, <1>4, <1>6, <2>1, <3>2
      <4> QED BY <4>1 DEF OldAnswer
    <3> QED BY <1>8, <3>1, <3>2
  <2> QED BY <1>9, <2>1 DEF OldRead, HasList
<1>13. /\ OldTable' => OldTable
       /\ OldAnswer' => OldAnswer
       /\ OldHeld' => OldHeld
       /\ OldNews' => OldNews
       BY <1>1, <1>7, <1>9, <1>11, QueuesTyped DEF OldTable, OldAnswer, OldHeld, OldNews
<1>14. Told => Told' BY <1>a, <1>7 DEF Told
<1>15. Begun => Begun' BY <1>11 DEF Begun, Emits, TaskIds
<1>16. Asked => Asked' BY <1>1, <1>11, QueuesTyped DEF Asked, Emits
<1>17. Answered => Answered' \/ NewRead'
  <2>1. ASSUME NEW n \in Range(fromNM), IsList(n), Emits(n.of), n.age = Age
        PROVE  Answered' \/ NewRead'
    <3>1. n.of \in TaskIds BY <2>1, QueuesTyped DEF IsList
    <3>2. CASE n \in Range(fromNM') BY <1>9, <1>11, <2>1, <3>1, <3>2 DEF Answered, Emits
    <3>3. CASE n = m
      <4>1. t \in Range(ready') /\ task'[t].kind = "emit" /\ task'[t].at = "listing"
            /\ task'[t].got.age = Age
            BY <1>a, <1>4, <1>6, <1>8, <2>1, <3>3 DEF Emits
      <4> QED BY <1>9, <4>1 DEF NewRead, Emits, HasList
    <3> QED BY <1>7, <3>2, <3>3
  <2> QED BY <2>1 DEF Answered
<1>18. (NewRead => NewRead') /\ (NewHeld => NewHeld')
  <2>1. NewRead => NewRead' BY <1>8, <1>9, <1>10 DEF NewRead, HasList, Emits
  <2>2. NewHeld => NewHeld' BY <1>1, <1>9, <1>11, QueuesTyped DEF NewHeld, Emits
  <2> QED BY <2>1, <2>2
<1> QED BY <1>12, <1>13, <1>14, <1>15, <1>16, <1>17, <1>18 DEF PendingInv, Stale, Pending

\* What a step of the running coroutine leaves of the disjuncts it is not named in.
LEMMA WritesPending ==
  ASSUME TypeOK, Places, NEW k, Writes(k), fromNM' = fromNM
  PROVE  /\ OldAnswer' => OldAnswer
         /\ Told => Told'
         /\ Begun => Begun' \/ (Me.at = "start" /\ Me.kind = "emit")
         /\ Answered => Answered'
         /\ Range(toNM) \subseteq Range(toNM') => (Asked => Asked')
         /\ announced' = announced => (OldNews' => OldNews)
         /\ table_at' = table_at => (OldTable' => OldTable)
<1>1. ready # <<>> BY DEF Writes
<1>2. /\ task'[This] = k /\ Age' = Age /\ \A t \in TaskIds : t # This => task'[t] = task[t]
      /\ InRange' = InRange
      BY Written
<1>3. ~Waited(toNM, This) /\ ~Waited(fromNM, This) /\ task[This] = Me /\ This \in TaskIds
      BY <1>1, ThisPlace
<1>4. (OldAnswer' => OldAnswer) /\ (Told => Told') BY <1>2 DEF OldAnswer, Told
<1>5. Begun => Begun' \/ (Me.at = "start" /\ Me.kind = "emit")
      BY <1>2, <1>3 DEF Begun, Emits, TaskIds
<1>6. \A m \in Range(fromNM) : IsList(m) => m.of \in TaskIds /\ m.of # This
      BY <1>3, QueuesTyped DEF IsList, Waited
<1>7. Answered => Answered' BY <1>2, <1>6 DEF Answered, Emits
<1>8. \A q \in Range(toNM) : q.of \in TaskIds /\ q.of # This
      BY <1>3, QueuesTyped DEF Waited
<1>9. Range(toNM) \subseteq Range(toNM') => (Asked => Asked') BY <1>2, <1>8 DEF Asked, Emits
<1>10. announced' = announced => (OldNews' => OldNews) BY <1>2 DEF OldNews
<1>11. table_at' = table_at => (OldTable' => OldTable) BY <1>2 DEF OldTable
<1> QED BY <1>4, <1>5, <1>7, <1>9, <1>10, <1>11

\* A coroutine that begins asks for the list.
LEMMA AsksPending ==
  ASSUME TypeOK, Places, OrderInv, PendingInv, NEW k \in Tasks, NEW q \in Questions, Asks(k, q)
  PROVE  PendingInv'
<1>1. /\ Writes(k) /\ ready # <<>> /\ fromNM' = fromNM /\ ready' = Tail(ready) /\ lockq' = lockq
      /\ UNCHANGED <<table_at, announced>> /\ k.kind = Me.kind /\ toNM' = Append(toNM, q)
      /\ q.of = This /\ q.kind = Awaited[k.at]
      /\ \/ Me.at = "start" /\ k.at = "listing"
         \/ Me.at \in Working /\ k.age = Me.age
      BY DEF Asks, Becomes, Writes
<1>2. /\ task'[This] = k /\ Age' = Age /\ \A t \in TaskIds : t # This => task'[t] = task[t]
      BY <1>1, Written
<1>3. task[This] = Me /\ (Me.at \in Holding <=> This \in Range(lockq)) BY <1>1, ThisPlace
<1>4. \A t \in Range(lockq) : task'[t].age = task[t].age /\ task'[t].kind = task[t].kind
      BY <1>1, <1>2, <1>3, QueuesTyped DEF Holding, Working
<1>5. \A t \in Range(ready') : t \in Range(ready) /\ task'[t] = task[t] BY <1>1, LeftReady
<1>6. Range(ready) = Range(ready') \cup {This} BY <1>1, ThisPlace
<1>7. Range(toNM') = Range(toNM) \cup {q} BY <1>1, AppendRange DEF TypeOK
<1>8. (OldRead' => OldRead) /\ (OldHeld' => OldHeld)
      BY <1>1, <1>2, <1>4, <1>5 DEF OldRead, OldHeld, HasList
<1>9. Me.at = "start" /\ Me.kind = "emit" => Asked'
  <2>1. Me.at = "start" => q.kind = "list" BY <1>1 DEF Awaited, Working
  <2> QED BY <1>1, <1>2, <1>7, <2>1 DEF Asked, Emits
<1>10. NewRead => NewRead'
  <2>1. Me.at # "listing" BY <1>1 DEF Working
  <2> QED BY <1>2, <1>3, <1>5, <1>6, <2>1 DEF NewRead, HasList, Emits
<1>11. NewHeld => NewHeld' BY <1>1, <1>2, <1>4 DEF NewHeld, Emits
<1> QED BY <1>1, <1>7, <1>8, <1>9, <1>10, <1>11, WritesPending DEF PendingInv, Stale, Pending

\* Who takes the lock has the list that was to come.
LEMMA GoesOnPending ==
  ASSUME TypeOK, Places, OrderInv, PendingInv, NEW k \in Tasks, GoesOn(k)
  PROVE  PendingInv'
<1>1. /\ Writes(k) /\ ready # <<>> /\ fromNM' = fromNM /\ ready' = ready
      /\ UNCHANGED <<table_at, announced, toNM>> /\ k.kind = Me.kind /\ k.at = "next"
      /\ \/ Me.at \in Holding /\ k.age = Me.age /\ lockq' = lockq
         \/ Me.at = "listing" /\ lockq = <<>> /\ lockq' = <<This>> /\ k.age = Me.got.age
      BY DEF GoesOn, Becomes, Writes
<1>2. /\ task'[This] = k /\ Age' = Age /\ \A t \in TaskIds : t # This => task'[t] = task[t]
      BY <1>1, Written
<1>3. /\ task[This] = Me /\ (Me.at \in Holding <=> This \in Range(lockq)) /\ This \in Range(ready)
      BY <1>1, ThisPlace
<1>4. \A t \in Range(ready) : t # This => task'[t] = task[t] BY <1>2, QueuesTyped
<1>5. OldRead' => OldRead BY <1>1, <1>2, <1>4 DEF OldRead, HasList
<1>6. Range(toNM) \subseteq Range(toNM') BY <1>1
<1>7. Me.at # "start" BY <1>1 DEF Holding, Working
<1>8. CASE Me.at \in Holding /\ k.age = Me.age /\ lockq' = lockq
  <2>1. \A t \in Range(lockq) : task'[t].age = task[t].age /\ task'[t].kind = task[t].kind
        BY <1>1, <1>2, <1>3, <1>8, QueuesTyped
  <2>2. (OldHeld' => OldHeld) /\ (NewHeld => NewHeld')
        BY <1>2, <1>8, <2>1 DEF OldHeld, NewHeld, Emits
  <2>3. Me.at # "listing" BY <1>8 DEF Holding, Working
  <2>4. NewRead => NewRead' BY <1>1, <1>2, <1>3, <1>4, <2>3 DEF NewRead, HasList, Emits
  <2> QED BY <1>1, <1>5, <1>6, <1>7, <2>2, <2>4, WritesPending DEF PendingInv, Stale, Pending
<1>9. CASE Me.at = "listing" /\ lockq = <<>> /\ lockq' = <<This>> /\ k.age = Me.got.age
  <2>1. Range(lockq') = {This} /\ Range(lockq) = {} BY <1>9 DEF Range
  <2>2. OldHeld' => OldRead BY <1>2, <1>3, <1>9, <2>1 DEF OldHeld, OldRead, HasList
  <2>3. ~NewHeld BY <2>1 DEF NewHeld
  <2>4. NewRead => NewRead' \/ NewHeld'
    <3>1. ASSUME NEW t \in Range(ready), Emits(t), HasList(t), task[t].got.age = Age
          PROVE  NewRead' \/ NewHeld'
      <4>1. CASE t # This BY <1>1, <1>2, <1>4, <3>1, <4>1 DEF NewRead, HasList, Emits
      <4>2. CASE t = This BY <1>1, <1>2, <1>3, <1>9, <2>1, <3>1, <4>2 DEF NewHeld, Emits
      <4> QED BY <4>1, <4>2
    <3> QED BY <3>1 DEF NewRead
  <2> QED BY <1>1, <1>5, <1>6, <1>7, <2>2, <2>3, <2>4, WritesPending
          DEF PendingInv, Stale, Pending
<1> QED BY <1>1, <1>8, <1>9

\* So has who waits for it.
LEMMA WaitsPending ==
  ASSUME TypeOK, Places, OrderInv, PendingInv, NEW k \in Tasks, WaitsForLock(k)
  PROVE  PendingInv'
<1>1. /\ Writes(k) /\ ready # <<>> /\ fromNM' = fromNM /\ ready' = Tail(ready)
      /\ UNCHANGED <<table_at, announced, toNM>> /\ k.kind = Me.kind
      /\ Me.at = "listing" /\ lockq' = Append(lockq, This) /\ k.age = Me.got.age
      BY DEF WaitsForLock, Becomes, Writes
<1>2. /\ task'[This] = k /\ Age' = Age /\ \A t \in TaskIds : t # This => task'[t] = task[t]
      BY <1>1, Written
<1>3. /\ task[This] = Me /\ (Me.at \in Holding <=> This \in Range(lockq)) /\ This \in Range(ready)
      /\ Range(ready) = Range(ready') \cup {This} /\ This \in TaskIds
      BY <1>1, ThisPlace
<1>4. This \notin Range(lockq) BY <1>1, <1>3 DEF Holding, Working
<1>5. Range(lockq') = Range(lockq) \cup {This} BY <1>1, <1>3, AppendRange DEF TypeOK
<1>6. \A t \in Range(lockq) : task'[t] = task[t] BY <1>2, <1>4, QueuesTyped
<1>7. \A t \in Range(ready') : t \in Range(ready) /\ task'[t] = task[t] BY <1>1, LeftReady
<1>8. OldRead' => OldRead BY <1>2, <1>7 DEF OldRead, HasList
<1>9. OldHeld' => OldHeld \/ OldRead
      BY <1>1, <1>2, <1>3, <1>5, <1>6 DEF OldHeld, OldRead, HasList
<1>10. NewHeld => NewHeld' BY <1>2, <1>5, <1>6 DEF NewHeld, Emits
<1>11. NewRead => NewRead' \/ NewHeld'
  <2>1. ASSUME NEW t \in Range(ready), Emits(t), HasList(t), task[t].got.age = Age
        PROVE  NewRead' \/ NewHeld'
    <3>1. CASE t \in Range(ready') BY <1>2, <1>7, <2>1, <3>1 DEF NewRead, HasList, Emits
    <3>2. CASE t = This BY <1>1, <1>2, <1>3, <1>5, <2>1, <3>2 DEF NewHeld, Emits
    <3> QED BY <1>3, <3>1, <3>2
  <2> QED BY <2>1 DEF NewRead
<1>12. Range(toNM) \subseteq Range(toNM') /\ Me.at # "start" BY <1>1
<1> QED BY <1>1, <1>8, <1>9, <1>10, <1>11, <1>12, WritesPending DEF PendingInv, Stale, Pending

LEMMA RepliesPending ==
  ASSUME TypeOK, Places, OrderInv, PendingInv, Replies
  PROVE  PendingInv'
<1>1. /\ Writes(Free) /\ ready # <<>> /\ fromNM' = fromNM /\ ready' = Tail(ready)
      /\ UNCHANGED <<table_at, announced, toNM, lockq>> /\ Me.at = "reply"
      BY DEF Replies, Writes
<1>2. /\ Age' = Age /\ \A t \in TaskIds : t # This => task'[t] = task[t]
      BY <1>1, Written
<1>3. /\ task[This] = Me /\ (Me.at \in Holding <=> This \in Range(lockq))
      /\ Range(ready) = Range(ready') \cup {This}
      BY <1>1, ThisPlace
<1>4. This \notin Range(lockq) BY <1>1, <1>3 DEF Holding, Working
<1>6. \A t \in Range(lockq) : task'[t] = task[t] BY <1>2, <1>4, QueuesTyped
<1>7. \A t \in Range(ready') : t \in Range(ready) /\ task'[t] = task[t] BY <1>1, LeftReady
<1>8. (OldRead' => OldRead) /\ (OldHeld' => OldHeld)
      BY <1>1, <1>2, <1>6, <1>7 DEF OldRead, OldHeld, HasList
<1>9. (NewRead => NewRead') /\ (NewHeld => NewHeld')
  <2>1. Me.at # "listing" BY <1>1
  <2>2. NewRead => NewRead' BY <1>2, <1>3, <1>7, <2>1 DEF NewRead, HasList, Emits
  <2>3. NewHeld => NewHeld' BY <1>1, <1>2, <1>6 DEF NewHeld, Emits
  <2> QED BY <2>2, <2>3
<1>10. Range(toNM) \subseteq Range(toNM') /\ Me.at # "start" BY <1>1
<1> QED BY <1>1, <1>8, <1>9, <1>10, WritesPending DEF PendingInv, Stale, Pending

\* The table and the list that is announced are old, or the ones that were to come.
LEMMA EndsPending ==
  ASSUME TypeOK, Places, OrderInv, FreshInv, PendingInv, NEW k \in Tasks, Ends(k)
  PROVE  PendingInv'
<1>1. /\ Writes(k) /\ ready # <<>> /\ fromNM' = fromNM /\ toNM' = toNM /\ table_at' = Me.age
      /\ Me.at = "next" /\ Me.aps = {}
      /\ \/ k = Free /\ announced'.nets = Me.current
         \/ Me.kind = "call" /\ k.at = "reply" /\ announced' = announced
      BY DEF Ends, Writes
<1>2. /\ task'[This] = k /\ Age' = Age /\ InRange' = InRange
      /\ \A t \in TaskIds : t # This => task'[t] = task[t]
      BY <1>1, Written
<1>3. /\ task[This] = Me /\ This \in Range(lockq) /\ Range(ready) = Range(Tail(ready)) \cup {This}
      BY <1>1, ThisPlace DEF Holding, Working
<1>4. /\ Range(lockq) = Range(lockq') \cup {This} /\ This \notin Range(lockq')
      /\ \A t \in Range(ready') :
           \/ t \in Range(Tail(ready))
           \/ lockq' # <<>> /\ t = lockq'[1] /\ t \in Range(lockq')
           \/ t = This /\ k # Free
      /\ \A t \in Range(lockq') : t \in TaskIds /\ task[t].at = "locked" /\ t \notin Range(ready)
      /\ Range(Tail(ready)) \subseteq Range(ready')
      BY EndsMembers
<1>5. \A t \in Range(lockq') : task'[t] = task[t] BY <1>2, <1>4
<1>6. \A t \in Range(Tail(ready)) : t \in Range(ready) /\ task'[t] = task[t] BY <1>1, LeftReady
<1>a. k.at # "listing" BY <1>1, FreeTyped
<1>7. \A t \in Range(ready') :
        task'[t].at = "listing" => t \in Range(ready) /\ task'[t] = task[t]
      BY <1>2, <1>4, <1>5, <1>6, <1>a
<1>8. /\ Me.age = Age => Me.current = InRange
      /\ Me.age <= Age /\ Me.age \in Nat /\ Age \in Nat
  <2>1. Me.age = Age => Whole(Me) BY <1>1, MeWhole DEF Holding, Working
  <2>2. Ahead(Me) = {} BY <1>1 DEF Ahead
  <2>3. Whole(Me) => Me.current = InRange BY <2>2 DEF Whole, Shown
  <2>4. This \in TaskIds BY <1>1, ThisPlace
  <2> QED BY <1>3, <2>1, <2>3, <2>4, Ages
<1>9. Me.age < Age => OldHeld BY <1>3 DEF OldHeld
<1>10. Me.age < Age \/ Me.age = Age BY <1>8
<1>11. /\ OldTable' => Me.age < Age
       /\ OldRead' => OldRead
       /\ OldHeld' => OldHeld
       /\ OldNews' => OldNews \/ Me.age < Age
  <2>1. OldTable' => Me.age < Age BY <1>1, <1>2 DEF OldTable
  <2>2. OldRead' => OldRead BY <1>2, <1>7 DEF OldRead, HasList
  <2>3. OldHeld' => OldHeld BY <1>2, <1>4, <1>5 DEF OldHeld
  <2>4. OldNews' => OldNews \/ Me.age < Age
        BY <1>1, <1>2, <1>8, <1>10 DEF OldNews
  <2> QED BY <2>1, <2>2, <2>3, <2>4
<1>12. Stale' => Stale
  <2>1. OldAnswer' => OldAnswer BY <1>1, WritesPending
  <2> QED BY <1>9, <1>11, <2>1 DEF Stale
<1>13. NewRead => NewRead'
  <2>1. Me.at # "listing" BY <1>1
  <2> QED BY <1>2, <1>3, <1>4, <1>6, <2>1 DEF NewRead, HasList, Emits
\* When its own list is not old, nothing is.
<1>14. NewHeld => NewHeld' \/ ~Stale'
  <2>1. ASSUME Me.kind = "emit", Me.age = Age PROVE ~Stale'
    <3>1. k = Free /\ announced'.nets = InRange BY <1>1, <1>8, <2>1
    <3>2. ~OldNews' BY <1>2, <3>1 DEF OldNews
    <3>3. ~OldTable' BY <1>8, <1>11, <2>1
    <3>4. OrderInv' /\ Age' = Age /\ table_at' = Age BY <1>1, <1>2, <2>1, EndsOrder
    <3> DEFINE b == Age
    <3>5. /\ \A m \in Range(fromNM) : IsList(m) => m.age \in Nat /\ b <= m.age
          /\ \A t \in Range(ready) : task[t].at = "listing" => task[t].got.age \in Nat /\ b <= task[t].got.age
          /\ \A t \in Range(lockq) : task[t].age \in Nat /\ b <= task[t].age
      <4>1. \A m \in Range(fromNM) : IsList(m) => m.age \in Nat /\ b <= m.age
            BY <1>3, <2>1, Ages
      <4>2. \A t \in Range(ready) : task[t].at = "listing" => task[t].got.age \in Nat /\ b <= task[t].got.age
            BY <1>3, <2>1, Ages, QueuesTyped
      <4>3. \A t \in Range(lockq) : task[t].age \in Nat /\ b <= task[t].age
        <5>1. \A t \in Range(lockq') : task'[t].age >= table_at'
              BY <3>4 DEF OrderInv
        <5>2. \A t \in Range(lockq') : b <= task[t].age BY <1>5, <3>4, <5>1
        <5> QED BY <1>3, <1>4, <2>1, <1>8, <5>2, Ages, QueuesTyped
      <4> QED BY <4>1, <4>2, <4>3
    <3>6. b \in Nat BY <1>8
    <3> HIDE DEF b
    <3>7. \A x \in Nat : b <= x => ~(x < b) BY <3>6
    <3>8. ~OldAnswer /\ ~OldRead /\ ~OldHeld
          BY <3>5, <3>7 DEF OldAnswer, OldRead, OldHeld, HasList, b
    <3>9. ~OldAnswer' BY <1>1, <3>8, WritesPending
    <3> QED BY <1>11, <3>2, <3>3, <3>8, <3>9 DEF Stale
  <2>2. ASSUME NEW t \in Range(lockq), Emits(t), task[t].age = Age PROVE NewHeld' \/ ~Stale'
    <3>1. CASE t \in Range(lockq') BY <1>2, <1>5, <2>2, <3>1 DEF NewHeld, Emits
    <3>2. CASE t = This BY <1>3, <2>1, <2>2, <3>2 DEF Emits
    <3> QED BY <1>4, <3>1, <3>2
  <2> QED BY <2>2 DEF NewHeld
<1>15. Range(toNM) \subseteq Range(toNM') /\ Me.at # "start" BY <1>1
<1> QED BY <1>1, <1>12, <1>13, <1>14, <1>15, WritesPending DEF PendingInv, Pending

-----------------------------------------------------------------------------
(* The invariant. *)

\* The inductive invariant.
ShimInv == /\ TypeOK /\ Places /\ RoomInv /\ ListedStaysExported
           /\ OrderInv /\ FreshInv /\ PendingInv

\* At the start nothing is under way and nothing was made of a list.
LEMMA InitInv == ASSUME Init PROVE ShimInv
<1>1. /\ ap_state \in [Aps -> {"new", "visible"}] /\ hidden \subseteq Aps /\ active = None
      /\ toNM = <<>> /\ fromNM = <<>> /\ ready = <<>> /\ lockq = <<>> /\ cache = {}
      /\ services = [n \in Nets |-> None] /\ table_at = -1 /\ announced = NoList
      /\ task = [t \in TaskIds |-> Free]
      BY NetAssumption DEF Init
<1>2. /\ Range(toNM) = {} /\ Range(fromNM) = {} /\ Range(ready) = {} /\ Range(lockq) = {}
      /\ DOMAIN toNM = {} /\ DOMAIN fromNM = {} /\ DOMAIN ready = {} /\ DOMAIN lockq = {}
      BY <1>1 DEF Range
<1>3. \A t \in TaskIds : task[t] = Free /\ task[t].at = "free" BY <1>1, FreeTyped
<1>4. TypeOK
  <2>1. task \in [TaskIds -> Tasks] BY <1>1, FreeTyped
  <2>2. /\ toNM \in Seq(Questions) /\ fromNM \in Seq(Messages)
        /\ ready \in Seq(TaskIds) /\ lockq \in Seq(TaskIds)
        BY <1>1
  <2>3. ap_state \in [Aps -> {"new", "visible", "gone"}] /\ services \in [Nets -> Aps \cup {None}]
        BY <1>1
  <2> QED BY <1>1, <2>1, <2>2, <2>3 DEF TypeOK
<1>5. Places
  <2>1. FreeInv BY <1>3 DEF FreeInv, Waits
  <2>2. ReadyInv BY <1>2 DEF ReadyInv, Distinct
  <2>3. AskedInv /\ AnsweredInv BY <1>2 DEF AskedInv, AnsweredInv, OneEach
  <2>4. LockInv BY <1>2, <1>3 DEF LockInv, Distinct, Holding, Working
  <2> QED BY <2>1, <2>2, <2>3, <2>4 DEF Places
<1>6. RoomInv
  <2>1. Alive = {} BY <1>3 DEF Alive, FreeIds
  <2>2. Sigs(fromNM) = {} BY <1>2 DEF Sigs
  <2>3. Cardinality(Alive) = 0 /\ Cardinality(Sigs(fromNM)) = 0 BY <2>1, <2>2, FS_EmptySet
  <2>4. 0 + 0 + 0 <= MaxTasks BY Bounds
  <2>5. Cardinality(Alive) + Cardinality(Sigs(fromNM)) + 0 <= MaxTasks BY <2>3, <2>4
  <2> QED BY <2>5, RoomIs DEF RoomInv
<1>7. ListedStaysExported BY <1>3 DEF ListedStaysExported
<1>8. table_at <= Age /\ table_at # Age /\ ~(table_at >= 0) BY <1>1, AgeNat
<1>9. OrderInv BY <1>2, <1>8 DEF OrderInv, InOrder, ReadIn, LockIn
<1>10. FreshInv BY <1>2, <1>8 DEF FreshInv
<1>11. PendingInv
       BY <1>1, <1>2, <1>8 DEF PendingInv, Stale, OldTable, OldAnswer, OldRead, OldHeld, OldNews
<1> QED BY <1>4, <1>5, <1>6, <1>7, <1>9, <1>10, <1>11 DEF ShimInv

\* Nothing but the end of a coroutine changes the table's age, and that only forwards.
Forward == table_at <= table_at'

\* A number is no smaller than itself.
LEMMA TableNat == ASSUME TypeOK PROVE table_at <= table_at
BY DEF TypeOK

\* Changes at NetworkManager.
LEMMA SignalsKeep == ASSUME ShimInv, SignalsCome PROVE ShimInv' /\ Forward
<1> USE DEF ShimInv
<1>1. ListedStaysExported'
  <2>1. services' = services /\ task' = task BY DEF SignalsCome
  <2> QED BY <2>1, SameListed
<1>2. table_at' = table_at BY DEF SignalsCome
<1>3. Forward BY <1>2, TableNat DEF Forward
<1> QED BY <1>1, <1>3, SignalsType, SignalsPlaces, SignalsRoom, SignalsOrder, SignalsFresh,
           SignalsPending

\* An answer of NetworkManager.
LEMMA AnswersKeep ==
  ASSUME ShimInv, NEW q \in Questions, NEW m \in Messages, Answers(q, m)
  PROVE  ShimInv' /\ Forward
<1> USE DEF ShimInv
<1>1. ListedStaysExported'
  <2>1. services' = services /\ task' = task BY DEF Answers, Same
  <2> QED BY <2>1, SameListed
<1>2. table_at' = table_at BY DEF Answers, Same
<1>3. Forward BY <1>2, TableNat DEF Forward
<1> QED BY <1>1, <1>3, AnswersType, AnswersPlaces, AnswersRoom, AnswersOrder, AnswersFresh,
           AnswersPending

\* A coroutine that starts has listed nothing.
LEMMA SpawnedListed ==
  ASSUME TypeOK, ListedStaysExported, NEW kind \in {"call", "emit"}, NEW t, Spawned(kind, t), Same
  PROVE  ListedStaysExported'
<1>1. /\ task'[t].at = "start" /\ \A u \in TaskIds : u # t => task'[u] = task[u]
      BY SpawnedTask
<1>2. \A u \in TaskIds : \/ task'[u].at = "start"
                         \/ task'[u].at = task[u].at /\ task'[u].current = task[u].current
      BY <1>1
<1>3. services' = services BY DEF Same
<1> QED BY <1>2, <1>3, SameListed

\* A call.
LEMMA CallsKeep == ASSUME ShimInv, NEW t, Calls(t) PROVE ShimInv' /\ Forward
<1> USE DEF ShimInv
<1>1. ListedStaysExported' BY SpawnedListed DEF Calls
<1>2. Places'
  <2>1. fromNM' = fromNM /\ lockq' = lockq /\ toNM' = toNM BY DEF Calls, Same
  <2>2. OneEach(fromNM') BY <2>1 DEF Places, AnsweredInv
  <2>3. Range(fromNM') \subseteq Range(fromNM) BY <2>1
  <2>4. UNCHANGED <<toNM, lockq>> BY <2>1
  <2>5. Spawned("call", t) BY DEF Calls
  <2> QED BY <2>2, <2>3, <2>4, <2>5, SpawnedPlaces
<1>3. table_at' = table_at BY DEF Calls, Same
<1>4. Forward BY <1>3, TableNat DEF Forward
<1> QED BY <1>1, <1>2, <1>4, CallsType, CallsRoom, CallsOrder, CallsFresh, CallsPending

\* A signal.
LEMMA HearsKeep == ASSUME ShimInv, NEW t, Hears(t) PROVE ShimInv' /\ Forward
<1> USE DEF ShimInv
<1>1. ListedStaysExported' BY SpawnedListed DEF Hears
<1>2. Places'
  <2>1. fromNM # <<>> /\ fromNM' = Tail(fromNM) /\ lockq' = lockq /\ toNM' = toNM
        BY DEF Hears, Same
  <2>2. fromNM \in Seq(Messages) /\ OneEach(fromNM) BY DEF TypeOK, Places, AnsweredInv
  <2>3. OneEach(Tail(fromNM)) BY <2>1, <2>2, OneEachTail
  <2>4. Range(Tail(fromNM)) \subseteq Range(fromNM) BY <2>1, <2>2, TailRange
  <2>5. OneEach(fromNM') /\ Range(fromNM') \subseteq Range(fromNM) BY <2>1, <2>3, <2>4
  <2>6. UNCHANGED <<toNM, lockq>> BY <2>1
  <2>7. Spawned("emit", t) BY DEF Hears
  <2> QED BY <2>5, <2>6, <2>7, SpawnedPlaces
<1>3. table_at' = table_at BY DEF Hears, Same
<1>4. Forward BY <1>3, TableNat DEF Forward
<1> QED BY <1>1, <1>2, <1>4, HearsType, HearsRoom, HearsOrder, HearsFresh, HearsPending

\* An answer that the loop takes.
LEMMA GetsKeep == ASSUME ShimInv, NEW t, NEW m, Gets(t, m) PROVE ShimInv' /\ Forward
<1> USE DEF ShimInv
<1>1. ListedStaysExported'
  <2>1. /\ t \in TaskIds /\ task'[t] = [task[t] EXCEPT !.got = m]
        /\ \A u \in TaskIds : u # t => task'[u] = task[u]
        BY Got
  <2>2. task[t] \in Tasks BY <2>1 DEF TypeOK
  <2>3. task'[t].at = task[t].at /\ task'[t].current = task[t].current
        BY <2>1, <2>2 DEF Tasks
  <2>4. \A u \in TaskIds : \/ task'[u].at = "start"
                           \/ task'[u].at = task[u].at /\ task'[u].current = task[u].current
        BY <2>1, <2>3
  <2>5. services' = services BY DEF Gets, Same
  <2> QED BY <2>4, <2>5, SameListed
<1>2. RoomInv' BY GetsRoom DEF Places
<1>3. table_at' = table_at BY DEF Gets, Same
<1>4. Forward BY <1>3, TableNat DEF Forward
<1> QED BY <1>1, <1>2, <1>4, GetsType, GetsPlaces, GetsOrder, GetsFresh, GetsPending

\* A step of the coroutine that runs.
LEMMA StepsKeep == ASSUME ShimInv, Steps PROVE ShimInv' /\ Forward
<1> USE DEF ShimInv
<1>1. Places'
      BY AsksPlaces, GoesOnPlaces, WaitsPlaces DEF Steps
<1>2. PendingInv'
      BY AsksPending, GoesOnPending, WaitsPending DEF Steps
<1>3. RoomInv'
  <2>1. \E k \in Tasks : Becomes(k) BY DEF Steps, GoesOn, WaitsForLock, Asks
  <2>2. \E k \in Tasks : Writes(k) /\ fromNM' = fromNM BY <2>1 DEF Becomes
  <2> QED BY <2>2, WritesRoom DEF Places
<1>4. OrderInv' /\ table_at' = table_at BY StepsOrder
<1>5. Forward BY <1>4, TableNat DEF Forward
<1> QED BY <1>1, <1>2, <1>3, <1>4, <1>5, StepsType, StepsListed, StepsFresh

\* The end of a coroutine.
LEMMA EndsKeep == ASSUME ShimInv, NEW k \in Tasks, Ends(k) PROVE ShimInv' /\ Forward
<1> USE DEF ShimInv
<1>1. RoomInv'
  <2>1. Writes(k) /\ fromNM' = fromNM BY DEF Ends
  <2> QED BY <2>1, WritesRoom DEF Places
<1>2. TypeOK' BY EndsType DEF Places
<1>3. OrderInv' /\ table_at <= table_at' BY EndsOrder
<1> QED BY <1>1, <1>2, <1>3, EndsPlaces, EndsListed, EndsFresh, EndsPending DEF Forward

\* The reply to a call.
LEMMA RepliesKeep == ASSUME ShimInv, Replies PROVE ShimInv' /\ Forward
<1> USE DEF ShimInv
<1>1. RoomInv'
  <2>1. Writes(Free) /\ fromNM' = fromNM BY DEF Replies
  <2> QED BY <2>1, WritesRoom DEF Places
<1>2. table_at' = table_at BY DEF Replies
<1>3. Forward BY <1>2, TableNat DEF Forward
<1> QED BY <1>1, <1>3, RepliesType, RepliesPlaces, RepliesListed, RepliesOrder, RepliesFresh,
           RepliesPending

\* Nothing happens.
LEMMA StutterKeep == ASSUME ShimInv, UNCHANGED vars PROVE ShimInv' /\ Forward
<1>1. /\ UNCHANGED <<ap_state, hidden, active, toNM, fromNM, task, ready, lockq, cache>>
      /\ UNCHANGED <<services, table_at, announced>>
      BY DEF vars, nmVars, loopVars, tableVars
<1>2. Visible' = Visible /\ InRange' = InRange /\ Age' = Age /\ Exported' = Exported
      BY <1>1 DEF Visible, InRange, Age, Exported
<1>3. TypeOK' BY <1>1 DEF ShimInv, TypeOK
<1>4. Places'
      BY <1>1 DEF ShimInv, Places, FreeInv, ReadyInv, AskedInv, AnsweredInv, LockInv
<1>5. RoomInv' BY <1>1 DEF ShimInv, RoomInv, RoomFor, FreeIds
<1>6. ListedStaysExported' BY <1>1, <1>2 DEF ShimInv, ListedStaysExported
<1>7. OrderInv' BY <1>1, <1>2 DEF ShimInv, OrderInv, HasList
<1>8. FreshInv' BY <1>1, <1>2 DEF ShimInv, FreshInv, HasList, Shown
<1>9. PendingInv'
  <2>1. Stale' = Stale
        BY <1>1, <1>2 DEF Stale, OldTable, OldAnswer, OldRead, OldHeld, OldNews, HasList
  <2>2. Pending' = Pending
        BY <1>1, <1>2 DEF Pending, Told, Begun, Asked, Answered, NewRead, NewHeld, Emits, HasList
  <2> QED BY <2>1, <2>2 DEF ShimInv, PendingInv
<1>10. Forward BY <1>1, TableNat DEF ShimInv, Forward
<1> QED BY <1>3, <1>4, <1>5, <1>6, <1>7, <1>8, <1>9, <1>10 DEF ShimInv

\* Every step keeps the invariant.
LEMMA NextInv == ASSUME ShimInv, [Next]_vars PROVE ShimInv' /\ Forward
<1> USE DEF ShimInv
<1>1. CASE Changes BY <1>1, ChangesCome, SignalsKeep
<1>2. CASE Answer BY <1>2, AnswerIs, AnswersKeep
<1>3. CASE Call BY <1>3, CallIs, CallsKeep
<1>4. CASE Receive BY <1>4, ReceiveIs, HearsKeep, GetsKeep DEF Places
<1>5. CASE RunTask BY <1>5, RunTaskSteps, StepsKeep, EndsKeep, RepliesKeep DEF Places
<1>6. CASE UNCHANGED vars BY <1>6, StutterKeep
<1> QED BY <1>1, <1>2, <1>3, <1>4, <1>5, <1>6 DEF Next, Loop

-----------------------------------------------------------------------------
(* What is proved of the shim. *)

\* The invariant holds in every state the shim can be in: list_services and its
\* callers keep it, whatever NetworkManager does.
THEOREM ShimStays == Spec => []ShimInv
<1>1. Init => ShimInv BY InitInv
<1>2. ShimInv /\ [Next]_vars => ShimInv' BY NextInv
<1> QED BY <1>1, <1>2, PTL DEF Spec

\* list_services: what a coroutine has listed stays exported until it is done, for
\* any number of coroutines.
THEOREM ListedStays == Spec => []ListedStaysExported
<1>1. ShimInv => ListedStaysExported BY DEF ShimInv
<1> QED BY <1>1, ShimStays, PTL

\* list_services: the table of services is never replaced by one made from an older
\* list, though the list is read before the lock is taken.
THEOREM TableForward == Spec => TableMovesForward
<1>1. ShimInv /\ [Next]_vars => [table_at' >= table_at]_vars
  <2>1. ASSUME ShimInv, [Next]_vars PROVE table_at' >= table_at
    <3>1. TypeOK /\ TypeOK' /\ Forward BY <2>1, NextInv DEF ShimInv
    <3> QED BY <3>1 DEF TypeOK, Forward
  <2> QED BY <2>1
<1> QED BY <1>1, ShimStays, PTL DEF Spec, TableMovesForward

\* list_services and the handlers of the signals: at rest the exported services and
\* the last ServicesChanged are the networks in range.
THEOREM AtRestAgrees == Spec => []IdleAgrees
<1>1. ShimInv => IdleAgrees
  <2> SUFFICES ASSUME ShimInv, Idle
               PROVE  /\ table_at >= 0 => Exported = InRange
                      /\ announced # NoList => announced.nets = InRange
      BY DEF IdleAgrees
  <2>1. /\ Range(toNM) = {} /\ Range(fromNM) = {} /\ \A t \in TaskIds : task[t].at = "free"
    <3>1. toNM = <<>> /\ fromNM = <<>> /\ \A t \in TaskIds : task[t] = Free BY DEF Idle
    <3> QED BY <3>1, FreeTyped DEF Range
  <2>2. Range(ready) \subseteq TaskIds /\ Range(lockq) \subseteq TaskIds
        BY DEF ShimInv, TypeOK, Range
  <2>3. Range(ready) = {} BY <2>1, <2>2 DEF ShimInv, Places, ReadyInv
  <2>4. Range(lockq) = {} BY <2>1, <2>2 DEF ShimInv, Places, LockInv, Holding, Working
  <2>5. ~Pending
        BY <2>1, <2>3, <2>4 DEF Pending, Told, Begun, Asked, Answered, NewRead, NewHeld
  <2>6. ~OldTable /\ ~OldNews BY <2>5 DEF ShimInv, PendingInv, Stale
  <2>7. table_at >= 0 => table_at = Age
    <3>1. table_at \in Nat \cup {-1} /\ table_at <= Age /\ Age \in Nat
          BY AgeNat DEF ShimInv, TypeOK, OrderInv
    <3> QED BY <2>6, <3>1 DEF OldTable
  <2>8. table_at = Age => Exported = InRange BY DEF ShimInv, FreshInv
  <2>9. announced # NoList => announced.nets = InRange BY <2>6 DEF OldNews
  <2> QED BY <2>7, <2>8, <2>9
<1> QED BY <1>1, ShimStays, PTL
=============================================================================
