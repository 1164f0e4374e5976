---------------------------- MODULE ConnmanShim -----------------------------
(***************************************************************************)
(* The list of WiFi services of the ConnMan shim (move-connman-shim.py).   *)
(* MoveOriginal asks for the list or is sent it after a change; the shim   *)
(* builds it from NetworkManager's access points, in one coroutine per     *)
(* request and per signal, on one event loop.  Every await is a question   *)
(* to NetworkManager over the bus, which keeps the order of messages in    *)
(* each direction.  The model starts when the signal handlers are in       *)
(* place.                                                                  *)
(***************************************************************************)
EXTENDS Integers, Sequences, FiniteSets

CONSTANTS
  Aps,           \* NetworkManager's access point objects; a path is used once
  Nets,          \* service ids: BSSID, SSID and security
  Net,           \* the service id of an access point
  MayHide,       \* access points that may send no SSID
  None,          \* no access point
  MaxCalls,      \* bound: calls of GetServices
  MaxActive,     \* bound: changes of the active connection
  MaxTasks       \* bound: coroutines alive, and signals that will start one

ASSUME NetAssumption == /\ None \notin Aps /\ MayHide \subseteq Aps
                        /\ Net \in [Aps -> Nets]
ASSUME ApsAssumption == IsFiniteSet(Aps)
ASSUME BoundAssumption == MaxCalls \in Nat /\ MaxActive \in Nat /\ MaxTasks \in Nat \ {0}

VARIABLES
  ap_state,      \* NetworkManager: each object is "new", "visible" or "gone"
  hidden,        \* those without an SSID
  active,        \* its active access point
  toNM, fromNM,  \* questions, and answers and signals, in order
  task,          \* the coroutines
  ready,         \* those the loop will run, in order
  lockq,         \* _services_lock: its holder, then those that wait for it
  cache,         \* _ap_cache: the access points it has properties of
  services,      \* services: the access point its object was created with
  table_at,      \* the age of the list the table was last made from
  announced,     \* the last ServicesChanged
  calls, changes \* counters for the bounds

nmVars == <<ap_state, hidden, active, changes>>
loopVars == <<task, ready, lockq>>
tableVars == <<services, table_at>>
vars == <<nmVars, toNM, fromNM, loopVars, cache, tableVars, announced, calls>>

TaskIds == 1..MaxTasks
Visible == {a \in Aps : ap_state[a] = "visible"}
InRange == {Net[a] : a \in Visible \ hidden}
\* NetworkManager's changes so far: an access point comes once and goes once.
Age == Cardinality(Visible) + 2 * Cardinality({a \in Aps : ap_state[a] = "gone"})

Message(kind, t, aps, ok, ap, age) ==
  [kind |-> kind, of |-> t, aps |-> aps, ok |-> ok, ap |-> ap, age |-> age]
Signal(kind, a) == Message(kind, 0, {}, TRUE, a, 0)
NoMessage == Signal("none", None)
NoList == [nets |-> {"none"}, rows |-> {}]

\* A coroutine: its place and what its locals hold.
Task(kind, at) ==
  [kind |-> kind, at |-> at, got |-> NoMessage, aps |-> {}, ap |-> None,
   blank |-> FALSE, rows |-> {}, current |-> {}, age |-> 0]
Free == Task("none", "free")
FreeIds == {t \in TaskIds : task[t] = Free}

\* The bound on what is under way: n more may come.
RoomFor(n) ==
  Cardinality(TaskIds \ FreeIds) + Cardinality({i \in DOMAIN fromNM : fromNM[i].of = 0}) + n
    <= MaxTasks

Init ==
  /\ ap_state \in [Aps -> {"new", "visible"}]
  /\ \A a, b \in Visible : Net[a] = Net[b] => a = b
  /\ hidden \in SUBSET MayHide
  /\ active = None /\ changes = 0 /\ calls = 0
  /\ toNM = <<>> /\ fromNM = <<>>
  /\ task = [t \in TaskIds |-> Free] /\ ready = <<>> /\ lockq = <<>>
  /\ cache = {} /\ services = [n \in Nets |-> None] /\ table_at = -1
  /\ announced = NoList

-----------------------------------------------------------------------------
(* NetworkManager *)

Appear(a) ==
  /\ ap_state[a] = "new" /\ RoomFor(1)
  /\ \A b \in Visible : Net[b] # Net[a]
  /\ ap_state' = [ap_state EXCEPT ![a] = "visible"]
  /\ fromNM' = Append(fromNM, Signal("added", a))
  /\ UNCHANGED <<hidden, active, changes, toNM, loopVars, cache, tableVars, announced, calls>>

Vanish(a) ==
  /\ ap_state[a] = "visible" /\ RoomFor(IF active = a THEN 2 ELSE 1)
  /\ ap_state' = [ap_state EXCEPT ![a] = "gone"]
  /\ active' = IF active = a THEN None ELSE active
  /\ fromNM' = fromNM \o <<Signal("removed", a)>>
                      \o (IF active = a THEN <<Signal("connections", a)>> ELSE <<>>)
  /\ UNCHANGED <<hidden, changes, toNM, loopVars, cache, tableVars, announced, calls>>

Activate(a) ==
  /\ changes < MaxActive /\ changes' = changes + 1 /\ RoomFor(1)
  /\ a # active /\ active' = a
  /\ fromNM' = Append(fromNM, Signal("connections", a))
  /\ UNCHANGED <<ap_state, hidden, toNM, loopVars, cache, tableVars, announced, calls>>

\* It answers the questions in order: the list, the properties of one access
\* point (an error once it is gone), or the active one.
Answer ==
  /\ toNM # <<>> /\ toNM' = Tail(toNM)
  /\ LET q == Head(toNM) IN
     fromNM' = Append(fromNM, Message(q.kind, q.of,
                        IF q.kind = "list" THEN Visible ELSE {},
                        q.kind = "properties" => q.ap \in Visible,
                        IF q.kind = "active" THEN active ELSE q.ap,
                        IF q.kind = "list" THEN Age ELSE 0))
  /\ UNCHANGED <<nmVars, loopVars, cache, tableVars, announced, calls>>

-----------------------------------------------------------------------------
(* The event loop *)

Running == ready # <<>> /\ task[Head(ready)].at = "next"
This == Head(ready)
Me == task[This]
At(place) == ready # <<>> /\ Me.at = place

Spawn(kind) ==
  LET t == CHOOSE t \in FreeIds : TRUE
  IN task' = [task EXCEPT ![t] = Task(kind, "start")] /\ ready' = Append(ready, t)

\* GetServices is called.
Call ==
  /\ calls < MaxCalls /\ calls' = calls + 1
  /\ ~Running /\ RoomFor(1) /\ Spawn("call")
  /\ UNCHANGED <<nmVars, toNM, fromNM, lockq, cache, tableVars, announced>>

\* The handlers of the signals.
RefreshesAdded(m) == m.kind \in {"added", "connections"}
Refreshes(m) == m.kind \in {"added", "removed", "connections"}
OnSignal(m) ==
  /\ cache' = IF m.kind \in {"added", "removed"} THEN cache \ {m.ap} ELSE cache
  /\ IF Refreshes(m) THEN Spawn("emit") ELSE UNCHANGED <<task, ready>>

\* A message comes in: a signal's handlers run at once, an answer has the
\* coroutine that waits for it run later.
Receive ==
  /\ fromNM # <<>> /\ ~Running
  /\ fromNM' = Tail(fromNM)
  /\ LET m == Head(fromNM) IN
     \/ /\ m.of = 0 /\ OnSignal(m)
     \/ /\ m.of # 0 /\ UNCHANGED cache
        /\ task' = [task EXCEPT ![m.of].got = m] /\ ready' = Append(ready, m.of)
  /\ UNCHANGED <<nmVars, toNM, lockq, tableVars, announced, calls>>

\* The coroutine asks a question and waits, in the given state.
AskNM(what, a, me) ==
  /\ toNM' = Append(toNM, [kind |-> what, of |-> This, ap |-> a])
  /\ task' = [task EXCEPT ![This] = me] /\ ready' = Tail(ready)

\* It has used the answer it got.
Moved(me, place) == [me EXCEPT !.at = place, !.got = NoMessage]

-----------------------------------------------------------------------------
(* list_services *)

\* access_points: the list is read before the lock is taken.
StartList ==
  /\ At("start") /\ AskNM("list", None, Moved(Me, "listing"))
  /\ UNCHANGED <<nmVars, fromNM, lockq, cache, tableVars, announced, calls>>

\* async with _services_lock: the lock is handed over in order.
MustWait == lockq # <<>>
TakesNoLock ==
  /\ At("listing")
  /\ task' = [task EXCEPT ![This] = [Moved(Me, "next") EXCEPT !.aps = Me.got.aps,
                                                             !.age = Me.got.age]]
  /\ UNCHANGED <<nmVars, toNM, fromNM, ready, lockq, cache, tableVars, announced, calls>>
TakeLock ==
  /\ At("listing")
  /\ lockq' = Append(lockq, This)
  /\ task' = [task EXCEPT ![This] = [Moved(Me, IF MustWait THEN "locked" ELSE "next")
                                     EXCEPT !.aps = Me.got.aps, !.age = Me.got.age]]
  /\ ready' = IF MustWait THEN Tail(ready) ELSE ready
  /\ UNCHANGED <<nmVars, toNM, fromNM, cache, tableVars, announced, calls>>

HaveLock ==
  /\ At("locked")
  /\ task' = [task EXCEPT ![This] = Moved(Me, "next")]
  /\ UNCHANGED <<nmVars, toNM, fromNM, ready, lockq, cache, tableVars, announced, calls>>

\* The access point a is known: it is passed over when it has no SSID, else
\* its service is exported if it is not yet, and is asked for its properties,
\* which are those of the access point it was created with.
HasSsid(a) == a \notin hidden
Consider(a, me) ==
  LET n   == Net[a]
      svc == IF services[n] = None THEN a ELSE services[n]
      on  == [me EXCEPT !.ap = svc, !.current = @ \cup {n}, !.blank = FALSE]
  IN IF ~HasSsid(a)
     THEN /\ task' = [task EXCEPT ![This] = Moved(me, "next")]
          /\ UNCHANGED <<toNM, ready, services>>
     ELSE /\ services' = [services EXCEPT ![n] = svc]
          /\ IF svc \in cache' THEN AskNM("active", None, Moved(on, "asking"))
                               ELSE AskNM("properties", svc, Moved(on, "rereading"))

\* ap_properties, from the cache or after a question.
NextAp ==
  /\ At("next")
  /\ \E a \in Me.aps :
       LET me == [Me EXCEPT !.aps = @ \ {a}, !.ap = a] IN
       \/ a \in cache /\ UNCHANGED cache /\ Consider(a, me)
       \/ /\ a \notin cache /\ AskNM("properties", a, Moved(me, "reading"))
          /\ UNCHANGED <<cache, services>>
  /\ UNCHANGED <<nmVars, fromNM, lockq, table_at, announced, calls>>

\* The answer is cached; an access point that has vanished is passed over.
ReadAp ==
  /\ At("reading")
  /\ \/ Me.got.ok /\ cache' = cache \cup {Me.ap} /\ Consider(Me.ap, Me)
     \/ /\ ~Me.got.ok /\ task' = [task EXCEPT ![This] = Moved(Me, "next")]
        /\ UNCHANGED <<toNM, ready, cache, services>>
  /\ UNCHANGED <<nmVars, fromNM, lockq, table_at, announced, calls>>

\* _props_dict: with no properties the service is shown without a name.
ReadService ==
  /\ At("rereading")
  /\ cache' = IF Me.got.ok THEN cache \cup {Me.ap} ELSE cache
  /\ AskNM("active", None, [Moved(Me, "asking") EXCEPT !.blank = ~Me.got.ok])
  /\ UNCHANGED <<nmVars, fromNM, lockq, tableVars, announced, calls>>

AddRow ==
  /\ At("asking")
  /\ LET row == [net |-> Net[Me.ap], blank |-> Me.blank, online |-> Me.got.ap = Me.ap]
     IN task' = [task EXCEPT ![This] = [Moved(Me, "next") EXCEPT !.rows = @ \cup {row}]]
  /\ UNCHANGED <<nmVars, toNM, fromNM, ready, lockq, cache, tableVars, announced, calls>>

\* Services that are not in the list go.
\* (HandsToNobody, TakesNoLock and RefreshesAdded are variants
\* for the mutation checks.)
Kept(current) == [n \in Nets |-> IF n \in current THEN services[n] ELSE None]
\* The lock is given to the one that has waited longest.
Others == SubSeq(lockq, 2, Len(lockq))
HandsToNobody == <<>>
HandOver == SubSeq(Others, 1, IF Others = <<>> THEN 0 ELSE 1)

\* The end: a list for ServicesChanged is sent at once, the reply to a call by
\* a callback that comes after the next holder of the lock.
Finish ==
  /\ At("next") /\ Me.aps = {}
  /\ services' = Kept(Me.current) /\ table_at' = Me.age
  /\ lockq' = Others
  /\ LET list == [nets |-> Me.current, rows |-> Me.rows] IN
     \/ /\ Me.kind = "emit" /\ announced' = list
        /\ task' = [task EXCEPT ![This] = Free] /\ ready' = Tail(ready) \o HandOver
     \/ /\ Me.kind = "call" /\ UNCHANGED announced
        /\ task' = [task EXCEPT ![This].at = "reply"]
        /\ ready' = Tail(ready) \o HandOver \o <<This>>
  /\ UNCHANGED <<nmVars, toNM, fromNM, cache, calls>>

Reply ==
  /\ At("reply")
  /\ task' = [task EXCEPT ![This] = Free] /\ ready' = Tail(ready)
  /\ UNCHANGED <<nmVars, toNM, fromNM, lockq, cache, tableVars, announced, calls>>

-----------------------------------------------------------------------------
RunTask == \/ StartList \/ TakeLock \/ HaveLock \/ NextAp \/ ReadAp
           \/ ReadService \/ AddRow \/ Finish \/ Reply
Loop == Receive \/ RunTask
Changes == \/ \E a \in Aps : Appear(a) \/ Vanish(a)
           \/ \E a \in (Visible \ hidden) \cup {None} : Activate(a)
Next == Changes \/ Answer \/ Call \/ Loop
Spec == Init /\ [][Next]_vars
\* The loop runs what is ready and NetworkManager answers.
FairSpec == Spec /\ WF_vars(Loop) /\ WF_vars(Answer)

-----------------------------------------------------------------------------
Idle == toNM = <<>> /\ fromNM = <<>> /\ \A t \in TaskIds : task[t] = Free
Exported == {n \in Nets : services[n] # None}

\* When everything has come to rest, the exported services are the networks in
\* range, and so is the last list of ServicesChanged, however signals, calls and
\* vanishing access points have crossed ("GetServices: visible APs").
IdleAgrees ==
  Idle => /\ table_at >= 0 => Exported = InRange
          /\ announced # NoList => announced.nets = InRange

\* The list is read before the lock is taken and applied under it; still the
\* table of services is never replaced by one made from an older list.
TableMovesForward == [][table_at' >= table_at]_vars

\* While one coroutine builds its list, no other changes the services it has
\* counted on: what it has listed stays exported until it is done.
ListedStaysExported ==
  \A t \in TaskIds : task[t].at \in {"next", "reading", "rereading", "asking"}
                       => task[t].current \subseteq Exported

\* Every call of GetServices and every signal gets its list.
ListsEnd == \A t \in TaskIds : task[t].at = "start" ~> task[t] = Free

\* When everything has come to rest, the last list says of every network what
\* NetworkManager says of it: its name, and whether it is the one in use ("Lazy
\* NM queries on each ConnMan request (no in-memory state to drift)").
NoDrift ==
  Idle /\ announced # NoList =>
    \A row \in announced.rows :
      ~row.blank /\ (row.online <=> active # None /\ Net[active] = row.net)
=============================================================================
