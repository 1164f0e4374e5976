---------------------------- MODULE SwupdateShim ----------------------------
(***************************************************************************)
(* The event loop of the swupdate shim (move-swupdate-shim.py).  Updaters  *)
(* upload a .swu file over the control socket; other programs follow the   *)
(* update over the progress socket.  One thread runs coroutines from a     *)
(* queue of callbacks that are ready; a worker thread per update runs      *)
(* process_swu (module SwupdateInstall) and reports to the loop.           *)
(*                                                                         *)
(* A coroutine runs until it awaits something that is not there.  Sending  *)
(* to a live client never waits: a message is small and the socket buffer  *)
(* is not.  Sending to one that has hung up closes the transport, and      *)
(* drain() then lets the loop run once before it raises.                   *)
(***************************************************************************)
EXTENDS Integers, Sequences, FiniteSets

CONSTANTS
  Updaters,     \* uploads, each over a control connection of its own
  Clients,      \* connections to the progress socket
  Quitters,     \* clients that may hang up whenever they like
  Marks,        \* bound: the percentages process_swu reports, out of 1..95
  Resets,       \* may the kernel report an upload's end as an error?
  MaxCrashes,   \* bound: how often the shim's process is killed
  OneAtATime    \* do updaters wait for the one before, and a poll period more?

ASSUME ClientAssumption == Quitters \subseteq Clients
ASSUME MarkAssumption == Marks \subseteq 1..95
ASSUME EnvAssumption ==
  Resets \in BOOLEAN /\ OneAtATime \in BOOLEAN /\ MaxCrashes \in Nat

RUN == "run"
SUCCESS == "success"
FAILURE == "failure"
Verdicts == {SUCCESS, FAILURE, "raised"}
Nobody == "nobody"
ASSUME NobodyAssumption == Nobody \notin Updaters

NoMsg == [status |-> "none", pct |-> 0]

VARIABLES
  status, pct,        \* _current_status and _current_pct
  clients,            \* _progress_clients
  ready,              \* callbacks and coroutines the loop will run, in order
  peer,               \* client side of a progress connection
  link,               \* the shim's transport for it
  poller,             \* _handle_progress_client for it
  last,               \* its last_pct and last_status
  told,               \* the first verdict the client got
  joined,             \* the updates in progress when its coroutine started
  upload,             \* how far _handle_control_client is, by updater
  work,               \* the worker thread of the update, then its verdict
  mark,               \* the last percentage it reported
  restarted,          \* updates after which move-launcher was restarted
  crashes             \* how often the process was killed

shown == <<status, pct>>
conn == <<peer, link, poller, last, told, joined>>
upd == <<upload, work, mark, restarted>>
vars == <<shown, clients, ready, conn, upd, crashes>>

Message(s, p) == [status |-> s, pct |-> p]
\* build_progress_msg: success is always 100 percent.
BuildMsg(s, p) == Message(s, IF s = SUCCESS THEN 100 ELSE p)

\* What the loop may be asked to run.  A notification carries the place it has
\* got to in the list of clients and those it found dead.
Start(c) == [run |-> "start", of |-> c]
Wake(c, why) == [run |-> "wake", of |-> c, why |-> why]
Drained(c) == [run |-> "drained", of |-> c]
Lost(c) == [run |-> "lost", of |-> c]
Control(u, how) == [run |-> "control", of |-> u, how |-> how]
Notify(u, m, i, dead) == [run |-> "notify", of |-> u, msg |-> m, at |-> i, dead |-> dead]

Init ==
  /\ status = SUCCESS /\ pct = 0 /\ clients = <<>> /\ ready = <<>>
  /\ peer = [c \in Clients |-> "away"] /\ link = [c \in Clients |-> "open"]
  /\ poller = [c \in Clients |-> "none"] /\ last = [c \in Clients |-> NoMsg]
  /\ told = [c \in Clients |-> NoMsg] /\ joined = [c \in Clients |-> {}]
  /\ upload = [u \in Updaters |-> "none"]
  /\ work = [u \in Updaters |-> "none"] /\ mark = [u \in Updaters |-> 0]
  /\ restarted = {} /\ crashes = 0

Terminal(m) == m.status \in {SUCCESS, FAILURE}
\* A client listens until it hears a verdict.
Hear(c, m) == IF Terminal(m) /\ told[c] = NoMsg THEN m ELSE told[c]
Answered(c) == told[c] # NoMsg
InProgress == {u \in Updaters : upload[u] \in {"streaming", "ended", "installing"}}
Listed == {clients[i] : i \in DOMAIN clients}
\* The elements of a sequence that are in S, in their order.
Kept(seq, S) ==
  LET kept[n \in 0..Len(seq)] ==
        IF n = 0 THEN <<>>
        ELSE IF seq[n] \in S THEN Append(kept[n - 1], seq[n]) ELSE kept[n - 1]
  IN  kept[Len(seq)]
Without(c) == Kept(clients, Clients \ {c})
\* The loop takes the first callback, and what that schedules goes to the end.
Runs(kind) == ready # <<>> /\ Head(ready).run = kind
This == Head(ready)
Then(callbacks) == ready' = Tail(ready) \o callbacks
Post(callback) == ready' = Append(ready, callback)

----------------------------------------------------------------------------
\* _notify_raw, from the i-th client of the list on.  The list may have changed
\* since the coroutine last ran.

Live(c) == link[c] = "open" /\ peer[c] = "here"
\* drain() lets the loop run before it raises: the transport is closing.
Slow(c) == link[c] = "closing" \/ (link[c] = "open" /\ peer[c] # "here")
\* The place where the coroutine stops, behind the list if nowhere.
StopAt(i) ==
  LET slow == {k \in i..Len(clients) : Slow(clients[k])}
  IN  IF slow = {} THEN Len(clients) + 1 ELSE CHOOSE k \in slow : \A l \in slow : k <= l
Passed(i) == IF i >= StopAt(i) THEN <<>> ELSE SubSeq(clients, i, StopAt(i) - 1)
Deliver(i, m) ==
  told' = [c \in Clients |->
             IF Live(c) /\ \E k \in DOMAIN Passed(i) : Passed(i)[k] = c
             THEN Hear(c, m) ELSE told[c]]
DeadIn(seq) == Kept(seq, {c \in Clients : ~Live(c)})

\* list.remove raises when the client is not there: the rest stays listed.
RemovalFails(dead) == \E k \in DOMAIN dead : dead[k] \notin Listed
RemoveDead(dead) ==
  clients' = Kept(clients, {c \in Clients : \A k \in DOMAIN dead :
                             dead[k] = c => \E l \in 1..k : dead[l] \notin Listed})

\* Behind the last notification: after a success the handler sleeps five seconds.
\* That it first unlinks the temporary file of the upload, if that is still
\* there, and passes over a failure to, changes nothing of what is modelled here.
Conclude(u) ==
  upload' = [upload EXCEPT ![u] = IF work[u] = SUCCESS THEN "sleeping" ELSE "over"]

\* One run of the coroutine: it stops at a closing transport, or it ends.
\* An update's last notification, of == u, is awaited by its control handler.
NotifyFrom(u, m, i, dead) ==
  LET at  == StopAt(i)
      now == dead \o DeadIn(Passed(i))
      c   == clients[at]
  IN /\ Deliver(i, m)
     /\ \/ /\ at <= Len(clients)
           /\ Then((IF link[c] = "open" THEN <<Lost(c)>> ELSE <<>>)
                   \o <<Notify(u, m, at + 1, Append(now, c))>>)
           /\ link' = [link EXCEPT ![c] = "closing"]
           /\ UNCHANGED <<clients, upload>>
        \/ /\ at > Len(clients) /\ RemoveDead(now)
           /\ Then(<<>>) /\ UNCHANGED link
           /\ IF u = Nobody THEN UNCHANGED upload
              ELSE IF RemovalFails(now)
              THEN upload' = [upload EXCEPT ![u] = "dead"]
              ELSE Conclude(u)
     /\ UNCHANGED <<peer, poller, last, joined, work, mark, restarted>>

RunNotify ==
  /\ Runs("notify")
  /\ NotifyFrom(This.of, This.msg, This.at, This.dead)
  /\ UNCHANGED shown

----------------------------------------------------------------------------
\* _handle_progress_client.

\* The finally clause.
LeavesListed(c) ==
  /\ UNCHANGED clients
  /\ link' = [link EXCEPT ![c] = "closed"] /\ poller' = [poller EXCEPT ![c] = "done"]
Leave(c) ==
  /\ clients' = Without(c)
  /\ link' = [link EXCEPT ![c] = "closed"] /\ poller' = [poller EXCEPT ![c] = "done"]

Wait(c) == poller' = [poller EXCEPT ![c] = "waiting"] /\ UNCHANGED link
Seen(c) == last' = [last EXCEPT ![c] = Message(status, pct)]

\* The body of its loop, up to the next wait or the end: send what has changed,
\* then read, where a client that is known to have hung up ends the loop.
\* "listed" is the list of clients with this one in it.
Check(c, listed) ==
  LET msg == Message(status, pct)
  IN \/ /\ last[c] = msg /\ link[c] # "lost" /\ peer[c] # "eof"
        /\ Wait(c) /\ clients' = listed /\ Then(<<>>) /\ UNCHANGED <<last, told>>
     \/ /\ last[c] = msg /\ (link[c] = "lost" \/ peer[c] = "eof")
        /\ Leave(c) /\ Then(<<>>) /\ UNCHANGED <<last, told>>
     \/ /\ last[c] # msg /\ Seen(c) /\ Live(c)
        /\ told' = [told EXCEPT ![c] = Hear(c, BuildMsg(status, pct))]
        /\ IF Terminal(msg) THEN Leave(c) ELSE Wait(c) /\ clients' = listed
        /\ Then(<<>>)
     \/ /\ last[c] # msg /\ Seen(c) /\ Slow(c)
        /\ Then((IF link[c] = "open" THEN <<Lost(c)>> ELSE <<>>) \o <<Drained(c)>>)
        /\ link' = [link EXCEPT ![c] = "closing"]
        /\ poller' = [poller EXCEPT ![c] = "draining"]
        /\ clients' = listed /\ UNCHANGED told
     \/ /\ last[c] # msg /\ Seen(c) /\ link[c] = "lost"
        /\ Leave(c) /\ Then(<<>>) /\ UNCHANGED told

RunStart ==
  /\ Runs("start")
  /\ joined' = [joined EXCEPT ![This.of] = InProgress]
  /\ Check(This.of, Append(clients, This.of))
  /\ UNCHANGED <<shown, peer, upd>>

\* Woken by the timeout, by the end of the stream or by an error on it.
RunWake ==
  /\ Runs("wake")
  /\ \/ This.why = "timeout" /\ Check(This.of, clients)
     \/ This.why = "end" /\ Leave(This.of) /\ Then(<<>>) /\ UNCHANGED <<last, told>>
  /\ UNCHANGED <<shown, peer, joined, upd>>

\* drain() has raised ConnectionResetError.
RunDrained ==
  /\ Runs("drained") /\ Leave(This.of) /\ Then(<<>>)
  /\ UNCHANGED <<shown, peer, last, told, joined, upd>>

\* The handler is woken when it waits in read(), and not twice.
WakeUp(c) ==
  IF poller[c] = "waiting"
  THEN Then(<<Wake(c, "end")>>) /\ poller' = [poller EXCEPT ![c] = "woken"]
  ELSE Then(<<>>) /\ UNCHANGED poller

\* connection_lost: the reader gets the exception.
RunLost ==
  /\ Runs("lost") /\ WakeUp(This.of)
  /\ link' = [link EXCEPT ![This.of] = IF @ = "closed" THEN @ ELSE "lost"]
  /\ UNCHANGED <<shown, clients, peer, last, told, joined, upd>>

\* The transport reads the end of the stream; the shim may still write.
RunHangUp ==
  /\ Runs("hangup")
  /\ IF link[This.of] = "open"
     THEN WakeUp(This.of) /\ peer' = [peer EXCEPT ![This.of] = "eof"]
     ELSE Then(<<>>) /\ UNCHANGED <<peer, poller>>
  /\ UNCHANGED <<shown, clients, link, last, told, joined, upd>>

\* The 100 ms of read() are over.
Timeout(c) ==
  /\ poller[c] = "waiting"
  /\ poller' = [poller EXCEPT ![c] = "woken"] /\ Post(Wake(c, "timeout"))
  /\ UNCHANGED <<shown, clients, peer, link, last, told, joined, upd>>

----------------------------------------------------------------------------
\* _handle_control_client.

\* The request is read, acknowledged, and the update is announced, without a
\* wait in between; an updater that has gone away gets drain() to raise.
AnnouncesNothing == UNCHANGED shown
Announce == status' = RUN /\ pct' = 0
RunAsk ==
  /\ Runs("control") /\ This.how = "ask" /\ Then(<<>>)
  /\ \/ /\ Announce /\ upload' = [upload EXCEPT ![This.of] = "streaming"]
     \/ /\ Resets /\ upload' = [upload EXCEPT ![This.of] = "dead"]
        /\ UNCHANGED shown
  /\ UNCHANGED <<clients, conn, work, mark, restarted>>

\* The end of the stream, whatever has arrived, starts the installation.
RunUploaded ==
  /\ Runs("control") /\ This.how = "eof" /\ Then(<<>>)
  /\ status' = RUN /\ pct' = 0
  /\ upload' = [upload EXCEPT ![This.of] = "installing"]
  /\ work' = [work EXCEPT ![This.of] = "running"]
  /\ UNCHANGED <<clients, conn, mark, restarted>>

\* An error on the stream ends the handler.
RunUploadError ==
  /\ Runs("control") /\ This.how = "error" /\ Then(<<>>)
  /\ upload' = [upload EXCEPT ![This.of] = "dead"]
  /\ UNCHANGED <<shown, clients, conn, work, mark, restarted>>

\* The verdict is published, then sent to all: a failure with 0 percent, although
\* the percentage that is shown stays.
Publish(v) == status' = v /\ pct' = IF v = SUCCESS THEN 100 ELSE pct
ResultOfSuccess ==
  /\ Runs("control") /\ This.how = "result"
  /\ LET v == work[This.of]
     IN \/ /\ v # SUCCESS /\ Then(<<>>)
           /\ upload' = [upload EXCEPT ![This.of] = "over"]
           /\ UNCHANGED <<shown, clients, conn, work, mark, restarted>>
        \/ v = SUCCESS /\ Publish(v) /\ NotifyFrom(This.of, BuildMsg(v, 0), 1, <<>>)
RunResult ==
  /\ Runs("control") /\ This.how = "result"
  /\ LET v == work[This.of]
     IN \/ /\ v = "raised" /\ Then(<<>>)
           /\ upload' = [upload EXCEPT ![This.of] = "dead"]
           /\ UNCHANGED <<shown, clients, conn, work, mark, restarted>>
        \/ /\ v # "raised" /\ Publish(v)
           /\ NotifyFrom(This.of, BuildMsg(v, 0), 1, <<>>)

\* A handler that clears what is shown at its end, a variant for the mutation
\* checks.
RestartClears ==
  /\ Runs("control") /\ This.how = "restart" /\ Then(<<>>)
  /\ status' = SUCCESS /\ pct' = 0
  /\ restarted' = restarted \cup {This.of}
  /\ upload' = [upload EXCEPT ![This.of] = "over"]
  /\ UNCHANGED <<clients, conn, work, mark>>
RunRestart ==
  /\ Runs("control") /\ This.how = "restart" /\ Then(<<>>)
  /\ restarted' = restarted \cup {This.of}
  /\ upload' = [upload EXCEPT ![This.of] = "over"]
  /\ UNCHANGED <<shown, clients, conn, work, mark>>

SleepOver(u) ==
  /\ upload[u] = "sleeping" /\ upload' = [upload EXCEPT ![u] = "restarting"]
  /\ Post(Control(u, "restart"))
  /\ UNCHANGED <<shown, clients, conn, work, mark, restarted>>

----------------------------------------------------------------------------
\* The worker thread: process_swu as module Installer has it.  Its callback
\* changes _current_pct at once and has the loop run a notification.

Report(u) ==
  /\ work[u] = "running"
  /\ \E m \in Marks :
       /\ m > mark[u] /\ mark' = [mark EXCEPT ![u] = m] /\ pct' = m
       /\ Post(Notify(Nobody, BuildMsg(RUN, m), 1, <<>>))
  /\ UNCHANGED <<status, clients, conn, upload, work, restarted>>

Finish(u) ==
  /\ work[u] = "running"
  /\ \E v \in Verdicts :
       /\ v = SUCCESS => \A m \in Marks : m <= mark[u]
       /\ work' = [work EXCEPT ![u] = v]
  /\ Post(Control(u, "result"))
  /\ UNCHANGED <<shown, clients, conn, upload, mark, restarted>>

----------------------------------------------------------------------------
\* The other programs.

Connect(c) ==
  /\ peer[c] = "away" /\ peer' = [peer EXCEPT ![c] = "here"]
  /\ Post(Start(c))
  /\ UNCHANGED <<shown, clients, link, poller, last, told, joined, upd>>

\* A client that has its answer hangs up, some do earlier.
HangUp(c) ==
  /\ peer[c] = "here" /\ (c \in Quitters \/ Answered(c))
  /\ peer' = [peer EXCEPT ![c] = "gone"]
  /\ UNCHANGED <<shown, clients, ready, link, poller, last, told, joined, upd>>

Noticed(c) == \E i \in DOMAIN ready : ready[i] = [run |-> "hangup", of |-> c]
Notice(c) ==
  /\ peer[c] = "gone" /\ link[c] = "open" /\ ~Noticed(c)
  /\ Post([run |-> "hangup", of |-> c])
  /\ UNCHANGED <<shown, clients, conn, upd>>

\* The update before has its verdict, and the 100 ms have passed in which every
\* progress connection notices.
Answering(u) == upload[u] \in {"asking", "streaming", "ended", "installing"}
Quiet == /\ \A u \in Updaters : ~Answering(u)
         /\ \A c \in Clients : poller[c] = "waiting" => last[c] = Message(status, pct)
Ask(u) ==
  /\ upload[u] = "none" /\ upload' = [upload EXCEPT ![u] = "asking"]
  /\ OneAtATime => Quiet
  /\ Post(Control(u, "ask"))
  /\ UNCHANGED <<shown, clients, conn, work, mark, restarted>>

\* The updater closes its end, after the whole file or before.
EndUpload(u) ==
  /\ upload[u] = "streaming" /\ upload' = [upload EXCEPT ![u] = "ended"]
  /\ \/ Post(Control(u, "eof"))
     \/ Resets /\ Post(Control(u, "error"))
  /\ UNCHANGED <<shown, clients, conn, work, mark, restarted>>

\* The process is killed with all its threads, and Restart=always starts another,
\* which knows nothing of the connections, the files and the updates of the first
\* and shows what a fresh process shows.
Cut(u) == upload[u] \notin {"none", "over", "dead"}
Crash ==
  /\ crashes < MaxCrashes /\ crashes' = crashes + 1
  /\ status' = SUCCESS /\ pct' = 0 /\ clients' = <<>> /\ ready' = <<>>
  /\ link' = [c \in Clients |-> IF peer[c] = "away" THEN "open" ELSE "closed"]
  /\ poller' = [c \in Clients |-> IF peer[c] = "away" THEN "none" ELSE "done"]
  /\ upload' = [u \in Updaters |-> IF Cut(u) THEN "dead" ELSE upload[u]]
  /\ work' = [u \in Updaters |-> IF Answering(u) /\ work[u] \in {"none", "running"}
                                THEN "killed" ELSE work[u]]
  /\ UNCHANGED <<peer, last, told, joined, mark, restarted>>

RunLoop == \/ RunNotify \/ RunStart \/ RunWake \/ RunDrained \/ RunLost \/ RunHangUp
           \/ RunAsk \/ RunUploaded \/ RunUploadError \/ RunResult \/ RunRestart
Clock == (\E c \in Clients : Timeout(c)) \/ \E u \in Updaters : SleepOver(u)
Worker(u) == Report(u) \/ Finish(u)
Others == \/ \E c \in Clients : Connect(c) \/ HangUp(c) \/ Notice(c)
          \/ \E u \in Updaters : Ask(u) \/ EndUpload(u)

Alive == RunLoop \/ Clock \/ (\E u \in Updaters : Worker(u)) \/ Others
Next == (Alive /\ UNCHANGED crashes) \/ Crash

Spec == Init /\ [][Next]_vars

----------------------------------------------------------------------------
\* A program that follows an update is not told the verdict on an earlier one
\* or on a later one: the first "success" or "failure" it hears is the verdict of
\* an update that was in progress when it was let in.  A handler that dies of an
\* exception leaves its followers to the next update's verdict; a process that is
\* killed under an update leaves them with none, although the next one starts
\* with "success".
VerdictIsOwn ==
  \A c \in Clients :
    Answered(c) /\ joined[c] # {} =>
      \E u \in joined[c] : \/ work[u] = told[c].status
                          \/ (upload[u] = "dead" /\ work[u] # "killed")

\* While process_swu runs, what is shown is its update: status and percentage
\* are read by whoever connects late or asks for the status ("so late-connecting
\* clients see live pct", 53-54).  The handler of the update before may still be
\* asleep then, or on its way to the restart of the launcher.
ShownIsLive ==
  \A u \in Updaters : work[u] = "running" => status = RUN /\ pct = mark[u]

\* The list of clients holds every client whose handler runs once, and no other,
\* although notifications take clients out of it too: those only take out
\* clients whose transport is closing.
ListExact ==
  /\ Len(clients) = Cardinality(Listed)
  /\ \A c \in Clients : c \in Listed => poller[c] \notin {"none", "done"}
  /\ \A c \in Clients : poller[c] \in {"waiting", "woken"} /\ Live(c) => c \in Listed

\* A program that follows an update is never left without its verdict: when no
\* update is under way any more and no handler has died, a client that still
\* waits has not yet seen what is shown, a verdict, and the next of its checks,
\* at most 100 ms away, sends it that.
FollowersServed ==
  \A c \in Clients :
    poller[c] = "waiting" /\ Live(c) /\ joined[c] # {} /\ ~Answered(c)
    /\ (\A u \in Updaters : ~Answering(u) /\ upload[u] # "dead")
      => Terminal(Message(status, pct)) /\ last[c] # Message(status, pct)

\* move-launcher is restarted after every update that succeeded.  It says so of
\* handlers that are over, also of those an exception ended.
SuccessRestarts ==
  \A u \in Updaters :
    work[u] = SUCCESS /\ upload[u] \in {"over", "dead"} => u \in restarted
=============================================================================
