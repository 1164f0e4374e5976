--------------------------- MODULE ConnmanConnect ---------------------------
(***************************************************************************)
(* Connecting through the ConnMan shim (move-connman-shim.py): Connect     *)
(* reads the properties of the access point, has the agent of MoveOriginal *)
(* ask for the passphrase of a secured network, and has NetworkManager     *)
(* activate it.  Every call is a coroutine, with a place for each await.   *)
(***************************************************************************)
EXTENDS Naturals

CONSTANT MaxFaults   \* bound: access points and agents that go, refused calls

VARIABLES
  inRange, cached,   \* the networks NetworkManager knows; those in _ap_cache
  agent,             \* agent_path, set and cleared together with its bus name
  answering,         \* the agent objects of MoveOriginal that answer
  connect,           \* the coroutines of Connect
  faults

connmanVars == <<inRange, cached, agent, answering, connect>>
apVars == <<inRange, cached>>
agentVars == <<agent, answering>>

Nets == {"home", "cafe"}        \* one with a passphrase and an open one
Agents == {"first", "second"}   \* MoveOriginal's, before and after it is restarted
Callers == {1, 2}
Secured(n) == n = "home"

\* No network, or no agent.
None == "none"

\* A call of Connect: its place, the service's network, and the agent it has turned
\* to.  How it ends is only told to its caller.
Connect(at, net, asks) == [at |-> at, net |-> net, asks |-> asks]
Over == Connect("over", None, None)
Step(i, next) == connect' = [connect EXCEPT ![i] = next]

Init ==
  /\ inRange = Nets /\ cached = {}
  /\ agent = None /\ answering = {}
  /\ connect = [i \in Callers |-> Over]

-----------------------------------------------------------------------------
(* MoveOriginal and NetworkManager *)

RegisterAgent(a) ==
  /\ answering' = answering \cup {a} /\ agent' = a
  /\ UNCHANGED <<apVars, connect, faults>>

\* Whichever path it names.
UnregisterAgent ==
  /\ agent # None /\ agent' = None
  /\ UNCHANGED <<apVars, answering, connect, faults>>

\* MoveOriginal ends without a word.
AgentGone(a) ==
  /\ faults < MaxFaults /\ faults' = faults + 1
  /\ a \in answering /\ answering' = answering \ {a}
  /\ UNCHANGED <<apVars, agent, connect>>

Vanish(n) ==
  /\ faults < MaxFaults /\ faults' = faults + 1
  /\ n \in inRange /\ inRange' = inRange \ {n}
  /\ UNCHANGED <<cached, agentVars, connect>>

\* The handler of its signal, which comes later.
Invalidate(n) ==
  /\ n \in cached \ inRange /\ cached' = cached \ {n}
  /\ UNCHANGED <<inRange, agentVars, connect, faults>>

-----------------------------------------------------------------------------
(* Connect *)

\* NetworkManager is asked to activate a network, and may refuse; it refuses one
\* without a name.
Activate(i, n) ==
  \/ n # None /\ Step(i, Connect("activating", n, None)) /\ UNCHANGED faults
  \/ n = None /\ Step(i, Over) /\ UNCHANGED faults
  \/ /\ faults < MaxFaults /\ faults' = faults + 1
     /\ Step(i, Over)

\* ask_passphrase up to its first await.
AskPassphrase(i, n) ==
  /\ UNCHANGED faults
  /\ IF agent = None THEN Step(i, Over)
                     ELSE Step(i, Connect("introspecting", n, agent))

\* With the properties of its network, or with none.
WithProperties(i, n) == IF Secured(n) THEN AskPassphrase(i, n) ELSE Activate(i, n)

Call(i, n) ==
  /\ connect[i].at = "over"
  /\ IF n \in cached THEN WithProperties(i, n)
     ELSE Step(i, Connect("reading", n, None)) /\ UNCHANGED faults
  /\ UNCHANGED <<apVars, agentVars>>

\* ap_properties: the network has gone, and there are no properties: no SSID,
\* which is as good as an open network.
Read(i) ==
  /\ connect[i].at = "reading"
  /\ LET n == connect[i].net IN
     \/ n \in inRange /\ cached' = cached \cup {n} /\ WithProperties(i, n)
     \/ n \notin inRange /\ UNCHANGED cached /\ WithProperties(i, None)
  /\ UNCHANGED <<inRange, agentVars>>

\* The agent that was introspected is asked, a variant for the mutation checks.
AsksIntrospected(i) == connect[i].asks

\* The proxy object is made with the path as it is now; with none, that raises.
AsksOf(i) == agent
RequestInput(i) ==
  /\ connect[i].at = "introspecting"
  /\ LET c == connect[i] IN
     Step(i, IF c.asks \notin answering THEN Over
             ELSE IF AsksOf(i) = None THEN Over
             ELSE [c EXCEPT !.at = "asking", !.asks = AsksOf(i)])
  /\ UNCHANGED <<apVars, agentVars, faults>>

\* The agent answers with a passphrase, which may be empty, or with none, or it has
\* gone.
Answered(i) ==
  /\ connect[i].at = "asking"
  /\ \/ connect[i].asks \in answering /\ Activate(i, connect[i].net)
     \/ Step(i, Over) /\ UNCHANGED faults
  /\ UNCHANGED <<apVars, agentVars>>

Activated(i) ==
  /\ connect[i].at = "activating"
  /\ Step(i, Over)
  /\ UNCHANGED <<apVars, agentVars, faults>>

-----------------------------------------------------------------------------
Next ==
  \/ \E a \in Agents : RegisterAgent(a) \/ AgentGone(a)
  \/ UnregisterAgent
  \/ \E n \in Nets : Vanish(n) \/ Invalidate(n) \/ \E i \in Callers : Call(i, n)
  \/ \E i \in Callers : Read(i) \/ RequestInput(i) \/ Answered(i) \/ Activated(i)

Spec == Init /\ faults = 0 /\ [][Next]_<<connmanVars, faults>>

-----------------------------------------------------------------------------
(* Properties. *)

\* The passphrase is asked of the agent that is registered at that moment, not of the
\* one that was when ask_passphrase began (agents come and go while it waits), and a
\* secured network is activated only after an agent has answered for it.
AgentDecides ==
  [][\A i \in Callers :
       /\ connect[i].at # "asking" /\ connect'[i].at = "asking"
            => agent # None /\ connect'[i].asks = agent
       /\ connect[i].at # "activating" /\ connect'[i].at = "activating"
               /\ Secured(connect'[i].net)
            => connect[i].at = "asking"]_connect
=============================================================================
