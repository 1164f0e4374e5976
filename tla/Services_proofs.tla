-------------------------- MODULE Services_proofs ---------------------------
(***************************************************************************)
(* Proofs about the services of the board side by side, for any number of  *)
(* faults.  What UsbGadget_proofs shows of the gadget is carried over; the *)
(* others are small enough to be proved here.                              *)
(***************************************************************************)
EXTENDS Services, TLAPS

G == INSTANCE UsbGadget_proofs WITH smooth <- gadgetSmooth

-----------------------------------------------------------------------------
(* The USB gadget. *)

LEMMA SameGadget == (Gadget!Init <=> G!Init) /\ (Gadget!Next <=> G!Next)
BY DEF Gadget!Init, Gadget!Next, Gadget!Enter, Gadget!Do, Gadget!Fail, Gadget!Kill,
       Gadget!StartUnit, Gadget!StopUnit, Gadget!Finish, Gadget!UdcChanges,
       Gadget!Accepted, Gadget!Effect, Gadget!Empty, Gadget!Unlinked,
       Gadget!Goes, Gadget!BehindStop, Gadget!Tolerated, Gadget!GiveUp,
       Gadget!StopCommands, Gadget!CreateCommands, Gadget!StartCommands,
       Gadget!Cmd, Gadget!Nodes, Gadget!Parent, Gadget!Target, Gadget!Links,
       G!Init, G!Next, G!Enter, G!Do, G!Fail, G!Kill, G!StartUnit, G!StopUnit,
       G!Finish, G!UdcChanges, G!Accepted, G!Effect, G!Empty, G!Unlinked,
       G!Goes, G!BehindStop, G!Tolerated, G!GiveUp, G!StopCommands,
       G!CreateCommands, G!StartCommands, G!Cmd, G!Nodes, G!Parent, G!Target,
       G!Links

LEMMA GadgetCorrect == Spec => []G!GadgetInv
<1>1. Init => G!GadgetInv
      BY SameGadget, G!InitInv DEF Init
<1>2. G!GadgetInv /\ [Next]_vars => G!GadgetInv'
  <2>1. CASE GadgetStep BY <2>1, SameGadget, G!NextInv DEF GadgetStep
  <2>2. CASE UNCHANGED gadgetVars
    <3>1. G!Kept BY <2>2 DEF gadgetVars, G!Kept
    <3> QED BY <3>1, G!KeptInv
  <2> QED BY <2>1, <2>2 DEF Next, WifiStep, ResetStep, ConnectStep, TechnologyStep, vars
<1> QED BY <1>1, <1>2, PTL DEF Spec

\* A host sees a gadget that is half torn down only when rm has failed on both of
\* its links, and never one that is half built, whatever commands of
\* setup-usb-network-gadget.sh fail and wherever its runs are killed.
THEOREM CompleteWhenBound == Spec => []BoundIsComplete
<1>1. G!GadgetInv => BoundIsComplete
      BY G!InvSays DEF G!BoundIsComplete, BoundIsComplete, Gadget!BoundIsComplete,
         G!Nodes, Gadget!Nodes, G!Target, Gadget!Target, G!Links, Gadget!Links
<1> QED BY <1>1, GadgetCorrect, PTL

\* A start or stop of the gadget that meets no fault of its own gets over whatever
\* earlier runs left, and the unit is up only with the gadget bound.
THEOREM RunsAreClean == Spec => []RunsCleanly
<1>1. G!GadgetInv => RunsCleanly
      BY G!InvSays DEF G!RunsCleanly, RunsCleanly, Gadget!RunsCleanly
<1> QED BY <1>1, GadgetCorrect, PTL

-----------------------------------------------------------------------------
(* factoryReset. *)

\* How far a reset that nothing has cut short has got.
WholeReset ==
  smooth =>
    /\ handler \in {"stop", "stopping", "start"} /\ ~wipes => home = "ours"
    /\ handler = "start" => home = "ours"
    /\ handler \in {"wipe", "make", "own"} => wipes
    /\ handler \in {"wipe", "make", "own", "start"} => held
    /\ handler = "stopping" => held

ResetInv == Reset!TypeOK /\ Reset!QuietWipe /\ Reset!ResetRestores /\ WholeReset

LEMMA ResetInit == Reset!Init => ResetInv
BY DEF Reset!Init, ResetInv, Reset!TypeOK, Reset!QuietWipe, Reset!ResetRestores, WholeReset

LEMMA ResetNext == ResetInv /\ [Reset!Next]_<<resetVars, faults>> => ResetInv'
<1> SUFFICES ASSUME ResetInv, [Reset!Next]_<<resetVars, faults>> PROVE ResetInv'
    OBVIOUS
<1> USE DEF ResetInv, Reset!TypeOK, Reset!QuietWipe, Reset!ResetRestores, WholeReset, Reset!Fault, Reset!NoFault
<1>1. CASE Reset!Call BY <1>1 DEF Reset!Call
<1>2. CASE Reset!Stop
  <2>1. CASE Reset!NoFault BY <1>2, <2>1 DEF Reset!Stop
  <2>2. CASE Reset!Fault
    <3>1. smooth' = FALSE /\ handler # "idle" /\ UNCHANGED <<launcher, wipes>>
          BY <1>2, <2>2 DEF Reset!Stop
    <3> QED BY <1>2, <3>1 DEF Reset!Stop
  <2> QED BY <1>2, <2>1, <2>2 DEF Reset!Stop
<1>3. CASE Reset!Stopped BY <1>3 DEF Reset!Stopped
<1>4. CASE Reset!Wipe BY <1>4 DEF Reset!Wipe
<1>5. CASE Reset!MakeHome
  <2>1. CASE Reset!NoFault BY <1>5, <2>1 DEF Reset!MakeHome
  <2>2. CASE Reset!Fault
    <3>1. smooth' = FALSE /\ handler # "idle" /\ UNCHANGED <<launcher, wipes>>
          BY <1>5, <2>2 DEF Reset!MakeHome
    <3> QED BY <1>5, <3>1 DEF Reset!MakeHome
  <2> QED BY <1>5, <2>1, <2>2 DEF Reset!MakeHome
<1>6. CASE Reset!OwnHome
  <2>1. CASE Reset!NoFault BY <1>6, <2>1 DEF Reset!OwnHome
  <2>2. CASE Reset!Fault
    <3>1. smooth' = FALSE /\ handler # "idle" /\ UNCHANGED <<launcher, wipes>>
          BY <1>6, <2>2 DEF Reset!OwnHome
    <3> QED BY <1>6, <3>1 DEF Reset!OwnHome
  <2> QED BY <1>6, <2>1, <2>2 DEF Reset!OwnHome
<1>7. CASE Reset!Start
  <2>1. CASE Reset!NoFault BY <1>7, <2>1 DEF Reset!Start
  <2>2. CASE Reset!Fault
    <3>1. smooth' = FALSE /\ handler # "idle" /\ UNCHANGED <<launcher, wipes>>
          BY <1>7, <2>2 DEF Reset!Start
    <3> QED BY <1>7, <3>1 DEF Reset!Start
  <2> QED BY <1>7, <2>1, <2>2 DEF Reset!Start
<1>8. CASE Reset!Kill BY <1>8 DEF Reset!Kill
<1>9. CASE Reset!TryRestart BY <1>9 DEF Reset!TryRestart
<1>10. CASE Reset!Exit BY <1>10 DEF Reset!Exit
<1>11. CASE Reset!AutoRestart BY <1>11 DEF Reset!AutoRestart
<1>12. CASE Reset!WriteBack BY <1>12 DEF Reset!WriteBack
<1>13. CASE Reset!PowerCut BY <1>13 DEF Reset!PowerCut
<1>14. CASE UNCHANGED <<resetVars, faults>> BY <1>14 DEF resetVars
<1> QED BY <1>1, <1>2, <1>3, <1>4, <1>5, <1>6, <1>7, <1>8, <1>9, <1>10, <1>11, <1>12,
      <1>13, <1>14 DEF Reset!Next

LEMMA ResetCorrect == Spec => []ResetInv
<1>1. Init => ResetInv
      BY ResetInit DEF Init
<1>2. ResetInv /\ [Next]_vars => ResetInv'
  <2>1. CASE ResetStep BY <2>1, ResetNext DEF ResetStep
  <2>2. CASE UNCHANGED resetVars
        BY <2>2
        DEF resetVars, ResetInv, Reset!TypeOK, Reset!QuietWipe, Reset!ResetRestores, WholeReset
  <2> QED BY <2>1, <2>2 DEF Next, GadgetStep, WifiStep, ConnectStep, TechnologyStep, vars
<1> QED BY <1>1, <1>2, PTL DEF Spec

\* Nothing is wiped under a running launcher: from the moment systemctl stop has come
\* back, and until systemctl start, it is down, whoever asks for a restart.
THEOREM WipesQuietly == Spec => []QuietWipe
<1>1. ResetInv => QuietWipe
      BY DEF ResetInv, QuietWipe
<1> QED BY <1>1, ResetCorrect, PTL

\* A reset that nothing cuts short brings UserData and the launcher back, in
\* whatever state earlier ones left them.
THEOREM WholeResetRestores == Spec => []ResetRestores
<1>1. ResetInv => ResetRestores
      BY DEF ResetInv, ResetRestores
<1> QED BY <1>1, ResetCorrect, PTL

-----------------------------------------------------------------------------
(* The first-boot WiFi script. *)

\* Until shred runs the credentials file is whole, from then on the key file is;
\* and what the operator put on the card is on the card.
OneCopy ==
  /\ step \in {"create", "fill", "protect", "shred"} => cfg = "full"
  /\ step \in {"protect", "shred", "unlink", "rm"} => key = "full"
  /\ cfg = "full" => cfgDisk = "full"

WifiInv == Wifi!TypeOK /\ OneCopy

LEMMA WifiInit == Wifi!Init => WifiInv
BY DEF Wifi!Init, WifiInv, Wifi!TypeOK, OneCopy, Wifi!Running

LEMMA WifiNext == WifiInv /\ [Wifi!Next]_<<wifiVars, faults>> => WifiInv'
<1> SUFFICES ASSUME WifiInv, [Wifi!Next]_<<wifiVars, faults>> PROVE WifiInv'
    OBVIOUS
<1> USE DEF WifiInv, Wifi!TypeOK, OneCopy, Wifi!Running
<1>1. CASE Wifi!Boot BY <1>1 DEF Wifi!Boot
<1>2. CASE Wifi!Read BY <1>2 DEF Wifi!Read
<1>3. CASE Wifi!Create BY <1>3 DEF Wifi!Create
<1>4. CASE Wifi!Fill BY <1>4 DEF Wifi!Fill
<1>5. CASE Wifi!Protect BY <1>5 DEF Wifi!Protect
<1>6. CASE Wifi!Shred BY <1>6 DEF Wifi!Shred
<1>7. CASE Wifi!Unlink BY <1>7 DEF Wifi!Unlink
<1>8. CASE Wifi!ShredFails BY <1>8 DEF Wifi!ShredFails
<1>9. CASE Wifi!Fail BY <1>9 DEF Wifi!Fail
<1>10. CASE Wifi!WriteBack BY <1>10 DEF Wifi!WriteBack
<1>11. CASE Wifi!PowerCut BY <1>11 DEF Wifi!PowerCut
<1>12. CASE Wifi!Shutdown BY <1>12 DEF Wifi!Shutdown
<1>13. CASE UNCHANGED <<wifiVars, faults>> BY <1>13 DEF wifiVars
<1> QED BY <1>1, <1>2, <1>3, <1>4, <1>5, <1>6, <1>7, <1>8, <1>9, <1>10, <1>11, <1>12,
      <1>13 DEF Wifi!Next

LEMMA CopyKept ==
  ASSUME WifiInv, Wifi!Next, cfg = "full" \/ key = "full", ~(cfg' = "full" \/ key' = "full")
  PROVE  step' = "off" /\ key = "full" /\ keyDisk # "full"
<1>1. Wifi!Create \/ Wifi!Shred \/ Wifi!Unlink \/ Wifi!PowerCut
      BY DEF Wifi!Next, Wifi!Boot, Wifi!Read, Wifi!Fill, Wifi!Protect, Wifi!ShredFails, Wifi!Fail, Wifi!WriteBack, Wifi!Shutdown
<1>2. ~Wifi!Create BY DEF Wifi!Create, WifiInv, OneCopy
<1>3. ~Wifi!Shred BY DEF Wifi!Shred, WifiInv, OneCopy
<1>4. ~Wifi!Unlink BY DEF Wifi!Unlink, WifiInv, OneCopy
<1> QED BY <1>1, <1>2, <1>3, <1>4 DEF Wifi!PowerCut, WifiInv, OneCopy

LEMMA WifiCorrect == Spec => []WifiInv
<1>1. Init => WifiInv
      BY WifiInit DEF Init
<1>2. WifiInv /\ [Next]_vars => WifiInv'
  <2>1. CASE WifiStep BY <2>1, WifiNext DEF WifiStep
  <2>2. CASE UNCHANGED wifiVars
        BY <2>2 DEF wifiVars, WifiInv, Wifi!TypeOK, OneCopy, Wifi!Running
  <2> QED BY <2>1, <2>2 DEF Next, GadgetStep, ResetStep, ConnectStep, TechnologyStep, vars
<1> QED BY <1>1, <1>2, PTL DEF Spec

\* The WiFi credentials are lost only when the power fails while the key file waits
\* to be written to the disk.
THEOREM CredentialsSurvive == Spec => CredentialsKept
<1> DEFINE Lost == (cfg = "full" \/ key = "full") /\ ~(cfg' = "full" \/ key' = "full")
           Unwritten == step' = "off" /\ key = "full" /\ keyDisk # "full"
<1>1. WifiInv /\ [Next]_vars => (Lost => Unwritten)
  <2>1. CASE WifiStep BY <2>1, CopyKept DEF WifiStep
  <2>2. CASE UNCHANGED wifiVars BY <2>2 DEF wifiVars
  <2> QED BY <2>1, <2>2 DEF Next, GadgetStep, ResetStep, ConnectStep, TechnologyStep, vars
<1>2. WifiInv /\ [Next]_vars => [Lost => Unwritten]_<<Wifi!wifiVars, faults>>
      BY <1>1
<1> QED BY <1>2, WifiCorrect, PTL DEF Spec, CredentialsKept, Wifi!CredentialsKept

-----------------------------------------------------------------------------
(* Connecting. *)

Calls == [at : {"over", "reading", "introspecting", "asking", "activating"},
          net : Connecting!Nets \cup {Connecting!None},
          asks : Connecting!Agents \cup {Connecting!None}]
ConnectInv == /\ connect \in [Connecting!Callers -> Calls]
              /\ agent \in Connecting!Agents \cup {Connecting!None}

LEMMA OverIsCall == Connecting!Over \in Calls
BY DEF Calls, Connecting!Over, Connecting!Connect, Connecting!None

\* A step of a call is one of these, and the other calls stay where they are.
Moves(i, c) == /\ c \in Calls
               /\ connect' = [connect EXCEPT ![i] = c]
               /\ c.at = "asking" => connect[i].at = "introspecting" /\ agent # Connecting!None
                                       /\ c.asks = agent
               /\ c.at = "activating" /\ Connecting!Secured(c.net) => connect[i].at = "asking"

LEMMA ActivateMoves ==
  ASSUME ConnectInv, NEW i \in Connecting!Callers,
         NEW n \in Connecting!Nets \cup {Connecting!None}, Connecting!Activate(i, n),
         Connecting!Secured(n) => connect[i].at = "asking"
  PROVE \E c \in Calls : Moves(i, c)
<1> DEFINE A == Connecting!Connect("activating", n, Connecting!None)
<1>1. CASE Connecting!Step(i, A)
  <2>1. A \in Calls /\ A.at = "activating" /\ A.net = n
        BY DEF Calls, Connecting!Connect, Connecting!None
  <2> QED BY <1>1, <2>1 DEF Moves, Connecting!Step
<1>2. CASE Connecting!Step(i, Connecting!Over)
      BY <1>2, OverIsCall DEF Moves, Connecting!Step, Connecting!Over, Connecting!Connect
<1> QED BY <1>1, <1>2 DEF Connecting!Activate

LEMMA PropertiesMove ==
  ASSUME ConnectInv, NEW i \in Connecting!Callers,
         NEW n \in Connecting!Nets \cup {Connecting!None}, Connecting!WithProperties(i, n)
  PROVE \E c \in Calls : Moves(i, c)
<1> DEFINE I == Connecting!Connect("introspecting", n, agent)
<1>1. CASE ~Connecting!Secured(n)
      BY <1>1, ActivateMoves DEF Connecting!WithProperties
<1>2. CASE Connecting!Secured(n) /\ Connecting!Step(i, I)
  <2>1. I \in Calls /\ I.at = "introspecting"
        BY DEF ConnectInv, Calls, Connecting!Connect
  <2> QED BY <1>2, <2>1 DEF Moves, Connecting!Step
<1>3. CASE Connecting!Step(i, Connecting!Over)
      BY <1>3, OverIsCall DEF Moves, Connecting!Step, Connecting!Over, Connecting!Connect
<1> QED BY <1>1, <1>2, <1>3 DEF Connecting!WithProperties, Connecting!AskPassphrase

\* Every step of Connecting moves one call or none.
LEMMA OneMoves ==
  ASSUME ConnectInv, Connecting!Next
  PROVE \/ UNCHANGED connect
        \/ \E i \in Connecting!Callers : \E c \in Calls : Moves(i, c)
<1>1. ASSUME NEW i \in Connecting!Callers, NEW n \in Connecting!Nets, Connecting!Call(i, n)
      PROVE \E c \in Calls : Moves(i, c)
  <2> DEFINE R1 == Connecting!Connect("reading", n, Connecting!None)
  <2>1. R1 \in Calls /\ R1.at = "reading"
        BY DEF Calls, Connecting!Connect, Connecting!None
  <2>2. CASE Connecting!Step(i, R1) BY <2>1, <2>2 DEF Moves, Connecting!Step
  <2>3. CASE Connecting!WithProperties(i, n) BY <2>3, PropertiesMove
  <2> QED BY <1>1, <2>2, <2>3 DEF Connecting!Call
<1>2. ASSUME NEW i \in Connecting!Callers, Connecting!Read(i)
      PROVE \E c \in Calls : Moves(i, c)
  <2>1. connect[i].net \in Connecting!Nets \cup {Connecting!None}
        BY DEF ConnectInv, Calls
  <2>2. CASE Connecting!WithProperties(i, connect[i].net) BY <2>1, <2>2, PropertiesMove
  <2>3. CASE Connecting!WithProperties(i, Connecting!None) BY <2>3, PropertiesMove
  <2> QED BY <1>2, <2>2, <2>3 DEF Connecting!Read
<1>3. ASSUME NEW i \in Connecting!Callers, Connecting!RequestInput(i)
      PROVE \E c \in Calls : Moves(i, c)
  <2> DEFINE A == [connect[i] EXCEPT !.at = "asking", !.asks = agent]
  <2>1. CASE Connecting!Step(i, Connecting!Over)
        BY <2>1, OverIsCall DEF Moves, Connecting!Step, Connecting!Over, Connecting!Connect
  <2>2. CASE agent # Connecting!None /\ Connecting!Step(i, A)
    <3>1. connect[i] \in Calls BY DEF ConnectInv
    <3>2. A \in Calls /\ A.at = "asking" /\ A.asks = agent
          BY <3>1 DEF ConnectInv, Calls
    <3> QED BY <1>3, <2>2, <3>2 DEF Moves, Connecting!Step, Connecting!RequestInput
  <2> QED BY <1>3, <2>1, <2>2 DEF Connecting!RequestInput, Connecting!AsksOf
<1>4. ASSUME NEW i \in Connecting!Callers, Connecting!Answered(i)
      PROVE \E c \in Calls : Moves(i, c)
  <2>1. connect[i].net \in Connecting!Nets \cup {Connecting!None}
        BY DEF ConnectInv, Calls
  <2>2. CASE Connecting!Activate(i, connect[i].net)
        BY <1>4, <2>1, <2>2, ActivateMoves DEF Connecting!Answered
  <2>3. CASE Connecting!Step(i, Connecting!Over)
        BY <2>3, OverIsCall DEF Moves, Connecting!Step, Connecting!Over, Connecting!Connect
  <2> QED BY <1>4, <2>2, <2>3 DEF Connecting!Answered
<1>5. ASSUME NEW i \in Connecting!Callers, Connecting!Activated(i)
      PROVE \E c \in Calls : Moves(i, c)
      BY <1>5, OverIsCall
      DEF Connecting!Activated, Moves, Connecting!Step, Connecting!Over, Connecting!Connect
<1> QED BY <1>1, <1>2, <1>3, <1>4, <1>5
        DEF Connecting!Next, Connecting!RegisterAgent, Connecting!AgentGone,
            Connecting!UnregisterAgent, Connecting!Vanish, Connecting!Invalidate,
            Connecting!apVars

LEMMA AgentKnown ==
  ASSUME ConnectInv, Connecting!Next
  PROVE agent' \in Connecting!Agents \cup {Connecting!None}
BY DEF ConnectInv, Connecting!Next, Connecting!RegisterAgent, Connecting!AgentGone,
       Connecting!UnregisterAgent, Connecting!Vanish, Connecting!Invalidate, Connecting!Call,
       Connecting!Read, Connecting!RequestInput, Connecting!Answered, Connecting!Activated,
       Connecting!agentVars, Connecting!apVars

\* What a step may do to a call.
Decided(i) ==
  /\ connect[i].at # "asking" /\ connect'[i].at = "asking"
       => agent # Connecting!None /\ connect'[i].asks = agent
  /\ connect[i].at # "activating" /\ connect'[i].at = "activating"
          /\ Connecting!Secured(connect'[i].net)
       => connect[i].at = "asking"

LEMMA ConnectStepDecides ==
  ASSUME ConnectInv, [Next]_vars
  PROVE ConnectInv' /\ \A i \in Connecting!Callers : Decided(i)
<1>1. CASE ConnectStep
  <2>1. Connecting!Next BY <1>1 DEF ConnectStep
  <2>2. CASE UNCHANGED connect BY <2>1, <2>2, AgentKnown DEF ConnectInv, Decided
  <2>3. CASE \E i \in Connecting!Callers : \E c \in Calls : Moves(i, c)
    <3>1. PICK i \in Connecting!Callers, c \in Calls : Moves(i, c) BY <2>3
    <3>2. connect' \in [Connecting!Callers -> Calls] BY <3>1 DEF Moves, ConnectInv
    <3>3. /\ connect'[i] = c
          /\ \A j \in Connecting!Callers \ {i} : connect'[j] = connect[j]
          BY <3>1 DEF Moves, ConnectInv
    <3>4. Decided(i) BY <3>1, <3>3 DEF Moves, Decided
    <3>5. \A j \in Connecting!Callers \ {i} : Decided(j) BY <3>3 DEF Decided
    <3> QED BY <2>1, <3>2, <3>4, <3>5, AgentKnown DEF ConnectInv
  <2> QED BY <2>1, <2>2, <2>3, OneMoves
<1>2. CASE UNCHANGED connmanVars BY <1>2 DEF connmanVars, ConnectInv, Decided
<1> QED BY <1>1, <1>2 DEF Next, GadgetStep, WifiStep, ResetStep, TechnologyStep, vars

\* Only the registered agent is asked for a passphrase, and a secured network is
\* activated only once an agent has answered, for any number of faults.
THEOREM AgentAlwaysDecides == Spec => AgentDecides
<1>1. Init => ConnectInv
      BY OverIsCall DEF Init, Connecting!Init, ConnectInv
<1>2. ConnectInv /\ [Next]_vars => ConnectInv'
      BY ConnectStepDecides
<1>3. ConnectInv /\ [Next]_vars => [\A i \in Connecting!Callers : Decided(i)]_connect
      BY ConnectStepDecides
<1> QED BY <1>1, <1>2, <1>3, PTL DEF Spec, AgentDecides, Connecting!AgentDecides, Decided

-----------------------------------------------------------------------------
(* Powered. *)

\* The last reply on its way says what Powered is; with none, the last
\* PropertyChanged did.
PoweredInv ==
  /\ sets \in Seq(Technology!Switch) /\ replies \in Seq(Technology!Switch)
  /\ replies = <<>> /\ claimed # Technology!None => claimed = powered
  /\ replies # <<>> => replies[Len(replies)] = powered

LEMMA TechnologyKeeps == ASSUME PoweredInv, Technology!Next PROVE PoweredInv'
<1>1. ASSUME NEW v \in Technology!Switch, Technology!SetProperty(v) PROVE PoweredInv'
      BY <1>1 DEF PoweredInv, Technology!SetProperty, Technology!BeforeReply
<1>2. CASE Technology!SetDone
  <2>1. Head(sets) \in Technology!Switch /\ Tail(sets) \in Seq(Technology!Switch)
        BY <1>2 DEF PoweredInv, Technology!SetDone
  <2>2. /\ replies' \in Seq(Technology!Switch)
        /\ Len(replies') = Len(replies) + 1 /\ replies'[Len(replies) + 1] = Head(sets)
        BY <1>2, <2>1 DEF PoweredInv, Technology!SetDone
  <2>3. replies' # <<>> /\ replies'[Len(replies')] = powered'
        BY <1>2, <2>2 DEF PoweredInv, Technology!SetDone
  <2> QED BY <1>2, <2>1, <2>2, <2>3 DEF PoweredInv, Technology!SetDone
<1>3. CASE Technology!SetRefused
      BY <1>3 DEF PoweredInv, Technology!SetRefused
<1>4. CASE Technology!PropertyChanged
  <2>1. /\ Tail(replies) \in Seq(Technology!Switch)
        /\ Len(replies) # 0 /\ Len(Tail(replies)) = Len(replies) - 1
        /\ \A k \in 1..Len(Tail(replies)) : Tail(replies)[k] = replies[k + 1]
        BY <1>4 DEF PoweredInv, Technology!PropertyChanged
  <2>2. CASE replies' = <<>>
    <3>1. Len(replies) = 1
      <4>1. Tail(replies) = <<>> BY <1>4, <2>2 DEF Technology!PropertyChanged
      <4>2. Len(Tail(replies)) = 0 BY <4>1
      <4>3. Len(replies) \in Nat BY DEF PoweredInv
      <4> DEFINE m == Len(replies)
      <4>4. 0 = m - 1 BY <2>1, <4>2
      <4> HIDE DEF m
      <4> QED BY <4>3, <4>4 DEF m
    <3>2. claimed' = powered' BY <1>4, <2>1, <3>1 DEF PoweredInv, Technology!PropertyChanged
    <3> QED BY <1>4, <2>1, <2>2, <3>2 DEF PoweredInv, Technology!PropertyChanged
  <2>3. CASE replies' # <<>>
    <3>1. Len(Tail(replies)) \in 1..Len(Tail(replies))
          BY <1>4, <2>1, <2>3 DEF PoweredInv, Technology!PropertyChanged
    <3>2. replies'[Len(replies')] = powered'
          BY <1>4, <2>1, <3>1 DEF PoweredInv, Technology!PropertyChanged
    <3> QED BY <1>4, <2>1, <2>3, <3>2 DEF PoweredInv, Technology!PropertyChanged
  <2> QED BY <2>2, <2>3
<1> QED BY <1>1, <1>2, <1>3, <1>4 DEF Technology!Next

\* When every call of SetProperty is answered, the last PropertyChanged said what
\* Powered is, however many calls overlap and are refused.
THEOREM PowerAlwaysAgrees == Spec => []PowerAgrees
<1>1. Init => PoweredInv
      BY DEF Init, Technology!Init, PoweredInv
<1>2. PoweredInv /\ [Next]_vars => PoweredInv'
  <2>1. CASE TechnologyStep BY <2>1, TechnologyKeeps DEF TechnologyStep
  <2>2. CASE UNCHANGED technologyVars BY <2>2 DEF technologyVars, PoweredInv
  <2> QED BY <2>1, <2>2 DEF Next, GadgetStep, WifiStep, ResetStep, ConnectStep, vars
<1>3. PoweredInv => PowerAgrees
      BY DEF PoweredInv, PowerAgrees, Technology!PowerAgrees
<1> QED BY <1>1, <1>2, <1>3, PTL DEF Spec

=============================================================================
