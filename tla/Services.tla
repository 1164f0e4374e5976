------------------------------ MODULE Services ------------------------------
(***************************************************************************)
(* The small services of the board side by side: the USB gadget, the       *)
(* first-boot WiFi script, factoryReset, and connecting and switching      *)
(* WiFi through the ConnMan shim.  They share no state, so a behaviour is  *)
(* one of any of them and their interleavings are left out.                *)
(***************************************************************************)
EXTENDS Naturals, Sequences

CONSTANT MaxFaults

VARIABLES
  tree, bound, udc, script, unit, gadgetSmooth, stuck,       \* UsbGadget
  cfg, cfgDisk, key, keyDisk, step,                          \* FirstbootWifi
  launcher, handler, wipes, held, home, homeDisk, smooth,    \* FactoryReset
  inRange, cached, agent, answering, connect,                \* ConnmanConnect
  powered, claimed, sets, replies,                           \* ConnmanTechnology
  faults

Gadget == INSTANCE UsbGadget WITH smooth <- gadgetSmooth
Wifi == INSTANCE FirstbootWifi
Reset == INSTANCE FactoryReset
Connecting == INSTANCE ConnmanConnect
Technology == INSTANCE ConnmanTechnology

gadgetVars == <<tree, bound, udc, script, unit, gadgetSmooth, stuck>>
wifiVars == <<cfg, cfgDisk, key, keyDisk, step>>
resetVars == <<launcher, handler, wipes, held, home, homeDisk, smooth>>
connmanVars == <<inRange, cached, agent, answering, connect>>
technologyVars == <<powered, claimed, sets, replies>>
vars == <<gadgetVars, wifiVars, resetVars, connmanVars, technologyVars, faults>>

Init == /\ Gadget!Init /\ Wifi!Init /\ Reset!Init /\ Connecting!Init /\ Technology!Init
        /\ faults = 0

\* Only one of them leaves its initial state in a behaviour.
GadgetStep == /\ Wifi!Init /\ Reset!Init /\ Connecting!Init /\ Technology!Init
              /\ Gadget!Next /\ UNCHANGED <<wifiVars, resetVars, connmanVars, technologyVars>>
WifiStep == /\ Gadget!Init /\ Reset!Init /\ Connecting!Init /\ Technology!Init
            /\ Wifi!Next /\ UNCHANGED <<gadgetVars, resetVars, connmanVars, technologyVars>>
ResetStep == /\ Gadget!Init /\ Wifi!Init /\ Connecting!Init /\ Technology!Init
             /\ Reset!Next /\ UNCHANGED <<gadgetVars, wifiVars, connmanVars, technologyVars>>
ConnectStep == /\ Gadget!Init /\ Wifi!Init /\ Reset!Init /\ Technology!Init
               /\ Connecting!Next /\ UNCHANGED <<gadgetVars, wifiVars, resetVars, technologyVars>>
TechnologyStep == /\ Gadget!Init /\ Wifi!Init /\ Reset!Init /\ Connecting!Init
                  /\ Technology!Next /\ UNCHANGED <<gadgetVars, wifiVars, resetVars, connmanVars>>

Next == GadgetStep \/ WifiStep \/ ResetStep \/ ConnectStep \/ TechnologyStep

Spec == Init /\ [][Next]_vars

-----------------------------------------------------------------------------
\* The gadget is complete while a host can see it, unless both its links withstand rm.
BoundIsComplete == Gadget!BoundIsComplete
\* A start or stop of the gadget gets over whatever earlier runs left.
RunsCleanly == Gadget!RunsCleanly
\* The WiFi credentials survive everything but a power cut before the key file is
\* on the disk.
CredentialsKept == Wifi!CredentialsKept
\* Nothing is wiped under a running launcher.
QuietWipe == Reset!QuietWipe
\* A whole reset brings UserData and the launcher back.
ResetRestores == Reset!ResetRestores
\* The agent that is registered decides whether a secured network is activated.
AgentDecides == Connecting!AgentDecides
\* The last PropertyChanged said what Powered is.
PowerAgrees == Technology!PowerAgrees
=============================================================================
