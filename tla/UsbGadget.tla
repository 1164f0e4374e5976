----------------------------- MODULE UsbGadget -----------------------------
(***************************************************************************)
(* The USB network gadget: setup-usb-network-gadget.sh, run by the oneshot *)
(* unit move-usb-gadget.service, on the kernel's configfs tree.            *)
(*                                                                         *)
(* A run of the script is the sequence of commands it has still to do.     *)
(* start first does all of stop, whose commands may fail, and then builds  *)
(* the tree, where the first command that fails ends the script (set -e).  *)
(* The tree outlives the script: a run may find what any earlier one left. *)
(***************************************************************************)
EXTENDS Naturals, Sequences

CONSTANT MaxFaults   \* bound: commands that fail by themselves, and killed runs

VARIABLES
  tree,     \* the nodes below usb_gadget/ that exist
  bound,    \* has the gadget been given a UDC?
  udc,      \* is there a UDC, a device controller to give it?
  script,   \* the commands the script has still to do
  unit,     \* "inactive" | "starting" | "active" | "stopping" | "failed"
  smooth,   \* this run has met no fault: only what earlier ones left behind
  stuck,    \* the links that an rm was to take away, and failed to
  faults

gadgetVars == <<tree, bound, udc, script, unit, smooth, stuck>>

\* g1, strings/0x409, configs/c.1, its strings/0x409, functions/ncm.usb0, the link
\* of the function in configs/c.1 and the link of the configuration in os_desc.
\* The kernel makes and removes the groups between them.
Nodes == {"g1", "strings", "config", "config_strings", "function",
          "function_link", "config_link"}
Parent == [n \in Nodes \ {"g1"} |->
             IF n \in {"config_strings", "function_link"} THEN "config" ELSE "g1"]
Target == [function_link |-> "function", config_link |-> "config"]
Links == DOMAIN Target

Cmd(do, node) == [do |-> do, node |-> node]

\* The stop function without the link in os_desc, and one that takes the strings
\* first, variants for the mutation checks.
StopKeepsLink ==
  <<Cmd("cd", "g1"), Cmd("rm", "function_link"),
    Cmd("rmdir", "config_strings"), Cmd("rmdir", "config"), Cmd("rmdir", "function"),
    Cmd("rmdir", "strings"), Cmd("rmdir", "g1")>>
StopStringsFirst ==
  <<Cmd("cd", "g1"), Cmd("rmdir", "strings"), Cmd("rmdir", "config_strings"),
    Cmd("rm", "function_link"), Cmd("rm", "config_link"),
    Cmd("rmdir", "config"), Cmd("rmdir", "function"), Cmd("rmdir", "g1")>>

\* Emptying UDC writes nothing to it, so the gadget stays bound until a link goes.
StopCommands ==
  <<Cmd("cd", "g1"), Cmd("rm", "function_link"), Cmd("rm", "config_link"),
    Cmd("rmdir", "config_strings"), Cmd("rmdir", "config"), Cmd("rmdir", "function"),
    Cmd("rmdir", "strings"), Cmd("rmdir", "g1")>>

CreateCommands ==
  <<Cmd("mkdir", "g1"), Cmd("write", "g1"), Cmd("mkdir", "strings"),
    Cmd("mkdir", "config"), Cmd("mkdir", "config_strings"), Cmd("mkdir", "function"),
    Cmd("ln", "function_link"), Cmd("ln", "config_link"), Cmd("bind", "g1")>>

StartCommands == StopCommands \o CreateCommands

Init ==
  /\ tree = {} /\ bound = FALSE /\ udc \in BOOLEAN
  /\ script = <<>> /\ unit = "inactive" /\ smooth = TRUE /\ stuck = {}

-----------------------------------------------------------------------------
(* What the kernel makes of a command. *)

Empty(n) == \A m \in tree \ {"g1"} : Parent[m] # n
Unlinked(n) == \A l \in Links \cap tree : Target[l] # n

\* Is the command carried out?  A link into a gadget that is bound is refused, as
\* is a second one, and a node with something in it or a link to it stays.
Accepted(c) ==
  CASE c.do = "rmdir" -> c.node \in tree /\ Empty(c.node) /\ Unlinked(c.node)
    [] c.do = "ln"    -> /\ c.node \notin tree /\ {Parent[c.node], Target[c.node]} \subseteq tree
                         /\ c.node = "function_link" => ~bound
    [] c.do = "bind"  -> udc /\ ~bound
    [] OTHER          -> TRUE     \* mkdir -p, rm -f and the attributes

\* Taking a link out of a gadget unbinds it.
Effect(c) ==
  /\ tree' = CASE c.do \in {"mkdir", "ln"} -> tree \cup {c.node}
               [] c.do \in {"rmdir", "rm"} -> tree \ {c.node}
               [] OTHER -> tree
  /\ bound' = CASE c.do = "bind" -> TRUE
                [] c.do = "rm" /\ c.node \in tree -> FALSE
                [] OTHER -> bound
  /\ stuck' = stuck \cap tree'

-----------------------------------------------------------------------------
(* The script. *)

Goes(c) == script # <<>> /\ Head(script) = c
\* The part of a start behind its stop, nothing in a stop.
BehindStop == SubSeq(script, Len(StopCommands) + 1, Len(script))
Tolerated(c) == c.do \in {"cd", "rm", "rmdir"}
\* set -e: the script ends with an error, and its unit fails.
GiveUp == script' = <<>> /\ unit' = "failed"

\* The stop function returns at once when there is no gadget.
Enter ==
  /\ script # <<>> /\ Head(script).do = "cd"
  /\ script' = IF "g1" \in tree THEN Tail(script) ELSE BehindStop
  /\ UNCHANGED <<tree, bound, udc, unit, smooth, stuck, faults>>

Do ==
  /\ script # <<>> /\ Head(script).do # "cd"
  /\ LET c == Head(script)
     IN \/ Accepted(c) /\ Effect(c) /\ script' = Tail(script) /\ UNCHANGED unit
        \/ ~Accepted(c) /\ UNCHANGED <<tree, bound, stuck>> /\
             IF Tolerated(c) THEN script' = Tail(script) /\ UNCHANGED unit ELSE GiveUp
  \* Without a UDC the script has done what it could.
  /\ smooth' = (smooth /\ (Head(script).do = "bind" => udc))
  /\ UNCHANGED <<udc, faults>>

\* A command fails that need not have.
Fail ==
  /\ faults < MaxFaults /\ faults' = faults + 1
  /\ script # <<>> /\ Head(script).do # "cd"
  /\ IF Tolerated(Head(script)) THEN script' = Tail(script) /\ UNCHANGED unit ELSE GiveUp
  /\ smooth' = FALSE
  /\ stuck' = stuck \cup (IF Head(script).do = "rm" THEN {Head(script).node} \cap tree ELSE {})
  /\ UNCHANGED <<tree, bound, udc>>

\* The script is killed between two commands.
Kill ==
  /\ faults < MaxFaults /\ faults' = faults + 1
  /\ unit \in {"starting", "stopping"}
  /\ GiveUp /\ smooth' = FALSE
  /\ UNCHANGED <<tree, bound, udc, stuck>>

-----------------------------------------------------------------------------
(* The unit. *)

\* ConditionPathExistsGlob: without a UDC the start is skipped.
StartUnit ==
  /\ unit \in {"inactive", "failed"} /\ udc
  /\ unit' = "starting" /\ script' = StartCommands /\ smooth' = TRUE
  /\ UNCHANGED <<tree, bound, udc, stuck, faults>>

\* ExecStop runs only for a unit that has come up.
StopUnit ==
  /\ unit = "active"
  /\ unit' = "stopping" /\ script' = StopCommands /\ smooth' = TRUE
  /\ UNCHANGED <<tree, bound, udc, stuck, faults>>

Finish ==
  /\ script = <<>> /\ unit \in {"starting", "stopping"}
  /\ unit' = IF unit = "starting" THEN "active" ELSE "inactive"
  /\ UNCHANGED <<tree, bound, udc, script, smooth, stuck, faults>>

\* A driver is loaded late, or taken away while no gadget uses it.
UdcChanges ==
  /\ ~bound /\ udc' = ~udc
  /\ UNCHANGED <<tree, bound, script, unit, smooth, stuck, faults>>

Next == Enter \/ Do \/ Fail \/ Kill \/ StartUnit \/ StopUnit \/ Finish \/ UdcChanges

Spec == Init /\ faults = 0 /\ [][Next]_<<gadgetVars, faults>>

-----------------------------------------------------------------------------
(* Properties. *)

\* A host never sees a gadget that is half built or half torn down: while it is
\* bound, everything start creates is there.  Only when rm has failed on both links
\* does a stop go on to a gadget that is still bound, and take its strings.
BoundIsComplete ==
  bound => /\ Nodes \ {"strings", "config_strings"} \subseteq tree
           /\ tree = Nodes \/ stuck = Links

\* Whatever earlier runs left behind, a start that meets no fault of its own
\* succeeds, the unit is up only with the gadget bound, and a stop that meets none
\* leaves nothing.
RunsCleanly ==
  /\ unit = "failed" => ~smooth
  /\ unit = "active" => bound
  /\ unit = "inactive" /\ smooth => tree = {}
=============================================================================
