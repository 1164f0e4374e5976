-------------------------- MODULE UsbGadget_proofs --------------------------
(***************************************************************************)
(* Proofs about the USB gadget, for any number of failing commands and     *)
(* killed runs.  Stop and start are two walks over the same nodes; the     *)
(* proof counts how far a run has come and needs of the two lists of       *)
(* commands only the order in which they come to the nodes: a node goes    *)
(* before, and comes after, what it is in or links to.                     *)
(***************************************************************************)
EXTENDS UsbGadget, Integers, SequenceTheorems, TLAPS

Left == Len(script)
Commands == [do : {"cd", "rm", "rmdir", "mkdir", "write", "ln", "bind"}, node : Nodes]

\* How many commands of a stop are left once it has dealt with a node, and of the
\* second part of a start once it has made it.
RemovedAt == [function_link |-> 6, config_link |-> 5, config_strings |-> 4, config |-> 3,
              function |-> 2, strings |-> 1, g1 |-> 0]
MadeAt == [g1 |-> 8, strings |-> 6, config |-> 5, config_strings |-> 4, function |-> 3,
           function_link |-> 2, config_link |-> 1]

GadgetTypes ==
  /\ tree \subseteq Nodes /\ bound \in BOOLEAN /\ udc \in BOOLEAN /\ smooth \in BOOLEAN
  /\ script \in Seq(Commands) /\ stuck \subseteq Links \cap tree
  /\ unit \in {"inactive", "starting", "active", "stopping", "failed"}
\* What is left of a run is the end of its commands.
ScriptInv ==
  /\ unit = "starting" => Left <= 17 /\ \A i \in 1..Left : script[i] = StartCommands[17 - Left + i]
  /\ unit = "stopping" => Left <= 8 /\ \A i \in 1..Left : script[i] = StopCommands[8 - Left + i]
  /\ unit \in {"inactive", "active", "failed"} => script = <<>>
\* Nothing is there without what it is in.
Closed == \A n \in tree \ {"g1"} : Parent[n] \in tree
\* How many commands of its stop a run has left, and whether it is in it.
StopLeft == IF unit = "stopping" THEN Left ELSE Left - 9
InStop == unit = "stopping" \/ (unit = "starting" /\ Left >= 9)
InStart == unit = "starting" /\ Left <= 9
Core == Nodes \ {"strings", "config_strings"}
\* A gadget that is still bound has got past an rm only because that failed.
BoundInv ==
  /\ bound => /\ udc /\ Core \subseteq tree /\ (tree = Nodes \/ stuck = Links)
              /\ InStop /\ StopLeft <= 6 => "function_link" \in stuck
              /\ InStop /\ StopLeft <= 5 => stuck = Links
              /\ InStart /\ Left # 0 => stuck = Links /\ Left >= 3
  /\ unit = "active" \/ (unit = "starting" /\ Left = 0) => bound
\* A smooth stop removes every node in its turn, a start makes them in theirs.
StopInv == smooth /\ InStop => \A n \in Nodes : StopLeft <= RemovedAt[n] => n \notin tree
StartInv ==
  InStart => \A n \in Nodes : /\ Left <= MadeAt[n] => n \in tree
                              /\ smooth /\ Left > MadeAt[n] => n \notin tree
Rest == Closed /\ BoundInv /\ StopInv /\ StartInv /\ RunsCleanly

GadgetInv == GadgetTypes /\ ScriptInv /\ Rest

-----------------------------------------------------------------------------
LEMMA StopAre ==
  /\ StopCommands \in Seq(Commands) /\ Len(StopCommands) = 8
  /\ StopCommands[1] = Cmd("cd", "g1") /\ StopCommands[2] = Cmd("rm", "function_link")
  /\ StopCommands[3] = Cmd("rm", "config_link")
  /\ StopCommands[4] = Cmd("rmdir", "config_strings")
  /\ StopCommands[5] = Cmd("rmdir", "config") /\ StopCommands[6] = Cmd("rmdir", "function")
  /\ StopCommands[7] = Cmd("rmdir", "strings") /\ StopCommands[8] = Cmd("rmdir", "g1")
BY DEF StopCommands, Cmd, Commands, Nodes

LEMMA CreateAre ==
  /\ CreateCommands \in Seq(Commands) /\ Len(CreateCommands) = 9
  /\ CreateCommands[1] = Cmd("mkdir", "g1") /\ CreateCommands[2] = Cmd("write", "g1")
  /\ CreateCommands[3] = Cmd("mkdir", "strings") /\ CreateCommands[4] = Cmd("mkdir", "config")
  /\ CreateCommands[5] = Cmd("mkdir", "config_strings")
  /\ CreateCommands[6] = Cmd("mkdir", "function")
  /\ CreateCommands[7] = Cmd("ln", "function_link")
  /\ CreateCommands[8] = Cmd("ln", "config_link") /\ CreateCommands[9] = Cmd("bind", "g1")
BY DEF CreateCommands, Cmd, Commands, Nodes

LEMMA TwoParts ==
  ASSUME NEW S, NEW s \in Seq(S), NEW c \in Seq(S)
  PROVE  /\ s \o c \in Seq(S) /\ Len(s \o c) = Len(s) + Len(c)
         /\ \A i \in 1..Len(s) + Len(c) :
              (s \o c)[i] = IF i <= Len(s) THEN s[i] ELSE c[i - Len(s)]
OBVIOUS

LEMMA StartAre ==
  /\ StartCommands \in Seq(Commands) /\ Len(StartCommands) = 17
  /\ \A i \in 1..17 : StartCommands[i] = IF i <= 8 THEN StopCommands[i] ELSE CreateCommands[i - 8]
<1>1. StopCommands \in Seq(Commands) /\ CreateCommands \in Seq(Commands)
      BY StopAre, CreateAre
<1>2. Len(StopCommands) = 8 /\ Len(CreateCommands) = 9
      BY StopAre, CreateAre
<1>3. /\ StartCommands \in Seq(Commands)
      /\ Len(StartCommands) = Len(StopCommands) + Len(CreateCommands)
      /\ \A i \in 1..Len(StopCommands) + Len(CreateCommands) :
           StartCommands[i] = IF i <= Len(StopCommands) THEN StopCommands[i]
                              ELSE CreateCommands[i - Len(StopCommands)]
      BY <1>1, TwoParts, Zenon DEF StartCommands
<1> QED BY <1>2, <1>3

\* What the next command of a run is.
LEMMA HeadIs ==
  ASSUME GadgetTypes, ScriptInv, script # <<>>
  PROVE  /\ Left \in Nat \ {0} /\ Head(script) \in Commands
         /\ \/ unit = "stopping" /\ Left <= 8 /\ Head(script) = StopCommands[9 - Left]
            \/ unit = "starting" /\ Left <= 17 /\ Head(script) = StartCommands[18 - Left]
<1>1. script \in Seq(Commands) /\ Left \in Nat /\ Left # 0 /\ Head(script) = script[1]
      BY DEF GadgetTypes, Left
<1>2. Head(script) \in Commands BY <1>1 DEF Left
<1>3. 1 \in 1..Left /\ 8 - Left + 1 = 9 - Left /\ 17 - Left + 1 = 18 - Left BY <1>1
<1>4. unit \in {"starting", "stopping"} BY DEF GadgetTypes, ScriptInv
<1> QED BY <1>1, <1>2, <1>3, <1>4 DEF ScriptInv

\* What is left behind the next command is the end of a run too.
LEMMA TailFollows ==
  ASSUME GadgetTypes, ScriptInv, script # <<>>, script' = Tail(script), unit' = unit
  PROVE  ScriptInv' /\ Left' = Left - 1 /\ script' \in Seq(Commands)
<1>1. /\ script \in Seq(Commands) /\ Left \in Nat /\ Left # 0
      /\ Tail(script) \in Seq(Commands) /\ Len(Tail(script)) = Left - 1
      /\ \A i \in 1..(Left - 1) : Tail(script)[i] = script[i + 1]
      BY DEF GadgetTypes, Left
<1>2. Left' = Left - 1 /\ \A i \in 1..Left' : script'[i] = script[i + 1]
      BY <1>1 DEF Left
<1>3. \A i \in 1..Left' : i + 1 \in 1..Left /\ 17 - Left + (i + 1) = 17 - Left' + i
                          /\ 8 - Left + (i + 1) = 8 - Left' + i
      BY <1>1, <1>2
<1>4. unit \in {"starting", "stopping"} BY DEF GadgetTypes, ScriptInv
<1>5. Left <= 17 => Left' <= 17 BY <1>1, <1>2
<1>6. Left <= 8 => Left' <= 8 BY <1>1, <1>2
<1> QED BY <1>1, <1>2, <1>3, <1>4, <1>5, <1>6 DEF ScriptInv

\* The next command takes a node away, or makes it.
Takes(m) ==
  /\ InStop /\ StopLeft = RemovedAt[m] + 1
  /\ Head(script) = Cmd(IF m \in Links THEN "rm" ELSE "rmdir", m)
Makes(m) ==
  /\ InStart /\ Left = MadeAt[m] + 1
  /\ Head(script) = Cmd(IF m \in Links THEN "ln" ELSE "mkdir", m)

LEMMA StopTurns ==
  ASSUME NEW k \in 1..8
  PROVE  \/ k = 1 /\ StopCommands[k] = Cmd("cd", "g1")
         \/ \E m \in Nodes : /\ 9 - k = RemovedAt[m] + 1
                             /\ StopCommands[k] = Cmd(IF m \in Links THEN "rm" ELSE "rmdir", m)
BY StopAre DEF Nodes, RemovedAt, Links, Target

LEMMA CreateTurns ==
  ASSUME NEW k \in 1..9
  PROVE  \/ k = 2 /\ CreateCommands[k] = Cmd("write", "g1")
         \/ k = 9 /\ CreateCommands[k] = Cmd("bind", "g1")
         \/ \E m \in Nodes : /\ 10 - k = MadeAt[m] + 1
                             /\ CreateCommands[k] = Cmd(IF m \in Links THEN "ln" ELSE "mkdir", m)
BY CreateAre DEF Nodes, MadeAt, Links, Target

LEMMA Turns ==
  ASSUME GadgetTypes, ScriptInv, script # <<>>
  PROVE  \/ InStop /\ StopLeft = 8 /\ Head(script) = Cmd("cd", "g1")
         \/ \E m \in Nodes : Takes(m)
         \/ \E m \in Nodes : Makes(m)
         \/ InStart /\ Left = 8 /\ Head(script) = Cmd("write", "g1")
         \/ InStart /\ Left = 1 /\ Head(script) = Cmd("bind", "g1")
<1>1. Left \in Nat \ {0} BY HeadIs
<1>2. CASE unit = "stopping"
  <2>1. 9 - Left \in 1..8 /\ Head(script) = StopCommands[9 - Left] BY <1>1, <1>2, HeadIs
  <2>2. InStop /\ StopLeft = Left /\ 9 - (9 - Left) = Left BY <1>1, <1>2 DEF InStop, StopLeft
  <2>3. CASE 9 - Left = 1 /\ Head(script) = Cmd("cd", "g1") BY <2>2, <2>3, <1>1
  <2>4. ASSUME NEW m \in Nodes, 9 - (9 - Left) = RemovedAt[m] + 1,
               Head(script) = Cmd(IF m \in Links THEN "rm" ELSE "rmdir", m)
        PROVE  Takes(m)
        BY <2>2, <2>4 DEF Takes
  <2> QED BY <2>1, <2>3, <2>4, StopTurns
<1>3. CASE unit = "starting"
  <2>1. Left \in 1..17 /\ Head(script) = StartCommands[18 - Left] BY <1>1, <1>3, HeadIs
  <2>2. CASE Left >= 10
    <3>1. 18 - Left \in 1..17 /\ 18 - Left <= 8 BY <2>1, <2>2
    <3>2. Head(script) = StopCommands[18 - Left] /\ 18 - Left \in 1..8 BY <2>1, <3>1, StartAre
    <3>3. InStop /\ StopLeft = Left - 9 /\ 9 - (18 - Left) = StopLeft
          BY <1>3, <2>1, <2>2 DEF InStop, StopLeft
    <3>4. CASE 18 - Left = 1 /\ Head(script) = Cmd("cd", "g1") BY <3>3, <3>4, <2>1
    <3>5. ASSUME NEW m \in Nodes, 9 - (18 - Left) = RemovedAt[m] + 1,
                 Head(script) = Cmd(IF m \in Links THEN "rm" ELSE "rmdir", m)
          PROVE  Takes(m)
          BY <3>3, <3>5 DEF Takes
    <3> QED BY <3>2, <3>4, <3>5, StopTurns
  <2>3. CASE Left <= 9
    <3>1. 10 - Left \in 1..9 /\ (18 - Left) - 8 = 10 - Left /\ 18 - Left \in 1..17
              /\ ~(18 - Left <= 8)
          BY <2>1, <2>3
    <3>2. Head(script) = CreateCommands[10 - Left] BY <2>1, <3>1, StartAre
    <3>3. InStart /\ 10 - (10 - Left) = Left BY <1>3, <2>1, <2>3 DEF InStart
    <3>4. CASE 10 - Left = 2 /\ Head(script) = Cmd("write", "g1") BY <3>3, <3>4, <2>1
    <3>5. CASE 10 - Left = 9 /\ Head(script) = Cmd("bind", "g1") BY <3>3, <3>5, <2>1
    <3>6. ASSUME NEW m \in Nodes, 10 - (10 - Left) = MadeAt[m] + 1,
                 Head(script) = Cmd(IF m \in Links THEN "ln" ELSE "mkdir", m)
          PROVE  Makes(m)
          BY <3>3, <3>6 DEF Makes
    <3> QED BY <3>1, <3>2, <3>4, <3>5, <3>6, CreateTurns
  <2> QED BY <2>1, <2>2, <2>3
<1> QED BY <1>2, <1>3, HeadIs

\* A node goes before what it is in or links to, and comes after it.
LEMMA Order ==
  /\ \A n \in Nodes : RemovedAt[n] \in 0..6 /\ MadeAt[n] \in 1..8 /\ MadeAt[n] # 7
  /\ \A m, n \in Nodes : m # n => RemovedAt[m] # RemovedAt[n] /\ MadeAt[m] # MadeAt[n]
  /\ \A n \in Nodes \ {"g1"} : Parent[n] \in Nodes \ Links /\ Parent[n] # n
                               /\ RemovedAt[Parent[n]] < RemovedAt[n]
                               /\ MadeAt[Parent[n]] > MadeAt[n]
  /\ \A l \in Links : l \in Nodes \ {"g1"} /\ Target[l] \in Nodes \ Links
                      /\ RemovedAt[Target[l]] < RemovedAt[l] /\ MadeAt[Target[l]] > MadeAt[l]
  /\ RemovedAt["function_link"] = 6 /\ "function_link" \in Links
<1>1. DOMAIN RemovedAt = Nodes /\ DOMAIN MadeAt = Nodes /\ Links = {"function_link", "config_link"}
      BY DEF RemovedAt, MadeAt, Nodes, Links, Target
<1> QED BY <1>1 DEF RemovedAt, MadeAt, Nodes, Parent, Target

\* The links, and what the others have to do with them.
LEMMA LinksAre ==
  /\ Links = {"function_link", "config_link"} /\ Links \subseteq Core /\ Core \subseteq Nodes
  /\ RemovedAt["config_link"] = 5
  /\ MadeAt["function_link"] = 2 /\ MadeAt["config_link"] = 1
  /\ \A n \in Nodes \ Links : RemovedAt[n] <= 4 /\ MadeAt[n] >= 3
<1>1. DOMAIN RemovedAt = Nodes /\ DOMAIN MadeAt = Nodes /\ Links = {"function_link", "config_link"}
      BY DEF RemovedAt, MadeAt, Nodes, Links, Target
<1> QED BY <1>1 DEF RemovedAt, MadeAt, Nodes, Core

\* While the links are there, only the strings can be taken away.
LEMMA CoreStays ==
  ASSUME NEW m \in Nodes \ Links, Core \subseteq tree, Empty(m), Unlinked(m)
  PROVE  m \notin Core
<1>1. {"config", "function_link", "function", "g1"} \subseteq Core BY DEF Core, Nodes
<1>2. /\ "config" \in tree \ {"g1"} /\ "function_link" \in tree \ {"g1"}
      /\ "function_link" \in Links \cap tree
      BY <1>1, LinksAre
<1>3. Parent["config"] = "g1" /\ Parent["function_link"] = "config"
      BY DEF Parent, Nodes
<1>4. Target["function_link"] = "function" BY DEF Target
<1>5. m # "g1" BY <1>2, <1>3 DEF Empty
<1>6. m # "config" BY <1>2, <1>3 DEF Empty
<1>7. m # "function" BY <1>2, <1>4 DEF Unlinked
<1> QED BY <1>5, <1>6, <1>7, LinksAre DEF Core, Nodes

\* A command that takes a node away is done, is refused, or fails.
Taken(m) ==
  /\ tree' = tree \ {m} /\ bound' = (bound /\ ~(m \in Links /\ m \in tree))
  /\ smooth' = smooth /\ stuck' = stuck \cap tree'
  /\ m \notin Links => Empty(m) /\ Unlinked(m)
Refused(m) ==
  /\ m \notin Links /\ UNCHANGED <<tree, bound, stuck>>
  /\ smooth' => smooth /\ ~(m \in tree /\ Empty(m) /\ Unlinked(m))
Failed(m) ==
  /\ UNCHANGED <<tree, bound>> /\ smooth' = FALSE
  /\ stuck' = stuck \cup (IF m \in Links THEN {m} \cap tree ELSE {})

LEMMA TakesBound ==
  ASSUME GadgetTypes, BoundInv, NEW m \in Nodes, InStop, StopLeft = RemovedAt[m] + 1,
         Left \in Nat, Left' = Left - 1, UNCHANGED <<unit, udc>>,
         Taken(m) \/ Refused(m) \/ Failed(m)
  PROVE  BoundInv'
<1>1. InStop' /\ StopLeft' = RemovedAt[m] /\ StopLeft' \in 0..6
      BY Order DEF InStop, StopLeft, GadgetTypes
<1>2. unit' # "active" /\ (unit' = "starting" => Left' >= 9) /\ (InStart' => Left' >= 9)
      BY <1>1 DEF InStop, InStart
<1>3. SUFFICES ASSUME bound'
               PROVE  /\ Core \subseteq tree' /\ (tree' = Nodes \/ stuck' = Links)
                      /\ StopLeft' <= 6 => "function_link" \in stuck'
                      /\ StopLeft' <= 5 => stuck' = Links
                      /\ InStart' => stuck' = Links
  <2>1. bound' => udc'
        BY DEF Taken, Refused, Failed, BoundInv, GadgetTypes
  <2>2. Left' >= 9 => Left' # 0 /\ Left' >= 3 OBVIOUS
  <2> QED BY <1>1, <1>2, <2>1, <2>2 DEF BoundInv
<1>4. /\ bound /\ Core \subseteq tree /\ (tree = Nodes \/ stuck = Links)
      /\ StopLeft <= 6 => "function_link" \in stuck
      /\ StopLeft <= 5 => stuck = Links
  <2>1. bound BY <1>3 DEF Taken, Refused, Failed, GadgetTypes
  <2> QED BY <2>1 DEF BoundInv
<1>5. m \in Links => m \in tree BY <1>4, LinksAre
<1>6. CASE m \notin Links
  <2>1. RemovedAt[m] <= 4 /\ StopLeft <= 5 BY <1>6, LinksAre, Order
  <2>2. stuck = Links BY <1>4, <2>1
  <2>3. CASE Taken(m)
    <3>1. m \notin Core BY <1>4, <1>6, <2>3, CoreStays DEF Taken
    <3>2. Core \subseteq tree' /\ stuck' = Links
          BY <1>4, <2>2, <2>3, <3>1, LinksAre DEF Taken
    <3> QED BY <3>2, LinksAre
  <2>4. CASE Refused(m) \/ Failed(m)
    <3>1. tree' = tree /\ stuck' = stuck BY <1>6, <2>4 DEF Refused, Failed
    <3> QED BY <1>4, <2>2, <3>1, LinksAre
  <2> QED BY <2>3, <2>4
<1>7. CASE m \in Links
  <2>1. Failed(m) BY <1>3, <1>5, <1>7 DEF Taken, Refused
  <2>2. tree' = tree /\ stuck' = stuck \cup {m} /\ stuck \subseteq Links
        BY <1>5, <1>7, <2>1 DEF Failed, GadgetTypes
  <2>3. ~InStart'
    <3>1. RemovedAt[m] >= 5 BY <1>7, LinksAre, Order
    <3>2. unit' = "starting" => Left' >= 14 BY <1>1, <3>1 DEF StopLeft
    <3> QED BY <3>2, <1>1 DEF InStart, InStop
  <2>4. CASE m = "function_link"
    <3>1. StopLeft' = 6 /\ ~(StopLeft' <= 5) BY <1>1, <2>4, Order
    <3>2. "function_link" \in stuck' BY <2>2, <2>4
    <3>3. stuck = Links => stuck' = Links BY <1>7, <2>2
    <3> QED BY <1>4, <2>2, <2>3, <3>1, <3>2, <3>3
  <2>5. CASE m = "config_link"
    <3>1. StopLeft <= 6 BY <2>5, LinksAre
    <3>2. stuck' = Links BY <1>4, <2>2, <2>5, <3>1, LinksAre
    <3> QED BY <1>4, <2>2, <2>3, <3>2, LinksAre
  <2> QED BY <1>7, <2>4, <2>5, LinksAre
<1> QED BY <1>6, <1>7

\* A step in which a command that takes a node away has its turn.
LEMMA TakesKeeps ==
  ASSUME GadgetTypes, Rest, NEW m \in Nodes, InStop, StopLeft = RemovedAt[m] + 1,
         Left \in Nat, Left' = Left - 1, UNCHANGED <<unit, udc>>,
         Taken(m) \/ Refused(m) \/ Failed(m)
  PROVE  Rest'
<1>1. InStop' /\ StopLeft' = StopLeft - 1 /\ StopLeft' = RemovedAt[m] /\ StopLeft' \in 0..6
      BY Order DEF InStop, StopLeft, GadgetTypes
<1>2. tree' \subseteq Nodes /\ tree' \subseteq tree /\ (tree' = tree \/ tree' = tree \ {m})
      BY DEF GadgetTypes, Taken, Refused, Failed
<1>3. Closed'
  <2>1. CASE m \in Links
    <3>1. \A n \in Nodes \ {"g1"} : Parent[n] # m BY <2>1, Order
    <3> QED BY <1>2, <2>1, <3>1 DEF Closed, Rest, GadgetTypes
  <2>2. CASE m \notin Links
        BY <2>2 DEF Closed, Rest, Empty, Taken, Refused, Failed
  <2> QED BY <2>1, <2>2
<1>5. BoundInv' BY TakesBound DEF Rest
<1>6. smooth' => m \notin tree'
  <2>1. SUFFICES ASSUME smooth', m \in tree, m \notin Links PROVE Empty(m) /\ Unlinked(m)
        BY DEF Taken, Refused, Failed
  <2>2. smooth BY <2>1 DEF Taken, Refused, Failed
  <2>3. \A n \in Nodes : RemovedAt[n] > RemovedAt[m] => n \notin tree
        BY <2>2, Order DEF Rest, StopInv
  <2> QED BY <2>3, Order DEF Empty, Unlinked, GadgetTypes
<1>7. smooth' => \A n \in Nodes : StopLeft' <= RemovedAt[n] => n \notin tree'
  <2>1. ASSUME smooth', NEW n \in Nodes, StopLeft' <= RemovedAt[n], n # m PROVE n \notin tree'
    <3>1. StopLeft <= RemovedAt[n] BY <1>1, <2>1, Order
    <3>2. smooth BY <2>1 DEF Taken, Refused, Failed
    <3> QED BY <1>2, <2>1, <3>1, <3>2 DEF Rest, StopInv
  <2> QED BY <1>6, <2>1
<1>8. StopInv' BY <1>7 DEF StopInv
<1>9. StartInv'
  <2>1. SUFFICES ASSUME InStart', NEW n \in Nodes
                 PROVE  /\ ~(Left' <= MadeAt[n])
                        /\ smooth' => n \notin tree'
        BY DEF StartInv
  <2>2. unit' = "starting" /\ Left' = 9 /\ StopLeft' = 0
        BY <1>1, <2>1 DEF InStart, InStop, StopLeft
  <2> QED BY <1>7, <2>2, Order
<1>10. RunsCleanly' BY <1>1 DEF RunsCleanly, InStop
<1> QED BY <1>3, <1>5, <1>8, <1>9, <1>10 DEF Rest

\* No gadget is bound while one is built in a smooth start, or once the links are
\* there.
LEMMA NotBound ==
  ASSUME GadgetTypes, Rest, Left \in Nat \ {0}, InStart, smooth \/ Left <= 2
  PROVE  ~bound
<1>1. SUFFICES ASSUME bound PROVE FALSE
      BY DEF GadgetTypes
<1>2. Left >= 3 /\ "function_link" \in tree /\ "function_link" \in Nodes
      BY <1>1, LinksAre DEF Rest, BoundInv
<1>3. smooth /\ Left > MadeAt["function_link"] BY <1>2, LinksAre
<1> QED BY <1>2, <1>3 DEF Rest, StartInv

LEMMA MakesKeeps ==
  ASSUME GadgetTypes, Rest, NEW m \in Nodes, InStart, Left = MadeAt[m] + 1,
         Left \in Nat, Left' = Left - 1, UNCHANGED <<unit, udc, bound, smooth, stuck>>,
         tree' = tree \cup {m}, m \in Links => m \notin tree
  PROVE  Rest'
<1>1. Left' = MadeAt[m] /\ Left' \in 1..8 BY Order
<1>3. InStart' /\ ~InStop' /\ unit' = "starting" BY <1>1 DEF InStart, InStop
<1>4. Closed'
  <2>1. ASSUME m # "g1" PROVE Parent[m] \in tree
        BY <2>1, Order DEF Rest, StartInv
  <2> QED BY <2>1 DEF Closed, Rest
<1>5. BoundInv'
  <2>1. MadeAt[m] # 0 BY Order
  <2>2. Left' # 0 BY <1>1, <2>1, Zenon
  <2>3. ASSUME bound
        PROVE  /\ udc /\ Core \subseteq tree' /\ (tree' = Nodes \/ stuck = Links)
               /\ stuck = Links /\ Left' >= 3
    <3>1. Left # 0 BY <1>1
    <3>2. udc /\ Core \subseteq tree /\ stuck = Links
          BY <2>3, <3>1 DEF Rest, BoundInv
    <3>3. m \notin Links BY <3>2, LinksAre
    <3>4. Left' >= 3 BY <1>1, <3>3, LinksAre
    <3> QED BY <3>2, <3>4
  <2> QED BY <1>3, <2>2, <2>3, Zenon DEF BoundInv
<1>6. StopInv' BY <1>3 DEF StopInv
<1>7. StartInv'
  <2>1. ASSUME NEW n \in Nodes
        PROVE  /\ Left' <= MadeAt[n] => n \in tree'
               /\ smooth' /\ Left' > MadeAt[n] => n \notin tree'
    <3>1. /\ Left <= MadeAt[n] => n \in tree
          /\ smooth /\ Left > MadeAt[n] => n \notin tree
          BY DEF Rest, StartInv
    <3>2. CASE n = m BY <1>1, <3>2, Order
    <3>3. CASE n # m
      <4>1. MadeAt[n] # MadeAt[m] /\ MadeAt[n] \in Nat /\ MadeAt[m] \in Nat BY <3>3, Order
      <4>2. Left' <= MadeAt[n] => Left <= MadeAt[n] BY <1>1, <4>1
      <4>3. Left' > MadeAt[n] => Left > MadeAt[n] BY <1>1, <4>1
      <4> QED BY <3>1, <3>3, <4>2, <4>3
    <3> QED BY <3>2, <3>3
  <2> QED BY <2>1 DEF StartInv
<1>8. RunsCleanly' BY <1>3 DEF RunsCleanly
<1> QED BY <1>4, <1>5, <1>6, <1>7, <1>8 DEF Rest

\* In a smooth start nothing stands in the way of a node or a link.
LEMMA MakesAccepted ==
  ASSUME GadgetTypes, Rest, NEW m \in Nodes, InStart, Left = MadeAt[m] + 1, Left \in Nat, smooth
  PROVE  ~bound /\ m \notin tree /\ (m \in Links => {Parent[m], Target[m]} \subseteq tree)
<1>1. ~bound BY NotBound, Order
<1>2. m \notin tree BY Order DEF Rest, StartInv
<1>3. ASSUME m \in Links PROVE Parent[m] \in tree /\ Target[m] \in tree
  <2>1. /\ Parent[m] \in Nodes /\ MadeAt[Parent[m]] >= Left
        /\ Target[m] \in Nodes /\ MadeAt[Target[m]] >= Left
        BY <1>3, Order
  <2> QED BY <2>1 DEF Rest, StartInv
<1> QED BY <1>1, <1>2, <1>3

\* A run that ends with an error has met a fault, and leaves what is there.
LEMMA GiveUpKeeps ==
  ASSUME GadgetTypes, Rest, GiveUp, UNCHANGED <<tree, bound, udc, stuck>>, smooth' = FALSE
  PROVE  GadgetInv'
<1>1. GadgetTypes'
  <2>1. <<>> \in Seq(Commands) OBVIOUS
  <2> QED BY <2>1, Zenon DEF GadgetTypes, GiveUp
<1>2. ScriptInv' BY DEF ScriptInv, GiveUp
<1>3. Rest'
      BY DEF Rest, GiveUp, Closed, BoundInv, StopInv, StartInv, RunsCleanly, InStop, InStart
<1> QED BY <1>1, <1>2, <1>3 DEF GadgetInv

LEMMA CmdIs == \A d, n : Cmd(d, n).do = d /\ Cmd(d, n).node = n
BY DEF Cmd

LEMMA NoCd == \A m \in Nodes : ~(Takes(m) /\ Head(script).do = "cd") /\ ~(Makes(m) /\ Head(script).do = "cd")
BY CmdIs DEF Takes, Makes

LEMMA LastNine ==
  ASSUME NEW S, NEW s \in Seq(S), Len(s) = 17
  PROVE  /\ SubSeq(s, 9, 17) \in Seq(S) /\ Len(SubSeq(s, 9, 17)) = 9
         /\ \A i \in 1..9 : SubSeq(s, 9, 17)[i] = s[8 + i]
<1>1. ASSUME NEW i \in 9..17 PROVE s[i] \in S
  <2>1. i \in 1..Len(s) OBVIOUS
  <2> QED BY <2>1, ElementOfSeq
<1>2. SubSeq(s, 9, 17) \in Seq(S) BY <1>1, SubSeqProperties
<1>3. Len(SubSeq(s, 9, 17)) = 9 OBVIOUS
<1>4. ASSUME NEW i \in 1..9 PROVE SubSeq(s, 9, 17)[i] = s[8 + i]
  <2>1. SubSeq(s, 9, 17)[i] = s[9 + i - 1] OBVIOUS
  <2>2. 9 + i - 1 = 8 + i OBVIOUS
  <2> QED BY <2>1, <2>2
<1> QED BY <1>2, <1>3, <1>4

LEMMA EnterKeeps ==
  ASSUME GadgetInv, Enter
  PROVE  GadgetInv'
<1> USE DEF GadgetInv
<1>1. /\ script # <<>> /\ Head(script).do = "cd"
      /\ UNCHANGED <<tree, bound, udc, unit, smooth, stuck>>
      BY DEF Enter
<1>2. InStop /\ StopLeft = 8 /\ Left \in Nat
  <2>1. Left \in Nat BY <1>1, HeadIs
  <2> QED BY <1>1, <2>1, Turns, CmdIs, NoCd
<1>3. CASE "g1" \in tree
  <2>1. script' = Tail(script) BY <1>3 DEF Enter
  <2>2. ScriptInv' /\ Left' = Left - 1 /\ script' \in Seq(Commands)
        BY <1>1, <2>1, TailFollows
  <2>3. GadgetTypes' BY <1>1, <2>2 DEF GadgetTypes
  <2>4. InStop' /\ StopLeft' = 7 BY <1>1, <1>2, <2>2 DEF InStop, StopLeft
  <2>5. Rest'
        BY <1>1, <1>2, <2>2, <2>4, Order
        DEF Rest, Closed, BoundInv, StopInv, StartInv, RunsCleanly, InStop, InStart, StopLeft
  <2> QED BY <2>2, <2>3, <2>5
<1>4. CASE "g1" \notin tree
  <2>1. script' = SubSeq(script, 9, Left) BY <1>4, StopAre DEF Enter, BehindStop, Left
  <2>2. tree = {}
        BY <1>4 DEF Rest, Closed, GadgetTypes, Nodes, Parent
  <2>3. ~bound BY <2>2, LinksAre DEF Rest, BoundInv
  <2>4. CASE unit = "stopping"
    <3>1. Left = 8 BY <1>2, <2>4 DEF StopLeft
    <3>2. script' = <<>> /\ Left' = 0 BY <2>1, <3>1 DEF GadgetTypes, Left
    <3>3. GadgetTypes'
      <4>1. <<>> \in Seq(Commands) OBVIOUS
      <4> QED BY <1>1, <3>2, <4>1, Zenon DEF GadgetTypes
    <3>4. ScriptInv' BY <1>1, <2>4, <3>2 DEF ScriptInv
    <3>5. Rest'
          BY <1>1, <2>2, <2>3, <2>4, <3>2
          DEF Rest, Closed, BoundInv, StopInv, StartInv, RunsCleanly, InStop, InStart, StopLeft
    <3> QED BY <3>3, <3>4, <3>5
  <2>5. CASE unit = "starting"
    <3>1. Left = 17 BY <1>2, <2>5 DEF StopLeft
    <3>2. /\ script' \in Seq(Commands) /\ Left' = 9
          /\ \A i \in 1..9 : script'[i] = script[8 + i]
      <4>1. script \in Seq(Commands) /\ Len(script) = 17 /\ script' = SubSeq(script, 9, 17)
            BY <2>1, <3>1 DEF GadgetTypes, Left
      <4>2. /\ SubSeq(script, 9, 17) \in Seq(Commands) /\ Len(SubSeq(script, 9, 17)) = 9
            /\ \A i \in 1..9 : SubSeq(script, 9, 17)[i] = script[8 + i]
            BY <4>1, LastNine
      <4> QED BY <4>1, <4>2, Zenon DEF Left
    <3>3. GadgetTypes' BY <1>1, <3>2 DEF GadgetTypes
    <3>4. ScriptInv'
      <4>1. \A i \in 1..17 : script[i] = StartCommands[i]
        <5>1. \A i \in 1..17 : script[i] = StartCommands[17 - 17 + i]
              BY <2>5, <3>1 DEF ScriptInv
        <5> QED BY <5>1
      <4>2. \A i \in 1..9 : script'[i] = StartCommands[17 - 9 + i]
        <5>1. \A i \in 1..9 : 8 + i \in 1..17 /\ 17 - 9 + i = 8 + i OBVIOUS
        <5> QED BY <3>2, <4>1, <5>1
      <4> QED BY <1>1, <2>5, <3>2, <4>2 DEF ScriptInv
    <3>5. Rest'
      <4>1. InStop' /\ InStart' /\ unit' = "starting" /\ tree' = {} /\ ~bound' /\ Left' = 9
            BY <1>1, <2>2, <2>3, <2>5, <3>2 DEF InStop, InStart
      <4>2. \A n \in Nodes : ~(9 <= MadeAt[n]) BY Order
      <4>3. StartInv' BY <4>1, <4>2 DEF StartInv
      <4> QED BY <4>1, <4>3 DEF Rest, Closed, BoundInv, StopInv, RunsCleanly
    <3> QED BY <3>3, <3>4, <3>5
  <2> QED BY <1>2, <2>4, <2>5 DEF InStop
<1> QED BY <1>3, <1>4

LEMMA DoKeeps ==
  ASSUME GadgetInv, Do
  PROVE  GadgetInv'
<1> DEFINE c == Head(script)
<1> USE DEF GadgetInv
<1>1. /\ script # <<>> /\ c.do # "cd" /\ UNCHANGED udc
      /\ smooth' = (smooth /\ (c.do = "bind" => udc))
      BY DEF Do
<1>2. Left \in Nat \ {0} BY <1>1, HeadIs
<1>3. \/ Accepted(c) /\ Effect(c) /\ script' = Tail(script) /\ UNCHANGED unit
      \/ ~Accepted(c) /\ Tolerated(c) /\ script' = Tail(script) /\ UNCHANGED <<unit, tree, bound, stuck>>
      \/ ~Accepted(c) /\ ~Tolerated(c) /\ GiveUp /\ UNCHANGED <<tree, bound, stuck>>
      BY DEF Do
<1>4. ASSUME script' = Tail(script), UNCHANGED unit, tree' \subseteq Nodes, bound' \in BOOLEAN,
             stuck' \subseteq Links \cap tree'
      PROVE  GadgetTypes' /\ ScriptInv' /\ Left' = Left - 1
  <2>1. ScriptInv' /\ Left' = Left - 1 /\ script' \in Seq(Commands)
        BY <1>1, <1>4, TailFollows
  <2>2. smooth' \in BOOLEAN BY <1>1 DEF GadgetTypes
  <2> QED BY <1>1, <1>4, <2>1, <2>2 DEF GadgetTypes
<1>5. ASSUME NEW m \in Nodes, Takes(m) PROVE GadgetInv'
  <2>1. /\ InStop /\ StopLeft = RemovedAt[m] + 1 /\ c.node = m
        /\ c.do = IF m \in Links THEN "rm" ELSE "rmdir"
        BY <1>5, CmdIs DEF Takes
  <2>2. Tolerated(c) /\ smooth' = smooth BY <1>1, <2>1 DEF Tolerated, GadgetTypes
  <2>3. CASE Accepted(c) /\ Effect(c) /\ script' = Tail(script) /\ UNCHANGED unit
    <3>1. tree' = tree \ {m} /\ bound' = (bound /\ ~(m \in Links /\ m \in tree))
          BY <2>1, <2>3 DEF Effect, GadgetTypes
    <3>2. Taken(m) BY <2>1, <2>2, <2>3, <3>1 DEF Accepted, Effect, Taken
    <3>3. GadgetTypes' /\ ScriptInv' /\ Left' = Left - 1
          BY <1>4, <2>3, <3>1, <3>2 DEF GadgetTypes, Taken
    <3>4. Rest' BY <1>1, <1>2, <2>1, <2>3, <3>2, <3>3, TakesKeeps
    <3> QED BY <3>3, <3>4
  <2>4. CASE ~Accepted(c) /\ script' = Tail(script) /\ UNCHANGED <<unit, tree, bound, stuck>>
    <3>1. Refused(m) BY <2>1, <2>2, <2>4 DEF Accepted, Refused
    <3>2. GadgetTypes' /\ ScriptInv' /\ Left' = Left - 1
          BY <1>4, <2>4 DEF GadgetTypes
    <3>3. Rest' BY <1>1, <1>2, <2>1, <2>4, <3>1, <3>2, TakesKeeps
    <3> QED BY <3>2, <3>3
  <2> QED BY <1>3, <2>2, <2>3, <2>4
<1>6. ASSUME NEW m \in Nodes, Makes(m) PROVE GadgetInv'
  <2>1. /\ InStart /\ Left = MadeAt[m] + 1 /\ c.node = m
        /\ c.do = IF m \in Links THEN "ln" ELSE "mkdir"
        BY <1>6, CmdIs DEF Makes
  <2>2. ~Tolerated(c) /\ smooth' = smooth BY <1>1, <2>1 DEF Tolerated, GadgetTypes
  <2>3. CASE Accepted(c) /\ Effect(c) /\ script' = Tail(script) /\ UNCHANGED unit
    <3>1. /\ tree' = tree \cup {m} /\ bound' = bound /\ stuck' = stuck
          /\ m \in Links => m \notin tree
          BY <2>1, <2>3 DEF Effect, Accepted, GadgetTypes
    <3>2. GadgetTypes' /\ ScriptInv' /\ Left' = Left - 1
          BY <1>4, <2>3, <3>1 DEF GadgetTypes
    <3>3. Rest' BY <1>1, <1>2, <2>1, <2>2, <2>3, <3>1, <3>2, MakesKeeps
    <3> QED BY <3>2, <3>3
  <2>4. CASE ~Accepted(c) /\ GiveUp /\ UNCHANGED <<tree, bound, stuck>>
    <3>1. m \in Links BY <2>1, <2>4 DEF Accepted
    <3>2. ~smooth BY <1>2, <2>1, <2>4, <3>1, MakesAccepted DEF Accepted
    <3> QED BY <1>1, <2>2, <2>4, <3>2, GiveUpKeeps DEF GadgetTypes
  <2> QED BY <1>3, <2>2, <2>3, <2>4
<1>7. CASE InStart /\ Left = 8 /\ c = Cmd("write", "g1")
  <2>1. c.do = "write" BY <1>7, CmdIs
  <2>2. /\ script' = Tail(script) /\ UNCHANGED <<unit, tree, bound, stuck>> /\ smooth' = smooth
        BY <1>1, <1>3, <2>1 DEF Accepted, Effect, GadgetTypes
  <2>3. GadgetTypes' /\ ScriptInv' /\ Left' = 7
        BY <1>4, <1>7, <2>2 DEF GadgetTypes
  <2>4. BoundInv'
    <3>1. bound => /\ udc /\ Core \subseteq tree /\ (tree = Nodes \/ stuck = Links)
                   /\ stuck = Links
          BY <1>7 DEF Rest, BoundInv
    <3>2. ~InStop' /\ unit' = "starting" /\ Left' = 7
          BY <1>7, <2>2, <2>3 DEF InStart, InStop
    <3> QED BY <1>1, <2>2, <3>1, <3>2 DEF BoundInv
  <2>5. InStart' /\ ~InStop' /\ unit' = "starting" BY <1>7, <2>2, <2>3 DEF InStart, InStop
  <2>6. StartInv'
    <3>1. \A n \in Nodes : /\ 7 <= MadeAt[n] => Left <= MadeAt[n]
                           /\ 7 > MadeAt[n] => Left > MadeAt[n]
          BY <1>7, Order
    <3> QED BY <1>7, <2>2, <2>3, <3>1 DEF Rest, StartInv
  <2>7. Rest' BY <2>2, <2>3, <2>4, <2>5, <2>6 DEF Rest, Closed, BoundInv, StopInv, RunsCleanly
  <2> QED BY <2>3, <2>7
<1>8. CASE InStart /\ Left = 1 /\ c = Cmd("bind", "g1")
  <2>1. c.do = "bind" BY <1>8, CmdIs
  <2>2. ~bound BY <1>2, <1>8, NotBound
  <2>3. tree = Nodes
    <3>1. \A n \in Nodes : Left <= MadeAt[n] BY <1>8, Order
    <3> QED BY <1>8, <3>1 DEF Rest, StartInv, GadgetTypes
  <2>4. CASE Accepted(c) /\ Effect(c) /\ script' = Tail(script) /\ UNCHANGED unit
    <3>1. udc /\ bound' = TRUE /\ tree' = Nodes /\ stuck' = stuck
          BY <2>1, <2>3, <2>4 DEF Accepted, Effect, GadgetTypes
    <3>2. GadgetTypes' /\ ScriptInv' /\ Left' = 0
          BY <1>4, <1>8, <2>3, <2>4, <3>1 DEF GadgetTypes
    <3>3. InStart' /\ ~InStop' /\ unit' = "starting"
          BY <1>8, <2>4, <3>2 DEF InStart, InStop
    <3>4. StartInv' BY <3>1, <3>2, Order DEF StartInv
    <3>5. Closed' BY <3>1, Order DEF Closed
    <3>6. BoundInv' BY <1>1, <3>1, <3>2, <3>3 DEF BoundInv, Core
    <3>7. Rest' BY <3>1, <3>3, <3>4, <3>5, <3>6 DEF Rest, StopInv, RunsCleanly
    <3> QED BY <3>2, <3>7
  <2>5. CASE ~Accepted(c) /\ GiveUp /\ UNCHANGED <<tree, bound, stuck>>
    <3>1. ~udc BY <2>1, <2>2, <2>5 DEF Accepted
    <3> QED BY <1>1, <2>1, <2>5, <3>1, GiveUpKeeps
  <2>6. ~Tolerated(c) BY <2>1 DEF Tolerated
  <2> QED BY <1>3, <2>4, <2>5, <2>6
<1> QED BY <1>1, <1>5, <1>6, <1>7, <1>8, Turns, CmdIs

LEMMA FailKeeps ==
  ASSUME GadgetInv, Fail
  PROVE  GadgetInv'
<1> DEFINE c == Head(script)
<1> USE DEF GadgetInv
<1>1. /\ script # <<>> /\ c.do # "cd" /\ smooth' = FALSE
      /\ UNCHANGED <<tree, bound, udc>>
      /\ stuck' = stuck \cup (IF c.do = "rm" THEN {c.node} \cap tree ELSE {})
      /\ IF Tolerated(c) THEN script' = Tail(script) /\ UNCHANGED unit ELSE GiveUp
      BY DEF Fail
<1>2. Left \in Nat \ {0} BY <1>1, HeadIs
<1>3. CASE GiveUp /\ ~Tolerated(c)
  <2>1. stuck' = stuck BY <1>1, <1>3 DEF Tolerated
  <2> QED BY <1>1, <1>3, <2>1, GiveUpKeeps
<1>4. CASE Tolerated(c) /\ script' = Tail(script) /\ UNCHANGED unit
  <2>1. ScriptInv' /\ Left' = Left - 1 /\ script' \in Seq(Commands)
        BY <1>1, <1>4, TailFollows
  <2>2. ASSUME NEW m \in Nodes, Takes(m) PROVE GadgetInv'
    <3>1. InStop /\ StopLeft = RemovedAt[m] + 1 BY <2>2 DEF Takes
    <3>2. Failed(m) BY <1>1, <2>2, CmdIs DEF Takes, Failed
    <3>3. Rest' BY <1>1, <1>2, <1>4, <2>1, <3>1, <3>2, TakesKeeps
    <3>4. stuck' \subseteq Links \cap tree' BY <3>2 DEF Failed, GadgetTypes
    <3>5. GadgetTypes' BY <1>1, <1>4, <2>1, <3>4 DEF GadgetTypes
    <3> QED BY <2>1, <3>3, <3>5
  <2>4. ASSUME NEW m \in Nodes PROVE ~Makes(m)
        BY <1>4, CmdIs DEF Makes, Tolerated
  <2> QED BY <1>1, <1>4, <2>2, <2>4, Turns, CmdIs DEF Tolerated
<1> QED BY <1>1, <1>3, <1>4

LEMMA NextKeeps ==
  ASSUME GadgetInv, Next
  PROVE  GadgetInv'
<1> USE DEF GadgetInv
<1>1. CASE Enter BY <1>1, EnterKeeps
<1>2. CASE Do BY <1>2, DoKeeps
<1>3. CASE Fail BY <1>3, FailKeeps
<1>4. CASE Kill BY <1>4, GiveUpKeeps DEF Kill
<1>5. CASE StartUnit
  <2>1. Left' = 17 /\ InStop' /\ ~InStart' /\ StopLeft' = 8
        BY <1>5, StartAre DEF StartUnit, Left, InStop, InStart, StopLeft
  <2>2. GadgetTypes' BY <1>5, StartAre DEF StartUnit, GadgetTypes
  <2>3. ScriptInv'
    <3>1. \A i \in 1..17 : 17 - 17 + i = i OBVIOUS
    <3> QED BY <1>5, <2>1, <3>1 DEF StartUnit, ScriptInv
  <2>4. \A n \in Nodes : ~(8 <= RemovedAt[n]) BY Order
  <2>5. Rest'
        BY <1>5, <2>1, <2>4
        DEF StartUnit, Rest, Closed, BoundInv, StopInv, StartInv, RunsCleanly
  <2> QED BY <2>2, <2>3, <2>5
<1>6. CASE StopUnit
  <2>1. Left' = 8 /\ InStop' /\ ~InStart' /\ StopLeft' = 8
        BY <1>6, StopAre DEF StopUnit, Left, InStop, InStart, StopLeft
  <2>2. GadgetTypes' BY <1>6, StopAre DEF StopUnit, GadgetTypes
  <2>3. ScriptInv'
    <3>1. \A i \in 1..8 : 8 - 8 + i = i OBVIOUS
    <3> QED BY <1>6, <2>1, <3>1 DEF StopUnit, ScriptInv
  <2>4. \A n \in Nodes : ~(8 <= RemovedAt[n]) BY Order
  <2>5. Rest'
        BY <1>6, <2>1, <2>4
        DEF StopUnit, Rest, Closed, BoundInv, StopInv, StartInv, RunsCleanly
  <2> QED BY <2>2, <2>3, <2>5
<1>7. CASE Finish
  <2>1. Left = 0 /\ script = <<>> /\ script' = <<>> BY <1>7 DEF Finish, Left
  <2>2. unit \in {"starting", "stopping"} /\ UNCHANGED <<tree, bound, udc, script, smooth, stuck>>
        BY <1>7 DEF Finish
  <2>3. GadgetTypes' /\ ScriptInv' BY <1>7, <2>1 DEF Finish, GadgetTypes, ScriptInv
  <2>4. unit = "starting" => bound BY <2>1 DEF Rest, BoundInv
  <2>5. unit = "stopping" /\ smooth => tree = {}
    <3>1. unit = "stopping" => InStop /\ StopLeft = 0 BY <2>1 DEF InStop, StopLeft
    <3> QED BY <3>1, Order DEF Rest, StopInv, GadgetTypes
  <2>6. unit' = IF unit = "starting" THEN "active" ELSE "inactive" BY <1>7 DEF Finish
  <2>7. Rest'
        BY <2>2, <2>4, <2>5, <2>6
        DEF Rest, Closed, BoundInv, StopInv, StartInv, RunsCleanly, InStop, InStart
  <2> QED BY <2>3, <2>7
<1>8. CASE UdcChanges
  <2>1. ~bound /\ UNCHANGED <<tree, bound, script, unit, smooth, stuck>> /\ udc' \in BOOLEAN
        BY <1>8 DEF UdcChanges, GadgetTypes
  <2>2. UNCHANGED <<Left, InStop, InStart, StopLeft>>
        BY <2>1 DEF Left, InStop, InStart, StopLeft
  <2>3. GadgetTypes' BY <2>1 DEF GadgetTypes
  <2>4. ScriptInv' BY <2>1, <2>2, Zenon DEF ScriptInv
  <2>5. Rest'
        BY <2>1, <2>2 DEF Rest, Closed, BoundInv, StopInv, StartInv, RunsCleanly
  <2> QED BY <2>3, <2>4, <2>5
<1> QED BY <1>1, <1>2, <1>3, <1>4, <1>5, <1>6, <1>7, <1>8 DEF Next

LEMMA InitInv == Init => GadgetInv
<1> SUFFICES ASSUME Init PROVE GadgetInv
    OBVIOUS
<1>1. <<>> \in Seq(Commands) OBVIOUS
<1>2. GadgetTypes /\ ScriptInv BY <1>1 DEF Init, GadgetTypes, ScriptInv
<1>3. Rest
      BY DEF Init, Rest, Closed, BoundInv, StopInv, StartInv, RunsCleanly, InStop, InStart
<1> QED BY <1>2, <1>3 DEF GadgetInv

Kept == UNCHANGED <<tree, bound, udc, script, unit, smooth, stuck>>
LEMMA KeptInv == GadgetInv /\ Kept => GadgetInv'
BY DEF Kept, GadgetInv, GadgetTypes, ScriptInv, Rest, Closed, BoundInv, StopInv,
       StartInv, RunsCleanly, InStop, InStart, StopLeft, Left

LEMMA NextInv == GadgetInv /\ [Next]_<<gadgetVars, faults>> => GadgetInv'
<1>1. UNCHANGED <<gadgetVars, faults>> => Kept
      BY DEF gadgetVars, Kept
<1> QED BY <1>1, KeptInv, NextKeeps

LEMMA InvSays == GadgetInv => BoundIsComplete /\ RunsCleanly
BY DEF GadgetInv, Rest, BoundInv, Core, BoundIsComplete

LEMMA Inductive == Spec => []GadgetInv
BY InitInv, NextInv, PTL DEF Spec

\* While the gadget is bound to a UDC everything start creates is there, whatever
\* commands failed and wherever runs were killed; all but the strings even when rm
\* failed on both links.
THEOREM CompleteWhenBound == Spec => []BoundIsComplete
BY InvSays, Inductive, PTL

\* A start or stop that meets no fault of its own gets over whatever earlier runs
\* left behind, and the unit is up only with the gadget bound.
THEOREM RunsAreClean == Spec => []RunsCleanly
BY InvSays, Inductive, PTL
=============================================================================
