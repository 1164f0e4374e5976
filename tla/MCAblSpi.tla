------------------------------ MODULE MCAblSpi ------------------------------
(* Instances of AblSpi for TLC: command sets and argument sets. *)
EXTENDS AblSpi, TLC

\* READ_BUFFER stands for the commands that change nothing, and
\* WAIT_AND_SEND_SIZED for WAIT_AND_SEND, which is its second half (AblSpiLive
\* runs both, and the commands left out here).
MCCommands == {"FILL_TX", "FILL_RX", "READ_BUFFER", "SET_MESSAGE_SIZE", "SEND_MESSAGE",
               "SEND_AND_WAIT", "WAIT_AND_SEND_SIZED"}
\* Both waiting sends, and what callers do in between: READ_BUFFER for the four
\* that copy out, the clock, and a number that is no command.
MCLiveCommands == WaitCmds \cup {"READ_BUFFER", "CAN_SEND", "SET_SPEED", "UNKNOWN"}

\* Zero, which is no size, and the two ends of the range.
MCSizeArgs == {0, 1, Half}
\* One above the range, and a value far above it whose cast is in it.
MCSpeedArgs == {MaxHz + 1, U32 + MinHz}
\* Contents differ only by name, and so do tasks when both or none map the page.
Symmetry == IF Mappers \in {{}, Tasks} THEN Permutations(Tasks) \cup Permutations(Data)
            ELSE Permutations(Data)
=============================================================================
