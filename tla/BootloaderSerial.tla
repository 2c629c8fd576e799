-------------------------- MODULE BootloaderSerial --------------------------
(***************************************************************************)
(* The command line of the bootloader: the interrupts of the serial port   *)
(* and of USB fill one buffer and check the CRC of a complete line, the    *)
(* main loop carries the line out later.                                   *)
(*                                                                         *)
(* Nothing in an interrupt looks at data_flag, so that characters come in  *)
(* while the main loop works on the line before them in the same buffer.   *)
(*                                                                         *)
(* A line is a command text followed by '#' and its CRC, which counts as   *)
(* one last character; the CRC only fits the text it was made for. The     *)
(* texts here have no leading blanks and no '='.                           *)
(***************************************************************************)
EXTENDS Naturals, Sequences, FiniteSetsExt

CONSTANTS
    Lines,          \* the lines that are sent
    Length,         \* their number of characters, the CRC included
    Size,           \* MAXIMUM_COMMAND_SIZE
    Sources,        \* the ports in use: serial, USB
    Nul             \* the termination character

ASSUME SerialAssumption ==
    /\ Lines # {}
    /\ Length \in [Lines -> Nat \ {0}]
    /\ Size \in Nat \ {0}
    /\ Nul \notin [line : Lines, pos : Nat]

VARIABLES
    cmd,            \* cmd, with the byte after it that the terminator can hit
    cmd_cnt,        \* cmd_cnt
    data_flag,      \* data_flag
    crc_required,   \* crc_required
    mpc,            \* where command_mode is
    i,              \* its index into cmd
    loaded,         \* it has loaded the character at i and not yet stored it
    held,           \* that character, otherwise Nul
    ran,            \* the text it carries out, and whether a CRC was found in it
    at,             \* per port: the line it sends and the next character (0: none)
    whole,          \* history, per port: all of its line so far has arrived, the end
                    \* before it included, and is in cmd as it was sent
    disturbed       \* history: cmd was written to since the line that data_flag
                    \* stands for was accepted

irqVars == <<cmd_cnt, data_flag, crc_required>>
loopVars == <<mpc, i, loaded, held, ran>>
vars == <<cmd, irqVars, loopVars, at, whole, disturbed>>

Char == {c \in [line : Lines, pos : Nat] : c.pos \in 1 .. Length[c.line]}

\* The character with the CRC.
IsCrc(c) == c # Nul /\ c.pos = Length[c.line]

\* The characters of buffer b up to the first terminator.
TextLen(b) == Min({k \in 0 .. Size : b[k] = Nul} \cup {Size + 1})
Text(b) == [k \in 1 .. TextLen(b) |-> b[k - 1]]

\* The text of line l, without the CRC.
Body(l) == [k \in 1 .. Length[l] - 1 |-> [line |-> l, pos |-> k]]

None == [text |-> <<>>, crc |-> FALSE, disturbed |-> FALSE]
Quiet == [line |-> CHOOSE l \in Lines : TRUE, pos |-> 0]

Init ==
    /\ cmd = [k \in 0 .. Size |-> Nul]
    /\ cmd_cnt = 0
    /\ data_flag = 0
    /\ crc_required = FALSE
    /\ mpc = "idle"
    /\ i = 0
    /\ loaded = FALSE
    /\ held = Nul
    /\ ran = None
    /\ at = [p \in Sources |-> Quiet]
    /\ whole = [p \in Sources |-> TRUE]
    /\ disturbed = FALSE

-----------------------------------------------------------------------------
(* The ports. Whoever sends need not wait for the answer to a command, and *)
(* gets none from a command that has nothing to say.                       *)

StartLine(p, l) ==
    /\ at[p].pos = 0
    /\ at' = [at EXCEPT ![p] = [line |-> l, pos |-> 1]]
    /\ UNCHANGED <<cmd, irqVars, loopVars, whole, disturbed>>

\* The port goes on with the next character of its line.
Advance(p) ==
    at' = [at EXCEPT ![p] = IF @.pos > Length[@.line] THEN Quiet
                            ELSE [line |-> @.line, pos |-> @.pos + 1]]

\* A character, or the end of the line, is lost on the way.
LoseChar(p) ==
    /\ at[p].pos > 0
    /\ Advance(p)
    /\ whole' = [whole EXCEPT ![p] = FALSE]
    /\ UNCHANGED <<cmd, irqVars, loopVars, disturbed>>

CharAt(p) == [line |-> at[p].line, pos |-> at[p].pos]

\* A line waits to be carried out.
Pending == data_flag = 1 /\ mpc # "respond"

\* What else a character from port p does: the line of any other port no longer
\* stands at the beginning of cmd.
CharIn(p) ==
    /\ Advance(p)
    /\ whole' = [q \in Sources |-> q = p /\ whole[q]]
    /\ disturbed' = (disturbed \/ Pending)
    /\ UNCHANGED <<data_flag, crc_required, loopVars>>

\* Variant: the limit is tested one character late.
ReceiveCharLate(p) ==
    /\ at[p].pos > 0
    /\ at[p].pos <= Length[at[p].line]
    /\ IF cmd_cnt > Size
       THEN cmd' = [cmd EXCEPT ![0] = Nul] /\ cmd_cnt' = 0
       ELSE cmd' = [cmd EXCEPT ![cmd_cnt] = CharAt(p)] /\ cmd_cnt' = cmd_cnt + 1
    /\ CharIn(p)

\* received_char or received_msg with a character of the line.
ReceiveChar(p) ==
    /\ at[p].pos > 0
    /\ at[p].pos <= Length[at[p].line]
    /\ IF cmd_cnt >= Size
       THEN cmd' = [cmd EXCEPT ![0] = Nul] /\ cmd_cnt' = 0
       ELSE cmd' = [cmd EXCEPT ![cmd_cnt] = CharAt(p)] /\ cmd_cnt' = cmd_cnt + 1
    /\ CharIn(p)

\* Where the text of buffer b has a '#'.
Hashes(b) == {k \in 0 .. TextLen(b) - 1 : IsCrc(b[k])}

\* Variant: a CRC that belongs to the last character is enough.
crc_okLast(b) ==
    Hashes(b) # {} =>
        LET h == Max(Hashes(b)) IN h > 0 => b[h - 1].line = b[h].line

\* crc_ok: the text has no CRC, or the last one fits the text before it.
crc_ok(b) ==
    Hashes(b) # {} =>
        LET h == Max(Hashes(b)) IN SubSeq(Text(b), 1, h) = Body(b[h].line)

\* What else the end of a line from port p does: the next line of a port that
\* has sent nothing yet will stand at the beginning of cmd.
EndIn(p) ==
    /\ Advance(p)
    /\ whole' = [q \in Sources |-> q = p \/ at[q].pos <= 1]
    /\ UNCHANGED loopVars

\* Variant: the counter is only reset when the line is accepted.
ReceiveEndKeeps(p) ==
    /\ at[p].pos = Length[at[p].line] + 1
    /\ LET b == [cmd EXCEPT ![cmd_cnt] = Nul]
           c == IF Hashes(b) = {} THEN b ELSE [b EXCEPT ![Max(Hashes(b))] = Nul]
       IN /\ crc_required' = (Hashes(b) # {})
          /\ IF crc_ok(b)
             THEN data_flag' = 1 /\ cmd' = c /\ cmd_cnt' = 0 /\ disturbed' = FALSE
             ELSE /\ cmd' = [c EXCEPT ![0] = Nul]
                  /\ disturbed' = (disturbed \/ Pending)
                  /\ UNCHANGED <<data_flag, cmd_cnt>>
    /\ EndIn(p)

\* received_char or received_msg with the end of the line.
ReceiveEnd(p) ==
    /\ at[p].pos = Length[at[p].line] + 1
    /\ LET b == [cmd EXCEPT ![cmd_cnt] = Nul]
           c == IF Hashes(b) = {} THEN b ELSE [b EXCEPT ![Max(Hashes(b))] = Nul]
       IN /\ crc_required' = (Hashes(b) # {})
          /\ IF crc_ok(b)
             THEN data_flag' = 1 /\ cmd' = c /\ disturbed' = FALSE
             ELSE /\ cmd' = [c EXCEPT ![0] = Nul]
                  /\ disturbed' = (disturbed \/ Pending)
                  /\ UNCHANGED data_flag
    /\ cmd_cnt' = 0
    /\ EndIn(p)

-----------------------------------------------------------------------------
(* command_mode. The text is rewritten in place twice, character by        *)
(* character: leading blanks are removed, then parse makes it lower case.  *)
(* An interrupt can come between the load and the store of a character.    *)

Notice ==
    /\ mpc = "idle"
    /\ data_flag = 1
    /\ mpc' = "trim"
    /\ i' = 0
    /\ UNCHANGED <<cmd, irqVars, loaded, held, ran, at, whole, disturbed>>

\* strlen is taken anew in every round; trim moves the terminator too.
More == IF mpc = "trim" THEN i <= TextLen(cmd) ELSE i < TextLen(cmd)

Load ==
    /\ mpc \in {"trim", "lower"}
    /\ ~ loaded
    /\ More
    /\ held' = cmd[i]
    /\ loaded' = TRUE
    /\ UNCHANGED <<cmd, irqVars, mpc, i, ran, at, whole, disturbed>>

\* The store undoes what an interrupt has written there since the load.
Store ==
    /\ loaded
    /\ cmd' = [cmd EXCEPT ![i] = held]
    /\ loaded' = FALSE
    /\ held' = Nul
    /\ i' = i + 1
    /\ whole' = [q \in Sources |-> whole[q] /\ (held = cmd[i] \/ i >= cmd_cnt)]
    /\ disturbed' = (disturbed \/ held # cmd[i])
    /\ UNCHANGED <<irqVars, mpc, ran, at>>

Trimmed ==
    /\ mpc = "trim"
    /\ ~ loaded
    /\ ~ More
    /\ mpc' = "lower"
    /\ i' = 0
    /\ UNCHANGED <<cmd, irqVars, loaded, held, ran, at, whole, disturbed>>

\* commander.parse carries the command out.
Parse ==
    /\ mpc = "lower"
    /\ ~ loaded
    /\ ~ More
    /\ ran' = [text |-> Text(cmd), crc |-> crc_required, disturbed |-> disturbed]
    /\ mpc' = "respond"
    /\ i' = 0
    /\ UNCHANGED <<cmd, irqVars, loaded, held, at, whole, disturbed>>

\* The answer, if there is one, is printed, and data_flag is cleared, also when it
\* stands for another line by now.
Finish ==
    /\ mpc = "respond"
    /\ data_flag' = 0
    /\ mpc' = "idle"
    /\ ran' = None
    /\ UNCHANGED <<cmd, cmd_cnt, crc_required, i, loaded, held, at, whole, disturbed>>

Next ==
    \/ \E p \in Sources :
           \/ \E l \in Lines : StartLine(p, l)
           \/ ReceiveChar(p) \/ ReceiveEnd(p) \/ LoseChar(p)
    \/ Notice \/ Load \/ Store \/ Trimmed \/ Parse \/ Finish

Spec == Init /\ [][Next]_vars

-----------------------------------------------------------------------------
(* Properties.                                                             *)

\* The buffer, the flags, the main loop and the ports.
TypeOK ==
    /\ cmd \in [0 .. Size -> Char \cup {Nul}] /\ cmd[Size] = Nul
    /\ cmd_cnt \in 0 .. Size
    /\ data_flag \in {0, 1}
    /\ crc_required \in BOOLEAN
    /\ mpc \in {"idle", "trim", "lower", "respond"}
    /\ i \in 0 .. Size + 1
    /\ loaded \in BOOLEAN /\ (loaded => i <= Size)
    /\ held \in Char \cup {Nul}
    /\ ran.crc \in BOOLEAN /\ ran.disturbed \in BOOLEAN
    /\ at \in [Sources -> [line : Lines, pos : Nat]]
    /\ \A p \in Sources : at[p].pos <= Length[at[p].line] + 1
    /\ whole \in [Sources -> BOOLEAN]
    /\ disturbed \in BOOLEAN

\* "throw msg away if crc is not correct": a text that is carried out as one
\* with a CRC is the text of a line that was sent, whatever was lost on the way
\* and however long the lines are, unless an interrupt wrote to cmd after the
\* line was accepted and before the main loop had done with it.
VerifiedUnlessDisturbed ==
    mpc = "respond" /\ ran.crc /\ ~ ran.disturbed => \E l \in Lines : ran.text = Body(l)

\* A line that fits and arrives complete, after the end of a line and with no
\* character of another port or stale store of the main loop in it, is accepted
\* as it was sent, whatever lines were cut, too long or refused before and
\* whatever the main loop is at.
WholeLineAccepted ==
    [][\A p \in Sources :
           ReceiveEnd(p) /\ whole[p] /\ Length[at[p].line] <= Size =>
               data_flag' = 1 /\ Text(cmd)' = Body(at[p].line)]_vars
=============================================================================
