----------------------- MODULE BootloaderSerialProofs -----------------------
(* Proofs about BootloaderSerial, for every set of lines, every size of    *)
(* the buffer and any number of ports.                                     *)
EXTENDS BootloaderSerial, TLAPS, WellFoundedInduction

-----------------------------------------------------------------------------
(* Least and greatest elements.                                            *)

LEMMA Least ==
    ASSUME NEW S, S \subseteq Nat, S # {}
    PROVE  Min(S) \in S /\ \A y \in S : Min(S) <= y
  <1> DEFINE Less == {ss \in Nat \X Nat : ss[1] < ss[2]}
  <1>1. IsWellFoundedOn(Less, Nat)
    BY NatLessThanWellFounded DEF OpToRel
  <1>2. \E x \in S : \A y \in S : x <= y
    <2> HIDE DEF Less
    <2>1. PICK x \in S : \A y \in S : ~ (<<y, x>> \in Less)
      BY <1>1, WFMin
    <2>2. \A y \in S : x <= y
      <3> TAKE y \in S
      <3>1. y \in Nat /\ x \in Nat
        OBVIOUS
      <3>2. y < x => <<y, x>> \in Less
        BY <3>1 DEF Less
      <3> QED BY <2>1, <3>1, <3>2
    <2> QED BY <2>2
  <1> QED BY <1>2, Zenon DEF Min

LEMMA Greatest ==
    ASSUME NEW n \in Nat, NEW S, S \subseteq 0 .. n, S # {}
    PROVE  Max(S) \in S /\ \A y \in S : Max(S) >= y
  <1> DEFINE T == {n - y : y \in S}
  <1>1. T \subseteq Nat
    OBVIOUS
  <1>n. T # {}
    <2>1. PICK y \in S : TRUE
      OBVIOUS
    <2>2. n - y \in T
      OBVIOUS
    <2> QED BY <2>2
  <1>2. PICK m \in T : \A t \in T : m <= t
    BY <1>1, <1>n, Least
  <1>3. PICK x \in S : m = n - x
    OBVIOUS
  <1>4. \A y \in S : x >= y
    <2> TAKE y \in S
    <2>1. n - y \in T
      OBVIOUS
    <2>2. n - x <= n - y
      BY <1>2, <1>3, <2>1
    <2> QED BY <2>2
  <1>5. \E z \in S : \A y \in S : z >= y
    BY <1>4
  <1> QED BY <1>5, Zenon DEF Max

-----------------------------------------------------------------------------
(* The text in the buffer.                                                 *)

Buffer == [0 .. Size -> Char \cup {Nul}]

LEMMA Lengths ==
    /\ Size \in Nat \ {0}
    /\ \A l \in Lines : Length[l] \in Nat \ {0}
    /\ \A c \in Char : c # Nul /\ c.line \in Lines /\ c.pos \in 1 .. Length[c.line]
  BY SerialAssumption DEF Char

\* TextLen is the place of the first terminator, or the end of the buffer.
LEMMA TextLenFirst ==
    ASSUME NEW b
    PROVE  /\ TextLen(b) \in 0 .. Size + 1
           /\ \A k \in 0 .. TextLen(b) - 1 : k \in 0 .. Size /\ b[k] # Nul
           /\ TextLen(b) <= Size => b[TextLen(b)] = Nul
  <1> DEFINE S == {k \in 0 .. Size : b[k] = Nul} \cup {Size + 1}
  <1>1. S \subseteq 0 .. Size + 1 /\ S # {} /\ S \subseteq Nat
    BY Lengths
  <1>2. TextLen(b) \in S /\ \A y \in S : TextLen(b) <= y
    BY <1>1, Least, Zenon DEF TextLen
  <1>3. TextLen(b) \in 0 .. Size + 1 /\ Size \in Nat
    BY <1>1, <1>2, Lengths
  <1>4. ASSUME NEW k \in 0 .. TextLen(b) - 1
        PROVE  k \in 0 .. Size /\ b[k] # Nul
    <2>1. k \in 0 .. Size /\ k < TextLen(b)
      BY <1>3
    <2>2. k \notin S
      BY <1>2, <1>3, <2>1
    <2> QED BY <2>1, <2>2
  <1>5. TextLen(b) <= Size => b[TextLen(b)] = Nul
    BY <1>2, <1>3
  <1> QED BY <1>3, <1>4, <1>5

LEMMA TextLenIs ==
    ASSUME NEW b, NEW n \in 0 .. Size, b[n] = Nul, \A k \in 0 .. n - 1 : b[k] # Nul
    PROVE  TextLen(b) = n
  <1>1. TextLen(b) \in Nat /\ n \in Nat /\ Size \in Nat
    BY TextLenFirst, Lengths
  <1>2. ~ (TextLen(b) < n)
    <2> SUFFICES ASSUME TextLen(b) < n PROVE FALSE
      OBVIOUS
    <2>1. TextLen(b) \in 0 .. n - 1 /\ TextLen(b) <= Size
      BY <1>1
    <2> QED BY <2>1, TextLenFirst
  <1>3. ~ (n < TextLen(b))
    <2> SUFFICES ASSUME n < TextLen(b) PROVE FALSE
      OBVIOUS
    <2>1. n \in 0 .. TextLen(b) - 1
      BY <1>1
    <2> QED BY <2>1, TextLenFirst
  <1> QED BY <1>1, <1>2, <1>3

\* A terminator within the text cuts it there.
LEMMA CutText ==
    ASSUME NEW b \in Buffer, NEW h \in 0 .. TextLen(b) - 1
    PROVE  /\ TextLen([b EXCEPT ![h] = Nul]) = h
           /\ Text([b EXCEPT ![h] = Nul]) = SubSeq(Text(b), 1, h)
           /\ Text([b EXCEPT ![h] = Nul]) = [k \in 1 .. h |-> b[k - 1]]
  <1> DEFINE c == [b EXCEPT ![h] = Nul]
  <1>1. TextLen(b) \in 0 .. Size + 1 /\ Size \in Nat /\ h \in 0 .. Size /\ h \in Nat
    BY TextLenFirst, Lengths
  <1>2. c[h] = Nul /\ \A k \in 0 .. h - 1 : c[k] = b[k]
    BY <1>1 DEF Buffer
  <1>3. \A k \in 0 .. h - 1 : b[k] # Nul
    <2> TAKE k \in 0 .. h - 1
    <2>1. k \in 0 .. TextLen(b) - 1
      BY <1>1
    <2> QED BY <2>1, TextLenFirst
  <1>4. TextLen(c) = h
    <2>1. \A k \in 0 .. h - 1 : c[k] # Nul
      BY <1>2, <1>3
    <2> HIDE DEF c
    <2> QED BY <1>1, <1>2, <2>1, TextLenIs
  <1>5. Text(c) = [k \in 1 .. h |-> b[k - 1]]
    <2>1. Text(c) = [k \in 1 .. h |-> c[k - 1]]
      BY <1>4, Zenon DEF Text
    <2>2. \A k \in 1 .. h : c[k - 1] = b[k - 1]
      <3> TAKE k \in 1 .. h
      <3>1. k - 1 \in 0 .. h - 1
        BY <1>1
      <3> QED BY <3>1, <1>2
    <2> HIDE DEF c
    <2> QED BY <2>1, <2>2
  <1>6. SubSeq(Text(b), 1, h) = [k \in 1 .. h |-> b[k - 1]]
    <2>1. Text(b) = [k \in 1 .. TextLen(b) |-> b[k - 1]]
      BY DEF Text
    <2>2. Text(b) \in Seq(Char \cup {Nul})
      <3>1. \A k \in 1 .. TextLen(b) : b[k - 1] \in Char \cup {Nul}
        BY <1>1 DEF Buffer
      <3> QED BY <2>1, <3>1, <1>1
    <2>3. h <= TextLen(b) /\ Len(Text(b)) = TextLen(b)
      BY <2>1, <1>1
    <2> QED BY <2>1, <2>2, <2>3, <1>1
  <1> QED BY <1>4, <1>5, <1>6

\* The last '#' lies in the text.
LEMMA LastHash ==
    ASSUME NEW b, Hashes(b) # {}
    PROVE  Max(Hashes(b)) \in 0 .. TextLen(b) - 1
  <1>1. Hashes(b) \subseteq 0 .. Size + 1 /\ Size + 1 \in Nat
    BY TextLenFirst, Lengths DEF Hashes
  <1>2. Max(Hashes(b)) \in Hashes(b)
    BY <1>1, Greatest
  <1> QED BY <1>2 DEF Hashes

-----------------------------------------------------------------------------
(* Type correctness.                                                       *)

Port == [line : Lines, pos : Nat]

LEMMA QuietPort == Quiet \in Port /\ Quiet.pos = 0
  <1>1. (CHOOSE l \in Lines : TRUE) \in Lines
    BY SerialAssumption
  <1> QED BY <1>1 DEF Quiet, Port

LEMMA PortAt ==
    ASSUME TypeOK, NEW p \in Sources
    PROVE  /\ at[p] \in Port /\ at[p].line \in Lines /\ at[p].pos \in Nat
           /\ Length[at[p].line] \in Nat \ {0}
           /\ at[p].pos <= Length[at[p].line] + 1
           /\ whole[p] \in BOOLEAN
  BY Lengths DEF TypeOK, Port

\* The port goes to the next character, or is quiet after the end of the line.
LEMMA AdvancePort ==
    ASSUME TypeOK, NEW p \in Sources, Advance(p)
    PROVE  /\ at' \in [Sources -> Port]
           /\ \A q \in Sources : at'[q].pos <= Length[at'[q].line] + 1
           /\ at[p].pos > Length[at[p].line] => at'[p].pos = 0
           /\ at[p].pos <= Length[at[p].line] =>
                  at'[p].pos = at[p].pos + 1 /\ at'[p].line = at[p].line
           /\ \A q \in Sources : q # p => at'[q] = at[q]
  <1>t. at \in [Sources -> Port]
    BY DEF TypeOK, Port
  <1>p. /\ at[p].line \in Lines /\ at[p].pos \in Nat /\ Length[at[p].line] \in Nat
        /\ Quiet \in Port /\ Quiet.pos = 0
    BY PortAt, QuietPort
  <1>q. Quiet.line \in Lines /\ Length[Quiet.line] \in Nat
    BY <1>p, Lengths DEF Port
  <1>o. \A q \in Sources : q # p => at'[q] = at[q]
    BY <1>t DEF Advance
  <1>1. CASE at[p].pos > Length[at[p].line]
    <2>1. at' = [at EXCEPT ![p] = Quiet]
      BY <1>1 DEF Advance
    <2>2. at'[p] = Quiet /\ at' \in [Sources -> Port]
      BY <2>1, <1>t, <1>p
    <2>3. \A q \in Sources : at'[q].pos <= Length[at'[q].line] + 1
      BY <2>2, <1>o, <1>p, <1>q, PortAt
    <2> QED BY <1>1, <2>2, <2>3, <1>o, <1>p
  <1>2. CASE at[p].pos <= Length[at[p].line]
    <2> DEFINE next == [line |-> at[p].line, pos |-> at[p].pos + 1]
    <2>1. at' = [at EXCEPT ![p] = next]
      <3>1. ~ (at[p].pos > Length[at[p].line])
        BY <1>2, <1>p
      <3> QED BY <3>1 DEF Advance
    <2>2. next \in Port
      BY <1>p DEF Port
    <2>3. at'[p] = next /\ at' \in [Sources -> Port]
      BY <2>1, <2>2, <1>t
    <2>4. at'[p].pos = at[p].pos + 1 /\ at'[p].line = at[p].line
      BY <2>3
    <2>5. \A q \in Sources : at'[q].pos <= Length[at'[q].line] + 1
      BY <1>2, <2>4, <1>o, <1>p, PortAt
    <2> QED BY <1>2, <2>3, <2>4, <2>5, <1>o, <1>p
  <1> QED BY <1>1, <1>2, <1>p

LEMMA StartPort ==
    ASSUME TypeOK, NEW p \in Sources, NEW l \in Lines, StartLine(p, l)
    PROVE  /\ at' \in [Sources -> Port]
           /\ \A q \in Sources : at'[q].pos <= Length[at'[q].line] + 1
           /\ at'[p].pos = 1 /\ at'[p].line = l
           /\ \A q \in Sources : q # p => at'[q] = at[q]
  <1>t. at \in [Sources -> Port] /\ Length[l] \in Nat
    BY Lengths DEF TypeOK, Port
  <1> DEFINE first == [line |-> l, pos |-> 1]
  <1>1. first \in Port
    BY <1>t DEF Port
  <1>2. at' = [at EXCEPT ![p] = first]
    BY DEF StartLine
  <1>3. at'[p] = first /\ at' \in [Sources -> Port] /\ \A q \in Sources : q # p => at'[q] = at[q]
    BY <1>1, <1>2, <1>t
  <1>4. at'[p].pos = 1 /\ at'[p].line = l
    BY <1>3
  <1>5. \A q \in Sources : at'[q].pos <= Length[at'[q].line] + 1
    BY <1>3, <1>4, <1>t, PortAt
  <1> QED BY <1>3, <1>4, <1>5

LEMMA ReceivedChar ==
    ASSUME TypeOK, NEW p \in Sources, ReceiveChar(p)
    PROVE  CharAt(p) \in Char
  BY PortAt DEF ReceiveChar, CharAt, Char

\* The terminator after cmd stays, so the text always ends in the buffer.
LEMMA TextEnds == TypeOK => TextLen(cmd) \in 0 .. Size
  <1> SUFFICES ASSUME TypeOK PROVE TextLen(cmd) \in 0 .. Size
    OBVIOUS
  <1>1. Size \in Nat /\ cmd[Size] = Nul /\ TextLen(cmd) \in 0 .. Size + 1
    BY Lengths, TextLenFirst DEF TypeOK
  <1>2. TextLen(cmd) # Size + 1
    <2> SUFFICES ASSUME TextLen(cmd) = Size + 1 PROVE FALSE
      OBVIOUS
    <2>1. Size \in 0 .. TextLen(cmd) - 1
      BY <1>1
    <2> QED BY <1>1, <2>1, TextLenFirst
  <1> QED BY <1>1, <1>2

\* The main loop that has loaded the byte after cmd has loaded its terminator.
HeldInv == loaded => mpc \in {"trim", "lower"} /\ (i = Size => held = Nul)

LEMMA TypeStep ==
    ASSUME TypeOK, HeldInv, [Next]_vars
    PROVE  TypeOK' /\ HeldInv'
  <1>t. /\ cmd \in Buffer /\ cmd[Size] = Nul /\ cmd_cnt \in 0 .. Size /\ Size \in Nat \ {0}
        /\ at \in [Sources -> Port]
        /\ \A q \in Sources : at[q].pos <= Length[at[q].line] + 1
        /\ whole \in [Sources -> BOOLEAN] /\ disturbed \in BOOLEAN
    BY Lengths DEF TypeOK, Buffer, Port
  <1>1. ASSUME NEW p \in Sources, NEW l \in Lines, StartLine(p, l)
        PROVE  TypeOK' /\ HeldInv'
    BY <1>1, StartPort DEF StartLine, irqVars, loopVars, TypeOK, HeldInv, Port
  <1>2. ASSUME NEW p \in Sources, ReceiveChar(p)
        PROVE  TypeOK' /\ HeldInv'
    <2>1. /\ at' \in [Sources -> Port]
          /\ \A q \in Sources : at'[q].pos <= Length[at'[q].line] + 1
      BY <1>2, AdvancePort DEF ReceiveChar, CharIn
    <2>2. cmd' \in Buffer
      BY <1>2, <1>t, ReceivedChar DEF ReceiveChar, Buffer
    <2>3. cmd_cnt' \in 0 .. Size /\ cmd'[Size] = Nul
      BY <1>2, <1>t DEF ReceiveChar, Buffer
    <2>4. whole' \in [Sources -> BOOLEAN] /\ disturbed' \in BOOLEAN
      <3>1. whole' = [q \in Sources |-> q = p /\ whole[q]]
        BY <1>2 DEF ReceiveChar, CharIn
      <3>2. disturbed' = (disturbed \/ Pending)
        BY <1>2 DEF ReceiveChar, CharIn
      <3>3. whole' \in [Sources -> BOOLEAN]
        BY <3>1
      <3>4. disturbed' \in BOOLEAN
        BY <3>2
      <3> QED BY <3>3, <3>4
    <2>5. UNCHANGED <<data_flag, crc_required, loopVars>>
      BY <1>2 DEF ReceiveChar, CharIn
    <2>6. HeldInv'
      BY <2>5 DEF HeldInv, loopVars
    <2> QED BY <2>1, <2>2, <2>3, <2>4, <2>5, <2>6 DEF TypeOK, Port, Buffer, loopVars
  <1>3. ASSUME NEW p \in Sources, ReceiveEnd(p)
        PROVE  TypeOK' /\ HeldInv'
    <2>1. /\ at' \in [Sources -> Port]
          /\ \A q \in Sources : at'[q].pos <= Length[at'[q].line] + 1
      BY <1>3, AdvancePort DEF ReceiveEnd, EndIn
    <2>2. cmd' \in Buffer /\ cmd'[Size] = Nul
      <3> DEFINE b == [cmd EXCEPT ![cmd_cnt] = Nul]
                 m == Max(Hashes(b))
                 c == [b EXCEPT ![m] = Nul]
      <3>1. b \in Buffer /\ b[Size] = Nul
        BY <1>t DEF Buffer
      <3> HIDE DEF m
      <3>2. c \in Buffer /\ c[Size] = Nul
        <4>1. c = [k \in 0 .. Size |-> IF k = m THEN Nul ELSE b[k]]
          <5> HIDE DEF b
          <5> QED BY <3>1 DEF Buffer
        <4> HIDE DEF b, c
        <4>2. c \in [0 .. Size -> Char \cup {Nul}]
          BY <3>1, <4>1 DEF Buffer
        <4>3. c[Size] = Nul
          BY <1>t, <3>1, <4>1
        <4> QED BY <4>2, <4>3 DEF Buffer
      <3>3. cmd' \in {b, c, [b EXCEPT ![0] = Nul], [c EXCEPT ![0] = Nul]}
        <4>1. cmd' = IF crc_ok(b) THEN IF Hashes(b) = {} THEN b ELSE c
                     ELSE [IF Hashes(b) = {} THEN b ELSE c EXCEPT ![0] = Nul]
          BY <1>3 DEF ReceiveEnd, m
        <4> HIDE DEF b, c
        <4> QED BY <4>1
      <3>4. ASSUME NEW d \in {b, c}
            PROVE  [d EXCEPT ![0] = Nul] \in Buffer /\ [d EXCEPT ![0] = Nul][Size] = Nul
        <4>1. d \in Buffer /\ d[Size] = Nul
          BY <3>1, <3>2
        <4> QED BY <1>t, <4>1 DEF Buffer
      <3> HIDE DEF b, c
      <3> QED BY <3>1, <3>2, <3>3, <3>4
    <2>3. data_flag' \in {0, 1} /\ crc_required' \in BOOLEAN /\ cmd_cnt' = 0
      BY <1>3 DEF ReceiveEnd, TypeOK
    <2>4. UNCHANGED loopVars /\ whole' = [q \in Sources |-> q = p \/ at[q].pos <= 1]
      BY <1>3 DEF ReceiveEnd, EndIn
    <2>5. whole' \in [Sources -> BOOLEAN]
      BY <2>4
    <2>6. disturbed' \in BOOLEAN
      <3>1. disturbed' = FALSE \/ disturbed' = (disturbed \/ Pending)
        BY <1>3 DEF ReceiveEnd
      <3> QED BY <3>1
    <2>7. HeldInv'
      BY <2>4 DEF HeldInv, loopVars
    <2> QED BY <2>1, <2>2, <2>3, <2>4, <2>5, <2>6, <2>7, <1>t DEF TypeOK, Port, Buffer, loopVars
  <1>4. ASSUME NEW p \in Sources, LoseChar(p)
        PROVE  TypeOK' /\ HeldInv'
    <2>1. /\ at' \in [Sources -> Port]
          /\ \A q \in Sources : at'[q].pos <= Length[at'[q].line] + 1
      BY <1>4, AdvancePort DEF LoseChar
    <2>2. whole' \in [Sources -> BOOLEAN]
      BY <1>4, <1>t DEF LoseChar
    <2> QED BY <1>4, <2>1, <2>2 DEF LoseChar, TypeOK, HeldInv, Port, irqVars, loopVars
  <1>5. CASE Notice
    <2>1. 0 \in 0 .. Size + 1 /\ 0 <= Size
      BY <1>t
    <2>2. ~ loaded
      BY <1>5 DEF Notice, HeldInv
    <2> QED BY <1>5, <2>1, <2>2 DEF Notice, TypeOK, HeldInv, irqVars
  <1>6. CASE Load
    <2>1. i \in 0 .. Size /\ i <= TextLen(cmd)
      BY <1>6, <1>t, TextEnds DEF Load, More, TypeOK
    <2>2. held' = cmd[i] /\ held' \in Char \cup {Nul} /\ (i = Size => held' = Nul)
      BY <1>6, <1>t, <2>1 DEF Load, Buffer
    <2>3. UNCHANGED <<cmd, irqVars, mpc, i, ran, at, whole, disturbed>> /\ loaded' = TRUE
          /\ mpc \in {"trim", "lower"}
      BY <1>6 DEF Load
    <2> QED BY <2>1, <2>2, <2>3 DEF TypeOK, HeldInv, irqVars
  <1>7. CASE Store
    <2>1. i \in 0 .. Size /\ (i = Size => held = Nul) /\ held \in Char \cup {Nul}
      BY <1>7, <1>t DEF Store, TypeOK, HeldInv
    <2>2. cmd' \in Buffer /\ cmd'[Size] = Nul
      BY <1>7, <1>t, <2>1 DEF Store, Buffer
    <2>3. i' \in 0 .. Size + 1
      BY <1>7, <1>t, <2>1 DEF Store
    <2>4. /\ whole' = [q \in Sources |-> whole[q] /\ (held = cmd[i] \/ i >= cmd_cnt)]
          /\ disturbed' = (disturbed \/ held # cmd[i])
          /\ UNCHANGED <<irqVars, mpc, ran, at>> /\ loaded' = FALSE /\ held' = Nul
      BY <1>7 DEF Store
    <2>5. whole' \in [Sources -> BOOLEAN]
      BY <2>4
    <2>6. disturbed' \in BOOLEAN
      BY <2>4
    <2> QED BY <2>2, <2>3, <2>4, <2>5, <2>6 DEF TypeOK, HeldInv, Buffer, irqVars
  <1>8. CASE Trimmed
    <2>1. 0 \in 0 .. Size + 1
      BY <1>t
    <2> QED BY <1>8, <2>1 DEF Trimmed, TypeOK, HeldInv, irqVars
  <1>9. CASE Parse
    <2>1. ran'.crc \in BOOLEAN /\ ran'.disturbed \in BOOLEAN
      <3>1. ran'.crc = crc_required /\ ran'.disturbed = disturbed
        BY <1>9 DEF Parse
      <3> QED BY <3>1 DEF TypeOK
    <2>2. 0 \in 0 .. Size + 1
      BY <1>t
    <2> QED BY <1>9, <2>1, <2>2 DEF Parse, TypeOK, HeldInv, irqVars
  <1>10. CASE Finish
    <2>1. ran'.crc \in BOOLEAN /\ ran'.disturbed \in BOOLEAN
      BY <1>10 DEF Finish, None
    <2> QED BY <1>10, <2>1 DEF Finish, TypeOK, HeldInv
  <1>11. CASE UNCHANGED vars
    BY <1>11 DEF vars, irqVars, loopVars, TypeOK, HeldInv
  <1> QED BY <1>1, <1>2, <1>3, <1>4, <1>5, <1>6, <1>7, <1>8, <1>9, <1>10, <1>11 DEF Next

-----------------------------------------------------------------------------
(* The invariant.                                                          *)

\* The main loop only works on a line that was accepted.
Accepted == mpc # "idle" => data_flag = 1

\* A text that waits to be carried out as one with a CRC is that of a line, as
\* long as nothing has written to it.
Verified ==
    Pending /\ crc_required /\ ~ disturbed => \E l \in Lines : Text(cmd) = Body(l)

\* What the buffer has of a line of which nothing has been lost.
Tracked ==
    \A p \in Sources :
        whole[p] =>
            /\ at[p].pos = 0 => cmd_cnt = 0
            /\ at[p].pos > 0 /\ Length[at[p].line] <= Size =>
                   /\ cmd_cnt = at[p].pos - 1
                   /\ \A k \in 0 .. at[p].pos - 2 :
                          cmd[k] = [line |-> at[p].line, pos |-> k + 1]

LineInv == Accepted /\ Verified /\ VerifiedUnlessDisturbed /\ Tracked

IInv == TypeOK /\ HeldInv /\ LineInv

-----------------------------------------------------------------------------
(* The end of a line.                                                      *)

\* A text whose CRC fits is that of a line, without the CRC.
LEMMA CrcFits ==
    ASSUME NEW b \in Buffer, Hashes(b) # {}, crc_ok(b)
    PROVE  \E l \in Lines : Text([b EXCEPT ![Max(Hashes(b))] = Nul]) = Body(l)
  <1> DEFINE h == Max(Hashes(b))
  <1>1. h \in 0 .. TextLen(b) - 1
    BY LastHash
  <1>2. h \in 0 .. Size /\ b[h] # Nul
    BY <1>1, TextLenFirst
  <1>3. b[h].line \in Lines
    BY <1>2, Lengths DEF Buffer
  <1>4. SubSeq(Text(b), 1, h) = Body(b[h].line)
    BY Zenon DEF crc_ok
  <1>5. Text([b EXCEPT ![h] = Nul]) = SubSeq(Text(b), 1, h)
    BY <1>1, CutText
  <1> QED BY <1>3, <1>4, <1>5

\* A line that is all there is accepted as it was sent.
LEMMA WholeText ==
    ASSUME NEW b \in Buffer, NEW l \in Lines, Length[l] <= Size, b[Length[l]] = Nul,
           \A k \in 0 .. Length[l] - 1 : b[k] = [line |-> l, pos |-> k + 1]
    PROVE  /\ Hashes(b) # {}
           /\ crc_ok(b)
           /\ Text([b EXCEPT ![Max(Hashes(b))] = Nul]) = Body(l)
  <1> DEFINE n == Length[l]
  <1>1. n \in Nat \ {0} /\ n \in 0 .. Size /\ n - 1 \in 0 .. n - 1 /\ Size \in Nat
    BY Lengths
  <1>2. \A k \in 0 .. n - 1 : b[k] # Nul
    <2> TAKE k \in 0 .. n - 1
    <2>1. [line |-> l, pos |-> k + 1] \in Char
      BY <1>1 DEF Char
    <2> QED BY <2>1, Lengths
  <1>3. TextLen(b) = n
    BY <1>1, <1>2, TextLenIs
  <1>4. Hashes(b) = {n - 1}
    <2>1. \A k \in 0 .. n - 1 : IsCrc(b[k]) <=> k = n - 1
      <3> TAKE k \in 0 .. n - 1
      <3>0. b[k] = [line |-> l, pos |-> k + 1]
        OBVIOUS
      <3>1. b[k].pos = k + 1 /\ b[k].line = l /\ b[k] # Nul
        BY <3>0, <1>2
      <3> QED BY <3>1, <1>1 DEF IsCrc
    <2> QED BY <2>1, <1>1, <1>3 DEF Hashes
  <1>5. Max(Hashes(b)) = n - 1
    <2>1. Max(Hashes(b)) \in Hashes(b)
      BY <1>1, <1>4, Greatest
    <2> QED BY <1>4, <2>1
  <1>6. [k \in 1 .. n - 1 |-> b[k - 1]] = Body(l)
    <2>1. \A k \in 1 .. n - 1 : b[k - 1] = [line |-> l, pos |-> k]
      <3> TAKE k \in 1 .. n - 1
      <3>1. k - 1 \in 0 .. n - 1 /\ (k - 1) + 1 = k
        BY <1>1
      <3> QED BY <3>1
    <2> QED BY <2>1 DEF Body
  <1>7. n - 1 \in 0 .. TextLen(b) - 1
    BY <1>1, <1>3
  <1>8. /\ Text([b EXCEPT ![n - 1] = Nul]) = SubSeq(Text(b), 1, n - 1)
        /\ Text([b EXCEPT ![n - 1] = Nul]) = Body(l)
    BY <1>6, <1>7, CutText
  <1>9. b[n - 1].line = l
    <2>1. b[n - 1] = [line |-> l, pos |-> (n - 1) + 1]
      BY <1>1
    <2> QED BY <2>1
  <1>10. crc_ok(b)
    BY <1>5, <1>8, <1>9 DEF crc_ok
  <1> QED BY <1>4, <1>5, <1>8, <1>10

\* The buffer that received_char checks at the end of a line.
Ended == [cmd EXCEPT ![cmd_cnt] = Nul]

LEMMA EndedBuffer == TypeOK => Ended \in Buffer
  BY DEF TypeOK, Ended, Buffer

\* What is accepted with a CRC is the text of a line.
LEMMA EndAccepted ==
    ASSUME TypeOK, NEW p \in Sources, ReceiveEnd(p), crc_ok(Ended), crc_required'
    PROVE  \E l \in Lines : Text(cmd') = Body(l)
  <1>1. Hashes(Ended) # {}
    BY DEF ReceiveEnd, Ended
  <1>2. cmd' = [Ended EXCEPT ![Max(Hashes(Ended))] = Nul]
    BY <1>1 DEF ReceiveEnd, Ended
  <1> QED BY <1>1, <1>2, CrcFits, EndedBuffer

\* A line of which nothing was lost is accepted.
LEMMA EndWhole ==
    ASSUME TypeOK, Tracked, NEW p \in Sources, ReceiveEnd(p), whole[p],
           Length[at[p].line] <= Size
    PROVE  data_flag' = 1 /\ Text(cmd') = Body(at[p].line)
  <1> DEFINE l == at[p].line
  <1>1. /\ at[p].pos = Length[l] + 1 /\ l \in Lines /\ Length[l] \in Nat \ {0} /\ Size \in Nat
        /\ cmd \in Buffer
    BY PortAt, Lengths DEF ReceiveEnd, TypeOK, Buffer
  <1>2. /\ cmd_cnt = Length[l]
        /\ \A k \in 0 .. Length[l] - 1 : cmd[k] = [line |-> l, pos |-> k + 1]
    <2>1. at[p].pos > 0 /\ at[p].pos - 1 = Length[l] /\ at[p].pos - 2 = Length[l] - 1
      BY <1>1
    <2> QED BY <2>1 DEF Tracked
  <1>3. /\ Ended[Length[l]] = Nul
        /\ \A k \in 0 .. Length[l] - 1 : Ended[k] = [line |-> l, pos |-> k + 1]
    BY <1>1, <1>2 DEF Ended, Buffer
  <1>4. /\ Hashes(Ended) # {} /\ crc_ok(Ended)
        /\ Text([Ended EXCEPT ![Max(Hashes(Ended))] = Nul]) = Body(l)
    BY <1>1, <1>3, WholeText, EndedBuffer
  <1>5. data_flag' = 1 /\ cmd' = [Ended EXCEPT ![Max(Hashes(Ended))] = Nul]
    BY <1>4 DEF ReceiveEnd, Ended
  <1> QED BY <1>4, <1>5

-----------------------------------------------------------------------------
(* The steps.                                                              *)

LEMMA StartStep ==
    ASSUME TypeOK, LineInv, NEW p \in Sources, NEW l \in Lines, StartLine(p, l)
    PROVE  LineInv'
  <1>1. /\ UNCHANGED <<cmd, cmd_cnt, data_flag, crc_required, mpc, ran, whole, disturbed>>
        /\ at[p].pos = 0 /\ at'[p].pos = 1 /\ at'[p].line = l
        /\ \A q \in Sources : q # p => at'[q] = at[q]
    BY StartPort DEF StartLine, irqVars, loopVars
  <1>2. Accepted' /\ Verified' /\ VerifiedUnlessDisturbed'
    BY <1>1 DEF LineInv, Accepted, Verified, Pending, VerifiedUnlessDisturbed, Text, TextLen
  <1>3. Tracked'
    <2> SUFFICES ASSUME NEW q \in Sources, whole'[q]
                 PROVE  /\ at'[q].pos = 0 => cmd_cnt' = 0
                        /\ at'[q].pos > 0 /\ Length[at'[q].line] <= Size =>
                               /\ cmd_cnt' = at'[q].pos - 1
                               /\ \A k \in 0 .. at'[q].pos - 2 :
                                      cmd'[k] = [line |-> at'[q].line, pos |-> k + 1]
      BY DEF Tracked
    <2>1. CASE q = p
      BY <1>1, <2>1 DEF LineInv, Tracked
    <2>2. CASE q # p
      BY <1>1, <2>2 DEF LineInv, Tracked
    <2> QED BY <2>1, <2>2
  <1> QED BY <1>2, <1>3 DEF LineInv

LEMMA CharStep ==
    ASSUME TypeOK, LineInv, NEW p \in Sources, ReceiveChar(p)
    PROVE  LineInv'
  <1>1. /\ at[p].pos \in Nat /\ at[p].pos > 0 /\ at[p].pos <= Length[at[p].line]
        /\ at[p].line \in Lines /\ Length[at[p].line] \in Nat
        /\ UNCHANGED <<data_flag, crc_required, mpc, ran>>
        /\ disturbed' = (disturbed \/ Pending)
        /\ whole' = [q \in Sources |-> q = p /\ whole[q]]
    BY PortAt DEF ReceiveChar, CharIn, loopVars
  <1>2. at'[p].pos = at[p].pos + 1 /\ at'[p].line = at[p].line
    BY <1>1, AdvancePort DEF ReceiveChar, CharIn
  <1>3. Accepted' /\ VerifiedUnlessDisturbed'
    BY <1>1 DEF LineInv, Accepted, VerifiedUnlessDisturbed
  <1>4. Verified'
    <2>1. Pending' => disturbed'
      BY <1>1 DEF Pending
    <2> QED BY <2>1 DEF Verified
  <1>5. Tracked'
    <2>p. \A q \in Sources : whole'[q] => q = p /\ whole[p]
      BY <1>1
    <2> SUFFICES ASSUME whole[p], Length[at[p].line] <= Size
                 PROVE  /\ cmd_cnt' = at[p].pos
                        /\ \A k \in 0 .. at[p].pos - 1 :
                               cmd'[k] = [line |-> at[p].line, pos |-> k + 1]
      <3>1. at'[p].pos - 1 = at[p].pos /\ at'[p].pos - 2 = at[p].pos - 1 /\ at'[p].pos # 0
        BY <1>1, <1>2
      <3> QED BY <1>2, <2>p, <3>1 DEF Tracked
    <2>1. /\ cmd_cnt = at[p].pos - 1
          /\ \A k \in 0 .. at[p].pos - 2 : cmd[k] = [line |-> at[p].line, pos |-> k + 1]
      BY <1>1 DEF LineInv, Tracked
    <2>2. cmd_cnt < Size /\ cmd_cnt \in 0 .. Size /\ Size \in Nat
      BY <1>1, <2>1, Lengths
    <2>3. cmd_cnt' = cmd_cnt + 1 /\ cmd' = [cmd EXCEPT ![cmd_cnt] = CharAt(p)]
      <3>1. ~ (cmd_cnt >= Size)
        BY <2>2
      <3> QED BY <3>1 DEF ReceiveChar
    <2>4. cmd'[cmd_cnt] = CharAt(p) /\ \A k \in 0 .. cmd_cnt - 1 : cmd'[k] = cmd[k]
      BY <2>2, <2>3 DEF TypeOK
    <2>5. CharAt(p) = [line |-> at[p].line, pos |-> cmd_cnt + 1]
      BY <1>1, <2>1 DEF CharAt
    <2>6. ASSUME NEW k \in 0 .. at[p].pos - 1
          PROVE  cmd'[k] = [line |-> at[p].line, pos |-> k + 1]
      <3>1. CASE k = cmd_cnt
        BY <2>4, <2>5, <3>1
      <3>2. CASE k # cmd_cnt
        <4>1. k \in 0 .. cmd_cnt - 1 /\ k \in 0 .. at[p].pos - 2
          BY <1>1, <2>1, <3>2
        <4> QED BY <2>1, <2>4, <4>1
      <3> QED BY <3>1, <3>2
    <2> QED BY <1>1, <2>1, <2>3, <2>6
  <1> QED BY <1>3, <1>4, <1>5 DEF LineInv

LEMMA EndStep ==
    ASSUME TypeOK, LineInv, NEW p \in Sources, ReceiveEnd(p)
    PROVE  LineInv'
  <1>1. at[p].pos \in Nat /\ at[p].pos > 0 /\ at[p].pos > Length[at[p].line]
    BY PortAt DEF ReceiveEnd
  <1>2. at'[p].pos = 0 /\ \A q \in Sources : q # p => at'[q] = at[q]
    BY <1>1, AdvancePort DEF ReceiveEnd, EndIn
  <1>3. /\ UNCHANGED <<mpc, ran>> /\ cmd_cnt' = 0
        /\ whole' = [q \in Sources |-> q = p \/ at[q].pos <= 1]
    BY DEF ReceiveEnd, EndIn, loopVars
  <1>4. IF crc_ok(Ended) THEN data_flag' = 1 /\ disturbed' = FALSE
                         ELSE data_flag' = data_flag /\ disturbed' = (disturbed \/ Pending)
    BY DEF ReceiveEnd, Ended
  <1>5. Accepted' /\ VerifiedUnlessDisturbed'
    BY <1>3, <1>4 DEF LineInv, Accepted, VerifiedUnlessDisturbed
  <1>6. Verified'
    <2> SUFFICES ASSUME Pending', crc_required', ~ disturbed'
                 PROVE  \E l \in Lines : Text(cmd') = Body(l)
      BY DEF Verified, Text, TextLen
    <2>1. crc_ok(Ended)
      BY <1>3, <1>4 DEF Pending
    <2> QED BY <2>1, EndAccepted
  <1>7. Tracked'
    <2> SUFFICES ASSUME NEW q \in Sources, whole'[q]
                 PROVE  at'[q].pos \in {0, 1}
      <3>1. ASSUME NEW q \in Sources, at'[q].pos \in {0, 1}
            PROVE  /\ at'[q].pos > 0 => at'[q].pos - 1 = 0
                   /\ \A k \in 0 .. at'[q].pos - 2 : FALSE
        BY <3>1
      <3> QED BY <1>3, <3>1 DEF Tracked
    <2>1. q = p \/ at[q].pos <= 1
      BY <1>3
    <2> QED BY <1>2, <2>1, PortAt
  <1> QED BY <1>5, <1>6, <1>7 DEF LineInv

LEMMA LoseStep ==
    ASSUME TypeOK, LineInv, NEW p \in Sources, LoseChar(p)
    PROVE  LineInv'
  <1>1. /\ UNCHANGED <<cmd, cmd_cnt, data_flag, crc_required, mpc, ran, disturbed>>
        /\ whole' = [whole EXCEPT ![p] = FALSE]
        /\ \A q \in Sources : q # p => at'[q] = at[q]
    BY AdvancePort DEF LoseChar, irqVars, loopVars
  <1>2. Accepted' /\ Verified' /\ VerifiedUnlessDisturbed'
    BY <1>1 DEF LineInv, Accepted, Verified, Pending, VerifiedUnlessDisturbed, Text, TextLen
  <1>3. \A q \in Sources : whole'[q] => q # p /\ whole[q]
    BY <1>1 DEF TypeOK
  <1>4. Tracked'
    BY <1>1, <1>3 DEF LineInv, Tracked
  <1> QED BY <1>2, <1>4 DEF LineInv

\* A store that brings back what an interrupt has overwritten shows in the
\* histories; any other one changes nothing.
LEMMA StoreStep ==
    ASSUME TypeOK, HeldInv, LineInv, Store
    PROVE  LineInv'
  <1>1. /\ UNCHANGED <<cmd_cnt, data_flag, crc_required, mpc, ran, at>>
        /\ cmd' = [cmd EXCEPT ![i] = held]
        /\ whole' = [q \in Sources |-> whole[q] /\ (held = cmd[i] \/ i >= cmd_cnt)]
        /\ disturbed' = (disturbed \/ held # cmd[i])
        /\ cmd \in Buffer /\ i \in 0 .. Size /\ cmd_cnt \in 0 .. Size /\ Size \in Nat
    BY Lengths DEF Store, irqVars, TypeOK, Buffer
  <1>2. Accepted' /\ VerifiedUnlessDisturbed'
    BY <1>1 DEF LineInv, Accepted, VerifiedUnlessDisturbed
  <1>3. held = cmd[i] => cmd' = cmd
    BY <1>1 DEF Buffer
  <1>4. Verified'
    <2> SUFFICES ASSUME Pending', crc_required', ~ disturbed'
                 PROVE  \E l \in Lines : Text(cmd') = Body(l)
      BY DEF Verified, Text, TextLen
    <2>1. ~ disturbed /\ held = cmd[i]
      BY <1>1
    <2>2. Pending /\ crc_required /\ cmd' = cmd
      BY <1>1, <1>3, <2>1 DEF Pending
    <2> QED BY <2>1, <2>2 DEF LineInv, Verified
  <1>5. Tracked'
    <2> SUFFICES ASSUME NEW q \in Sources, whole'[q]
                 PROVE  /\ at[q].pos = 0 => cmd_cnt = 0
                        /\ at[q].pos > 0 /\ Length[at[q].line] <= Size =>
                               /\ cmd_cnt = at[q].pos - 1
                               /\ \A k \in 0 .. at[q].pos - 2 :
                                      cmd'[k] = [line |-> at[q].line, pos |-> k + 1]
      BY <1>1 DEF Tracked
    <2>1. whole[q] /\ (held = cmd[i] \/ i >= cmd_cnt)
      BY <1>1
    <2>2. \A k \in 0 .. cmd_cnt - 1 : cmd'[k] = cmd[k]
      BY <1>1, <1>3, <2>1 DEF Buffer
    <2>3. at[q].pos \in Nat
      BY PortAt
    <2>4. ASSUME at[q].pos > 0, Length[at[q].line] <= Size
          PROVE  \A k \in 0 .. at[q].pos - 2 : cmd'[k] = [line |-> at[q].line, pos |-> k + 1]
      <3> TAKE k \in 0 .. at[q].pos - 2
      <3>1. cmd_cnt = at[q].pos - 1 /\ cmd[k] = [line |-> at[q].line, pos |-> k + 1]
        BY <2>1, <2>4 DEF LineInv, Tracked
      <3>2. k \in 0 .. cmd_cnt - 1
        BY <3>1, <2>3
      <3> QED BY <2>2, <3>1, <3>2
    <2> QED BY <2>1, <2>4 DEF LineInv, Tracked
  <1> QED BY <1>2, <1>4, <1>5 DEF LineInv

LEMMA CommandStep ==
    ASSUME TypeOK, LineInv, Notice \/ Load \/ Trimmed \/ Parse \/ Finish
    PROVE  LineInv'
  <1>1. UNCHANGED <<cmd, cmd_cnt, crc_required, at, whole, disturbed>>
    BY DEF Notice, Load, Trimmed, Parse, Finish, irqVars
  <1>2. Tracked'
    BY <1>1 DEF LineInv, Tracked
  <1>3. CASE Notice \/ Load \/ Trimmed
    <2>1. /\ mpc # "respond" /\ mpc' # "respond" /\ UNCHANGED <<data_flag, ran>>
          /\ data_flag = 1
      BY <1>3 DEF Notice, Load, Trimmed, irqVars, LineInv, Accepted
    <2>2. Accepted' /\ VerifiedUnlessDisturbed'
      BY <2>1 DEF Accepted, VerifiedUnlessDisturbed
    <2>3. Verified'
      BY <1>1, <2>1 DEF LineInv, Verified, Pending, Text, TextLen
    <2> QED BY <1>2, <2>2, <2>3 DEF LineInv
  <1>4. CASE Parse
    <2>1. mpc = "lower" /\ mpc' = "respond" /\ data_flag' = data_flag /\ data_flag = 1
      BY <1>4 DEF Parse, irqVars, LineInv, Accepted
    <2>2. ran'.text = Text(cmd) /\ ran'.crc = crc_required /\ ran'.disturbed = disturbed
      BY <1>4 DEF Parse
    <2>3. Accepted' /\ Verified'
      BY <2>1 DEF Accepted, Verified, Pending
    <2>4. VerifiedUnlessDisturbed'
      BY <2>1, <2>2 DEF LineInv, Verified, Pending, VerifiedUnlessDisturbed
    <2> QED BY <1>2, <2>3, <2>4 DEF LineInv
  <1>5. CASE Finish
    BY <1>1, <1>2, <1>5 DEF Finish, LineInv, Accepted, Verified, Pending,
                            VerifiedUnlessDisturbed
  <1> QED BY <1>3, <1>4, <1>5

LEMMA Initially == Init => IInv
  <1> SUFFICES ASSUME Init PROVE IInv
    OBVIOUS
  <1>1. PICK quiet \in Port : quiet = Quiet /\ quiet.pos = 0
    BY QuietPort
  <1>2. quiet.line \in Lines /\ Length[quiet.line] \in Nat /\ Size \in Nat
    BY <1>1, Lengths DEF Port
  <1>3. at = [p \in Sources |-> quiet]
    BY <1>1 DEF Init
  <1>q. quiet.pos = 0 /\ quiet.pos <= Length[quiet.line] + 1
    <2>1. quiet.pos = 0
      BY <1>1
    <2> QED BY <2>1, <1>2
  <1>4. TypeOK
    <2>1. at \in [Sources -> Port]
      BY <1>3
    <2>2. ran.crc \in BOOLEAN /\ ran.disturbed \in BOOLEAN
      BY DEF Init, None
    <2>3. \A p \in Sources : at[p].pos <= Length[at[p].line] + 1
      BY <1>q, <1>3
    <2>4. 0 \in 0 .. Size /\ 0 \in 0 .. Size + 1 /\ Size \in 0 .. Size
      BY <1>2
    <2>5. cmd \in [0 .. Size -> Char \cup {Nul}] /\ cmd[Size] = Nul
      BY <2>4 DEF Init
    <2> QED BY <2>1, <2>2, <2>3, <2>4, <2>5 DEF Init, TypeOK, Port
  <1>5. LineInv
    <2>1. \A p \in Sources : at[p].pos = 0 /\ ~ (at[p].pos > 0)
      BY <1>q, <1>3
    <2>2. mpc = "idle" /\ data_flag = 0 /\ cmd_cnt = 0
      BY DEF Init
    <2>3. Accepted /\ Tracked
      BY <2>1, <2>2 DEF Accepted, Tracked
    <2>4. Verified /\ VerifiedUnlessDisturbed
      BY <2>2 DEF Verified, Pending, VerifiedUnlessDisturbed
    <2> QED BY <2>3, <2>4 DEF LineInv
  <1>6. HeldInv
    BY DEF Init, HeldInv
  <1> QED BY <1>4, <1>5, <1>6 DEF IInv

LEMMA Inductive == IInv /\ [Next]_vars => IInv'
  <1> SUFFICES ASSUME IInv, [Next]_vars PROVE IInv'
    OBVIOUS
  <1>1. TypeOK /\ HeldInv /\ TypeOK' /\ HeldInv' /\ LineInv
    BY TypeStep DEF IInv
  <1>2. LineInv'
    <2>1. CASE Notice \/ Load \/ Trimmed \/ Parse \/ Finish
      BY <1>1, <2>1, CommandStep
    <2>2. CASE Store
      BY <1>1, <2>2, StoreStep
    <2>3. CASE UNCHANGED vars
      BY <1>1, <2>3 DEF vars, irqVars, loopVars, LineInv, Accepted, Verified, Pending,
                        VerifiedUnlessDisturbed, Tracked, Text, TextLen
    <2>4. ASSUME NEW p \in Sources,
                 (\E l \in Lines : StartLine(p, l)) \/ ReceiveChar(p) \/ ReceiveEnd(p) \/ LoseChar(p)
          PROVE  LineInv'
      BY <1>1, <2>4, StartStep, CharStep, EndStep, LoseStep
    <2> QED BY <2>1, <2>2, <2>3, <2>4 DEF Next
  <1> QED BY <1>1, <1>2 DEF IInv

-----------------------------------------------------------------------------
(* What the specification guarantees.                                      *)

\* What the buffer holds, what waits to be carried out and what the ports send
\* stay consistent through every character, end of line, load and store.
THEOREM Invariance == Spec => []IInv
  BY Initially, Inductive, PTL DEF Spec

\* The counter and the index of the main loop never leave cmd by more than the
\* byte the terminator needs, and the buffer only holds characters that were
\* sent, on any number of ports.
THEOREM TypeCorrect == Spec => []TypeOK
  <1>1. IInv => TypeOK
    BY DEF IInv
  <1> QED BY Invariance, <1>1, PTL

\* The main loop carries out a text as checked that nobody sent only when an
\* interrupt wrote to the buffer after crc_ok had accepted a line.
THEOREM CarriesOutVerified == Spec => []VerifiedUnlessDisturbed
  <1>1. IInv => VerifiedUnlessDisturbed
    BY DEF IInv, LineInv
  <1> QED BY Invariance, <1>1, PTL

\* A line that fits and of which nothing is lost or overwritten is accepted,
\* whatever came before it on any port and whatever the main loop is at.
THEOREM AcceptsWholeLine == Spec => WholeLineAccepted
  <1> DEFINE A == \A p \in Sources :
                     ReceiveEnd(p) /\ whole[p] /\ Length[at[p].line] <= Size =>
                         data_flag' = 1 /\ Text(cmd)' = Body(at[p].line)
  <1>1. IInv /\ [Next]_vars => [A]_vars
    <2> SUFFICES ASSUME IInv, NEW p \in Sources, ReceiveEnd(p), whole[p],
                        Length[at[p].line] <= Size
                 PROVE  data_flag' = 1 /\ Text(cmd)' = Body(at[p].line)
      OBVIOUS
    <2>1. TypeOK /\ Tracked
      BY DEF IInv, LineInv
    <2>2. data_flag' = 1 /\ Text(cmd') = Body(at[p].line)
      BY <2>1, EndWhole
    <2> QED BY <2>2 DEF Text, TextLen
  <1>2. Spec => [][A]_vars
    BY Invariance, <1>1, PTL DEF Spec
  <1> QED BY <1>2 DEF WholeLineAccepted
=============================================================================
